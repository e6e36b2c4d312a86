--------------------------- MODULE InterviewVoice ---------------------------
(***************************************************************************)
(* The audio of one interview session (interview-worker:                   *)
(* interview-websocket.gateway.ts with the speech adapters).  The gateway  *)
(* keeps maps by session: a buffer of chunks, a streaming recognizer and   *)
(* whether the microphone is muted.  Several sockets may belong to one     *)
(* session, one after the other or side by side.  Only a socket that was   *)
(* initialized with the session cleans up when it closes; audio and mutes  *)
(* name their session themselves and come from any socket.                 *)
(*                                                                         *)
(* A chunk is converted with awaits before the maps are looked at.  With a *)
(* recognizer it goes there, else to the buffer, which is transcribed when *)
(* BatchSize chunks are in it, and at a disconnect.                        *)
(*                                                                         *)
(* Left out: text messages and code runs, which keep nothing here; the     *)
(* playing of agent audio and the response times, whose starts             *)
(* (sendAgentAudio, trackQuestionStart) are called by nothing; the push-to-*)
(* talk flag, which is never read.  A stop of push-to-talk with audio is a *)
(* HandleAudio.  The map of start times comes and goes with the others.    *)
(***************************************************************************)
EXTENDS Naturals, Sequences, FiniteSets

CONSTANTS
  Sockets,    \* connections to the gateway
  MaxInits,   \* bound: inits under way and recognizers made
  MaxChunks,  \* bound: audio messages
  BatchSize   \* 10 in the code

VARIABLES
  speech,       \* "text": a text session; else how recognizers work:
                \* "sdk" writes to a stream, "rest" collects chunks of its own
  sockets,      \* socket -> "apart", "joined" (its sessionId is this one), "closed"
  initing,      \* how many inits await the session
  muted,        \* mutedSessions has the session
  arrival,      \* chunk -> "unsent"; while it is converted "open" or "muted", as
                \* the microphone was; then "kept", "keptMuted" or "dropped"
  audioBuffer,  \* the chunks in the buffer of the session
  recognizer,   \* the recognizer of the session in the gateway's map, 0 if none
  streams,      \* every recognizer made: its status and the chunks it holds
  batches,      \* transcriptions under way
  transcribed,  \* chunk -> transcriptions of it that are over, well or badly
  crossed,      \* for the properties: chunks that another chunk, a disconnect or
                \* an init met in the buffer when it should not
  calm          \* for the properties: sockets took turns, nothing came or ended
                \* while none of the session was there

Chunks == 1..MaxChunks  \* audio messages, in the order in which they arrive

voiceVars == <<speech, sockets, initing, muted, arrival, audioBuffer, recognizer,
               streams, batches, transcribed, crossed, calm>>

VoiceInit ==
  /\ speech \in {"text", "sdk", "rest"}
  /\ sockets = [s \in Sockets |-> "apart"]
  /\ initing = 0 /\ muted = FALSE
  /\ arrival = [k \in Chunks |-> "unsent"]
  /\ audioBuffer = {} /\ recognizer = 0 /\ streams = <<>> /\ batches = {}
  /\ transcribed = [k \in Chunks |-> 0]
  /\ crossed = {} /\ calm = TRUE

Converting == {k \in Chunks : arrival[k] \in {"open", "muted"}}
Joined(s) == sockets[s] = "joined"
SomeJoined == \E s \in Sockets : Joined(s)

\* transcribeAudioChunk of a buffer ("chunk"), at a disconnect ("final"); by a
\* recognizer ("stream"), which is closed behind the last one ("last").
Batch(use, stream, chunks) == [use |-> use, stream |-> stream, chunks |-> chunks]
Clearing == {b \in batches : b.use = "chunk"}

\* What is in the buffer while a transcription is going to clear it.
CrossedIfClearing(chunks) == crossed \cup IF Clearing # {} THEN chunks ELSE {}

\* init gives the session an empty buffer before it asks for the session.  A
\* socket may say it again.
HandleInit(s) ==
  /\ sockets[s] # "closed" /\ initing + Len(streams) < MaxInits
  /\ sockets' = [sockets EXCEPT ![s] = "joined"]
  /\ initing' = initing + 1
  /\ audioBuffer' = {}
  /\ crossed' = crossed \cup audioBuffer
  /\ calm' = (calm /\ ~SomeJoined)
  /\ UNCHANGED <<speech, muted, arrival, recognizer, streams, batches, transcribed>>

\* A socket of this session is initialized with another one.
InitElsewhere(s) ==
  /\ Joined(s)
  /\ sockets' = [sockets EXCEPT ![s] = "apart"]
  /\ calm' = FALSE
  /\ UNCHANGED <<speech, initing, muted, arrival, audioBuffer, recognizer, streams, batches,
                 transcribed, crossed>>

\* A voice session gets a recognizer, in the place of the one there was.
InitCompletes ==
  /\ initing > 0 /\ initing' = initing - 1
  /\ streams' = IF speech = "text" THEN streams
                ELSE Append(streams, [status |-> "open", chunks |-> {}])
  /\ recognizer' = IF speech = "text" THEN recognizer ELSE Len(streams')
  /\ UNCHANGED <<speech, sockets, muted, arrival, audioBuffer, batches, transcribed,
                 crossed, calm>>

\* No such session (the gateway closes the socket), or the lookup throws.
InitFails ==
  /\ initing > 0 /\ initing' = initing - 1
  /\ UNCHANGED <<speech, sockets, muted, arrival, audioBuffer, recognizer, streams,
                 batches, transcribed, crossed, calm>>

HandleAudio(s, k) ==
  /\ sockets[s] # "closed" /\ arrival[k] = "unsent"
  /\ \A j \in 1..(k - 1) : arrival[j] # "unsent"
  /\ arrival' = [arrival EXCEPT ![k] = IF muted THEN "muted" ELSE "open"]
  /\ calm' = (calm /\ SomeJoined)
  /\ UNCHANGED <<speech, sockets, initing, muted, audioBuffer, recognizer, streams,
                 batches, transcribed, crossed>>

\* The conversion is over: "Ignore audio if muted".
DropAudio(k) ==
  /\ k \in Converting /\ muted
  /\ arrival' = [arrival EXCEPT ![k] = "dropped"]
  /\ UNCHANGED <<speech, sockets, initing, muted, audioBuffer, recognizer, streams,
                 batches, transcribed, crossed, calm>>

Keep(k) ==
  /\ k \in Converting /\ ~muted
  /\ arrival' = [arrival EXCEPT ![k] = IF @ = "muted" THEN "keptMuted" ELSE "kept"]

\* streamAudioChunk; processBufferedAudio empties the recognizer before it awaits.
StreamAudio(k) ==
  /\ Keep(k) /\ recognizer # 0
  /\ LET held == streams[recognizer].chunks \cup {k} IN
     IF speech = "sdk"
     THEN transcribed' = [transcribed EXCEPT ![k] = @ + 1] /\ UNCHANGED <<streams, batches>>
     ELSE /\ streams' = [streams EXCEPT ![recognizer].chunks =
                           IF Cardinality(held) < BatchSize THEN held ELSE {}]
          /\ batches' = IF Cardinality(held) < BatchSize THEN batches
                        ELSE batches \cup {Batch("stream", recognizer, held)}
          /\ UNCHANGED transcribed
  /\ UNCHANGED <<speech, sockets, initing, muted, audioBuffer, recognizer, crossed, calm>>

BufferAudio(k) ==
  /\ Keep(k) /\ recognizer = 0
  /\ audioBuffer' = audioBuffer \cup {k}
  /\ batches' = IF Cardinality(audioBuffer') < BatchSize THEN batches
                ELSE batches \cup {Batch("chunk", 0, audioBuffer')}
  /\ crossed' = CrossedIfClearing(audioBuffer')
  /\ UNCHANGED <<speech, sockets, initing, muted, recognizer, streams, transcribed, calm>>

\* Mutated form: the buffer is not cleared.
TranscribedUncleared(b) ==
  /\ b \in batches
  /\ batches' = batches \ {b}
  /\ transcribed' = [k \in Chunks |-> transcribed[k] + IF k \in b.chunks THEN 1 ELSE 0]
  /\ streams' = IF b.use = "last" THEN [streams EXCEPT ![b.stream].status = "closed"] ELSE streams
  /\ UNCHANGED <<speech, sockets, initing, muted, arrival, audioBuffer, recognizer,
                 crossed, calm>>

\* Well or badly, the chunks are gone; the buffer is cleared of whatever is in it.
TranscriptionEnds(b) ==
  /\ b \in batches
  /\ batches' = batches \ {b}
  /\ transcribed' = [k \in Chunks |-> transcribed[k] + IF k \in b.chunks THEN 1 ELSE 0]
  /\ audioBuffer' = IF b.use = "chunk" THEN {} ELSE audioBuffer
  /\ streams' = IF b.use = "last" THEN [streams EXCEPT ![b.stream].status = "closed"] ELSE streams
  /\ UNCHANGED <<speech, sockets, initing, muted, arrival, recognizer, crossed, calm>>

\* finalizeStream: an SDK stream ends after a while; the chunks left in another
\* are transcribed first.
FinalizedStream ==
  IF recognizer = 0 THEN streams
  ELSE [streams EXCEPT ![recognizer] =
          [status |-> IF speech = "rest" /\ @.chunks = {} THEN "closed" ELSE "ending",
           chunks |-> {}]]

FinalBatches ==
  {Batch("final", 0, audioBuffer)}
    \cup IF recognizer = 0 THEN {} ELSE {Batch("last", recognizer, streams[recognizer].chunks)}

\* Mutated form: the map keeps the recognizer that is finalized.
DisconnectKeepingRecognizer(s) ==
  /\ Joined(s)
  /\ sockets' = [sockets EXCEPT ![s] = "closed"]
  /\ batches' = batches \cup {b \in FinalBatches : b.chunks # {}}
  /\ streams' = FinalizedStream
  /\ audioBuffer' = {} /\ muted' = FALSE
  /\ crossed' = CrossedIfClearing(audioBuffer)
  /\ calm' = (calm /\ initing = 0 /\ Converting = {})
  /\ UNCHANGED <<speech, initing, arrival, recognizer, transcribed>>

\* A socket of the session cleans up all the gateway keeps of it.
HandleDisconnect(s) ==
  /\ Joined(s)
  /\ sockets' = [sockets EXCEPT ![s] = "closed"]
  /\ batches' = batches \cup {b \in FinalBatches : b.chunks # {}}
  /\ streams' = FinalizedStream
  /\ audioBuffer' = {} /\ recognizer' = 0 /\ muted' = FALSE
  /\ crossed' = CrossedIfClearing(audioBuffer)
  /\ calm' = (calm /\ initing = 0 /\ Converting = {})
  /\ UNCHANGED <<speech, initing, arrival, transcribed>>

\* Another one leaves it all.
DisconnectApart(s) ==
  /\ sockets[s] = "apart"
  /\ sockets' = [sockets EXCEPT ![s] = "closed"]
  /\ UNCHANGED <<speech, initing, muted, arrival, audioBuffer, recognizer, streams, batches,
                 transcribed, crossed, calm>>

\* The timer of finalizeStream for an SDK stream.
StreamEnds(i) ==
  /\ speech = "sdk" /\ i \in DOMAIN streams /\ streams[i].status = "ending"
  /\ streams' = [streams EXCEPT ![i].status = "closed"]
  /\ UNCHANGED <<speech, sockets, initing, muted, arrival, audioBuffer, recognizer,
                 batches, transcribed, crossed, calm>>

HandleMute(s, mute) ==
  /\ sockets[s] # "closed"
  /\ muted' = mute
  /\ calm' = (calm /\ SomeJoined)
  /\ UNCHANGED <<speech, sockets, initing, arrival, audioBuffer, recognizer, streams, batches,
                 transcribed, crossed>>

VoiceNext ==
  \/ \E s \in Sockets :
       \/ HandleInit(s) \/ InitElsewhere(s)
       \/ HandleDisconnect(s) \/ DisconnectApart(s)
       \/ \E mute \in BOOLEAN : HandleMute(s, mute)
       \/ \E k \in Chunks : HandleAudio(s, k)
  \/ InitCompletes \/ InitFails
  \/ \E k \in Chunks : DropAudio(k) \/ StreamAudio(k) \/ BufferAudio(k)
  \/ \E b \in batches : TranscriptionEnds(b)
  \/ \E i \in DOMAIN streams : StreamEnds(i)

VoiceSpec == VoiceInit /\ [][VoiceNext]_voiceVars

-----------------------------------------------------------------------------
(***************************************************************************)
(* Properties                                                              *)
(***************************************************************************)

Kept(k) == arrival[k] \in {"kept", "keptMuted"}

\* How often a chunk is on its way to a transcript, or was.  A chunk that stays
\* in the buffer while it is transcribed is there once.
Holders(k) ==
  transcribed[k]
    + Cardinality({b \in batches : k \in b.chunks})
    + Cardinality({i \in DOMAIN streams : k \in streams[i].chunks})
    + IF k \in audioBuffer /\ \A b \in Clearing : k \notin b.chunks THEN 1 ELSE 0

\* Audio that is kept is transcribed exactly once, if no other chunk, no init
\* and no disconnect came while the buffer was about to be cleared; audio that
\* went to a recognizer always is.
AudioIsAccounted == \A k \in Chunks \ crossed : Kept(k) => Holders(k) = 1

\* The recognizer in the map takes audio, and one that is closed holds none.
RecognizersAreOpen ==
  /\ recognizer # 0 => streams[recognizer].status = "open"
  /\ \A i \in DOMAIN streams : streams[i].status # "open" => streams[i].chunks = {}

\* When sockets took turns, audio and mutes came while one of the session was
\* there and no handler outlived its own, nothing is left of the session behind
\* the last disconnect.
CalmSessionsLeaveNothing ==
  calm /\ batches = {} /\ ~SomeJoined =>
    /\ audioBuffer = {} /\ recognizer = 0 /\ ~muted
    /\ \A i \in DOMAIN streams : streams[i].status # "open"

\* The voice of a session: its audio, its recognizers, its end.
VoiceIsSound == AudioIsAccounted /\ RecognizersAreOpen /\ CalmSessionsLeaveNothing
=============================================================================
