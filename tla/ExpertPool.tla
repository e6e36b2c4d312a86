------------------------------ MODULE ExpertPool ------------------------------
(***************************************************************************)
(* The expert pool of the assistant worker                                 *)
(* (expert-pool-manager.service.ts): allocation, coordinated execution     *)
(* behind a semaphore with a timer and an AbortController, release,        *)
(* abortAll and the change of the limit.                                   *)
(*                                                                         *)
(* An expert gets its id from the clock and its index in the request, so   *)
(* two requests of one millisecond give the same id; every map is keyed by *)
(* it.  The body of an execution runs in the semaphore (p-limit, external: *)
(* first come, first served; its slot is passed on as soon as the body is  *)
(* over) and everything after it up to the report follows without a break. *)
(* Node collisions, metrics, the contents of work logs and whether an      *)
(* expert is marked available or busy, which nothing here reads, are left  *)
(* out.                                                                    *)
(***************************************************************************)
EXTENDS Naturals, Sequences, FiniteSets

CONSTANTS
  Experts,    \* experts, numbered in the order of their requests
  Ids,        \* the ids a clock and an index give
  Limits,     \* values of maxConcurrentExperts; the constructor takes 1
  MaxUpdates  \* bound on the changes of the limit

ASSUME ExpertAssumption ==
  /\ Experts \subseteq Nat \ {0} /\ IsFiniteSet(Experts)
  /\ Limits \subseteq Nat \ {0}
  /\ MaxUpdates \in Nat

NoExpert == 0

VARIABLES
  phase,       \* expert -> idle, allocated (no factory), waiting, running, done
  id,          \* expert -> its id once it is allocated
  expertPool,  \* the ids in the pool
  activeExecutions,  \* id -> the expert whose execution is tracked under it
  workLogs,    \* the ids that have a work log
  timers,      \* the experts whose timer is armed
  aborted,     \* the experts whose AbortController has been aborted
  status,      \* expert -> status in its report
  limiters,    \* the semaphores made so far: [limit, queue, running]
  stats,       \* totals by outcome; the other statistics are computed from the maps
  updates      \* changes of the limit so far

expertVars == <<phase, id, expertPool, activeExecutions, workLogs, timers, aborted,
                status, limiters, stats, updates>>

NewLimiter(limit) == [limit |-> limit, queue |-> <<>>, running |-> {}]

maxConcurrentExperts == limiters[Len(limiters)].limit
Tracked == {i \in Ids : activeExecutions[i] # NoExpert}

PoolInit ==
  /\ phase = [e \in Experts |-> "idle"]
  /\ id = [e \in Experts |-> NoExpert]
  /\ expertPool = {}
  /\ activeExecutions = [i \in Ids |-> NoExpert]
  /\ workLogs = {}
  /\ timers = {}
  /\ aborted = {}
  /\ status = [e \in Experts |-> "completed"]
  /\ limiters = <<NewLimiter(1)>>
  /\ stats = [completed |-> 0, failed |-> 0, timeout |-> 0, escalated |-> 0]
  /\ updates = 0

\* createExpertAgent and the entry in the pool; an expert of the same id is replaced.
Create(e, i) ==
  /\ phase[e] = "idle" /\ \A f \in Experts : f < e => phase[f] # "idle"
  /\ id' = [id EXCEPT ![e] = i]
  /\ expertPool' = expertPool \cup {i}

\* allocateExperts without a factory
AllocateExperts(e, i) ==
  /\ Create(e, i)
  /\ phase' = [phase EXCEPT ![e] = "allocated"]
  /\ UNCHANGED <<activeExecutions, workLogs, timers, aborted, status, limiters, stats, updates>>

-----------------------------------------------------------------------------
\* p-limit, external: admit a call, and pass the slot of e on to the next one.
Admit(l, e) ==
  IF Cardinality(l.running) < l.limit
    THEN [l EXCEPT !.running = @ \cup {e}]
  ELSE [l EXCEPT !.queue = Append(@, e)]

Vacate(l, e) ==
  IF e \notin l.running THEN l
  ELSE IF l.queue = <<>> THEN [l EXCEPT !.running = @ \ {e}]
  ELSE [l EXCEPT !.running = (@ \ {e}) \cup {Head(l.queue)}, !.queue = Tail(@)]

\* The phases that the semaphores give to the calls in them.
Phases(ls) ==
  [e \in Experts |->
     IF \E n \in DOMAIN ls : e \in ls[n].running THEN "running"
     ELSE IF \E n \in DOMAIN ls : \E k \in DOMAIN ls[n].queue : ls[n].queue[k] = e
       THEN "waiting"
     ELSE IF phase[e] \in {"waiting", "running"} THEN "done"
     ELSE phase[e]]

\* allocateAndExecute, executeExpertWithCoordination up to its await: the timer
\* is armed before the semaphore has a slot.
AllocateAndExecute(e, i) ==
  /\ Create(e, i)
  /\ workLogs' = workLogs \cup {i}
  /\ timers' = timers \cup {e}
  /\ limiters' = [limiters EXCEPT ![Len(limiters)] = Admit(@, e)]
  /\ phase' = Phases(limiters')
  /\ activeExecutions' = [activeExecutions EXCEPT ![i] = e]
  /\ UNCHANGED <<aborted, status, stats, updates>>

\* The timer fires: the execution is told to stop, and keeps its place.
ExpertTimeout(e) ==
  /\ e \in timers
  /\ timers' = timers \ {e}
  /\ aborted' = aborted \cup {e}
  /\ status' = [status EXCEPT ![e] = "timeout"]
  /\ UNCHANGED <<phase, id, expertPool, activeExecutions, workLogs, limiters, stats, updates>>

\* Mutated form: an execution that fails keeps its slot.
FinallyAfterSuccess(e, kind) ==
  /\ timers' = timers \ {e}
  /\ activeExecutions' = [activeExecutions EXCEPT ![id[e]] = NoExpert]
  /\ limiters' = [n \in DOMAIN limiters |->
                    IF kind = "completed" THEN Vacate(limiters[n], e)
                    ELSE [limiters[n] EXCEPT !.running = @ \ {e}]]
  /\ phase' = Phases(limiters')
  /\ workLogs' = workLogs \ {id[e]}
  /\ stats' = [stats EXCEPT ![kind] = @ + 1]

\* Mutated form: the timer of an execution that ends is left armed.
FinallyUncleared(e, kind) ==
  /\ activeExecutions' = [activeExecutions EXCEPT ![id[e]] = NoExpert]
  /\ limiters' = [n \in DOMAIN limiters |-> Vacate(limiters[n], e)]
  /\ phase' = Phases(limiters')
  /\ workLogs' = workLogs \ {id[e]}
  /\ stats' = [stats EXCEPT ![kind] = @ + 1]
  /\ UNCHANGED timers

\* The finally block, which deletes by id, and the report.
Finally(e, kind) ==
  /\ timers' = timers \ {e}
  /\ activeExecutions' = [activeExecutions EXCEPT ![id[e]] = NoExpert]
  /\ limiters' = [n \in DOMAIN limiters |-> Vacate(limiters[n], e)]
  /\ phase' = Phases(limiters')
  /\ workLogs' = workLogs \ {id[e]}
  /\ stats' = [stats EXCEPT ![kind] = @ + 1]

\* The factory resolves: counted as completed whatever the status says.
FactoryResolves(e) ==
  /\ phase[e] = "running"
  /\ Finally(e, "completed")
  /\ UNCHANGED <<id, expertPool, aborted, status, updates>>

\* The catch block: an aborted execution counts as timed out whoever aborted it.
Outcome(e, escalates) ==
  IF e \in aborted THEN "timeout" ELSE IF escalates THEN "escalated" ELSE "failed"

\* Mutated form: what was aborted is counted with the failures.
FactoryRejectsMiscounted(e, escalates) ==
  /\ phase[e] = "running"
  /\ status' = [status EXCEPT ![e] = Outcome(e, escalates)]
  /\ Finally(e, IF escalates THEN "escalated" ELSE "failed")
  /\ UNCHANGED <<id, expertPool, aborted, updates>>

FactoryRejects(e, escalates) ==
  LET kind == Outcome(e, escalates)
  IN  /\ phase[e] = "running"
      /\ status' = [status EXCEPT ![e] = kind]
      /\ Finally(e, kind)
      /\ UNCHANGED <<id, expertPool, aborted, updates>>

-----------------------------------------------------------------------------
\* releaseExperts, which also releases experts at work: the execution is told to
\* stop and forgotten, and keeps its place in the semaphore.
ReleaseExperts(i) ==
  LET e == activeExecutions[i]
  IN  /\ expertPool' = expertPool \ {i}
      /\ activeExecutions' = [activeExecutions EXCEPT ![i] = NoExpert]
      /\ aborted' = aborted \cup ({e} \ {NoExpert})
      /\ timers' = timers \ {e}
      /\ workLogs' = workLogs \ {i}
      /\ UNCHANGED <<phase, id, status, limiters, stats, updates>>

AbortAll ==
  LET told == {activeExecutions[i] : i \in Tracked}
  IN  /\ aborted' = aborted \cup told
      /\ timers' = timers \ told
      /\ activeExecutions' = [i \in Ids |-> NoExpert]
      /\ UNCHANGED <<phase, id, expertPool, workLogs, status, limiters, stats, updates>>

\* Mutated form: a new limit replaces the semaphore together with its queue.
UpdateConfigDropping(limit) ==
  /\ updates < MaxUpdates /\ updates' = updates + 1
  /\ limit # maxConcurrentExperts
  /\ limiters' = <<NewLimiter(limit)>>
  /\ UNCHANGED <<phase, id, expertPool, activeExecutions, workLogs, timers, aborted, status, stats>>

\* updateConfig: what waits and runs stays with the semaphore it has.
UpdateConfig(limit) ==
  /\ updates < MaxUpdates /\ updates' = updates + 1
  /\ limit # maxConcurrentExperts
  /\ limiters' = Append(limiters, NewLimiter(limit))
  /\ UNCHANGED <<phase, id, expertPool, activeExecutions, workLogs, timers, aborted, status, stats>>

PoolNext ==
  \/ \E e \in Experts, i \in Ids : AllocateExperts(e, i) \/ AllocateAndExecute(e, i)
  \/ \E e \in Experts : ExpertTimeout(e) \/ FactoryResolves(e)
  \/ \E e \in Experts, escalates \in BOOLEAN : FactoryRejects(e, escalates)
  \/ \E i \in Ids : ReleaseExperts(i)
  \/ AbortAll
  \/ \E limit \in Limits : UpdateConfig(limit)

\* Armed timers fire.  No factory need ever settle: no expert takes the signal.
PoolFairness == \A e \in Experts : WF_expertVars(ExpertTimeout(e))

PoolSpec == PoolInit /\ [][PoolNext]_expertVars /\ PoolFairness

-----------------------------------------------------------------------------
Live == {e \in Experts : phase[e] \in {"waiting", "running"}}
Done == {e \in Experts : phase[e] = "done"}
SharesId(e) == \E f \in Experts \ {e} : id[f] = id[e]

PoolTypeOK ==
  /\ phase \in [Experts -> {"idle", "allocated", "waiting", "running", "done"}]
  /\ expertPool \subseteq Ids
  /\ activeExecutions \in [Ids -> Experts \cup {NoExpert}]
  /\ workLogs \subseteq Ids /\ timers \subseteq Experts /\ aborted \subseteq Experts
  /\ status \in [Experts -> {"completed", "failed", "timeout", "escalated"}]

\* An execution that waits or runs is tracked under its id or has been told to
\* stop, unless another expert has the same id; what is tracked, timed or logged
\* does wait or run; one that is tracked and has no timer was told to stop.
ExecutionsAreTracked ==
  /\ PoolTypeOK
  /\ \A e \in Live : activeExecutions[id[e]] = e \/ e \in aborted \/ SharesId(e)
  /\ \A i \in Tracked :
       LET e == activeExecutions[i]
       IN  e \in Live /\ id[e] = i /\ (e \in timers \/ e \in aborted)
  /\ timers \subseteq Live
  /\ workLogs \subseteq {id[e] : e \in Live}

\* Every finished execution is counted in one total: failures and escalations in
\* that of their status; only a report that says timeout can have been counted
\* as completed, by an expert that finished after its time.
OutcomesAddUp ==
  LET With(s) == Cardinality({e \in Done : status[e] = s})
  IN  /\ stats.failed = With("failed") /\ stats.escalated = With("escalated")
      /\ stats.completed + stats.timeout = With("completed") + With("timeout")
      /\ stats.timeout <= With("timeout")
      /\ {e \in Done : status[e] = "timeout"} \subseteq aborted

\* Each semaphore keeps to the limit it was made with and has no free slot while
\* it has a queue; an execution is in one place of one semaphore.  While the
\* limit was never changed no more experts run than it says.
AdmissionIsExact ==
  /\ \A n \in DOMAIN limiters :
       LET l == limiters[n]
       IN  /\ Cardinality(l.running) <= l.limit
           /\ l.queue # <<>> => Cardinality(l.running) = l.limit
  /\ \A e \in Experts :
       Cardinality({n \in DOMAIN limiters : e \in limiters[n].running})
         + Cardinality({p \in (DOMAIN limiters) \X (1..Cardinality(Experts)) :
                          p[2] \in DOMAIN limiters[p[1]].queue /\ limiters[p[1]].queue[p[2]] = e})
         = IF e \in Live THEN 1 ELSE 0

\* The books of the pool (the pool of ids, the executions tracked, the timers, the
\* totals and the semaphores) agree with each other and with what the experts do,
\* in whatever order experts time out, are aborted, released or admitted.
PoolBooksAgree == ExecutionsAreTracked /\ OutcomesAddUp /\ AdmissionIsExact

\* If the work of every expert ends some time, every execution is reported, in
\* whatever order experts are released, aborted, timed out or given a new limit.
ExecutionsAreReported ==
  (\A e \in Experts : WF_expertVars(FactoryResolves(e) \/ \E b \in BOOLEAN : FactoryRejects(e, b)))
    => \A e \in Experts : (phase[e] = "waiting") ~> (phase[e] = "done")

\* "Maximum time an expert can run before timing out": with its timer an
\* execution is over, and the next one can be admitted.
ExpertsEndInTime ==
  \A e \in Experts : (phase[e] = "running") ~> (phase[e] # "running")
=============================================================================
