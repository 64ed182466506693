--------------------------- MODULE GitHubDelivery ---------------------------
(***************************************************************************)
(* The webhook delivery queue of the GitHub integration                    *)
(* (server/github_service.py GitHubService): durable intake, dispatch by   *)
(* request threads and by the dispatcher thread, the single control        *)
(* worker, finalisation, shutdown and recovery by the next lease owner.    *)
(*                                                                         *)
(* Intake is deliberately unfenced (db.intake()); everything else runs in  *)
(* fenced transactions and is written on FencedWriter.  The body of        *)
(* process(), from the provider reads to publication, is one step with the *)
(* outcomes _run distinguishes; GitHubPublish models what it does.         *)
(***************************************************************************)
EXTENDS Naturals, FiniteSets, Sequences

CONSTANTS Process,       \* server processes; a restarted server is another one
          Delivery,      \* webhook deliveries, one per distinct body
          Lifecycle,     \* those that are installation events
          None,          \* no process, no delivery
          MaxAttempts,   \* MAX_ATTEMPTS
          MaxJobs,       \* BR_MAX_JOBS: slots shared with ordinary analyses
          MaxPending,    \* MAX_PENDING_DELIVERIES
          MaxRearms,     \* bound on redeliveries of rejected deliveries
          Scene          \* where behaviours may start: see Init

ASSUME DeliveryAssumption ==
    /\ None \notin Process \cup Delivery
    /\ Lifecycle \subseteq Delivery
    /\ MaxAttempts \in Nat \ {0}
    /\ MaxJobs \in Nat \ {0}
    /\ MaxPending \in Nat \ {0}
    /\ MaxRearms \in Nat
    /\ Scene \subseteq [ahead : SUBSET Process, mail : SUBSET Delivery,
                        rearms : 0..MaxRearms, dbErrors : BOOLEAN]

VARIABLES writer, retired, author,  \* see FencedWriter
          phase,       \* [Process -> Phase]
          lost,        \* [Process -> BOOLEAN]: the lease-lost event
          status,      \* [Delivery -> Status]: the GitHubDelivery row
          attempts,    \* [Delivery -> 0..MaxAttempts+1]
          interrupted, \* [Delivery -> BOOLEAN]: error is "server_restarted"
          payload,     \* [Delivery -> BOOLEAN]: payload is stored
          claims,      \* [Delivery -> Nat]: history, claims since (re)admission
          rearms,      \* number of redeliveries admitted so far
          calls,       \* [Process -> SUBSET (Caller \X Delivery)]: dispatch() calls
          handing,     \* [Process -> Delivery \cup {None}]: claimed, not submitted
          queue,       \* [Process -> Seq(Delivery)]: tasks of the executor
          running,     \* [Process -> Delivery \cup {None}]: task of its one thread
          stage,       \* [Process -> Stage]: where that task is
          outcome,     \* [Process -> Outcome]: what process() came to
          active,      \* [Process -> SUBSET Delivery]
          used,        \* [Process -> 0..MaxJobs]: slots its tasks hold
          dbErrors     \* fenced transactions may fail; fixed by Init

fenceVars == <<writer, retired, author>>
rowVars   == <<status, attempts, interrupted, payload, claims, rearms>>
taskVars  == <<queue, running, stage, outcome>>
memVars   == <<calls, handing, active, used>>
moving == <<fenceVars, phase, lost, rowVars, taskVars, memVars>>
vars   == <<moving, dbErrors>>

Fence == INSTANCE FencedWriter WITH Server <- Process, Nobody <- None

(* starting: up, intake only.  draining, shut, stopping: as in Jobs.       *)
Phase == {"starting", "recovering", "ready",
          "draining", "shut", "stopping", "down"}

Backlog  == {"PENDING", "RETRYABLE", "QUEUED"}
Terminal == {"HANDLED", "IGNORED", "REJECTED"}
Status   == {"absent"} \cup Backlog \cup Terminal
Stage    == {"idle", "process", "finalize", "discard"}

(* interrupted: LeaseLost, _Stopping or service_stopping; no finalisation. *)
Outcome == {"HANDLED", "RETRYABLE", "REJECTED", "interrupted"}
Caller  == {"dispatcher", "request"}

TypeOK ==
    /\ writer \in Process \cup {None}
    /\ retired \subseteq Process
    /\ author \in Process \cup {None}
    /\ phase \in [Process -> Phase]
    /\ lost \in [Process -> BOOLEAN]
    /\ status \in [Delivery -> Status]
    /\ attempts \in [Delivery -> 0..MaxAttempts+1]
    /\ interrupted \in [Delivery -> BOOLEAN]
    /\ payload \in [Delivery -> BOOLEAN]
    /\ claims \in [Delivery -> Nat]
    /\ rearms \in 0..MaxRearms
    /\ calls \in [Process -> SUBSET (Caller \X Delivery)]
    /\ handing \in [Process -> Delivery \cup {None}]
    /\ queue \in [Process -> Seq(Delivery)]
    /\ running \in [Process -> Delivery \cup {None}]
    /\ stage \in [Process -> Stage]
    /\ outcome \in [Process -> Outcome]
    /\ active \in [Process -> SUBSET Delivery]
    /\ used \in [Process -> 0..MaxJobs]
    /\ dbErrors \in BOOLEAN

(* The processes still `ahead' wait for the lease, the others are gone; the*)
(* deliveries in `mail' are still to come, the others were handled before. *)
Init ==
    /\ Fence!Init
    /\ \E s \in Scene :
         /\ phase = [p \in Process |-> IF p \in s.ahead THEN "starting" ELSE "down"]
         /\ status = [d \in Delivery |-> IF d \in s.mail THEN "absent" ELSE "HANDLED"]
         /\ rearms = s.rearms
         /\ dbErrors = s.dbErrors
    /\ lost = [p \in Process |-> FALSE]
    /\ attempts = [d \in Delivery |-> 0]
    /\ interrupted = [d \in Delivery |-> FALSE]
    /\ payload = [d \in Delivery |-> FALSE]
    /\ claims = [d \in Delivery |-> 0]
    /\ calls = [p \in Process |-> {}]
    /\ handing = [p \in Process |-> None]
    /\ queue = [p \in Process |-> <<>>]
    /\ running = [p \in Process |-> None]
    /\ stage = [p \in Process |-> "idle"]
    /\ outcome = [p \in Process |-> "interrupted"]
    /\ active = [p \in Process |-> {}]
    /\ used = [p \in Process |-> 0]

-----------------------------------------------------------------------------
Live(p) == phase[p] # "down"

(* A fenced transaction of p commits; or it raises LeaseLost.              *)
Committed(p) == ~lost[p] /\ Fence!FencedCommit(p) /\ UNCHANGED lost

Fenced(p) ==
    /\ lost[p] \/ writer # p
    /\ lost' = [lost EXCEPT ![p] = TRUE]
    /\ UNCHANGED fenceVars

SetStatus(d, s) == status' = [status EXCEPT ![d] = s]

(* A terminal status drops the payload.                                    *)
Close(d, s) == SetStatus(d, s) /\ payload' = [payload EXCEPT ![d] = FALSE]

BacklogSize == Cardinality({d \in Delivery : status[d] \in Backlog})

(* p is no more, and all it held in memory is gone.                        *)
Forget(p) ==
    /\ phase' = [phase EXCEPT ![p] = "down"]
    /\ lost' = [lost EXCEPT ![p] = FALSE]
    /\ calls' = [calls EXCEPT ![p] = {}]
    /\ handing' = [handing EXCEPT ![p] = None]
    /\ queue' = [queue EXCEPT ![p] = <<>>]
    /\ running' = [running EXCEPT ![p] = None]
    /\ stage' = [stage EXCEPT ![p] = "idle"]
    /\ outcome' = [outcome EXCEPT ![p] = "interrupted"]
    /\ active' = [active EXCEPT ![p] = {}]
    /\ used' = [used EXCEPT ![p] = 0]

-----------------------------------------------------------------------------
(* Life of a process.                                                      *)

Takeover(p) ==
    /\ phase[p] = "starting"
    /\ Fence!Takeover(p)
    /\ phase' = [phase EXCEPT ![p] = "recovering"]
    /\ UNCHANGED <<lost, rowVars, taskVars, memVars>>

(* Mutant of Recover: a restart starts every delivery afresh.              *)
RecoverAfresh(p) ==
    /\ phase[p] = "recovering"
    /\ Committed(p)
    /\ status' = [d \in Delivery |-> IF status[d] = "QUEUED" THEN "PENDING"
                                                            ELSE status[d]]
    /\ attempts' = [d \in Delivery |-> 0]
    /\ phase' = [phase EXCEPT ![p] = "ready"]
    /\ UNCHANGED <<interrupted, payload, claims, rearms, taskVars, memVars>>

(* recover(), then start(): QUEUED deliveries are re-armed, the first      *)
(* interruption of an attempt is not counted; retryable deliveries without *)
(* attempts left, and open ones without a payload, are rejected.           *)
Recover(p) ==
    /\ phase[p] = "recovering"
    /\ Committed(p)
    /\ LET exhausted == {d \in Delivery : /\ status[d] = "RETRYABLE"
                                          /\ attempts[d] >= MaxAttempts}
           unusable  == {d \in Delivery : status[d] \in Backlog /\ ~payload[d]}
           requeued  == {d \in Delivery : status[d] = "QUEUED"}
       IN  /\ status' = [d \in Delivery |->
                           CASE d \in exhausted \cup unusable -> "REJECTED"
                             [] d \in requeued \ unusable -> "PENDING"
                             [] OTHER -> status[d]]
           /\ attempts' = [d \in Delivery |->
                 IF d \in requeued /\ ~interrupted[d] /\ attempts[d] > 0
                   THEN attempts[d] - 1 ELSE attempts[d]]
           /\ interrupted' = [d \in Delivery |->
                 /\ d \notin exhausted \cup unusable
                 /\ d \in requeued \/ interrupted[d]]
           /\ payload' = [d \in Delivery |-> payload[d] /\ d \notin exhausted]
    /\ phase' = [phase EXCEPT ![p] = "ready"]
    /\ UNCHANGED <<claims, rearms, taskVars, memVars>>

RecoverFails(p) ==
    /\ phase[p] = "recovering"
    /\ lost[p] \/ writer # p
    /\ Forget(p)
    /\ UNCHANGED <<fenceVars, rowVars>>

LoseLease(p) ==
    /\ Live(p) /\ phase[p] # "starting"
    /\ lost' = [lost EXCEPT ![p] = TRUE]
    /\ UNCHANGED <<fenceVars, phase, rowVars, taskVars, memVars>>

Crash(p) ==
    /\ Live(p)
    /\ Forget(p)
    /\ UNCHANGED <<fenceVars, rowVars>>

(* github.shutdown() and jobs.drain(): draining; then both executors are   *)
(* closed; at the deadline tasks not yet started are cancelled and         *)
(* stopping is set.                                                        *)
ShutdownStep(p) ==
    /\ \/ /\ phase[p] = "ready"
          /\ phase' = [phase EXCEPT ![p] = "draining"]
          /\ UNCHANGED queue
       \/ /\ phase[p] = "draining"
          /\ phase' = [phase EXCEPT ![p] = "shut"]
          /\ UNCHANGED queue
       \/ /\ phase[p] = "shut"
          /\ phase' = [phase EXCEPT ![p] = "stopping"]
          /\ queue' = [queue EXCEPT ![p] = <<>>]
    /\ UNCHANGED <<fenceVars, lost, rowVars, running, stage, outcome, memVars>>

Exit(p) ==
    /\ phase[p] = "stopping"
    /\ running[p] = None
    /\ Forget(p)
    /\ UNCHANGED <<fenceVars, rowVars>>

-----------------------------------------------------------------------------
(* receive(): one unfenced transaction, then dispatch() of the delivery by *)
(* the same request thread.  A delivery that is a duplicate, or finds the  *)
(* backlog full, changes nothing.                                          *)

Admit(p, d) ==
    /\ BacklogSize < MaxPending
    /\ SetStatus(d, "PENDING")
    /\ payload' = [payload EXCEPT ![d] = TRUE]
    /\ interrupted' = [interrupted EXCEPT ![d] = FALSE]
    /\ calls' = [calls EXCEPT ![p] = @ \cup {<<"request", d>>}]
    /\ UNCHANGED <<fenceVars, phase, lost, taskVars, handing, active, used>>

Receive(p, d) ==
    /\ Live(p)
    /\ status[d] = "absent"
    /\ Admit(p, d)
    /\ UNCHANGED <<attempts, claims, rearms>>

(* Redelivery of a rejected delivery starts it afresh.                     *)
Redeliver(p, d) ==
    /\ Live(p)
    /\ status[d] = "REJECTED"
    /\ rearms < MaxRearms
    /\ Admit(p, d)
    /\ attempts' = [attempts EXCEPT ![d] = 0]
    /\ claims' = [claims EXCEPT ![d] = 0]
    /\ rearms' = rearms + 1

(* Redelivery of a retryable delivery without payload restores it.         *)
RedeliverPayload(p, d) ==
    /\ Live(p)
    /\ status[d] = "RETRYABLE" /\ ~payload[d]
    /\ rearms < MaxRearms
    /\ Admit(p, d)
    /\ rearms' = rearms + 1
    /\ UNCHANGED <<attempts, claims>>

-----------------------------------------------------------------------------
(* dispatch_pending(): the dispatcher thread.  GitHubService.lock is held  *)
(* from a claim to the submission (`handing'), during a sweep and while a  *)
(* finished task leaves `active'.                                          *)

Unlocked(p) == handing[p] = None

Dispatching(p) ==
    /\ phase[p] = "ready"
    /\ ~lost[p]
    /\ \A d \in Delivery : <<"dispatcher", d>> \notin calls[p]

(* QUEUED rows that no task of this process is known to work on.           *)
Orphans(p) == {d \in Delivery : status[d] = "QUEUED" /\ d \notin active[p]}

Sweep(p) ==
    /\ Dispatching(p)
    /\ Unlocked(p)
    /\ Orphans(p) # {}
    /\ Committed(p)
    /\ status' = [d \in Delivery |-> IF d \in Orphans(p) THEN "PENDING" ELSE status[d]]
    /\ UNCHANGED <<phase, attempts, interrupted, payload, claims, rearms,
                   taskVars, memVars>>

(* next_attempt_at <= now: the backoff of at least 30 seconds outlasts the *)
(* few instructions between finalisation and the end of the task.          *)
Due(d) ==
    /\ attempts[d] < MaxAttempts
    /\ \A p \in Process : ~(running[p] = d /\ stage[p] = "discard")

Pick(p, d) ==
    /\ Dispatching(p)
    /\ status[d] = "PENDING" \/ (status[d] = "RETRYABLE" /\ Due(d))
    /\ Committed(p)
    /\ SetStatus(d, "PENDING")
    /\ calls' = [calls EXCEPT ![p] = @ \cup {<<"dispatcher", d>>}]
    /\ UNCHANGED <<phase, attempts, interrupted, payload, claims, rearms,
                   taskVars, handing, active, used>>

-----------------------------------------------------------------------------
(* dispatch(d), called by c.                                               *)

Returns(p, c, d) == calls' = [calls EXCEPT ![p] = @ \ {<<c, d>>}]

(* Not ready, lease not healthy or draining: before the lock is taken.     *)
DispatchRefused(p, c, d) ==
    /\ <<c, d>> \in calls[p]
    /\ phase[p] # "ready" \/ lost[p]
    /\ Returns(p, c, d)
    /\ UNCHANGED <<fenceVars, phase, lost, rowVars, taskVars, handing, active, used>>

(* Inside the lock.  The checks above it may be stale: the call can find   *)
(* itself in a process that has begun to drain.                            *)
InDispatch(p, c, d) ==
    /\ <<c, d>> \in calls[p]
    /\ phase[p] \in {"ready", "draining", "shut", "stopping"}
    /\ Unlocked(p)

(* The finally clause of a call that handed no task off.                   *)
NotHandedOff(p, d) == active' = [active EXCEPT ![p] = @ \ {d}]

(* The row is no longer PENDING (somebody else claimed or closed it), the  *)
(* queue is full or closed, or the transaction fails.                      *)
DispatchNothing(p, c, d) ==
    /\ InDispatch(p, c, d)
    /\ \/ Committed(p) /\ status[d] # "PENDING"
       \/ Committed(p) /\ status[d] = "PENDING" /\ payload[d] /\ d \notin Lifecycle
       \/ Fenced(p)
       \/ dbErrors /\ UNCHANGED <<fenceVars, lost>>
    /\ NotHandedOff(p, d)
    /\ Returns(p, c, d)
    /\ UNCHANGED <<phase, rowVars, taskVars, handing, used>>

(* The row is closed at once: an installation event is handled, a pull     *)
(* request without an active connection ignored, one without payload       *)
(* rejected.                                                               *)
DispatchCloses(p, c, d) ==
    /\ InDispatch(p, c, d)
    /\ status[d] = "PENDING"
    /\ Committed(p)
    /\ Close(d, IF ~payload[d] THEN "REJECTED"
                ELSE IF d \in Lifecycle THEN "HANDLED" ELSE "IGNORED")
    /\ interrupted' = [interrupted EXCEPT ![d] = payload[d] /\ @]
    /\ NotHandedOff(p, d)
    /\ Returns(p, c, d)
    /\ UNCHANGED <<phase, attempts, claims, rearms, taskVars, handing, used>>

(* Mutant of MayClaim: reserve() does not look at the slots.               *)
MayClaimFull(p, c, d) ==
    /\ InDispatch(p, c, d)
    /\ phase[p] = "ready"
    /\ status[d] = "PENDING" /\ payload[d]
    /\ d \notin Lifecycle
    /\ Committed(p)

(* _claim(): the guard, with the slot reserved.                            *)
MayClaim(p, c, d) ==
    /\ InDispatch(p, c, d)
    /\ phase[p] = "ready"              \* reserve() looks at draining again
    /\ status[d] = "PENDING" /\ payload[d]
    /\ d \notin Lifecycle
    /\ used[p] < MaxJobs
    /\ Committed(p)

DispatchExhausted(p, c, d) ==
    /\ MayClaim(p, c, d)
    /\ attempts[d] + 1 > MaxAttempts
    /\ attempts' = [attempts EXCEPT ![d] = @ + 1]
    /\ Close(d, "REJECTED")
    /\ interrupted' = [interrupted EXCEPT ![d] = FALSE]
    /\ NotHandedOff(p, d)
    /\ Returns(p, c, d)
    /\ UNCHANGED <<phase, claims, rearms, taskVars, handing, used>>

Claim(p, c, d) ==
    /\ MayClaim(p, c, d)
    /\ attempts[d] + 1 <= MaxAttempts
    /\ attempts' = [attempts EXCEPT ![d] = @ + 1]
    /\ claims' = [claims EXCEPT ![d] = @ + 1]
    /\ SetStatus(d, "QUEUED")
    /\ active' = [active EXCEPT ![p] = @ \cup {d}]
    /\ used' = [used EXCEPT ![p] = @ + 1]
    /\ handing' = [handing EXCEPT ![p] = d]
    /\ Returns(p, c, d)
    /\ UNCHANGED <<phase, interrupted, payload, rearms, taskVars>>

(* The claim commits but its acknowledgement is lost: the slot is given    *)
(* back and no task is handed off.                                         *)
ClaimAckLost(p, c, d) ==
    /\ dbErrors
    /\ MayClaim(p, c, d)
    /\ attempts[d] + 1 <= MaxAttempts
    /\ attempts' = [attempts EXCEPT ![d] = @ + 1]
    /\ SetStatus(d, "QUEUED")
    /\ NotHandedOff(p, d)
    /\ Returns(p, c, d)
    /\ UNCHANGED <<phase, interrupted, payload, claims, rearms, taskVars,
                   handing, used>>

(* executor.submit(_run)                                                   *)
Submit(p) ==
    /\ handing[p] # None
    /\ phase[p] \in {"ready", "draining"}
    /\ queue' = [queue EXCEPT ![p] = Append(@, handing[p])]
    /\ handing' = [handing EXCEPT ![p] = None]
    /\ UNCHANGED <<fenceVars, phase, lost, rowVars, running, stage, outcome,
                   calls, active, used>>

(* Mutant of SubmitFails: the slot is kept.                                *)
SubmitFailsKeepsSlot(p) ==
    /\ handing[p] # None
    /\ phase[p] \in {"shut", "stopping"}
    /\ Fenced(p)
    /\ NotHandedOff(p, handing[p])
    /\ handing' = [handing EXCEPT ![p] = None]
    /\ UNCHANGED <<phase, rowVars, taskVars, calls, used>>

(* It raises after the executor was shut down: the claim is undone, unless *)
(* that transaction fails too.                                             *)
SubmitFails(p) ==
    /\ handing[p] # None
    /\ phase[p] \in {"shut", "stopping"}
    /\ LET d == handing[p] IN
         /\ \/ Fenced(p) /\ UNCHANGED <<status, attempts, claims>>
            \/ dbErrors /\ UNCHANGED <<fenceVars, lost, status, attempts, claims>>
            \/ /\ Committed(p)
               /\ IF status[d] = "QUEUED"
                    THEN /\ SetStatus(d, "PENDING")
                         /\ attempts' = [attempts EXCEPT ![d] = IF @ > 0 THEN @ - 1 ELSE 0]
                         /\ claims' = [claims EXCEPT ![d] = IF @ > 0 THEN @ - 1 ELSE 0]
                    ELSE UNCHANGED <<status, attempts, claims>>
         /\ NotHandedOff(p, d)
    /\ used' = [used EXCEPT ![p] = @ - 1]
    /\ handing' = [handing EXCEPT ![p] = None]
    /\ UNCHANGED <<phase, interrupted, payload, rearms, taskVars, calls>>

-----------------------------------------------------------------------------
(* _run: the one worker thread.                                            *)

RunNext(p) ==
    /\ Live(p)
    /\ running[p] = None
    /\ queue[p] # <<>>
    /\ running' = [running EXCEPT ![p] = Head(queue[p])]
    /\ queue' = [queue EXCEPT ![p] = Tail(@)]
    /\ stage' = [stage EXCEPT ![p] = "process"]
    /\ UNCHANGED <<fenceVars, phase, lost, rowVars, outcome, memVars>>

(* process() returned or raised.  It is interrupted only by the loss of    *)
(* the lease or by a shutdown past its deadline.                           *)
RunProcess(p) ==
    /\ stage[p] = "process"
    /\ \E o \in Outcome :
         /\ o = "interrupted" => lost[p] \/ writer # p \/ phase[p] = "stopping"
         /\ outcome' = [outcome EXCEPT ![p] = o]
         /\ stage' = [stage EXCEPT ![p] = IF o = "interrupted" THEN "discard"
                                                                ELSE "finalize"]
    /\ UNCHANGED <<fenceVars, phase, lost, rowVars, queue, running, memVars>>

(* Mutant of Finalize: the last attempt is also left for a retry.          *)
FinalizeRetries(p) ==
    /\ stage[p] = "finalize"
    /\ Committed(p)
    /\ LET d == running[p] IN
         /\ IF outcome[p] = "RETRYABLE"
              THEN SetStatus(d, "RETRYABLE") /\ UNCHANGED payload
              ELSE Close(d, outcome[p])
         /\ interrupted' = [interrupted EXCEPT ![d] = FALSE]
    /\ stage' = [stage EXCEPT ![p] = "discard"]
    /\ UNCHANGED <<phase, attempts, claims, rearms, queue, running, outcome,
                   memVars>>

(* Store the outcome; a retryable one without attempts left is a rejection.*)
Finalize(p) ==
    /\ stage[p] = "finalize"
    /\ Committed(p)
    /\ LET d == running[p] IN
         /\ IF outcome[p] = "RETRYABLE" /\ attempts[d] < MaxAttempts
              THEN SetStatus(d, "RETRYABLE") /\ UNCHANGED payload
              ELSE Close(d, IF outcome[p] = "HANDLED" THEN "HANDLED" ELSE "REJECTED")
         /\ interrupted' = [interrupted EXCEPT ![d] = FALSE]
    /\ stage' = [stage EXCEPT ![p] = "discard"]
    /\ UNCHANGED <<phase, attempts, claims, rearms, queue, running, outcome, memVars>>

(* Three failures, or LeaseLost: the row stays as it is.                   *)
FinalizeFails(p) ==
    /\ stage[p] = "finalize"
    /\ Fenced(p) \/ (dbErrors /\ UNCHANGED <<fenceVars, lost>>)
    /\ stage' = [stage EXCEPT ![p] = "discard"]
    /\ UNCHANGED <<phase, rowVars, queue, running, outcome, memVars>>

Discard(p) ==
    /\ stage[p] = "discard"
    /\ Unlocked(p)
    /\ active' = [active EXCEPT ![p] = @ \ {running[p]}]
    /\ used' = [used EXCEPT ![p] = @ - 1]
    /\ running' = [running EXCEPT ![p] = None]
    /\ stage' = [stage EXCEPT ![p] = "idle"]
    /\ outcome' = [outcome EXCEPT ![p] = "interrupted"]
    /\ UNCHANGED <<fenceVars, phase, lost, rowVars, queue, calls, handing>>

-----------------------------------------------------------------------------
ProcessStep(p) ==
    \/ Takeover(p) \/ Recover(p) \/ RecoverFails(p)
    \/ LoseLease(p) \/ Crash(p) \/ ShutdownStep(p) \/ Exit(p)

IntakeStep(p, d) ==
    Receive(p, d) \/ Redeliver(p, d) \/ RedeliverPayload(p, d)

(* Whatever a dispatch() call may do.                                      *)
DispatchStep(p, c, d) ==
    \/ DispatchRefused(p, c, d) \/ DispatchNothing(p, c, d)
    \/ DispatchCloses(p, c, d) \/ DispatchExhausted(p, c, d) \/ Claim(p, c, d)
    \/ ClaimAckLost(p, c, d)

TaskStep(p) ==
    \/ Submit(p) \/ SubmitFails(p)
    \/ RunNext(p) \/ RunProcess(p) \/ Finalize(p) \/ FinalizeFails(p) \/ Discard(p)

Next ==
    /\ UNCHANGED dbErrors
    /\ \E p \in Process :
        \/ ProcessStep(p)
        \/ Sweep(p)
        \/ TaskStep(p)
        \/ \E d \in Delivery :
              \/ IntakeStep(p, d)
              \/ Pick(p, d)
              \/ \E c \in Caller : DispatchStep(p, c, d)

Spec == Init /\ [][Next]_vars

(* The dispatcher polls, called code returns, the worker thread runs, and  *)
(* the shared queue is not full each time a call looks at it.              *)
Fairness ==
    \A p \in Process :
        /\ WF_moving(Recover(p) \/ RecoverFails(p))
        /\ WF_moving(Sweep(p))
        /\ WF_moving(TaskStep(p))
        /\ \A d \in Delivery :
             /\ WF_moving(Pick(p, d))
             /\ \A c \in Caller :
                  /\ WF_moving(DispatchStep(p, c, d))
                  /\ SF_moving(Claim(p, c, d) \/ DispatchExhausted(p, c, d)
                                            \/ DispatchCloses(p, c, d))

FairSpec == Spec /\ Fairness

-----------------------------------------------------------------------------
(* Tasks of p that were claimed and not finished.                          *)
Tasks(p) ==
    Len(queue[p]) + Cardinality({v \in {"handing", "running"} :
                        CASE v = "handing" -> handing[p] # None
                          [] v = "running" -> running[p] # None})

(* The slots the GitHub pipeline of a process holds are those of its tasks:*)
(* each exit of dispatch() and of _run gives back exactly what the claim   *)
(* reserved (cancelled tasks keep theirs: the process is ending).          *)
SlotsMatchTasks ==
    \A p \in Process :
        Live(p) /\ phase[p] # "stopping" => used[p] = Tasks(p)

(* "consecutive interruptions consume the attempt so a crash loop still    *)
(* terminates" (github_service.py:128-129): since its last admission by a  *)
(* webhook a delivery is claimed at most twice per allowed attempt, and a  *)
(* takeover allows at most one claim more, over any sequence of failures,  *)
(* restarts and lost acknowledgements.                                     *)
ClaimsBounded ==
    \A d \in Delivery : /\ claims[d] <= 2 * MaxAttempts
                        /\ claims[d] <= MaxAttempts + Cardinality(retired)

(* Webhook bodies are kept until the delivery is terminal: "Supported      *)
(* webhook payloads are retained until the delivery reaches a terminal     *)
(* state" (docs/github.md:276-277).                                        *)
PayloadRetained == \A d \in Delivery : status[d] \in Backlog => payload[d]

(* A delivery the service answered for is eventually terminal, as long as  *)
(* the lease owner keeps serving.                                          *)
DeliverySettles ==
    \A d \in Delivery :
        status[d] \in Backlog ~>
            \/ status[d] \in Terminal
            \/ \A p \in Process :
                 p = writer =>
                     lost[p] \/ phase[p] \notin {"recovering", "ready"}
=============================================================================
