-------------------------------- MODULE Jobs --------------------------------
(***************************************************************************)
(* The bounded in-memory analysis queue (server/jobs.py JobManager) and    *)
(* the routes that feed it (server/app.py create_analysis,                 *)
(* delete_analysis), across successive server processes.                   *)
(*                                                                         *)
(* The queue, its semaphore and its events die with their process; the     *)
(* Analysis rows do not.  Rows are changed only by fenced transactions, so *)
(* the module is written on FencedWriter: each transaction is one step of  *)
(* the writer.  A transaction may instead fail without effect, take effect *)
(* although its acknowledgement is lost, or raise LeaseLost.               *)
(***************************************************************************)
EXTENDS Naturals, FiniteSets

CONSTANTS Process,      \* server processes, numbered in the order in which
                        \* they acquire; a restarted server is another one
          None,         \* "no process"
          Job,          \* analysis identifiers
          MaxJobs,      \* BR_MAX_JOBS: admission slots
          Workers,      \* BR_WORKERS: threads of the executor
          Batch,        \* rows per recovery transaction (100 in the code)
          Scene         \* where behaviours may start: see Init

ASSUME JobsAssumption ==
    /\ Process \subseteq Nat
    /\ None \notin Process
    /\ MaxJobs \in Nat \ {0}
    /\ Workers \in Nat \ {0}
    /\ Batch \in Nat \ {0}
    /\ Scene \subseteq [ahead : SUBSET Process, coming : SUBSET Job,
                        earlyHttp : BOOLEAN, dbErrors : BOOLEAN]

Attempts == 3   \* of a terminal write

VARIABLES writer, retired, author,   \* see FencedWriter
          phase,     \* [Process -> Phase]
          lost,      \* [Process -> BOOLEAN]: the lease-lost event
          broken,    \* [Process -> BOOLEAN]: persistence_failed
          free,      \* [Process -> 0..MaxJobs]: value of the semaphore
          row,       \* [Job -> Row]: status of the Analysis row
          restarted, \* [Job -> BOOLEAN]: recovery failed it (server_restarted)
          task,      \* [Job -> Task]: where its thread is
          by,        \* [Job -> Process]: the process of that thread
          reply,     \* [Job -> BOOLEAN]: there is a valid result to store
          tries,     \* [Job -> 0..Attempts-1]: failed terminal writes
          earlyHttp, \* requests are served while recovery runs (lease wait)
          dbErrors   \* transactions may fail or lose their acknowledgement

fenceVars == <<writer, retired, author>>
memVars   == <<phase, lost, broken, free>>
rowVars   == <<row, restarted>>
taskVars  == <<task, by, reply, tries>>
moving    == <<fenceVars, memVars, rowVars, taskVars>>
settings  == <<earlyHttp, dbErrors>>
vars      == <<moving, settings>>

Fence == INSTANCE FencedWriter WITH Server <- Process, Nobody <- None

(* draining: jobs.draining set.  shut: the executor takes no more work.    *)
(* stopping: the drain deadline passed, jobs.stopping set.                 *)
Phase == {"off", "recovering", "ready", "draining", "shut", "stopping", "down"}

Unfinished == {"QUEUED", "RUNNING"}
Terminal   == {"SUCCEEDED", "FAILED"}
Row        == {"absent", "deleted"} \cup Unfinished \cup Terminal

(* In a request thread: reserved (slot taken, row not committed),          *)
(* committed, undispatched (executor.submit raised).  In the executor:     *)
(* queued, claiming (the row was read QUEUED), executing, finishing (a     *)
(* reply to store), crashed (an exception reached _run), releasing.        *)
(* limbo: the row was committed but the request saw an error, so no thread *)
(* works on it.                                                            *)
InRequest  == {"reserved", "committed", "undispatched"}
InWorker   == {"claiming", "executing", "finishing", "crashed", "releasing"}
InExecutor == {"queued"} \cup InWorker
Task       == {"none", "limbo"} \cup InRequest \cup InExecutor

TypeOK ==
    /\ writer \in Process \cup {None}
    /\ retired \subseteq Process
    /\ author \in Process \cup {None}
    /\ phase \in [Process -> Phase]
    /\ lost \in [Process -> BOOLEAN]
    /\ broken \in [Process -> BOOLEAN]
    /\ free \in [Process -> 0..MaxJobs]
    /\ row \in [Job -> Row]
    /\ restarted \in [Job -> BOOLEAN]
    /\ task \in [Job -> Task]
    /\ by \in [Job -> Process \cup {None}]
    /\ reply \in [Job -> BOOLEAN]
    /\ tries \in [Job -> 0..Attempts-1]
    /\ earlyHttp \in BOOLEAN /\ dbErrors \in BOOLEAN

(* The processes still `ahead' wait for the lease, the others are gone; the*)
(* analyses still `coming' will be asked for, the others were deleted.     *)
Init ==
    /\ Fence!Init
    /\ \E s \in Scene :
         /\ phase = [p \in Process |-> IF p \in s.ahead THEN "off" ELSE "down"]
         /\ row = [j \in Job |-> IF j \in s.coming THEN "absent" ELSE "deleted"]
         /\ earlyHttp = s.earlyHttp /\ dbErrors = s.dbErrors
    /\ lost = [p \in Process |-> FALSE]
    /\ broken = [p \in Process |-> FALSE]
    /\ free = [p \in Process |-> MaxJobs]
    /\ restarted = [j \in Job |-> FALSE]
    /\ task = [j \in Job |-> "none"]
    /\ by = [j \in Job |-> None]
    /\ reply = [j \in Job |-> FALSE]
    /\ tries = [j \in Job |-> 0]

-----------------------------------------------------------------------------
Live(p) == phase[p] \notin {"off", "down"}

(* Mutant of Serving: requests are served as soon as the process runs.     *)
ServingAtOnce(p) == Live(p)

(* Request threads run: once ready, and from the moment the fence is wired *)
(* if the process was waiting for the lease.                               *)
Serving(p) == Live(p) /\ (phase[p] # "recovering" \/ earlyHttp)

Goto(j, t) == task' = [task EXCEPT ![j] = t]

SetRow(j, s) == row' = [row EXCEPT ![j] = s]

Holders(p) == {j \in Job : by[j] = p /\ task[j] \notin {"none", "limbo"}}

(* A fenced transaction of p commits.                                      *)
Committed(p) == ~lost[p] /\ Fence!FencedCommit(p)

(* The fence raises LeaseLost, and the lease is lost for good.             *)
Fenced(p) ==
    /\ lost[p] \/ writer # p
    /\ lost' = [lost EXCEPT ![p] = TRUE]
    /\ UNCHANGED fenceVars

(* slots.release()                                                         *)
GiveBack(p) == free' = [free EXCEPT ![p] = @ + 1]

(* The threads of p are gone, and their local variables with them.         *)
DropThreads(p) ==
    /\ task' = [j \in Job |-> IF by[j] = p THEN "none" ELSE task[j]]
    /\ reply' = [j \in Job |-> reply[j] /\ by[j] # p]
    /\ tries' = [j \in Job |-> IF by[j] = p THEN 0 ELSE tries[j]]
    /\ UNCHANGED by

-----------------------------------------------------------------------------
(* Life of a process.                                                      *)

(* acquire() returned: p is the writer and starts its recovery.            *)
Takeover(p) ==
    /\ phase[p] = "off" /\ \A q \in Process : q < p => phase[q] # "off"
    /\ Fence!Takeover(p)
    /\ phase' = [phase EXCEPT ![p] = "recovering"]
    /\ UNCHANGED <<lost, broken, free, rowVars, taskVars>>

(* One transaction of recover(): at most Batch unfinished rows become      *)
(* FAILED server_restarted; a short batch is the last.                     *)
RecoverBatch(p) ==
    /\ phase[p] = "recovering"
    /\ Committed(p)
    /\ LET open == {j \in Job : row[j] \in Unfinished}
           many == Cardinality(open) >= Batch
           size == IF many THEN Batch ELSE Cardinality(open)
       IN  \E S \in SUBSET open :
             /\ Cardinality(S) = size
             /\ row' = [j \in Job |-> IF j \in S THEN "FAILED" ELSE row[j]]
             /\ restarted' = [j \in Job |-> j \in S \/ restarted[j]]
             /\ phase' = IF many THEN phase ELSE [phase EXCEPT ![p] = "ready"]
    /\ UNCHANGED <<lost, broken, free, taskVars>>

(* recover() raised: start-up fails and the process exits.                 *)
RecoverFails(p) ==
    /\ phase[p] = "recovering"
    /\ Fenced(p)
    /\ phase' = [phase EXCEPT ![p] = "down"]
    /\ DropThreads(p)
    /\ UNCHANGED <<broken, free, rowVars>>

(* healthy() reports the lease lost.                                       *)
LoseLease(p) ==
    /\ Live(p)
    /\ lost' = [lost EXCEPT ![p] = TRUE]
    /\ UNCHANGED <<fenceVars, phase, broken, free, rowVars, taskVars>>

(* The process dies: the queue and every thread are gone.                  *)
Crash(p) ==
    /\ Live(p)
    /\ phase' = [phase EXCEPT ![p] = "down"]
    /\ DropThreads(p)
    /\ UNCHANGED <<fenceVars, lost, broken, free, rowVars>>

(* Shutdown: draining is set, then the executor is closed, then, when all  *)
(* is done or at the deadline, stopping is set.                            *)
ShutdownStep(p) ==
    /\ \/ phase[p] = "ready"    /\ phase' = [phase EXCEPT ![p] = "draining"]
       \/ phase[p] = "draining" /\ phase' = [phase EXCEPT ![p] = "shut"]
       \/ phase[p] = "shut"     /\ phase' = [phase EXCEPT ![p] = "stopping"]
    /\ UNCHANGED <<fenceVars, lost, broken, free, rowVars, taskVars>>

(* Mutant of Exit: executor.shutdown(wait=False).                          *)
ExitAtOnce(p) ==
    /\ phase[p] = "stopping"
    /\ phase' = [phase EXCEPT ![p] = "down"]
    /\ DropThreads(p)
    /\ UNCHANGED <<fenceVars, lost, broken, free, rowVars>>

(* executor.shutdown(wait=True) returned; the lease is released and the    *)
(* process exits, with whatever request threads are left.                  *)
Exit(p) ==
    /\ phase[p] = "stopping"
    /\ \A j \in Holders(p) : task[j] \notin InExecutor
    /\ phase' = [phase EXCEPT ![p] = "down"]
    /\ DropThreads(p)
    /\ UNCHANGED <<fenceVars, lost, broken, free, rowVars>>

-----------------------------------------------------------------------------
(* create_analysis and delete_analysis.                                    *)

(* reserve(), inside the transaction that will add the row.                *)
Reserve(p, j) ==
    /\ Serving(p) /\ phase[p] \in {"recovering", "ready"}
    /\ row[j] = "absent" /\ task[j] = "none"
    /\ ~lost[p] /\ p = writer          \* lease_healthy()
    /\ ~broken[p]
    /\ free[p] > 0
    /\ free' = [free EXCEPT ![p] = @ - 1]
    /\ by' = [by EXCEPT ![j] = p]
    /\ Goto(j, "reserved")
    /\ UNCHANGED <<fenceVars, phase, lost, broken, rowVars, reply, tries>>

CreateCommits(p, j) ==
    /\ by[j] = p /\ task[j] = "reserved"
    /\ Committed(p)
    /\ SetRow(j, "QUEUED")
    /\ Goto(j, "committed")
    /\ UNCHANGED <<memVars, restarted, by, reply, tries>>

(* The quota is exhausted, the transaction fails, or LeaseLost: except     *)
(* BaseException gives the slot back.                                      *)
CreateFails(p, j) ==
    /\ by[j] = p /\ task[j] = "reserved"
    /\ Fenced(p) \/ UNCHANGED <<fenceVars, lost>>
    /\ GiveBack(p)
    /\ Goto(j, "none")
    /\ UNCHANGED <<phase, broken, rowVars, by, reply, tries>>

(* The row is committed, but commit() raises in the request.               *)
CreateAckLost(p, j) ==
    /\ dbErrors
    /\ by[j] = p /\ task[j] = "reserved"
    /\ Committed(p)
    /\ SetRow(j, "QUEUED")
    /\ GiveBack(p)
    /\ Goto(j, "limbo")
    /\ UNCHANGED <<phase, lost, broken, restarted, by, reply, tries>>

(* executor.submit(_run); it raises once the executor is shut down.        *)
Submit(p, j) ==
    /\ by[j] = p /\ task[j] = "committed"
    /\ Goto(j, IF phase[p] \in {"shut", "stopping"} THEN "undispatched"
                                                    ELSE "queued")
    /\ UNCHANGED <<fenceVars, memVars, rowVars, by, reply, tries>>

Delete(p, j) ==
    /\ Serving(p)
    /\ row[j] \notin {"absent", "deleted"}
    /\ Committed(p)
    /\ SetRow(j, "deleted")
    /\ UNCHANGED <<memVars, restarted, taskVars>>

-----------------------------------------------------------------------------
(* _run and finish.                                                        *)

Busy(p) == Cardinality({j \in Holders(p) : task[j] \in InWorker})

(* A free worker thread takes j and reads its row, without a lock on it.   *)
Look(p, j) ==
    /\ by[j] = p /\ task[j] = "queued"
    /\ Busy(p) < Workers
    /\ writer = p /\ ~lost[p]
    /\ Goto(j, IF row[j] = "QUEUED" THEN "claiming" ELSE "releasing")
    /\ UNCHANGED <<fenceVars, memVars, rowVars, by, reply, tries>>

(* The same transaction writes RUNNING, over whatever the row has become   *)
(* in the meantime; a row that is gone makes it raise.                     *)
Claim(p, j) ==
    /\ by[j] = p /\ task[j] = "claiming"
    /\ Committed(p)
    /\ IF row[j] = "deleted"
         THEN UNCHANGED row /\ Goto(j, "crashed")
         ELSE SetRow(j, "RUNNING") /\ Goto(j, "executing")
    /\ UNCHANGED <<memVars, restarted, by, reply, tries>>

(* It raises, with or without effect.                                      *)
ClaimFails(p, j) ==
    /\ by[j] = p
    /\ \/ task[j] = "queued" /\ Busy(p) < Workers
       \/ task[j] = "claiming"
    /\ \/ Fenced(p) /\ UNCHANGED row /\ Goto(j, "releasing")
       \/ /\ dbErrors
          /\ UNCHANGED <<fenceVars, lost, row>>
          /\ Goto(j, "crashed")
       \/ /\ dbErrors /\ task[j] = "claiming" /\ row[j] # "deleted"
          /\ Committed(p) /\ UNCHANGED lost
          /\ SetRow(j, "RUNNING")
          /\ Goto(j, "crashed")
    /\ UNCHANGED <<phase, broken, free, restarted, by, reply, tries>>

(* execute() returned: a result or an error envelope (failure, timeout,    *)
(* lease loss), always an error once stopping; or it raised.               *)
Execute(p, j) ==
    /\ by[j] = p /\ task[j] = "executing"
    /\ \E ok \in BOOLEAN :
         /\ ok => phase[p] # "stopping"
         /\ reply' = [reply EXCEPT ![j] = ok]
    /\ Goto(j, "finishing")
    /\ UNCHANGED <<fenceVars, memVars, rowVars, by, tries>>

ExecuteRaises(p, j) ==
    /\ by[j] = p /\ task[j] = "executing"
    /\ Goto(j, "crashed")
    /\ UNCHANGED <<fenceVars, memVars, rowVars, by, reply, tries>>

(* Mutant of RunExcept: the exception is only logged.                      *)
RunExceptLogs(p, j) ==
    /\ by[j] = p /\ task[j] = "crashed"
    /\ reply' = [reply EXCEPT ![j] = FALSE]
    /\ Goto(j, "releasing")
    /\ UNCHANGED <<fenceVars, memVars, rowVars, by, tries>>

(* except Exception in _run: store worker_failed unless persistence is     *)
(* known to have failed.                                                   *)
RunExcept(p, j) ==
    /\ by[j] = p /\ task[j] = "crashed"
    /\ reply' = [reply EXCEPT ![j] = FALSE]
    /\ Goto(j, IF broken[p] THEN "releasing" ELSE "finishing")
    /\ UNCHANGED <<fenceVars, memVars, rowVars, by, tries>>

(* Mutant of AfterFinish: create_analysis keeps the slot of a job it could *)
(* not dispatch.                                                           *)
AfterFinishKeepsSlot(p, j) ==
    /\ UNCHANGED free
    /\ Goto(j, IF task[j] = "undispatched" THEN "none" ELSE "releasing")
    /\ reply' = [reply EXCEPT ![j] = FALSE]
    /\ tries' = [tries EXCEPT ![j] = 0]

(* Mutant of AfterFinish: both create_analysis and _run give the slot back.*)
AfterFinishTwice(p, j) ==
    /\ IF task[j] = "undispatched" THEN GiveBack(p) ELSE UNCHANGED free
    /\ Goto(j, "releasing")
    /\ reply' = [reply EXCEPT ![j] = FALSE]
    /\ tries' = [tries EXCEPT ![j] = 0]

(* Where finish() returns to, or raises to: the finally clause of _run, or *)
(* create_analysis, which gives the slot back.                             *)
AfterFinish(p, j) ==
    /\ IF task[j] = "undispatched" THEN GiveBack(p) /\ Goto(j, "none")
                                   ELSE UNCHANGED free /\ Goto(j, "releasing")
    /\ reply' = [reply EXCEPT ![j] = FALSE]
    /\ tries' = [tries EXCEPT ![j] = 0]

(* Mutant of StoreReply: the row is overwritten whatever it says.          *)
StoreReplyAlways(j) == SetRow(j, IF reply[j] THEN "SUCCEEDED" ELSE "FAILED")

StoreReply(j) ==
    IF row[j] \in Unfinished
      THEN SetRow(j, IF reply[j] THEN "SUCCEEDED" ELSE "FAILED")
      ELSE UNCHANGED row

Finish(p, j) ==
    /\ by[j] = p /\ task[j] \in {"finishing", "undispatched"}
    /\ Committed(p)
    /\ StoreReply(j)
    /\ AfterFinish(p, j)
    /\ UNCHANGED <<phase, lost, broken, restarted, by>>

FinishFenced(p, j) ==
    /\ by[j] = p /\ task[j] \in {"finishing", "undispatched"}
    /\ Fenced(p)
    /\ AfterFinish(p, j)
    /\ UNCHANGED <<phase, broken, rowVars, by>>

(* A terminal write raises, with or without effect.  The next try stores   *)
(* worker_failed; after the last one persistence_failed is set.            *)
FinishFails(p, j) ==
    /\ dbErrors
    /\ by[j] = p /\ task[j] \in {"finishing", "undispatched"}
    /\ \/ UNCHANGED <<fenceVars, row>>
       \/ Committed(p) /\ StoreReply(j)
    /\ IF tries[j] < Attempts - 1
         THEN /\ tries' = [tries EXCEPT ![j] = @ + 1]
              /\ reply' = [reply EXCEPT ![j] = FALSE]
              /\ UNCHANGED <<broken, free, task>>
         ELSE /\ broken' = [broken EXCEPT ![p] = TRUE]
              /\ AfterFinish(p, j)
    /\ UNCHANGED <<phase, lost, restarted, by>>

(* finally: slots.release()                                                *)
Release(p, j) ==
    /\ by[j] = p /\ task[j] = "releasing"
    /\ GiveBack(p)
    /\ Goto(j, "none")
    /\ UNCHANGED <<fenceVars, phase, lost, broken, rowVars, by, reply, tries>>

-----------------------------------------------------------------------------
ProcessStep(p) ==
    \/ Takeover(p) \/ RecoverBatch(p) \/ RecoverFails(p) \/ LoseLease(p)
    \/ Crash(p) \/ ShutdownStep(p) \/ Exit(p)

WorkStep(p, j) ==
    \/ CreateCommits(p, j) \/ CreateFails(p, j) \/ CreateAckLost(p, j)
    \/ Submit(p, j) \/ Look(p, j) \/ Claim(p, j) \/ ClaimFails(p, j)
    \/ Execute(p, j) \/ ExecuteRaises(p, j) \/ RunExcept(p, j) \/ Finish(p, j)
    \/ FinishFenced(p, j) \/ FinishFails(p, j) \/ Release(p, j)

Next ==
    /\ UNCHANGED settings
    /\ \E p \in Process :
        \/ ProcessStep(p)
        \/ \E j \in Job : Reserve(p, j) \/ Delete(p, j) \/ WorkStep(p, j)

Spec == Init /\ [][Next]_vars

(* Threads and transactions make progress (job and statement timeouts);    *)
(* recovery runs, and a shutdown, once begun, goes on.                     *)
Fairness ==
    \A p \in Process :
        /\ WF_moving(RecoverBatch(p) \/ RecoverFails(p))
        /\ \A j \in Job : WF_moving(WorkStep(p, j))

FairSpec == Spec /\ Fairness

-----------------------------------------------------------------------------
(* The semaphore of a live process counts exactly the threads that hold a  *)
(* slot: no path through submit, finish and _run gives a slot back twice   *)
(* or keeps it (jobs.py:161-261, app.py:733-736).                          *)
SlotsMatchHolders ==
    \A p \in Process : Live(p) => free[p] + Cardinality(Holders(p)) = MaxJobs

(* A terminal row keeps its outcome, whoever still works on it: a late     *)
(* worker, a retried terminal write, or the recovery of a successor        *)
(* (docs/beta-api.md:266: events are written with it, so once).  Not so    *)
(* when requests are served while recovery runs: _run() reads the row      *)
(* without a lock, and RUNNING may overwrite what recovery has written.    *)
TerminalIsFinal ==
    [][~earlyHttp =>
         \A j \in Job : row[j] \in Terminal \cup {"deleted"}
                        => row'[j] \in {row[j], "deleted"}]_vars

(* Once recovery is over, an unfinished row has a thread of the writer     *)
(* working on it, unless readiness already reports the failure or the row  *)
(* is one whose acknowledgement was lost.                                  *)
NoOrphan ==
    \A j \in Job :
        /\ row[j] \in Unfinished /\ task[j] # "limbo"
        /\ writer # None /\ phase[writer] \notin {"recovering", "down"}
        => \/ by[j] = writer /\ task[j] \notin {"none", "releasing"}
           \/ broken[writer]
           \/ lost[writer]

(* A graceful shutdown with a healthy lease and working persistence leaves *)
(* no accepted analysis unfinished (jobs.py drain: "Let all work finish    *)
(* until the shared deadline, then stop it").                              *)
GracefulExitSettles ==
    [][\A p \in Process :
         /\ Exit(p) /\ ~lost[p] /\ ~broken[p]
         /\ \A j \in Holders(p) : task[j] \notin InRequest
         => \A j \in Job :
               by[j] = p /\ task[j] # "limbo" => row[j] \notin Unfinished]_vars

(* Recovery fails only the work of earlier processes: "Restart fails       *)
(* abandoned work honestly (`server_restarted`)" (docs/api.md:212-213).    *)
RecoverySparesFreshWork ==
    \A j \in Job : restarted[j] => by[j] # writer

(* The same, unless requests are served while recovery runs.               *)
LateHttpSparesFreshWork == ~earlyHttp => RecoverySparesFreshWork

(* Every accepted analysis settles: it becomes terminal or is deleted, or  *)
(* the failure is one that readiness reports or a restart repairs.         *)
AcceptedSettles ==
    \A j \in Job :
        row[j] \in Unfinished ~>
            \/ row[j] \notin Unfinished
            \/ task[j] = "limbo"
            \/ \E p \in Process :
                 p = writer /\ (broken[p] \/ lost[p] \/ phase[p] = "down")
=============================================================================
