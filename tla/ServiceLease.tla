---------------------------- MODULE ServiceLease ----------------------------
(***************************************************************************)
(* The single-writer lease of the API server on PostgreSQL                 *)
(* (server/lease.py), the fenced transactions of db.session()              *)
(* (server/db.py) and the start-up, lease-wait and shutdown paths of the   *)
(* application lifespan (server/app.py) that use them.                     *)
(*                                                                         *)
(* Two advisory locks are involved.  The session lock 481936024 says which *)
(* process owns the service (`holder').  Lock 481936025 is taken shared by *)
(* every fenced transaction until it ends, and exclusively, for an instant,*)
(* by a process that acquired the session lock: its acquire() returns only *)
(* when every transaction admitted before has ended.                       *)
(*                                                                         *)
(* A member of Process is one operating-system process: a restarted server *)
(* is another member.  A backend pid stands for the process that opened    *)
(* the connection, so a pid is assumed not to be reused.                   *)
(***************************************************************************)
CONSTANTS Process,     \* server processes over the life of the database
          Txn,         \* transaction slots (request and worker threads) of each
          None,        \* "no process"
          LeaseWait,   \* BR_LEASE_WAIT_SECONDS > 0
          DbErrors     \* the database connection may fail inside acquire()

ASSUME LeaseAssumption == /\ None \notin Process
                          /\ LeaseWait \in BOOLEAN
                          /\ DbErrors \in BOOLEAN

VARIABLES proc,      \* [Process -> Phase]: where the lifespan of a process is
          starting,  \* [Process -> BOOLEAN]: the `starting' event of app.py
          lost,      \* [Process -> BOOLEAN]: the ServiceLease.lost event
          holder,    \* backend holding session lock 481936024
          txn,       \* [Process -> [Txn -> Stage]]: fenced transactions
          writer,    \* history: the last process whose acquire() returned
          retired,   \* history: earlier values of writer
          author     \* history: who committed last since writer changed

leaseVars == <<proc, starting, lost, holder>>
ghosts    == <<writer, retired, author>>
vars      == <<proc, starting, lost, holder, txn, writer, retired, author>>

(* off: not started.  waiting: polling every second behind the             *)
(* reject_while_starting fence.  draining: acquire() holds the session     *)
(* lock and waits for 481936025.  recovering: acquire() returned, fence    *)
(* wired, start_components() running.  serving: ready.  stuck: the wait    *)
(* thread died of an exception it does not catch.  down: exited.           *)
Phase == {"off", "waiting", "draining", "recovering", "serving", "stuck", "down"}

(* idle: no transaction.  begun: asked for the shared lock.  admitted:     *)
(* shared lock granted, owner not yet checked.  open: body running.        *)
(* committing: second fence passed, COMMIT sent.                           *)
Stage == {"idle", "begun", "admitted", "open", "committing"}

TypeOK ==
    /\ proc \in [Process -> Phase]
    /\ starting \in [Process -> BOOLEAN]
    /\ lost \in [Process -> BOOLEAN]
    /\ holder \in Process \cup {None}
    /\ txn \in [Process -> [Txn -> Stage]]
    /\ writer \in Process \cup {None}
    /\ retired \subseteq Process
    /\ author \in Process \cup {None}

Init ==
    /\ proc = [p \in Process |-> "off"]
    /\ starting = [p \in Process |-> FALSE]
    /\ lost = [p \in Process |-> FALSE]
    /\ holder = None
    /\ txn = [p \in Process |-> [t \in Txn |-> "idle"]]
    /\ writer = None
    /\ retired = {}
    /\ author = None

-----------------------------------------------------------------------------
(* The locks.                                                              *)

HoldsShared(p, t) == txn[p][t] \in {"admitted", "open", "committing"}

Draining == \E p \in Process : proc[p] = "draining"

(* Threads of p run and db.fence is ServiceLease.fence.                    *)
Fenced(p) == proc[p] \in {"recovering", "serving"}

SetStage(p, t, s) == txn' = [txn EXCEPT ![p][t] = s]

-----------------------------------------------------------------------------
(* Start-up and acquisition.                                               *)

(* The session lock is free: pg_try_advisory_lock succeeds.                *)
TryLock(p) ==
    /\ holder = None
    /\ holder' = p
    /\ proc' = [proc EXCEPT ![p] = "draining"]

Start(p) ==
    /\ proc[p] = "off"
    /\ TryLock(p)
    /\ UNCHANGED <<starting, lost, txn, ghosts>>

(* "Only one server process per database is supported": give up, or start  *)
(* the wait thread behind reject_while_starting.                           *)
StartBusy(p) ==
    /\ proc[p] = "off"
    /\ holder # None
    /\ IF LeaseWait
         THEN /\ proc' = [proc EXCEPT ![p] = "waiting"]
              /\ starting' = [starting EXCEPT ![p] = TRUE]
         ELSE /\ proc' = [proc EXCEPT ![p] = "down"]
              /\ UNCHANGED starting
    /\ UNCHANGED <<lost, holder, txn, ghosts>>

Poll(p) ==
    /\ proc[p] = "waiting"
    /\ TryLock(p)
    /\ UNCHANGED <<starting, lost, txn, ghosts>>

(* A poll that fails with an SQLAlchemyError: wait_for_lease catches only  *)
(* RuntimeError, so its thread ends and nothing polls any more.            *)
PollError(p) ==
    /\ DbErrors
    /\ proc[p] = "waiting"
    /\ proc' = [proc EXCEPT ![p] = "stuck"]
    /\ UNCHANGED <<starting, lost, holder, txn, ghosts>>

(* Mutant of WaitTimeout: the deadline is only looked at when the lock is  *)
(* free.                                                                   *)
WaitTimeoutWhenFree(p) ==
    /\ proc[p] = "waiting"
    /\ holder = None
    /\ proc' = [proc EXCEPT ![p] = "down"]
    /\ UNCHANGED <<starting, lost, holder, txn, ghosts>>

WaitTimeout(p) ==
    /\ proc[p] = "waiting"
    /\ proc' = [proc EXCEPT ![p] = "down"]
    /\ UNCHANGED <<starting, lost, holder, txn, ghosts>>

(* Mutants of Acquired: the drain is skipped; the first owner is remembered*)
(* as the successor of somebody.                                           *)
AcquiredUndrained(p) ==
    /\ proc[p] = "draining"
    /\ holder = p
    /\ proc' = [proc EXCEPT ![p] = "recovering"]
    /\ writer' = p
    /\ retired' = retired \cup ({writer} \ {None})
    /\ author' = None
    /\ UNCHANGED <<starting, lost, holder, txn>>

AcquiredFromNobody(p) ==
    /\ proc[p] = "draining"
    /\ holder = p
    /\ \A q \in Process, t \in Txn : ~HoldsShared(q, t)
    /\ proc' = [proc EXCEPT ![p] = "recovering"]
    /\ writer' = p
    /\ retired' = retired \cup {writer}
    /\ author' = None
    /\ UNCHANGED <<starting, lost, holder, txn>>

(* pg_advisory_xact_lock(481936025) is granted and released at once, and   *)
(* acquire() wires fence and lease_healthy.                                *)
Acquired(p) ==
    /\ proc[p] = "draining"
    /\ holder = p
    /\ \A q \in Process, t \in Txn : ~HoldsShared(q, t)
    /\ proc' = [proc EXCEPT ![p] = "recovering"]
    /\ writer' = p
    /\ retired' = retired \cup ({writer} \ {None})
    /\ author' = None
    /\ UNCHANGED <<starting, lost, holder, txn>>

(* start_components() returned: recovery is done.                          *)
Recovered(p) ==
    /\ proc[p] = "recovering"
    /\ proc' = [proc EXCEPT ![p] = "serving"]
    /\ starting' = [starting EXCEPT ![p] = FALSE]
    /\ UNCHANGED <<lost, holder, txn, ghosts>>

(* start_components() raised: fatal(), or the exception ends the lifespan. *)
StartupFailed(p) ==
    /\ proc[p] = "recovering"
    /\ lost[p]
    /\ proc' = [proc EXCEPT ![p] = "down"]
    /\ UNCHANGED <<starting, lost, holder, txn, ghosts>>

-----------------------------------------------------------------------------
(* Losing and releasing the lease.                                         *)

(* The server drops p's lock connection while p still runs.  A process     *)
(* blocked in acquire() sees the error; any other learns of it later.      *)
SessionDropped(p) ==
    /\ holder = p
    /\ DbErrors \/ proc[p] # "draining"
    /\ holder' = None
    /\ IF proc[p] = "draining"
         THEN proc' = [proc EXCEPT ![p] = IF starting[p] THEN "stuck" ELSE "down"]
         ELSE UNCHANGED proc
    /\ UNCHANGED <<starting, lost, txn, ghosts>>

(* healthy() found the lock gone, or could not ask.                        *)
ProbeFails(p) ==
    /\ Fenced(p)
    /\ ~lost[p]
    /\ holder # p \/ DbErrors      \* lock_not_held, or probe_failed
    /\ lost' = [lost EXCEPT ![p] = TRUE]
    /\ UNCHANGED <<proc, starting, holder, txn, ghosts>>

(* Shutdown: release() unlocks on the process's own connection, whatever   *)
(* request threads are still doing, and the process exits.                 *)
Release(p) ==
    /\ proc[p] \in {"waiting", "stuck", "recovering", "serving"}
    /\ lost' = [lost EXCEPT ![p] = TRUE]
    /\ holder' = IF holder = p THEN None ELSE holder
    /\ proc' = [proc EXCEPT ![p] = "down"]
    /\ UNCHANGED <<starting, txn, ghosts>>

(* The process or its host dies.  Its connections stay open in PostgreSQL  *)
(* until the server notices: SessionDropped and Abort.                     *)
Crash(p) ==
    /\ proc[p] \notin {"off", "down"}
    /\ proc' = [proc EXCEPT ![p] = "down"]
    /\ UNCHANGED <<starting, lost, holder, txn, ghosts>>

-----------------------------------------------------------------------------
(* db.session(): fence, body, fence, commit.                               *)

Begin(p, t) ==
    /\ Fenced(p)
    /\ ~lost[p]
    /\ txn[p][t] = "idle"
    /\ SetStage(p, t, "begun")
    /\ UNCHANGED <<leaseVars, ghosts>>

(* The shared lock is granted, behind an exclusive request already queued. *)
Admit(p, t) ==
    /\ Fenced(p)
    /\ txn[p][t] = "begun"
    /\ ~Draining
    /\ SetStage(p, t, "admitted")
    /\ UNCHANGED <<leaseVars, ghosts>>

(* Mutant of CheckOwner: the shared lock alone admits.                     *)
CheckNothing(p, t, s) == SetStage(p, t, s) /\ UNCHANGED lost

(* OWNER: go on if this process's backend still holds the session lock;    *)
(* otherwise LeaseLost, and the lease is lost for good.                    *)
CheckOwner(p, t, s) ==
    IF holder = p
      THEN SetStage(p, t, s) /\ UNCHANGED lost
      ELSE SetStage(p, t, "idle") /\ lost' = [lost EXCEPT ![p] = TRUE]

Enter(p, t) ==
    /\ Fenced(p)
    /\ txn[p][t] = "admitted"
    /\ CheckOwner(p, t, "open")
    /\ UNCHANGED <<proc, starting, holder, ghosts>>

(* The second fence, after the body.                                       *)
Seal(p, t) ==
    /\ Fenced(p)
    /\ txn[p][t] = "open"
    /\ IF lost[p] THEN SetStage(p, t, "idle") /\ UNCHANGED lost
                  ELSE CheckOwner(p, t, "committing")
    /\ UNCHANGED <<proc, starting, holder, ghosts>>

(* PostgreSQL commits, even if the process has died meanwhile.             *)
Commit(p, t) ==
    /\ txn[p][t] = "committing"
    /\ SetStage(p, t, "idle")
    /\ author' = p
    /\ UNCHANGED <<leaseVars, writer, retired>>

(* The body raised, a lock or statement timeout fired, or the server       *)
(* reaped the connection of a dead process.                                *)
Abort(p, t) ==
    /\ txn[p][t] # "idle"
    /\ SetStage(p, t, "idle")
    /\ UNCHANGED <<leaseVars, ghosts>>

-----------------------------------------------------------------------------
LifeStep(p) ==
    \/ Start(p) \/ StartBusy(p) \/ Poll(p) \/ PollError(p) \/ WaitTimeout(p)
    \/ Acquired(p) \/ Recovered(p) \/ StartupFailed(p)
    \/ SessionDropped(p) \/ ProbeFails(p) \/ Release(p) \/ Crash(p)

TxnStep(p, t) ==
    \/ Begin(p, t) \/ Admit(p, t) \/ Enter(p, t)
    \/ Seal(p, t) \/ Commit(p, t) \/ Abort(p, t)

Next == \E p \in Process : LifeStep(p) \/ \E t \in Txn : TxnStep(p, t)

Spec == Init /\ [][Next]_vars

(* Fairness the runtime justifies: the wait thread polls and observes its  *)
(* deadline, a granted lock request returns, start-up runs to its end, a   *)
(* transaction ends (statement timeouts, or the server reaping the         *)
(* connection), and the server notices a dead owner (TCP keepalives).      *)
Fairness ==
    \A p \in Process :
        /\ WF_vars(Poll(p) \/ WaitTimeout(p))
        /\ WF_vars(Acquired(p))
        /\ WF_vars(Recovered(p))
        /\ WF_vars(proc[p] = "down" /\ SessionDropped(p))
        /\ \A t \in Txn : /\ WF_vars(Enter(p, t) \/ Seal(p, t) \/ Commit(p, t))
                          /\ WF_vars(proc[p] = "down" /\ Abort(p, t))

FairSpec == Spec /\ Fairness

-----------------------------------------------------------------------------
(* Safety: the body of a transaction (from the owner check to COMMIT) only *)
(* runs in the process whose acquire() returned last, so a superseded      *)
(* process can neither commit nor read-then-write behind its successor's   *)
(* recovery (lease.py: fence() at both ends of db.session()).              *)
OnlyWriterInBody ==
    \A p \in Process, t \in Txn :
        txn[p][t] \in {"open", "committing"} => p = writer

(* Safety: two processes may both believe to be serving, but one that runs *)
(* recovery or serves while its backend holds the session lock is the last *)
(* to have finished acquire(): recovery never runs beside a later one.     *)
OwnerIsWriter ==
    \A p \in Process : Fenced(p) /\ holder = p => p = writer

(* Liveness: a replacement that waits for the lease becomes ready or       *)
(* terminates (docs/deployment-render.md:85-88).                           *)
ReplacementSettles ==
    \A p \in Process :
        proc[p] = "waiting" ~> proc[p] \in {"serving", "down"}

(* Liveness: the same, but for a replacement whose wait thread died of a   *)
(* database error; no other failure keeps it waiting.                      *)
WaitersSettle ==
    \A p \in Process :
        proc[p] = "waiting" ~> proc[p] \in {"serving", "down", "stuck"}

(* Refinement: the lease keeps the promise the rest of the server is built *)
(* on.  An acquire() that returns is a takeover, a COMMIT a fenced commit, *)
(* and all that the locks, probes and connections do between is stuttering.*)
Promise == INSTANCE FencedWriter
             WITH Server <- Process, Nobody <- None,
                  writer <- writer, retired <- retired, author <- author
FencedWriterSpec == Promise!Spec
=============================================================================
