------------------------- MODULE ServiceLeaseProofs -------------------------
(***************************************************************************)
(* Proofs about ServiceLease, for any set of processes and of transaction  *)
(* slots.  The fencing invariant is not inductive by itself: a transaction *)
(* enters its body because its process holds the session lock, so one also *)
(* needs that a fenced holder is the writer (OwnerIsWriter), that a        *)
(* process in acquire() holds the session lock (DrainerHolds), and that    *)
(* only processes past acquire() were ever writers (WritersAcquired).      *)
(***************************************************************************)
EXTENDS ServiceLease, TLAPS

(* Between the session lock and the return of acquire() p holds the lock.  *)
DrainerHolds == \A p \in Process : proc[p] = "draining" => holder = p

(* Writers have been through acquire() and never go back before it.        *)
WritersAcquired ==
    /\ writer # None => proc[writer] \in {"recovering", "serving", "down"}
    /\ \A p \in retired : proc[p] \in {"recovering", "serving", "down"}

(* The last fenced commit of the current term is the writer's.             *)
AuthorIsWriter == author # None => author = writer

IInv == /\ TypeOK
        /\ OnlyWriterInBody
        /\ OwnerIsWriter
        /\ DrainerHolds
        /\ WritersAcquired
        /\ AuthorIsWriter

LEMMA InitIInv == Init => IInv
  BY LeaseAssumption
  DEF Init, IInv, TypeOK, Phase, Stage, OnlyWriterInBody, OwnerIsWriter,
      Fenced, DrainerHolds, WritersAcquired, AuthorIsWriter

(* The steps of a process's life preserve the invariant.                   *)
LEMMA LifeStepIInv ==
  ASSUME IInv, NEW p \in Process, LifeStep(p)
  PROVE  IInv'
<1> USE LeaseAssumption DEF IInv, TypeOK, Phase, Stage, OnlyWriterInBody,
        OwnerIsWriter, Fenced, DrainerHolds, WritersAcquired, AuthorIsWriter,
        TryLock, ghosts
<1>1. CASE Start(p)         BY <1>1 DEF Start
<1>2. CASE StartBusy(p)
  <2>1. CASE LeaseWait      BY <1>2, <2>1 DEF StartBusy
  <2>2. CASE ~LeaseWait     BY <1>2, <2>2 DEF StartBusy
  <2> QED BY <2>1, <2>2
<1>3. CASE Poll(p)          BY <1>3 DEF Poll
<1>4. CASE PollError(p)     BY <1>4 DEF PollError
<1>5. CASE WaitTimeout(p)   BY <1>5 DEF WaitTimeout
<1>6. CASE Acquired(p)      BY <1>6 DEF Acquired, HoldsShared
<1>7. CASE Recovered(p)     BY <1>7 DEF Recovered
<1>8. CASE StartupFailed(p) BY <1>8 DEF StartupFailed
<1>9. CASE SessionDropped(p) BY <1>9 DEF SessionDropped
<1>10. CASE ProbeFails(p)   BY <1>10 DEF ProbeFails
<1>11. CASE Release(p)      BY <1>11 DEF Release
<1>12. CASE Crash(p)        BY <1>12 DEF Crash
<1> QED
  BY <1>1, <1>2, <1>3, <1>4, <1>5, <1>6, <1>7, <1>8, <1>9, <1>10, <1>11, <1>12
  DEF LifeStep

(* The owner check moves one slot, either to s or, with the lease marked   *)
(* lost, back to idle.                                                     *)
LEMMA CheckOwnerMoves ==
  ASSUME TypeOK, NEW p \in Process, NEW t \in Txn, NEW s \in Stage,
         CheckOwner(p, t, s)
  PROVE  /\ txn' \in [Process -> [Txn -> Stage]]
         /\ lost' \in [Process -> BOOLEAN]
         /\ \A q \in Process, u \in Txn :
               <<q, u>> # <<p, t>> => txn'[q][u] = txn[q][u]
         /\ txn'[p][t] # "idle" => holder = p
<1>0. "idle" \in Stage BY DEF Stage
<1>1. PICK r \in Stage : SetStage(p, t, r) /\ (r # "idle" => holder = p)
  BY <1>0 DEF CheckOwner
<1>2. lost' \in [Process -> BOOLEAN]
  BY DEF CheckOwner, TypeOK
<1>3. txn' = [txn EXCEPT ![p] = [txn[p] EXCEPT ![t] = r]]
  BY <1>1 DEF SetStage
<1>4. txn[p] \in [Txn -> Stage] BY DEF TypeOK
<1>5. txn' \in [Process -> [Txn -> Stage]]
  BY <1>3, <1>4 DEF TypeOK
<1>6. txn'[p][t] = r BY <1>3, <1>4 DEF TypeOK
<1>7. \A q \in Process, u \in Txn :
         <<q, u>> # <<p, t>> => txn'[q][u] = txn[q][u]
  BY <1>3, <1>4 DEF TypeOK
<1> QED BY <1>1, <1>2, <1>5, <1>6, <1>7

(* The steps of a fenced transaction preserve the invariant.               *)
LEMMA TxnStepIInv ==
  ASSUME IInv, NEW p \in Process, NEW t \in Txn, TxnStep(p, t)
  PROVE  IInv'
<1> USE DEF IInv
<1> DEFINE Quiet == UNCHANGED <<proc, holder, writer, retired>>
<1>0. "open" \in Stage /\ "committing" \in Stage /\ "idle" \in Stage
  BY DEF Stage
<1>1. ASSUME Quiet, UNCHANGED author
      PROVE  OwnerIsWriter' /\ DrainerHolds' /\ WritersAcquired' /\ AuthorIsWriter'
  BY <1>1 DEF OwnerIsWriter, Fenced, DrainerHolds, WritersAcquired, AuthorIsWriter
<1>2. CASE Begin(p, t) \/ Admit(p, t) \/ Abort(p, t)
  <2>1. Quiet /\ UNCHANGED <<author, starting, lost>>
    BY <1>2 DEF Begin, Admit, Abort, leaseVars, ghosts
  <2>2. PICK s \in {"begun", "admitted", "idle"} : SetStage(p, t, s)
    BY <1>2 DEF Begin, Admit, Abort
  <2>3. TypeOK' BY <2>1, <2>2 DEF TypeOK, Stage, SetStage
  <2>4. OnlyWriterInBody' BY <2>1, <2>2 DEF OnlyWriterInBody, SetStage, TypeOK
  <2> QED BY <1>1, <2>1, <2>3, <2>4
<1>3. ASSUME CheckOwner(p, t, "open") \/ CheckOwner(p, t, "committing"),
             Fenced(p), UNCHANGED <<proc, starting, holder, ghosts>>
      PROVE  IInv'
  <2>1. Quiet /\ UNCHANGED <<author, starting>> BY <1>3 DEF ghosts
  <2>2. TypeOK' BY <1>0, <1>3, <2>1, CheckOwnerMoves DEF TypeOK
  <2>3. holder = p => p = writer BY <1>3 DEF OwnerIsWriter
  <2>4. OnlyWriterInBody'
    BY <1>0, <1>3, <2>1, <2>3, CheckOwnerMoves DEF OnlyWriterInBody
  <2> QED BY <1>1, <2>1, <2>2, <2>4
<1>4. CASE Enter(p, t) BY <1>3, <1>4 DEF Enter
<1>5. CASE Seal(p, t)
  <2>1. CASE lost[p]
    <3>1. Quiet /\ UNCHANGED <<author, starting, lost>> /\ SetStage(p, t, "idle")
      BY <1>5, <2>1 DEF Seal, ghosts
    <3>2. TypeOK' BY <1>0, <3>1 DEF TypeOK, SetStage
    <3>3. OnlyWriterInBody' BY <3>1 DEF OnlyWriterInBody, SetStage, TypeOK
    <3> QED BY <1>1, <3>1, <3>2, <3>3
  <2>2. CASE ~lost[p] BY <1>3, <1>5, <2>2 DEF Seal
  <2> QED BY <2>1, <2>2
<1>6. CASE Commit(p, t)
  <2>1. Quiet /\ UNCHANGED <<starting, lost>> /\ SetStage(p, t, "idle") /\ author' = p
    BY <1>6 DEF Commit, leaseVars
  <2>2. TypeOK' BY <1>0, <2>1 DEF TypeOK, SetStage
  <2>3. OnlyWriterInBody' BY <2>1 DEF OnlyWriterInBody, SetStage, TypeOK
  <2>4. AuthorIsWriter'
    BY <1>6, <2>1 DEF Commit, OnlyWriterInBody, AuthorIsWriter
  <2>5. OwnerIsWriter' /\ DrainerHolds' /\ WritersAcquired'
    BY <2>1 DEF OwnerIsWriter, Fenced, DrainerHolds, WritersAcquired
  <2> QED BY <2>2, <2>3, <2>4, <2>5
<1> QED BY <1>2, <1>4, <1>5, <1>6 DEF TxnStep

LEMMA StepIInv == IInv /\ [Next]_vars => IInv'
<1> SUFFICES ASSUME IInv, [Next]_vars PROVE IInv' OBVIOUS
<1>1. CASE Next
  BY <1>1, LifeStepIInv, TxnStepIInv DEF Next
<1>2. CASE UNCHANGED vars
  BY <1>2 DEF vars, IInv, TypeOK, OnlyWriterInBody, OwnerIsWriter, Fenced,
              DrainerHolds, WritersAcquired, AuthorIsWriter
<1> QED BY <1>1, <1>2

(* The inductive invariant holds in every reachable state.                 *)
THEOREM InvariantHolds == Spec => []IInv
  BY InitIInv, StepIInv, PTL DEF Spec

(* Every variable of the lease has its type.                               *)
THEOREM TypeCorrect == Spec => []TypeOK
  BY InvariantHolds, PTL DEF IInv

(* A transaction body runs only in the process that acquired the lease     *)
(* last: fence() at both ends of db.session().                             *)
THEOREM FencingIsSafe == Spec => []OnlyWriterInBody
  BY InvariantHolds, PTL DEF IInv

(* Recovery and service under a held lock happen in the last acquirer.     *)
THEOREM HolderIsLastAcquirer == Spec => []OwnerIsWriter
  BY InvariantHolds, PTL DEF IInv

(* Every step of the lease is a takeover, a fenced commit of the writer or *)
(* invisible to the promise the other components are built on.             *)
LEMMA StepRefines ==
  ASSUME IInv, [Next]_vars
  PROVE  [Promise!Next]_(Promise!fwVars)
<1> USE DEF Promise!Next, Promise!Takeover, Promise!FencedCommit,
            Promise!fwVars, ghosts, leaseVars
<1>1. ASSUME NEW p \in Process, Acquired(p) PROVE Promise!Takeover(p)
  <2>1. p # writer /\ p \notin retired
    BY <1>1, LeaseAssumption DEF Acquired, IInv, WritersAcquired
  <2> QED BY <1>1, <2>1 DEF Acquired
<1>2. ASSUME NEW p \in Process, NEW t \in Txn, Commit(p, t)
      PROVE  Promise!FencedCommit(p)
  BY <1>2 DEF Commit, IInv, OnlyWriterInBody
<1>3. ASSUME NEW p \in Process, LifeStep(p), ~Acquired(p) PROVE UNCHANGED ghosts
  BY <1>3 DEF LifeStep, Start, StartBusy, Poll, PollError, WaitTimeout,
     Recovered, StartupFailed, SessionDropped, ProbeFails, Release, Crash
<1>4. ASSUME NEW p \in Process, NEW t \in Txn, TxnStep(p, t), ~Commit(p, t)
      PROVE  UNCHANGED ghosts
  BY <1>4 DEF TxnStep, Begin, Admit, Enter, Seal, Abort
<1> QED BY <1>1, <1>2, <1>3, <1>4 DEF Next, vars

(* The lease implements FencedWriter: one writer at a time, each process   *)
(* at most once, and every fenced commit by the current one.               *)
THEOREM LeaseKeepsPromise == Spec => FencedWriterSpec
<1>1. Init => Promise!Init
  BY DEF Init, Promise!Init
<1>2. QED
  BY <1>1, InvariantHolds, StepRefines, PTL DEF Spec, FencedWriterSpec, Promise!Spec
=============================================================================
