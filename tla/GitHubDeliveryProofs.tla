------------------------ MODULE GitHubDeliveryProofs ------------------------
(***************************************************************************)
(* Proofs about GitHubDelivery, for any number of server processes,        *)
(* deliveries, attempts, slots and redeliveries.                           *)
(*                                                                         *)
(* ClaimsBounded is far from inductive: attempts go down as well as up,    *)
(* and two tasks may work on one delivery.  The argument counts what no    *)
(* attempt pays for.  A recovery takes an attempt back only from a row     *)
(* that does not say "server_restarted", and then says so; the mark goes   *)
(* away only with a finished attempt (Paid).  Hence never two claims per   *)
(* attempt are unpaid, and a takeover leaves at most one more unpaid than  *)
(* the one before (ForgiveInv).  For the slots, tasks cancelled at the end *)
(* of a shutdown keep theirs, so that the equation becomes an inequality   *)
(* there (SlotsEnough).                                                    *)
(***************************************************************************)
EXTENDS GitHubDelivery, TLAPS, FiniteSetTheorems, SequenceTheorems

(* A task of p works on d, or will.                                        *)
Engaged(p, d) ==
    running[p] = d \/ \E i \in DOMAIN queue[p] : queue[p][i] = d

(* The thread of a process works on one task, and on none before the       *)
(* process serves or after its end.                                        *)
TaskInv ==
    \A p \in Process :
        /\ stage[p] = "idle" <=> running[p] = None
        /\ phase[p] \in {"starting", "recovering", "down"}
             => /\ handing[p] = None
                /\ running[p] = None
                /\ queue[p] = <<>>
        /\ phase[p] = "starting" => p # writer

(* Attempts are used up only by what is closed; "server_restarted" is not  *)
(* the error of a retryable row.                                           *)
AttemptInv ==
    \A d \in Delivery :
        /\ status[d] \in {"absent"} \cup Backlog => attempts[d] <= MaxAttempts
        /\ status[d] = "QUEUED" => attempts[d] > 0 /\ writer # None
        /\ status[d] \in {"absent", "RETRYABLE"} => ~interrupted[d]

(* Each task holds one slot, cancelled tasks theirs for ever.              *)
SlotsEnough(p) ==
    Live(p) => /\ used[p] >= Tasks(p)
               /\ phase[p] # "stopping" => used[p] = Tasks(p)

SlotInv == \A p \in Process : SlotsEnough(p)

(* A claim that no attempt pays for belongs to an interruption, which the  *)
(* row shows until an attempt is finished.                                 *)
Paid(d) ==
    /\ claims[d] <= 2 * MaxAttempts
    /\ \/ status[d] \in {"absent"} \cup Backlog
       \/ \E p \in Process : p = writer /\ (handing[p] = d \/ Engaged(p, d))
       => /\ claims[d] <= 2 * attempts[d] + 1
          /\ ~interrupted[d] => claims[d] <= 2 * attempts[d]
    /\ status[d] = "QUEUED"
         => /\ claims[d] <= 2 * attempts[d]
            /\ ~interrupted[d] => claims[d] < 2 * attempts[d]
    /\ \A p \in Process : p = writer /\ interrupted[d] =>
          /\ handing[p] = d \/ Engaged(p, d) => claims[d] <= 2 * attempts[d]
          /\ handing[p] = d /\ Engaged(p, d) => claims[d] < 2 * attempts[d]

InterruptInv == \A d \in Delivery : Paid(d)

(* ... and each takeover forgives one attempt.                             *)
ForgiveInv ==
    /\ IsFiniteSet(retired)
    /\ writer \notin retired
    /\ \A d \in Delivery :
        /\ claims[d] <= attempts[d] + Cardinality(retired)
        /\ claims[d] <= MaxAttempts + Cardinality(retired)
        /\ \A p \in Process :
              p = writer /\ phase[p] = "recovering" /\ status[d] = "QUEUED"
              => claims[d] < attempts[d] + Cardinality(retired)

IInv == TypeOK /\ TaskInv /\ AttemptInv /\ SlotInv /\ InterruptInv
          /\ ForgiveInv

(* What a process is at, besides its queue.                                *)
Busy(p) == (IF handing[p] # None THEN 1 ELSE 0)
             + (IF running[p] # None THEN 1 ELSE 0)

(* The tasks of a process, counted.                                        *)
LEMMA TasksCount ==
  ASSUME NEW p \in Process
  PROVE  Tasks(p) = Len(queue[p]) + Busy(p)
<1> DEFINE S == {v \in {"handing", "running"} :
                        CASE v = "handing" -> handing[p] # None
                          [] v = "running" -> running[p] # None}
<1>1. Tasks(p) = Len(queue[p]) + Cardinality(S) BY DEF Tasks
<1>2. /\ "handing" \in S <=> handing[p] # None
      /\ "running" \in S <=> running[p] # None
      /\ S \subseteq {"handing", "running"}
  OBVIOUS
<1> HIDE DEF S
<1>3. /\ Cardinality({}) = 0
      /\ IsFiniteSet({"running"}) /\ Cardinality({"running"}) = 1
      /\ Cardinality({"handing"}) = 1
      /\ Cardinality({"running"} \cup {"handing"}) = 2
  BY FS_EmptySet, FS_Singleton, FS_AddElement, SMTT(20)
<1>4. CASE handing[p] # None /\ running[p] # None
  <2>1. S = {"running"} \cup {"handing"} BY <1>2, <1>4
  <2> QED BY <1>1, <1>3, <1>4, <2>1 DEF Busy
<1>5. CASE handing[p] # None /\ running[p] = None
  <2>1. S = {"handing"} BY <1>2, <1>5
  <2> QED BY <1>1, <1>3, <1>5, <2>1 DEF Busy
<1>6. CASE handing[p] = None /\ running[p] # None
  <2>1. S = {"running"} BY <1>2, <1>6
  <2> QED BY <1>1, <1>3, <1>6, <2>1 DEF Busy
<1>7. CASE handing[p] = None /\ running[p] = None
  <2>1. S = {} BY <1>2, <1>7
  <2> QED BY <1>1, <1>3, <1>7, <2>1 DEF Busy
<1> QED BY <1>4, <1>5, <1>6, <1>7

(* A task gives back a slot that is taken.                                 *)
LEMMA SlotTaken ==
  ASSUME TypeOK, TaskInv, SlotInv, NEW p \in Process,
         handing[p] # None \/ running[p] # None
  PROVE  used[p] - 1 \in 0..MaxJobs
<1>1. Len(queue[p]) \in Nat BY LenProperties DEF TypeOK
<1>2. Live(p) BY DEF TaskInv, Live
<1>3. used[p] >= Len(queue[p]) + Busy(p)
  BY <1>2, TasksCount DEF SlotInv, SlotsEnough
<1>4. used[p] \in 0..MaxJobs /\ MaxJobs \in Nat
  BY DeliveryAssumption DEF TypeOK
<1>5. Busy(p) \in Nat /\ Busy(p) >= 1 BY DEF Busy
<1> QED BY <1>1, <1>3, <1>4, <1>5

-----------------------------------------------------------------------------
(* Every step keeps the types.                                             *)
LEMMA TypeStep ==
  ASSUME TypeOK, TaskInv, AttemptInv, SlotInv, Next
  PROVE  TypeOK'
<1> USE DeliveryAssumption
  DEF TypeOK, Committed, Fenced, SetStatus, Close, Forget, Returns,
      NotHandedOff, Unlocked, InDispatch, Live, fenceVars, rowVars, taskVars,
      memVars, Fence!Takeover, Fence!FencedCommit, Phase, Backlog, Terminal,
      Status, Stage, Outcome, Caller
<1>0. dbErrors' = dbErrors BY DEF Next
<1>1. ASSUME NEW p \in Process,
             Takeover(p)
      PROVE  TypeOK'
  BY <1>1, <1>0 DEF Takeover
<1>2. ASSUME NEW p \in Process,
             Recover(p)
      PROVE  TypeOK'
  BY <1>2, <1>0 DEF Recover
<1>3. ASSUME NEW p \in Process,
             RecoverFails(p)
      PROVE  TypeOK'
  BY <1>3, <1>0 DEF RecoverFails
<1>4. ASSUME NEW p \in Process,
             LoseLease(p)
      PROVE  TypeOK'
  BY <1>4, <1>0 DEF LoseLease
<1>5. ASSUME NEW p \in Process,
             Crash(p)
      PROVE  TypeOK'
  BY <1>5, <1>0 DEF Crash
<1>6. ASSUME NEW p \in Process,
             ShutdownStep(p)
      PROVE  TypeOK'
  <2>1. PICK x \in Phase : phase' = [phase EXCEPT ![p] = x]
    BY <1>6 DEF ShutdownStep
  <2>2. queue' = queue \/ queue' = [queue EXCEPT ![p] = <<>>]
    BY <1>6 DEF ShutdownStep
  <2>3. queue' \in [Process -> Seq(Delivery)]
    <3>1. <<>> \in Seq(Delivery) BY EmptySeq
    <3>2. CASE queue' = queue BY <3>2
    <3>3. CASE queue' = [queue EXCEPT ![p] = <<>>] BY <3>1, <3>3
    <3> QED BY <2>2, <3>2, <3>3
  <2>4. phase' \in [Process -> Phase] BY <2>1
  <2> QED BY <1>0, <1>6, <2>3, <2>4 DEF ShutdownStep
<1>7. ASSUME NEW p \in Process,
             Exit(p)
      PROVE  TypeOK'
  BY <1>7, <1>0 DEF Exit
<1>8. ASSUME NEW p \in Process,
             Sweep(p)
      PROVE  TypeOK'
  BY <1>8, <1>0 DEF Sweep
<1>9. ASSUME NEW p \in Process,
             Submit(p)
      PROVE  TypeOK'
  BY <1>9, <1>0, SMTT(20) DEF Submit
<1>10. ASSUME NEW p \in Process,
             SubmitFails(p)
      PROVE  TypeOK'
  <2>1. used[p] - 1 \in 0..MaxJobs BY <1>10, SlotTaken DEF SubmitFails
  <2>2. used' \in [Process -> 0..MaxJobs] BY <1>10, <2>1 DEF SubmitFails
  <2>3. handing[p] \in Delivery BY <1>10 DEF SubmitFails
  <2>4. \/ attempts' = attempts
        \/ \E a \in 0..MaxAttempts+1 :
             attempts' = [attempts EXCEPT ![handing[p]] = a]
    <3> DEFINE a == attempts[handing[p]]
               b == IF a > 0 THEN a - 1 ELSE 0
    <3>1. a \in 0..MaxAttempts+1 /\ b \in 0..MaxAttempts+1
      BY <2>3
    <3>2. \/ attempts' = attempts
          \/ attempts' = [attempts EXCEPT ![handing[p]] = b]
      BY <1>10 DEF SubmitFails
    <3> HIDE DEF a, b
    <3> QED BY <3>1, <3>2
  <2>5. attempts' \in [Delivery -> 0..MaxAttempts+1]
    <3>1. CASE attempts' = attempts BY <3>1
    <3>2. ASSUME NEW a \in 0..MaxAttempts+1,
                 attempts' = [attempts EXCEPT ![handing[p]] = a]
          PROVE  attempts' \in [Delivery -> 0..MaxAttempts+1]
      BY <3>2
    <3> QED BY <2>4, <3>1, <3>2
  <2>6. claims' \in [Delivery -> Nat]
    BY <1>10, <2>3 DEF SubmitFails
  <2> QED BY <1>0, <1>10, <2>2, <2>3, <2>5, <2>6 DEF SubmitFails
<1>11. ASSUME NEW p \in Process,
             RunNext(p)
      PROVE  TypeOK'
  <2>1. Head(queue[p]) \in Delivery /\ Tail(queue[p]) \in Seq(Delivery)
    <3>1. queue[p] \in Seq(Delivery) /\ queue[p] # <<>>
      BY <1>11 DEF RunNext
    <3> QED BY <3>1, HeadTailProperties
  <2>2. /\ queue' = [queue EXCEPT ![p] = Tail(queue[p])]
        /\ running' = [running EXCEPT ![p] = Head(queue[p])]
        /\ stage' = [stage EXCEPT ![p] = "process"]
        /\ UNCHANGED <<writer, retired, author, phase, lost, status, attempts,
                       interrupted, payload, claims, rearms, calls, handing,
                       outcome, active, used>>
    BY <1>11 DEF RunNext
  <2> QED BY <1>0, <2>1, <2>2
<1>12. ASSUME NEW p \in Process,
             RunProcess(p)
      PROVE  TypeOK'
  BY <1>12, <1>0 DEF RunProcess
<1>13. ASSUME NEW p \in Process,
             Finalize(p)
      PROVE  TypeOK'
  BY <1>13, <1>0 DEF Finalize
<1>14. ASSUME NEW p \in Process,
             FinalizeFails(p)
      PROVE  TypeOK'
  BY <1>14, <1>0 DEF FinalizeFails
<1>15. ASSUME NEW p \in Process,
             Discard(p)
      PROVE  TypeOK'
  <2>1. used[p] - 1 \in 0..MaxJobs BY <1>15, SlotTaken DEF Discard, TaskInv
  <2>2. used' \in [Process -> 0..MaxJobs] BY <1>15, <2>1 DEF Discard
  <2> QED BY <1>0, <1>15, <2>2 DEF Discard
<1>16. ASSUME NEW p \in Process, NEW d \in Delivery,
             Receive(p, d)
      PROVE  TypeOK'
  BY <1>16, <1>0 DEF Receive, Admit
<1>17. ASSUME NEW p \in Process, NEW d \in Delivery,
             Redeliver(p, d)
      PROVE  TypeOK'
  BY <1>17, <1>0, SMTT(30)
  DEF Redeliver, Admit
<1>18. ASSUME NEW p \in Process, NEW d \in Delivery,
             RedeliverPayload(p, d)
      PROVE  TypeOK'
  BY <1>18, <1>0 DEF RedeliverPayload, Admit
<1>19. ASSUME NEW p \in Process, NEW d \in Delivery,
             Pick(p, d)
      PROVE  TypeOK'
  BY <1>19, <1>0 DEF Pick
<1>20. ASSUME NEW p \in Process, NEW d \in Delivery, NEW c \in Caller,
             DispatchRefused(p, c, d)
      PROVE  TypeOK'
  BY <1>20, <1>0 DEF DispatchRefused
<1>21. ASSUME NEW p \in Process, NEW d \in Delivery, NEW c \in Caller,
             DispatchNothing(p, c, d)
      PROVE  TypeOK'
  BY <1>21, <1>0 DEF DispatchNothing
<1>22. ASSUME NEW p \in Process, NEW d \in Delivery, NEW c \in Caller,
             DispatchCloses(p, c, d)
      PROVE  TypeOK'
  BY <1>22, <1>0 DEF DispatchCloses
<1>23. ASSUME NEW p \in Process, NEW d \in Delivery, NEW c \in Caller,
             DispatchExhausted(p, c, d)
      PROVE  TypeOK'
  <2>1. attempts[d] <= MaxAttempts
    BY <1>23 DEF DispatchExhausted, MayClaim, AttemptInv
  <2>2. attempts' \in [Delivery -> 0..MaxAttempts+1]
    BY <1>23, <2>1 DEF DispatchExhausted
  <2> QED BY <1>0, <1>23, <2>2 DEF DispatchExhausted, MayClaim
<1>24. ASSUME NEW p \in Process, NEW d \in Delivery, NEW c \in Caller,
             Claim(p, c, d)
      PROVE  TypeOK'
  <2>1. attempts' \in [Delivery -> 0..MaxAttempts+1]
    <3>1. /\ attempts[d] + 1 \in 0..MaxAttempts+1
          /\ attempts' = [attempts EXCEPT ![d] = @ + 1]
      BY <1>24, SMTT(20) DEF Claim
    <3> QED BY <3>1
  <2>2. used' \in [Process -> 0..MaxJobs] BY <1>24, SMTT(30)
  DEF Claim, MayClaim
  <2>3. claims' \in [Delivery -> Nat]
    <3>1. claims' = [claims EXCEPT ![d] = @ + 1] BY <1>24 DEF Claim
    <3> QED BY <3>1
  <2>4. /\ status' \in [Delivery -> Status]
        /\ active' \in [Process -> SUBSET Delivery]
        /\ calls' \in [Process -> SUBSET (Caller \X Delivery)]
        /\ handing' \in [Process -> Delivery \cup {None}]
    BY <1>24 DEF Claim
  <2>5. /\ UNCHANGED <<phase, lost, interrupted, payload, rearms>>
        /\ UNCHANGED <<queue, running, stage, outcome>>
        /\ UNCHANGED <<writer, retired>> /\ author' = p
    BY <1>24 DEF Claim, MayClaim
  <2> QED BY <1>0, <2>1, <2>2, <2>3, <2>4, <2>5
<1>25. ASSUME NEW p \in Process, NEW d \in Delivery, NEW c \in Caller,
             ClaimAckLost(p, c, d)
      PROVE  TypeOK'
  BY <1>25, <1>0, SMTT(20) DEF ClaimAckLost, MayClaim
<1> HIDE DEF TypeOK
<1> QED
  BY <1>1, <1>2, <1>3, <1>4, <1>5, <1>6, <1>7, <1>8, <1>9, <1>10, <1>11, <1>12,
      <1>13, <1>14, <1>15, <1>16, <1>17, <1>18, <1>19, <1>20, <1>21, <1>22,
      <1>23, <1>24, <1>25
  DEF Next, ProcessStep, IntakeStep, DispatchStep, TaskStep

(* A task starts in a process that serves, and ends before the process.    *)
LEMMA TaskStays ==
  ASSUME TypeOK, TaskInv, Next
  PROVE  TaskInv'
<1> USE DeliveryAssumption
  DEF TypeOK, TaskInv, Committed, Fenced, SetStatus, Close, Forget, Returns,
      NotHandedOff, Unlocked, InDispatch, Live, fenceVars, rowVars, taskVars,
      memVars, Fence!Takeover, Fence!FencedCommit
<1>1. ASSUME NEW p \in Process,
             Takeover(p)
      PROVE  TaskInv'
  BY <1>1 DEF Takeover
<1>2. ASSUME NEW p \in Process,
             Recover(p)
      PROVE  TaskInv'
  BY <1>2 DEF Recover
<1>3. ASSUME NEW p \in Process,
             RecoverFails(p)
      PROVE  TaskInv'
  BY <1>3 DEF RecoverFails
<1>4. ASSUME NEW p \in Process,
             LoseLease(p)
      PROVE  TaskInv'
  BY <1>4 DEF LoseLease
<1>5. ASSUME NEW p \in Process,
             Crash(p)
      PROVE  TaskInv'
  BY <1>5 DEF Crash
<1>6. ASSUME NEW p \in Process,
             ShutdownStep(p)
      PROVE  TaskInv'
  BY <1>6 DEF ShutdownStep
<1>7. ASSUME NEW p \in Process,
             Exit(p)
      PROVE  TaskInv'
  BY <1>7 DEF Exit
<1>8. ASSUME NEW p \in Process,
             Sweep(p)
      PROVE  TaskInv'
  BY <1>8 DEF Sweep
<1>9. ASSUME NEW p \in Process,
             Submit(p)
      PROVE  TaskInv'
  BY <1>9 DEF Submit
<1>10. ASSUME NEW p \in Process,
             SubmitFails(p)
      PROVE  TaskInv'
  BY <1>10 DEF SubmitFails
<1>11. ASSUME NEW p \in Process,
             RunNext(p)
      PROVE  TaskInv'
  BY <1>11, SMTT(20) DEF RunNext
<1>12. ASSUME NEW p \in Process,
             RunProcess(p)
      PROVE  TaskInv'
  BY <1>12 DEF RunProcess
<1>13. ASSUME NEW p \in Process,
             Finalize(p)
      PROVE  TaskInv'
  BY <1>13 DEF Finalize
<1>14. ASSUME NEW p \in Process,
             FinalizeFails(p)
      PROVE  TaskInv'
  BY <1>14 DEF FinalizeFails
<1>15. ASSUME NEW p \in Process,
             Discard(p)
      PROVE  TaskInv'
  BY <1>15 DEF Discard
<1>16. ASSUME NEW p \in Process, NEW d \in Delivery,
             Receive(p, d)
      PROVE  TaskInv'
  BY <1>16 DEF Receive, Admit
<1>17. ASSUME NEW p \in Process, NEW d \in Delivery,
             Redeliver(p, d)
      PROVE  TaskInv'
  BY <1>17 DEF Redeliver, Admit
<1>18. ASSUME NEW p \in Process, NEW d \in Delivery,
             RedeliverPayload(p, d)
      PROVE  TaskInv'
  BY <1>18 DEF RedeliverPayload, Admit
<1>19. ASSUME NEW p \in Process, NEW d \in Delivery,
             Pick(p, d)
      PROVE  TaskInv'
  BY <1>19 DEF Pick
<1>20. ASSUME NEW p \in Process, NEW d \in Delivery, NEW c \in Caller,
             DispatchRefused(p, c, d)
      PROVE  TaskInv'
  BY <1>20 DEF DispatchRefused
<1>21. ASSUME NEW p \in Process, NEW d \in Delivery, NEW c \in Caller,
             DispatchNothing(p, c, d)
      PROVE  TaskInv'
  BY <1>21 DEF DispatchNothing
<1>22. ASSUME NEW p \in Process, NEW d \in Delivery, NEW c \in Caller,
             DispatchCloses(p, c, d)
      PROVE  TaskInv'
  BY <1>22 DEF DispatchCloses
<1>23. ASSUME NEW p \in Process, NEW d \in Delivery, NEW c \in Caller,
             DispatchExhausted(p, c, d)
      PROVE  TaskInv'
  BY <1>23 DEF DispatchExhausted, MayClaim
<1>24. ASSUME NEW p \in Process, NEW d \in Delivery, NEW c \in Caller,
             Claim(p, c, d)
      PROVE  TaskInv'
  BY <1>24 DEF Claim, MayClaim
<1>25. ASSUME NEW p \in Process, NEW d \in Delivery, NEW c \in Caller,
             ClaimAckLost(p, c, d)
      PROVE  TaskInv'
  BY <1>25 DEF ClaimAckLost, MayClaim
<1> QED
  BY <1>1, <1>2, <1>3, <1>4, <1>5, <1>6, <1>7, <1>8, <1>9, <1>10, <1>11, <1>12,
      <1>13, <1>14, <1>15, <1>16, <1>17, <1>18, <1>19, <1>20, <1>21, <1>22,
      <1>23, <1>24, <1>25
  DEF Next, ProcessStep, IntakeStep, DispatchStep, TaskStep

(* Only a claim uses an attempt up, and not the last one.                  *)
LEMMA AttemptStep ==
  ASSUME TypeOK, TaskInv, AttemptInv, Next
  PROVE  AttemptInv'
<1> USE DeliveryAssumption
  DEF TypeOK, AttemptInv, Committed, Fenced, SetStatus, Close, Forget, Returns,
      NotHandedOff, Unlocked, InDispatch, Live, fenceVars, rowVars, taskVars,
      memVars, Fence!Takeover, Fence!FencedCommit, Backlog, Status
<1>1. ASSUME NEW p \in Process,
             Takeover(p)
      PROVE  AttemptInv'
  BY <1>1 DEF Takeover
<1>2. ASSUME NEW p \in Process,
             Recover(p)
      PROVE  AttemptInv'
  BY <1>2 DEF Recover
<1>3. ASSUME NEW p \in Process,
             RecoverFails(p)
      PROVE  AttemptInv'
  BY <1>3 DEF RecoverFails
<1>4. ASSUME NEW p \in Process,
             LoseLease(p)
      PROVE  AttemptInv'
  BY <1>4 DEF LoseLease
<1>5. ASSUME NEW p \in Process,
             Crash(p)
      PROVE  AttemptInv'
  BY <1>5 DEF Crash
<1>6. ASSUME NEW p \in Process,
             ShutdownStep(p)
      PROVE  AttemptInv'
  BY <1>6 DEF ShutdownStep
<1>7. ASSUME NEW p \in Process,
             Exit(p)
      PROVE  AttemptInv'
  BY <1>7 DEF Exit
<1>8. ASSUME NEW p \in Process,
             Sweep(p)
      PROVE  AttemptInv'
  BY <1>8 DEF Sweep, Orphans
<1>9. ASSUME NEW p \in Process,
             Submit(p)
      PROVE  AttemptInv'
  BY <1>9 DEF Submit
<1>10. ASSUME NEW p \in Process,
             SubmitFails(p)
      PROVE  AttemptInv'
  BY <1>10 DEF SubmitFails
<1>11. ASSUME NEW p \in Process,
             RunNext(p)
      PROVE  AttemptInv'
  BY <1>11 DEF RunNext
<1>12. ASSUME NEW p \in Process,
             RunProcess(p)
      PROVE  AttemptInv'
  BY <1>12 DEF RunProcess
<1>13. ASSUME NEW p \in Process,
             Finalize(p)
      PROVE  AttemptInv'
  BY <1>13 DEF Finalize
<1>14. ASSUME NEW p \in Process,
             FinalizeFails(p)
      PROVE  AttemptInv'
  BY <1>14 DEF FinalizeFails
<1>15. ASSUME NEW p \in Process,
             Discard(p)
      PROVE  AttemptInv'
  BY <1>15 DEF Discard
<1>16. ASSUME NEW p \in Process, NEW d \in Delivery,
             Receive(p, d)
      PROVE  AttemptInv'
  BY <1>16 DEF Receive, Admit
<1>17. ASSUME NEW p \in Process, NEW d \in Delivery,
             Redeliver(p, d)
      PROVE  AttemptInv'
  BY <1>17 DEF Redeliver, Admit
<1>18. ASSUME NEW p \in Process, NEW d \in Delivery,
             RedeliverPayload(p, d)
      PROVE  AttemptInv'
  BY <1>18 DEF RedeliverPayload, Admit
<1>19. ASSUME NEW p \in Process, NEW d \in Delivery,
             Pick(p, d)
      PROVE  AttemptInv'
  BY <1>19 DEF Pick
<1>20. ASSUME NEW p \in Process, NEW d \in Delivery, NEW c \in Caller,
             DispatchRefused(p, c, d)
      PROVE  AttemptInv'
  BY <1>20 DEF DispatchRefused
<1>21. ASSUME NEW p \in Process, NEW d \in Delivery, NEW c \in Caller,
             DispatchNothing(p, c, d)
      PROVE  AttemptInv'
  BY <1>21 DEF DispatchNothing
<1>22. ASSUME NEW p \in Process, NEW d \in Delivery, NEW c \in Caller,
             DispatchCloses(p, c, d)
      PROVE  AttemptInv'
  BY <1>22 DEF DispatchCloses
<1>23. ASSUME NEW p \in Process, NEW d \in Delivery, NEW c \in Caller,
             DispatchExhausted(p, c, d)
      PROVE  AttemptInv'
  BY <1>23 DEF DispatchExhausted, MayClaim
<1>24. ASSUME NEW p \in Process, NEW d \in Delivery, NEW c \in Caller,
             Claim(p, c, d)
      PROVE  AttemptInv'
  BY <1>24 DEF Claim, MayClaim
<1>25. ASSUME NEW p \in Process, NEW d \in Delivery, NEW c \in Caller,
             ClaimAckLost(p, c, d)
      PROVE  AttemptInv'
  BY <1>25 DEF ClaimAckLost, MayClaim
<1> QED
  BY <1>1, <1>2, <1>3, <1>4, <1>5, <1>6, <1>7, <1>8, <1>9, <1>10, <1>11, <1>12,
      <1>13, <1>14, <1>15, <1>16, <1>17, <1>18, <1>19, <1>20, <1>21, <1>22,
      <1>23, <1>24, <1>25
  DEF Next, ProcessStep, IntakeStep, DispatchStep, TaskStep

(* The slots of a process that does nothing with tasks.                    *)
LEMMA CountsStep == (\A p \in Process : Tasks(p) = Len(queue[p]) + Busy(p))'
<1>1. \A p \in Process : Tasks(p) = Len(queue[p]) + Busy(p) BY TasksCount
<1> QED BY <1>1, PTL

(* Nothing changes for a process whose tasks and slots do not.             *)
LEMMA SlotsKept ==
  ASSUME NEW q \in Process, SlotsEnough(q), phase'[q] = phase[q],
         queue'[q] = queue[q], handing'[q] = handing[q],
         running'[q] = running[q], used'[q] = used[q]
  PROVE  SlotsEnough(q)'
<1>1. Tasks(q)' = Tasks(q)
  BY TasksCount, CountsStep DEF Busy
<1> QED BY <1>1 DEF SlotsEnough, Live

(* A slot is taken with a claim and given back with its task.              *)
LEMMA SlotStep ==
  ASSUME TypeOK, TaskInv, SlotInv, Next
  PROVE  SlotInv'
<1> USE DeliveryAssumption
  DEF TypeOK, SlotInv, SlotsEnough, Busy, Committed, Fenced, SetStatus, Close,
      Forget, Returns, NotHandedOff, Unlocked, InDispatch, Live, fenceVars,
      rowVars, taskVars, memVars, Fence!Takeover, Fence!FencedCommit
<1>0. /\ \A p \in Process : Tasks(p) = Len(queue[p]) + Busy(p)
      /\ \A p \in Process : Tasks(p)' = Len(queue'[p]) + Busy(p)'
      /\ \A p \in Process : Len(queue[p]) \in Nat
  BY TasksCount, CountsStep, LenProperties
<1>1. ASSUME NEW p \in Process,
             Takeover(p)
      PROVE  SlotInv'
  BY <1>1, <1>0 DEF Takeover
<1>2. ASSUME NEW p \in Process,
             Recover(p)
      PROVE  SlotInv'
  BY <1>2, <1>0 DEF Recover
<1>3. ASSUME NEW p \in Process,
             RecoverFails(p)
      PROVE  SlotInv'
  <2>1. \A q \in Process : q # p =>
              /\ phase'[q] = phase[q] /\ queue'[q] = queue[q]
              /\ handing'[q] = handing[q] /\ running'[q] = running[q]
              /\ used'[q] = used[q]
    BY <1>3 DEF RecoverFails
  <2>2. \A q \in Process : q # p => SlotsEnough(q)'
    <3> HIDE DEF SlotsEnough
    <3> QED BY <2>1, SlotsKept
  <2>3. ~Live(p)' BY <1>3 DEF RecoverFails
  <2> QED BY <2>2, <2>3
<1>4. ASSUME NEW p \in Process,
             LoseLease(p)
      PROVE  SlotInv'
  BY <1>4, <1>0 DEF LoseLease
<1>5. ASSUME NEW p \in Process,
             Crash(p)
      PROVE  SlotInv'
  <2>1. \A q \in Process : q # p =>
              /\ phase'[q] = phase[q] /\ queue'[q] = queue[q]
              /\ handing'[q] = handing[q] /\ running'[q] = running[q]
              /\ used'[q] = used[q]
    BY <1>5 DEF Crash
  <2>2. \A q \in Process : q # p => SlotsEnough(q)'
    <3> HIDE DEF SlotsEnough
    <3> QED BY <2>1, SlotsKept
  <2>3. ~Live(p)' BY <1>5 DEF Crash
  <2> QED BY <2>2, <2>3
<1>6. ASSUME NEW p \in Process,
             ShutdownStep(p)
      PROVE  SlotInv'
  <2>1. \A q \in Process : q # p =>
              /\ phase'[q] = phase[q] /\ queue'[q] = queue[q]
              /\ handing'[q] = handing[q] /\ running'[q] = running[q]
              /\ used'[q] = used[q]
    BY <1>6 DEF ShutdownStep
  <2>2. \A q \in Process : q # p => SlotsEnough(q)'
    <3> HIDE DEF SlotsEnough
    <3> QED BY <2>1, SlotsKept
  <2>3. /\ phase[p] # "down" /\ phase[p] # "stopping"
        /\ handing'[p] = handing[p]
        /\ running'[p] = running[p] /\ used'[p] = used[p]
    BY <1>6 DEF ShutdownStep
  <2>4. \/ queue'[p] = queue[p] /\ phase'[p] # "down"
        \/ queue'[p] = <<>> /\ phase'[p] = "stopping"
    BY <1>6 DEF ShutdownStep
  <2>5. Len(<<>>) = 0 BY EmptySeq
  <2>9. used[p] \in Nat BY DEF TypeOK
  <2>10. SlotsEnough(p)'
    <3>1. SlotsEnough(p) OBVIOUS
    <3>2. /\ Tasks(p) = Len(queue[p]) + Busy(p)
          /\ Tasks(p)' = Len(queue'[p]) + Busy(p)'
          /\ Len(queue[p]) \in Nat
      BY <1>0
    <3> HIDE DEF TypeOK, SlotInv
    <3>3. /\ Busy(p) \in Nat /\ Busy(p)' \in Nat
          /\ Busy(p)' = Busy(p)
      BY <2>3, SMTT(30)
    <3> HIDE DEF Busy
    <3>4. used[p] = Tasks(p) /\ used'[p] = used[p] BY <2>3, <3>1
    <3>5. CASE queue'[p] = queue[p] /\ phase'[p] # "down"
      <4>1. Tasks(p)' = Tasks(p) BY <3>2, <3>3, <3>5
      <4> QED BY <2>9, <3>4, <4>1
    <3>6. CASE queue'[p] = <<>> /\ phase'[p] = "stopping"
      <4>1. Tasks(p)' <= Tasks(p) BY <2>5, <3>2, <3>3, <3>6
      <4> QED BY <2>9, <3>4, <3>6, <4>1
    <3> QED BY <2>4, <3>5, <3>6
  <2> QED BY <2>2, <2>10
<1>7. ASSUME NEW p \in Process,
             Exit(p)
      PROVE  SlotInv'
  <2>1. \A q \in Process : q # p =>
              /\ phase'[q] = phase[q] /\ queue'[q] = queue[q]
              /\ handing'[q] = handing[q] /\ running'[q] = running[q]
              /\ used'[q] = used[q]
    BY <1>7 DEF Exit
  <2>2. \A q \in Process : q # p => SlotsEnough(q)'
    <3> HIDE DEF SlotsEnough
    <3> QED BY <2>1, SlotsKept
  <2>3. ~Live(p)' BY <1>7 DEF Exit
  <2> QED BY <2>2, <2>3
<1>8. ASSUME NEW p \in Process,
             Sweep(p)
      PROVE  SlotInv'
  BY <1>8, <1>0 DEF Sweep
<1>9. ASSUME NEW p \in Process,
             Submit(p)
      PROVE  SlotInv'
  <2>1. \A q \in Process : q # p =>
              /\ phase'[q] = phase[q] /\ queue'[q] = queue[q]
              /\ handing'[q] = handing[q] /\ running'[q] = running[q]
              /\ used'[q] = used[q]
    BY <1>9 DEF Submit
  <2>2. \A q \in Process : q # p => SlotsEnough(q)'
    <3> HIDE DEF SlotsEnough
    <3> QED BY <2>1, SlotsKept
  <2>3. /\ phase'[p] = phase[p] /\ phase[p] \in {"ready", "draining"}
        /\ Len(queue'[p]) = Len(queue[p]) + 1
        /\ handing[p] # None /\ handing'[p] = None
        /\ running'[p] = running[p] /\ used'[p] = used[p]
    BY <1>9, AppendProperties DEF Submit
  <2>9. used[p] \in Nat BY DEF TypeOK
  <2>10. SlotsEnough(p)'
    <3>1. SlotsEnough(p) OBVIOUS
    <3>2. /\ Tasks(p) = Len(queue[p]) + Busy(p)
          /\ Tasks(p)' = Len(queue'[p]) + Busy(p)'
          /\ Len(queue[p]) \in Nat
      BY <1>0
    <3> HIDE DEF TypeOK, SlotInv
    <3>3. /\ Busy(p) \in Nat /\ Busy(p)' \in Nat
          /\ Busy(p)' = Busy(p) - 1
      BY <2>3, SMTT(30)
    <3> HIDE DEF Busy
    <3>4. Tasks(p)' = Tasks(p) /\ Tasks(p) \in Nat
      BY <2>3, <3>2, <3>3, SMTT(30)
    <3>5. used'[p] = used[p] BY <2>3, <2>9
    <3> QED BY <2>3, <2>9, <3>1, <3>4, <3>5
  <2> QED BY <2>2, <2>10
<1>10. ASSUME NEW p \in Process,
             SubmitFails(p)
      PROVE  SlotInv'
  <2>1. \A q \in Process : q # p =>
              /\ phase'[q] = phase[q] /\ queue'[q] = queue[q]
              /\ handing'[q] = handing[q] /\ running'[q] = running[q]
              /\ used'[q] = used[q]
    BY <1>10 DEF SubmitFails
  <2>2. \A q \in Process : q # p => SlotsEnough(q)'
    <3> HIDE DEF SlotsEnough
    <3> QED BY <2>1, SlotsKept
  <2>3. /\ phase'[p] = phase[p] /\ phase[p] # "down"
        /\ queue'[p] = queue[p]
        /\ handing[p] # None /\ handing'[p] = None
        /\ running'[p] = running[p] /\ used'[p] = used[p] - 1
    BY <1>10 DEF SubmitFails
  <2>9. used[p] \in Nat BY DEF TypeOK
  <2>10. SlotsEnough(p)'
    <3>1. SlotsEnough(p) OBVIOUS
    <3>2. /\ Tasks(p) = Len(queue[p]) + Busy(p)
          /\ Tasks(p)' = Len(queue'[p]) + Busy(p)'
          /\ Len(queue[p]) \in Nat
      BY <1>0
    <3> HIDE DEF TypeOK, SlotInv
    <3>3. /\ Busy(p) \in Nat /\ Busy(p)' \in Nat
          /\ Busy(p)' = Busy(p) - 1
      BY <2>3, SMTT(30)
    <3> HIDE DEF Busy
    <3>4. Tasks(p)' = Tasks(p) - 1 /\ Tasks(p) \in Nat
      BY <2>3, <3>2, <3>3
    <3>5. used'[p] = used[p] - 1 BY <2>3, <2>9
    <3> QED BY <2>3, <2>9, <3>1, <3>4, <3>5
  <2> QED BY <2>2, <2>10
<1>11. ASSUME NEW p \in Process,
             RunNext(p)
      PROVE  SlotInv'
  <2>1. \A q \in Process : q # p =>
              /\ phase'[q] = phase[q] /\ queue'[q] = queue[q]
              /\ handing'[q] = handing[q] /\ running'[q] = running[q]
              /\ used'[q] = used[q]
    BY <1>11 DEF RunNext
  <2>2. \A q \in Process : q # p => SlotsEnough(q)'
    <3> HIDE DEF SlotsEnough
    <3> QED BY <2>1, SlotsKept
  <2>3. /\ phase'[p] = phase[p] /\ phase[p] # "down"
        /\ Len(queue'[p]) = Len(queue[p]) - 1
        /\ handing'[p] = handing[p]
        /\ running[p] = None /\ running'[p] # None /\ used'[p] = used[p]
    BY <1>11, HeadTailProperties DEF RunNext
  <2>9. used[p] \in Nat BY DEF TypeOK
  <2>10. SlotsEnough(p)'
    <3>1. SlotsEnough(p) OBVIOUS
    <3>2. /\ Tasks(p) = Len(queue[p]) + Busy(p)
          /\ Tasks(p)' = Len(queue'[p]) + Busy(p)'
          /\ Len(queue[p]) \in Nat
      BY <1>0
    <3> HIDE DEF TypeOK, SlotInv
    <3>3. /\ Busy(p) \in Nat /\ Busy(p)' \in Nat
          /\ Busy(p)' = Busy(p) + 1
      BY <2>3, SMTT(30)
    <3> HIDE DEF Busy
    <3>4. Tasks(p)' = Tasks(p) /\ Tasks(p) \in Nat
      BY <2>3, <3>2, <3>3, SMTT(20)
    <3>5. used'[p] = used[p] BY <2>3, <2>9
    <3> QED BY <2>3, <2>9, <3>1, <3>4, <3>5
  <2> QED BY <2>2, <2>10
<1>12. ASSUME NEW p \in Process,
             RunProcess(p)
      PROVE  SlotInv'
  BY <1>12, <1>0 DEF RunProcess
<1>13. ASSUME NEW p \in Process,
             Finalize(p)
      PROVE  SlotInv'
  BY <1>13, <1>0 DEF Finalize
<1>14. ASSUME NEW p \in Process,
             FinalizeFails(p)
      PROVE  SlotInv'
  BY <1>14, <1>0 DEF FinalizeFails
<1>15. ASSUME NEW p \in Process,
             Discard(p)
      PROVE  SlotInv'
  <2>1. \A q \in Process : q # p =>
              /\ phase'[q] = phase[q] /\ queue'[q] = queue[q]
              /\ handing'[q] = handing[q] /\ running'[q] = running[q]
              /\ used'[q] = used[q]
    BY <1>15 DEF Discard
  <2>2. \A q \in Process : q # p => SlotsEnough(q)'
    <3> HIDE DEF SlotsEnough
    <3> QED BY <2>1, SlotsKept
  <2>3. /\ phase'[p] = phase[p] /\ queue'[p] = queue[p]
        /\ handing'[p] = handing[p]
        /\ running[p] # None /\ running'[p] = None /\ used'[p] = used[p] - 1
    BY <1>15 DEF Discard, TaskInv
  <2>9. used[p] \in Nat BY DEF TypeOK
  <2>10. SlotsEnough(p)'
    <3>1. SlotsEnough(p) OBVIOUS
    <3>2. /\ Tasks(p) = Len(queue[p]) + Busy(p)
          /\ Tasks(p)' = Len(queue'[p]) + Busy(p)'
          /\ Len(queue[p]) \in Nat
      BY <1>0
    <3> HIDE DEF TypeOK, SlotInv
    <3>3. /\ Busy(p) \in Nat /\ Busy(p)' \in Nat
          /\ Busy(p)' = Busy(p) - 1
      BY <2>3, SMTT(30)
    <3> HIDE DEF Busy
    <3>4. Tasks(p)' = Tasks(p) - 1 /\ Tasks(p) \in Nat
      BY <2>3, <3>2, <3>3
    <3>5. used'[p] = used[p] - 1 BY <2>3, <2>9
    <3> QED BY <2>3, <2>9, <3>1, <3>4, <3>5
  <2> QED BY <2>2, <2>10
<1>16. ASSUME NEW p \in Process, NEW d \in Delivery,
             Receive(p, d)
      PROVE  SlotInv'
  BY <1>16, <1>0 DEF Receive, Admit
<1>17. ASSUME NEW p \in Process, NEW d \in Delivery,
             Redeliver(p, d)
      PROVE  SlotInv'
  BY <1>17, <1>0 DEF Redeliver, Admit
<1>18. ASSUME NEW p \in Process, NEW d \in Delivery,
             RedeliverPayload(p, d)
      PROVE  SlotInv'
  BY <1>18, <1>0 DEF RedeliverPayload, Admit
<1>19. ASSUME NEW p \in Process, NEW d \in Delivery,
             Pick(p, d)
      PROVE  SlotInv'
  BY <1>19, <1>0 DEF Pick
<1>20. ASSUME NEW p \in Process, NEW d \in Delivery, NEW c \in Caller,
             DispatchRefused(p, c, d)
      PROVE  SlotInv'
  BY <1>20, <1>0 DEF DispatchRefused
<1>21. ASSUME NEW p \in Process, NEW d \in Delivery, NEW c \in Caller,
             DispatchNothing(p, c, d)
      PROVE  SlotInv'
  BY <1>21, <1>0 DEF DispatchNothing
<1>22. ASSUME NEW p \in Process, NEW d \in Delivery, NEW c \in Caller,
             DispatchCloses(p, c, d)
      PROVE  SlotInv'
  BY <1>22, <1>0 DEF DispatchCloses
<1>23. ASSUME NEW p \in Process, NEW d \in Delivery, NEW c \in Caller,
             DispatchExhausted(p, c, d)
      PROVE  SlotInv'
  BY <1>23, <1>0 DEF DispatchExhausted, MayClaim
<1>24. ASSUME NEW p \in Process, NEW d \in Delivery, NEW c \in Caller,
             Claim(p, c, d)
      PROVE  SlotInv'
  <2>1. \A q \in Process : q # p =>
              /\ phase'[q] = phase[q] /\ queue'[q] = queue[q]
              /\ handing'[q] = handing[q] /\ running'[q] = running[q]
              /\ used'[q] = used[q]
    BY <1>24 DEF Claim, MayClaim
  <2>2. \A q \in Process : q # p => SlotsEnough(q)'
    <3> HIDE DEF SlotsEnough
    <3> QED BY <2>1, SlotsKept
  <2>3. /\ phase'[p] = phase[p] /\ queue'[p] = queue[p]
        /\ handing[p] = None /\ handing'[p] # None
        /\ running'[p] = running[p] /\ used'[p] = used[p] + 1
    BY <1>24 DEF Claim, MayClaim
  <2>9. used[p] \in Nat BY DEF TypeOK
  <2>10. SlotsEnough(p)'
    <3>1. SlotsEnough(p) OBVIOUS
    <3>2. /\ Tasks(p) = Len(queue[p]) + Busy(p)
          /\ Tasks(p)' = Len(queue'[p]) + Busy(p)'
          /\ Len(queue[p]) \in Nat
      BY <1>0
    <3> HIDE DEF TypeOK, SlotInv
    <3>3. /\ Busy(p) \in Nat /\ Busy(p)' \in Nat
          /\ Busy(p)' = Busy(p) + 1
      BY <2>3, SMTT(30)
    <3> HIDE DEF Busy
    <3>4. Tasks(p)' = Tasks(p) + 1 /\ Tasks(p) \in Nat
      BY <2>3, <3>2, <3>3
    <3>5. used'[p] = used[p] + 1 BY <2>3, <2>9
    <3> QED BY <2>3, <2>9, <3>1, <3>4, <3>5
  <2> QED BY <2>2, <2>10
<1>25. ASSUME NEW p \in Process, NEW d \in Delivery, NEW c \in Caller,
             ClaimAckLost(p, c, d)
      PROVE  SlotInv'
  BY <1>25, <1>0 DEF ClaimAckLost, MayClaim
<1> QED
  BY <1>1, <1>2, <1>3, <1>4, <1>5, <1>6, <1>7, <1>8, <1>9, <1>10, <1>11, <1>12,
      <1>13, <1>14, <1>15, <1>16, <1>17, <1>18, <1>19, <1>20, <1>21, <1>22,
      <1>23, <1>24, <1>25
  DEF Next, ProcessStep, IntakeStep, DispatchStep, TaskStep

-----------------------------------------------------------------------------
(* A process is engaged with what was handed to it, and nothing else.      *)
LEMMA EngagedMoves ==
  ASSUME TypeOK, Next
  PROVE  \A q \in Process, d \in Delivery :
           Engaged(q, d)'
             => Engaged(q, d) \/ (handing[q] = d /\ handing'[q] = None)
<1> TAKE q \in Process, e \in Delivery
<1> HAVE Engaged(q, e)'
<1>1. ASSUME UNCHANGED <<queue, running>> PROVE Engaged(q, e)
  BY <1>1 DEF Engaged
<1>2. ASSUME NEW p \in Process,
             RecoverFails(p) \/ Crash(p) \/ Exit(p) \/ ShutdownStep(p)
      PROVE  Engaged(q, e)
  <2>1. /\ queue'[q] = queue[q] \/ queue'[q] = <<>>
        /\ running'[q] = running[q] \/ running'[q] = None
    BY <1>2 DEF RecoverFails, Crash, Exit, ShutdownStep, Forget, TypeOK
  <2>2. DOMAIN <<>> = {} OBVIOUS
  <2> QED BY <2>1, <2>2, DeliveryAssumption DEF Engaged
<1>3. ASSUME NEW p \in Process, Submit(p)
      PROVE  Engaged(q, e) \/ (handing[q] = e /\ handing'[q] = None)
  <2>1. CASE q # p BY <1>3, <2>1 DEF Submit, Engaged, TypeOK
  <2>2. CASE q = p
    <3>1. /\ queue'[q] = Append(queue[q], handing[q])
          /\ running'[q] = running[q] /\ handing'[q] = None
          /\ queue[q] \in Seq(Delivery) /\ handing[q] \in Delivery
      BY <1>3, <2>2 DEF Submit, TypeOK
    <3> QED BY <3>1, AppendProperties, LenProperties DEF Engaged
  <2> QED BY <2>1, <2>2
<1>4. ASSUME NEW p \in Process, RunNext(p) PROVE Engaged(q, e)
  <2>1. CASE q # p BY <1>4, <2>1 DEF RunNext, Engaged, TypeOK
  <2>2. CASE q = p
    <3>1. /\ queue'[q] = Tail(queue[q]) /\ running'[q] = Head(queue[q])
          /\ queue[q] \in Seq(Delivery) /\ queue[q] # <<>>
      BY <1>4, <2>2 DEF RunNext, TypeOK
    <3> QED BY <3>1, HeadTailProperties, LenProperties, EmptySeq DEF Engaged
  <2> QED BY <2>1, <2>2
<1>5. ASSUME NEW p \in Process, Discard(p) PROVE Engaged(q, e)
  BY <1>5, DeliveryAssumption DEF Discard, Engaged, TypeOK
<1> QED
  <2>1. ASSUME NEW p \in Process, ProcessStep(p) \/ Sweep(p) \/ TaskStep(p)
        PROVE  Engaged(q, e) \/ (handing[q] = e /\ handing'[q] = None)
    BY <1>1, <1>2, <1>3, <1>4, <1>5, <2>1
    DEF ProcessStep, TaskStep, Takeover, Recover, LoseLease, Sweep,
        SubmitFails, RunProcess, Finalize, FinalizeFails, taskVars
  <2>2. ASSUME NEW p \in Process, NEW d \in Delivery,
               IntakeStep(p, d) \/ Pick(p, d)
        PROVE  Engaged(q, e)
    BY <1>1, <2>2
    DEF IntakeStep, Receive, Redeliver, RedeliverPayload, Admit, Pick, taskVars
  <2>3. ASSUME NEW p \in Process, NEW d \in Delivery, NEW c \in Caller,
               DispatchStep(p, c, d)
        PROVE  Engaged(q, e)
    BY <1>1, <2>3
    DEF DispatchStep, DispatchRefused, DispatchNothing, DispatchCloses,
        DispatchExhausted, Claim, ClaimAckLost, taskVars
  <2> QED BY <2>1, <2>2, <2>3 DEF Next

(* A process that does not serve is engaged with nothing.                  *)
LEMMA EngagedServes ==
  ASSUME TypeOK, TaskInv, NEW p \in Process, NEW d \in Delivery,
         handing[p] = d \/ Engaged(p, d)
  PROVE  phase[p] \notin {"starting", "recovering", "down"}
<1>1. DOMAIN <<>> = {} OBVIOUS
<1> QED BY <1>1, DeliveryAssumption DEF TypeOK, TaskInv, Engaged

(* What a step leaves alone stays paid.                                    *)
LEMMA PaidKept ==
  ASSUME NEW e \in Delivery, Paid(e), writer' = writer,
         claims'[e] = claims[e], attempts'[e] = attempts[e],
         interrupted'[e] = interrupted[e], status'[e] = status[e],
         \A q \in Process :
           /\ handing'[q] = e => handing[q] = e
           /\ Engaged(q, e)'
                => Engaged(q, e) \/ (handing[q] = e /\ handing'[q] # e)
  PROVE  Paid(e)'
<1>1. \A q \in Process : handing'[q] = e \/ Engaged(q, e)'
                           => handing[q] = e \/ Engaged(q, e)
  OBVIOUS
<1>2. \A q \in Process : handing'[q] = e /\ Engaged(q, e)'
                           => handing[q] = e /\ Engaged(q, e)
  OBVIOUS
<1>3. (\E p \in Process : p = writer' /\ (handing'[p] = e \/ Engaged(p, e)'))
      => \E p \in Process : p = writer /\ (handing[p] = e \/ Engaged(p, e))
  BY <1>1
<1> QED BY <1>1, <1>2, <1>3 DEF Paid

(* An unpaid claim goes with an interruption, before and after each step.  *)
LEMMA InterruptStep ==
  ASSUME TypeOK, TaskInv, AttemptInv, InterruptInv, Next
  PROVE  InterruptInv'
<1> USE DeliveryAssumption
  DEF TypeOK, InterruptInv, Paid, Backlog, Status, Committed, Fenced,
      SetStatus, Close, Forget, Returns, NotHandedOff, Unlocked, InDispatch,
      Live, fenceVars, rowVars, taskVars, memVars, Fence!Takeover,
      Fence!FencedCommit
<1>0. \A q \in Process, d \in Delivery :
           Engaged(q, d)'
             => Engaged(q, d) \/ (handing[q] = d /\ handing'[q] = None)
  BY EngagedMoves
<1>00. \A q \in Process, d \in Delivery :
           handing[q] = d \/ Engaged(q, d)
             => phase[q] \notin {"starting", "recovering", "down"}
  BY EngagedServes
<1>1. ASSUME NEW p \in Process,
             Takeover(p)
      PROVE  InterruptInv'
  BY <1>1, <1>0, <1>00 DEF Takeover
<1>2. ASSUME NEW p \in Process,
             Recover(p)
      PROVE  InterruptInv'
  BY <1>2, <1>0, <1>00, SMTT(30)
  DEF Recover, AttemptInv
<1>3. ASSUME NEW p \in Process,
             RecoverFails(p)
      PROVE  InterruptInv'
  BY <1>3, <1>0 DEF RecoverFails
<1>4. ASSUME NEW p \in Process,
             LoseLease(p)
      PROVE  InterruptInv'
  BY <1>4, <1>0 DEF LoseLease
<1>5. ASSUME NEW p \in Process,
             Crash(p)
      PROVE  InterruptInv'
  BY <1>5, <1>0 DEF Crash
<1>6. ASSUME NEW p \in Process,
             ShutdownStep(p)
      PROVE  InterruptInv'
  BY <1>6, <1>0 DEF ShutdownStep
<1>7. ASSUME NEW p \in Process,
             Exit(p)
      PROVE  InterruptInv'
  BY <1>7, <1>0 DEF Exit
<1>8. ASSUME NEW p \in Process,
             Sweep(p)
      PROVE  InterruptInv'
  BY <1>8, <1>0 DEF Sweep, Orphans
<1>9. ASSUME NEW p \in Process,
             Submit(p)
      PROVE  InterruptInv'
  BY <1>9, <1>0, SMTT(30)
  DEF Submit
<1>10. ASSUME NEW p \in Process,
             SubmitFails(p)
      PROVE  InterruptInv'
  <2>1. handing[p] \in Delivery BY <1>10 DEF SubmitFails
  <2>2. \A q \in Process : handing'[q] = IF q = p THEN None ELSE handing[q]
    BY <1>10 DEF SubmitFails
  <2>3. \A d \in Delivery : d # handing[p] =>
          /\ claims'[d] = claims[d] /\ attempts'[d] = attempts[d]
          /\ status'[d] = status[d]
    BY <1>10, <2>1 DEF SubmitFails
  <2>4. UNCHANGED <<writer, interrupted>> BY <1>10 DEF SubmitFails
  <2>5. CASE UNCHANGED <<status, attempts, claims>>
    BY <1>0, <2>2, <2>4, <2>5
  <2>6. CASE /\ writer = p /\ status[handing[p]] = "QUEUED"
             /\ status'[handing[p]] = "PENDING"
             /\ attempts'[handing[p]] = IF attempts[handing[p]] > 0
                                          THEN attempts[handing[p]] - 1 ELSE 0
             /\ claims'[handing[p]] = IF claims[handing[p]] > 0
                                        THEN claims[handing[p]] - 1 ELSE 0
    <3>1. attempts[handing[p]] > 0 BY <2>1, <2>6 DEF AttemptInv
    <3>2. ASSUME NEW e \in Delivery PROVE Paid(e)'
      <4>1. CASE e # handing[p]
        <5>1. Paid(e) OBVIOUS
        <5> HIDE DEF Paid
        <5>2. \A q \in Process :
                /\ handing'[q] = e => handing[q] = e
                /\ Engaged(q, e)' => \/ Engaged(q, e)
                                     \/ handing[q] = e /\ handing'[q] # e
          BY <1>0, <2>2, DeliveryAssumption
        <5>3. /\ writer' = writer /\ interrupted'[e] = interrupted[e]
              /\ claims'[e] = claims[e] /\ attempts'[e] = attempts[e]
              /\ status'[e] = status[e]
          BY <2>3, <2>4, <4>1
        <5> HIDE DEF TypeOK
        <5> QED BY <5>1, <5>2, <5>3, PaidKept
      <4>2. CASE e = handing[p]
        <5>1. /\ attempts'[e] = attempts[e] - 1
              /\ claims'[e] = IF claims[e] > 0 THEN claims[e] - 1 ELSE 0
              /\ attempts[e] \in Nat /\ attempts[e] > 0 /\ claims[e] \in Nat
              /\ status[e] = "QUEUED" /\ status'[e] = "PENDING"
          BY <2>1, <2>6, <3>1, <4>2
        <5>2. /\ claims[e] <= 2 * attempts[e]
              /\ ~interrupted[e] => claims[e] < 2 * attempts[e]
              /\ claims[e] <= 2 * MaxAttempts
              /\ interrupted[e] /\ Engaged(p, e) => claims[e] < 2 * attempts[e]
          BY <2>1, <2>6, <4>2, <5>1
        <5>3. /\ claims'[e] <= 2 * attempts'[e] + 1
              /\ ~interrupted[e] => claims'[e] <= 2 * attempts'[e]
              /\ claims'[e] <= 2 * MaxAttempts
              /\ interrupted[e] /\ Engaged(p, e)
                   => claims'[e] <= 2 * attempts'[e]
          BY <5>1, <5>2, SMTT(30)
        <5>4. /\ handing'[p] # e /\ writer = p /\ writer' = p
              /\ interrupted'[e] = interrupted[e]
              /\ Engaged(p, e)' => Engaged(p, e)
          BY <1>10, <2>1, <2>2, <2>4, <2>6, <4>2 DEF SubmitFails, Engaged
        <5> QED BY <5>1, <5>3, <5>4
      <4> QED BY <4>1, <4>2
    <3> HIDE DEF Paid
    <3> QED BY <3>2
  <2> QED BY <1>10, <2>1, <2>5, <2>6, SMTT(20) DEF SubmitFails
<1>11. ASSUME NEW p \in Process,
             RunNext(p)
      PROVE  InterruptInv'
  BY <1>11, <1>0, SMTT(20) DEF RunNext
<1>12. ASSUME NEW p \in Process,
             RunProcess(p)
      PROVE  InterruptInv'
  BY <1>12, <1>0 DEF RunProcess
<1>13. ASSUME NEW p \in Process,
             Finalize(p)
      PROVE  InterruptInv'
  <2>1. running[p] \in Delivery /\ Engaged(p, running[p])
    BY <1>13 DEF Finalize, TaskInv, Engaged
  <2> QED BY <1>0, <1>13, <2>1 DEF Finalize
<1>14. ASSUME NEW p \in Process,
             FinalizeFails(p)
      PROVE  InterruptInv'
  BY <1>14, <1>0 DEF FinalizeFails
<1>15. ASSUME NEW p \in Process,
             Discard(p)
      PROVE  InterruptInv'
  BY <1>15, <1>0 DEF Discard
<1>16. ASSUME NEW p \in Process, NEW d \in Delivery,
             Receive(p, d)
      PROVE  InterruptInv'
  <2>1. /\ UNCHANGED <<claims, attempts, writer, handing, queue, running>>
        /\ ~interrupted'[d] /\ status'[d] = "PENDING" /\ ~interrupted[d]
        /\ status[d] \in {"absent", "RETRYABLE"}
        /\ \A e \in Delivery : e # d =>
              interrupted'[e] = interrupted[e] /\ status'[e] = status[e]
    BY <1>16 DEF Receive, Admit, AttemptInv
  <2>2. ASSUME NEW e \in Delivery PROVE Paid(e)'
    <3>1. CASE e # d
      <4>1. Paid(e) OBVIOUS
      <4> HIDE DEF Paid
      <4> QED BY <1>0, <2>1, <3>1, <4>1, PaidKept, DeliveryAssumption
    <3>2. CASE e = d BY <1>0, <2>1, <3>2
    <3> QED BY <3>1, <3>2
  <2> HIDE DEF Paid
  <2> QED BY <2>2
<1>17. ASSUME NEW p \in Process, NEW d \in Delivery,
             Redeliver(p, d)
      PROVE  InterruptInv'
  BY <1>17, <1>0 DEF Redeliver, Admit
<1>18. ASSUME NEW p \in Process, NEW d \in Delivery,
             RedeliverPayload(p, d)
      PROVE  InterruptInv'
  <2>1. /\ UNCHANGED <<claims, attempts, writer, handing, queue, running>>
        /\ ~interrupted'[d] /\ status'[d] = "PENDING" /\ ~interrupted[d]
        /\ status[d] \in {"absent", "RETRYABLE"}
        /\ \A e \in Delivery : e # d =>
              interrupted'[e] = interrupted[e] /\ status'[e] = status[e]
    BY <1>18 DEF RedeliverPayload, Admit, AttemptInv
  <2>2. ASSUME NEW e \in Delivery PROVE Paid(e)'
    <3>1. CASE e # d
      <4>1. Paid(e) OBVIOUS
      <4> HIDE DEF Paid
      <4> QED BY <1>0, <2>1, <3>1, <4>1, PaidKept, DeliveryAssumption
    <3>2. CASE e = d BY <1>0, <2>1, <3>2
    <3> QED BY <3>1, <3>2
  <2> HIDE DEF Paid
  <2> QED BY <2>2
<1>19. ASSUME NEW p \in Process, NEW d \in Delivery,
             Pick(p, d)
      PROVE  InterruptInv'
  BY <1>19, <1>0 DEF Pick
<1>20. ASSUME NEW p \in Process, NEW d \in Delivery, NEW c \in Caller,
             DispatchRefused(p, c, d)
      PROVE  InterruptInv'
  BY <1>20, <1>0 DEF DispatchRefused
<1>21. ASSUME NEW p \in Process, NEW d \in Delivery, NEW c \in Caller,
             DispatchNothing(p, c, d)
      PROVE  InterruptInv'
  BY <1>21, <1>0 DEF DispatchNothing
<1>22. ASSUME NEW p \in Process, NEW d \in Delivery, NEW c \in Caller,
             DispatchCloses(p, c, d)
      PROVE  InterruptInv'
  BY <1>22, <1>0 DEF DispatchCloses
<1>23. ASSUME NEW p \in Process, NEW d \in Delivery, NEW c \in Caller,
             DispatchExhausted(p, c, d)
      PROVE  InterruptInv'
  BY <1>23, <1>0, SMTT(30)
  DEF DispatchExhausted, MayClaim
<1>24. ASSUME NEW p \in Process, NEW d \in Delivery, NEW c \in Caller,
             Claim(p, c, d)
      PROVE  InterruptInv'
  BY <1>24, <1>0, SMTT(30)
  DEF Claim, MayClaim
<1>25. ASSUME NEW p \in Process, NEW d \in Delivery, NEW c \in Caller,
             ClaimAckLost(p, c, d)
      PROVE  InterruptInv'
  BY <1>25, <1>0, SMTT(30)
  DEF ClaimAckLost, MayClaim
<1> QED
  BY <1>1, <1>2, <1>3, <1>4, <1>5, <1>6, <1>7, <1>8, <1>9, <1>10, <1>11, <1>12,
      <1>13, <1>14, <1>15, <1>16, <1>17, <1>18, <1>19, <1>20, <1>21, <1>22,
      <1>23, <1>24, <1>25
  DEF Next, ProcessStep, IntakeStep, DispatchStep, TaskStep

(* Only the recovery after a takeover forgives an attempt.                 *)
LEMMA ForgiveStep ==
  ASSUME TypeOK, TaskInv, AttemptInv, ForgiveInv, Next
  PROVE  ForgiveInv'
<1> USE DeliveryAssumption
  DEF TypeOK, ForgiveInv, Committed, Fenced, SetStatus, Close, Forget, Returns,
      NotHandedOff, Unlocked, InDispatch, Live, fenceVars, rowVars, taskVars,
      memVars, Fence!Takeover, Fence!FencedCommit
<1>0. Cardinality(retired) \in Nat BY FS_CardinalityType
<1>1. ASSUME NEW p \in Process,
             Takeover(p)
      PROVE  ForgiveInv'
  <2>1. CASE writer = None
    <3>1. retired' = retired BY <1>1, <2>1 DEF Takeover
    <3>2. \A d \in Delivery : status[d] # "QUEUED" BY <2>1 DEF AttemptInv
    <3> QED BY <1>1, <3>1, <3>2 DEF Takeover
  <2>2. CASE writer # None
    <3>1. retired' = retired \cup {writer} BY <1>1, <2>2 DEF Takeover
    <3>2. /\ IsFiniteSet(retired')
          /\ Cardinality(retired') = Cardinality(retired) + 1
      BY <3>1, FS_AddElement
    <3>3. \A d \in Delivery :
             claims'[d] = claims[d] /\ attempts'[d] = attempts[d]
      BY <1>1 DEF Takeover
    <3>4. writer' \notin retired' BY <1>1 DEF Takeover
    <3>5. \A d \in Delivery :
            /\ claims[d] <= attempts[d] + Cardinality(retired)
            /\ claims[d] <= MaxAttempts + Cardinality(retired)
            /\ claims[d] \in Nat /\ attempts[d] \in Nat /\ MaxAttempts \in Nat
      OBVIOUS
    <3> HIDE DEF TypeOK
    <3> QED BY <1>0, <3>2, <3>3, <3>4, <3>5
  <2> QED BY <2>1, <2>2
<1>2. ASSUME NEW p \in Process,
             Recover(p)
      PROVE  ForgiveInv'
  BY <1>2, <1>0 DEF Recover
<1>3. ASSUME NEW p \in Process,
             RecoverFails(p)
      PROVE  ForgiveInv'
  BY <1>3, <1>0 DEF RecoverFails
<1>4. ASSUME NEW p \in Process,
             LoseLease(p)
      PROVE  ForgiveInv'
  BY <1>4, <1>0 DEF LoseLease
<1>5. ASSUME NEW p \in Process,
             Crash(p)
      PROVE  ForgiveInv'
  BY <1>5, <1>0 DEF Crash
<1>6. ASSUME NEW p \in Process,
             ShutdownStep(p)
      PROVE  ForgiveInv'
  BY <1>6, <1>0 DEF ShutdownStep
<1>7. ASSUME NEW p \in Process,
             Exit(p)
      PROVE  ForgiveInv'
  BY <1>7, <1>0 DEF Exit
<1>8. ASSUME NEW p \in Process,
             Sweep(p)
      PROVE  ForgiveInv'
  BY <1>8, <1>0 DEF Sweep
<1>9. ASSUME NEW p \in Process,
             Submit(p)
      PROVE  ForgiveInv'
  BY <1>9, <1>0 DEF Submit
<1>10. ASSUME NEW p \in Process,
             SubmitFails(p)
      PROVE  ForgiveInv'
  <2>1. PICK d \in Delivery :
          /\ \A e \in Delivery : e # d =>
                /\ claims'[e] = claims[e] /\ attempts'[e] = attempts[e]
                /\ status'[e] = status[e]
          /\ \/ UNCHANGED <<claims, attempts, status>>
             \/ /\ status[d] = "QUEUED" /\ status'[d] = "PENDING"
                /\ attempts'[d] = IF attempts[d] > 0 THEN attempts[d] - 1 ELSE 0
                /\ claims'[d] = IF claims[d] > 0 THEN claims[d] - 1 ELSE 0
    <3>1. handing[p] \in Delivery BY <1>10 DEF SubmitFails
    <3>2. /\ \A e \in Delivery : e # handing[p] =>
                /\ claims'[e] = claims[e] /\ attempts'[e] = attempts[e]
                /\ status'[e] = status[e]
          /\ \/ UNCHANGED <<claims, attempts, status>>
             \/ /\ status[handing[p]] = "QUEUED"
                /\ status'[handing[p]] = "PENDING"
                /\ attempts'[handing[p]] =
                      IF attempts[handing[p]] > 0
                        THEN attempts[handing[p]] - 1 ELSE 0
                /\ claims'[handing[p]] = IF claims[handing[p]] > 0
                                           THEN claims[handing[p]] - 1 ELSE 0
      BY <1>10, <3>1 DEF SubmitFails
    <3> QED BY <3>1, <3>2
  <2>2. UNCHANGED <<retired, writer, phase>> BY <1>10 DEF SubmitFails
  <2>3. attempts[d] > 0 \/ status[d] # "QUEUED" BY DEF AttemptInv
  <2>4. \A e \in Delivery :
            /\ claims[e] <= attempts[e] + Cardinality(retired)
            /\ claims[e] <= MaxAttempts + Cardinality(retired)
            /\ claims[e] \in Nat /\ attempts[e] \in Nat /\ MaxAttempts \in Nat
    OBVIOUS
  <2>5. /\ IsFiniteSet(retired) /\ writer \notin retired
        /\ \A e \in Delivery : \A q \in Process :
              q = writer /\ phase[q] = "recovering" /\ status[e] = "QUEUED"
              => claims[e] < attempts[e] + Cardinality(retired)
    OBVIOUS
  <2> HIDE DEF TypeOK
  <2> QED BY <1>0, <2>1, <2>2, <2>3, <2>4, <2>5
<1>11. ASSUME NEW p \in Process,
             RunNext(p)
      PROVE  ForgiveInv'
  BY <1>11, <1>0 DEF RunNext
<1>12. ASSUME NEW p \in Process,
             RunProcess(p)
      PROVE  ForgiveInv'
  BY <1>12, <1>0 DEF RunProcess
<1>13. ASSUME NEW p \in Process,
             Finalize(p)
      PROVE  ForgiveInv'
  BY <1>13, <1>0 DEF Finalize
<1>14. ASSUME NEW p \in Process,
             FinalizeFails(p)
      PROVE  ForgiveInv'
  BY <1>14, <1>0 DEF FinalizeFails
<1>15. ASSUME NEW p \in Process,
             Discard(p)
      PROVE  ForgiveInv'
  BY <1>15, <1>0 DEF Discard
<1>16. ASSUME NEW p \in Process, NEW d \in Delivery,
             Receive(p, d)
      PROVE  ForgiveInv'
  BY <1>16, <1>0 DEF Receive, Admit
<1>17. ASSUME NEW p \in Process, NEW d \in Delivery,
             Redeliver(p, d)
      PROVE  ForgiveInv'
  BY <1>17, <1>0, SMTT(30)
  DEF Redeliver, Admit
<1>18. ASSUME NEW p \in Process, NEW d \in Delivery,
             RedeliverPayload(p, d)
      PROVE  ForgiveInv'
  BY <1>18, <1>0 DEF RedeliverPayload, Admit
<1>19. ASSUME NEW p \in Process, NEW d \in Delivery,
             Pick(p, d)
      PROVE  ForgiveInv'
  BY <1>19, <1>0 DEF Pick
<1>20. ASSUME NEW p \in Process, NEW d \in Delivery, NEW c \in Caller,
             DispatchRefused(p, c, d)
      PROVE  ForgiveInv'
  BY <1>20, <1>0 DEF DispatchRefused
<1>21. ASSUME NEW p \in Process, NEW d \in Delivery, NEW c \in Caller,
             DispatchNothing(p, c, d)
      PROVE  ForgiveInv'
  BY <1>21, <1>0 DEF DispatchNothing
<1>22. ASSUME NEW p \in Process, NEW d \in Delivery, NEW c \in Caller,
             DispatchCloses(p, c, d)
      PROVE  ForgiveInv'
  BY <1>22, <1>0 DEF DispatchCloses
<1>23. ASSUME NEW p \in Process, NEW d \in Delivery, NEW c \in Caller,
             DispatchExhausted(p, c, d)
      PROVE  ForgiveInv'
  BY <1>23, <1>0, SMTT(20) DEF DispatchExhausted, MayClaim
<1>24. ASSUME NEW p \in Process, NEW d \in Delivery, NEW c \in Caller,
             Claim(p, c, d)
      PROVE  ForgiveInv'
  <2>1. /\ \A e \in Delivery : e # d =>
              /\ claims'[e] = claims[e] /\ attempts'[e] = attempts[e]
              /\ status'[e] = status[e]
        /\ attempts[d] + 1 <= MaxAttempts
        /\ attempts'[d] = attempts[d] + 1 /\ claims'[d] = claims[d] + 1
        /\ UNCHANGED <<retired, writer, phase>>
        /\ p = writer /\ phase[p] = "ready"
    BY <1>24 DEF Claim, MayClaim
  <2>4. \A e \in Delivery :
            /\ claims[e] <= attempts[e] + Cardinality(retired)
            /\ claims[e] <= MaxAttempts + Cardinality(retired)
            /\ claims[e] \in Nat /\ attempts[e] \in Nat /\ MaxAttempts \in Nat
    OBVIOUS
  <2>5. /\ IsFiniteSet(retired) /\ writer \notin retired
        /\ \A e \in Delivery : \A q \in Process :
              q = writer /\ phase[q] = "recovering" /\ status[e] = "QUEUED"
              => claims[e] < attempts[e] + Cardinality(retired)
    OBVIOUS
  <2> HIDE DEF TypeOK
  <2> QED BY <1>0, <2>1, <2>4, <2>5
<1>25. ASSUME NEW p \in Process, NEW d \in Delivery, NEW c \in Caller,
             ClaimAckLost(p, c, d)
      PROVE  ForgiveInv'
  BY <1>25, <1>0, SMTT(30)
  DEF ClaimAckLost, MayClaim
<1> QED
  BY <1>1, <1>2, <1>3, <1>4, <1>5, <1>6, <1>7, <1>8, <1>9, <1>10, <1>11, <1>12,
      <1>13, <1>14, <1>15, <1>16, <1>17, <1>18, <1>19, <1>20, <1>21, <1>22,
      <1>23, <1>24, <1>25
  DEF Next, ProcessStep, IntakeStep, DispatchStep, TaskStep

-----------------------------------------------------------------------------
(* At first nothing is claimed, and no task exists.                        *)
LEMMA InitIInv == Init => IInv
<1> SUFFICES ASSUME Init PROVE IInv OBVIOUS
<1> USE DeliveryAssumption DEF Init, Fence!Init
<1>1. PICK s \in Scene :
        /\ phase = [p \in Process |->
                      IF p \in s.ahead THEN "starting" ELSE "down"]
        /\ status = [d \in Delivery |->
                       IF d \in s.mail THEN "absent" ELSE "HANDLED"]
        /\ rearms = s.rearms /\ dbErrors = s.dbErrors
  OBVIOUS
<1>2. rearms \in 0..MaxRearms /\ dbErrors \in BOOLEAN BY <1>1
<1>3. TypeOK
  BY <1>1, <1>2, EmptySeq
  DEF TypeOK, Phase, Status, Backlog, Terminal, Stage, Outcome
<1>4. TaskInv BY <1>1 DEF TaskInv
<1>5. AttemptInv BY <1>1 DEF AttemptInv, Backlog
<1>6. SlotInv
  <2> SUFFICES ASSUME NEW p \in Process PROVE SlotsEnough(p) BY DEF SlotInv
  <2>1. Tasks(p) = 0 BY TasksCount, EmptySeq DEF Busy
  <2>2. used[p] = 0 OBVIOUS
  <2> QED BY <2>1, <2>2 DEF SlotsEnough
<1>7. InterruptInv
  BY <1>1 DEF InterruptInv, Paid
<1>8. ForgiveInv
  <2>1. /\ IsFiniteSet(retired) /\ Cardinality(retired) = 0 BY FS_EmptySet
  <2> QED BY <1>1, <2>1 DEF ForgiveInv
<1> QED BY <1>3, <1>4, <1>5, <1>6, <1>7, <1>8 DEF IInv

(* Every step preserves the inductive invariant.                           *)
LEMMA StepIInv == IInv /\ [Next]_vars => IInv'
<1> SUFFICES ASSUME IInv, [Next]_vars PROVE IInv' OBVIOUS
<1>1. CASE Next
  BY <1>1, TypeStep, TaskStays, AttemptStep, SlotStep, InterruptStep,
     ForgiveStep DEF IInv
<1>2. CASE UNCHANGED vars
  <2>1. UNCHANGED <<writer, retired, author, phase, lost, status, attempts,
                    interrupted, payload, claims, rearms, calls, handing,
                    queue, running, stage, outcome, active, used, dbErrors>>
    BY <1>2 DEF vars, moving, fenceVars, rowVars, taskVars, memVars
  <2>2. TypeOK' /\ TaskInv' /\ AttemptInv' /\ ForgiveInv'
    BY <2>1 DEF IInv, TypeOK, TaskInv, AttemptInv, ForgiveInv
  <2>3. SlotInv' BY <2>1, SlotsKept DEF IInv, SlotInv
  <2>4. InterruptInv'
    BY <2>1 DEF IInv, InterruptInv, Paid, Engaged
  <2> QED BY <2>2, <2>3, <2>4 DEF IInv
<1> QED BY <1>1, <1>2

(* The inductive invariant holds in every reachable state.                 *)
THEOREM InvariantHolds == Spec => []IInv
  BY InitIInv, StepIInv, PTL DEF Spec

(* Every variable of the pipeline has its type: no row counts more than    *)
(* one attempt beyond MAX_ATTEMPTS, no process more slots than there are.  *)
THEOREM TypeCorrect == Spec => []TypeOK
  BY InvariantHolds, PTL DEF IInv

(* JobManager.reserve() and release() around dispatch() and _run: each exit*)
(* gives back exactly the slot that its claim has taken.                   *)
THEOREM SlotsAreThoseOfTasks == Spec => []SlotsMatchTasks
<1>1. IInv => SlotsMatchTasks
  BY DEF IInv, SlotInv, SlotsEnough, SlotsMatchTasks
<1> QED BY <1>1, InvariantHolds, PTL

(* recover(), "consecutive interruptions consume the attempt": a delivery  *)
(* is claimed at most twice per attempt, and once more per takeover, over  *)
(* any sequence of failures, restarts and lost acknowledgements.           *)
THEOREM CrashLoopsEnd == Spec => []ClaimsBounded
<1>1. IInv => ClaimsBounded
  BY DEF IInv, InterruptInv, Paid, ForgiveInv, ClaimsBounded
<1> QED BY <1>1, InvariantHolds, PTL
=============================================================================
