----------------------------- MODULE JobsProofs -----------------------------
(***************************************************************************)
(* Proofs about Jobs, for any number of server processes, analyses, slots, *)
(* worker threads and rows per recovery batch.                             *)
(*                                                                         *)
(* None of the checked invariants is inductive by itself.  NoOrphan needs  *)
(* to know where the thread of each unfinished row can be (PlaceInv), how  *)
(* a row can be left without one (OrphanInv), and that recovery emptied    *)
(* the table of the rows of earlier processes (RecoveredInv) although it   *)
(* works in batches: it is over when a batch is not full, which says that  *)
(* no row is left only because the unfinished rows are finite (OpenInv).   *)
(* That the thread which reads QUEUED in _run() may later write RUNNING is *)
(* ClaimInv.  The semaphore is right because whoever releases a slot is    *)
(* one of its holders (SlotInv, SlotTaken).                                *)
(***************************************************************************)
EXTENDS Jobs, FiniteSetTheorems, TLAPS

(* Where the thread of an analysis is, and what its row can be then.       *)
PlaceInv ==
    \A j \in Job :
        /\ task[j] \notin {"none", "limbo"}
             => by[j] \in Process /\ Live(by[j])
        /\ row[j] \in Unfinished => by[j] \in Process
        /\ task[j] = "reserved" => row[j] = "absent"
        /\ task[j] \in {"committed", "queued"} => row[j] # "RUNNING"
        /\ row[j] = "absent" => ~restarted[j]

(* A row is left unfinished only by a process that says so, or is gone.    *)
OrphanInv ==
    \A j \in Job : \A p \in Process :
        by[j] = p /\ row[j] \in Unfinished /\ task[j] \in {"none", "releasing"}
        => broken[p] \/ lost[p] \/ phase[p] = "down"

(* The writer has started; a process works on nothing before it serves.    *)
StartInv ==
    /\ \A p \in Process :
         /\ p = writer => phase[p] # "off"
         /\ \/ phase[p] = "off"
            \/ phase[p] = "recovering" /\ ~earlyHttp
            => \A j \in Job : by[j] # p

(* Recovery leaves nothing of earlier processes unfinished.                *)
RecoveredInv ==
    \A p \in Process :
        p = writer /\ phase[p] \notin {"recovering", "down"}
        => \A j \in Job : row[j] \in Unfinished => by[j] = p

(* What a thread read in _run() still holds when it writes RUNNING.        *)
ClaimInv ==
    ~earlyHttp =>
        \A j \in Job : by[j] = writer /\ task[j] = "claiming"
                       => row[j] \in {"QUEUED", "deleted"}

(* There are finitely many unfinished rows, so a short batch is the last.  *)
Open == {j \in Job : row[j] \in Unfinished}
OpenInv == IsFiniteSet(Open)

(* The slots of a process that runs, or has yet to start.                  *)
SlotsAgree(p) ==
    /\ IsFiniteSet(Holders(p))
    /\ phase[p] # "down" => free[p] + Cardinality(Holders(p)) = MaxJobs

SlotInv == \A p \in Process : SlotsAgree(p)

IInv == TypeOK /\ PlaceInv /\ OrphanInv /\ StartInv /\ RecoveredInv
          /\ ClaimInv /\ LateHttpSparesFreshWork /\ OpenInv /\ SlotInv

(* Whoever holds a slot may give it back.                                  *)
LEMMA SlotTaken ==
  ASSUME TypeOK, PlaceInv, SlotInv, NEW j \in Job, NEW p \in Process,
         by[j] = p, task[j] \notin {"none", "limbo"}
  PROVE  free[p] + 1 \in 0..MaxJobs
<1>1. j \in Holders(p) BY DEF Holders
<1>2. Cardinality(Holders(p)) \in Nat /\ Cardinality(Holders(p)) # 0
  BY <1>1, FS_EmptySet, FS_CardinalityType DEF SlotInv, SlotsAgree
<1>3. free[p] + Cardinality(Holders(p)) = MaxJobs
  BY DEF SlotInv, SlotsAgree, PlaceInv, Live
<1> QED BY <1>2, <1>3, JobsAssumption DEF TypeOK

(* Every step keeps the types; only release() needs more than its guard.   *)
LEMMA TypeStep ==
  ASSUME TypeOK, PlaceInv, SlotInv, Next
  PROVE  TypeOK'
<1> USE JobsAssumption
  DEF TypeOK, Live, Serving, Goto, SetRow, Committed, Fenced, GiveBack,
      DropThreads, AfterFinish, StoreReply, fenceVars, memVars, rowVars,
      taskVars, settings, Fence!Takeover, Fence!FencedCommit, Unfinished,
      Terminal, Phase, Row, Task, InRequest, InWorker, InExecutor, Attempts
<1>0. UNCHANGED settings BY DEF Next
<1>1. ASSUME NEW p \in Process, Takeover(p)
      PROVE  TypeOK'
  BY <1>0, <1>1, SlotTaken DEF Takeover
<1>2. ASSUME NEW p \in Process, RecoverBatch(p)
      PROVE  TypeOK'
  BY <1>0, <1>2, SlotTaken DEF RecoverBatch
<1>3. ASSUME NEW p \in Process, RecoverFails(p)
      PROVE  TypeOK'
  BY <1>0, <1>3, SlotTaken DEF RecoverFails
<1>4. ASSUME NEW p \in Process, LoseLease(p)
      PROVE  TypeOK'
  BY <1>0, <1>4, SlotTaken DEF LoseLease
<1>5. ASSUME NEW p \in Process, Crash(p)
      PROVE  TypeOK'
  BY <1>0, <1>5, SlotTaken DEF Crash
<1>6. ASSUME NEW p \in Process, ShutdownStep(p)
      PROVE  TypeOK'
  BY <1>0, <1>6, SlotTaken DEF ShutdownStep
<1>7. ASSUME NEW p \in Process, Exit(p)
      PROVE  TypeOK'
  BY <1>0, <1>7, SlotTaken DEF Exit
<1>8. ASSUME NEW p \in Process, NEW j \in Job, Reserve(p, j)
      PROVE  TypeOK'
  BY <1>0, <1>8, SlotTaken DEF Reserve
<1>9. ASSUME NEW p \in Process, NEW j \in Job, Delete(p, j)
      PROVE  TypeOK'
  BY <1>0, <1>9, SlotTaken DEF Delete
<1>10. ASSUME NEW p \in Process, NEW j \in Job, CreateCommits(p, j)
      PROVE  TypeOK'
  BY <1>0, <1>10, SlotTaken DEF CreateCommits
<1>11. ASSUME NEW p \in Process, NEW j \in Job, CreateFails(p, j)
      PROVE  TypeOK'
  BY <1>0, <1>11, SlotTaken DEF CreateFails
<1>12. ASSUME NEW p \in Process, NEW j \in Job, CreateAckLost(p, j)
      PROVE  TypeOK'
  BY <1>0, <1>12, SlotTaken DEF CreateAckLost
<1>13. ASSUME NEW p \in Process, NEW j \in Job, Submit(p, j)
      PROVE  TypeOK'
  BY <1>0, <1>13, SlotTaken DEF Submit
<1>14. ASSUME NEW p \in Process, NEW j \in Job, Look(p, j)
      PROVE  TypeOK'
  BY <1>0, <1>14, SlotTaken DEF Look
<1>15. ASSUME NEW p \in Process, NEW j \in Job, Claim(p, j)
      PROVE  TypeOK'
  BY <1>0, <1>15, SlotTaken DEF Claim
<1>16. ASSUME NEW p \in Process, NEW j \in Job, ClaimFails(p, j)
      PROVE  TypeOK'
  BY <1>0, <1>16, SlotTaken DEF ClaimFails
<1>17. ASSUME NEW p \in Process, NEW j \in Job, Execute(p, j)
      PROVE  TypeOK'
  BY <1>0, <1>17, SlotTaken DEF Execute
<1>18. ASSUME NEW p \in Process, NEW j \in Job, ExecuteRaises(p, j)
      PROVE  TypeOK'
  BY <1>0, <1>18, SlotTaken DEF ExecuteRaises
<1>19. ASSUME NEW p \in Process, NEW j \in Job, RunExcept(p, j)
      PROVE  TypeOK'
  BY <1>0, <1>19, SlotTaken DEF RunExcept
<1>20. ASSUME NEW p \in Process, NEW j \in Job, Finish(p, j)
      PROVE  TypeOK'
  BY <1>0, <1>20, SlotTaken DEF Finish
<1>21. ASSUME NEW p \in Process, NEW j \in Job, FinishFenced(p, j)
      PROVE  TypeOK'
  BY <1>0, <1>21, SlotTaken DEF FinishFenced
<1>22. ASSUME NEW p \in Process, NEW j \in Job, FinishFails(p, j)
      PROVE  TypeOK'
  <2>1. free' \in [Process -> 0..MaxJobs]
    BY <1>22, SlotTaken DEF FinishFails
  <2>2. tries' \in [Job -> 0..Attempts-1]
    BY <1>22 DEF FinishFails
  <2>3. /\ row' \in [Job -> Row] /\ task' \in [Job -> Task]
        /\ reply' \in [Job -> BOOLEAN] /\ broken' \in [Process -> BOOLEAN]
    <3>1. CASE tries[j] < Attempts - 1
      BY <1>22, <3>1 DEF FinishFails
    <3>2. CASE ~(tries[j] < Attempts - 1)
      BY <1>22, <3>2, ZenonT(30) DEF FinishFails
    <3> QED BY <3>1, <3>2
  <2> QED BY <1>0, <1>22, <2>1, <2>2, <2>3 DEF FinishFails
<1>23. ASSUME NEW p \in Process, NEW j \in Job, Release(p, j)
      PROVE  TypeOK'
  BY <1>0, <1>23, SlotTaken DEF Release
<1> QED BY <1>1, <1>2, <1>3, <1>4, <1>5, <1>6, <1>7, <1>8, <1>9, <1>10, <1>11,
    <1>12, <1>13, <1>14, <1>15, <1>16, <1>17, <1>18, <1>19, <1>20, <1>21,
    <1>22, <1>23 DEF Next, ProcessStep, WorkStep

(* Every step leaves each row where its thread can have brought it.        *)
LEMMA PlaceStep ==
  ASSUME TypeOK, StartInv, PlaceInv, Next
  PROVE  PlaceInv'
<1> USE JobsAssumption
  DEF TypeOK, Live, Serving, Goto, SetRow, Committed, Fenced, GiveBack,
      DropThreads, AfterFinish, StoreReply, fenceVars, memVars, rowVars,
      taskVars, settings, Fence!Takeover, Fence!FencedCommit, Unfinished,
      Terminal, PlaceInv, StartInv, InExecutor, InRequest, InWorker, Holders
<1>0. UNCHANGED settings BY DEF Next
<1>1. ASSUME NEW p \in Process, Takeover(p)
      PROVE  PlaceInv'
  BY <1>0, <1>1 DEF Takeover
<1>2. ASSUME NEW p \in Process, RecoverBatch(p)
      PROVE  PlaceInv'
  BY <1>0, <1>2 DEF RecoverBatch
<1>3. ASSUME NEW p \in Process, RecoverFails(p)
      PROVE  PlaceInv'
  BY <1>0, <1>3 DEF RecoverFails
<1>4. ASSUME NEW p \in Process, LoseLease(p)
      PROVE  PlaceInv'
  BY <1>0, <1>4 DEF LoseLease
<1>5. ASSUME NEW p \in Process, Crash(p)
      PROVE  PlaceInv'
  BY <1>0, <1>5 DEF Crash
<1>6. ASSUME NEW p \in Process, ShutdownStep(p)
      PROVE  PlaceInv'
  BY <1>0, <1>6 DEF ShutdownStep
<1>7. ASSUME NEW p \in Process, Exit(p)
      PROVE  PlaceInv'
  BY <1>0, <1>7 DEF Exit
<1>8. ASSUME NEW p \in Process, NEW j \in Job, Reserve(p, j)
      PROVE  PlaceInv'
  BY <1>0, <1>8 DEF Reserve
<1>9. ASSUME NEW p \in Process, NEW j \in Job, Delete(p, j)
      PROVE  PlaceInv'
  BY <1>0, <1>9 DEF Delete
<1>10. ASSUME NEW p \in Process, NEW j \in Job, CreateCommits(p, j)
      PROVE  PlaceInv'
  BY <1>0, <1>10 DEF CreateCommits
<1>11. ASSUME NEW p \in Process, NEW j \in Job, CreateFails(p, j)
      PROVE  PlaceInv'
  BY <1>0, <1>11 DEF CreateFails
<1>12. ASSUME NEW p \in Process, NEW j \in Job, CreateAckLost(p, j)
      PROVE  PlaceInv'
  BY <1>0, <1>12 DEF CreateAckLost
<1>13. ASSUME NEW p \in Process, NEW j \in Job, Submit(p, j)
      PROVE  PlaceInv'
  BY <1>0, <1>13 DEF Submit
<1>14. ASSUME NEW p \in Process, NEW j \in Job, Look(p, j)
      PROVE  PlaceInv'
  BY <1>0, <1>14 DEF Look
<1>15. ASSUME NEW p \in Process, NEW j \in Job, Claim(p, j)
      PROVE  PlaceInv'
  BY <1>0, <1>15 DEF Claim
<1>16. ASSUME NEW p \in Process, NEW j \in Job, ClaimFails(p, j)
      PROVE  PlaceInv'
  BY <1>0, <1>16 DEF ClaimFails
<1>17. ASSUME NEW p \in Process, NEW j \in Job, Execute(p, j)
      PROVE  PlaceInv'
  BY <1>0, <1>17 DEF Execute
<1>18. ASSUME NEW p \in Process, NEW j \in Job, ExecuteRaises(p, j)
      PROVE  PlaceInv'
  BY <1>0, <1>18 DEF ExecuteRaises
<1>19. ASSUME NEW p \in Process, NEW j \in Job, RunExcept(p, j)
      PROVE  PlaceInv'
  BY <1>0, <1>19 DEF RunExcept
<1>20. ASSUME NEW p \in Process, NEW j \in Job, Finish(p, j)
      PROVE  PlaceInv'
  BY <1>0, <1>20 DEF Finish
<1>21. ASSUME NEW p \in Process, NEW j \in Job, FinishFenced(p, j)
      PROVE  PlaceInv'
  BY <1>0, <1>21 DEF FinishFenced
<1>22. ASSUME NEW p \in Process, NEW j \in Job, FinishFails(p, j)
      PROVE  PlaceInv'
  BY <1>0, <1>22 DEF FinishFails
<1>23. ASSUME NEW p \in Process, NEW j \in Job, Release(p, j)
      PROVE  PlaceInv'
  BY <1>0, <1>23 DEF Release
<1> QED BY <1>1, <1>2, <1>3, <1>4, <1>5, <1>6, <1>7, <1>8, <1>9, <1>10, <1>11,
    <1>12, <1>13, <1>14, <1>15, <1>16, <1>17, <1>18, <1>19, <1>20, <1>21,
    <1>22, <1>23 DEF Next, ProcessStep, WorkStep

(* A thread that leaves an unfinished row behind has recorded the failure, *)
(* or went away with its process.                                          *)
LEMMA OrphanStep ==
  ASSUME TypeOK, PlaceInv, OrphanInv, Next
  PROVE  OrphanInv'
<1> USE JobsAssumption
  DEF TypeOK, Live, Serving, Goto, SetRow, Committed, Fenced, GiveBack,
      DropThreads, AfterFinish, StoreReply, fenceVars, memVars, rowVars,
      taskVars, settings, Fence!Takeover, Fence!FencedCommit, Unfinished,
      Terminal, PlaceInv, OrphanInv, Holders
<1>0. UNCHANGED settings BY DEF Next
<1>1. ASSUME NEW p \in Process, Takeover(p)
      PROVE  OrphanInv'
  BY <1>0, <1>1 DEF Takeover
<1>2. ASSUME NEW p \in Process, RecoverBatch(p)
      PROVE  OrphanInv'
  BY <1>0, <1>2 DEF RecoverBatch
<1>3. ASSUME NEW p \in Process, RecoverFails(p)
      PROVE  OrphanInv'
  BY <1>0, <1>3 DEF RecoverFails
<1>4. ASSUME NEW p \in Process, LoseLease(p)
      PROVE  OrphanInv'
  BY <1>0, <1>4 DEF LoseLease
<1>5. ASSUME NEW p \in Process, Crash(p)
      PROVE  OrphanInv'
  BY <1>0, <1>5 DEF Crash
<1>6. ASSUME NEW p \in Process, ShutdownStep(p)
      PROVE  OrphanInv'
  BY <1>0, <1>6 DEF ShutdownStep
<1>7. ASSUME NEW p \in Process, Exit(p)
      PROVE  OrphanInv'
  BY <1>0, <1>7 DEF Exit
<1>8. ASSUME NEW p \in Process, NEW j \in Job, Reserve(p, j)
      PROVE  OrphanInv'
  BY <1>0, <1>8 DEF Reserve
<1>9. ASSUME NEW p \in Process, NEW j \in Job, Delete(p, j)
      PROVE  OrphanInv'
  BY <1>0, <1>9 DEF Delete
<1>10. ASSUME NEW p \in Process, NEW j \in Job, CreateCommits(p, j)
      PROVE  OrphanInv'
  BY <1>0, <1>10 DEF CreateCommits
<1>11. ASSUME NEW p \in Process, NEW j \in Job, CreateFails(p, j)
      PROVE  OrphanInv'
  BY <1>0, <1>11 DEF CreateFails
<1>12. ASSUME NEW p \in Process, NEW j \in Job, CreateAckLost(p, j)
      PROVE  OrphanInv'
  BY <1>0, <1>12 DEF CreateAckLost
<1>13. ASSUME NEW p \in Process, NEW j \in Job, Submit(p, j)
      PROVE  OrphanInv'
  BY <1>0, <1>13 DEF Submit
<1>14. ASSUME NEW p \in Process, NEW j \in Job, Look(p, j)
      PROVE  OrphanInv'
  BY <1>0, <1>14 DEF Look
<1>15. ASSUME NEW p \in Process, NEW j \in Job, Claim(p, j)
      PROVE  OrphanInv'
  BY <1>0, <1>15 DEF Claim
<1>16. ASSUME NEW p \in Process, NEW j \in Job, ClaimFails(p, j)
      PROVE  OrphanInv'
  BY <1>0, <1>16 DEF ClaimFails
<1>17. ASSUME NEW p \in Process, NEW j \in Job, Execute(p, j)
      PROVE  OrphanInv'
  BY <1>0, <1>17 DEF Execute
<1>18. ASSUME NEW p \in Process, NEW j \in Job, ExecuteRaises(p, j)
      PROVE  OrphanInv'
  BY <1>0, <1>18 DEF ExecuteRaises
<1>19. ASSUME NEW p \in Process, NEW j \in Job, RunExcept(p, j)
      PROVE  OrphanInv'
  BY <1>0, <1>19 DEF RunExcept
<1>20. ASSUME NEW p \in Process, NEW j \in Job, Finish(p, j)
      PROVE  OrphanInv'
  BY <1>0, <1>20 DEF Finish
<1>21. ASSUME NEW p \in Process, NEW j \in Job, FinishFenced(p, j)
      PROVE  OrphanInv'
  BY <1>0, <1>21 DEF FinishFenced
<1>22. ASSUME NEW p \in Process, NEW j \in Job, FinishFails(p, j)
      PROVE  OrphanInv'
  BY <1>0, <1>22 DEF FinishFails
<1>23. ASSUME NEW p \in Process, NEW j \in Job, Release(p, j)
      PROVE  OrphanInv'
  BY <1>0, <1>23 DEF Release
<1> QED BY <1>1, <1>2, <1>3, <1>4, <1>5, <1>6, <1>7, <1>8, <1>9, <1>10, <1>11,
    <1>12, <1>13, <1>14, <1>15, <1>16, <1>17, <1>18, <1>19, <1>20, <1>21,
    <1>22, <1>23 DEF Next, ProcessStep, WorkStep

(* No thread exists before its process serves requests.                    *)
LEMMA StartStep ==
  ASSUME TypeOK, StartInv, Next
  PROVE  StartInv'
<1> USE JobsAssumption
  DEF TypeOK, Live, Serving, Goto, SetRow, Committed, Fenced, GiveBack,
      DropThreads, AfterFinish, StoreReply, fenceVars, memVars, rowVars,
      taskVars, settings, Fence!Takeover, Fence!FencedCommit, Unfinished,
      Terminal, StartInv
<1>0. UNCHANGED settings BY DEF Next
<1>1. ASSUME NEW p \in Process, Takeover(p)
      PROVE  StartInv'
  BY <1>0, <1>1 DEF Takeover
<1>2. ASSUME NEW p \in Process, RecoverBatch(p)
      PROVE  StartInv'
  BY <1>0, <1>2 DEF RecoverBatch
<1>3. ASSUME NEW p \in Process, RecoverFails(p)
      PROVE  StartInv'
  BY <1>0, <1>3 DEF RecoverFails
<1>4. ASSUME NEW p \in Process, LoseLease(p)
      PROVE  StartInv'
  BY <1>0, <1>4 DEF LoseLease
<1>5. ASSUME NEW p \in Process, Crash(p)
      PROVE  StartInv'
  BY <1>0, <1>5 DEF Crash
<1>6. ASSUME NEW p \in Process, ShutdownStep(p)
      PROVE  StartInv'
  BY <1>0, <1>6 DEF ShutdownStep
<1>7. ASSUME NEW p \in Process, Exit(p)
      PROVE  StartInv'
  BY <1>0, <1>7 DEF Exit
<1>8. ASSUME NEW p \in Process, NEW j \in Job, Reserve(p, j)
      PROVE  StartInv'
  BY <1>0, <1>8 DEF Reserve
<1>9. ASSUME NEW p \in Process, NEW j \in Job, Delete(p, j)
      PROVE  StartInv'
  BY <1>0, <1>9 DEF Delete
<1>10. ASSUME NEW p \in Process, NEW j \in Job, CreateCommits(p, j)
      PROVE  StartInv'
  BY <1>0, <1>10 DEF CreateCommits
<1>11. ASSUME NEW p \in Process, NEW j \in Job, CreateFails(p, j)
      PROVE  StartInv'
  BY <1>0, <1>11 DEF CreateFails
<1>12. ASSUME NEW p \in Process, NEW j \in Job, CreateAckLost(p, j)
      PROVE  StartInv'
  BY <1>0, <1>12 DEF CreateAckLost
<1>13. ASSUME NEW p \in Process, NEW j \in Job, Submit(p, j)
      PROVE  StartInv'
  BY <1>0, <1>13 DEF Submit
<1>14. ASSUME NEW p \in Process, NEW j \in Job, Look(p, j)
      PROVE  StartInv'
  BY <1>0, <1>14 DEF Look
<1>15. ASSUME NEW p \in Process, NEW j \in Job, Claim(p, j)
      PROVE  StartInv'
  BY <1>0, <1>15 DEF Claim
<1>16. ASSUME NEW p \in Process, NEW j \in Job, ClaimFails(p, j)
      PROVE  StartInv'
  BY <1>0, <1>16 DEF ClaimFails
<1>17. ASSUME NEW p \in Process, NEW j \in Job, Execute(p, j)
      PROVE  StartInv'
  BY <1>0, <1>17 DEF Execute
<1>18. ASSUME NEW p \in Process, NEW j \in Job, ExecuteRaises(p, j)
      PROVE  StartInv'
  BY <1>0, <1>18 DEF ExecuteRaises
<1>19. ASSUME NEW p \in Process, NEW j \in Job, RunExcept(p, j)
      PROVE  StartInv'
  BY <1>0, <1>19 DEF RunExcept
<1>20. ASSUME NEW p \in Process, NEW j \in Job, Finish(p, j)
      PROVE  StartInv'
  BY <1>0, <1>20 DEF Finish
<1>21. ASSUME NEW p \in Process, NEW j \in Job, FinishFenced(p, j)
      PROVE  StartInv'
  BY <1>0, <1>21 DEF FinishFenced
<1>22. ASSUME NEW p \in Process, NEW j \in Job, FinishFails(p, j)
      PROVE  StartInv'
  BY <1>0, <1>22 DEF FinishFails
<1>23. ASSUME NEW p \in Process, NEW j \in Job, Release(p, j)
      PROVE  StartInv'
  BY <1>0, <1>23 DEF Release
<1> QED BY <1>1, <1>2, <1>3, <1>4, <1>5, <1>6, <1>7, <1>8, <1>9, <1>10, <1>11,
    <1>12, <1>13, <1>14, <1>15, <1>16, <1>17, <1>18, <1>19, <1>20, <1>21,
    <1>22, <1>23 DEF Next, ProcessStep, WorkStep

(* Taking over starts a recovery; its last batch leaves nothing unfinished,*)
(* and from then on only the writer's own threads open rows.               *)
LEMMA RecoveredStep ==
  ASSUME TypeOK, PlaceInv, OpenInv, RecoveredInv, Next
  PROVE  RecoveredInv'
<1> USE JobsAssumption
  DEF TypeOK, Live, Serving, Goto, SetRow, Committed, Fenced, GiveBack,
      DropThreads, AfterFinish, StoreReply, fenceVars, memVars, rowVars,
      taskVars, settings, Fence!Takeover, Fence!FencedCommit, Unfinished,
      Terminal, PlaceInv, RecoveredInv, Open, OpenInv
<1>0. UNCHANGED settings BY DEF Next
<1>1. ASSUME NEW p \in Process, Takeover(p)
      PROVE  RecoveredInv'
  BY <1>0, <1>1 DEF Takeover
<1>2. ASSUME NEW p \in Process, RecoverBatch(p)
      PROVE  RecoveredInv'
  <2>1. p = writer /\ UNCHANGED <<writer, by>>
    BY <1>2 DEF RecoverBatch
  <2>2. CASE UNCHANGED phase
    BY <1>2, <2>1, <2>2 DEF RecoverBatch
  <2>3. CASE ~UNCHANGED phase
    <3>1. PICK S \in SUBSET Open :
            /\ Cardinality(S) = Cardinality(Open)
            /\ row' = [i \in Job |-> IF i \in S THEN "FAILED" ELSE row[i]]
      BY <1>2, <2>3 DEF RecoverBatch, Open
    <3>2. S = Open BY <3>1, FS_Subset DEF OpenInv
    <3>3. \A i \in Job : row'[i] \notin Unfinished BY <3>1, <3>2
    <3> QED BY <3>3
  <2> QED BY <2>2, <2>3
<1>3. ASSUME NEW p \in Process, RecoverFails(p)
      PROVE  RecoveredInv'
  BY <1>0, <1>3 DEF RecoverFails
<1>4. ASSUME NEW p \in Process, LoseLease(p)
      PROVE  RecoveredInv'
  BY <1>0, <1>4 DEF LoseLease
<1>5. ASSUME NEW p \in Process, Crash(p)
      PROVE  RecoveredInv'
  BY <1>0, <1>5 DEF Crash
<1>6. ASSUME NEW p \in Process, ShutdownStep(p)
      PROVE  RecoveredInv'
  BY <1>0, <1>6 DEF ShutdownStep
<1>7. ASSUME NEW p \in Process, Exit(p)
      PROVE  RecoveredInv'
  BY <1>0, <1>7 DEF Exit
<1>8. ASSUME NEW p \in Process, NEW j \in Job, Reserve(p, j)
      PROVE  RecoveredInv'
  BY <1>0, <1>8 DEF Reserve
<1>9. ASSUME NEW p \in Process, NEW j \in Job, Delete(p, j)
      PROVE  RecoveredInv'
  BY <1>0, <1>9 DEF Delete
<1>10. ASSUME NEW p \in Process, NEW j \in Job, CreateCommits(p, j)
      PROVE  RecoveredInv'
  BY <1>0, <1>10 DEF CreateCommits
<1>11. ASSUME NEW p \in Process, NEW j \in Job, CreateFails(p, j)
      PROVE  RecoveredInv'
  BY <1>0, <1>11 DEF CreateFails
<1>12. ASSUME NEW p \in Process, NEW j \in Job, CreateAckLost(p, j)
      PROVE  RecoveredInv'
  BY <1>0, <1>12 DEF CreateAckLost
<1>13. ASSUME NEW p \in Process, NEW j \in Job, Submit(p, j)
      PROVE  RecoveredInv'
  BY <1>0, <1>13 DEF Submit
<1>14. ASSUME NEW p \in Process, NEW j \in Job, Look(p, j)
      PROVE  RecoveredInv'
  BY <1>0, <1>14 DEF Look
<1>15. ASSUME NEW p \in Process, NEW j \in Job, Claim(p, j)
      PROVE  RecoveredInv'
  BY <1>0, <1>15 DEF Claim
<1>16. ASSUME NEW p \in Process, NEW j \in Job, ClaimFails(p, j)
      PROVE  RecoveredInv'
  BY <1>0, <1>16 DEF ClaimFails
<1>17. ASSUME NEW p \in Process, NEW j \in Job, Execute(p, j)
      PROVE  RecoveredInv'
  BY <1>0, <1>17 DEF Execute
<1>18. ASSUME NEW p \in Process, NEW j \in Job, ExecuteRaises(p, j)
      PROVE  RecoveredInv'
  BY <1>0, <1>18 DEF ExecuteRaises
<1>19. ASSUME NEW p \in Process, NEW j \in Job, RunExcept(p, j)
      PROVE  RecoveredInv'
  BY <1>0, <1>19 DEF RunExcept
<1>20. ASSUME NEW p \in Process, NEW j \in Job, Finish(p, j)
      PROVE  RecoveredInv'
  BY <1>0, <1>20 DEF Finish
<1>21. ASSUME NEW p \in Process, NEW j \in Job, FinishFenced(p, j)
      PROVE  RecoveredInv'
  BY <1>0, <1>21 DEF FinishFenced
<1>22. ASSUME NEW p \in Process, NEW j \in Job, FinishFails(p, j)
      PROVE  RecoveredInv'
  BY <1>0, <1>22 DEF FinishFails
<1>23. ASSUME NEW p \in Process, NEW j \in Job, Release(p, j)
      PROVE  RecoveredInv'
  BY <1>0, <1>23 DEF Release
<1> QED BY <1>1, <1>2, <1>3, <1>4, <1>5, <1>6, <1>7, <1>8, <1>9, <1>10, <1>11,
    <1>12, <1>13, <1>14, <1>15, <1>16, <1>17, <1>18, <1>19, <1>20, <1>21,
    <1>22, <1>23 DEF Next, ProcessStep, WorkStep

(* Between _run()'s read and its write only the route that deletes an      *)
(* analysis can touch the row.                                             *)
LEMMA ClaimStep ==
  ASSUME TypeOK, PlaceInv, StartInv, ClaimInv, Next
  PROVE  ClaimInv'
<1> USE JobsAssumption
  DEF TypeOK, Live, Serving, Goto, SetRow, Committed, Fenced, GiveBack,
      DropThreads, AfterFinish, StoreReply, fenceVars, memVars, rowVars,
      taskVars, settings, Fence!Takeover, Fence!FencedCommit, Unfinished,
      Terminal, PlaceInv, StartInv, ClaimInv
<1>0. UNCHANGED settings BY DEF Next
<1>1. ASSUME NEW p \in Process, Takeover(p)
      PROVE  ClaimInv'
  BY <1>0, <1>1 DEF Takeover
<1>2. ASSUME NEW p \in Process, RecoverBatch(p)
      PROVE  ClaimInv'
  BY <1>0, <1>2 DEF RecoverBatch
<1>3. ASSUME NEW p \in Process, RecoverFails(p)
      PROVE  ClaimInv'
  BY <1>0, <1>3 DEF RecoverFails
<1>4. ASSUME NEW p \in Process, LoseLease(p)
      PROVE  ClaimInv'
  BY <1>0, <1>4 DEF LoseLease
<1>5. ASSUME NEW p \in Process, Crash(p)
      PROVE  ClaimInv'
  BY <1>0, <1>5 DEF Crash
<1>6. ASSUME NEW p \in Process, ShutdownStep(p)
      PROVE  ClaimInv'
  BY <1>0, <1>6 DEF ShutdownStep
<1>7. ASSUME NEW p \in Process, Exit(p)
      PROVE  ClaimInv'
  BY <1>0, <1>7 DEF Exit
<1>8. ASSUME NEW p \in Process, NEW j \in Job, Reserve(p, j)
      PROVE  ClaimInv'
  BY <1>0, <1>8 DEF Reserve
<1>9. ASSUME NEW p \in Process, NEW j \in Job, Delete(p, j)
      PROVE  ClaimInv'
  BY <1>0, <1>9 DEF Delete
<1>10. ASSUME NEW p \in Process, NEW j \in Job, CreateCommits(p, j)
      PROVE  ClaimInv'
  BY <1>0, <1>10 DEF CreateCommits
<1>11. ASSUME NEW p \in Process, NEW j \in Job, CreateFails(p, j)
      PROVE  ClaimInv'
  BY <1>0, <1>11 DEF CreateFails
<1>12. ASSUME NEW p \in Process, NEW j \in Job, CreateAckLost(p, j)
      PROVE  ClaimInv'
  BY <1>0, <1>12 DEF CreateAckLost
<1>13. ASSUME NEW p \in Process, NEW j \in Job, Submit(p, j)
      PROVE  ClaimInv'
  BY <1>0, <1>13 DEF Submit
<1>14. ASSUME NEW p \in Process, NEW j \in Job, Look(p, j)
      PROVE  ClaimInv'
  BY <1>0, <1>14 DEF Look
<1>15. ASSUME NEW p \in Process, NEW j \in Job, Claim(p, j)
      PROVE  ClaimInv'
  BY <1>0, <1>15 DEF Claim
<1>16. ASSUME NEW p \in Process, NEW j \in Job, ClaimFails(p, j)
      PROVE  ClaimInv'
  BY <1>0, <1>16 DEF ClaimFails
<1>17. ASSUME NEW p \in Process, NEW j \in Job, Execute(p, j)
      PROVE  ClaimInv'
  BY <1>0, <1>17 DEF Execute
<1>18. ASSUME NEW p \in Process, NEW j \in Job, ExecuteRaises(p, j)
      PROVE  ClaimInv'
  BY <1>0, <1>18 DEF ExecuteRaises
<1>19. ASSUME NEW p \in Process, NEW j \in Job, RunExcept(p, j)
      PROVE  ClaimInv'
  BY <1>0, <1>19 DEF RunExcept
<1>20. ASSUME NEW p \in Process, NEW j \in Job, Finish(p, j)
      PROVE  ClaimInv'
  BY <1>0, <1>20 DEF Finish
<1>21. ASSUME NEW p \in Process, NEW j \in Job, FinishFenced(p, j)
      PROVE  ClaimInv'
  BY <1>0, <1>21 DEF FinishFenced
<1>22. ASSUME NEW p \in Process, NEW j \in Job, FinishFails(p, j)
      PROVE  ClaimInv'
  BY <1>0, <1>22 DEF FinishFails
<1>23. ASSUME NEW p \in Process, NEW j \in Job, Release(p, j)
      PROVE  ClaimInv'
  BY <1>0, <1>23 DEF Release
<1> QED BY <1>1, <1>2, <1>3, <1>4, <1>5, <1>6, <1>7, <1>8, <1>9, <1>10, <1>11,
    <1>12, <1>13, <1>14, <1>15, <1>16, <1>17, <1>18, <1>19, <1>20, <1>21,
    <1>22, <1>23 DEF Next, ProcessStep, WorkStep

(* Recovery does not reach a row of the writer unless requests are served  *)
(* while it runs.                                                          *)
LEMMA RestartStep ==
  ASSUME TypeOK, PlaceInv, StartInv, LateHttpSparesFreshWork, Next
  PROVE  LateHttpSparesFreshWork'
<1> USE JobsAssumption
  DEF TypeOK, Live, Serving, Goto, SetRow, Committed, Fenced, GiveBack,
      DropThreads, AfterFinish, StoreReply, fenceVars, memVars, rowVars,
      taskVars, settings, Fence!Takeover, Fence!FencedCommit, Unfinished,
      Terminal, PlaceInv, StartInv, LateHttpSparesFreshWork,
      RecoverySparesFreshWork
<1>0. UNCHANGED settings BY DEF Next
<1>1. ASSUME NEW p \in Process, Takeover(p)
      PROVE  LateHttpSparesFreshWork'
  BY <1>0, <1>1 DEF Takeover
<1>2. ASSUME NEW p \in Process, RecoverBatch(p)
      PROVE  LateHttpSparesFreshWork'
  BY <1>0, <1>2 DEF RecoverBatch
<1>3. ASSUME NEW p \in Process, RecoverFails(p)
      PROVE  LateHttpSparesFreshWork'
  BY <1>0, <1>3 DEF RecoverFails
<1>4. ASSUME NEW p \in Process, LoseLease(p)
      PROVE  LateHttpSparesFreshWork'
  BY <1>0, <1>4 DEF LoseLease
<1>5. ASSUME NEW p \in Process, Crash(p)
      PROVE  LateHttpSparesFreshWork'
  BY <1>0, <1>5 DEF Crash
<1>6. ASSUME NEW p \in Process, ShutdownStep(p)
      PROVE  LateHttpSparesFreshWork'
  BY <1>0, <1>6 DEF ShutdownStep
<1>7. ASSUME NEW p \in Process, Exit(p)
      PROVE  LateHttpSparesFreshWork'
  BY <1>0, <1>7 DEF Exit
<1>8. ASSUME NEW p \in Process, NEW j \in Job, Reserve(p, j)
      PROVE  LateHttpSparesFreshWork'
  BY <1>0, <1>8 DEF Reserve
<1>9. ASSUME NEW p \in Process, NEW j \in Job, Delete(p, j)
      PROVE  LateHttpSparesFreshWork'
  BY <1>0, <1>9 DEF Delete
<1>10. ASSUME NEW p \in Process, NEW j \in Job, CreateCommits(p, j)
      PROVE  LateHttpSparesFreshWork'
  BY <1>0, <1>10 DEF CreateCommits
<1>11. ASSUME NEW p \in Process, NEW j \in Job, CreateFails(p, j)
      PROVE  LateHttpSparesFreshWork'
  BY <1>0, <1>11 DEF CreateFails
<1>12. ASSUME NEW p \in Process, NEW j \in Job, CreateAckLost(p, j)
      PROVE  LateHttpSparesFreshWork'
  BY <1>0, <1>12 DEF CreateAckLost
<1>13. ASSUME NEW p \in Process, NEW j \in Job, Submit(p, j)
      PROVE  LateHttpSparesFreshWork'
  BY <1>0, <1>13 DEF Submit
<1>14. ASSUME NEW p \in Process, NEW j \in Job, Look(p, j)
      PROVE  LateHttpSparesFreshWork'
  BY <1>0, <1>14 DEF Look
<1>15. ASSUME NEW p \in Process, NEW j \in Job, Claim(p, j)
      PROVE  LateHttpSparesFreshWork'
  BY <1>0, <1>15 DEF Claim
<1>16. ASSUME NEW p \in Process, NEW j \in Job, ClaimFails(p, j)
      PROVE  LateHttpSparesFreshWork'
  BY <1>0, <1>16 DEF ClaimFails
<1>17. ASSUME NEW p \in Process, NEW j \in Job, Execute(p, j)
      PROVE  LateHttpSparesFreshWork'
  BY <1>0, <1>17 DEF Execute
<1>18. ASSUME NEW p \in Process, NEW j \in Job, ExecuteRaises(p, j)
      PROVE  LateHttpSparesFreshWork'
  BY <1>0, <1>18 DEF ExecuteRaises
<1>19. ASSUME NEW p \in Process, NEW j \in Job, RunExcept(p, j)
      PROVE  LateHttpSparesFreshWork'
  BY <1>0, <1>19 DEF RunExcept
<1>20. ASSUME NEW p \in Process, NEW j \in Job, Finish(p, j)
      PROVE  LateHttpSparesFreshWork'
  BY <1>0, <1>20 DEF Finish
<1>21. ASSUME NEW p \in Process, NEW j \in Job, FinishFenced(p, j)
      PROVE  LateHttpSparesFreshWork'
  BY <1>0, <1>21 DEF FinishFenced
<1>22. ASSUME NEW p \in Process, NEW j \in Job, FinishFails(p, j)
      PROVE  LateHttpSparesFreshWork'
  BY <1>0, <1>22 DEF FinishFails
<1>23. ASSUME NEW p \in Process, NEW j \in Job, Release(p, j)
      PROVE  LateHttpSparesFreshWork'
  BY <1>0, <1>23 DEF Release
<1> QED BY <1>1, <1>2, <1>3, <1>4, <1>5, <1>6, <1>7, <1>8, <1>9, <1>10, <1>11,
    <1>12, <1>13, <1>14, <1>15, <1>16, <1>17, <1>18, <1>19, <1>20, <1>21,
    <1>22, <1>23 DEF Next, ProcessStep, WorkStep

(* The set of unfinished rows grows by one row at a time.                  *)
LEMMA OpenStep ==
  ASSUME TypeOK, OpenInv, Next
  PROVE  OpenInv'
<1>1. ASSUME NEW j \in Job, Open' \subseteq Open \cup {j}
      PROVE  OpenInv'
  BY <1>1, FS_AddElement, FS_Subset DEF OpenInv
<1>2. ASSUME Open' \subseteq Open PROVE OpenInv'
  BY <1>2, FS_Subset DEF OpenInv
<1>3. ASSUME NEW p \in Process, ProcessStep(p) PROVE OpenInv'
  <2>1. Open' \subseteq Open
    BY <1>3
      DEF ProcessStep, Takeover, RecoverBatch, RecoverFails, LoseLease, Crash,
       ShutdownStep, Exit, rowVars, Open, Unfinished
  <2> QED BY <1>2, <2>1
<1>4. ASSUME NEW p \in Process, NEW j \in Job,
             Reserve(p, j) \/ Delete(p, j) \/ WorkStep(p, j)
      PROVE  OpenInv'
  <2>1. row' = row \/ \E s \in Row : SetRow(j, s)
    BY <1>4
      DEF Reserve, Delete, WorkStep, CreateCommits, CreateFails, CreateAckLost,
       Submit, Look, Claim, ClaimFails, Execute, ExecuteRaises, RunExcept,
       Finish, FinishFenced, FinishFails, Release, StoreReply, SetRow,
       rowVars, memVars, Row, Unfinished, Terminal
  <2>2. Open' \subseteq Open \cup {j}
    BY <2>1 DEF SetRow, Open, TypeOK
  <2> QED BY <1>1, <2>2
<1> QED BY <1>3, <1>4 DEF Next

-----------------------------------------------------------------------------
(* What a step of a thread does to the sets of slot holders.               *)
Idle == {"none", "limbo"}

(* What a step of one thread does to the slots of each process.            *)
LEMMA ThreadMoves ==
  ASSUME TypeOK, NEW p \in Process, NEW j \in Job, NEW t \in Task,
         by[j] = p, task[j] \notin Idle, by' = by, Goto(j, t)
  PROVE  /\ j \in Holders(p)
         /\ Holders(p)' = IF t \in Idle THEN Holders(p) \ {j} ELSE Holders(p)
         /\ \A q \in Process : q # p => Holders(q)' = Holders(q)
  BY DEF TypeOK, Goto, Holders, Idle

(* The ways in which the slots of a process go on agreeing.                *)
LEMMA SlotsKept ==
  ASSUME NEW p \in Process, SlotsAgree(p), Holders(p)' = Holders(p),
         free'[p] = free[p], phase'[p] # "down" => phase[p] # "down"
  PROVE  SlotsAgree(p)'
  BY DEF SlotsAgree

(* Giving a slot back removes one holder.                                  *)
LEMMA SlotReturned ==
  ASSUME TypeOK, NEW p \in Process, SlotsAgree(p), NEW j \in Holders(p),
         Holders(p)' = Holders(p) \ {j}, GiveBack(p), phase' = phase
  PROVE  SlotsAgree(p)'
<1>1. /\ IsFiniteSet(Holders(p)')
      /\ Cardinality(Holders(p)') = Cardinality(Holders(p)) - 1
  BY FS_RemoveElement DEF SlotsAgree
<1>2. Cardinality(Holders(p)) \in Nat BY FS_CardinalityType DEF SlotsAgree
<1>3. free'[p] = free[p] + 1 BY DEF GiveBack, TypeOK
<1>4. free[p] \in Int BY DEF TypeOK
<1> QED BY <1>1, <1>2, <1>3, <1>4, JobsAssumption DEF SlotsAgree

(* Every step that changes the semaphore changes the holders alike.        *)
LEMMA SlotStep ==
  ASSUME TypeOK, PlaceInv, StartInv, SlotInv, Next
  PROVE  SlotInv'
<1>1. ASSUME UNCHANGED <<task, by, free>>,
             \A q \in Process : phase'[q] # "down" => phase[q] # "down"
      PROVE  SlotInv'
  <2>1. \A q \in Process : Holders(q)' = Holders(q) BY <1>1 DEF Holders
  <2> QED BY <1>1, <2>1, SlotsKept DEF SlotInv
<1>2. ASSUME NEW p \in Process, DropThreads(p), free' = free,
             phase' = [phase EXCEPT ![p] = "down"]
      PROVE  SlotInv'
  <2>1. Holders(p)' = {} BY <1>2 DEF DropThreads, Holders, TypeOK
  <2>2. \A q \in Process : q # p => Holders(q)' = Holders(q)
    BY <1>2 DEF DropThreads, Holders, TypeOK
  <2>3. SlotsAgree(p)' BY <1>2, <2>1, FS_EmptySet DEF SlotsAgree, TypeOK
  <2>4. ASSUME NEW q \in Process, q # p PROVE SlotsAgree(q)'
    BY <1>2, <2>2, <2>4, SlotsKept DEF SlotInv, TypeOK
  <2> QED BY <2>3, <2>4 DEF SlotInv
<1>3. ASSUME NEW p \in Process, ProcessStep(p) PROVE SlotInv'
  <2>1. CASE Takeover(p) \/ RecoverBatch(p) \/ LoseLease(p) \/ ShutdownStep(p)
    <3>1. UNCHANGED <<task, by, free>>
      BY <2>1 DEF Takeover, RecoverBatch, LoseLease, ShutdownStep, taskVars
    <3>2. \A q \in Process : phase'[q] # "down" => phase[q] # "down"
      BY <2>1 DEF Takeover, RecoverBatch, LoseLease, ShutdownStep, TypeOK
    <3> QED BY <1>1, <3>1, <3>2
  <2>2. CASE RecoverFails(p) \/ Crash(p) \/ Exit(p)
    BY <1>2, <2>2 DEF RecoverFails, Crash, Exit
  <2> QED BY <1>3, <2>1, <2>2 DEF ProcessStep
<1>4. ASSUME NEW p \in Process, NEW j \in Job, NEW t \in Task \ Idle,
             by[j] = p, task[j] \notin Idle, by' = by, Goto(j, t),
             free' = free, phase' = phase
      PROVE  SlotInv'
  BY <1>4, ThreadMoves, SlotsKept DEF SlotInv
<1>5. ASSUME NEW p \in Process, NEW j \in Job, NEW t \in Idle,
             by[j] = p, task[j] \notin Idle, by' = by, Goto(j, t),
             GiveBack(p), phase' = phase
      PROVE  SlotInv'
  <2>1. t \in Task BY DEF Idle, Task
  <2>2. SlotsAgree(p)' BY <1>5, <2>1, ThreadMoves, SlotReturned DEF SlotInv
  <2>3. ASSUME NEW q \in Process, q # p PROVE SlotsAgree(q)'
    <3>1. Holders(q)' = Holders(q) BY <1>5, <2>1, <2>3, ThreadMoves
    <3>2. free'[q] = free[q] BY <1>5, <2>3 DEF GiveBack, TypeOK
    <3> QED BY <1>5, <3>1, <3>2, SlotsKept DEF SlotInv
  <2> QED BY <2>2, <2>3 DEF SlotInv
<1>6. ASSUME NEW p \in Process, NEW j \in Job, Reserve(p, j) PROVE SlotInv'
  <2>1. /\ j \notin Holders(p)
        /\ Holders(p)' = Holders(p) \cup {j}
        /\ \A q \in Process : q # p => Holders(q)' = Holders(q)
    BY <1>6 DEF Reserve, Goto, Holders, TypeOK
  <2>2. /\ IsFiniteSet(Holders(p)')
        /\ Cardinality(Holders(p)') = Cardinality(Holders(p)) + 1
    BY <2>1, FS_AddElement DEF SlotInv, SlotsAgree
  <2>3. Cardinality(Holders(p)) \in Nat
    BY FS_CardinalityType DEF SlotInv, SlotsAgree
  <2>4. free'[p] = free[p] - 1 /\ free[p] \in Int /\ phase' = phase
    BY <1>6 DEF Reserve, TypeOK
  <2>5. SlotsAgree(p)'
    BY <2>2, <2>3, <2>4, JobsAssumption DEF SlotInv, SlotsAgree
  <2>6. ASSUME NEW q \in Process, q # p PROVE SlotsAgree(q)'
    <3>1. free'[q] = free[q] BY <1>6, <2>6 DEF Reserve, TypeOK
    <3> QED BY <2>1, <2>4, <2>6, <3>1, SlotsKept DEF SlotInv
  <2> QED BY <2>5, <2>6 DEF SlotInv
<1>7. ASSUME NEW p \in Process, NEW j \in Job, Delete(p, j) PROVE SlotInv'
  <2>1. UNCHANGED <<task, by, free, phase>>
    BY <1>7 DEF Delete, memVars, taskVars
  <2> QED BY <1>1, <2>1
<1>8. ASSUME NEW p \in Process, NEW j \in Job, WorkStep(p, j) PROVE SlotInv'
  <2>1. by[j] = p /\ task[j] \notin Idle /\ by' = by /\ phase' = phase
    BY <1>8 DEF WorkStep, CreateCommits, CreateFails, CreateAckLost,
       Submit, Look, Claim, ClaimFails, Execute, ExecuteRaises, RunExcept,
       Finish, FinishFenced, FinishFails, Release, memVars, Idle
  <2>2. \/ free' = free /\ \E t \in Task \ Idle : Goto(j, t)
        \/ GiveBack(p) /\ \E t \in Idle : Goto(j, t)
        \/ UNCHANGED <<free, task>>
    BY <1>8 DEF WorkStep, CreateCommits, CreateFails, CreateAckLost,
       Submit, Look, Claim, ClaimFails, Execute, ExecuteRaises, RunExcept,
       Finish, FinishFenced, FinishFails, Release, AfterFinish, memVars, Idle,
       Task, InRequest, InExecutor, InWorker
  <2>3. CASE UNCHANGED <<free, task>> BY <1>1, <2>1, <2>3
  <2> QED BY <1>4, <1>5, <2>1, <2>2, <2>3
<1> QED BY <1>3, <1>6, <1>7, <1>8 DEF Next

-----------------------------------------------------------------------------
(* At first no process has started and no row is unfinished.               *)
LEMMA InitIInv == Init => IInv
<1> SUFFICES ASSUME Init PROVE IInv OBVIOUS
<1> USE JobsAssumption DEF Init, Fence!Init
<1>1. PICK s \in Scene :
        /\ phase = [p \in Process |-> IF p \in s.ahead THEN "off" ELSE "down"]
        /\ row = [j \in Job |-> IF j \in s.coming THEN "absent" ELSE "deleted"]
        /\ earlyHttp = s.earlyHttp /\ dbErrors = s.dbErrors
  OBVIOUS
<1>2. earlyHttp \in BOOLEAN /\ dbErrors \in BOOLEAN BY <1>1
<1>3. TypeOK BY <1>1, <1>2 DEF TypeOK, Phase, Row, Task, Attempts
<1>4. PlaceInv BY <1>1 DEF PlaceInv, Unfinished
<1>5. OrphanInv /\ StartInv /\ RecoveredInv /\ ClaimInv
  BY <1>1 DEF OrphanInv, StartInv, RecoveredInv, ClaimInv, Unfinished
<1>6. LateHttpSparesFreshWork
  BY DEF LateHttpSparesFreshWork, RecoverySparesFreshWork
<1>7. OpenInv
  <2>1. Open = {} BY <1>1 DEF Open, Unfinished
  <2> QED BY <2>1, FS_EmptySet DEF OpenInv
<1>8. SlotInv
  <2> SUFFICES ASSUME NEW p \in Process PROVE SlotsAgree(p) BY DEF SlotInv
  <2>1. Holders(p) = {} BY DEF Holders
  <2>2. IsFiniteSet(Holders(p)) /\ Cardinality(Holders(p)) = 0
    BY <2>1, FS_EmptySet
  <2>3. free[p] = MaxJobs /\ MaxJobs \in Nat OBVIOUS
  <2>4. free[p] + Cardinality(Holders(p)) = MaxJobs BY <2>2, <2>3
  <2> QED BY <2>2, <2>4 DEF SlotsAgree
<1> QED BY <1>3, <1>4, <1>5, <1>6, <1>7, <1>8 DEF IInv

(* Every step preserves the inductive invariant.                           *)
LEMMA StepIInv == IInv /\ [Next]_vars => IInv'
<1> SUFFICES ASSUME IInv, [Next]_vars PROVE IInv' OBVIOUS
<1>1. CASE Next
  BY <1>1, TypeStep, PlaceStep, OrphanStep, StartStep, RecoveredStep,
     ClaimStep, RestartStep, OpenStep, SlotStep DEF IInv
<1>2. CASE UNCHANGED vars
  BY <1>2 DEF vars, moving, settings, fenceVars, memVars, rowVars, taskVars,
     IInv, TypeOK, PlaceInv, OrphanInv, StartInv, RecoveredInv, ClaimInv,
     LateHttpSparesFreshWork, RecoverySparesFreshWork, OpenInv, Open, SlotInv,
     SlotsAgree, Holders, Live
<1> QED BY <1>1, <1>2

(* The inductive invariant holds in every reachable state.                 *)
THEOREM InvariantHolds == Spec => []IInv
  BY InitIInv, StepIInv, PTL DEF Spec

(* Every variable of the queue has its type; the semaphore never exceeds   *)
(* its bound.                                                              *)
THEOREM TypeCorrect == Spec => []TypeOK
  BY InvariantHolds, PTL DEF IInv

(* JobManager.slots: no path gives a slot back twice or keeps it.          *)
THEOREM SlotsAreCounted == Spec => []SlotsMatchHolders
<1>1. IInv => SlotsMatchHolders
  BY DEF IInv, SlotInv, SlotsAgree, SlotsMatchHolders, Live
<1> QED BY <1>1, InvariantHolds, PTL

(* After recovery, an unfinished row has a thread of the writer, or the    *)
(* writer reports the failure.                                             *)
THEOREM NothingIsOrphaned == Spec => []NoOrphan
<1>1. IInv => NoOrphan
  BY JobsAssumption DEF IInv, TypeOK, OrphanInv, RecoveredInv, NoOrphan
<1> QED BY <1>1, InvariantHolds, PTL

(* Unless requests are served meanwhile, recovery spares the writer's work.*)
THEOREM RecoveryIsSelective == Spec => []LateHttpSparesFreshWork
  BY InvariantHolds, PTL DEF IInv

(* Only the transactions of _run() and finish() could rewrite a row.       *)
LEMMA TerminalStep ==
  ASSUME IInv, Next, ~earlyHttp, NEW i \in Job,
         row[i] \in Terminal \cup {"deleted"}
  PROVE  row'[i] \in {row[i], "deleted"}
<1> USE DEF IInv, TypeOK, Terminal, Unfinished, SetRow
<1>1. ASSUME NEW p \in Process, ProcessStep(p)
      PROVE  row'[i] = row[i]
  BY <1>1 DEF ProcessStep, Takeover, RecoverBatch, RecoverFails, LoseLease,
     Crash, ShutdownStep, Exit, rowVars
<1>2. ASSUME NEW p \in Process, NEW j \in Job,
             Reserve(p, j) \/ Delete(p, j) \/ WorkStep(p, j)
      PROVE  row'[i] \in {row[i], "deleted"}
  <2>1. CASE Delete(p, j) BY <2>1 DEF Delete
  <2>2. CASE CreateCommits(p, j) \/ CreateAckLost(p, j)
    BY <2>2 DEF CreateCommits, CreateAckLost, PlaceInv
  <2>3. CASE Claim(p, j) \/ ClaimFails(p, j)
    <3>1. i = j /\ row' # row => task[j] = "claiming" /\ by[j] = writer
      BY <2>3 DEF Claim, ClaimFails, Committed, Fence!FencedCommit
    <3> QED BY <2>3, <3>1 DEF Claim, ClaimFails, ClaimInv
  <2>4. CASE Finish(p, j) \/ FinishFails(p, j)
    BY <2>4 DEF Finish, FinishFails, StoreReply
  <2>5. CASE row' = row BY <2>5
  <2> QED
    BY <1>2, <2>1, <2>2, <2>3, <2>4, <2>5
    DEF WorkStep, Reserve, CreateFails, Submit, Look, Execute, ExecuteRaises,
        RunExcept, FinishFenced, Release, rowVars
<1> QED BY <1>1, <1>2 DEF Next

(* A terminal row keeps its outcome until it is deleted.                   *)
THEOREM OutcomesAreFinal == Spec => TerminalIsFinal
<1>1. IInv /\ [Next]_vars =>
        [~earlyHttp => \A j \in Job : row[j] \in Terminal \cup {"deleted"}
                                      => row'[j] \in {row[j], "deleted"}]_vars
  BY TerminalStep
<1> QED BY <1>1, InvariantHolds, PTL DEF Spec, TerminalIsFinal

(* shutdown(wait=True): nothing a graceful exit leaves behind is unfinished*)
(* but what a request was told to have failed.                             *)
THEOREM ExitsSettle == Spec => GracefulExitSettles
<1> DEFINE Settles ==
      \A p \in Process :
         /\ Exit(p) /\ ~lost[p] /\ ~broken[p]
         /\ \A j \in Holders(p) : task[j] \notin InRequest
         => \A j \in Job :
               by[j] = p /\ task[j] # "limbo" => row[j] \notin Unfinished
<1>1. IInv => Settles
  BY DEF IInv, TypeOK, OrphanInv, Exit, Holders, Task, InExecutor
<1>2. IInv /\ [Next]_vars => [Settles]_vars BY <1>1
<1> QED BY <1>2, InvariantHolds, PTL DEF Spec, GracefulExitSettles
=============================================================================
