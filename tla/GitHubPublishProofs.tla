------------------------ MODULE GitHubPublishProofs ------------------------
(***************************************************************************)
(* Proofs about GitHubPublish, for any number of server processes and of   *)
(* runs on the pull request.                                               *)
(*                                                                         *)
(* The difficulty is that a process which lost the lease still talks to    *)
(* the provider.  The argument: a mark is committed by the writer before a *)
(* POST, is read by every later writer after it took over, and is taken    *)
(* back only when the object has been seen; so at most one process is ever *)
(* about to POST (CheckInv, CommentInv), and what the others may still     *)
(* send was computed from rows that no longer change (JobInv, TellInv).    *)
(***************************************************************************)
EXTENDS GitHubPublish, TLAPS

(* Only a process that is ready has a task, and the task has a run.        *)
TaskInv ==
    \A p \in Process :
        /\ stage[p] # "idle" => phase[p] = "ready" /\ target[p] \in Run
        /\ stage[p] = "idle" => conclusion[p] = "failure"

(* The outcome of the run is known, or will not be looked for any more.    *)
Settled(r) == status[r] \in {"READY", "PUBLISHED", "EXPIRED"}

(* Stages whose task has read the summary of the run.                      *)
Informed   == {"list", "intendCheck", "postCheck", "recordCheck"}
Told       == {"scan", "intendComment", "postComment", "patchComment", "done"}
Checked    == Told \cup {"recordCheck", "patchCheck"}
Publishing == {"load", "failed", "expired", "patchCheck"} \cup Informed
                \cup Told

(* Rows and the writer's place in process() agree.                         *)
JobInv ==
    \A r \in Run :
        /\ analysis[r] \in {"RUNNING", "RESTARTED"} => status[r] = "PENDING"
        /\ analysis[r] \in Verdict => Settled(r)
        /\ status[r] = "absent" => analysis[r] = "none"
        /\ \A p \in Process : p = writer =>
             /\ phase[p] = "ready" /\ status[r] = "PENDING"
                  => analysis[r] # "RESTARTED"
             /\ At(p, "finish", r) => analysis[r] # "none"
             /\ stage[p] \in Publishing /\ target[p] = r
                  => Settled(r) \/ analysis[r] = "DELETED"
             /\ stage[p] \in Informed /\ target[p] = r => Settled(r)

(* An analysis that will be repeated is remembered as such.                *)
BillInv ==
    \A r \in Run :
        /\ billed[r] <= 1
        /\ analysis[r] = "none" /\ ~Settled(r) /\ billed[r] > 0
             => restarted[r]

(* The row tells that a check was intended.                                *)
Marked(r) == checkUncertain[r] \/ checkId[r]

(* One check per run, counting the POSTs under way.                        *)
OneCheck(r) ==
    /\ checks[r] + lateChecks[r] <= 1
    /\ ~Marked(r) => checks[r] = 0 /\ lateChecks[r] = 0
    /\ \A p \in Process :
         /\ At(p, "postCheck", r)
              => Marked(r) /\ checks[r] = 0 /\ lateChecks[r] = 0
         /\ stage[p] \in Checked /\ target[p] = r => checks[r] = 1
         /\ p = writer => /\ At(p, "list", r) /\ ~known[p] => ~Marked(r)
                          /\ At(p, "intendCheck", r) => ~Marked(r)
    /\ \A p, q \in Process :
         At(p, "postCheck", r) /\ At(q, "postCheck", r) => p = q

CheckInv == \A r \in Run : OneCheck(r)

(* Some run of the pull request tells that a comment was intended.         *)
CommentMarked == \E r \in Run : commentUncertain[r]

(* One comment, counting the POSTs under way.                              *)
CommentInv ==
    /\ comments + lateComments <= 1
    /\ lateComments > 0 => CommentMarked
    /\ \A p \in Process :
         /\ stage[p] = "postComment"
              => CommentMarked /\ comments = 0 /\ lateComments = 0
         /\ stage[p] \in {"patchComment", "done"} => comments = 1
         /\ p = writer /\ stage[p] = "intendComment"
              => CommentMarked \/ comments = 0
    /\ \A p, q \in Process :
         stage[p] = "postComment" /\ stage[q] = "postComment" => p = q

(* The check of r tells its analysis.                                      *)
Tells(r) ==
    /\ shown[r] \in Conclusion
    /\ analysis[r] # "DELETED" => shown[r] = ConclusionOf(r)

(* What a task will send, and what is shown, is what the rows say.         *)
Earned(r) == Settled(r) /\ analysis[r] \in {"SAFE", "DELETED"}

TellInv ==
    /\ \A r \in Run :
         /\ shown[r] = "success" => Earned(r)
         /\ status[r] = "PUBLISHED" => comments = 1 /\ checks[r] = 1 /\ Tells(r)
    /\ \A p \in Process : \A r \in Run : target[p] = r =>
         /\ conclusion[p] = "success" => Earned(r)
         /\ stage[p] = "patchCheck" \/ (p = writer /\ stage[p] \in Informed)
              => /\ Settled(r)
                 /\ analysis[r] # "DELETED" => conclusion[p] = ConclusionOf(r)
         /\ stage[p] \in Told => Settled(r) /\ Tells(r)

IInv == TypeOK /\ TaskInv /\ JobInv /\ BillInv /\ CheckInv /\ CommentInv
          /\ TellInv

(* A task that goes on, or ends, moves its own variables only.             *)
LEMMA TaskMoves ==
  ASSUME TypeOK, NEW p \in Process, NEW s \in Stage \ {"idle"},
         Goto(p, s) \/ End(p)
  PROVE  /\ stage' \in [Process -> Stage]
         /\ target' \in [Process -> Run \cup {None}]
         /\ known' \in [Process -> BOOLEAN]
         /\ conclusion' \in [Process -> Conclusion]
         /\ \A q \in Process : q # p =>
              UNCHANGED <<stage[q], target[q], known[q]>>
         /\ \/ stage'[p] = "idle"
            \/ stage'[p] = s /\ target'[p] = target[p] /\ known'[p] = known[p]
<1> USE DEF TypeOK, Stage, InDatabase, AtProvider, Conclusion
<1>1. CASE Goto(p, s) BY <1>1 DEF Goto
<1>2. CASE End(p) BY <1>2 DEF End
<1> QED BY <1>1, <1>2

(* One step per action.                                                    *)
LEMMA TypeStep ==
  ASSUME TypeOK, Next
  PROVE  TypeOK'
<1> USE PublishAssumption
  DEF TypeOK, Phase, Status, Verdict, Analysis, Conclusion, Shown, Stage,
      InDatabase, AtProvider, Then, Answered, At, fenceVars, workerVars,
      jobVars, markVars, checkVars, commentVars, Fence!Takeover,
      Fence!FencedCommit, ConclusionOf
<1>1. ASSUME LateCommentLands
      PROVE  TypeOK'
  BY <1>1 DEF LateCommentLands, Goto, End
<1>2. ASSUME NEW r \in Run, LateCheckLands(r)
      PROVE  TypeOK'
  BY <1>2 DEF LateCheckLands, Goto, End
<1>3. ASSUME NEW p \in Process, Takeover(p)
      PROVE  TypeOK'
  BY <1>3 DEF Takeover, Goto, End
<1>4. ASSUME NEW p \in Process, RecoverJobs(p)
      PROVE  TypeOK'
  BY <1>4 DEF RecoverJobs, Goto, End
<1>5. ASSUME NEW p \in Process, RecoverRuns(p)
      PROVE  TypeOK'
  BY <1>5 DEF RecoverRuns, Goto, End
<1>6. ASSUME NEW p \in Process,
             Crash(p)
      PROVE  TypeOK'
  BY <1>6 DEF Crash, Goto, End
<1>7. ASSUME NEW p \in Process, ProviderFails(p)
      PROVE  TypeOK'
  BY <1>7 DEF ProviderFails, Goto, End
<1>8. ASSUME NEW p \in Process, TransactionFails(p)
      PROVE  TypeOK'
  BY <1>8 DEF TransactionFails, Goto, End
<1>9. ASSUME NEW p \in Process, NEW r \in Run, Verify(p, r)
      PROVE  TypeOK'
  BY <1>9 DEF Verify, Goto, End
<1>10. ASSUME NEW p \in Process, NEW r \in Run, OpenClosed(p, r)
      PROVE  TypeOK'
  BY <1>10 DEF OpenClosed, Goto, End
<1>11. ASSUME NEW p \in Process, NEW r \in Run, OpenAnalysis(p, r)
      PROVE  TypeOK'
  BY TaskMoves, <1>11 DEF OpenAnalysis
<1>12. ASSUME NEW p \in Process, NEW r \in Run, OpenQuotaExceeded(p, r)
      PROVE  TypeOK'
  BY TaskMoves, <1>12 DEF OpenQuotaExceeded
<1>13. ASSUME NEW p \in Process, NEW r \in Run, OpenExisting(p, r)
      PROVE  TypeOK'
  BY TaskMoves, <1>13 DEF OpenExisting
<1>14. ASSUME NEW p \in Process, NEW r \in Run, Finish(p, r)
      PROVE  TypeOK'
  <2>1. "load" \in Stage \ {"idle"} OBVIOUS
  <2>2. Goto(p, "load") \/ End(p) BY <1>14 DEF Finish
  <2>3. /\ analysis' \in [Run -> Analysis]
        /\ status' \in [Run -> Status]
        /\ restarted' \in [Run -> BOOLEAN]
    <3>1. CASE analysis[r] = "RUNNING"
      <4>1. PICK v \in Verdict : analysis' = [analysis EXCEPT ![r] = v]
        BY <1>14, <3>1 DEF Finish
      <4>2. /\ status' = [status EXCEPT ![r] = "READY"]
            /\ restarted' = [restarted EXCEPT ![r] = FALSE]
        BY <1>14, <3>1 DEF Finish
      <4> QED BY <4>1, <4>2
    <3>2. CASE analysis[r] # "RUNNING" BY <1>14, <3>2 DEF Finish
    <3> QED BY <3>1, <3>2
  <2> QED BY <1>14, <2>1, <2>2, <2>3, TaskMoves DEF Finish
<1>15. ASSUME NEW p \in Process, NEW r \in Run, Load(p, r)
      PROVE  TypeOK'
  BY <1>15 DEF Load, Goto, End
<1>16. ASSUME NEW p \in Process, NEW r \in Run, LoadExpired(p, r)
      PROVE  TypeOK'
  BY <1>16 DEF LoadExpired, Goto, End
<1>17. ASSUME NEW p \in Process, NEW r \in Run, ListChecks(p, r)
      PROVE  TypeOK'
  BY TaskMoves, <1>17 DEF ListChecks
<1>18. ASSUME NEW p \in Process, NEW r \in Run, IntendCheck(p, r)
      PROVE  TypeOK'
  BY TaskMoves, <1>18 DEF IntendCheck
<1>19. ASSUME NEW p \in Process, NEW r \in Run, PostCheck(p, r)
      PROVE  TypeOK'
  BY TaskMoves, <1>19, SMTT(30)
  DEF PostCheck
<1>20. ASSUME NEW p \in Process, NEW r \in Run, RecordCheck(p, r)
      PROVE  TypeOK'
  BY TaskMoves, <1>20 DEF RecordCheck
<1>21. ASSUME NEW p \in Process, NEW r \in Run, PatchCheck(p, r)
      PROVE  TypeOK'
  BY <1>21 DEF PatchCheck, Goto, End
<1>22. ASSUME NEW p \in Process, NEW r \in Run, ScanComments(p, r)
      PROVE  TypeOK'
  BY <1>22 DEF ScanComments, Goto, End
<1>23. ASSUME NEW p \in Process, NEW r \in Run, IntendComment(p, r)
      PROVE  TypeOK'
  <2>1. {"failed", "postComment"} \subseteq Stage \ {"idle"} OBVIOUS
  <2>2. \E s \in {"failed", "postComment"} : Goto(p, s) \/ End(p)
    BY <1>23 DEF IntendComment
  <2>3. commentUncertain' \in [Run -> BOOLEAN]
    BY <1>23, ZenonT(30) DEF IntendComment
  <2> QED BY <1>23, <2>1, <2>2, <2>3, TaskMoves DEF IntendComment
<1>24. ASSUME NEW p \in Process, NEW r \in Run, PostComment(p, r)
      PROVE  TypeOK'
  BY <1>24 DEF PostComment, Goto, End
<1>25. ASSUME NEW p \in Process, NEW r \in Run, PatchComment(p, r)
      PROVE  TypeOK'
  BY <1>25 DEF PatchComment, Goto, End
<1>26. ASSUME NEW p \in Process, NEW r \in Run, Done(p, r)
      PROVE  TypeOK'
  BY <1>26 DEF Done, Goto, End
<1>27. ASSUME NEW p \in Process, NEW r \in Run, StoreError(p, r)
      PROVE  TypeOK'
  BY TaskMoves, <1>27 DEF StoreError
<1>28. ASSUME NEW p \in Process, NEW r \in Run, StoreExpired(p, r)
      PROVE  TypeOK'
  BY <1>28 DEF StoreExpired, Goto, End
<1>29. ASSUME NEW p \in Process, NEW r \in Run, Delete(p, r)
      PROVE  TypeOK'
  BY <1>29 DEF Delete, Goto, End
<1> QED BY <1>1, <1>2, <1>3, <1>4, <1>5, <1>6, <1>7, <1>8, <1>9, <1>10, <1>11,
    <1>12, <1>13, <1>14, <1>15, <1>16, <1>17, <1>18, <1>19, <1>20, <1>21,
    <1>22, <1>23, <1>24, <1>25, <1>26, <1>27, <1>28, <1>29 DEF Next,
    ProcessStep, OpenStep, PublishStep

(* Tasks belong to ready processes.                                        *)
LEMMA TaskStep ==
  ASSUME TypeOK, TaskInv, Next
  PROVE  TaskInv'
<1> USE PublishAssumption
  DEF TypeOK, Goto, End, Then, Answered, At, fenceVars, workerVars, jobVars,
      markVars, checkVars, commentVars, Fence!Takeover, Fence!FencedCommit,
      TaskInv
<1>1. ASSUME LateCommentLands
      PROVE  TaskInv'
  BY <1>1 DEF LateCommentLands
<1>2. ASSUME NEW r \in Run, LateCheckLands(r)
      PROVE  TaskInv'
  BY <1>2 DEF LateCheckLands
<1>3. ASSUME NEW p \in Process, Takeover(p)
      PROVE  TaskInv'
  BY <1>3 DEF Takeover
<1>4. ASSUME NEW p \in Process, RecoverJobs(p)
      PROVE  TaskInv'
  BY <1>4 DEF RecoverJobs
<1>5. ASSUME NEW p \in Process, RecoverRuns(p)
      PROVE  TaskInv'
  BY <1>5 DEF RecoverRuns
<1>6. ASSUME NEW p \in Process,
             Crash(p)
      PROVE  TaskInv'
  BY <1>6 DEF Crash
<1>7. ASSUME NEW p \in Process, ProviderFails(p)
      PROVE  TaskInv'
  BY <1>7 DEF ProviderFails, AtProvider
<1>8. ASSUME NEW p \in Process, TransactionFails(p)
      PROVE  TaskInv'
  BY <1>8 DEF TransactionFails
<1>9. ASSUME NEW p \in Process, NEW r \in Run, Verify(p, r)
      PROVE  TaskInv'
  BY <1>9 DEF Verify
<1>10. ASSUME NEW p \in Process, NEW r \in Run, OpenClosed(p, r)
      PROVE  TaskInv'
  BY <1>10 DEF OpenClosed
<1>11. ASSUME NEW p \in Process, NEW r \in Run, OpenAnalysis(p, r)
      PROVE  TaskInv'
  BY <1>11 DEF OpenAnalysis
<1>12. ASSUME NEW p \in Process, NEW r \in Run, OpenQuotaExceeded(p, r)
      PROVE  TaskInv'
  BY <1>12 DEF OpenQuotaExceeded
<1>13. ASSUME NEW p \in Process, NEW r \in Run, OpenExisting(p, r)
      PROVE  TaskInv'
  BY <1>13 DEF OpenExisting
<1>14. ASSUME NEW p \in Process, NEW r \in Run, Finish(p, r)
      PROVE  TaskInv'
  BY <1>14 DEF Finish
<1>15. ASSUME NEW p \in Process, NEW r \in Run, Load(p, r)
      PROVE  TaskInv'
  BY <1>15 DEF Load
<1>16. ASSUME NEW p \in Process, NEW r \in Run, LoadExpired(p, r)
      PROVE  TaskInv'
  BY <1>16 DEF LoadExpired
<1>17. ASSUME NEW p \in Process, NEW r \in Run, ListChecks(p, r)
      PROVE  TaskInv'
  BY <1>17 DEF ListChecks
<1>18. ASSUME NEW p \in Process, NEW r \in Run, IntendCheck(p, r)
      PROVE  TaskInv'
  BY <1>18 DEF IntendCheck
<1>19. ASSUME NEW p \in Process, NEW r \in Run, PostCheck(p, r)
      PROVE  TaskInv'
  BY <1>19 DEF PostCheck
<1>20. ASSUME NEW p \in Process, NEW r \in Run, RecordCheck(p, r)
      PROVE  TaskInv'
  BY <1>20 DEF RecordCheck
<1>21. ASSUME NEW p \in Process, NEW r \in Run, PatchCheck(p, r)
      PROVE  TaskInv'
  BY <1>21 DEF PatchCheck
<1>22. ASSUME NEW p \in Process, NEW r \in Run, ScanComments(p, r)
      PROVE  TaskInv'
  BY <1>22 DEF ScanComments
<1>23. ASSUME NEW p \in Process, NEW r \in Run, IntendComment(p, r)
      PROVE  TaskInv'
  BY <1>23 DEF IntendComment
<1>24. ASSUME NEW p \in Process, NEW r \in Run, PostComment(p, r)
      PROVE  TaskInv'
  BY <1>24 DEF PostComment
<1>25. ASSUME NEW p \in Process, NEW r \in Run, PatchComment(p, r)
      PROVE  TaskInv'
  BY <1>25 DEF PatchComment
<1>26. ASSUME NEW p \in Process, NEW r \in Run, Done(p, r)
      PROVE  TaskInv'
  BY <1>26 DEF Done
<1>27. ASSUME NEW p \in Process, NEW r \in Run, StoreError(p, r)
      PROVE  TaskInv'
  BY <1>27 DEF StoreError
<1>28. ASSUME NEW p \in Process, NEW r \in Run, StoreExpired(p, r)
      PROVE  TaskInv'
  BY <1>28 DEF StoreExpired
<1>29. ASSUME NEW p \in Process, NEW r \in Run, Delete(p, r)
      PROVE  TaskInv'
  BY <1>29 DEF Delete
<1> QED BY <1>1, <1>2, <1>3, <1>4, <1>5, <1>6, <1>7, <1>8, <1>9, <1>10, <1>11,
    <1>12, <1>13, <1>14, <1>15, <1>16, <1>17, <1>18, <1>19, <1>20, <1>21,
    <1>22, <1>23, <1>24, <1>25, <1>26, <1>27, <1>28, <1>29 DEF Next,
    ProcessStep, OpenStep, PublishStep

(* Rows change under the fence, so only the writer's task matters.         *)
LEMMA JobStep ==
  ASSUME TypeOK, TaskInv, JobInv, Next
  PROVE  JobInv'
<1> USE PublishAssumption
  DEF TypeOK, Verdict, Goto, End, Then, Answered, At, fenceVars, workerVars,
      jobVars, markVars, checkVars, commentVars, Fence!Takeover,
      Fence!FencedCommit, TaskInv, JobInv, Settled, Informed, Told, Publishing
<1>1. ASSUME LateCommentLands
      PROVE  JobInv'
  BY <1>1 DEF LateCommentLands
<1>2. ASSUME NEW r \in Run, LateCheckLands(r)
      PROVE  JobInv'
  BY <1>2 DEF LateCheckLands
<1>3. ASSUME NEW p \in Process, Takeover(p)
      PROVE  JobInv'
  BY <1>3 DEF Takeover
<1>4. ASSUME NEW p \in Process, RecoverJobs(p)
      PROVE  JobInv'
  BY <1>4 DEF RecoverJobs
<1>5. ASSUME NEW p \in Process, RecoverRuns(p)
      PROVE  JobInv'
  BY <1>5 DEF RecoverRuns
<1>6. ASSUME NEW p \in Process,
             Crash(p)
      PROVE  JobInv'
  BY <1>6 DEF Crash
<1>7. ASSUME NEW p \in Process, ProviderFails(p)
      PROVE  JobInv'
  BY <1>7 DEF ProviderFails, AtProvider
<1>8. ASSUME NEW p \in Process, TransactionFails(p)
      PROVE  JobInv'
  BY <1>8 DEF TransactionFails
<1>9. ASSUME NEW p \in Process, NEW r \in Run, Verify(p, r)
      PROVE  JobInv'
  BY <1>9 DEF Verify
<1>10. ASSUME NEW p \in Process, NEW r \in Run, OpenClosed(p, r)
      PROVE  JobInv'
  BY <1>10 DEF OpenClosed
<1>11. ASSUME NEW p \in Process, NEW r \in Run, OpenAnalysis(p, r)
      PROVE  JobInv'
  BY <1>11 DEF OpenAnalysis
<1>12. ASSUME NEW p \in Process, NEW r \in Run, OpenQuotaExceeded(p, r)
      PROVE  JobInv'
  BY <1>12 DEF OpenQuotaExceeded
<1>13. ASSUME NEW p \in Process, NEW r \in Run, OpenExisting(p, r)
      PROVE  JobInv'
  BY <1>13 DEF OpenExisting
<1>14. ASSUME NEW p \in Process, NEW r \in Run, Finish(p, r)
      PROVE  JobInv'
  BY <1>14 DEF Finish, Analysis, Status
<1>15. ASSUME NEW p \in Process, NEW r \in Run, Load(p, r)
      PROVE  JobInv'
  BY <1>15 DEF Load
<1>16. ASSUME NEW p \in Process, NEW r \in Run, LoadExpired(p, r)
      PROVE  JobInv'
  BY <1>16 DEF LoadExpired
<1>17. ASSUME NEW p \in Process, NEW r \in Run, ListChecks(p, r)
      PROVE  JobInv'
  BY <1>17 DEF ListChecks
<1>18. ASSUME NEW p \in Process, NEW r \in Run, IntendCheck(p, r)
      PROVE  JobInv'
  BY <1>18 DEF IntendCheck
<1>19. ASSUME NEW p \in Process, NEW r \in Run, PostCheck(p, r)
      PROVE  JobInv'
  BY <1>19 DEF PostCheck
<1>20. ASSUME NEW p \in Process, NEW r \in Run, RecordCheck(p, r)
      PROVE  JobInv'
  BY <1>20 DEF RecordCheck
<1>21. ASSUME NEW p \in Process, NEW r \in Run, PatchCheck(p, r)
      PROVE  JobInv'
  BY <1>21 DEF PatchCheck
<1>22. ASSUME NEW p \in Process, NEW r \in Run, ScanComments(p, r)
      PROVE  JobInv'
  BY <1>22 DEF ScanComments
<1>23. ASSUME NEW p \in Process, NEW r \in Run, IntendComment(p, r)
      PROVE  JobInv'
  BY <1>23 DEF IntendComment
<1>24. ASSUME NEW p \in Process, NEW r \in Run, PostComment(p, r)
      PROVE  JobInv'
  BY <1>24 DEF PostComment
<1>25. ASSUME NEW p \in Process, NEW r \in Run, PatchComment(p, r)
      PROVE  JobInv'
  BY <1>25 DEF PatchComment
<1>26. ASSUME NEW p \in Process, NEW r \in Run, Done(p, r)
      PROVE  JobInv'
  BY <1>26 DEF Done
<1>27. ASSUME NEW p \in Process, NEW r \in Run, StoreError(p, r)
      PROVE  JobInv'
  BY <1>27 DEF StoreError
<1>28. ASSUME NEW p \in Process, NEW r \in Run, StoreExpired(p, r)
      PROVE  JobInv'
  BY <1>28 DEF StoreExpired
<1>29. ASSUME NEW p \in Process, NEW r \in Run, Delete(p, r)
      PROVE  JobInv'
  BY <1>29 DEF Delete
<1> HIDE DEF JobInv
<1> QED BY <1>1, <1>2, <1>3, <1>4, <1>5, <1>6, <1>7, <1>8, <1>9, <1>10, <1>11,
    <1>12, <1>13, <1>14, <1>15, <1>16, <1>17, <1>18, <1>19, <1>20, <1>21,
    <1>22, <1>23, <1>24, <1>25, <1>26, <1>27, <1>28, <1>29 DEF Next,
    ProcessStep, OpenStep, PublishStep

(* A repeated analysis is one that recovery has remembered.                *)
LEMMA BillStep ==
  ASSUME TypeOK, TaskInv, JobInv, BillInv, Next
  PROVE  BillInv'
<1> USE PublishAssumption
  DEF TypeOK, Goto, End, Then, Answered, At, fenceVars, workerVars, jobVars,
      markVars, checkVars, commentVars, Fence!Takeover, Fence!FencedCommit,
      TaskInv, JobInv, BillInv, Settled, Informed, Told, Publishing
<1>1. ASSUME LateCommentLands
      PROVE  BillInv'
  BY <1>1 DEF LateCommentLands
<1>2. ASSUME NEW r \in Run, LateCheckLands(r)
      PROVE  BillInv'
  BY <1>2 DEF LateCheckLands
<1>3. ASSUME NEW p \in Process, Takeover(p)
      PROVE  BillInv'
  BY <1>3 DEF Takeover
<1>4. ASSUME NEW p \in Process, RecoverJobs(p)
      PROVE  BillInv'
  BY <1>4 DEF RecoverJobs
<1>5. ASSUME NEW p \in Process, RecoverRuns(p)
      PROVE  BillInv'
  BY <1>5 DEF RecoverRuns
<1>6. ASSUME NEW p \in Process,
             Crash(p)
      PROVE  BillInv'
  BY <1>6 DEF Crash
<1>7. ASSUME NEW p \in Process, ProviderFails(p)
      PROVE  BillInv'
  BY <1>7 DEF ProviderFails
<1>8. ASSUME NEW p \in Process, TransactionFails(p)
      PROVE  BillInv'
  BY <1>8 DEF TransactionFails
<1>9. ASSUME NEW p \in Process, NEW r \in Run, Verify(p, r)
      PROVE  BillInv'
  BY <1>9 DEF Verify
<1>10. ASSUME NEW p \in Process, NEW r \in Run, OpenClosed(p, r)
      PROVE  BillInv'
  BY <1>10 DEF OpenClosed
<1>11. ASSUME NEW p \in Process, NEW r \in Run, OpenAnalysis(p, r)
      PROVE  BillInv'
  BY <1>11 DEF OpenAnalysis
<1>12. ASSUME NEW p \in Process, NEW r \in Run, OpenQuotaExceeded(p, r)
      PROVE  BillInv'
  BY <1>12 DEF OpenQuotaExceeded
<1>13. ASSUME NEW p \in Process, NEW r \in Run, OpenExisting(p, r)
      PROVE  BillInv'
  BY <1>13 DEF OpenExisting
<1>14. ASSUME NEW p \in Process, NEW r \in Run, Finish(p, r)
      PROVE  BillInv'
  BY <1>14 DEF Finish
<1>15. ASSUME NEW p \in Process, NEW r \in Run, Load(p, r)
      PROVE  BillInv'
  BY <1>15 DEF Load
<1>16. ASSUME NEW p \in Process, NEW r \in Run, LoadExpired(p, r)
      PROVE  BillInv'
  BY <1>16 DEF LoadExpired
<1>17. ASSUME NEW p \in Process, NEW r \in Run, ListChecks(p, r)
      PROVE  BillInv'
  BY <1>17 DEF ListChecks
<1>18. ASSUME NEW p \in Process, NEW r \in Run, IntendCheck(p, r)
      PROVE  BillInv'
  BY <1>18 DEF IntendCheck
<1>19. ASSUME NEW p \in Process, NEW r \in Run, PostCheck(p, r)
      PROVE  BillInv'
  BY <1>19 DEF PostCheck
<1>20. ASSUME NEW p \in Process, NEW r \in Run, RecordCheck(p, r)
      PROVE  BillInv'
  BY <1>20 DEF RecordCheck
<1>21. ASSUME NEW p \in Process, NEW r \in Run, PatchCheck(p, r)
      PROVE  BillInv'
  BY <1>21 DEF PatchCheck
<1>22. ASSUME NEW p \in Process, NEW r \in Run, ScanComments(p, r)
      PROVE  BillInv'
  BY <1>22 DEF ScanComments
<1>23. ASSUME NEW p \in Process, NEW r \in Run, IntendComment(p, r)
      PROVE  BillInv'
  BY <1>23 DEF IntendComment
<1>24. ASSUME NEW p \in Process, NEW r \in Run, PostComment(p, r)
      PROVE  BillInv'
  BY <1>24 DEF PostComment
<1>25. ASSUME NEW p \in Process, NEW r \in Run, PatchComment(p, r)
      PROVE  BillInv'
  BY <1>25 DEF PatchComment
<1>26. ASSUME NEW p \in Process, NEW r \in Run, Done(p, r)
      PROVE  BillInv'
  BY <1>26 DEF Done
<1>27. ASSUME NEW p \in Process, NEW r \in Run, StoreError(p, r)
      PROVE  BillInv'
  BY <1>27 DEF StoreError
<1>28. ASSUME NEW p \in Process, NEW r \in Run, StoreExpired(p, r)
      PROVE  BillInv'
  BY <1>28 DEF StoreExpired
<1>29. ASSUME NEW p \in Process, NEW r \in Run, Delete(p, r)
      PROVE  BillInv'
  BY <1>29 DEF Delete
<1> QED BY <1>1, <1>2, <1>3, <1>4, <1>5, <1>6, <1>7, <1>8, <1>9, <1>10, <1>11,
    <1>12, <1>13, <1>14, <1>15, <1>16, <1>17, <1>18, <1>19, <1>20, <1>21,
    <1>22, <1>23, <1>24, <1>25, <1>26, <1>27, <1>28, <1>29 DEF Next,
    ProcessStep, OpenStep, PublishStep

(* Tasks that are about to touch the check of their run.                   *)
Checking == {"list", "intendCheck", "postCheck"}

(* CheckInv survives when a task leaves the check alone.                   *)
LEMMA CheckFrame ==
  ASSUME CheckInv, NEW p \in Process,
         UNCHANGED <<writer, checks, lateChecks, checkId, checkUncertain>>,
         \A q \in Process : q # p =>
            UNCHANGED <<stage[q], target[q], known[q]>>,
         stage'[p] \notin Checking,
         stage'[p] \in Checked => stage[p] \in Checked /\ target'[p] = target[p]
  PROVE  CheckInv'
<1>1. \A r \in Run : Marked(r)' = Marked(r) BY DEF Marked
<1> QED BY <1>1 DEF CheckInv, OneCheck, At, Checking, Checked

(* What concerns checks: a mark precedes the POST, and stays.              *)
LEMMA CheckStep ==
  ASSUME TypeOK, TaskInv, CheckInv, Next
  PROVE  CheckInv'
<1> DEFINE Others(p) == \A q \in Process : q # p =>
             UNCHANGED <<stage[q], target[q], known[q]>>
           Quiet == UNCHANGED <<writer, checks, lateChecks, checkId,
                                checkUncertain>>
<1>0. /\ checks \in [Run -> Nat] /\ lateChecks \in [Run -> Nat]
      /\ checkId \in [Run -> BOOLEAN] /\ checkUncertain \in [Run -> BOOLEAN]
  BY DEF TypeOK
<1>1. ASSUME LateCommentLands
      PROVE  CheckInv'
  BY <1>1
    DEF LateCommentLands, CheckInv, OneCheck, At, Marked, fenceVars,
        workerVars, markVars, checkVars
<1>2. ASSUME NEW r \in Run, LateCheckLands(r)
      PROVE  CheckInv'
  BY <1>2
    DEF LateCheckLands, CheckInv, OneCheck, At, Marked, fenceVars, workerVars,
        markVars, TypeOK
<1>3. ASSUME NEW p \in Process, Takeover(p)
      PROVE  CheckInv'
  BY <1>3
    DEF Takeover, Fence!Takeover, TaskInv, CheckInv, OneCheck, At, Marked,
        workerVars, markVars, checkVars
<1>4. ASSUME NEW p \in Process,
             RecoverJobs(p) \/ RecoverRuns(p) \/ (\E r \in Run : Delete(p, r))
      PROVE  CheckInv'
  BY <1>4
    DEF RecoverJobs, RecoverRuns, Delete, Fence!FencedCommit, CheckInv,
        OneCheck, At, Marked, workerVars, markVars, checkVars
<1>5. ASSUME NEW p \in Process, NEW s \in Stage \ {"idle"},
             Goto(p, s) \/ End(p), Quiet,
             s \notin Checking, s \in Checked => stage[p] \in Checked
      PROVE  CheckInv'
  <2>1. /\ stage'[p] \in {"idle", s} /\ Others(p)
        /\ stage'[p] = s => target'[p] = target[p]
    BY <1>5, TaskMoves
  <2> QED BY <1>5, <2>1, CheckFrame DEF Checking, Checked, Told
<1>6. ASSUME NEW p \in Process,
             Crash(p) \/ ProviderFails(p) \/ TransactionFails(p)
      PROVE  CheckInv'
  BY <1>5, <1>6
    DEF Crash, ProviderFails, TransactionFails, fenceVars, markVars, checkVars,
        Stage, InDatabase, Checking, Checked, Told
<1>7. ASSUME NEW p \in Process, NEW r \in Run, Verify(p, r)
      PROVE  CheckInv'
  BY <1>7, CheckFrame
    DEF Verify, TypeOK, fenceVars, markVars, checkVars, Checking, Checked, Told
<1>8. ASSUME NEW p \in Process, NEW r \in Run, OpenStep(p, r), ~Verify(p, r)
      PROVE  CheckInv'
  <2>1. \E s \in {"finish", "load"} : Goto(p, s) \/ End(p)
    BY <1>8
      DEF OpenStep, OpenClosed, OpenAnalysis, OpenQuotaExceeded, OpenExisting,
          Finish, Then
  <2>2. Quiet
    BY <1>8
      DEF OpenStep, OpenClosed, OpenAnalysis, OpenQuotaExceeded, OpenExisting,
          Finish, Fence!FencedCommit, fenceVars, markVars, checkVars
  <2> QED BY <1>5, <2>1, <2>2
    DEF Stage, InDatabase, AtProvider, Checking, Checked, Told
<1>9. ASSUME NEW p \in Process, NEW r \in Run,
             \/ LoadExpired(p, r) \/ ScanComments(p, r)
             \/ IntendComment(p, r) \/ PostComment(p, r)
             \/ PatchComment(p, r) \/ Done(p, r)
             \/ StoreError(p, r) \/ StoreExpired(p, r)
      PROVE  CheckInv'
  <2>1. PICK s \in {"expired", "failed", "patchComment", "intendComment",
                    "postComment", "done", "load"} :
          /\ Goto(p, s) \/ End(p)
          /\ s \in Checked => stage[p] \in Checked
    BY <1>9
      DEF LoadExpired, ScanComments, IntendComment, PostComment, PatchComment,
          Done, StoreError, StoreExpired, Then, Answered, At, Checked, Told
  <2>2. Quiet
    BY <1>9
      DEF LoadExpired, ScanComments, IntendComment, PostComment, PatchComment,
          Done, StoreError, StoreExpired, Fence!FencedCommit, fenceVars,
          markVars, checkVars
  <2> QED BY <1>5, <2>1, <2>2 DEF Stage, InDatabase, AtProvider, Checking
<1>10. ASSUME NEW p \in Process, NEW r \in Run, Load(p, r)
      PROVE  CheckInv'
  <2>1. /\ At(p, "load", r) /\ Quiet /\ Others(p)
        /\ stage'[p] = "list" /\ target'[p] = r
        /\ ~known'[p] => ~Marked(r)
    BY <1>10 DEF Load, TypeOK, At, Marked, fenceVars, markVars, checkVars
  <2>2. \A u \in Run : Marked(u)' = Marked(u) BY <2>1 DEF Marked
  <2>3. OneCheck(r)'
    BY <2>1, <2>2 DEF CheckInv, OneCheck, At, Checked, Told
  <2>4. ASSUME NEW u \in Run, u # r PROVE OneCheck(u)'
    BY <2>1, <2>2, <2>4 DEF CheckInv, OneCheck, At, Checked, Told
  <2> QED BY <2>3, <2>4 DEF CheckInv
<1>11. ASSUME NEW p \in Process, NEW r \in Run, ListChecks(p, r)
      PROVE  CheckInv'
  <2>1. /\ At(p, "list", r) /\ Quiet /\ Others(p) /\ target'[p] = r
        /\ stage'[p] \in {"failed", "recordCheck", "intendCheck"}
        /\ stage'[p] = "recordCheck" => checks[r] = 1
        /\ stage'[p] = "intendCheck" => ~known[p]
    BY <1>11 DEF ListChecks, At, fenceVars, markVars, checkVars, TypeOK
  <2>2. \A u \in Run : Marked(u)' = Marked(u) BY <2>1 DEF Marked
  <2>3. OneCheck(r)'
    BY <2>1, <2>2 DEF CheckInv, OneCheck, At, Checked, Told
  <2>4. ASSUME NEW u \in Run, u # r PROVE OneCheck(u)'
    BY <2>1, <2>2, <2>4 DEF CheckInv, OneCheck, At, Checked, Told
  <2> QED BY <2>3, <2>4 DEF CheckInv
<1>12. ASSUME NEW p \in Process, NEW r \in Run, IntendCheck(p, r)
      PROVE  CheckInv'
  <2>1. /\ At(p, "intendCheck", r) /\ p = writer
        /\ UNCHANGED <<writer, checks, lateChecks>> /\ Others(p)
        /\ stage'[p] = "idle" \/ (stage'[p] = "postCheck" /\ target'[p] = r)
    <3>1. "postCheck" \in Stage \ {"idle"} BY DEF Stage, AtProvider
    <3>2. Goto(p, "postCheck") \/ End(p) BY <1>12 DEF IntendCheck, Then
    <3> QED BY <1>12, <3>1, <3>2, TaskMoves
      DEF IntendCheck, At, Fence!FencedCommit, checkVars
  <2>2. Marked(r)' /\ \A u \in Run : u # r => Marked(u)' = Marked(u)
    BY <1>0, <1>12 DEF IntendCheck, Marked
  <2>3. ~Marked(r) BY <2>1 DEF CheckInv, OneCheck
  <2>4. OneCheck(r)'
    BY <2>1, <2>2, <2>3 DEF CheckInv, OneCheck, At, Checked, Told
  <2>5. ASSUME NEW u \in Run, u # r PROVE OneCheck(u)'
    BY <2>1, <2>2, <2>5 DEF CheckInv, OneCheck, At, Checked, Told
  <2> QED BY <2>4, <2>5 DEF CheckInv
<1>13. ASSUME NEW p \in Process, NEW r \in Run, PostCheck(p, r)
      PROVE  CheckInv'
  <2>1. Marked(r) /\ checks[r] = 0 /\ lateChecks[r] = 0
    BY <1>13 DEF PostCheck, CheckInv, OneCheck
  <2>2. /\ At(p, "postCheck", r) /\ writer' = writer
        /\ Others(p) /\ target'[p] = r
        /\ \/ /\ checks'[r] = 1 /\ lateChecks'[r] = 0
              /\ stage'[p] \in {"recordCheck", "failed"}
           \/ /\ checks'[r] = 0 /\ lateChecks'[r] = 1
              /\ stage'[p] = "failed"
        /\ \A u \in Run : u # r =>
             checks'[u] = checks[u] /\ lateChecks'[u] = lateChecks[u]
    BY <1>0, <1>13, <2>1 DEF PostCheck, Answered, Goto, At, fenceVars, TypeOK
  <2>3. \A u \in Run : Marked(u)' = Marked(u)
    BY <1>13 DEF PostCheck, Marked, markVars
  <2>4. OneCheck(r)'
    BY <2>1, <2>2, <2>3 DEF CheckInv, OneCheck, At, Checked, Told
  <2>5. ASSUME NEW u \in Run, u # r PROVE OneCheck(u)'
    BY <2>2, <2>3, <2>5 DEF CheckInv, OneCheck, At, Checked, Told
  <2> QED BY <2>4, <2>5 DEF CheckInv
<1>14. ASSUME NEW p \in Process, NEW r \in Run, RecordCheck(p, r)
      PROVE  CheckInv'
  <2>1. /\ At(p, "recordCheck", r) /\ p = writer
        /\ UNCHANGED <<writer, checks, lateChecks>> /\ Others(p)
        /\ stage'[p] = "idle" \/ (stage'[p] = "patchCheck" /\ target'[p] = r)
    <3>1. "patchCheck" \in Stage \ {"idle"} BY DEF Stage, AtProvider
    <3>2. Goto(p, "patchCheck") \/ End(p) BY <1>14 DEF RecordCheck, Then
    <3> QED BY <1>14, <3>1, <3>2, TaskMoves
      DEF RecordCheck, At, Fence!FencedCommit, checkVars
  <2>2. Marked(r)' /\ \A u \in Run : u # r => Marked(u)' = Marked(u)
    BY <1>0, <1>14 DEF RecordCheck, Marked
  <2>3. OneCheck(r)'
    BY <2>1, <2>2 DEF CheckInv, OneCheck, At, Checked, Told
  <2>4. ASSUME NEW u \in Run, u # r PROVE OneCheck(u)'
    BY <2>1, <2>2, <2>4 DEF CheckInv, OneCheck, At, Checked, Told
  <2> QED BY <2>3, <2>4 DEF CheckInv
<1>15. ASSUME NEW p \in Process, NEW r \in Run, PatchCheck(p, r)
      PROVE  CheckInv'
  BY <1>15, CheckFrame
    DEF PatchCheck, At, TypeOK, fenceVars, markVars, Checking, Checked, Told
<1> QED
  BY <1>1, <1>2, <1>3, <1>4, <1>6, <1>7, <1>8, <1>9, <1>10, <1>11, <1>12,
      <1>13, <1>14, <1>15
  DEF Next, ProcessStep, PublishStep

(* What concerns the comment: a mark is taken back when it has been seen.  *)
LEMMA CommentStep ==
  ASSUME TypeOK, TaskInv, CommentInv, Next
  PROVE  CommentInv'
<1> USE PublishAssumption
  DEF TypeOK, Goto, End, Then, Answered, At, fenceVars, workerVars, jobVars,
      markVars, checkVars, commentVars, Fence!Takeover, Fence!FencedCommit,
      TaskInv, CommentInv, CommentMarked
<1>1. ASSUME LateCommentLands
      PROVE  CommentInv'
  BY <1>1 DEF LateCommentLands
<1>2. ASSUME NEW r \in Run, LateCheckLands(r)
      PROVE  CommentInv'
  BY <1>2 DEF LateCheckLands
<1>3. ASSUME NEW p \in Process, Takeover(p)
      PROVE  CommentInv'
  BY <1>3 DEF Takeover
<1>4. ASSUME NEW p \in Process, RecoverJobs(p)
      PROVE  CommentInv'
  BY <1>4 DEF RecoverJobs
<1>5. ASSUME NEW p \in Process, RecoverRuns(p)
      PROVE  CommentInv'
  BY <1>5 DEF RecoverRuns
<1>6. ASSUME NEW p \in Process,
             Crash(p)
      PROVE  CommentInv'
  BY <1>6 DEF Crash
<1>7. ASSUME NEW p \in Process, ProviderFails(p)
      PROVE  CommentInv'
  BY <1>7 DEF ProviderFails
<1>8. ASSUME NEW p \in Process, TransactionFails(p)
      PROVE  CommentInv'
  BY <1>8 DEF TransactionFails
<1>9. ASSUME NEW p \in Process, NEW r \in Run, Verify(p, r)
      PROVE  CommentInv'
  BY <1>9 DEF Verify
<1>10. ASSUME NEW p \in Process, NEW r \in Run, OpenClosed(p, r)
      PROVE  CommentInv'
  BY <1>10 DEF OpenClosed
<1>11. ASSUME NEW p \in Process, NEW r \in Run, OpenAnalysis(p, r)
      PROVE  CommentInv'
  BY <1>11 DEF OpenAnalysis
<1>12. ASSUME NEW p \in Process, NEW r \in Run, OpenQuotaExceeded(p, r)
      PROVE  CommentInv'
  BY <1>12 DEF OpenQuotaExceeded
<1>13. ASSUME NEW p \in Process, NEW r \in Run, OpenExisting(p, r)
      PROVE  CommentInv'
  BY <1>13 DEF OpenExisting
<1>14. ASSUME NEW p \in Process, NEW r \in Run, Finish(p, r)
      PROVE  CommentInv'
  BY <1>14 DEF Finish
<1>15. ASSUME NEW p \in Process, NEW r \in Run, Load(p, r)
      PROVE  CommentInv'
  BY <1>15 DEF Load
<1>16. ASSUME NEW p \in Process, NEW r \in Run, LoadExpired(p, r)
      PROVE  CommentInv'
  BY <1>16 DEF LoadExpired
<1>17. ASSUME NEW p \in Process, NEW r \in Run, ListChecks(p, r)
      PROVE  CommentInv'
  BY <1>17 DEF ListChecks
<1>18. ASSUME NEW p \in Process, NEW r \in Run, IntendCheck(p, r)
      PROVE  CommentInv'
  BY <1>18 DEF IntendCheck
<1>19. ASSUME NEW p \in Process, NEW r \in Run, PostCheck(p, r)
      PROVE  CommentInv'
  BY <1>19 DEF PostCheck
<1>20. ASSUME NEW p \in Process, NEW r \in Run, RecordCheck(p, r)
      PROVE  CommentInv'
  BY <1>20 DEF RecordCheck
<1>21. ASSUME NEW p \in Process, NEW r \in Run, PatchCheck(p, r)
      PROVE  CommentInv'
  BY <1>21 DEF PatchCheck
<1>22. ASSUME NEW p \in Process, NEW r \in Run, ScanComments(p, r)
      PROVE  CommentInv'
  BY <1>22 DEF ScanComments
<1>23. ASSUME NEW p \in Process, NEW r \in Run, IntendComment(p, r)
      PROVE  CommentInv'
  BY <1>23 DEF IntendComment
<1>24. ASSUME NEW p \in Process, NEW r \in Run, PostComment(p, r)
      PROVE  CommentInv'
  BY <1>24 DEF PostComment
<1>25. ASSUME NEW p \in Process, NEW r \in Run, PatchComment(p, r)
      PROVE  CommentInv'
  BY <1>25 DEF PatchComment
<1>26. ASSUME NEW p \in Process, NEW r \in Run, Done(p, r)
      PROVE  CommentInv'
  BY <1>26 DEF Done
<1>27. ASSUME NEW p \in Process, NEW r \in Run, StoreError(p, r)
      PROVE  CommentInv'
  BY <1>27 DEF StoreError
<1>28. ASSUME NEW p \in Process, NEW r \in Run, StoreExpired(p, r)
      PROVE  CommentInv'
  BY <1>28 DEF StoreExpired
<1>29. ASSUME NEW p \in Process, NEW r \in Run, Delete(p, r)
      PROVE  CommentInv'
  BY <1>29 DEF Delete
<1> QED BY <1>1, <1>2, <1>3, <1>4, <1>5, <1>6, <1>7, <1>8, <1>9, <1>10, <1>11,
    <1>12, <1>13, <1>14, <1>15, <1>16, <1>17, <1>18, <1>19, <1>20, <1>21,
    <1>22, <1>23, <1>24, <1>25, <1>26, <1>27, <1>28, <1>29 DEF Next,
    ProcessStep, OpenStep, PublishStep

(* What is sent and shown: it was read from a row that is settled.         *)
LEMMA TellStep ==
  ASSUME TypeOK, TaskInv, JobInv, CheckInv, CommentInv, TellInv, Next
  PROVE  TellInv'
<1> USE PublishAssumption
  DEF TypeOK, Conclusion, Goto, End, Then, Answered, At, fenceVars, workerVars,
      jobVars, markVars, checkVars, commentVars, Fence!Takeover,
      Fence!FencedCommit, TaskInv, JobInv, CheckInv, CommentInv, TellInv,
      Tells, Earned, Settled, Informed, Told, Publishing, ConclusionOf, Marked,
      CommentMarked
<1>1. ASSUME LateCommentLands
      PROVE  TellInv'
  BY <1>1 DEF LateCommentLands
<1>2. ASSUME NEW r \in Run, LateCheckLands(r)
      PROVE  TellInv'
  BY <1>2 DEF LateCheckLands, OneCheck, Checked
<1>3. ASSUME NEW p \in Process, Takeover(p)
      PROVE  TellInv'
  BY <1>3 DEF Takeover
<1>4. ASSUME NEW p \in Process, RecoverJobs(p)
      PROVE  TellInv'
  BY <1>4 DEF RecoverJobs
<1>5. ASSUME NEW p \in Process, RecoverRuns(p)
      PROVE  TellInv'
  BY <1>5 DEF RecoverRuns
<1>6. ASSUME NEW p \in Process,
             Crash(p)
      PROVE  TellInv'
  BY <1>6 DEF Crash
<1>7. ASSUME NEW p \in Process, ProviderFails(p)
      PROVE  TellInv'
  BY <1>7 DEF ProviderFails
<1>8. ASSUME NEW p \in Process, TransactionFails(p)
      PROVE  TellInv'
  BY <1>8 DEF TransactionFails
<1>9. ASSUME NEW p \in Process, NEW r \in Run, Verify(p, r)
      PROVE  TellInv'
  BY <1>9 DEF Verify
<1>10. ASSUME NEW p \in Process, NEW r \in Run, OpenClosed(p, r)
      PROVE  TellInv'
  BY <1>10 DEF OpenClosed
<1>11. ASSUME NEW p \in Process, NEW r \in Run, OpenAnalysis(p, r)
      PROVE  TellInv'
  BY <1>11 DEF OpenAnalysis
<1>12. ASSUME NEW p \in Process, NEW r \in Run, OpenQuotaExceeded(p, r)
      PROVE  TellInv'
  BY <1>12 DEF OpenQuotaExceeded
<1>13. ASSUME NEW p \in Process, NEW r \in Run, OpenExisting(p, r)
      PROVE  TellInv'
  BY <1>13 DEF OpenExisting
<1>14. ASSUME NEW p \in Process, NEW r \in Run, Finish(p, r)
      PROVE  TellInv'
  BY <1>14 DEF Finish
<1>15. ASSUME NEW p \in Process, NEW r \in Run, Load(p, r)
      PROVE  TellInv'
  BY <1>15 DEF Load, Stage, Analysis, Verdict
<1>16. ASSUME NEW p \in Process, NEW r \in Run, LoadExpired(p, r)
      PROVE  TellInv'
  BY <1>16 DEF LoadExpired
<1>17. ASSUME NEW p \in Process, NEW r \in Run, ListChecks(p, r)
      PROVE  TellInv'
  BY <1>17 DEF ListChecks
<1>18. ASSUME NEW p \in Process, NEW r \in Run, IntendCheck(p, r)
      PROVE  TellInv'
  BY <1>18 DEF IntendCheck
<1>19. ASSUME NEW p \in Process, NEW r \in Run, PostCheck(p, r)
      PROVE  TellInv'
  BY <1>19 DEF PostCheck, OneCheck, Checked
<1>20. ASSUME NEW p \in Process, NEW r \in Run, RecordCheck(p, r)
      PROVE  TellInv'
  BY <1>20 DEF RecordCheck
<1>21. ASSUME NEW p \in Process, NEW r \in Run, PatchCheck(p, r)
      PROVE  TellInv'
  BY <1>21 DEF PatchCheck
<1>22. ASSUME NEW p \in Process, NEW r \in Run, ScanComments(p, r)
      PROVE  TellInv'
  BY <1>22 DEF ScanComments
<1>23. ASSUME NEW p \in Process, NEW r \in Run, IntendComment(p, r)
      PROVE  TellInv'
  BY <1>23 DEF IntendComment
<1>24. ASSUME NEW p \in Process, NEW r \in Run, PostComment(p, r)
      PROVE  TellInv'
  BY <1>24 DEF PostComment
<1>25. ASSUME NEW p \in Process, NEW r \in Run, PatchComment(p, r)
      PROVE  TellInv'
  BY <1>25 DEF PatchComment
<1>26. ASSUME NEW p \in Process, NEW r \in Run, Done(p, r)
      PROVE  TellInv'
  BY <1>26 DEF Done, OneCheck, Checked
<1>27. ASSUME NEW p \in Process, NEW r \in Run, StoreError(p, r)
      PROVE  TellInv'
  BY <1>27 DEF StoreError
<1>28. ASSUME NEW p \in Process, NEW r \in Run, StoreExpired(p, r)
      PROVE  TellInv'
  BY <1>28 DEF StoreExpired
<1>29. ASSUME NEW p \in Process, NEW r \in Run, Delete(p, r)
      PROVE  TellInv'
  BY <1>29 DEF Delete
<1> HIDE DEF TellInv
<1> QED BY <1>1, <1>2, <1>3, <1>4, <1>5, <1>6, <1>7, <1>8, <1>9, <1>10, <1>11,
    <1>12, <1>13, <1>14, <1>15, <1>16, <1>17, <1>18, <1>19, <1>20, <1>21,
    <1>22, <1>23, <1>24, <1>25, <1>26, <1>27, <1>28, <1>29 DEF Next,
    ProcessStep, OpenStep, PublishStep

-----------------------------------------------------------------------------
LEMMA InitIInv == Init => IInv
  BY PublishAssumption
  DEF Init, IInv, TypeOK, Phase, Status, Verdict, Analysis, Conclusion, Shown,
      Stage, TaskInv, JobInv, Settled, Informed, Told, Publishing, Checked,
      BillInv, CheckInv, OneCheck, Marked, At, CommentInv, CommentMarked,
      TellInv, Tells, Earned, ConclusionOf, Fence!Init

LEMMA StepIInv == IInv /\ [Next]_vars => IInv'
<1> SUFFICES ASSUME IInv, [Next]_vars PROVE IInv' OBVIOUS
<1>1. CASE Next
  BY <1>1, TypeStep, TaskStep, JobStep, BillStep, CheckStep, CommentStep,
     TellStep DEF IInv
<1>2. CASE UNCHANGED vars
  BY <1>2 DEF vars, fenceVars, workerVars, jobVars, markVars, checkVars,
     commentVars, IInv, TypeOK, TaskInv, JobInv, Settled, BillInv, CheckInv,
     OneCheck, Marked, At, CommentInv, CommentMarked, TellInv, Tells, Earned,
     ConclusionOf
<1> QED BY <1>1, <1>2

(* The inductive invariant holds in every reachable state.                 *)
THEOREM InvariantHolds == Spec => []IInv
  BY InitIInv, StepIInv, PTL DEF Spec

(* Every variable of the publication has its type.                         *)
THEOREM TypeCorrect == Spec => []TypeOK
  BY InvariantHolds, PTL DEF IInv

(* github_publish.publish(): whatever crashes, hand-overs and lost answers *)
(* there are, a run has at most one check and the pull request one comment.*)
THEOREM PublishesOnce == Spec => []PublishedOnce
<1>1. IInv => PublishedOnce
  BY DEF IInv, TypeOK, CheckInv, OneCheck, CommentInv, PublishedOnce
<1> QED BY <1>1, InvariantHolds, PTL

(* A check is successful only for a complete SAFE TO MERGE analysis, even  *)
(* when a process without the lease is the last to write it.               *)
THEOREM SuccessMeansSafe == Spec => []SuccessIsEarned
<1>1. IInv => SuccessIsEarned
  BY DEF IInv, TellInv, Earned, SuccessIsEarned
<1> QED BY <1>1, InvariantHolds, PTL

(* A PUBLISHED run has the check and the comment it claims.                *)
THEOREM PublicationShows == Spec => []PublishedIsVisible
<1>1. IInv => PublishedIsVisible
  BY DEF IInv, TellInv, Tells, PublishedIsVisible
<1> QED BY <1>1, InvariantHolds, PTL

(* process(): the analysis of a run is charged once, however often it is   *)
(* interrupted and repeated.                                               *)
THEOREM ChargesOnce == Spec => []BilledOnce
<1>1. IInv => BilledOnce
  BY DEF IInv, BillInv, BilledOnce
<1> QED BY <1>1, InvariantHolds, PTL
=============================================================================
