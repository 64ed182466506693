---------------------------- MODULE GitHubPublish ----------------------------
(***************************************************************************)
(* From a claimed delivery to its check run and comment: the body of       *)
(* GitHubService.process() and github_publish.publish(), for the runs of   *)
(* one pull request, by the control workers of successive processes.       *)
(*                                                                         *)
(* One action per transaction and per provider mutation; the provider      *)
(* reads between two of them belong to the first.  Whether the pull        *)
(* request and the connection still are what a run was made for            *)
(* (current(), active()) is such a read: it may fail at any time.          *)
(* A process that lost the lease keeps talking to the provider: only its   *)
(* transactions are fenced.  A POST may take effect without an answer, and *)
(* even after its client gave up.                                          *)
(***************************************************************************)
EXTENDS Naturals

CONSTANTS Process,  \* server processes; a restarted server is another one
          Run,      \* run identities: state of the pull request, policy, ...
          None      \* no process, no run

ASSUME PublishAssumption == None \notin Process \cup Run

VARIABLES writer, retired, author,    \* see FencedWriter
          phase,            \* [Process -> Phase]
          stage,            \* [Process -> Stage]: where the worker is
          target,           \* [Process -> Run \cup {None}]
          known,            \* [Process -> BOOLEAN]: run.check_uncertain or
                            \*   run.check_id, as publish() read them
          conclusion,       \* [Process -> Conclusion], as summary() read it
          status,           \* [Run -> Status]: the GitHubRun row
          restarted,        \* [Run -> BOOLEAN]: run.error is SERVER_RESTARTED
          analysis,         \* [Run -> Analysis]: the row run.analysis_id names
          billed,           \* [Run -> Nat]: history, quota() calls that passed
          checkId,          \* [Run -> BOOLEAN]: check_id is set
          checkUncertain,   \* [Run -> BOOLEAN]
          commentUncertain, \* [Run -> BOOLEAN]
          checks,           \* provider: [Run -> Nat], App checks of the run
          shown,            \* provider: [Run -> Shown], state of its check
          comments,         \* provider: App comments on the pull request
          lateChecks,       \* [Run -> Nat]: POSTs given up that may yet land
          lateComments      \* comment POSTs given up that may yet land

fenceVars  == <<writer, retired, author>>
workerVars == <<stage, target, known, conclusion>>
jobVars    == <<status, restarted, analysis, billed>>
markVars   == <<checkId, checkUncertain, commentUncertain>>
checkVars  == <<checks, shown, lateChecks>>
commentVars == <<comments, lateComments>>
vars == <<fenceVars, phase, workerVars, jobVars, markVars, checkVars,
          commentVars>>

Fence == INSTANCE FencedWriter WITH Server <- Process, Nobody <- None

Phase    == {"off", "recovering", "recovered", "ready", "down"}
Status   == {"absent", "PENDING", "READY", "PUBLISHED", "EXPIRED"}

(* SAFE: SAFE TO MERGE and analysis_complete.  OTHER: any other outcome,   *)
(* a failure included.                                                     *)
Verdict  == {"SAFE", "OTHER"}
Analysis == {"none", "RUNNING", "RESTARTED", "DELETED"} \cup Verdict

Conclusion == {"success", "failure"}
Shown      == {"nothing", "in_progress"} \cup Conclusion

(* Stages that end in a transaction, and those that talk to the provider.  *)
InDatabase == {"open", "finish", "intendCheck", "recordCheck",
               "intendComment", "done", "failed", "expired"}
AtProvider == {"load", "list", "postCheck", "patchCheck", "scan",
               "postComment", "patchComment"}
Stage == {"idle"} \cup InDatabase \cup AtProvider

TypeOK ==
    /\ writer \in Process \cup {None}
    /\ retired \subseteq Process
    /\ author \in Process \cup {None}
    /\ phase \in [Process -> Phase]
    /\ stage \in [Process -> Stage]
    /\ target \in [Process -> Run \cup {None}]
    /\ known \in [Process -> BOOLEAN]
    /\ conclusion \in [Process -> Conclusion]
    /\ status \in [Run -> Status]
    /\ restarted \in [Run -> BOOLEAN]
    /\ analysis \in [Run -> Analysis]
    /\ billed \in [Run -> Nat]
    /\ checkId \in [Run -> BOOLEAN]
    /\ checkUncertain \in [Run -> BOOLEAN]
    /\ commentUncertain \in [Run -> BOOLEAN]
    /\ checks \in [Run -> Nat]
    /\ shown \in [Run -> Shown]
    /\ comments \in Nat
    /\ lateChecks \in [Run -> Nat]
    /\ lateComments \in Nat

Init ==
    /\ Fence!Init
    /\ phase = [p \in Process |-> "off"]
    /\ stage = [p \in Process |-> "idle"]
    /\ target = [p \in Process |-> None]
    /\ known = [p \in Process |-> FALSE]
    /\ conclusion = [p \in Process |-> "failure"]
    /\ status = [r \in Run |-> "absent"]
    /\ restarted = [r \in Run |-> FALSE]
    /\ analysis = [r \in Run |-> "none"]
    /\ billed = [r \in Run |-> 0]
    /\ checkId = [r \in Run |-> FALSE]
    /\ checkUncertain = [r \in Run |-> FALSE]
    /\ commentUncertain = [r \in Run |-> FALSE]
    /\ checks = [r \in Run |-> 0]
    /\ shown = [r \in Run |-> "nothing"]
    /\ comments = 0
    /\ lateChecks = [r \in Run |-> 0]
    /\ lateComments = 0

-----------------------------------------------------------------------------
At(p, s, r) == stage[p] = s /\ target[p] = r

(* The task goes on to s; or ends, and forgets its local variables.        *)
Goto(p, s) ==
    /\ stage' = [stage EXCEPT ![p] = s]
    /\ UNCHANGED <<target, known, conclusion>>

End(p) ==
    /\ stage' = [stage EXCEPT ![p] = "idle"]
    /\ target' = [target EXCEPT ![p] = None]
    /\ known' = [known EXCEPT ![p] = FALSE]
    /\ conclusion' = [conclusion EXCEPT ![p] = "failure"]

(* After a commit: on to s, or the commit's answer is lost and the task    *)
(* ends with the delivery left for another attempt.                        *)
Then(p, s) == Goto(p, s) \/ End(p)

(* After the mutation of a provider object: on to s, or no answer.         *)
Answered(p, s) == Goto(p, s) \/ Goto(p, "failed")

-----------------------------------------------------------------------------
(* Processes, recovery and the outside world.                              *)

Takeover(p) ==
    /\ phase[p] = "off"
    /\ Fence!Takeover(p)
    /\ phase' = [phase EXCEPT ![p] = "recovering"]
    /\ UNCHANGED <<workerVars, jobVars, markVars, checkVars, commentVars>>

(* jobs.recover(), for the analyses of runs.                               *)
RecoverJobs(p) ==
    /\ phase[p] = "recovering"
    /\ Fence!FencedCommit(p)
    /\ analysis' = [r \in Run |-> IF analysis[r] = "RUNNING"
                                    THEN "RESTARTED" ELSE analysis[r]]
    /\ phase' = [phase EXCEPT ![p] = "recovered"]
    /\ UNCHANGED <<workerVars, status, restarted, billed, markVars, checkVars,
                   commentVars>>

(* Mutant of RecoverRuns: the run does not remember its restart.           *)
RecoverRunsForgets(p) ==
    /\ phase[p] = "recovered"
    /\ Fence!FencedCommit(p)
    /\ analysis' = [r \in Run |-> IF status[r] = "PENDING" THEN "none"
                                                          ELSE analysis[r]]
    /\ phase' = [phase EXCEPT ![p] = "ready"]
    /\ UNCHANGED <<workerVars, status, restarted, billed, markVars, checkVars,
                   commentVars>>

(* github.recover(), the part about runs: an interrupted analysis will be  *)
(* done again, without a charge.                                           *)
RecoverRuns(p) ==
    /\ phase[p] = "recovered"
    /\ Fence!FencedCommit(p)
    /\ LET pending == {r \in Run : status[r] = "PENDING"}
           again   == {r \in pending : analysis[r] \notin Verdict}
       IN  /\ analysis' = [r \in Run |-> IF r \in again THEN "none"
                                                       ELSE analysis[r]]
           /\ restarted' = [r \in Run |-> r \in pending \/ restarted[r]]
           /\ status' = [r \in Run |-> IF r \in pending \ again THEN "READY"
                                                               ELSE status[r]]
    /\ phase' = [phase EXCEPT ![p] = "ready"]
    /\ UNCHANGED <<workerVars, billed, markVars, checkVars, commentVars>>

Crash(p) ==
    /\ phase[p] \notin {"off", "down"}
    /\ phase' = [phase EXCEPT ![p] = "down"]
    /\ End(p)
    /\ UNCHANGED <<fenceVars, jobVars, markVars, checkVars, commentVars>>

(* A member deletes the analysis, or retention does.                       *)
Delete(p, r) ==
    /\ phase[p] = "ready"
    /\ analysis[r] # "none"
    /\ Fence!FencedCommit(p)
    /\ analysis' = [analysis EXCEPT ![r] = "DELETED"]
    /\ UNCHANGED <<phase, workerVars, status, restarted, billed, markVars,
                   checkVars, commentVars>>

LateCheckLands(r) ==
    /\ lateChecks[r] > 0
    /\ lateChecks' = [lateChecks EXCEPT ![r] = @ - 1]
    /\ checks' = [checks EXCEPT ![r] = @ + 1]
    /\ shown' = [shown EXCEPT ![r] = "in_progress"]
    /\ UNCHANGED <<fenceVars, phase, workerVars, jobVars, markVars,
                   commentVars>>

LateCommentLands ==
    /\ lateComments > 0
    /\ lateComments' = lateComments - 1
    /\ comments' = comments + 1
    /\ UNCHANGED <<fenceVars, phase, workerVars, jobVars, markVars,
                   checkVars>>

-----------------------------------------------------------------------------
(* process(), up to the publication loop.                                  *)

(* The event matches the pull request as the provider reports it.          *)
Verify(p, r) ==
    /\ phase[p] = "ready" /\ stage[p] = "idle"
    /\ target' = [target EXCEPT ![p] = r]
    /\ stage' = [stage EXCEPT ![p] = "open"]
    /\ UNCHANGED <<known, conclusion>>
    /\ UNCHANGED <<fenceVars, phase, jobVars, markVars, checkVars,
                   commentVars>>

(* The transaction that creates the run, charges it and starts its         *)
(* analysis, as far as that has not been done.                             *)
OpenClosed(p, r) ==
    /\ At(p, "open", r)
    /\ status[r] \in {"PUBLISHED", "EXPIRED"}
    /\ End(p)
    /\ UNCHANGED <<fenceVars, phase, jobVars, markVars, checkVars,
                   commentVars>>

OpenAnalysis(p, r) ==
    /\ At(p, "open", r)
    /\ status[r] \in {"absent", "PENDING"}
    /\ analysis[r] = "none"
    /\ Fence!FencedCommit(p)
    /\ billed' = [billed EXCEPT ![r] = IF restarted[r] THEN @ ELSE @ + 1]
    /\ status' = [status EXCEPT ![r] = "PENDING"]
    /\ analysis' = [analysis EXCEPT ![r] = "RUNNING"]
    /\ restarted' = [restarted EXCEPT ![r] = FALSE]
    /\ Then(p, "finish")
    /\ UNCHANGED <<phase, markVars, checkVars, commentVars>>

OpenQuotaExceeded(p, r) ==
    /\ At(p, "open", r)
    /\ status[r] \in {"absent", "PENDING"}
    /\ analysis[r] = "none"
    /\ ~restarted[r]
    /\ Fence!FencedCommit(p)
    /\ status' = [status EXCEPT ![r] = "READY"]
    /\ Then(p, "load")
    /\ UNCHANGED <<phase, restarted, analysis, billed, markVars, checkVars,
                   commentVars>>

OpenExisting(p, r) ==
    /\ At(p, "open", r)
    /\ status[r] = "READY" \/ (status[r] = "PENDING" /\ analysis[r] # "none")
    /\ Fence!FencedCommit(p)
    /\ Then(p, IF status[r] = "PENDING" THEN "finish" ELSE "load")
    /\ UNCHANGED <<phase, jobVars, markVars, checkVars, commentVars>>

(* jobs.finish(), with whatever the snapshots and the worker came to.      *)
Finish(p, r) ==
    /\ At(p, "finish", r)
    /\ Fence!FencedCommit(p)
    /\ IF analysis[r] = "RUNNING"
         THEN /\ \E v \in Verdict : analysis' = [analysis EXCEPT ![r] = v]
              /\ status' = [status EXCEPT ![r] = "READY"]
              /\ restarted' = [restarted EXCEPT ![r] = FALSE]
         ELSE UNCHANGED <<analysis, status, restarted>>
    /\ Then(p, "load")
    /\ UNCHANGED <<phase, billed, markVars, checkVars, commentVars>>

-----------------------------------------------------------------------------
(* publish().                                                              *)

(* Mutants of ConclusionOf: whatever is not a bad result passes; the       *)
(* decision itself is sent.                                                *)
ConclusionUnlessBad(r) ==
    IF analysis[r] = "OTHER" THEN "failure" ELSE "success"
ConclusionIsDecision(r) == analysis[r]

ConclusionOf(r) == IF analysis[r] = "SAFE" THEN "success" ELSE "failure"

(* The run and its summary are read.                                       *)
Load(p, r) ==
    /\ At(p, "load", r)
    /\ analysis[r] # "DELETED"
    /\ known' = [known EXCEPT ![p] = checkUncertain[r] \/ checkId[r]]
    /\ conclusion' = [conclusion EXCEPT ![p] = ConclusionOf(r)]
    /\ stage' = [stage EXCEPT ![p] = "list"]
    /\ UNCHANGED <<fenceVars, phase, target, jobVars, markVars, checkVars,
                   commentVars>>

(* Deleted, or older than the retention of the organization.               *)
LoadExpired(p, r) ==
    /\ At(p, "load", r)
    /\ Goto(p, "expired")
    /\ UNCHANGED <<fenceVars, phase, jobVars, markVars, checkVars,
                   commentVars>>

(* A check of this run is reused; none may be created if one was intended. *)
ListChecks(p, r) ==
    /\ At(p, "list", r)
    /\ stage' = [stage EXCEPT ![p] =
                   IF checks[r] > 1 THEN "failed"
                   ELSE IF checks[r] = 1 THEN "recordCheck"
                   ELSE IF known[p] THEN "failed" ELSE "intendCheck"]
    /\ known' = [known EXCEPT ![p] = FALSE]     \* not used again
    /\ UNCHANGED <<target, conclusion>>
    /\ UNCHANGED <<fenceVars, phase, jobVars, markVars, checkVars,
                   commentVars>>

IntendCheck(p, r) ==
    /\ At(p, "intendCheck", r)
    /\ Fence!FencedCommit(p)
    /\ checkUncertain' = [checkUncertain EXCEPT ![r] = TRUE]
    /\ Then(p, "postCheck")
    /\ UNCHANGED <<phase, jobVars, checkId, commentUncertain, checkVars,
                   commentVars>>

(* Created; or given up before it is.                                      *)
PostCheck(p, r) ==
    /\ At(p, "postCheck", r)
    /\ \/ /\ checks' = [checks EXCEPT ![r] = @ + 1]
          /\ shown' = [shown EXCEPT ![r] = "in_progress"]
          /\ Answered(p, "recordCheck")
          /\ UNCHANGED lateChecks
       \/ /\ lateChecks' = [lateChecks EXCEPT ![r] = @ + 1]
          /\ Goto(p, "failed")
          /\ UNCHANGED <<checks, shown>>
    /\ UNCHANGED <<fenceVars, phase, jobVars, markVars, commentVars>>

RecordCheck(p, r) ==
    /\ At(p, "recordCheck", r)
    /\ Fence!FencedCommit(p)
    /\ checkId' = [checkId EXCEPT ![r] = TRUE]
    /\ checkUncertain' = [checkUncertain EXCEPT ![r] = FALSE]
    /\ Then(p, "patchCheck")
    /\ UNCHANGED <<phase, jobVars, commentUncertain, checkVars, commentVars>>

PatchCheck(p, r) ==
    /\ At(p, "patchCheck", r)
    /\ shown' = [shown EXCEPT ![r] = conclusion[p]]
    /\ stage' \in {[stage EXCEPT ![p] = s] : s \in {"scan", "failed"}}
    /\ conclusion' = [conclusion EXCEPT ![p] = "failure"]    \* not used again
    /\ UNCHANGED <<fenceVars, phase, target, known, jobVars, markVars, checks,
                   lateChecks, commentVars>>

ScanComments(p, r) ==
    /\ At(p, "scan", r)
    /\ Goto(p, IF comments > 1 THEN "failed"
               ELSE IF comments = 1 THEN "patchComment" ELSE "intendComment")
    /\ UNCHANGED <<fenceVars, phase, jobVars, markVars, checkVars,
                   commentVars>>

(* Mutants of IntendComment: each run looks at its own mark only; a mark   *)
(* is taken for the comment itself.                                        *)
IntendCommentOwnMark(p, r) ==
    /\ At(p, "intendComment", r)
    /\ Fence!FencedCommit(p)
    /\ ~commentUncertain[r]
    /\ commentUncertain' = [commentUncertain EXCEPT ![r] = TRUE]
    /\ Then(p, "postComment")
    /\ UNCHANGED <<phase, jobVars, checkId, checkUncertain, checkVars,
                   commentVars>>

IntendCommentTrusts(p, r) ==
    /\ At(p, "intendComment", r)
    /\ Fence!FencedCommit(p)
    /\ IF \E q \in Run : commentUncertain[q]
         THEN Goto(p, "done") /\ UNCHANGED commentUncertain
         ELSE /\ commentUncertain' = [commentUncertain EXCEPT ![r] = TRUE]
              /\ Then(p, "postComment")
    /\ UNCHANGED <<phase, jobVars, checkId, checkUncertain, checkVars,
                   commentVars>>

(* The marks of every run of the pull request count.                       *)
IntendComment(p, r) ==
    /\ At(p, "intendComment", r)
    /\ Fence!FencedCommit(p)
    /\ IF \E q \in Run : commentUncertain[q]
         THEN Goto(p, "failed") /\ UNCHANGED commentUncertain
         ELSE /\ commentUncertain' = [commentUncertain EXCEPT ![r] = TRUE]
              /\ Then(p, "postComment")
    /\ UNCHANGED <<phase, jobVars, checkId, checkUncertain, checkVars,
                   commentVars>>

PostComment(p, r) ==
    /\ At(p, "postComment", r)
    /\ \/ /\ comments' = comments + 1
          /\ Answered(p, "done")
          /\ UNCHANGED lateComments
       \/ /\ lateComments' = lateComments + 1
          /\ Goto(p, "failed")
          /\ UNCHANGED comments
    /\ UNCHANGED <<fenceVars, phase, jobVars, markVars, checkVars>>

(* The one comment gets the text of this run.                              *)
PatchComment(p, r) ==
    /\ At(p, "patchComment", r)
    /\ Answered(p, "done")
    /\ UNCHANGED <<fenceVars, phase, jobVars, markVars, checkVars,
                   commentVars>>

(* The marks of every run of the pull request are cleared.                 *)
Done(p, r) ==
    /\ At(p, "done", r)
    /\ Fence!FencedCommit(p)
    /\ commentUncertain' = [q \in Run |-> FALSE]
    /\ status' = [status EXCEPT ![r] = "PUBLISHED"]
    /\ End(p)
    /\ UNCHANGED <<phase, restarted, analysis, billed, checkId,
                   checkUncertain, checkVars, commentVars>>

-----------------------------------------------------------------------------
(* Failures.                                                               *)

(* A read, a comparison or a mutation without effect raises GitHubError.   *)
ProviderFails(p) ==
    /\ stage[p] \in AtProvider \cup {"intendCheck"}
    /\ Goto(p, "failed")
    /\ UNCHANGED <<fenceVars, phase, jobVars, markVars, checkVars,
                   commentVars>>

(* A transaction without effect raises LeaseLost or SQLAlchemyError, or    *)
(* the service is stopping: the delivery is left for another attempt.      *)
TransactionFails(p) ==
    /\ stage[p] \in InDatabase
    /\ End(p)
    /\ UNCHANGED <<fenceVars, phase, jobVars, markVars, checkVars,
                   commentVars>>

(* except GitHubError in the publication loop: another pass, or the task   *)
(* ends.  The limit of two passes is left out.                             *)
StoreError(p, r) ==
    /\ At(p, "failed", r)
    /\ Fence!FencedCommit(p)
    /\ restarted' = [restarted EXCEPT ![r] = FALSE]
    /\ Goto(p, "load") \/ End(p)
    /\ UNCHANGED <<phase, status, analysis,
                   billed, markVars, checkVars, commentVars>>

StoreExpired(p, r) ==
    /\ At(p, "expired", r)
    /\ Fence!FencedCommit(p)
    /\ status' = [status EXCEPT ![r] = "EXPIRED"]
    /\ restarted' = [restarted EXCEPT ![r] = FALSE]
    /\ End(p)
    /\ UNCHANGED <<phase, analysis, billed, markVars, checkVars, commentVars>>

-----------------------------------------------------------------------------
ProcessStep(p) ==
    \/ Takeover(p) \/ RecoverJobs(p) \/ RecoverRuns(p) \/ Crash(p)
    \/ ProviderFails(p) \/ TransactionFails(p)

OpenStep(p, r) ==
    \/ Verify(p, r) \/ OpenClosed(p, r) \/ OpenAnalysis(p, r)
    \/ OpenQuotaExceeded(p, r) \/ OpenExisting(p, r) \/ Finish(p, r)

PublishStep(p, r) ==
    \/ Load(p, r) \/ LoadExpired(p, r)
    \/ ListChecks(p, r) \/ IntendCheck(p, r) \/ PostCheck(p, r)
    \/ RecordCheck(p, r) \/ PatchCheck(p, r)
    \/ ScanComments(p, r) \/ IntendComment(p, r) \/ PostComment(p, r)
    \/ PatchComment(p, r) \/ Done(p, r)
    \/ StoreError(p, r) \/ StoreExpired(p, r)

Next ==
    \/ LateCommentLands
    \/ \E r \in Run : LateCheckLands(r)
    \/ \E p \in Process :
         \/ ProcessStep(p)
         \/ \E r \in Run : OpenStep(p, r) \/ PublishStep(p, r) \/ Delete(p, r)

Spec == Init /\ [][Next]_vars

-----------------------------------------------------------------------------
(* "If it cannot be found, publication stops ... rather than creating      *)
(* another object" (docs/github.md, Publication and bounds) and "Exactly   *)
(* one marked comment is updated": a run never has two check runs and the  *)
(* pull request never two comments of the App, across crashes, handovers,  *)
(* lost answers and POSTs that land late, whichever runs and processes     *)
(* publish on it.                                                          *)
PublishedOnce == (\A r \in Run : checks[r] <= 1) /\ comments <= 1

(* "Only a complete SAFE TO MERGE result produces a successful check."     *)
SuccessIsEarned ==
    \A r \in Run : shown[r] = "success" => analysis[r] \in {"SAFE", "DELETED"}

(* A PUBLISHED run has a completed check that tells its analysis, and the  *)
(* pull request has a comment.                                             *)
PublishedIsVisible ==
    \A r \in Run :
        status[r] = "PUBLISHED" =>
            /\ comments = 1
            /\ shown[r] \in Conclusion
            /\ analysis[r] # "DELETED" => shown[r] = ConclusionOf(r)

(* However often its analysis is interrupted and repeated, a run is        *)
(* charged to the quota once (run.error, github_service.py:170-185 and     *)
(* 672-676; within a calendar month, the later ones are not modelled).     *)
BilledOnce == \A r \in Run : billed[r] <= 1
=============================================================================
