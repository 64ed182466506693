------------------------------ MODULE LocalGate ------------------------------
(***************************************************************************)
(* The gate from end to end, as one process runs it: the command line      *)
(* (cli.py) on two git refs, on a pull_request event, on two directories   *)
(* or on a plan, and the worker process (server/worker.py) on uploaded     *)
(* files or an uploaded plan.  Terraform text goes in; a decision, an exit *)
(* code and the files of a report come out.                                *)
(*                                                                         *)
(* Git refs move while the command runs, and every write may fail.  The    *)
(* two analyses, the comparison and the decision are those of Verdict.tla, *)
(* which also runs alone here, on graphs built by hand (stage "engine").   *)
(***************************************************************************)
EXTENDS Verdict, Landscape, Remediation

(* What a run is given.  `policy' is the file of the trusted side (base    *)
(* commit, before directory, snapshot of the organization), `given' that   *)
(* of --policy, `dir' that of --terraform-dir: sequences of length 0 or 1. *)
CONSTANT Worlds

Form == {"git", "action", "dirs", "plan", "worker files", "worker plan"}

(* A policy file sets some keys; "typo" stands for one nobody knows and for*)
(* a value of the wrong type.                                              *)
PolicyKeys == DOMAIN DefaultPolicy \cup {"terraform_dir", "typo"}
Directories == {"infra", "other"}

ValuesOf(key) ==
    CASE key = "minimum_security_score" -> Int
      [] key = "terraform_dir" -> Directories
      [] OTHER -> BOOLEAN

IsPolicyFile(file) ==
    /\ DOMAIN file \subseteq PolicyKeys
    /\ \A key \in DOMAIN file : file[key] \in ValuesOf(key)

(* Terraform makes no plan that names a policy nobody declares.            *)
ASSUME WorldAssumption ==
    \A w \in Worlds :
       /\ w.form \in Form
       /\ {w.before, w.after} \subseteq Landscapes
       /\ \A file \in {w.policy, w.given} :
             file # <<>> => file = <<file[1]>> /\ IsPolicyFile(file[1])
       /\ w.dir = <<>> \/ w.dir \in {<<name>> : name \in Directories}
       /\ w.form \in {"plan", "worker plan"} => w.style # "policy missing"
       /\ w.form \in {"worker files", "worker plan"} =>
             w.given = <<>> /\ w.dir = <<>>

VARIABLES world,    \* what it was given, <<>> when the engine runs alone
          stage,    \* what the process does next
          refs,     \* the commit each ref names now
          pinned,   \* GitComparison.base_sha, head_sha
          input,    \* what the two sides are parsed from, <<>> before that
          configs,  \* the two parsed configurations, <<>> before that
          root,     \* GitComparison.terraform_dir
          rules,    \* args.resolved_policy
          strict,   \* --fail-on-review
          exit,     \* exit code, 3 while there is none
          left,     \* artifacts still to write
          files,    \* what the artifacts say
          comment   \* the comment on the pull request

local == <<refs, pinned, input, configs, root, rules, strict, exit, left,
           files, comment>>
gateVars == <<vars, world, stage, local>>

W == world[1]
Git == W.form \in {"git", "action"}
Worker == W.form \in {"worker files", "worker plan"}
FromPlan == W.form \in {"plan", "worker plan"}

-----------------------------------------------------------------------------
(* The repository: two commits, and one that a ref may move to.  A head    *)
(* commit brings its own policy, which blocks nothing and names another    *)
(* directory.                                                              *)

Closed == [open |-> [g \in Groups |-> {}], attached |-> {}, access |-> {},
           public |-> {}, blocked |-> FALSE, sensitive |-> {}]

LaxPolicy == [block_new_critical_paths |-> FALSE,
              block_new_sensitive_exposure |-> FALSE,
              block_public_admin_ports |-> FALSE,
              terraform_dir |-> "other"]

Commit == {"base", "head", "moved"}

Truth(commit) ==
    CASE commit = "moved" -> Closed
      [] commit = "head" -> W.after
      [] OTHER -> IF FromPlan THEN Older(W.before, W.style) ELSE W.before

PolicyIn(commit) == IF commit = "base" THEN W.policy ELSE <<LaxPolicy>>

(* terraform_directories().                                                *)
Roots(commit) ==
    (IF W.style = "removed" /\ commit = "head" THEN {} ELSE {"infra"})
    \cup (IF W.style = "two roots" THEN {"other"} ELSE {})

Files(commit) ==
    LET found == IF root = "other" THEN Directory(Closed, "plain")
                 ELSE Directory(Truth(commit), W.style)
    IN  IF root \in Roots(commit) THEN found
        ELSE [found EXCEPT !.text = "none"]

(* materialize() copies the names that end in .tf and no others.           *)
Snapshotted(commit) == [Files(commit) EXCEPT !.json = FALSE]

(* What there is to parse without a repository.                            *)
Given(s) ==
    IF FromPlan THEN Plan(W.before, W.after, W.style)
    ELSE Directory(Truth(s), W.style)

End == {"base", "head"}
Phase(s) == IF s = "base" THEN "before" ELSE "after"

Config(s) ==
    IF FromPlan THEN ParsePlan(input[s], Phase(s))
    ELSE ParseDirectory(input[s])

InputFails ==
    \E s \in End :
       IF FromPlan THEN PlanFails(input[s]) ELSE DirectoryFails(input[s])

HasDuplicates(config) ==
    \E r \in Range(config.resources) :
       Cardinality(Copies(config, r.address)) > 1

-----------------------------------------------------------------------------
(* load_policy_data(): a file, once there is one, also blocks new public   *)
(* administrative ports unless it says otherwise.                          *)
FileDefaults == [DefaultPolicy EXCEPT !.block_public_admin_ports = TRUE]

Load(file) ==
    [key \in DOMAIN FileDefaults |->
        IF key \in DOMAIN file THEN file[key] ELSE FileDefaults[key]]

PolicyBroken(file) ==
    \/ "typo" \in DOMAIN file
    \/ Load(file).minimum_security_score \notin 0..100

(* The policy among the files of one side, or the defaults.                *)
Found(file) == IF file = <<>> THEN DefaultPolicy ELSE Load(file[1])
DirOf(file) ==
    IF file # <<>> /\ "terraform_dir" \in DOMAIN file[1]
    THEN <<file[1].terraform_dir>> ELSE <<>>

-----------------------------------------------------------------------------
(* write_delivery(): the files of --report-dir, --github-output and        *)
(* --github-summary, in this order.                                        *)
Artifact == {"report.md", "result.json", "output", "summary", "comment.md",
             "answer"}
Deliverables ==
    <<"report.md", "result.json">>
    \o (IF W.form = "action" THEN <<"output", "summary">> ELSE <<>>)
Said == {"nothing", "partial", "SAFE", "REVIEW", "BLOCK", "ERROR", "refused"}

Pins == [n \in End |-> n]

LocalInit ==
    /\ refs = Pins /\ pinned = Pins
    /\ input = [s \in End |-> <<>>] /\ configs = <<>>
    /\ root = "infra" /\ rules = <<>> /\ strict = TRUE
    /\ exit = 3 /\ left = <<>>
    /\ files = [a \in Artifact |-> "nothing"] /\ comment = "nothing"

GateInit ==
    /\ LocalInit
    /\ \/ VerdictInit /\ world = <<>> /\ stage = "engine"
       \/ /\ world \in {<<w>> : w \in Worlds} /\ stage = "asked"
          /\ StartWith(BuildGraph({})) /\ side = "idle"
          /\ before = Nothing /\ diff = Nothing
          /\ policy = DefaultPolicy /\ decision = "none"

Engine ==
    /\ stage = "engine" /\ Next
    /\ UNCHANGED <<world, stage, local>>

(* EXIT_USAGE: run() turns to deliver_error().  The worker has one answer. *)
Fail ==
    /\ exit' = 2
    /\ IF Worker
       THEN /\ stage' = "ended"
            /\ files' = [files EXCEPT !["answer"] = "ERROR"]
            /\ UNCHANGED left
       ELSE stage' = "error" /\ left' = Deliverables /\ UNCHANGED files
    /\ UNCHANGED <<vars, world, refs, pinned, input, configs, root, rules,
                   strict, comment>>

Go(next) ==
    /\ stage' = next
    /\ UNCHANGED <<vars, world, strict, exit, left, files, comment>>

(* The arguments, the event of an action, and --policy.                    *)
Ask ==
    /\ stage = "asked"
    /\ \/ W.form = "action" /\ Fail                \* GitHubContextError
       \/ W.given # <<>> /\ PolicyBroken(W.given[1]) /\ Fail
       \/ /\ W.given # <<>> => ~PolicyBroken(W.given[1])
          /\ rules' = IF W.given = <<>> THEN <<>> ELSE <<Load(W.given[1])>>
          /\ input' = IF Git THEN input ELSE [s \in End |-> Given(s)]
          /\ Go(IF Git THEN "base ref" ELSE "parse")
          /\ UNCHANGED <<refs, pinned, configs, root>>

(* resolve_ref(), of the base and then of the head; an action names SHAs.  *)
PinRef(s) ==
    /\ stage = IF s = "base" THEN "base ref" ELSE "head ref"
    /\ \/ Fail                                           \* RefNotFound
       \/ /\ pinned' = [pinned EXCEPT ![s] =
                           IF W.form = "action" THEN s ELSE refs[s]]
          /\ Go(IF s = "base" THEN "head ref" ELSE "root")
          /\ UNCHANGED <<refs, input, configs, root, rules>>

(* --terraform-dir, that of --policy, or that of the base commit.          *)
TrustedDir ==
    IF W.dir # <<>> THEN W.dir
    ELSE IF DirOf(W.given) # <<>> THEN DirOf(W.given)
    ELSE DirOf(PolicyIn(pinned["base"]))

BasePolicyBroken ==
    LET file == PolicyIn(pinned["base"])
    IN  file # <<>> /\ PolicyBroken(file[1])

(* _select_directory().                                                    *)
SelectRoot ==
    /\ stage = "root"
    /\ LET candidates == Roots(pinned["base"]) \cup Roots(pinned["head"])
           known == W.dir # <<>> \/ DirOf(W.given) # <<>>
       IN  \/ ~known /\ BasePolicyBroken /\ Fail           \* PolicyError
           \/ /\ known \/ ~BasePolicyBroken
              /\ TrustedDir = <<>> /\ Cardinality(candidates) # 1
              /\ Fail               \* NoTerraformFiles, AmbiguousTerraformDir
           \/ /\ known \/ ~BasePolicyBroken
              /\ TrustedDir # <<>> \/ Cardinality(candidates) = 1
              /\ root' \in IF TrustedDir # <<>> THEN Range(TrustedDir)
                           ELSE candidates
              /\ Go("base files")
              /\ UNCHANGED <<refs, pinned, input, configs, rules>>

(* Mutant of Materialize: the files are read from the ref once more.       *)
MaterializeRef(s) ==
    /\ stage = IF s = "base" THEN "base files" ELSE "head files"
    /\ input' = [input EXCEPT ![s] = Snapshotted(refs[s])]
    /\ Go(IF s = "base" THEN "head files" ELSE "rules")
    /\ UNCHANGED <<refs, pinned, configs, root, rules>>

(* materialize(), of the pinned commits.                                   *)
Materialize(s) ==
    /\ stage = IF s = "base" THEN "base files" ELSE "head files"
    /\ input' = [input EXCEPT ![s] = Snapshotted(pinned[s])]
    /\ Go(IF s = "base" THEN "head files" ELSE "rules")
    /\ UNCHANGED <<refs, pinned, configs, root, rules>>

(* The end of prepare_comparison(), then base_policy().                    *)
ReadBasePolicy ==
    LET missing == \E s \in End : input[s].text = "none"
        broken == rules = <<>> /\ BasePolicyBroken
    IN  /\ stage = "rules"
        /\ \/ (missing \/ broken) /\ Fail
           \/ /\ ~missing /\ ~broken
              /\ rules' = IF rules # <<>> THEN rules
                          ELSE <<Found(PolicyIn(pinned["base"]))>>
              /\ Go("parse")
              /\ UNCHANGED <<refs, pinned, input, configs, root>>

(* Refs move under the command as long as it looks at the repository, and  *)
(* under an action that is about to comment.                               *)
MoveRef ==
    /\ \/ /\ stage \in {"base ref", "head ref", "root", "base files",
                        "head files"}
          /\ W.form = "git"
       \/ stage \in {"ended", "publish"} /\ W.form = "action"
    /\ \E s \in End :
          refs[s] # "moved" /\ refs' = [refs EXCEPT ![s] = "moved"]
    /\ UNCHANGED <<vars, world, stage, pinned, input, configs, root, rules,
                   strict, exit, left, files, comment>>

-----------------------------------------------------------------------------
(* Both sides are parsed before the first is analyzed.                     *)
Parse ==
    /\ stage = "parse"
    /\ \/ InputFails /\ Fail
       \/ /\ ~InputFails
          /\ configs' = [s \in End |-> Config(s)]
          /\ Go("build")
          /\ UNCHANGED <<refs, pinned, input, root, rules>>

(* analyze_input() refuses a configuration some of which build_graph()     *)
(* would drop.                                                             *)
Build ==
    LET refused == Worker /\ \E s \in End : HasDuplicates(configs[s])
    IN  /\ stage = "build"
        /\ \/ refused /\ Fail
           \/ /\ ~refused
              /\ Restart(BuildGraph(Findings(configs["base"])))
              /\ side' = "before" /\ stage' = "search"
              /\ UNCHANGED <<verdictVars, world, local>>

(* The two analyses, and compare().                                        *)
Analyze ==
    /\ stage = "search"
    /\ \/ Search
       \/ StartAfter(Findings(configs["head"]), ~Complete(configs["base"]))
    /\ UNCHANGED <<world, stage, local>>

CompareSides ==
    /\ stage = "search"
    /\ CompareWith(~Complete(configs["head"]))
    /\ stage' = "report"
    /\ UNCHANGED <<world, local>>

(* _report(): the policy that was resolved, or the one discover_policy()   *)
(* finds beside the before directory or the plan.  A worker has that of    *)
(* its payload.  Whether REVIEW passes is an option of the command; the    *)
(* workflow says no, and `passed' of a worker's result is SAFE.            *)
Report ==
    LET broken == rules = <<>> /\ W.policy # <<>> /\ PolicyBroken(W.policy[1])
    IN  /\ stage = "report"
        /\ \/ broken /\ Fail
           \/ /\ ~broken
              /\ DecideWith(IF rules # <<>> THEN rules[1] ELSE Found(W.policy))
              /\ strict' \in IF Worker \/ W.form = "action" THEN {TRUE}
                             ELSE BOOLEAN
              /\ stage' = CASE Worker -> "answer"
                             [] W.form = "action" -> "deliver"
                             [] OTHER -> "comment file"
              /\ left' = IF Worker THEN <<>> ELSE Deliverables
              /\ UNCHANGED <<world, refs, pinned, input, configs, root, rules,
                             exit, files, comment>>

ExitCode ==
    IF decision \in (IF strict THEN {"SAFE"} ELSE {"SAFE", "REVIEW"})
    THEN 0 ELSE 1

(* validate_result(), of the process that reads the worker's answer.       *)
ResultRefused ==
    LET after == Result(~Complete(configs["head"]))
        complete == before.complete /\ after.complete
    IN  \/ diff.complete # complete
        \/ complete /\ truncated
        \/ decision = "SAFE" /\ ~complete
        \/ diff.scores # <<before.score, after.score>>

Answer ==
    /\ stage = "answer"
    /\ files' = [files EXCEPT !["answer"] =
                    IF ResultRefused THEN "refused" ELSE decision]
    /\ exit' = IF ResultRefused THEN 2 ELSE ExitCode
    /\ stage' = "ended"
    /\ UNCHANGED <<vars, world, refs, pinned, input, configs, root, rules,
                   strict, left, comment>>

-----------------------------------------------------------------------------
(* Writes.  One that fails has truncated the file, or has not opened it.   *)

Written(a, said) == files' = [files EXCEPT ![a] = said]
NotWritten(a) == files' \in {files, [files EXCEPT ![a] = "partial"]}

writeVars == <<vars, world, refs, pinned, input, configs, root, rules, strict,
               comment>>

Interrupted(a) ==
    /\ NotWritten(a)
    /\ exit' = 2 /\ stage' = "error" /\ left' = Deliverables
    /\ UNCHANGED writeVars

(* --comment-file, where it is given.                                      *)
WriteCommentFile ==
    /\ stage = "comment file"
    /\ \/ Interrupted("comment.md")
       \/ /\ Written("comment.md", decision) \/ UNCHANGED files
          /\ stage' = "deliver"
          /\ UNCHANGED <<writeVars, exit, left>>

(* Mutant of Deliver: a file that cannot be written is passed over.        *)
DeliverRest ==
    /\ stage = "deliver"
    /\ NotWritten(Head(left)) \/ Written(Head(left), decision)
    /\ left' = Tail(left)
    /\ stage' = IF Tail(left) = <<>> THEN "print" ELSE "deliver"
    /\ UNCHANGED <<writeVars, exit>>

(* write_delivery() for deliver_success().                                 *)
Deliver ==
    /\ stage = "deliver"
    /\ \/ Interrupted(Head(left))
       \/ /\ Written(Head(left), decision)
          /\ left' = Tail(left)
          /\ stage' = IF Tail(left) = <<>> THEN "print" ELSE "deliver"
          /\ UNCHANGED <<writeVars, exit>>

(* The report on standard output, and the exit code.                       *)
PrintReport ==
    /\ stage = "print"
    /\ \/ Fail
       \/ /\ exit' = ExitCode /\ stage' = "ended"
          /\ UNCHANGED <<writeVars, left, files>>

(* deliver_error(): the files are written anew; it gives up at the first   *)
(* that cannot be.                                                         *)
DeliverError ==
    /\ stage = "error"
    /\ \/ NotWritten(Head(left)) /\ UNCHANGED left /\ stage' = "ended"
       \/ /\ Written(Head(left), "ERROR")
          /\ left' = Tail(left)
          /\ stage' = IF Tail(left) = <<>> THEN "ended" ELSE "error"
    /\ UNCHANGED <<writeVars, exit>>

(* github_pr.publish_report(), which the workflow runs after exit 0 or 1:  *)
(* the head of the pull request is looked at, then report.md is posted.    *)
CheckHead ==
    /\ stage = "ended" /\ W.form = "action" /\ exit \in {0, 1}
    /\ stage' = IF refs["head"] = pinned["head"] THEN "publish" ELSE "stale"
    /\ UNCHANGED <<vars, world, local>>

PostComment ==
    /\ stage = "publish"
    /\ stage' = "published"
    /\ comment' \in {comment, files["report.md"]}           \* GitHubError
    /\ UNCHANGED <<vars, world, refs, pinned, input, configs, root, rules,
                   strict, exit, left, files>>

GateNext ==
    \/ Engine
    \/ Ask
    \/ \E s \in End : PinRef(s) \/ Materialize(s)
    \/ SelectRoot \/ ReadBasePolicy \/ MoveRef
    \/ Parse \/ Build \/ Analyze \/ CompareSides \/ Report \/ Answer
    \/ WriteCommentFile \/ Deliver \/ PrintReport
    \/ DeliverError
    \/ CheckHead \/ PostComment

GateSpec == GateInit /\ [][GateNext]_gateVars

-----------------------------------------------------------------------------
(* What a run is really about: the landscapes of the commits it pinned, in *)
(* the directory the trusted side names, and the rules of that side.       *)

Meant(s) ==
    CASE ~Git -> Truth(s)
      [] Git /\ root = "other"
         /\ <<"other">> \in {W.dir, DirOf(W.given),
                             DirOf(PolicyIn(pinned["base"]))} -> Closed
      [] OTHER -> Truth(pinned[s])

TrustedRules ==
    IF W.given # <<>> THEN Load(W.given[1])
    ELSE IF Git THEN Found(PolicyIn(pinned["base"]))
    ELSE Found(W.policy)

(* What the program's own edits should lead to: no administrative port and *)
(* no public ACL any more, or SSH open everywhere.                         *)
Repaired(l) ==
    [l EXCEPT !.open = [g \in Groups |-> @[g] \ {"admin", "all"}],
              !.public = @ \ {"acl"}]
Opened(l) == [l EXCEPT !.open = [g \in Groups |-> @[g] \cup {"admin"}]]

(* The paths to sensitive data of the landscapes, whatever any text says.  *)
TrueCriticalPaths ==
    [l \in {Closed} \cup {Older(w.before, w.style) : w \in Worlds}
           \cup UNION {{w.before, w.after, Repaired(w.after)} :
                       w \in Worlds} |->
        {p \in SimplePaths(TrueEdges(l)) : ReachesSensitive(p)}]

(* Types; every finding of a text is one of the candidates, so that the    *)
(* graph drops none.                                                       *)
GateTypeOK ==
    /\ TypeOK
    /\ Len(world) \in 0..1
    /\ refs \in [End -> Commit]
    /\ pinned \in [End -> Commit]
    /\ DOMAIN input = End
    /\ DOMAIN configs \in {{}, End}
    /\ root \in Directories
    /\ Len(rules) \in 0..1 /\ Range(rules) \subseteq Policy
    /\ strict \in BOOLEAN /\ exit \in 0..3
    /\ Range(left) \subseteq Artifact
    /\ files \in [Artifact -> Said] /\ comment \in Said

(* What the coverage checks call complete is complete: the graph then has  *)
(* the edges of the landscape, all of them and no others, however the      *)
(* landscape was written down and whichever parser read it (coverage.py,   *)
(* plan_parser.py, rules.py; docs/coverage.md: anything else is diagnosed).*)
CompleteIsExact ==
    stage = "report" =>
       \A s \in End :
          Complete(configs[s]) =>
             {EdgeOf(f) : f \in Findings(configs[s])} = TrueEdges(Meant(s))

(* A command that passes a change saw the change: the commits it pinned    *)
(* open no new path to sensitive data, in the directory and under the      *)
(* rules of the trusted side, and no new administrative port where these   *)
(* rules forbid one.  Refs that move, a candidate that brings a policy of  *)
(* its own, and text the parsers cannot read do not help it through.       *)
PassIsEarned ==
    stage = "ended" /\ exit = 0 /\ (strict \/ diff.complete) =>
       /\ strict \/ TrustedRules.block_new_critical_paths =>
             TrueCriticalPaths[Meant("head")] \subseteq
                TrueCriticalPaths[Meant("base")]
       /\ TrustedRules.block_public_admin_ports =>
             \A g \in Groups :
                Meant("head").open[g] \cap {"admin", "all"} \subseteq
                   Meant("base").open[g]

(* The files of a run say what its exit code says.  After a failure none   *)
(* of them still claims a pass, unless the failure could not be written    *)
(* either; and what is posted is the decision itself (docs/cli.md: a       *)
(* failed report is never represented as zero findings).  A worker's       *)
(* answer is never refused by the process that reads it: results.py and    *)
(* decision.py agree on what a result may say.                             *)
LastWordHolds ==
    LET said == IF Worker THEN {files["answer"]}
                ELSE {files[Deliverables[i]] : i \in DOMAIN Deliverables}
    IN  /\ stage = "ended" =>
              /\ exit \in {0, 1} => said = {decision}
              /\ exit = 2 /\ left = <<>> => said = {"ERROR"}
        /\ comment \in {"nothing", decision}

(* What the program does to Terraform text is what it says (remediation.py:*)
(* restrict administrative ingress, never "a legitimately public listener";*)
(* make public ACLs private; simulation.py: open SSH to the internet).  No *)
(* repair adds a finding, and one of a complete configuration leads to the *)
(* landscape without administrative ports and public ACLs, and with all    *)
(* the rest; also after a simulation, which opens SSH wherever it was      *)
(* private and changes nothing else.  A group that is repaired, and a      *)
(* bucket with sensitive data that stays open all the same, is named by an *)
(* advice of high severity.                                                *)
RemedyHolds ==
    stage = "report" /\ W.form \in {"dirs", "worker files"} =>
       LET text == input["head"]
           config == configs["head"]
           edit == [repair |-> SaferConfig(text),
                    simulation |-> Simulated(text),
                    both |-> SaferConfig(Simulated(text))]
           changed ==
             {g \in Groups : W.after.open[g] # Repaired(W.after).open[g]}
           stillOpen == {p[Len(p) - 1] : p \in
                           TrueCriticalPaths[Repaired(W.after)]}
       IN  /\ \A e \in DOMAIN edit :
                 LET edited == ParseDirectory(edit[e])
                     found == Findings(edited)
                     aim == IF e = "simulation" THEN Opened(W.after)
                            ELSE Repaired(W.after)
                 IN  /\ e = "repair" => found \subseteq Findings(config)
                     /\ Complete(config) =>
                           /\ Complete(edited)
                           /\ {EdgeOf(f) : f \in found} = TrueEdges(aim)
           /\ Complete(config) =>
                 \A n \in changed \cup stillOpen :
                    \E a \in Advice(config, graph) :
                       a.resource = n /\ a.severity >= HIGH

(* docs/coverage.md says of .tf.json files that "their presence in a source*)
(* root is diagnosed": no comparison of a root that has one is complete.   *)
JsonIsDiagnosed ==
    stage = "report" /\ Git =>
       \A s \in End :
          Files(pinned[s]).json => ~diff.complete
=============================================================================
