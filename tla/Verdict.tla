------------------------------- MODULE Verdict -------------------------------
(***************************************************************************)
(* From two configurations to a merge decision, as cli.py and the worker   *)
(* (server/analysis.py) compute it: analyze() of the baseline, analyze()   *)
(* of the candidate, compare() of graph/diff_engine.py and decide() of     *)
(* security/decision.py under a repository policy.                         *)
(***************************************************************************)
EXTENDS AttackPaths

CONSTANTS Baselines,   \* the configurations a change starts from
          Changes(_),  \* the configurations a change of `config' leads to
          Policies     \* the policies of the repository

Policy == [block_new_critical_paths: BOOLEAN,
           block_new_sensitive_exposure: BOOLEAN,
           block_public_admin_ports: BOOLEAN,
           allow_public_https: BOOLEAN,
           minimum_security_score: 0..100]   \* 0 stands for None

(* Policy(), in force when the repository has no policy file.              *)
DefaultPolicy == [block_new_critical_paths |-> TRUE,
                  block_new_sensitive_exposure |-> TRUE,
                  block_public_admin_ports |-> FALSE,
                  allow_public_https |-> TRUE,
                  minimum_security_score |-> 0]

ASSUME VerdictAssumption ==
    /\ Baselines \subseteq SUBSET Range(Candidates)
    /\ \A config \in Baselines :
          Changes(config) \subseteq SUBSET Range(Candidates)
    /\ Policies \subseteq Policy

VARIABLES side,      \* which analysis runs, or how far the comparison is
          before,    \* result of the baseline; a placeholder until then
          diff,      \* the GraphDiff
          policy, decision

verdictVars == <<before, diff, policy, decision>>
vars == <<searchVars, side, verdictVars>>

Side == {"idle", "before", "after", "compared", "decided"}

(* The AnalysisResult of the search that has ended.  `gap': some           *)
(* diagnostic of the parsers blocks the analysis.                          *)
ReachesSensitive(p) == \E i \in DOMAIN p : KindOf[p[i]] = "SENSITIVE_DATA"

(* Mutant of Result: exposure is read off the reported paths.              *)
ResultOfPaths(gap) ==
    [graph |-> graph, paths |-> paths,
     exposed |-> ExposedResources(graph),
     sensitive |-> UNION {Range(p) \cap SensitiveBuckets(graph) : p \in paths},
     score |-> Score(graph, \E p \in paths : ReachesSensitive(p)),
     complete |-> ~truncated /\ ~EdgeLimitReached(graph) /\ ~gap]

Result(gap) ==
    [graph |-> graph, paths |-> paths,
     exposed |-> ExposedResources(graph),
     sensitive |-> ReachableSensitive(graph),
     score |-> Score(graph, \E p \in paths : ReachesSensitive(p)),
     complete |-> ~truncated /\ ~EdgeLimitReached(graph) /\ ~gap]

-----------------------------------------------------------------------------
(* compare().                                                              *)

(* _contains_path().                                                       *)
ContainsPath(g, p) ==
    \A i \in 1..(Len(p) - 1) : <<p[i], p[i + 1]>> \in DOMAIN g.edges

NewPaths(old, new) ==
    {p \in new.paths \ old.paths : ~ContainsPath(old.graph, p)}

Compared(old, new) ==
    [newPaths |-> NewPaths(old, new), removedPaths |-> NewPaths(new, old),
     newlyExposed |-> new.exposed \ old.exposed,
     noLongerExposed |-> old.exposed \ new.exposed,
     newlySensitive |-> new.sensitive \ old.sensitive,
     noLongerSensitive |-> old.sensitive \ new.sensitive,
     newIngress |-> {f \in new.graph.findings \ old.graph.findings :
                        f.relationship = "INGRESS_ALLOWS"},
     scores |-> <<old.score, new.score>>,
     complete |-> old.complete /\ new.complete]

Critical(ps) == {p \in ps : ReachesSensitive(p)}
Lower(d)  == d.scores[2] < d.scores[1]
Higher(d) == d.scores[2] > d.scores[1]

(* _determine_verdict(): the first line that applies.                      *)
VerdictOf(d) ==
    IF d.newlySensitive # {} \/ Critical(d.newPaths) # {} THEN "REGRESSION"
    ELSE IF ~d.complete THEN "INCOMPLETE"
    ELSE IF d.noLongerSensitive # {} \/ Critical(d.removedPaths) # {}
         THEN "IMPROVED"
    ELSE IF Lower(d) \/ d.newPaths # {} \/ d.newlyExposed # {}
         THEN "REGRESSION"
    ELSE IF Higher(d) \/ d.removedPaths # {} \/ d.noLongerExposed # {}
         THEN "IMPROVED"
    ELSE "UNCHANGED"

-----------------------------------------------------------------------------
(* decide().  ingress_facts() reads the node attributes, not the edges.    *)

Violated(d, p) ==
    \/ Critical(d.newPaths) # {} /\ p.block_new_critical_paths
    \/ d.newlySensitive # {} /\ p.block_new_sensitive_exposure
    \/ /\ p.block_public_admin_ports
       /\ \E f \in d.newIngress : f.port \in {"admin", "all"}
    \/ /\ ~p.allow_public_https
       /\ \E f \in d.newIngress : f.port = "https"
    \/ d.scores[2] < p.minimum_security_score

(* Mutant of NewExposure: the score does not count.                        *)
NewExposureUnscored(d) ==
    d.newPaths # {} \/ d.newlySensitive # {} \/ d.newlyExposed # {}

NewExposure(d) ==
    d.newPaths # {} \/ d.newlySensitive # {} \/ d.newlyExposed # {} \/ Lower(d)

Decide(d, p) ==
    IF Violated(d, p) THEN "BLOCK"
    ELSE IF ~d.complete \/ NewExposure(d) THEN "REVIEW"
    ELSE "SAFE"

(* build_sarif(): the levels of its results.  The gaps of either side are  *)
(* diagnostics, and so are exhausted budgets.                              *)
SarifLevels(d, said) ==
    {"error" : p \in Critical(d.newPaths)}
    \cup {"warning" : p \in d.newPaths \ Critical(d.newPaths)}
    \cup (IF said = "BLOCK" THEN {"error"} ELSE {})
    \cup (IF d.complete THEN {} ELSE {"warning"})

-----------------------------------------------------------------------------
Nothing == [graph |-> BuildGraph({})]

VerdictInit ==
    /\ \E config \in Baselines : StartWith(BuildGraph(config))
    /\ side = "before"
    /\ before = Nothing /\ diff = Nothing
    /\ policy = DefaultPolicy /\ decision = "none"

Search == side \in {"before", "after"} /\ SearchStep
                                       /\ UNCHANGED <<side, verdictVars>>

(* The second analysis begins.  A gap of either configuration makes the    *)
(* whole comparison incomplete.                                            *)
StartAfter(config, gap) ==
    /\ side = "before" /\ step = "done"
    /\ Restart(BuildGraph(config))
    /\ before' = Result(gap)
    /\ side' = "after"
    /\ UNCHANGED <<diff, policy, decision>>

CompareWith(gap) ==
    /\ side = "after" /\ step = "done"
    /\ diff' = Compared(before, Result(gap))
    /\ side' = "compared"
    /\ UNCHANGED <<searchVars, before, policy, decision>>

DecideWith(p) ==
    /\ side = "compared"
    /\ policy' = p
    /\ decision' = Decide(diff, p)
    /\ side' = "decided"
    /\ UNCHANGED <<searchVars, before, diff>>

AnalyzeAfter ==
    \E config \in Changes(graph.findings) : StartAfter(config, FALSE)
Compare == \E gap \in BOOLEAN : CompareWith(gap)
DecideMerge == \E p \in Policies : DecideWith(p)

Next == Search \/ AnalyzeAfter \/ Compare \/ DecideMerge

VerdictSpec == VerdictInit /\ [][Next]_vars

-----------------------------------------------------------------------------
TypeOK ==
    /\ SearchTypeOK
    /\ side \in Side
    /\ policy \in Policy
    /\ decision \in {"none", "SAFE", "REVIEW", "BLOCK"}
    /\ side \notin {"idle", "before"} => before.score \in 0..100

(* The edges a configuration really has, whatever was cut off.             *)
EdgesIn(config) == {EdgeOf(f) : f \in config}
CriticalPathsOf(config) ==
    {p \in SimplePaths(EdgesIn(config)) : ReachesSensitive(p)}

(* The sources of the edges into markers of all critical paths.            *)
Open(config) ==
    UNION {{p[Len(p) - 1]} : p \in CriticalPathsOf(config)}

(* Safety: the gate is sound, about all the paths of the two configurations*)
(* themselves and not those the search reported.  No budget, gap or policy *)
(* makes a change safe that opens a path to sensitive data (policy.py: "a  *)
(* repository cannot configure away the evidence"); a policy that blocks   *)
(* new sensitive exposure blocks it however early the searches stopped,    *)
(* since decide() counts reachability, not paths; and a change that takes  *)
(* findings away and nothing else is never held against its author, where  *)
(* results are complete, although its search may have other targets.       *)
SafeOpensNothing ==
    decision = "SAFE" =>
       /\ diff.complete
       /\ CriticalPathsOf(graph.findings) \subseteq
             CriticalPathsOf(before.graph.findings)

ExposureIsBlocked ==
    /\ decision # "none" /\ policy.block_new_sensitive_exposure
    /\ ~EdgeLimitReached(graph)
    /\ ~(Open(graph.findings) \subseteq Open(before.graph.findings))
    => decision = "BLOCK"

RemediationIsSafe ==
    /\ decision # "none" /\ policy = DefaultPolicy /\ diff.complete
    /\ graph.findings \subseteq before.graph.findings
    => decision = "SAFE" /\ VerdictOf(diff) \in {"IMPROVED", "UNCHANGED"}

DecisionIsSound == SafeOpensNothing /\ ExposureIsBlocked /\ RemediationIsSafe

(* The verdict of the report, the alerts of its SARIF form and the decision*)
(* of the gate come from three tables in three files: they never contradict*)
(* each other.  Nothing is reported of a change that is safe, and an error *)
(* is reported exactly when the default policy blocks.                     *)
VerdictAgrees ==
    /\ decision = "SAFE" =>
         /\ VerdictOf(diff) \in {"IMPROVED", "UNCHANGED"}
         /\ SarifLevels(diff, decision) = {}
    /\ decision = "BLOCK" /\ policy = DefaultPolicy
       => VerdictOf(diff) = "REGRESSION"
    /\ decision # "none" /\ policy = DefaultPolicy =>
         (decision = "BLOCK" <=> "error" \in SarifLevels(diff, decision))
=============================================================================
