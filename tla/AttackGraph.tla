----------------------------- MODULE AttackGraph -----------------------------
(***************************************************************************)
(* The attack graph of a configuration, from what the rules found in it    *)
(* (graph_builder.build_graph), and the questions asked of it that need no *)
(* search: what the Internet reaches, and the score.                       *)
(*                                                                         *)
(* A configuration is the set of its findings.  A finding is one edge some *)
(* rule of security/rules.py justifies, with the risk the rule gives it;   *)
(* an ingress finding also says which port it opens.  How the rules read   *)
(* Terraform is in Terraform.tla.                                          *)
(***************************************************************************)
EXTENDS Integers, FiniteSets, Sequences, SequencesExt

CONSTANTS Internet,      \* INTERNET_ID
          NodeOrder,     \* every node id, as sorted() orders them
          KindOf,        \* [Node -> NodeType]
          Candidates,    \* all findings, in the order build_graph adds them
          MaxGraphEdges  \* MAX_GRAPH_EDGES

Node == Range(NodeOrder)

NodeType == {"INTERNET", "SECURITY_GROUP", "EC2", "IAM_ROLE", "S3_BUCKET",
             "SENSITIVE_DATA"}
Relationship == {"INGRESS_ALLOWS", "PUBLIC_ACCESS", "PROTECTS",
                 "ASSUMES_ROLE", "CAN_ACCESS", "CONTAINS"}

(* Risk.rank.                                                              *)
LOW == 1
MEDIUM == 2
HIGH == 3
CRITICAL == 4

(* Ports of an ingress finding: 443 alone, an administrative one, all of   *)
(* them, any other.  "none" is for the other relationships.                *)
Port == {"https", "admin", "all", "other", "none"}

Finding == [source: Node, target: Node, relationship: Relationship,
            risk: LOW..CRITICAL, port: Port]

ASSUME GraphAssumption ==
    /\ Internet \in Node
    /\ NodeOrder \in Seq(Node) /\ IsInjective(NodeOrder)
    /\ KindOf \in [Node -> NodeType]
    /\ Candidates \in Seq(Finding)
    /\ MaxGraphEdges \in Nat

EdgeOf(finding) == <<finding.source, finding.target>>

(* What the rules make edges of: CONTAINS leads from a bucket to the marker*)
(* of its data, and nothing else leads to a marker or away from one; the   *)
(* relationship of an edge follows from its ends.                          *)
ASSUME RulesAssumption ==
    /\ KindOf[Internet] = "INTERNET"
    /\ \A f \in Range(Candidates) :
          /\ f.relationship = "CONTAINS" <=> KindOf[f.target] = "SENSITIVE_DATA"
          /\ f.relationship = "CONTAINS" => KindOf[f.source] = "S3_BUCKET"
          /\ KindOf[f.source] # "SENSITIVE_DATA"
    /\ \A f, g \in Range(Candidates) :
          EdgeOf(f) = EdgeOf(g) => f.relationship = g.relationship

(* _add_edge(): the finding of highest risk stays, the first one of equals;*)
(* at the limit no edge is added.                                          *)
AddEdge(edges, finding) ==
    LET edge == EdgeOf(finding) IN
    IF edge \in DOMAIN edges
    THEN IF edges[edge].risk >= finding.risk
         THEN edges
         ELSE [edges EXCEPT ![edge] = finding]
    ELSE IF Cardinality(DOMAIN edges) >= MaxGraphEdges
         THEN edges
         ELSE [e \in DOMAIN edges \cup {edge} |->
                  IF e = edge THEN finding ELSE edges[e]]

(* build_graph(): node attributes keep every finding, edges the worst one. *)
BuildGraph(config) ==
    LET after[k \in 0..Len(Candidates)] ==
          IF k = 0 THEN <<>>
          ELSE IF Candidates[k] \in config
               THEN AddEdge(after[k - 1], Candidates[k])
               ELSE after[k - 1]
    IN  [findings |-> config, edges |-> after[Len(Candidates)]]

(* graph["edge_limit_reached"].                                            *)
EdgeLimitReached(graph) ==
    \E f \in graph.findings : EdgeOf(f) \notin DOMAIN graph.edges

Successors(graph, node) == {n \in Node : <<node, n>> \in DOMAIN graph.edges}

(* is_sensitive_bucket(): the buckets with a CONTAINS finding, and the     *)
(* markers it adds for them (nodes are added before any edge).             *)
Containing(graph) ==
    {f \in graph.findings : f.relationship = "CONTAINS"}
SensitiveBuckets(graph) == {f.source : f \in Containing(graph)}
Markers(graph) == {f.target : f \in Containing(graph)}

(* nx.descendants(graph, INTERNET_ID).                                     *)
Reachable(graph) ==
    LET wider(set) == set \cup UNION {Successors(graph, n) : n \in set}
        within[k \in 0..Cardinality(Node)] ==
          IF k = 0 THEN {Internet} ELSE wider(within[k - 1])
    IN within[Cardinality(Node)] \ {Internet}

(* RESOURCE_TYPES.                                                         *)
ResourceTypes == {"EC2", "IAM_ROLE", "S3_BUCKET"}

ExposedResources(graph) ==
    {n \in Reachable(graph) : KindOf[n] \in ResourceTypes}

ReachableSensitive(graph) == SensitiveBuckets(graph) \cap Reachable(graph)

(* What analyze() searches paths to: reachable markers, else compute.      *)
Targets(graph) ==
    LET markers == Markers(graph) \cap Reachable(graph) IN
    IF markers # {} THEN markers
    ELSE {n \in ExposedResources(graph) : KindOf[n] = "EC2"}

-----------------------------------------------------------------------------
(* The score (security/risk_score.py).                                     *)

EdgesOf(graph, relationship) ==
    {f \in Range(graph.edges) : f.relationship = relationship}

(* min(penalty * count, cap).                                              *)
Deduct(penalty, cap, count) ==
    IF penalty * count <= cap THEN penalty * count ELSE cap

(* PENALTIES and _count_findings(); `critical' says whether the search     *)
(* reported a path to sensitive data.                                      *)
Penalty(graph, critical) ==
    LET admin  == {f \in EdgesOf(graph, "INGRESS_ALLOWS") :
                       f.source = Internet /\ f.risk = CRITICAL}
        public == {f \in EdgesOf(graph, "PUBLIC_ACCESS") :
                       f.source = Internet}
        broad  == {f \in EdgesOf(graph, "CAN_ACCESS") : f.risk >= HIGH}
        compute == {n \in ExposedResources(graph) : KindOf[n] = "EC2"}
        exposed == ReachableSensitive(graph)
    IN  Deduct(20, 40, Cardinality(admin))
      + Deduct(20, 40, Cardinality(public))
      + Deduct(15, 30, Cardinality(compute))
      + Deduct(10, 20, Cardinality(broad))
      + Deduct(25, 25, Cardinality(exposed))
      + (IF critical \/ exposed # {} THEN 20 ELSE 0)

(* Mutant of Score: max(0, ...) forgotten.                                 *)
ScoreUnclamped(graph, critical) == 100 - Penalty(graph, critical)

(* score_analysis(), clamped to 0..100.                                    *)
Score(graph, critical) ==
    LET penalty == Penalty(graph, critical) IN
    IF penalty >= 100 THEN 0 ELSE 100 - penalty

-----------------------------------------------------------------------------
(* The definitions the search and the comparison are held against.         *)

(* The simple paths over a set of edges that start at the Internet.        *)
SimplePaths(edges) ==
    LET longer(p) == {Append(p, n) : n \in {m \in Node :
                          <<Last(p), m>> \in edges /\ m \notin Range(p)}}
        extend(ps) == ps \cup UNION {longer(p) : p \in ps}
        upTo[k \in 1..Cardinality(Node)] ==
          IF k = 1 THEN {<<Internet>>} ELSE extend(upTo[k - 1])
    IN upTo[Cardinality(Node)]

SimplePathsTo(edges, targets) ==
    {p \in SimplePaths(edges) : Last(p) \in targets}
=============================================================================
