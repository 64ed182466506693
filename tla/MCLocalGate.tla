----------------------------- MODULE MCLocalGate -----------------------------
(* LocalGate for TLC.  The engine alone: two security groups, instances,   *)
(* roles and buckets; the finding from a role to an instance is one no     *)
(* rule makes, since analyze() is also given graphs built by hand, which   *)
(* may have cycles.  From end to end: landscapes with one instance and one *)
(* role, written in every style.                                           *)
EXTENDS LocalGate

MCNodeOrder == <<"INTERNET", "b1", "b2", "d1", "d2", "e1", "e2", "g1", "g2",
                 "r1", "r2">>
MCKindOf ==
    [n \in Range(MCNodeOrder) |->
       CASE n = "INTERNET" -> "INTERNET"
         [] n \in {"b1", "b2"} -> "S3_BUCKET"
         [] n \in {"d1", "d2"} -> "SENSITIVE_DATA"
         [] n \in {"e1", "e2"} -> "EC2"
         [] n \in {"g1", "g2"} -> "SECURITY_GROUP"
         [] n \in {"r1", "r2"} -> "IAM_ROLE"]
MCMarkerOf == [b1 |-> "d1", b2 |-> "d2"]
MCInertTypes == {"aws_vpc"}

F(s, t, rel, risk, port) ==
    [source |-> s, target |-> t, relationship |-> rel, risk |-> risk,
     port |-> port]

Ingress(g) ==
    <<F("INTERNET", g, "INGRESS_ALLOWS", MEDIUM, "https"),
      F("INTERNET", g, "INGRESS_ALLOWS", CRITICAL, "admin"),
      F("INTERNET", g, "INGRESS_ALLOWS", HIGH, "other"),
      F("INTERNET", g, "INGRESS_ALLOWS", CRITICAL, "all"),
      F("INTERNET", g, "INGRESS_ALLOWS", MEDIUM, "other")>>
Read(b, risk) == F("r1", b, "CAN_ACCESS", risk, "none")

Https  == Ingress("g1")[1]
Ssh    == Ingress("g1")[2]
Https2 == Ingress("g2")[1]
Attach == F("g2", "e1", "PROTECTS", LOW, "none")
Cycle  == F("r1", "e2", "CAN_ACCESS", MEDIUM, "none")
Public == F("INTERNET", "b1", "PUBLIC_ACCESS", HIGH, "none")
Tag1   == F("b1", "d1", "CONTAINS", HIGH, "none")
Tag2   == F("b2", "d2", "CONTAINS", HIGH, "none")

MCCandidates ==
    Ingress("g1") \o Ingress("g2") \o
    <<F("g1", "e1", "PROTECTS", LOW, "none"), Attach,
      F("e1", "r1", "ASSUMES_ROLE", MEDIUM, "none"),
      F("g2", "e2", "PROTECTS", LOW, "none"),
      F("e2", "r1", "ASSUMES_ROLE", MEDIUM, "none"),
      F("e2", "r2", "ASSUMES_ROLE", MEDIUM, "none"),
      Read("b1", MEDIUM), Read("b1", HIGH), Read("b2", MEDIUM),
      Read("b2", HIGH), Cycle,
      F("r2", "b2", "CAN_ACCESS", HIGH, "none"), Public,
      F("INTERNET", "b1", "PUBLIC_ACCESS", CRITICAL, "none"), Tag1, Tag2>>

(* The engine alone: this much stays, and a change touches two of the free *)
(* findings at most.                                                       *)
Fixed ==
    {f \in Range(MCCandidates) : f.relationship = "ASSUMES_ROLE"} \cup
    {F("g1", "e1", "PROTECTS", LOW, "none"),
     F("g2", "e2", "PROTECTS", LOW, "none"), Read("b1", MEDIUM),
     F("r2", "b2", "CAN_ACCESS", HIGH, "none"), Tag2}
Free == {Https, Ssh, Https2, Attach, Cycle, Public, Tag1}

MCBaselines == {Fixed \cup s : s \in SUBSET Free}
MCChanges(config) ==
    {(config \ touched) \cup (touched \ config) :
        touched \in {{f, g} : f, g \in Free} \cup {{}}}

MCPolicies ==
    {DefaultPolicy,
     [DefaultPolicy EXCEPT !.block_public_admin_ports = TRUE,
                           !.minimum_security_score = 70],
     [DefaultPolicy EXCEPT !.allow_public_https = FALSE,
                           !.block_new_critical_paths = FALSE],
     [DefaultPolicy EXCEPT !.block_new_critical_paths = FALSE,
                           !.block_new_sensitive_exposure = FALSE]}

-----------------------------------------------------------------------------
(* Landscapes: a website whose role reads b1, with the sensitive data in   *)
(* b2; and one with a public bucket.                                       *)
Site ==
    [open |-> [g1 |-> {"https"}, g2 |-> {}], attached |-> {"g1"},
     access |-> {"b1"}, public |-> {}, blocked |-> FALSE,
     sensitive |-> {"b2"}]
Reads   == [Site EXCEPT !.access = Buckets]
Blocked(ways) == [Site EXCEPT !.public = ways, !.blocked = TRUE,
                              !.sensitive = {"b1"}, !.access = {}]

MCPairs ==
    {<<Site, Reads>>,                               \* the role reads more
     <<Reads, Site>>,
     <<Site, [Site EXCEPT !.open["g1"] = {"https", "admin"}]>>,
     <<[Site EXCEPT !.open["g1"] = {"range"}, !.attached = {"g2"}],
       [Site EXCEPT !.open["g1"] = {"all"}, !.access = {}]>>,
     <<[Reads EXCEPT !.open["g1"] = {}, !.open["g2"] = {"https"}],
       [Reads EXCEPT !.open["g1"] = {}, !.open["g2"] = {"https"},
                     !.attached = Groups]>>,        \* a second group
     <<Blocked({"acl"}), [Blocked({"acl"}) EXCEPT !.blocked = FALSE]>>,
     <<Blocked({"policy"}), [Blocked({"policy"}) EXCEPT !.blocked = FALSE]>>}

World(form, pair, style, file, given, dir) ==
    [form |-> form, before |-> pair[1], after |-> pair[2], style |-> style,
     policy |-> file, given |-> given, dir |-> dir]

SourceStyles ==
    {"plain", "cidr variable", "port variable", "protocol variable",
     "group hop", "literal group", "attachment variable", "role direct",
     "managed", "policy elsewhere", "policy missing", "policy variable",
     "resource variable", "arn", "everything", "wildcard action", "deny",
     "condition", "partial principal", "no principal", "boundary",
     "inline acl", "acl variable", "flag variable", "two blocks",
     "tag variable", "count", "module", "json", "twice", "rule resource",
     "inert resource", "broken", "empty"}
PlanStyles ==
    {"plain", "shared names", "indirect", "fresh group", "fresh bucket",
     "module", "indexed", "no prior state", "no planned values", "data",
     "broken", "managed", "arn", "role direct", "rule resource",
     "two blocks", "inline acl", "everything"}

None == <<>>
Strict70 == <<[minimum_security_score |-> 70]>>
Typo == <<[typo |-> TRUE]>>
Other == <<[terraform_dir |-> "other"]>>

MCWorlds ==
    {World("dirs", p, s, None, None, None) : p \in MCPairs, s \in SourceStyles}
    \cup {World("worker files", p, s, None, None, None) :
             p \in {<<Site, Reads>>}, s \in SourceStyles}
    \cup {World("plan", p, s, None, None, None) :
             p \in MCPairs, s \in PlanStyles}
    \cup {World("worker plan", p, s, f, None, None) :
             p \in {<<Site, Reads>>}, s \in PlanStyles, f \in {None, Strict70}}
    \cup {World("git", <<Site, Reads>>, s, f, g, d) :
             s \in {"plain", "two roots", "removed", "twice"},
             f \in {None, Strict70, Typo, Other},
             g \in {None, Strict70, Typo, Other},
             d \in {None, <<"infra">>}}
    \cup {World("action", p, "two roots", f, None, d) :
             p \in {<<Site, Reads>>, <<Reads, Site>>},
             f \in {None, Other}, d \in {None, <<"infra">>}}

(* For the run on .tf.json files.                                          *)
MCNoBaselines == {}
MCJsonWorlds ==
    {World("git", p, "json", None, None, None) : p \in MCPairs}
=============================================================================
