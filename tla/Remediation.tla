----------------------------- MODULE Remediation -----------------------------
(***************************************************************************)
(* The edits the program makes to Terraform itself: the repair it offers   *)
(* with a result (security/remediation.py), and the change it can try out  *)
(* (simulation.py).  Both work on the text of one block at a time          *)
(* (security/hcl_edit.py), not on what the parsers make of it, so they see *)
(* literals only.  The advice that goes with the repair comes from the     *)
(* rules and from the graph.                                               *)
(***************************************************************************)
EXTENDS Parsers

(* Mutant of ReachesAdminPort: any port will do.                           *)
ReachesAnyPort(rule) == TRUE

(* _reaches_admin_port(): ports are digits, the protocol may be anything.  *)
ReachesAdminPort(rule) ==
    \/ rule.protocol = "all"
    \/ /\ rule.ports \notin {<<>>, <<"expr">>}
       /\ \E port \in AdminPorts :
             rule.ports[1] <= port /\ port <= rule.ports[2]

(* _rewrite_admin_ingress(): "restrict" what is public, or "widen" what is *)
(* not.                                                                    *)
EditRule(rule, edit) ==
    LET meant == IF edit = "restrict" THEN rule.cidr = "public"
                 ELSE rule.cidr # "public"
        cidr == IF edit = "restrict" THEN "private" ELSE "public"
    IN  IF ReachesAdminPort(rule) /\ meant
        THEN [rule EXCEPT !.cidr = cidr] ELSE rule

(* make_bucket_acls_private(): canned ACLs that start with "public-".      *)
PrivateAcl(m) ==
    IF m \in {Literal("public-read"), Literal("public-read-write")}
    THEN Literal("private") ELSE m

(* One block.  Only the restriction looks at ACLs.                         *)
EditBlock(r, edit) ==
    [r EXCEPT !.attrs =
        [n \in DOMAIN r.attrs |->
            CASE n = "ingress" -> {EditRule(rule, edit) : rule \in r.attrs[n]}
              [] n = "acl" /\ edit = "restrict" ->
                   [i \in DOMAIN r.attrs[n] |-> PrivateAcl(r.attrs[n][i])]
              [] OTHER -> r.attrs[n]]]

(* Only the *.tf files of a directory are read, and written to the new one.*)
EditDirectory(dir, edit) ==
    [dir EXCEPT
        !.blocks = [i \in DOMAIN dir.blocks |->
                       EditBlock(dir.blocks[i], edit)],
        !.json = FALSE]

(* generate_safer_config() and write_plan().                               *)
SaferConfig(dir) == EditDirectory(dir, "restrict")

(* simulate() of SIMULATIONS["public_ssh"].                                *)
Simulated(dir) == EditDirectory(dir, "widen")

(* recommend(): what a reader is told to look at, and how severe it is.    *)
(* The advice on a public bucket names the ACL or policy of that bucket.   *)
Advice(config, graph) ==
    LET rs == Range(config.resources)
        tell(address, risk) == [resource |-> address, severity |-> risk]
        roles == OfType(rs, "aws_iam_role_policy") \cup
                 OfType(rs, "aws_iam_policy")
        wide(p) == {s \in S3Access(p) :
                       \/ Everything \in s.resources
                       \/ s.actions \cap WildcardActions # {}}
        sensitive == {f.source : f \in ContainsFindings(rs)}
    IN  (UNION {{tell(sg.address, IngressRisk(rule)) :
                    rule \in PublicIngress(sg)} :
                sg \in OfType(rs, "aws_security_group")})
        \cup {tell(f.target, IF f.target \in sensitive THEN CRITICAL
                             ELSE f.risk) : f \in PublicFindings(rs)}
        \cup (UNION {{tell(p.address, AccessRisk(s)) : s \in wide(p)} :
                     p \in roles})
        \cup {tell(b, HIGH) : b \in ReachableSensitive(graph)}
=============================================================================
