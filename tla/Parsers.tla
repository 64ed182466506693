------------------------------- MODULE Parsers -------------------------------
(***************************************************************************)
(* The parsers: a directory of .tf files (parser/terraform_parser.py) or   *)
(* one side of a Terraform plan (parser/plan_parser.py), made into the     *)
(* configuration that Terraform.tla reads.                                 *)
(*                                                                         *)
(* A plan holds resolved values: where the source names a resource, a plan *)
(* has its id, name or ARN as a literal, or nothing when it is not known   *)
(* yet.  The links are recovered from the references of the configuration  *)
(* block and, where there are none, from the identities of the resources.  *)
(***************************************************************************)
EXTENDS Terraform

Supported(entries) ==
    Restrict(entries, {i \in DOMAIN entries :
                          entries[i].type \in SupportedTypes})
Unsupported(entries) == {r.type : r \in Range(entries)} \ SupportedTypes

(* A directory: the blocks of its .tf files, whether these call modules,   *)
(* whether it has .tf.json files, and what the .tf files are.              *)
TextKind == {"hcl", "broken", "none"}

DirectoryFails(dir) ==
    dir.text # "hcl" \/ Cardinality(DOMAIN dir.blocks) > MaxResources

ParseDirectory(dir) ==
    [resources |-> Supported(dir.blocks),
     unsupported |-> Unsupported(dir.blocks),
     diagnostics |-> (IF dir.modules THEN {"UNEXPANDED_MODULE"} ELSE {})
                \cup (IF dir.json THEN {"UNSUPPORTED_HCL_JSON"} ELSE {})]

-----------------------------------------------------------------------------
(* A part of a plan that may be absent is a sequence of length 0 or 1:     *)
(* prior, planned, and the two sides of a change.                          *)

Snapshot(plan, phase) == IF phase = "after" THEN plan.planned ELSE plan.prior

(* _from_resource_changes().                                               *)
FromChanges(plan, phase) ==
    LET values(c) == IF phase = "after" THEN c.after ELSE c.before
        entry(c) ==
          [type |-> c.type, address |-> c.address, place |-> c.place,
           mode |-> c.mode, attrs |-> values(c)[1]]
    IN  [i \in {j \in DOMAIN plan.changes : values(plan.changes[j]) # <<>>} |->
           entry(plan.changes[i])]

(* _values_resources().                                                    *)
ValuesResources(plan, phase) ==
    LET snapshot == Snapshot(plan, phase)
    IN  IF snapshot # <<>> /\ DOMAIN snapshot[1] # {} THEN snapshot[1]
        ELSE FromChanges(plan, phase)

(* _unknown_diagnostics(): only what decides an edge counts.               *)
UnknownValues(plan) ==
    {c \in Range(plan.changes) :
        /\ c.type \in SupportedTypes
        /\ c.unknown \cap SecurityAttributes[c.type] # {}}

PlanDiagnostics(plan, phase) ==
    (IF phase = "after" /\ UnknownValues(plan) # {}
     THEN {"UNKNOWN_PLAN_VALUE"} ELSE {})
    \cup (IF Snapshot(plan, phase) = <<>>
          THEN {"PARTIAL_PLAN_SNAPSHOT"} ELSE {})

(* _REFERENCE_ATTRS: the type a link attribute names.                      *)
TargetType(name) ==
    CASE name \in {"vpc_security_group_ids", "security_groups"} ->
           "aws_security_group"
      [] name = "iam_instance_profile" -> "aws_iam_instance_profile"
      [] name = "role" -> "aws_iam_role"
      [] name = "policy_arn" -> "aws_iam_policy"
      [] name = "bucket" -> "aws_s3_bucket"

IdentityAttributes == {"id", "arn", "name", "bucket"}

Bearers(rs, type, value) ==
    {r.address : r \in {s \in OfType(rs, type) :
        \E name \in IdentityAttributes : value \in Members(s, name)}}

(* Mutant of IdentityIndex: the first bearer of an identity keeps it.      *)
FirstIdentity(rs, type, value) ==
    LET bearers == Bearers(rs, type, value)
    IN  IF bearers = {} THEN {} ELSE {CHOOSE a \in bearers : TRUE}

(* _build_identity_index(): an identity two resources bear names neither.  *)
IdentityIndex(rs, type, value) ==
    LET bearers == Bearers(rs, type, value)
    IN  IF Cardinality(bearers) = 1 THEN bearers ELSE {}

(* _link_attribute(): `named' are the references of the configuration to   *)
(* the right type.  Values that match nothing stay beside those that do.   *)
Listed == {"vpc_security_group_ids", "security_groups"}

Resolve(rs, name, values) ==
    [i \in DOMAIN values |->
        LET found == IdentityIndex(rs, TargetType(name), values[i])
        IN  IF found = {} THEN values[i] ELSE Ref(CHOOSE a \in found : TRUE)]

LinkAttribute(rs, r, name, named) ==
    LET values == IF Has(r, name) THEN r.attrs[name] ELSE <<>>
        linked == IF DOMAIN named # {}
                  THEN [i \in DOMAIN named |-> Ref(named[i])]
                  ELSE Resolve(rs, name, values)
        refs == {i \in DOMAIN linked : linked[i][1] = "ref"}
    IN  IF refs = {} THEN values
        ELSE IF name \in Listed THEN linked ELSE <<linked[Min(refs)]>>

(* The references of a resource's attribute that name the right type.      *)
Named(references, r, name) ==
    IF r.address \notin DOMAIN references
       \/ name \notin DOMAIN references[r.address] THEN <<>>
    ELSE LET all == references[r.address][name]
         IN  [i \in {j \in DOMAIN all : all[j][1] = TargetType(name)} |->
                 all[i][2]]

(* _link_policy_documents(): a literal ARN becomes the bucket that has it. *)
LinkArn(buckets, pattern) ==
    LET owners == {b \in buckets : Literal(pattern[2]) \in Members(b, "arn")}
        kind == IF pattern[1] = "bucket arn" THEN "bucket" ELSE "objects"
    IN  IF pattern[1] \in {"bucket arn", "objects arn"} /\ owners # {}
        THEN <<kind, (CHOOSE b \in owners : TRUE).address>> ELSE pattern

LinkPolicy(rs, policy) ==
    LET buckets == OfType(rs, "aws_s3_bucket")
        link(s) == [s EXCEPT !.resources =
                        {LinkArn(buckets, p) : p \in s.resources}]
    IN  [policy EXCEPT !.statements = {link(s) : s \in policy.statements}]

(* _relink().                                                              *)
Relink(rs, references, r) ==
    LET linked == {n \in LinkAttributes(r.type) :
                      Has(r, n) \/ DOMAIN Named(references, r, n) # {}}
        value(n) ==
          IF n \in linked THEN LinkAttribute(rs, r, n, Named(references, r, n))
          ELSE IF n = "policy" /\ r.type \in PolicyTypes
               THEN LinkPolicy(rs, r.attrs[n])
          ELSE r.attrs[n]
    IN  [r EXCEPT !.attrs = [n \in DOMAIN r.attrs \cup linked |-> value(n)]]

(* parse_plan(): data sources are skipped, and an address inside a module  *)
(* or with an index is not modelled.                                       *)
PlanFails(plan) ==
    \/ plan.broken
    \/ \E phase \in {"before", "after"} :
          Cardinality(DOMAIN ValuesResources(plan, phase)) > MaxResources

ParsePlan(plan, phase) ==
    LET entries == ValuesResources(plan, phase)
        managed == Restrict(entries, {i \in DOMAIN entries :
                                         entries[i].mode = "managed"})
        known == Restrict(managed, {i \in DOMAIN Supported(managed) :
                                       managed[i].place = "root"})
        rs == Range(known)
        references == IF phase = "after" THEN plan.references ELSE <<>>
    IN  [resources |-> [i \in DOMAIN known |->
                           Relink(rs, references, known[i])],
         unsupported |->
             Unsupported(managed) \cup
             {"module or indexed address" :
                 e \in {s \in Range(Supported(managed)) : s.place # "root"}},
         diagnostics |-> PlanDiagnostics(plan, phase)]
=============================================================================
