------------------------------ MODULE Terraform ------------------------------
(***************************************************************************)
(* What the engine makes of Terraform resources once a parser has read     *)
(* them: the coverage gaps (parser/coverage.py), and the findings of the   *)
(* rules (security/rules.py) from which build_graph() grows the graph.     *)
(*                                                                         *)
(* An address is a model name; those of the node kinds are node ids.       *)
(* An attribute value is the list of its strings, each of them a member: a *)
(* reference, a literal, an expression nobody resolves, or null.  Ingress  *)
(* rules and policy documents have their own shape.                        *)
(*                                                                         *)
(* A list is a function of positions, or of addresses where no two members *)
(* have the same.  What is left of a list keeps its place.                 *)
(***************************************************************************)
EXTENDS AttackGraph

CONSTANTS MarkerOf,       \* sensitive_node_id()
          InertTypes,     \* INERT_TYPES: they have no edge in the model
          MaxResources    \* MAX_RESOURCES

ASSUME TerraformAssumption ==
    /\ DOMAIN MarkerOf \subseteq Node /\ Range(MarkerOf) \subseteq Node
    /\ MaxResources \in Nat
    /\ {"aws_vpc_security_group_ingress_rule", "module or indexed address"}
          \cap InertTypes = {}

Ref(address) == <<"ref", address>>
Literal(text) == <<"literal", text>>
Expr == <<"expr", "">>
Null == <<"null", "">>

(* SECURITY_ATTRIBUTES; its types are SUPPORTED_TYPES.                     *)
SecurityAttributes ==
    [aws_security_group |-> {"ingress"},
     aws_instance |-> {"vpc_security_group_ids", "security_groups",
                       "iam_instance_profile"},
     aws_iam_role |-> {"permissions_boundary", "managed_policy_arns"},
     aws_iam_instance_profile |-> {"role"},
     aws_iam_role_policy |-> {"role", "policy"},
     aws_iam_policy |-> {"policy"},
     aws_iam_role_policy_attachment |-> {"role", "policy_arn"},
     aws_s3_bucket |-> {"bucket", "arn", "acl", "tags", "policy"},
     aws_s3_bucket_acl |-> {"bucket", "acl"},
     aws_s3_bucket_policy |-> {"bucket", "policy"},
     aws_s3_bucket_public_access_block |->
         {"bucket", "ignore_public_acls", "restrict_public_buckets"}]
SupportedTypes == DOMAIN SecurityAttributes

(* _LINK_ATTRIBUTES: they name another resource.                          *)
LinkAttributes(type) ==
    (SecurityAttributes[type] \cap
        {"vpc_security_group_ids", "security_groups", "iam_instance_profile",
         "role", "policy_arn"})
    \cup (IF type \in {"aws_s3_bucket_acl", "aws_s3_bucket_policy",
                        "aws_s3_bucket_public_access_block"}
          THEN {"bucket"} ELSE {})

Has(r, name) == name \in DOMAIN r.attrs
Members(r, name) == IF Has(r, name) THEN Range(r.attrs[name]) ELSE {}
Addresses(members) == {m[2] : m \in {n \in members : n[1] = "ref"}}

(* references() of a plain attribute.                                      *)
References(r, name) == Addresses(Members(r, name))

(* as_list(ingress) and the statements of a policy document: a document is *)
(* json, or an expression that cannot be evaluated, or malformed.          *)
Rules(r) == IF Has(r, "ingress") THEN r.attrs["ingress"] ELSE {}
Statements(r) ==
    IF Has(r, "policy") /\ r.attrs["policy"].kind = "json"
    THEN r.attrs["policy"].statements ELSE {}
Granted(r) == UNION {s.resources : s \in Statements(r)}
PolicyReferences(r) ==
    {p[2] : p \in {q \in Granted(r) : q[1] \in {"bucket", "objects"}}}

-----------------------------------------------------------------------------
(* config_diagnostics() and policy_diagnostics(): the codes that apply.    *)

StatementGap(type, s) ==
    \/ s.actions = {} \/ s.resources = {}                 \* INVALID_POLICY
    \/ s.condition                             \* UNSUPPORTED_IAM_SEMANTICS
    \/ s.effect = "Deny"                          \* IAM_DENY_NOT_EVALUATED
    \/ Expr \in s.resources                         \* UNRESOLVED_EXPRESSION
    \/ /\ type = "aws_s3_bucket_policy"                 \* INVALID_PRINCIPAL
       /\ s.principal \in {"absent", "partial"}

PolicyGap(r) ==
    \/ ~Has(r, "policy") \/ r.attrs["policy"].kind # "json"
    \/ Statements(r) = {}
    \/ \E s \in Statements(r) : StatementGap(r.type, s)

IngressGap(rule) ==
    \/ rule.protocol = "expr" \/ rule.cidr = "expr" \/ rule.hop
    \/ rule.protocol # "all" /\ rule.ports = <<>>
    \/ rule.ports = <<"expr">>

PlainAttributes(r) ==
    (SecurityAttributes[r.type] \cap DOMAIN r.attrs) \ {"ingress", "policy"}

Unlinked(r, name) ==
    LET members == Members(r, name) \ {Null} IN
    /\ members # {} \/ r.type # "aws_instance"
    /\ \/ members = {}
       \/ \E m \in members : m[1] # "ref"

PolicyTypes == {"aws_iam_policy", "aws_iam_role_policy",
                "aws_s3_bucket_policy"}

AmbiguousControl(config, r) ==
    /\ r.type = "aws_s3_bucket_public_access_block"
    /\ \E other \in Range(config.resources) :
          /\ other.type = r.type /\ other.address # r.address
          /\ References(other, "bucket") \cap References(r, "bucket") # {}

(* "authenticated-read" has a diagnostic of its own.                       *)
CannedAcls == {"private", "public-read", "public-read-write"}
Flags == {"ignore_public_acls", "restrict_public_buckets"}

Copies(config, address) ==
    {i \in DOMAIN config.resources : config.resources[i].address = address}
Known(config) == {r.address : r \in Range(config.resources)}

(* One line per code, in the order of the function.                        *)
Gap(config, r) ==
    \/ Cardinality(Copies(config, r.address)) > 1       \* DUPLICATE_ADDRESS
    \/ r.type \in PolicyTypes /\ PolicyGap(r)             \* INVALID_POLICY
    \/ {"count", "for_each", "dynamic"} \cap DOMAIN r.attrs # {}
    \/ \E name \in PlainAttributes(r) :
          {Expr, Null} \cap Members(r, name) # {} \* UNRESOLVED_EXPRESSION
    \/ \E a \in PolicyReferences(r) \cup                \* ..._REFERENCE
          UNION {References(r, name) : name \in PlainAttributes(r)} :
             a \notin Known(config)
    \/ {"permissions_boundary", "managed_policy_arns"}  \* UNSUPPORTED_CONTROL
          \cap DOMAIN r.attrs # {}
    \/ r.type = "aws_s3_bucket" /\ Has(r, "policy")
    \/ \E name \in LinkAttributes(r.type) : Unlinked(r, name)
    \/ AmbiguousControl(config, r)
    \/ \E m \in Members(r, "acl") : m[2] \notin CannedAcls   \* INVALID_ACL
    \/ \E name \in Flags : \E m \in Members(r, name) :
          m[2] \notin {"true", "false"}                \* INVALID_CONTROL
    \/ \E rule \in Rules(r) : IngressGap(rule)         \* INVALID_INGRESS

(* ParsedConfig.complete: no diagnostic blocks the analysis.               *)
Complete(config) ==
    /\ config.diagnostics = {}
    /\ config.unsupported \subseteq InertTypes
    /\ \A r \in Range(config.resources) : ~Gap(config, r)

-----------------------------------------------------------------------------
(* The rules, over the resources whose address is unique.                  *)

Unambiguous(config) ==
    {r \in Range(config.resources) :
        Cardinality(Copies(config, r.address)) = 1}

OfType(rs, type) == {r \in rs : r.type = type}

(* ResourceIndex.build().                                                  *)
Linked(rs, type, name, address) ==
    {r \in OfType(rs, type) : address \in References(r, name)}

(* public_ingress_findings(): risk and port of the rules open to anyone.   *)
AdminPorts == {22, 3389}

(* Absent ports are read as 0.                                             *)
PortRange(rule) == IF rule.ports = <<>> THEN <<0, 0>> ELSE rule.ports

AdminPort(rule) ==
    \/ rule.protocol = "all"
    \/ /\ rule.protocol \in {"tcp", "udp"}
       /\ \E port \in AdminPorts :
             PortRange(rule)[1] <= port /\ port <= PortRange(rule)[2]

BroadRange(rule) ==
    \/ rule.protocol = "all"
    \/ PortRange(rule)[2] - PortRange(rule)[1] >= 100

IngressRisk(rule) ==
    IF AdminPort(rule) THEN CRITICAL
    ELSE IF BroadRange(rule) THEN HIGH ELSE MEDIUM

PortOf(rule) ==
    IF rule.protocol = "all" THEN "all"
    ELSE IF AdminPort(rule) THEN "admin"
    ELSE IF rule.protocol = "tcp" /\ rule.ports = <<443, 443>> THEN "https"
    ELSE "other"

Edge(source, node, relationship, risk, port) ==
    [source |-> source, target |-> node, relationship |-> relationship,
     risk |-> risk, port |-> port]

PublicIngress(sg) ==
    {rule \in Rules(sg) : rule.cidr = "public" /\ rule.ports # <<"expr">>}

IngressFindings(rs) ==
    UNION {{Edge(Internet, sg.address, "INGRESS_ALLOWS", IngressRisk(rule),
                 PortOf(rule)) : rule \in PublicIngress(sg)} :
           sg \in OfType(rs, "aws_security_group")}

Attached(instance) ==
    References(instance, "vpc_security_group_ids") \cup
    References(instance, "security_groups")

(* instance_role_addresses().                                              *)
InstanceRoles(rs, instance) ==
    LET named == References(instance, "iam_instance_profile")
        profiles == {p \in OfType(rs, "aws_iam_instance_profile") :
                        p.address \in named}
    IN  named \cup UNION {References(p, "role") : p \in profiles}

InstanceFindings(rs) ==
    LET groups == {g.address : g \in OfType(rs, "aws_security_group")}
        roles == {r.address : r \in OfType(rs, "aws_iam_role")}
        instances == OfType(rs, "aws_instance")
    IN  (UNION {{Edge(g, i.address, "PROTECTS", LOW, "none") :
                    g \in Attached(i) \cap groups} : i \in instances})
        \cup
        (UNION {{Edge(i.address, r, "ASSUMES_ROLE", MEDIUM, "none") :
                    r \in InstanceRoles(rs, i) \cap roles} : i \in instances})

(* Resource patterns of a statement: <<"all", "">>, a bucket or its objects*)
(* by reference, or by the name in a literal ARN.                          *)
Everything == <<"all", "">>

Matches(pattern, bucket, objectsOnly) ==
    \/ pattern = Everything
    \/ pattern = <<"objects", bucket.address>>
    \/ pattern = <<"bucket", bucket.address>> /\ ~objectsOnly
    \/ \E m \in Members(bucket, "bucket") :
          \/ pattern = <<"objects arn", m[2]>>
          \/ pattern = <<"bucket arn", m[2]>> /\ ~objectsOnly

(* The s3 actions: "s3:*" and "*" hold a wildcard.                         *)
S3Actions == {"s3:GetObject", "s3:PutObject", "s3:*", "*"}
ReadActions == {"s3:GetObject", "s3:*", "*"}
WildcardActions == {"s3:*", "*"}

(* role_policy_sources().                                                  *)
PolicySources(rs, role) ==
    Linked(rs, "aws_iam_role_policy", "role", role) \cup
    {p \in OfType(rs, "aws_iam_policy") :
        \E a \in Linked(rs, "aws_iam_role_policy_attachment", "role", role) :
           p.address \in References(a, "policy_arn")}

(* s3_access_findings().                                                   *)
S3Access(p) ==
    {s \in Statements(p) : s.effect = "Allow" /\ s.actions \cap S3Actions # {}}

AccessRisk(s) ==
    LET wild == s.actions \cap WildcardActions # {}
        all == Everything \in s.resources
    IN  IF wild /\ all THEN CRITICAL ELSE IF wild \/ all THEN HIGH
        ELSE MEDIUM

AccessFindings(rs) ==
    LET granted(role, b) ==
          {s \in UNION {S3Access(p) : p \in PolicySources(rs, role.address)} :
              \E pattern \in s.resources : Matches(pattern, b, FALSE)}
    IN  UNION {{Edge(role.address, b.address, "CAN_ACCESS", AccessRisk(s),
                     "none") : s \in granted(role, b)} :
               role \in OfType(rs, "aws_iam_role"),
               b \in OfType(rs, "aws_s3_bucket")}

(* bucket_public_access_block(): a flag counts when one control sets it.   *)
Controlled(rs, bucket, flag) ==
    LET controls == Linked(rs, "aws_s3_bucket_public_access_block", "bucket",
                           bucket.address)
    IN  /\ Cardinality(controls) = 1
        /\ \A c \in controls : Members(c, flag) = {Literal("true")}

(* public_bucket_findings(): canned ACLs, and statements for anyone.       *)
PublicAcls(rs, bucket) ==
    LET linked == Linked(rs, "aws_s3_bucket_acl", "bucket", bucket.address)
    IN {m \in UNION {Members(r, "acl") : r \in {bucket} \cup linked} :
        m[2] \in {"public-read", "public-read-write"}}

Anonymous(bucket, s) ==
    /\ s.effect = "Allow" /\ s.principal = "*"
    /\ s.actions \cap ReadActions # {}
    /\ \E pattern \in s.resources : Matches(pattern, bucket, TRUE)

PublicStatements(rs, bucket) ==
    {s \in UNION {Statements(p) : p \in Linked(rs, "aws_s3_bucket_policy",
                                              "bucket", bucket.address)} :
        Anonymous(bucket, s)}

PublicFindings(rs) ==
    UNION {
      {Edge(Internet, b.address, "PUBLIC_ACCESS",
            IF acl[2] = "public-read-write" THEN CRITICAL ELSE HIGH, "none") :
         acl \in {a \in PublicAcls(rs, b) :
                    ~Controlled(rs, b, "ignore_public_acls")}}
      \cup
      {Edge(Internet, b.address, "PUBLIC_ACCESS", CRITICAL, "none") :
         s \in {t \in PublicStatements(rs, b) :
                  ~Controlled(rs, b, "restrict_public_buckets")
                  \/ t.condition}}
      : b \in OfType(rs, "aws_s3_bucket")}

(* is_sensitive_bucket().                                                  *)
ContainsFindings(rs) ==
    {Edge(b.address, MarkerOf[b.address], "CONTAINS", HIGH, "none") :
       b \in {c \in OfType(rs, "aws_s3_bucket") :
                Literal("sensitive") \in Members(c, "tags")}}

(* What the rules find: build_graph() makes the graph of it.               *)
Findings(config) ==
    LET rs == Unambiguous(config)
    IN  IngressFindings(rs) \cup InstanceFindings(rs) \cup AccessFindings(rs)
          \cup PublicFindings(rs) \cup ContainsFindings(rs)
=============================================================================
