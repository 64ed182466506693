------------------------------ MODULE Landscape ------------------------------
(***************************************************************************)
(* What Terraform and its users put before the engine: a small AWS         *)
(* landscape, the attack edges it really has, and the ways to write it     *)
(* down as .tf files or to have it in a plan.                              *)
(*                                                                         *)
(* Two security groups, one instance with a role, and two buckets.  The    *)
(* edges follow from what AWS does, not from the rules of the program.  A  *)
(* style is one respect in which the text differs from the plain one: what *)
(* AWS ends up with is the landscape all the same.                         *)
(***************************************************************************)
EXTENDS Parsers

Groups == {"g1", "g2"}
Buckets == {"b1", "b2"}

(* Ports open to the world, where a group is attached, the buckets the     *)
(* role may read, what makes b1 public, whether a public access block is   *)
(* in force on b1, and which buckets hold sensitive data.                  *)
Landscapes ==
    [open: [Groups -> SUBSET {"https", "admin", "range", "all"}],
     attached: SUBSET Groups, access: SUBSET Buckets,
     public: SUBSET {"acl", "policy"}, blocked: BOOLEAN,
     sensitive: SUBSET Buckets]

TrueEdges(l) ==
    {<<Internet, g>> : g \in {h \in Groups : l.open[h] # {}}}
    \cup {<<g, "e1">> : g \in l.attached} \cup {<<"e1", "r1">>}
    \cup {<<"r1", b>> : b \in l.access}
    \cup {<<Internet, "b1">> : way \in IF l.blocked THEN {} ELSE l.public}
    \cup {<<b, MarkerOf[b]>> : b \in l.sensitive}

(* All that the rules find in a landscape, however it is written down.     *)
RuleFindings ==
    LET ingress == {<<MEDIUM, "https">>, <<MEDIUM, "other">>,
                    <<HIGH, "other">>, <<CRITICAL, "admin">>,
                    <<CRITICAL, "all">>}
    IN  {Edge(Internet, g, "INGRESS_ALLOWS", i[1], i[2]) :
             g \in Groups, i \in ingress}
        \cup {Edge(g, "e1", "PROTECTS", LOW, "none") : g \in Groups}
        \cup {Edge("e1", "r1", "ASSUMES_ROLE", MEDIUM, "none")}
        \cup {Edge("r1", b, "CAN_ACCESS", risk, "none") :
                  b \in Buckets, risk \in {MEDIUM, HIGH}}
        \cup {Edge(Internet, "b1", "PUBLIC_ACCESS", risk, "none") :
                  risk \in {HIGH, CRITICAL}}
        \cup {Edge(b, MarkerOf[b], "CONTAINS", HIGH, "none") : b \in Buckets}

(* build_graph() adds an edge for each of them.                            *)
ASSUME LandscapeAssumption == RuleFindings \subseteq Range(Candidates)

-----------------------------------------------------------------------------
(* The blocks of the landscape.                                            *)

R(type, address, attrs) ==
    [type |-> type, address |-> address, attrs |-> attrs]

(* A list or attributes with one member, and one with those of another     *)
(* besides: :> and @@ of TLC, in a form that can be reasoned about.        *)
Only(name, value) == [n \in {name} |-> value]
With(f, g) ==
    [n \in DOMAIN f \cup DOMAIN g |-> IF n \in DOMAIN f THEN f[n] ELSE g[n]]

Ports(port) ==
    CASE port = "https" -> <<443, 443>>
      [] port = "admin" -> <<20, 30>>
      [] port = "range" -> <<8000, 8200>>
      [] port = "all" -> <<>>

Rule(port, style) ==
    [protocol |-> IF port = "all" THEN "all"
                  ELSE IF style = "protocol variable" THEN "expr" ELSE "tcp",
     ports |-> IF style = "port variable" /\ port # "all" THEN <<"expr">>
               ELSE Ports(port),
     cidr |-> IF style = "cidr variable" THEN "expr" ELSE "public",
     hop |-> FALSE]

PrivateRule(style) ==
    [protocol |-> "tcp", ports |-> <<22, 22>>, cidr |-> "private",
     hop |-> style = "group hop"]

Group(l, g, style) ==
    LET inline == style # "rule resource" \/ g # "g1"
        rules == {Rule(p, style) : p \in IF inline THEN l.open[g] ELSE {}}
    IN  R("aws_security_group", g,
          [ingress |-> rules \cup {PrivateRule(style)}])

Instance(l, style) ==
    LET member(g) == IF style = "literal group" THEN Literal(g) ELSE Ref(g)
        order == <<"g1", "g2">>
        groups == IF style = "attachment variable" THEN <<Expr>>
                  ELSE [i \in {j \in 1..2 : order[j] \in l.attached} |->
                           member(order[i])]
        attached == IF style = "shared names" THEN "security_groups"
                    ELSE "vpc_security_group_ids"
        profile == <<Ref(IF style = "role direct" THEN "r1" ELSE "p1")>>
        count == IF style = "count" THEN Only("count", <<Literal("1")>>)
                 ELSE <<>>
    IN  R("aws_instance", "e1",
          With(Only("iam_instance_profile", profile),
               With(Only(attached, groups), count)))

(* The grant to the role, in the ways a policy may be written.             *)
Pattern(kind, b, style) ==
    <<IF style # "arn" THEN kind
      ELSE IF kind = "bucket" THEN "bucket arn" ELSE "objects arn", b>>

Patterns(buckets, style) ==
    {Pattern(kind, b, style) : kind \in {"bucket", "objects"}, b \in buckets}

GrantedActions(style) ==
    {IF style = "wildcard action" THEN "s3:*" ELSE "s3:GetObject"}

GrantedResources(l, style) ==
    IF style = "everything" /\ l.access = Buckets THEN {Everything}
    ELSE IF style = "resource variable" THEN {Expr}
    ELSE Patterns(l.access, style)

Grant(l, style) ==
    [effect |-> "Allow", actions |-> GrantedActions(style),
     resources |-> GrantedResources(l, style),
     principal |-> "role", condition |-> style = "condition"]

RolePolicy(l, style) ==
    LET deny == [Grant(l, style) EXCEPT !.effect = "Deny"]
        grants == IF l.access = {} THEN {[Grant(l, style) EXCEPT
                       !.resources = {<<"bucket arn", "elsewhere">>}]}
                  ELSE {Grant(l, style)} \cup
                       (IF style = "deny" THEN {deny} ELSE {})
    IN  [kind |-> IF style = "policy variable" THEN "expr" ELSE "json",
         statements |-> grants]

RoleBlocks(l, style) ==
    LET role == R("aws_iam_role", "r1",
                  IF style = "boundary"
                  THEN Only("permissions_boundary", <<Literal("arn")>>)
                  ELSE <<>>)
        attachment(arn) ==
          R("aws_iam_role_policy_attachment", "at1",
            [role |-> <<Ref("r1")>>, policy_arn |-> <<arn>>])
        managed ==
          R("aws_iam_policy", "mp1", [policy |-> RolePolicy(l, style)])
    IN  <<R("aws_iam_instance_profile", "p1", [role |-> <<Ref("r1")>>]), role>>
        \o CASE style = "managed" -> <<managed, attachment(Ref("mp1"))>>
             [] style = "policy elsewhere" -> <<attachment(Literal("arn"))>>
             [] style = "policy missing" -> <<attachment(Ref("mp2"))>>
             [] OTHER -> <<R("aws_iam_role_policy", "rp1",
                             [role |-> <<Ref("r1")>>,
                              policy |-> RolePolicy(l, style)])>>

Bucket(l, b, style) ==
    LET tags == IF b \in l.sensitive THEN <<Literal("sensitive")>> ELSE <<>>
        acl == IF b = "b1" /\ "acl" \in l.public THEN "public-read"
               ELSE "private"
    IN  R("aws_s3_bucket", b,
          With([bucket |-> <<Literal(b)>>,
                tags |-> IF style = "tag variable" THEN <<Expr>> ELSE tags],
               IF style = "inline acl" THEN Only("acl", <<Literal(acl)>>)
               ELSE <<>>))

PublicPolicy(style) ==
    [kind |-> "json",
     statements |->
       {[effect |-> "Allow", actions |-> {"s3:GetObject"},
         resources |-> {Pattern("objects", "b1", style)},
         principal |-> CASE style = "partial principal" -> "partial"
                         [] style = "no principal" -> "absent"
                         [] OTHER -> "*",
         condition |-> FALSE]}]

PublicBlocks(l, style) ==
    LET on(attrs) == With(Only("bucket", <<Ref("b1")>>), attrs)
        flag == IF style = "flag variable" THEN Expr ELSE Literal("true")
        block(address) ==
          R("aws_s3_bucket_public_access_block", address,
            on([ignore_public_acls |-> <<flag>>,
                restrict_public_buckets |-> <<flag>>]))
        acl == IF style = "acl variable" THEN Expr ELSE Literal("public-read")
    IN  (IF "acl" \in l.public /\ style # "inline acl"
         THEN <<R("aws_s3_bucket_acl", "ba1", on(Only("acl", <<acl>>)))>>
         ELSE <<>>)
        \o (IF "policy" \in l.public
            THEN <<R("aws_s3_bucket_policy", "bp1",
                     on(Only("policy", PublicPolicy(style))))>>
            ELSE <<>>)
        \o (IF l.blocked THEN <<block("pb1")>> ELSE <<>>)
        \o (IF l.blocked /\ style = "two blocks" THEN <<block("pb2")>>
            ELSE <<>>)

(* Blocks of types the engine does not model.                              *)
OtherBlocks(style) ==
    CASE style = "rule resource" ->
           <<R("aws_vpc_security_group_ingress_rule", "sr1", <<>>)>>
      [] style = "inert resource" -> <<R("aws_vpc", "vp1", <<>>)>>
      [] OTHER -> <<>>

Blocks(l, style) ==
    <<Group(l, "g1", style), Group(l, "g2", style), Instance(l, style)>>
    \o RoleBlocks(l, style)
    \o <<Bucket(l, "b1", style), Bucket(l, "b2", style)>>
    \o PublicBlocks(l, style) \o OtherBlocks(style)

(* The directory: a module or a .tf.json file holds the first group.       *)
Directory(l, style) ==
    LET apart == style \in {"module", "json"}
        all == Blocks(l, style)
        blocks == Restrict(all, {i \in DOMAIN all :
                                    ~apart \/ all[i].address # "g1"})
        closed == Group([l EXCEPT !.open["g1"] = {}], "g1", style)
        twice == IF style = "twice" THEN Only(0, closed) ELSE <<>>
    IN  [blocks |-> With(blocks, twice),
         modules |-> style = "module", json |-> style = "json",
         text |-> CASE style = "broken" -> "broken"
                    [] style = "empty" -> "none"
                    [] OTHER -> "hcl"]

-----------------------------------------------------------------------------
(* `terraform show -json' of the plan from one landscape to another.  What *)
(* is new has no id yet: what names it is unknown.                         *)

Fresh(style) ==
    CASE style = "fresh group" -> {"g2"} [] style = "fresh bucket" -> {"b2"}
      [] OTHER -> {}

(* The landscape before there is any of that.                              *)
Older(l, style) ==
    CASE style = "fresh group" ->
           [l EXCEPT !.open["g2"] = {}, !.attached = @ \ {"g2"}]
      [] style = "fresh bucket" ->
           [l EXCEPT !.access = @ \ {"b2"}, !.sensitive = @ \ {"b2"}]
      [] OTHER -> l

(* The attributes of a block Terraform cannot know before it applies.      *)
UnknownOf(r, fresh) ==
    {n \in DOMAIN r.attrs :
        CASE n = "ingress" -> FALSE
          [] n = "policy" -> PolicyReferences(r) \cap fresh # {}
          [] OTHER -> References(r, n) \cap fresh # {}}

(* A reference is shown as the id or the name of what it names.            *)
Identity(name, address, style) ==
    Literal(IF name \in {"name", "security_groups"} /\ style = "shared names"
            THEN "web" ELSE address)

ArnsOf(policy) ==
    LET arn(p) == CASE p[1] = "bucket" -> <<"bucket arn", p[2]>>
                    [] p[1] = "objects" -> <<"objects arn", p[2]>>
                    [] OTHER -> p
        shown(s) == [s EXCEPT !.resources = {arn(p) : p \in s.resources}]
    IN  [policy EXCEPT !.statements = {shown(s) : s \in policy.statements}]

Values(r, fresh, style) ==
    LET known == DOMAIN r.attrs \ UnknownOf(r, fresh)
        value(n) ==
          CASE n = "ingress" -> r.attrs[n]
            [] n = "policy" -> ArnsOf(r.attrs[n])
            [] OTHER -> [i \in DOMAIN r.attrs[n] |->
                 LET m == r.attrs[n][i]
                 IN  IF m[1] = "ref" THEN Identity(n, m[2], style) ELSE m]
        computed == IF r.address \in fresh THEN {} ELSE {"id", "arn", "name"}
    IN  With([n \in known |-> value(n)],
             [n \in computed |-> <<Identity(n, r.address, style)>>])

PlaceOf(address, style) ==
    CASE style = "module" /\ address = "g1" -> "module"
      [] style = "indexed" /\ address = "e1" -> "indexed"
      [] OTHER -> "root"

Entry(r, fresh, style) ==
    [type |-> r.type, address |-> r.address, mode |-> "managed",
     place |-> PlaceOf(r.address, style), attrs |-> Values(r, fresh, style)]

DataSource ==
    [type |-> "aws_s3_bucket", address |-> "b9", mode |-> "data",
     place |-> "root", attrs |-> <<>>]

(* configuration.root_module.resources[].expressions[].references.         *)
ReferencesOf(blocks) ==
    LET typeOf(a) == (CHOOSE r \in Range(blocks) : r.address = a).type
        named(list) ==
          [i \in {j \in DOMAIN list : list[j][1] = "ref"} |->
             <<typeOf(list[i][2]), list[i][2]>>]
    IN  [a \in {r.address : r \in Range(blocks)} |->
           LET r == CHOOSE s \in Range(blocks) : s.address = a
           IN  [n \in LinkAttributes(r.type) \cap DOMAIN r.attrs |->
                  named(r.attrs[n])]]

(* Terraform lists what changes; the snapshots hold everything.            *)
Plan(l0, l1, style) ==
    LET fresh == Fresh(style)
        earlier == Blocks(Older(l0, style), style)
        old == Restrict(earlier, {i \in DOMAIN earlier :
                                     earlier[i].address \notin fresh})
        new == Blocks(l1, style)
        extra == IF style = "data" THEN Only(0, DataSource) ELSE <<>>
        entries(blocks, unknown) ==
          With([i \in DOMAIN blocks |-> Entry(blocks[i], unknown, style)],
               extra)
        addresses(blocks) == {r.address : r \in Range(blocks)}
        at(a, blocks) == CHOOSE r \in Range(blocks) : r.address = a
        side(a, blocks, unknown) ==
          IF a \in addresses(blocks)
          THEN <<Values(at(a, blocks), unknown, style)>> ELSE <<>>
        change(a) ==
          LET r == IF a \in addresses(new) THEN at(a, new) ELSE at(a, old)
          IN  [type |-> r.type, address |-> a, mode |-> "managed",
               place |-> PlaceOf(a, style),
               before |-> side(a, old, {}), after |-> side(a, new, fresh),
               unknown |-> UnknownOf(r, fresh)]
        changes == [a \in addresses(new) \cup addresses(old) |-> change(a)]
    IN  [prior |-> IF style = "no prior state" THEN <<>>
                   ELSE <<entries(old, {})>>,
         planned |-> IF style = "no planned values" THEN <<>>
                     ELSE <<entries(new, fresh)>>,
         changes |-> Restrict(changes, {a \in DOMAIN changes :
                                  changes[a].before # changes[a].after}),
         references |-> IF style = "indirect" THEN <<>>
                        ELSE ReferencesOf(Supported(new)),
         broken |-> style = "broken"]
=============================================================================
