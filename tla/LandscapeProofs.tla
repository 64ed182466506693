-------------------------- MODULE LandscapeProofs --------------------------
(***************************************************************************)
(* What the rules find in a landscape that is written in some style and    *)
(* read by a parser.  Every finding is one that LandscapeAssumption names  *)
(* (FindingsBound); and where the coverage checks find no gap, the edges   *)
(* are those of the landscape (CompleteExact).                             *)
(*                                                                         *)
(* A resource Reads a block when it takes over what the block says, or     *)
(* less.  Both parsers make resources that read the blocks of the          *)
(* landscape, and read all of them unless there is a diagnostic            *)
(* (Faithful); a resource without a gap takes over all that the rules look *)
(* at.  First the blocks and what is found in them, kind by kind of        *)
(* finding; then plans, whose links have to be recovered; then what is     *)
(* exact; then what the edits of module Remediation keep and change        *)
(* (InnerKept, RepairFinds, CompleteEdited).                               *)
(***************************************************************************)
EXTENDS Landscape, Remediation, SequenceTheorems, FiniteSetTheorems, TLAPS

-----------------------------------------------------------------------------
IsList(s) == s \in Seq(Range(s))

LEMMA ListJoin ==
    ASSUME NEW s, NEW t, IsList(s), IsList(t)
    PROVE  IsList(s \o t) /\ Range(s \o t) = Range(s) \cup Range(t)
  <1> DEFINE S == Range(s) \cup Range(t)
  <1>1. s \in Seq(S) /\ t \in Seq(S)
    <2>1. Range(s) \subseteq S /\ Range(t) \subseteq S
      OBVIOUS
    <2> HIDE DEF S
    <2>2. \A T, U : T \subseteq U => Seq(T) \subseteq Seq(U)
      OBVIOUS
    <2> QED BY <2>1, <2>2 DEF IsList
  <1>2. Range(s \o t) = S
    <2>1. /\ s \o t \in Seq(S) /\ Len(s \o t) = Len(s) + Len(t)
          /\ \A i \in 1..(Len(s) + Len(t)) :
                (s \o t)[i] = IF i <= Len(s) THEN s[i] ELSE t[i - Len(s)]
      BY <1>1, ConcatProperties
    <2>2. /\ DOMAIN (s \o t) = 1..(Len(s) + Len(t))
          /\ DOMAIN s = 1..Len(s) /\ DOMAIN t = 1..Len(t)
          /\ Len(s) \in Nat /\ Len(t) \in Nat
      BY <1>1, <2>1
    <2> HIDE DEF S
    <2>3. ASSUME NEW x \in Range(s) PROVE x \in Range(s \o t)
      <3>1. PICK i \in 1..Len(s) : x = s[i]
        BY <2>2 DEF Range
      <3>2. i \in 1..(Len(s) + Len(t)) /\ (s \o t)[i] = x
        BY <2>1, <2>2, <3>1
      <3> QED BY <2>2, <3>2 DEF Range
    <2>4. ASSUME NEW x \in Range(t) PROVE x \in Range(s \o t)
      <3>1. PICK i \in 1..Len(t) : x = t[i]
        BY <2>2 DEF Range
      <3> DEFINE j == i + Len(s)
      <3>2. j \in 1..(Len(s) + Len(t)) /\ ~(j <= Len(s)) /\ j - Len(s) = i
        BY <2>2, <3>1
      <3> HIDE DEF j
      <3>3. (s \o t)[j] = x
        BY <2>1, <3>1, <3>2
      <3> QED BY <2>2, <3>2, <3>3 DEF Range
    <2>5. Range(s \o t) \subseteq S
      BY <2>1 DEF Range
    <2> QED BY <2>3, <2>4, <2>5 DEF S
  <1>3. s \o t \in Seq(S)
    BY <1>1
  <1> QED BY <1>2, <1>3 DEF IsList

LEMMA ShortLists ==
    ASSUME NEW a, NEW b, NEW c
    PROVE  /\ IsList(<<>>) /\ Range(<<>>) = {}
           /\ IsList(<<a>>) /\ Range(<<a>>) = {a}
           /\ IsList(<<a, b>>) /\ Range(<<a, b>>) = {a, b}
           /\ IsList(<<a, b, c>>) /\ Range(<<a, b, c>>) = {a, b, c}
  <1>1. Range(<<>>) = {} 
    BY DEF Range
  <1>2. Range(<<a>>) = {a} 
    BY DEF Range
  <1>3. Range(<<a, b>>) = {a, b} 
    BY DEF Range
  <1>4. Range(<<a, b, c>>) = {a, b, c} 
    BY DEF Range
  <1> QED BY <1>1, <1>2, <1>3, <1>4 DEF IsList


-----------------------------------------------------------------------------
Profile == R("aws_iam_instance_profile", "p1", [role |-> <<Ref("r1")>>])
Role(style) ==
    R("aws_iam_role", "r1",
      IF style = "boundary"
      THEN Only("permissions_boundary", <<Literal("arn")>>) ELSE <<>>)
Attachment(arn) ==
    R("aws_iam_role_policy_attachment", "at1",
      [role |-> <<Ref("r1")>>, policy_arn |-> <<arn>>])
Managed(l, style) ==
    R("aws_iam_policy", "mp1", [policy |-> RolePolicy(l, style)])
Inline(l, style) ==
    R("aws_iam_role_policy", "rp1",
      [role |-> <<Ref("r1")>>, policy |-> RolePolicy(l, style)])

Grants(l, style) ==
    CASE style = "managed" -> {Managed(l, style), Attachment(Ref("mp1"))}
      [] style = "policy elsewhere" -> {Attachment(Literal("arn"))}
      [] style = "policy missing" -> {Attachment(Ref("mp2"))}
      [] OTHER -> {Inline(l, style)}

LEMMA ThreeList ==
    ASSUME NEW a, NEW b, NEW c
    PROVE  IsList(<<a, b, c>>) /\ Range(<<a, b, c>>) = {a, b, c}
  BY DEF IsList, Range

LEMMA RoleBlocksAre ==
    ASSUME NEW l, NEW style
    PROVE  /\ IsList(RoleBlocks(l, style))
           /\ Range(RoleBlocks(l, style)) =
                 {Profile, Role(style)} \cup Grants(l, style)
  <1> DEFINE two == <<Profile, Role(style)>>
             rest == CASE style = "managed" ->
                            <<Managed(l, style), Attachment(Ref("mp1"))>>
                       [] style = "policy elsewhere" ->
                            <<Attachment(Literal("arn"))>>
                       [] style = "policy missing" ->
                            <<Attachment(Ref("mp2"))>>
                       [] OTHER -> <<Inline(l, style)>>
  <1>1. RoleBlocks(l, style) = two \o rest
    BY DEF RoleBlocks, Profile, Role, Managed, Attachment, Inline
  <1>2. IsList(two) /\ Range(two) = {Profile, Role(style)}
    BY ShortLists
  <1>3. IsList(rest) /\ Range(rest) = Grants(l, style)
    BY ShortLists DEF Grants
  <1> HIDE DEF two, rest
  <1> QED BY <1>1, <1>2, <1>3, ListJoin

AclBlock(style) ==
    R("aws_s3_bucket_acl", "ba1",
      With(Only("bucket", <<Ref("b1")>>),
           Only("acl", <<IF style = "acl variable" THEN Expr
                         ELSE Literal("public-read")>>)))
PolicyBlock(style) ==
    R("aws_s3_bucket_policy", "bp1",
      With(Only("bucket", <<Ref("b1")>>),
           Only("policy", PublicPolicy(style))))
FlagOf(style) ==
    IF style = "flag variable" THEN Expr ELSE Literal("true")
ControlBlock(address, style) ==
    R("aws_s3_bucket_public_access_block", address,
      With(Only("bucket", <<Ref("b1")>>),
           [ignore_public_acls |-> <<FlagOf(style)>>,
            restrict_public_buckets |-> <<FlagOf(style)>>]))

Publics(l, style) ==
    (IF "acl" \in l.public /\ style # "inline acl"
     THEN {AclBlock(style)} ELSE {})
    \cup (IF "policy" \in l.public THEN {PolicyBlock(style)} ELSE {})
    \cup (IF l.blocked THEN {ControlBlock("pb1", style)} ELSE {})
    \cup (IF l.blocked /\ style = "two blocks"
          THEN {ControlBlock("pb2", style)} ELSE {})

LEMMA PublicBlocksAre ==
    ASSUME NEW l, NEW style
    PROVE  /\ IsList(PublicBlocks(l, style))
           /\ Range(PublicBlocks(l, style)) = Publics(l, style)
  <1> DEFINE s1 == IF "acl" \in l.public /\ style # "inline acl"
                   THEN <<AclBlock(style)>> ELSE <<>>
             s2 == IF "policy" \in l.public THEN <<PolicyBlock(style)>>
                   ELSE <<>>
             s3 == IF l.blocked THEN <<ControlBlock("pb1", style)>> ELSE <<>>
             s4 == IF l.blocked /\ style = "two blocks"
                   THEN <<ControlBlock("pb2", style)>> ELSE <<>>
  <1>1. PublicBlocks(l, style) = s1 \o s2 \o s3 \o s4
    BY DEF PublicBlocks, AclBlock, PolicyBlock, ControlBlock, FlagOf
  <1>2. /\ IsList(s1) /\ IsList(s2) /\ IsList(s3) /\ IsList(s4)
        /\ Publics(l, style) =
              Range(s1) \cup Range(s2) \cup Range(s3) \cup Range(s4)
    BY ShortLists DEF Publics
  <1> HIDE DEF s1, s2, s3, s4
  <1>3. IsList(s1 \o s2) /\ Range(s1 \o s2) = Range(s1) \cup Range(s2)
    BY <1>2, ListJoin
  <1>4. /\ IsList(s1 \o s2 \o s3)
        /\ Range(s1 \o s2 \o s3) = Range(s1 \o s2) \cup Range(s3)
    BY <1>2, <1>3, ListJoin
  <1>5. /\ IsList(s1 \o s2 \o s3 \o s4)
        /\ Range(s1 \o s2 \o s3 \o s4) = Range(s1 \o s2 \o s3) \cup Range(s4)
    BY <1>2, <1>4, ListJoin
  <1> QED BY <1>1, <1>2, <1>3, <1>4, <1>5

Others(style) ==
    CASE style = "rule resource" ->
           {R("aws_vpc_security_group_ingress_rule", "sr1", <<>>)}
      [] style = "inert resource" -> {R("aws_vpc", "vp1", <<>>)}
      [] OTHER -> {}

BlocksOf(l, style) ==
    {Group(l, "g1", style), Group(l, "g2", style), Instance(l, style),
     Profile, Role(style), Bucket(l, "b1", style), Bucket(l, "b2", style)}
    \cup Grants(l, style) \cup Publics(l, style) \cup Others(style)

LEMMA BlocksAre ==
    ASSUME NEW l, NEW style
    PROVE  /\ IsList(Blocks(l, style))
           /\ Range(Blocks(l, style)) = BlocksOf(l, style)
  <1> DEFINE s1 == <<Group(l, "g1", style), Group(l, "g2", style),
                     Instance(l, style)>>
             s2 == RoleBlocks(l, style)
             s3 == <<Bucket(l, "b1", style), Bucket(l, "b2", style)>>
             s4 == PublicBlocks(l, style)
             s5 == OtherBlocks(style)
  <1>1. Blocks(l, style) = s1 \o s2 \o s3 \o s4 \o s5
    BY DEF Blocks
  <1>2. /\ IsList(s1)
        /\ Range(s1) = {Group(l, "g1", style), Group(l, "g2", style),
                        Instance(l, style)}
    <2> DEFINE a == Group(l, "g1", style)  b == Group(l, "g2", style)
               c == Instance(l, style)
    <2> HIDE DEF a, b, c
    <2>1. IsList(<<a, b, c>>) /\ Range(<<a, b, c>>) = {a, b, c}
      BY ThreeList
    <2> QED BY <2>1 DEF a, b, c
  <1>2a. /\ IsList(s3)
         /\ Range(s3) = {Bucket(l, "b1", style), Bucket(l, "b2", style)}
    BY ShortLists
  <1>3. IsList(s5) /\ Range(s5) = Others(style)
    BY ShortLists DEF OtherBlocks, Others
  <1>4. /\ IsList(s2) /\ IsList(s4) /\ Range(s4) = Publics(l, style)
        /\ Range(s2) = {Profile, Role(style)} \cup Grants(l, style)
    BY RoleBlocksAre, PublicBlocksAre
  <1> HIDE DEF s1, s2, s3, s4, s5
  <1>5. IsList(s1 \o s2) /\ Range(s1 \o s2) = Range(s1) \cup Range(s2)
    BY <1>2, <1>4, ListJoin
  <1>6. /\ IsList(s1 \o s2 \o s3)
        /\ Range(s1 \o s2 \o s3) = Range(s1 \o s2) \cup Range(s3)
    BY <1>2a, <1>5, ListJoin
  <1>7. /\ IsList(s1 \o s2 \o s3 \o s4)
        /\ Range(s1 \o s2 \o s3 \o s4) = Range(s1 \o s2 \o s3) \cup Range(s4)
    BY <1>4, <1>6, ListJoin
  <1>8. /\ IsList(s1 \o s2 \o s3 \o s4 \o s5)
        /\ Range(s1 \o s2 \o s3 \o s4 \o s5)
             = Range(s1 \o s2 \o s3 \o s4) \cup Range(s5)
    BY <1>3, <1>7, ListJoin
  <1> QED BY <1>1, <1>2, <1>2a, <1>3, <1>4, <1>5, <1>6, <1>7, <1>8 DEF BlocksOf
-----------------------------------------------------------------------------
(* The blocks of each type.                                                *)

LEMMA BlockTypes ==
    ASSUME NEW l, NEW style
    PROVE  /\ \A g : Group(l, g, style).type = "aws_security_group"
           /\ \A g : Group(l, g, style).address = g
           /\ Instance(l, style).type = "aws_instance"
           /\ Instance(l, style).address = "e1"
           /\ Profile.type = "aws_iam_instance_profile"
           /\ Profile.address = "p1"
           /\ Role(style).type = "aws_iam_role"
           /\ Role(style).address = "r1"
           /\ \A b : Bucket(l, b, style).type = "aws_s3_bucket"
           /\ \A b : Bucket(l, b, style).address = b
           /\ \A m : Attachment(m).type = "aws_iam_role_policy_attachment"
           /\ \A m : Attachment(m).address = "at1"
           /\ Managed(l, style).type = "aws_iam_policy"
           /\ Managed(l, style).address = "mp1"
           /\ Inline(l, style).type = "aws_iam_role_policy"
           /\ Inline(l, style).address = "rp1"
           /\ AclBlock(style).type = "aws_s3_bucket_acl"
           /\ AclBlock(style).address = "ba1"
           /\ PolicyBlock(style).type = "aws_s3_bucket_policy"
           /\ PolicyBlock(style).address = "bp1"
           /\ \A a : ControlBlock(a, style).type
                        = "aws_s3_bucket_public_access_block"
           /\ \A a : ControlBlock(a, style).address = a
  BY DEF R, Group, Instance, Profile, Role, Bucket, Attachment, Managed,
         Inline, AclBlock, PolicyBlock, ControlBlock

LEMMA GroupType ==
    ASSUME NEW l, NEW g, NEW style
    PROVE  /\ Group(l, g, style).type = "aws_security_group"
           /\ Group(l, g, style).address = g
  BY DEF R, Group

LEMMA BucketType ==
    ASSUME NEW l, NEW b, NEW style
    PROVE  /\ Bucket(l, b, style).type = "aws_s3_bucket"
           /\ Bucket(l, b, style).address = b
  BY DEF R, Bucket

LEMMA BlockKinds ==
    ASSUME NEW l, NEW style, NEW x \in BlocksOf(l, style)
    PROVE  /\ x.type = "aws_security_group" =>
                 \E g \in Groups : x = Group(l, g, style)
           /\ x.type = "aws_instance" => x = Instance(l, style)
           /\ x.type = "aws_iam_instance_profile" => x = Profile
           /\ x.type = "aws_iam_role" => x = Role(style)
           /\ x.type = "aws_s3_bucket" =>
                 \E b \in Buckets : x = Bucket(l, b, style)
           /\ x.type = "aws_iam_role_policy_attachment" =>
                 x \in Grants(l, style) /\ \E m : x = Attachment(m)
           /\ x.type = "aws_iam_policy" =>
                 x \in Grants(l, style) /\ x = Managed(l, style)
           /\ x.type = "aws_iam_role_policy" =>
                 x \in Grants(l, style) /\ x = Inline(l, style)
           /\ x.type = "aws_s3_bucket_acl" =>
                 x \in Publics(l, style) /\ x = AclBlock(style)
           /\ x.type = "aws_s3_bucket_policy" =>
                 x \in Publics(l, style) /\ x = PolicyBlock(style)
           /\ x.type = "aws_s3_bucket_public_access_block" =>
                 x \in Publics(l, style)
                 /\ \E a \in {"pb1", "pb2"} : x = ControlBlock(a, style)
  <1>1. CASE x = Group(l, "g1", style) \/ x = Group(l, "g2", style)
    <2>1. x.type = "aws_security_group"
      BY <1>1, GroupType
    <2> QED BY <1>1, <2>1 DEF Groups
  <1>2. CASE x = Instance(l, style)
    <2>1. x.type = "aws_instance"
      BY <1>2, BlockTypes
    <2> QED BY <1>2, <2>1 
  <1>3. CASE x = Profile
    <2>1. x.type = "aws_iam_instance_profile"
      BY <1>3, BlockTypes
    <2> QED BY <1>3, <2>1 
  <1>4. CASE x = Role(style)
    <2>1. x.type = "aws_iam_role"
      BY <1>4, BlockTypes
    <2> QED BY <1>4, <2>1 
  <1>5. CASE x = Bucket(l, "b1", style) \/ x = Bucket(l, "b2", style)
    <2>1. x.type = "aws_s3_bucket"
      BY <1>5, BucketType
    <2> QED BY <1>5, <2>1 DEF Buckets
  <1>6. CASE x \in Grants(l, style) /\ x = Managed(l, style)
    <2>1. x.type = "aws_iam_policy"
      BY <1>6, BlockTypes
    <2> QED BY <1>6, <2>1 
  <1>7. CASE x \in Grants(l, style) /\ x = Inline(l, style)
    <2>1. x.type = "aws_iam_role_policy"
      BY <1>7, BlockTypes
    <2> QED BY <1>7, <2>1 
  <1>8. CASE x \in Grants(l, style) /\ \E m : x = Attachment(m)
    <2>1. x.type = "aws_iam_role_policy_attachment"
      BY <1>8, BlockTypes
    <2> QED BY <1>8, <2>1 
  <1>9. CASE x \in Publics(l, style) /\ x = AclBlock(style)
    <2>1. x.type = "aws_s3_bucket_acl"
      BY <1>9, BlockTypes
    <2> QED BY <1>9, <2>1 
  <1>10. CASE x \in Publics(l, style) /\ x = PolicyBlock(style)
    <2>1. x.type = "aws_s3_bucket_policy"
      BY <1>10, BlockTypes
    <2> QED BY <1>10, <2>1 
  <1>11. CASE x \in Publics(l, style)
             /\ \E a \in {"pb1", "pb2"} : x = ControlBlock(a, style)
    <2>1. x.type = "aws_s3_bucket_public_access_block"
      BY <1>11 DEF ControlBlock, R
    <2> QED BY <1>11, <2>1 
  <1>12. CASE x \in Others(style)
    <2>1. x.type \in {"aws_vpc_security_group_ingress_rule", "aws_vpc"}
      <3>1. \/ x = R("aws_vpc_security_group_ingress_rule", "sr1", <<>>)
            \/ x = R("aws_vpc", "vp1", <<>>)
        BY <1>12 DEF Others
      <3> QED BY <3>1 DEF R
    <2> QED BY <2>1
  <1>13. ASSUME x \in Grants(l, style)
        PROVE  \/ x = Managed(l, style) \/ x = Inline(l, style)
               \/ \E m : x = Attachment(m)
    BY <1>13 DEF Grants
  <1>14. ASSUME x \in Publics(l, style)
        PROVE  \/ x = AclBlock(style) \/ x = PolicyBlock(style)
               \/ \E a \in {"pb1", "pb2"} : x = ControlBlock(a, style)
    BY <1>14 DEF Publics
  <1> QED BY <1>1, <1>2, <1>3, <1>4, <1>5, <1>6, <1>7, <1>8, <1>9, <1>10,
             <1>11, <1>12, <1>13, <1>14 DEF BlocksOf

-----------------------------------------------------------------------------
(* What a resource takes over from the block it was read from.             *)

NamedBy(x, name) == {m[2] : m \in Members(x, name) \ {Expr, Null}}

SamePattern(q, p) ==
    \/ q = p
    \/ /\ p[1] \in {"bucket", "bucket arn"}
       /\ q \in {<<"bucket", p[2]>>, <<"bucket arn", p[2]>>}
    \/ /\ p[1] \in {"objects", "objects arn"}
       /\ q \in {<<"objects", p[2]>>, <<"objects arn", p[2]>>}

SameStatement(t, s) ==
    /\ t.effect = s.effect /\ t.actions = s.actions
    /\ t.principal = s.principal /\ t.condition = s.condition
    /\ \A q \in t.resources : \E p \in s.resources : SamePattern(q, p)
    /\ \A p \in s.resources : \E q \in t.resources : SamePattern(q, p)

SamePolicy(d, e) ==
    /\ d.kind = e.kind
    /\ \A t \in d.statements : \E s \in e.statements : SameStatement(t, s)
    /\ \A s \in e.statements : \E t \in d.statements : SameStatement(t, s)

ReadsLink(r, x, name) ==
    /\ References(r, name) \subseteq NamedBy(x, name)
    /\ ~Unlinked(r, name) =>
          /\ References(r, name) = NamedBy(x, name)
          /\ Expr \notin Members(x, name)

PlainNames == {"acl", "tags", "ignore_public_acls", "restrict_public_buckets"}

Reads(r, x) ==
    /\ r.type = x.type /\ r.address = x.address
    /\ Rules(r) \subseteq Rules(x)
    /\ \A name \in PlainNames : Members(r, name) = Members(x, name)
    /\ x.type = "aws_s3_bucket" => Members(r, "bucket") = Members(x, "bucket")
    /\ Has(r, "policy") =>
          Has(x, "policy") /\ SamePolicy(r.attrs["policy"], x.attrs["policy"])
    /\ \A name \in LinkAttributes(x.type) : ReadsLink(r, x, name)

ReadFrom(rs, l, style) ==
    \A r \in rs : \E x \in BlocksOf(l, style) : Reads(r, x)

-----------------------------------------------------------------------------
(* No rule finds more than the landscape can hold.                         *)

LEMMA GroupRules ==
    ASSUME NEW l, NEW g, NEW style
    PROVE  /\ Rules(Group(l, g, style)) \subseteq
                 {Rule(p, style) : p \in l.open[g]} \cup {PrivateRule(style)}
           /\ style # "rule resource" =>
              Rules(Group(l, g, style)) =
                 {Rule(p, style) : p \in l.open[g]} \cup {PrivateRule(style)}
  BY DEF Group, R, Rules, Has

PortKinds == {"https", "admin", "range", "all"}
RiskAndPort ==
    {<<MEDIUM, "https">>, <<MEDIUM, "other">>, <<HIGH, "other">>,
     <<CRITICAL, "admin">>, <<CRITICAL, "all">>}

LEMMA RuleIs ==
    ASSUME NEW p \in PortKinds, NEW style
    PROVE  LET rule == Rule(p, style) IN
           /\ rule.ports # <<"expr">> => rule.ports = Ports(p)
           /\ rule.protocol = "all" <=> p = "all"
           /\ rule.protocol \in {"all", "tcp", "expr"}
           /\ rule.cidr \in {"public", "expr"}
           /\ ~rule.hop
  BY DEF Rule, PortKinds

LEMMA PortRisk ==
    ASSUME NEW p \in PortKinds, NEW style,
           Rule(p, style).ports # <<"expr">>
    PROVE  <<IngressRisk(Rule(p, style)), PortOf(Rule(p, style))>>
              \in RiskAndPort
  <1> DEFINE rule == Rule(p, style)
  <1>1. /\ rule.ports = Ports(p) /\ (rule.protocol = "all" <=> p = "all")
        /\ rule.protocol \in {"all", "tcp", "expr"}
    BY RuleIs
  <1> HIDE DEF rule
  <1>2. CASE p = "all"
    BY <1>1, <1>2 DEF IngressRisk, PortOf, AdminPort, BroadRange, RiskAndPort, rule
  <1>3. CASE p = "https"
    <2>1. PortRange(rule) = <<443, 443>> /\ rule.ports = <<443, 443>>
      BY <1>1, <1>3 DEF PortRange, Ports
    <2>2. ~AdminPort(rule) /\ ~BroadRange(rule)
      BY <1>1, <1>3, <2>1 DEF AdminPort, BroadRange, AdminPorts
    <2> QED BY <1>1, <1>3, <2>1, <2>2 DEF IngressRisk, PortOf, RiskAndPort, rule
  <1>4. CASE p = "admin"
    <2>1. PortRange(rule) = <<20, 30>> /\ rule.ports = <<20, 30>>
      BY <1>1, <1>4 DEF PortRange, Ports
    <2>2. ~BroadRange(rule) /\ (AdminPort(rule) <=> rule.protocol = "tcp")
      BY <1>1, <1>4, <2>1 DEF AdminPort, BroadRange, AdminPorts
    <2>3. rule.ports # <<443, 443>>
      BY <2>1
    <2> QED BY <1>1, <1>4, <2>2, <2>3 DEF IngressRisk, PortOf, RiskAndPort, rule
  <1>5. CASE p = "range"
    <2>1. PortRange(rule) = <<8000, 8200>> /\ rule.ports = <<8000, 8200>>
      BY <1>1, <1>5 DEF PortRange, Ports
    <2>2. BroadRange(rule) /\ ~AdminPort(rule)
      BY <1>1, <1>5, <2>1 DEF AdminPort, BroadRange, AdminPorts
    <2>3. rule.ports # <<443, 443>>
      BY <2>1
    <2> QED BY <1>1, <1>5, <2>2, <2>3 DEF IngressRisk, PortOf, RiskAndPort, rule
  <1> QED BY <1>2, <1>3, <1>4, <1>5 DEF PortKinds
IngressOf ==
    {Edge(Internet, g, "INGRESS_ALLOWS", i[1], i[2]) :
        g \in Groups, i \in RiskAndPort}
ProtectsOf == {Edge(g, "e1", "PROTECTS", LOW, "none") : g \in Groups}
AssumesOf == {Edge("e1", "r1", "ASSUMES_ROLE", MEDIUM, "none")}
AccessOf ==
    {Edge("r1", b, "CAN_ACCESS", risk, "none") :
        b \in Buckets, risk \in {MEDIUM, HIGH}}
PublicOf ==
    {Edge(Internet, "b1", "PUBLIC_ACCESS", risk, "none") :
        risk \in {HIGH, CRITICAL}}
ContainsOf == {Edge(b, MarkerOf[b], "CONTAINS", HIGH, "none") : b \in Buckets}

LEMMA RuleFindingsAre ==
    RuleFindings = IngressOf \cup ProtectsOf \cup AssumesOf \cup AccessOf
                   \cup PublicOf \cup ContainsOf
  BY DEF RuleFindings, IngressOf, ProtectsOf, AssumesOf, AccessOf, PublicOf,
         ContainsOf, RiskAndPort

LEMMA GroupsRead ==
    ASSUME NEW l \in Landscapes, NEW style, NEW rs, ReadFrom(rs, l, style),
           NEW sg \in OfType(rs, "aws_security_group")
    PROVE  /\ sg.address \in Groups
           /\ Rules(sg) \subseteq {Rule(p, style) : p \in l.open[sg.address]}
                                  \cup {PrivateRule(style)}
           /\ l.open[sg.address] \subseteq PortKinds
  <1>1. PICK x \in BlocksOf(l, style) : Reads(sg, x)
    BY DEF ReadFrom, OfType
  <1>2. x.type = "aws_security_group" /\ sg.address = x.address
        /\ Rules(sg) \subseteq Rules(x)
    BY <1>1 DEF OfType, Reads
  <1>3. PICK g \in Groups : x = Group(l, g, style)
    BY <1>2, BlockKinds
  <1>4. sg.address = g
    BY <1>2, <1>3, GroupType
  <1>5. l.open[g] \subseteq PortKinds
    BY DEF Landscapes, PortKinds
  <1> QED BY <1>2, <1>3, <1>4, <1>5, GroupRules

LEMMA IngressBound ==
    ASSUME NEW l \in Landscapes, NEW style, NEW rs, ReadFrom(rs, l, style)
    PROVE  IngressFindings(rs) \subseteq IngressOf
  <1>1. ASSUME NEW sg \in OfType(rs, "aws_security_group"),
               NEW rule \in PublicIngress(sg)
        PROVE  Edge(Internet, sg.address, "INGRESS_ALLOWS", IngressRisk(rule),
                    PortOf(rule)) \in IngressOf
    <2>1. rule \in Rules(sg) /\ rule.cidr = "public" /\ rule.ports # <<"expr">>
      BY DEF PublicIngress
    <2>2. rule # PrivateRule(style)
      <3>1. PrivateRule(style).cidr = "private"
        BY DEF PrivateRule
      <3> QED BY <2>1, <3>1
    <2>3. PICK p \in PortKinds : rule = Rule(p, style)
      BY <2>1, <2>2, GroupsRead
    <2>4. <<IngressRisk(rule), PortOf(rule)>> \in RiskAndPort
      BY <2>1, <2>3, PortRisk
    <2>5. sg.address \in Groups
      BY GroupsRead
    <2> DEFINE i == <<IngressRisk(rule), PortOf(rule)>>
    <2>6. i[1] = IngressRisk(rule) /\ i[2] = PortOf(rule)
      OBVIOUS
    <2> HIDE DEF i
    <2> QED BY <2>4, <2>5, <2>6 DEF IngressOf, i
  <1> QED BY <1>1 DEF IngressFindings

LEMMA InstancesRead ==
    ASSUME NEW l, NEW style, NEW rs, ReadFrom(rs, l, style)
    PROVE  /\ \A i \in OfType(rs, "aws_instance") : i.address = "e1"
           /\ \A r \in OfType(rs, "aws_iam_role") : r.address = "r1"
           /\ \A b \in OfType(rs, "aws_s3_bucket") : b.address \in Buckets
  <1>1. ASSUME NEW i \in OfType(rs, "aws_instance") PROVE i.address = "e1"
    <2>1. PICK x \in BlocksOf(l, style) : Reads(i, x)
      BY DEF ReadFrom, OfType
    <2>2. x.type = "aws_instance" /\ i.address = x.address
      BY <2>1 DEF OfType, Reads
    <2> QED BY <2>2, BlockKinds, BlockTypes
  <1>2. ASSUME NEW i \in OfType(rs, "aws_iam_role") PROVE i.address = "r1"
    <2>1. PICK x \in BlocksOf(l, style) : Reads(i, x)
      BY DEF ReadFrom, OfType
    <2>2. x.type = "aws_iam_role" /\ i.address = x.address
      BY <2>1 DEF OfType, Reads
    <2> QED BY <2>2, BlockKinds, BlockTypes
  <1>3. ASSUME NEW i \in OfType(rs, "aws_s3_bucket")
        PROVE  i.address \in Buckets
    <2>1. PICK x \in BlocksOf(l, style) : Reads(i, x)
      BY DEF ReadFrom, OfType
    <2>2. x.type = "aws_s3_bucket" /\ i.address = x.address
      BY <2>1 DEF OfType, Reads
    <2> QED BY <2>2, BlockKinds, BucketType
  <1> QED BY <1>1, <1>2, <1>3

(* What an instance is protected by, and the roles it takes on.            *)
ProtectsIn(rs) ==
    UNION {{Edge(g, i.address, "PROTECTS", LOW, "none") :
               g \in Attached(i) \cap
                      {s.address : s \in OfType(rs, "aws_security_group")}} :
           i \in OfType(rs, "aws_instance")}
AssumesIn(rs) ==
    UNION {{Edge(i.address, r, "ASSUMES_ROLE", MEDIUM, "none") :
               r \in InstanceRoles(rs, i) \cap
                      {o.address : o \in OfType(rs, "aws_iam_role")}} :
           i \in OfType(rs, "aws_instance")}

LEMMA InstanceParts ==
    ASSUME NEW rs PROVE InstanceFindings(rs) = ProtectsIn(rs) \cup AssumesIn(rs)
  BY DEF InstanceFindings, ProtectsIn, AssumesIn

LEMMA ProtectsAre ==
    ASSUME NEW rs, NEW f
    PROVE  f \in ProtectsIn(rs) <=>
              \E i \in OfType(rs, "aws_instance") :
                 \E s \in OfType(rs, "aws_security_group") :
                    /\ s.address \in Attached(i)
                    /\ f = Edge(s.address, i.address, "PROTECTS", LOW, "none")
  BY DEF ProtectsIn

LEMMA AssumesAre ==
    ASSUME NEW rs, NEW f
    PROVE  f \in AssumesIn(rs) <=>
              \E i \in OfType(rs, "aws_instance") :
                 \E r \in OfType(rs, "aws_iam_role") :
                    /\ r.address \in InstanceRoles(rs, i)
                    /\ f = Edge(i.address, r.address, "ASSUMES_ROLE", MEDIUM,
                                "none")
  BY DEF AssumesIn

IsAccess(rs, f) ==
    \E role \in OfType(rs, "aws_iam_role") :
    \E b \in OfType(rs, "aws_s3_bucket") :
    \E p \in PolicySources(rs, role.address) :
    \E t \in S3Access(p) :
       /\ \E pattern \in t.resources : Matches(pattern, b, FALSE)
       /\ f = Edge(role.address, b.address, "CAN_ACCESS", AccessRisk(t), "none")

LEMMA AccessesAre ==
    ASSUME NEW rs, NEW f
    PROVE  f \in AccessFindings(rs) <=> IsAccess(rs, f)
  <1> DEFINE granted(role, b) ==
                {s \in UNION {S3Access(p) : p \in PolicySources(rs, role.address)} :
                    \E pattern \in s.resources : Matches(pattern, b, FALSE)}
             of(role, b) ==
                {Edge(role.address, b.address, "CAN_ACCESS", AccessRisk(s),
                      "none") : s \in granted(role, b)}
  <1>1. AccessFindings(rs) =
           UNION {of(role, b) : role \in OfType(rs, "aws_iam_role"),
                                b \in OfType(rs, "aws_s3_bucket")}
    BY DEF AccessFindings
  <1>2. ASSUME NEW role, NEW b
        PROVE  f \in of(role, b) <=>
                 \E p \in PolicySources(rs, role.address) :
                 \E t \in S3Access(p) :
                    /\ \E pattern \in t.resources : Matches(pattern, b, FALSE)
                    /\ f = Edge(role.address, b.address, "CAN_ACCESS",
                                AccessRisk(t), "none")
    OBVIOUS
  <1> HIDE DEF of
  <1>3. f \in AccessFindings(rs) <=>
           \E role \in OfType(rs, "aws_iam_role") :
           \E b \in OfType(rs, "aws_s3_bucket") : f \in of(role, b)
    BY <1>1
  <1> QED BY <1>2, <1>3 DEF IsAccess

LEMMA InstanceBound ==
    ASSUME NEW l \in Landscapes, NEW style, NEW rs, ReadFrom(rs, l, style)
    PROVE  InstanceFindings(rs) \subseteq ProtectsOf \cup AssumesOf
  <1>1. /\ \A i \in OfType(rs, "aws_instance") : i.address = "e1"
        /\ \A r \in OfType(rs, "aws_iam_role") : r.address = "r1"
    BY InstancesRead
  <1>2. ASSUME NEW f \in InstanceFindings(rs)
        PROVE  f \in ProtectsOf \cup AssumesOf
    <2>1. \/ \E i \in OfType(rs, "aws_instance") :
               \E g \in OfType(rs, "aws_security_group") :
                  f = Edge(g.address, i.address, "PROTECTS", LOW, "none")
          \/ \E i \in OfType(rs, "aws_instance") :
               \E r \in OfType(rs, "aws_iam_role") :
                  f = Edge(i.address, r.address, "ASSUMES_ROLE", MEDIUM,
                           "none")
      BY <1>2, InstanceParts, ProtectsAre, AssumesAre
    <2>2. CASE \E i \in OfType(rs, "aws_instance") :
               \E g \in OfType(rs, "aws_security_group") :
                  f = Edge(g.address, i.address, "PROTECTS", LOW, "none")
      <3>1. PICK i \in OfType(rs, "aws_instance"),
                 g \in OfType(rs, "aws_security_group") :
                  f = Edge(g.address, i.address, "PROTECTS", LOW, "none")
        BY <2>2
      <3>2. g.address \in Groups /\ i.address = "e1"
        BY <1>1, GroupsRead
      <3> QED BY <3>1, <3>2 DEF ProtectsOf
    <2>3. CASE \E i \in OfType(rs, "aws_instance") :
               \E r \in OfType(rs, "aws_iam_role") :
                  f = Edge(i.address, r.address, "ASSUMES_ROLE", MEDIUM,
                           "none")
      BY <1>1, <2>3 DEF AssumesOf
    <2> QED BY <2>1, <2>2, <2>3
  <1> QED BY <1>2

LEMMA ContainsBound ==
    ASSUME NEW l, NEW style, NEW rs, ReadFrom(rs, l, style)
    PROVE  ContainsFindings(rs) \subseteq ContainsOf
  BY InstancesRead DEF ContainsFindings, ContainsOf

(* The statements of a policy, as the blocks have them.                    *)
BlockStatements(l, style) ==
    RolePolicy(l, style).statements \cup PublicPolicy(style).statements

LEMMA PolicyBlockAttrs ==
    ASSUME NEW style
    PROVE  /\ DOMAIN PolicyBlock(style).attrs = {"bucket", "policy"}
           /\ PolicyBlock(style).attrs["policy"] = PublicPolicy(style)
           /\ PolicyBlock(style).attrs["bucket"] = <<Ref("b1")>>
  <1> DEFINE written == PublicPolicy(style)
  <1> HIDE DEF written
  <1>1. PolicyBlock(style).attrs
           = With(Only("bucket", <<Ref("b1")>>), Only("policy", written))
    BY DEF PolicyBlock, R, written
  <1> QED BY <1>1 DEF With, Only, written

LEMMA Grantings ==
    ASSUME NEW l, NEW style, NEW s \in RolePolicy(l, style).statements
    PROVE  /\ s.actions = Grant(l, style).actions
           /\ s.condition = Grant(l, style).condition
           /\ s.principal = "role" /\ s.effect \in {"Allow", "Deny"}
           /\ s.resources \in {Grant(l, style).resources,
                               {<<"bucket arn", "elsewhere">>}}
  <1> DEFINE gr == Grant(l, style)
  <1>0. /\ DOMAIN gr = {"effect", "actions", "resources", "principal",
                        "condition"}
        /\ gr.principal = "role" /\ gr.effect = "Allow"
    BY DEF Grant
  <1> HIDE DEF gr
  <1>1. \/ s = [gr EXCEPT !.resources = {<<"bucket arn", "elsewhere">>}]
        \/ s = gr \/ s = [gr EXCEPT !.effect = "Deny"]
    <2>1. RolePolicy(l, style).statements =
             IF l.access = {}
             THEN {[gr EXCEPT !.resources = {<<"bucket arn", "elsewhere">>}]}
             ELSE {gr} \cup (IF style = "deny"
                             THEN {[gr EXCEPT !.effect = "Deny"]} ELSE {})
      BY DEF RolePolicy, gr
    <2> QED BY <2>1
  <1> QED BY <1>0, <1>1 DEF gr

LEMMA GrantFields ==
    ASSUME NEW l, NEW style
    PROVE  /\ Grant(l, style).actions = GrantedActions(style)
           /\ Grant(l, style).resources = GrantedResources(l, style)
           /\ Grant(l, style).effect = "Allow"
  BY DEF Grant

LEMMA PoliciesRead ==
    ASSUME NEW l, NEW style, NEW rs, ReadFrom(rs, l, style), NEW r \in rs
    PROVE  /\ r.type \in {"aws_iam_policy", "aws_iam_role_policy"} =>
                 \A t \in Statements(r) :
                    \E s \in RolePolicy(l, style).statements :
                       SameStatement(t, s)
           /\ r.type = "aws_s3_bucket_policy" =>
                 \A t \in Statements(r) :
                    \E s \in PublicPolicy(style).statements :
                       SameStatement(t, s)
  <1>1. PICK x \in BlocksOf(l, style) : Reads(r, x)
    BY DEF ReadFrom
  <1>2. /\ r.type = x.type
        /\ \A t \in Statements(r) : /\ Has(x, "policy")
              /\ \E s \in x.attrs["policy"].statements : SameStatement(t, s)
    BY <1>1 DEF Reads, Statements, SamePolicy
  <1>3. CASE r.type = "aws_iam_policy"
    <2>1. x = Managed(l, style)
      BY <1>2, <1>3, BlockKinds
    <2>2. x.attrs["policy"] = RolePolicy(l, style)
      BY <2>1 DEF Managed, R
    <2> QED BY <1>2, <1>3, <2>2
  <1>4. CASE r.type = "aws_iam_role_policy"
    <2>1. x = Inline(l, style)
      BY <1>2, <1>4, BlockKinds
    <2>2. x.attrs["policy"] = RolePolicy(l, style)
      BY <2>1 DEF Inline, R
    <2> QED BY <1>2, <1>4, <2>2
  <1>5. CASE r.type = "aws_s3_bucket_policy"
    <2>1. x = PolicyBlock(style)
      BY <1>2, <1>5, BlockKinds
    <2>2. x.attrs["policy"] = PublicPolicy(style)
      BY <2>1, PolicyBlockAttrs
    <2> QED BY <1>2, <1>5, <2>2
  <1> QED BY <1>3, <1>4, <1>5

LEMMA GrantedAre ==
    ASSUME NEW l, NEW style, NEW p \in GrantedResources(l, style)
    PROVE  \/ style = "everything" /\ l.access = Buckets /\ p = Everything
           \/ style = "resource variable" /\ p = Expr
           \/ \E k \in {"bucket", "objects"} :
              \E b \in l.access : p = Pattern(k, b, style)
  <1>1. ASSUME p \in Patterns(l.access, style)
        PROVE  \E k \in {"bucket", "objects"} :
               \E b \in l.access : p = Pattern(k, b, style)
    BY <1>1 DEF Patterns
  <1> QED BY <1>1 DEF GrantedResources

LEMMA GrantRisk ==
    ASSUME NEW l, NEW style, NEW t,
           NEW s \in RolePolicy(l, style).statements, SameStatement(t, s)
    PROVE  AccessRisk(t) \in {MEDIUM, HIGH}
  <1>0. t.actions \cap WildcardActions # {} => style = "wildcard action"
    <2>1. t.actions = Grant(l, style).actions
      BY Grantings DEF SameStatement
    <2>2. t.actions = GrantedActions(style)
      BY <2>1, GrantFields
    <2> QED BY <2>2 DEF WildcardActions, GrantedActions
  <1>2. Everything \in t.resources => style = "everything"
    <2>1. ASSUME Everything \in t.resources PROVE Everything \in s.resources
      <3>1. PICK p \in s.resources : SamePattern(Everything, p)
        BY <2>1 DEF SameStatement
      <3> QED BY <3>1 DEF SamePattern, Everything
    <2>2. ASSUME style # "everything" PROVE Everything \notin s.resources
      <3>1. \A b : \A k \in {"bucket", "objects"} :
               Pattern(k, b, style) # Everything
        BY DEF Pattern, Everything
      <3>2. Everything # <<"bucket arn", "elsewhere">> /\ Everything # Expr
        BY DEF Everything, Expr
      <3>3. \/ s.resources = GrantedResources(l, style)
            \/ s.resources = {<<"bucket arn", "elsewhere">>}
        <4>1. Grant(l, style).resources = GrantedResources(l, style)
          BY GrantFields
        <4>2. s.resources \in {Grant(l, style).resources,
                               {<<"bucket arn", "elsewhere">>}}
          BY Grantings
        <4> QED BY <4>1, <4>2
      <3>4. Everything \notin GrantedResources(l, style)
        <4>1. Everything \notin Patterns(l.access, style)
          BY <3>1 DEF Patterns
        <4>2. Everything \notin {Expr}
          BY <3>2
        <4> QED BY <2>2, <4>1, <4>2 DEF GrantedResources
      <3> QED BY <3>2, <3>3, <3>4
    <2> QED BY <2>1, <2>2
  <1> QED BY <1>0, <1>2 DEF AccessRisk

LEMMA AccessBound ==
    ASSUME NEW l, NEW style, NEW rs, ReadFrom(rs, l, style)
    PROVE  AccessFindings(rs) \subseteq AccessOf
  <1>1. ASSUME NEW role \in OfType(rs, "aws_iam_role"),
               NEW p \in PolicySources(rs, role.address), NEW t \in S3Access(p)
        PROVE  AccessRisk(t) \in {MEDIUM, HIGH}
    <2>1. p \in rs /\ p.type \in {"aws_iam_policy", "aws_iam_role_policy"}
      BY DEF PolicySources, Linked, OfType
    <2>2. PICK s \in RolePolicy(l, style).statements : SameStatement(t, s)
      BY <2>1, PoliciesRead DEF S3Access
    <2> QED BY <2>2, GrantRisk
  <1>2. /\ \A r \in OfType(rs, "aws_iam_role") : r.address = "r1"
        /\ \A b \in OfType(rs, "aws_s3_bucket") : b.address \in Buckets
    BY InstancesRead
  <1>3. ASSUME NEW f \in AccessFindings(rs) PROVE f \in AccessOf
    <2>0. f \in AccessFindings(rs)
      BY <1>3
    <2>1. \E role \in OfType(rs, "aws_iam_role") :
          \E b \in OfType(rs, "aws_s3_bucket") :
          \E p \in PolicySources(rs, role.address) : \E t \in S3Access(p) :
             f = Edge(role.address, b.address, "CAN_ACCESS", AccessRisk(t),
                      "none")
      <3>1. IsAccess(rs, f)
        BY <2>0, AccessesAre
      <3> QED BY <3>1, Zenon DEF IsAccess
    <2> QED BY <1>1, <1>2, <2>1 DEF AccessOf
  <1> QED BY <1>3

(* Only the first bucket can be public.                                    *)
TagMembers(l, b, style) ==
    IF style = "tag variable" THEN {Expr}
    ELSE IF b \in l.sensitive THEN {Literal("sensitive")} ELSE {}
AclMembers(l, b, style) ==
    IF style = "inline acl"
    THEN {Literal(IF b = "b1" /\ "acl" \in l.public
                  THEN "public-read" ELSE "private")} ELSE {}

LEMMA BucketAcl ==
    ASSUME NEW l, NEW b, NEW style
    PROVE  /\ Members(Bucket(l, b, style), "bucket") = {Literal(b)}
           /\ Members(Bucket(l, b, style), "tags") = TagMembers(l, b, style)
           /\ Members(Bucket(l, b, style), "acl") = AclMembers(l, b, style)
  <1> DEFINE tags == IF style = "tag variable" THEN <<Expr>>
                     ELSE IF b \in l.sensitive THEN <<Literal("sensitive")>>
                     ELSE <<>>
             acl == Literal(IF b = "b1" /\ "acl" \in l.public
                            THEN "public-read" ELSE "private")
             names == <<Literal(b)>>
  <1> DEFINE one == <<acl>>
  <1>0. /\ Range(tags) = IF style = "tag variable" THEN {Expr}
                 ELSE IF b \in l.sensitive THEN {Literal("sensitive")} ELSE {}
        /\ Range(names) = {Literal(b)} /\ Range(one) = {acl}
    <2>1. Range(<<Expr>>) = {Expr} /\ Range(<<Literal("sensitive")>>) = {Literal("sensitive")}
          /\ Range(<<>>) = {} /\ Range(<<Literal(b)>>) = {Literal(b)}
          /\ Range(<<acl>>) = {acl}
      BY ShortLists
    <2> QED BY <2>1
  <1>00. DOMAIN <<>> = {}
    OBVIOUS
  <1> HIDE DEF tags, acl, names, one
  <1>1. Bucket(l, b, style).attrs =
          With([bucket |-> names, tags |-> tags],
               IF style = "inline acl" THEN Only("acl", one) ELSE <<>>)
    BY DEF Bucket, R, tags, acl, names, one
  <1>2. CASE style = "inline acl"
    <2>1. /\ DOMAIN Bucket(l, b, style).attrs = {"bucket", "tags", "acl"}
          /\ Bucket(l, b, style).attrs["bucket"] = names
          /\ Bucket(l, b, style).attrs["tags"] = tags
          /\ Bucket(l, b, style).attrs["acl"] = one
      BY <1>1, <1>2 DEF With, Only
    <2> QED BY <1>0, <1>2, <2>1 DEF Members, Has, acl, AclMembers, TagMembers
  <1>3. CASE style # "inline acl"
    <2>1. /\ DOMAIN Bucket(l, b, style).attrs = {"bucket", "tags"}
          /\ Bucket(l, b, style).attrs["bucket"] = names
          /\ Bucket(l, b, style).attrs["tags"] = tags
      BY <1>1, <1>00, <1>3 DEF With, Only
    <2> QED BY <1>0, <1>3, <2>1 DEF Members, Has, AclMembers, TagMembers
  <1> QED BY <1>2, <1>3

LEMMA AclAttrs ==
    ASSUME NEW style
    PROVE  /\ Members(AclBlock(style), "bucket") = {Ref("b1")}
           /\ Members(AclBlock(style), "acl") =
                 {IF style = "acl variable" THEN Expr
                  ELSE Literal("public-read")}
  <1> DEFINE one == <<Ref("b1")>>
             m == IF style = "acl variable" THEN Expr
                  ELSE Literal("public-read")
             acl == <<m>>
  <1>1. Range(one) = {Ref("b1")} /\ Range(acl) = {m}
    BY ShortLists
  <1> HIDE DEF one, acl, m
  <1>2. AclBlock(style).attrs = With(Only("bucket", one), Only("acl", acl))
    BY DEF AclBlock, R, one, acl, m
  <1>3. /\ DOMAIN AclBlock(style).attrs = {"bucket", "acl"}
        /\ AclBlock(style).attrs["bucket"] = one
        /\ AclBlock(style).attrs["acl"] = acl
    BY <1>2 DEF With, Only
  <1> QED BY <1>1, <1>3 DEF Members, Has, m

LEMMA ControlAttrs ==
    ASSUME NEW a, NEW style
    PROVE  /\ Members(ControlBlock(a, style), "bucket") = {Ref("b1")}
           /\ \A flag \in Flags :
                 Members(ControlBlock(a, style), flag) = {FlagOf(style)}
  <1> DEFINE one == <<Ref("b1")>>
             flags == <<FlagOf(style)>>
  <1>1. Range(one) = {Ref("b1")} /\ Range(flags) = {FlagOf(style)}
    BY ShortLists
  <1> HIDE DEF one, flags
  <1>2. ControlBlock(a, style).attrs =
           With(Only("bucket", one),
                [ignore_public_acls |-> flags,
                 restrict_public_buckets |-> flags])
    BY DEF ControlBlock, R, one, flags
  <1>3. /\ DOMAIN ControlBlock(a, style).attrs =
              {"bucket", "ignore_public_acls", "restrict_public_buckets"}
        /\ ControlBlock(a, style).attrs["bucket"] = one
        /\ ControlBlock(a, style).attrs["ignore_public_acls"] = flags
        /\ ControlBlock(a, style).attrs["restrict_public_buckets"] = flags
    BY <1>2 DEF With, Only
  <1> QED BY <1>1, <1>3 DEF Members, Has, Flags

LEMMA PolicyBucket ==
    ASSUME NEW style
    PROVE  Members(PolicyBlock(style), "bucket") = {Ref("b1")}
  <1> DEFINE one == <<Ref("b1")>>
  <1>1. Range(one) = {Ref("b1")}
    BY ShortLists
  <1>2. Has(PolicyBlock(style), "bucket")
        /\ PolicyBlock(style).attrs["bucket"] = one
    BY PolicyBlockAttrs DEF Has
  <1> HIDE DEF one
  <1> QED BY <1>1, <1>2 DEF Members

BucketLinked == {"aws_s3_bucket_acl", "aws_s3_bucket_policy",
                 "aws_s3_bucket_public_access_block"}

LEMMA BucketLinks ==
    ASSUME NEW type \in BucketLinked
    PROVE  LinkAttributes(type) = {"bucket"}
  BY DEF BucketLinked, LinkAttributes, SecurityAttributes

LEMMA OnBucket ==
    ASSUME NEW l, NEW style, NEW x \in BlocksOf(l, style),
           x.type \in BucketLinked
    PROVE  Members(x, "bucket") = {Ref("b1")} /\ NamedBy(x, "bucket") = {"b1"}
  <1>1. Members(x, "bucket") = {Ref("b1")}
    <2>1. CASE x.type = "aws_s3_bucket_acl"
      <3>1. x = AclBlock(style)
        BY <2>1, BlockKinds
      <3> QED BY <3>1, AclAttrs
    <2>2. CASE x.type = "aws_s3_bucket_policy"
      BY <2>2, BlockKinds, PolicyBucket
    <2>3. CASE x.type = "aws_s3_bucket_public_access_block"
      BY <2>3, BlockKinds, ControlAttrs
    <2> QED BY <2>1, <2>2, <2>3 DEF BucketLinked
  <1>2. Ref("b1") # Expr /\ Ref("b1") # Null /\ Ref("b1")[2] = "b1"
    BY DEF Ref, Expr, Null
  <1> QED BY <1>1, <1>2 DEF NamedBy

LEMMA LinkedToBucket ==
    ASSUME NEW l, NEW style, NEW rs, ReadFrom(rs, l, style), NEW r \in rs,
           r.type \in BucketLinked
    PROVE  References(r, "bucket") \subseteq {"b1"}
  <1>1. PICK x \in BlocksOf(l, style) : Reads(r, x)
    BY DEF ReadFrom
  <1>2. r.type = x.type /\ \A name \in LinkAttributes(x.type) :
           ReadsLink(r, x, name)
    BY <1>1 DEF Reads
  <1>3. ReadsLink(r, x, "bucket")
    BY <1>2, BucketLinks
  <1> QED BY <1>2, <1>3, OnBucket DEF ReadsLink

IsPublic(rs, f) ==
    \E b \in OfType(rs, "aws_s3_bucket") :
       \/ \E acl \in PublicAcls(rs, b) :
             /\ ~Controlled(rs, b, "ignore_public_acls")
             /\ f = Edge(Internet, b.address, "PUBLIC_ACCESS",
                         IF acl[2] = "public-read-write" THEN CRITICAL
                         ELSE HIGH, "none")
       \/ \E t \in PublicStatements(rs, b) :
             /\ ~Controlled(rs, b, "restrict_public_buckets") \/ t.condition
             /\ f = Edge(Internet, b.address, "PUBLIC_ACCESS", CRITICAL,
                         "none")

LEMMA PublicsAre ==
    ASSUME NEW rs, NEW f
    PROVE  f \in PublicFindings(rs) <=> IsPublic(rs, f)
  <1> DEFINE byAcl(b) ==
                {Edge(Internet, b.address, "PUBLIC_ACCESS",
                      IF acl[2] = "public-read-write" THEN CRITICAL ELSE HIGH,
                      "none") :
                   acl \in {a \in PublicAcls(rs, b) :
                              ~Controlled(rs, b, "ignore_public_acls")}}
             byPolicy(b) ==
                {Edge(Internet, b.address, "PUBLIC_ACCESS", CRITICAL, "none") :
                   s \in {t \in PublicStatements(rs, b) :
                            ~Controlled(rs, b, "restrict_public_buckets")
                            \/ t.condition}}
  <1>1. PublicFindings(rs) =
           UNION {byAcl(b) \cup byPolicy(b) : b \in OfType(rs, "aws_s3_bucket")}
    BY DEF PublicFindings
  <1>2. ASSUME NEW b
        PROVE  /\ f \in byAcl(b) <=>
                     \E acl \in PublicAcls(rs, b) :
                        /\ ~Controlled(rs, b, "ignore_public_acls")
                        /\ f = Edge(Internet, b.address, "PUBLIC_ACCESS",
                                    IF acl[2] = "public-read-write"
                                    THEN CRITICAL ELSE HIGH, "none")
               /\ f \in byPolicy(b) <=>
                     \E t \in PublicStatements(rs, b) :
                        /\ ~Controlled(rs, b, "restrict_public_buckets")
                           \/ t.condition
                        /\ f = Edge(Internet, b.address, "PUBLIC_ACCESS",
                                    CRITICAL, "none")
    OBVIOUS
  <1> HIDE DEF byAcl, byPolicy
  <1>3. f \in PublicFindings(rs) <=>
           \E b \in OfType(rs, "aws_s3_bucket") :
              f \in byAcl(b) \/ f \in byPolicy(b)
    BY <1>1
  <1> QED BY <1>2, <1>3 DEF IsPublic

(* Whatever makes a bucket public makes the first one public.              *)
LEMMA PublicBucket ==
    ASSUME NEW l, NEW style, NEW rs, ReadFrom(rs, l, style),
           NEW b \in OfType(rs, "aws_s3_bucket"),
           PublicAcls(rs, b) # {} \/ PublicStatements(rs, b) # {}
    PROVE  b.address = "b1"
  <1>1. b.address \in Buckets
    BY InstancesRead
  <1>2. SUFFICES ASSUME b.address = "b2" PROVE FALSE
    BY <1>1 DEF Buckets
  <1>3. \A type \in BucketLinked : Linked(rs, type, "bucket", b.address) = {}
    BY <1>2, LinkedToBucket DEF Linked, OfType
  <1>4. PublicStatements(rs, b) = {}
    BY <1>3 DEF PublicStatements, BucketLinked
  <1>5. PICK x \in BlocksOf(l, style) : Reads(b, x)
    BY DEF ReadFrom, OfType
  <1>6. x = Bucket(l, "b2", style) /\ Members(b, "acl") = Members(x, "acl")
    <2>1. x.type = "aws_s3_bucket" /\ x.address = "b2"
      BY <1>2, <1>5 DEF Reads, OfType
    <2>2. PICK c \in Buckets : x = Bucket(l, c, style)
      BY <2>1, BlockKinds
    <2> QED BY <1>5, <2>1, <2>2, BucketType DEF Reads, PlainNames
  <1>7. Members(b, "acl") \subseteq {Literal("private")}
    <2>1. Members(b, "acl") = AclMembers(l, "b2", style)
      BY <1>6, BucketAcl
    <2>2. AclMembers(l, "b2", style) \subseteq {Literal("private")}
      BY DEF AclMembers
    <2> QED BY <2>1, <2>2
  <1>8. PublicAcls(rs, b) = {}
    <2>1. Linked(rs, "aws_s3_bucket_acl", "bucket", b.address) = {}
      BY <1>3 DEF BucketLinked
    <2>2. Literal("private")[2] = "private"
      BY DEF Literal
    <2> QED BY <1>7, <2>1, <2>2 DEF PublicAcls
  <1> QED BY <1>4, <1>8

LEMMA PublicBound ==
    ASSUME NEW l, NEW style, NEW rs, ReadFrom(rs, l, style)
    PROVE  PublicFindings(rs) \subseteq PublicOf
  <1>1. ASSUME NEW f \in PublicFindings(rs) PROVE f \in PublicOf
    <2>1. IsPublic(rs, f)
      BY PublicsAre
    <2>2. PICK b \in OfType(rs, "aws_s3_bucket") :
            /\ PublicAcls(rs, b) # {} \/ PublicStatements(rs, b) # {}
            /\ \E risk \in {HIGH, CRITICAL} :
                 f = Edge(Internet, b.address, "PUBLIC_ACCESS", risk, "none")
      BY <2>1 DEF IsPublic
    <2>3. b.address = "b1"
      BY <2>2, PublicBucket
    <2> QED BY <2>2, <2>3 DEF PublicOf
  <1> QED BY <1>1

(* No rule finds more than a landscape can hold.                           *)
LEMMA FindingsBound ==
    ASSUME NEW l \in Landscapes, NEW style, NEW config,
           ReadFrom(Range(config.resources), l, style)
    PROVE  Findings(config) \subseteq RuleFindings
  <1> DEFINE rs == Unambiguous(config)
  <1>1. ReadFrom(rs, l, style)
    BY DEF Unambiguous, ReadFrom
  <1> HIDE DEF rs
  <1>2. Findings(config) =
           IngressFindings(rs) \cup InstanceFindings(rs) \cup
           AccessFindings(rs) \cup PublicFindings(rs) \cup
           ContainsFindings(rs)
    BY DEF Findings, rs
  <1> QED BY <1>1, <1>2, IngressBound, InstanceBound, AccessBound, PublicBound,
             ContainsBound, RuleFindingsAre

-----------------------------------------------------------------------------
(* A directory is read as it is written.                                   *)

LEMMA SameIsSame ==
    /\ \A s : SameStatement(s, s)
    /\ \A d : SamePolicy(d, d)
  <1>1. \A s : SameStatement(s, s)
    BY DEF SameStatement, SamePattern
  <1> QED BY <1>1 DEF SamePolicy

LEMMA ReadsItself ==
    ASSUME NEW x PROVE Reads(x, x)
  <1>1. ASSUME NEW name PROVE ReadsLink(x, x, name)
    <2> DEFINE M == Members(x, name)
    <2> HIDE DEF M
    <2>1. References(x, name) = {m[2] : m \in {n \in M : n[1] = "ref"}}
      BY DEF References, Addresses, M
    <2>2. NamedBy(x, name) = {m[2] : m \in M \ {Expr, Null}}
      BY DEF NamedBy, M
    <2>3. Expr[1] = "expr" /\ Null[1] = "null" /\ Expr # Null
      BY DEF Expr, Null
    <2>4. ~Unlinked(x, name) => \A m \in M \ {Null} : m[1] = "ref"
      BY DEF Unlinked, M
    <2>5. References(x, name) \subseteq NamedBy(x, name)
      BY <2>1, <2>2, <2>3
    <2>6. ASSUME ~Unlinked(x, name)
          PROVE  NamedBy(x, name) \subseteq References(x, name) /\ Expr \notin M
      BY <2>1, <2>2, <2>3, <2>4, <2>6
    <2> QED BY <2>5, <2>6 DEF ReadsLink, M
  <1> QED BY <1>1, SameIsSame DEF Reads

(* The groups of a landscape that is closed, but for the private rule.     *)
LEMMA ReadsClosed ==
    ASSUME NEW l, NEW m, NEW g, NEW style, m.open[g] = {}
    PROVE  Reads(Group(m, g, style), Group(l, g, style))
  <1> DEFINE r == Group(m, g, style)  x == Group(l, g, style)
  <1>1. /\ DOMAIN r.attrs = {"ingress"} /\ DOMAIN x.attrs = {"ingress"}
        /\ r.attrs["ingress"] \subseteq x.attrs["ingress"]
    BY DEF Group, R
  <1>2. r.type = "aws_security_group" /\ x.type = "aws_security_group"
        /\ r.address = g /\ x.address = g
    BY GroupType
  <1>3. LinkAttributes("aws_security_group") = {}
    BY DEF LinkAttributes, SecurityAttributes
  <1> HIDE DEF r, x
  <1>4. \A name \in PlainNames : Members(r, name) = {} /\ Members(x, name) = {}
    BY <1>1 DEF Members, Has, PlainNames
  <1>5. ~Has(r, "policy") /\ Rules(r) \subseteq Rules(x)
    BY <1>1 DEF Has, Rules
  <1> QED BY <1>2, <1>3, <1>4, <1>5 DEF Reads, r, x

(* Every block of a supported type is read, and none of its rules is lost, *)
(* but for those of `gone'.                                                *)
Covers(rs, l, style, gone) ==
    \A x \in BlocksOf(l, style) :
       x.type \in SupportedTypes /\ x.address \notin gone =>
          \E r \in rs : Reads(r, x) /\ Rules(r) = Rules(x)

LEMMA DirectoryBlocks ==
    ASSUME NEW l, NEW style
    PROVE  LET blocks == Directory(l, style).blocks
               closed == Group([l EXCEPT !.open["g1"] = {}], "g1", style)
           IN  /\ Range(blocks) \subseteq BlocksOf(l, style) \cup {closed}
               /\ style \notin {"module", "json"} =>
                     BlocksOf(l, style) \subseteq Range(blocks)
  <1> DEFINE all == Blocks(l, style)
             closed == Group([l EXCEPT !.open["g1"] = {}], "g1", style)
             kept == {i \in DOMAIN all : ~(style \in {"module", "json"})
                                         \/ all[i].address # "g1"}
             blocks == Restrict(all, kept)
             twice == IF style = "twice" THEN Only(0, closed) ELSE <<>>
  <1>1. Directory(l, style).blocks = With(blocks, twice)
    BY DEF Directory
  <1>2. Range(all) = BlocksOf(l, style) /\ DOMAIN <<>> = {}
        /\ 0 \notin DOMAIN all
    <2>1. all \in Seq(Range(all)) /\ Range(all) = BlocksOf(l, style)
      BY BlocksAre DEF IsList
    <2>2. DOMAIN all = 1..Len(all)
      BY <2>1
    <2> QED BY <2>1, <2>2
  <1> HIDE DEF all, closed
  <1>3. /\ DOMAIN blocks = kept /\ \A i \in kept : blocks[i] = all[i]
        /\ kept \subseteq DOMAIN all
    BY DEF Restrict
  <1>4. /\ DOMAIN twice = IF style = "twice" THEN {0} ELSE {}
        /\ style = "twice" => twice[0] = closed
    BY <1>2 DEF Only
  <1>4a. style \notin {"module", "json"} => kept = DOMAIN all
    OBVIOUS
  <1> HIDE DEF kept, blocks, twice
  <1>5. /\ DOMAIN With(blocks, twice) = kept \cup DOMAIN twice
        /\ \A i \in kept : With(blocks, twice)[i] = all[i]
        /\ \A i \in DOMAIN twice \ kept : With(blocks, twice)[i] = twice[i]
    BY <1>3 DEF With
  <1>6. Range(With(blocks, twice)) \subseteq Range(all) \cup {closed}
    BY <1>3, <1>4, <1>5 DEF Range
  <1>7. style \notin {"module", "json"} =>
           Range(all) \subseteq Range(With(blocks, twice))
    BY <1>4a, <1>5 DEF Range
  <1> QED BY <1>1, <1>2, <1>6, <1>7 DEF closed

LEMMA SupportedAre ==
    ASSUME NEW entries
    PROVE  Range(Supported(entries)) =
              {r \in Range(entries) : r.type \in SupportedTypes}
  BY DEF Supported, Restrict, Range

LEMMA DirectoryRead ==
    ASSUME NEW l \in Landscapes, NEW style, NEW dir,
           dir.blocks = Directory(l, style).blocks
    PROVE  LET rs == Range(ParseDirectory(dir).resources)
           IN  /\ ReadFrom(rs, l, style)
               /\ style \notin {"module", "json"} => Covers(rs, l, style, {})
  <1> DEFINE rs == Range(ParseDirectory(dir).resources)
             closed == Group([l EXCEPT !.open["g1"] = {}], "g1", style)
             blocks == Directory(l, style).blocks
  <1>1. rs = {r \in Range(blocks) : r.type \in SupportedTypes}
    <2>1. rs = Range(Supported(dir.blocks))
      BY DEF ParseDirectory
    <2> QED BY <2>1, SupportedAre
  <1>2. /\ Range(blocks) \subseteq BlocksOf(l, style) \cup {closed}
        /\ style \notin {"module", "json"} =>
              BlocksOf(l, style) \subseteq Range(blocks)
    BY DirectoryBlocks
  <1>3. Reads(closed, Group(l, "g1", style))
    <2> DEFINE m == [l EXCEPT !.open["g1"] = {}]
    <2>1. m.open["g1"] = {}
      BY DEF Landscapes, Groups
    <2> HIDE DEF m
    <2> QED BY <2>1, ReadsClosed DEF closed, m
  <1>4. Group(l, "g1", style) \in BlocksOf(l, style)
    BY DEF BlocksOf
  <1> HIDE DEF rs, blocks, closed
  <1>5. ReadFrom(rs, l, style)
    BY <1>1, <1>2, <1>3, <1>4, ReadsItself DEF ReadFrom
  <1>6. style \notin {"module", "json"} => Covers(rs, l, style, {})
    BY <1>1, <1>2, ReadsItself DEF Covers
  <1> QED BY <1>5, <1>6 DEF rs

-----------------------------------------------------------------------------
(* An address names one block, and its type.                               *)
AttachmentOf(style) ==
    Attachment(CASE style = "managed" -> Ref("mp1")
                 [] style = "policy elsewhere" -> Literal("arn")
                 [] OTHER -> Ref("mp2"))

BlockAt(l, style, a) ==
    CASE a = "g1" -> Group(l, "g1", style)
      [] a = "g2" -> Group(l, "g2", style)
      [] a = "e1" -> Instance(l, style)
      [] a = "p1" -> Profile
      [] a = "r1" -> Role(style)
      [] a = "b1" -> Bucket(l, "b1", style)
      [] a = "b2" -> Bucket(l, "b2", style)
      [] a = "mp1" -> Managed(l, style)
      [] a = "at1" -> AttachmentOf(style)
      [] a = "rp1" -> Inline(l, style)
      [] a = "ba1" -> AclBlock(style)
      [] a = "bp1" -> PolicyBlock(style)
      [] a = "pb1" -> ControlBlock("pb1", style)
      [] a = "pb2" -> ControlBlock("pb2", style)
      [] a = "sr1" -> R("aws_vpc_security_group_ingress_rule", "sr1", <<>>)
      [] a = "vp1" -> R("aws_vpc", "vp1", <<>>)

TypeAt(a) ==
    CASE a = "g1" -> "aws_security_group"
      [] a = "g2" -> "aws_security_group"
      [] a = "e1" -> "aws_instance"
      [] a = "p1" -> "aws_iam_instance_profile"
      [] a = "r1" -> "aws_iam_role"
      [] a = "b1" -> "aws_s3_bucket"
      [] a = "b2" -> "aws_s3_bucket"
      [] a = "mp1" -> "aws_iam_policy"
      [] a = "at1" -> "aws_iam_role_policy_attachment"
      [] a = "rp1" -> "aws_iam_role_policy"
      [] a = "ba1" -> "aws_s3_bucket_acl"
      [] a = "bp1" -> "aws_s3_bucket_policy"
      [] a = "pb1" -> "aws_s3_bucket_public_access_block"
      [] a = "pb2" -> "aws_s3_bucket_public_access_block"
      [] a = "sr1" -> "aws_vpc_security_group_ingress_rule"
      [] a = "vp1" -> "aws_vpc"

BlockAddresses ==
    {"g1", "g2", "e1", "p1", "r1", "b1", "b2", "mp1", "at1", "rp1", "ba1",
     "bp1", "pb1", "pb2", "sr1", "vp1"}

LEMMA BlocksAreAt ==
    ASSUME NEW l, NEW style, NEW x \in BlocksOf(l, style)
    PROVE  /\ x = BlockAt(l, style, x.address)
           /\ x.type = TypeAt(x.address)
           /\ x.address \in BlockAddresses
  <1> DEFINE A == {"g1", "g2", "e1", "p1", "r1", "b1", "b2", "mp1",
                   "at1", "rp1", "ba1", "bp1", "pb1", "pb2", "sr1", "vp1"}
  <1>1. ASSUME NEW a \in A, x.address = a, x = BlockAt(l, style, a),
               x.type = TypeAt(a)
        PROVE  /\ x = BlockAt(l, style, x.address)
               /\ x.type = TypeAt(x.address)
               /\ x.address \in BlockAddresses
    BY <1>1 DEF BlockAddresses
  <1> SUFFICES \E a \in A : x.address = a /\ x = BlockAt(l, style, a)
                            /\ x.type = TypeAt(a)
    BY <1>1
  <1>2. CASE x = Group(l, "g1", style)
    <2>1. x.address = "g1" /\ x.type = "aws_security_group"
      BY <1>2, GroupType
    <2> QED BY <1>2, <2>1 DEF BlockAt, TypeAt
  <1>3. CASE x = Group(l, "g2", style)
    <2>1. x.address = "g2" /\ x.type = "aws_security_group"
      BY <1>3, GroupType
    <2> QED BY <1>3, <2>1 DEF BlockAt, TypeAt
  <1>4. CASE x = Instance(l, style)
    <2>1. x.address = "e1" /\ x.type = "aws_instance"
      BY <1>4, BlockTypes
    <2> QED BY <1>4, <2>1 DEF BlockAt, TypeAt
  <1>5. CASE x = Profile
    <2>1. x.address = "p1" /\ x.type = "aws_iam_instance_profile"
      BY <1>5, BlockTypes
    <2> QED BY <1>5, <2>1 DEF BlockAt, TypeAt
  <1>6. CASE x = Role(style)
    <2>1. x.address = "r1" /\ x.type = "aws_iam_role"
      BY <1>6, BlockTypes
    <2> QED BY <1>6, <2>1 DEF BlockAt, TypeAt
  <1>7. CASE x = Bucket(l, "b1", style)
    <2>1. x.address = "b1" /\ x.type = "aws_s3_bucket"
      BY <1>7, BucketType
    <2> QED BY <1>7, <2>1 DEF BlockAt, TypeAt
  <1>8. CASE x = Bucket(l, "b2", style)
    <2>1. x.address = "b2" /\ x.type = "aws_s3_bucket"
      BY <1>8, BucketType
    <2> QED BY <1>8, <2>1 DEF BlockAt, TypeAt
  <1>9. CASE x = Managed(l, style)
    <2>1. x.address = "mp1" /\ x.type = "aws_iam_policy"
      BY <1>9, BlockTypes
    <2> QED BY <1>9, <2>1 DEF BlockAt, TypeAt
  <1>10. CASE x = AttachmentOf(style)
    <2>1. x.address = "at1" /\ x.type = "aws_iam_role_policy_attachment"
      BY <1>10, BlockTypes DEF AttachmentOf
    <2> QED BY <1>10, <2>1 DEF BlockAt, TypeAt
  <1>11. CASE x = Inline(l, style)
    <2>1. x.address = "rp1" /\ x.type = "aws_iam_role_policy"
      BY <1>11, BlockTypes
    <2> QED BY <1>11, <2>1 DEF BlockAt, TypeAt
  <1>12. CASE x = AclBlock(style)
    <2>1. x.address = "ba1" /\ x.type = "aws_s3_bucket_acl"
      BY <1>12, BlockTypes
    <2> QED BY <1>12, <2>1 DEF BlockAt, TypeAt
  <1>13. CASE x = PolicyBlock(style)
    <2>1. x.address = "bp1" /\ x.type = "aws_s3_bucket_policy"
      BY <1>13, BlockTypes
    <2> QED BY <1>13, <2>1 DEF BlockAt, TypeAt
  <1>14. CASE x = ControlBlock("pb1", style)
    <2>1. x.address = "pb1" /\ x.type = "aws_s3_bucket_public_access_block"
      BY <1>14 DEF ControlBlock, R
    <2> QED BY <1>14, <2>1 DEF BlockAt, TypeAt
  <1>15. CASE x = ControlBlock("pb2", style)
    <2>1. x.address = "pb2" /\ x.type = "aws_s3_bucket_public_access_block"
      BY <1>15 DEF ControlBlock, R
    <2> QED BY <1>15, <2>1 DEF BlockAt, TypeAt
  <1>16. CASE x = R("aws_vpc_security_group_ingress_rule", "sr1", <<>>)
    <2>1. x.address = "sr1" /\ x.type = "aws_vpc_security_group_ingress_rule"
      BY <1>16 DEF R
    <2> QED BY <1>16, <2>1 DEF BlockAt, TypeAt
  <1>17. CASE x = R("aws_vpc", "vp1", <<>>)
    <2>1. x.address = "vp1" /\ x.type = "aws_vpc"
      BY <1>17 DEF R
    <2> QED BY <1>17, <2>1 DEF BlockAt, TypeAt
  <1>20. ASSUME x \in Grants(l, style)
         PROVE  \/ x = Managed(l, style) \/ x = AttachmentOf(style)
                \/ x = Inline(l, style)
    BY <1>20 DEF Grants, AttachmentOf
  <1>21. ASSUME x \in Publics(l, style)
         PROVE  \/ x = AclBlock(style) \/ x = PolicyBlock(style)
                \/ x = ControlBlock("pb1", style)
                \/ x = ControlBlock("pb2", style)
    BY <1>21 DEF Publics
  <1>22. ASSUME x \in Others(style)
         PROVE  \/ x = R("aws_vpc_security_group_ingress_rule", "sr1", <<>>)
                \/ x = R("aws_vpc", "vp1", <<>>)
    BY <1>22 DEF Others
  <1> QED BY <1>2, <1>3, <1>4, <1>5, <1>6, <1>7, <1>8, <1>9, <1>10, <1>11,
             <1>12, <1>13, <1>14, <1>15, <1>16, <1>17,
             <1>20, <1>21, <1>22 DEF BlocksOf

LEMMA OneBlock ==
    ASSUME NEW l, NEW style, NEW x \in BlocksOf(l, style),
           NEW y \in BlocksOf(l, style), x.address = y.address
    PROVE  x = y
  BY BlocksAreAt

-----------------------------------------------------------------------------
(* What a plan shows of a block.                                           *)
Computed == {"id", "arn", "name"}
Shown(list, n, style) ==
    [i \in DOMAIN list |->
        IF list[i][1] = "ref" THEN Identity(n, list[i][2], style) ELSE list[i]]

LEMMA ValuesAre ==
    ASSUME NEW x, NEW fresh, NEW style, NEW n, n \notin Computed
    PROVE  LET v == Values(x, fresh, style)
               known == n \in DOMAIN x.attrs /\ n \notin UnknownOf(x, fresh)
           IN  /\ n \in DOMAIN v <=> known
               /\ known /\ n = "ingress" => v[n] = x.attrs[n]
               /\ known /\ n = "policy" => v[n] = ArnsOf(x.attrs[n])
               /\ known /\ n \notin {"ingress", "policy"} =>
                     v[n] = Shown(x.attrs[n], n, style)
  <1> DEFINE shown(m) ==
                CASE m = "ingress" -> x.attrs[m]
                  [] m = "policy" -> ArnsOf(x.attrs[m])
                  [] OTHER -> Shown(x.attrs[m], m, style)
             known == DOMAIN x.attrs \ UnknownOf(x, fresh)
             computed == IF x.address \in fresh THEN {} ELSE Computed
             more == [m \in computed |-> <<Identity(m, x.address, style)>>]
             v == Values(x, fresh, style)
  <1>1. v = With([m \in known |-> shown(m)], more)
    BY DEF Values, Shown, Computed
  <1>2. n \notin computed
    OBVIOUS
  <1> HIDE DEF shown, known, v
  <1>3. DOMAIN v = known \cup computed
        /\ \A m \in known : v[m] = shown(m)
    BY <1>1 DEF With
  <1>4. n \in DOMAIN v <=> n \in known
    BY <1>2, <1>3
  <1>5. n \in known => v[n] = shown(n)
    BY <1>3
  <1> QED BY <1>4, <1>5 DEF known, shown, v

LEMMA ComputedAre ==
    ASSUME NEW x, NEW fresh, NEW style, NEW n \in Computed,
           n \notin DOMAIN x.attrs
    PROVE  LET v == Values(x, fresh, style)
           IN  /\ n \in DOMAIN v <=> x.address \notin fresh
               /\ n \in DOMAIN v =>
                     v[n] = <<Identity(n, x.address, style)>>
  <1> DEFINE shown(m) ==
                CASE m = "ingress" -> x.attrs[m]
                  [] m = "policy" -> ArnsOf(x.attrs[m])
                  [] OTHER -> Shown(x.attrs[m], m, style)
             known == DOMAIN x.attrs \ UnknownOf(x, fresh)
             computed == IF x.address \in fresh THEN {} ELSE Computed
             one(m) == <<Identity(m, x.address, style)>>
             v == Values(x, fresh, style)
  <1>1. v = With([m \in known |-> shown(m)], [m \in computed |-> one(m)])
    BY DEF Values, Shown, Computed
  <1>2. n \notin known /\ (n \in computed <=> x.address \notin fresh)
    OBVIOUS
  <1> HIDE DEF shown, known, computed, one, v
  <1>3. DOMAIN v = known \cup computed
        /\ \A m \in computed \ known : v[m] = one(m)
    BY <1>1 DEF With
  <1> QED BY <1>2, <1>3 DEF one, v

-----------------------------------------------------------------------------
(* The attributes of the blocks.                                           *)
AttachedName(style) ==
    IF style = "shared names" THEN "security_groups"
    ELSE "vpc_security_group_ids"

Attaching(l) == {j \in 1..2 : (<<"g1", "g2">>)[j] \in l.attached}
GroupMember(g, style) ==
    IF style = "literal group" THEN Literal(g) ELSE Ref(g)
GroupList(l, style) ==
    IF style = "attachment variable" THEN <<Expr>>
    ELSE [i \in Attaching(l) |-> GroupMember((<<"g1", "g2">>)[i], style)]

LEMMA InstanceAttrs ==
    ASSUME NEW l, NEW style
    PROVE  LET attrs == Instance(l, style).attrs
           IN  /\ DOMAIN attrs \ {"count"} =
                     {"iam_instance_profile", AttachedName(style)}
               /\ attrs["iam_instance_profile"] =
                     <<Ref(IF style = "role direct" THEN "r1" ELSE "p1")>>
               /\ attrs[AttachedName(style)] = GroupList(l, style)
  <1> DEFINE attrs == Instance(l, style).attrs
             at == AttachedName(style)
             list == GroupList(l, style)
             profile == <<Ref(IF style = "role direct" THEN "r1" ELSE "p1")>>
             one == <<Literal("1")>>
             count == IF style = "count" THEN Only("count", one) ELSE <<>>
  <1>1. attrs = With(Only("iam_instance_profile", profile),
                     With(Only(at, list), count))
    BY DEF Instance, R, AttachedName, GroupList, Attaching, GroupMember
  <1>2. at \in {"security_groups", "vpc_security_group_ids"}
    BY DEF AttachedName
  <1>3. DOMAIN count \subseteq {"count"}
    <2>1. DOMAIN <<>> = {}
      OBVIOUS
    <2> QED BY <2>1 DEF Only
  <1> HIDE DEF attrs, at, list, profile, count
  <1> DEFINE rest == With(Only(at, list), count)
  <1>4. DOMAIN rest = {at} \cup DOMAIN count /\ rest[at] = list
    BY DEF With, Only
  <1> HIDE DEF rest
  <1>5. attrs = With(Only("iam_instance_profile", profile), rest)
    BY <1>1 DEF rest
  <1>6. /\ DOMAIN attrs = {"iam_instance_profile"} \cup DOMAIN rest
        /\ attrs["iam_instance_profile"] = profile
        /\ attrs[at] = list
    BY <1>2, <1>4, <1>5 DEF With, Only
  <1> QED BY <1>2, <1>3, <1>4, <1>6 DEF attrs, at, list, profile

(* The attributes a block may have.                                        *)
NamesOf(type) ==
    CASE type = "aws_security_group" -> {"ingress"}
      [] type = "aws_instance" ->
           {"iam_instance_profile", "vpc_security_group_ids",
            "security_groups", "count"}
      [] type = "aws_iam_instance_profile" -> {"role"}
      [] type = "aws_iam_role" -> {"permissions_boundary"}
      [] type = "aws_s3_bucket" -> {"bucket", "tags", "acl"}
      [] type = "aws_iam_policy" -> {"policy"}
      [] type = "aws_iam_role_policy_attachment" -> {"role", "policy_arn"}
      [] type = "aws_iam_role_policy" -> {"role", "policy"}
      [] type = "aws_s3_bucket_acl" -> {"bucket", "acl"}
      [] type = "aws_s3_bucket_policy" -> {"bucket", "policy"}
      [] type = "aws_s3_bucket_public_access_block" ->
           {"bucket", "ignore_public_acls", "restrict_public_buckets"}
      [] OTHER -> {}

LEMMA BucketDomain ==
    ASSUME NEW l, NEW b, NEW style
    PROVE  /\ DOMAIN Bucket(l, b, style).attrs \subseteq {"bucket", "tags", "acl"}
           /\ {"bucket", "tags"} \subseteq DOMAIN Bucket(l, b, style).attrs
  <1> DEFINE tags == IF style = "tag variable" THEN <<Expr>>
                     ELSE IF b \in l.sensitive THEN <<Literal("sensitive")>>
                     ELSE <<>>
             acl == <<Literal(IF b = "b1" /\ "acl" \in l.public
                              THEN "public-read" ELSE "private")>>
             names == <<Literal(b)>>
             more == IF style = "inline acl" THEN Only("acl", acl) ELSE <<>>
  <1>1. Bucket(l, b, style).attrs = With([bucket |-> names, tags |-> tags], more)
    BY DEF Bucket, R
  <1>2. DOMAIN more \subseteq {"acl"}
    <2>1. DOMAIN <<>> = {}
      OBVIOUS
    <2> HIDE DEF acl
    <2> QED BY <2>1 DEF Only
  <1> HIDE DEF tags, names, more
  <1> QED BY <1>1, <1>2 DEF With

LEMMA LinkBlockDomains ==
    ASSUME NEW l, NEW style, NEW m, NEW a
    PROVE  /\ DOMAIN AclBlock(style).attrs = {"bucket", "acl"}
           /\ DOMAIN ControlBlock(a, style).attrs =
                 {"bucket", "ignore_public_acls", "restrict_public_buckets"}
           /\ AclBlock(style).attrs["bucket"] = <<Ref("b1")>>
           /\ ControlBlock(a, style).attrs["bucket"] = <<Ref("b1")>>
  <1> DEFINE one == <<Ref("b1")>>
             acl == <<IF style = "acl variable" THEN Expr
                      ELSE Literal("public-read")>>
             flags == <<FlagOf(style)>>
  <1>1. AclBlock(style).attrs = With(Only("bucket", one), Only("acl", acl))
    BY DEF AclBlock, R
  <1>2. ControlBlock(a, style).attrs =
           With(Only("bucket", one),
                [ignore_public_acls |-> flags,
                 restrict_public_buckets |-> flags])
    BY DEF ControlBlock, R
  <1> HIDE DEF one, acl, flags
  <1>3. /\ DOMAIN AclBlock(style).attrs = {"bucket", "acl"}
        /\ AclBlock(style).attrs["bucket"] = one
    BY <1>1 DEF With, Only
  <1>4. /\ DOMAIN ControlBlock(a, style).attrs =
                 {"bucket", "ignore_public_acls", "restrict_public_buckets"}
        /\ ControlBlock(a, style).attrs["bucket"] = one
    BY <1>2 DEF With, Only
  <1> QED BY <1>3, <1>4 DEF one

LEMMA RoleBlockAttrs ==
    ASSUME NEW l, NEW style, NEW m
    PROVE  /\ DOMAIN Profile.attrs = {"role"}
           /\ Profile.attrs["role"] = <<Ref("r1")>>
           /\ DOMAIN Role(style).attrs \subseteq {"permissions_boundary"}
           /\ DOMAIN Attachment(m).attrs = {"role", "policy_arn"}
           /\ Attachment(m).attrs["role"] = <<Ref("r1")>>
           /\ Attachment(m).attrs["policy_arn"] = <<m>>
           /\ DOMAIN Managed(l, style).attrs = {"policy"}
           /\ Managed(l, style).attrs["policy"] = RolePolicy(l, style)
           /\ DOMAIN Inline(l, style).attrs = {"role", "policy"}
           /\ Inline(l, style).attrs["role"] = <<Ref("r1")>>
           /\ Inline(l, style).attrs["policy"] = RolePolicy(l, style)
  <1> DEFINE one == <<Ref("r1")>>
             arn == <<m>>
             written == RolePolicy(l, style)
             literal == <<Literal("arn")>>
             limit == IF style = "boundary"
                      THEN Only("permissions_boundary", literal) ELSE <<>>
  <1> HIDE DEF one, arn, written, literal
  <1>1. Profile.attrs = [role |-> one]
    BY DEF Profile, R, one
  <1>2. Role(style).attrs = limit
    BY DEF Role, R, literal
  <1>3. Attachment(m).attrs = [role |-> one, policy_arn |-> arn]
    BY DEF Attachment, R, one, arn
  <1>4. Managed(l, style).attrs = [policy |-> written]
    BY DEF Managed, R, written
  <1>5. Inline(l, style).attrs = [role |-> one, policy |-> written]
    BY DEF Inline, R, one, written
  <1>6. DOMAIN limit \subseteq {"permissions_boundary"}
    <2>1. DOMAIN <<>> = {}
      OBVIOUS
    <2> QED BY <2>1 DEF Only
  <1> HIDE DEF limit
  <1> QED BY <1>1, <1>2, <1>3, <1>4, <1>5, <1>6 DEF one, arn, written

LEMMA BlockNames ==
    ASSUME NEW l, NEW style, NEW x \in BlocksOf(l, style),
           x.type \in SupportedTypes
    PROVE  DOMAIN x.attrs \subseteq NamesOf(x.type)
  <1>1. CASE x.type = "aws_security_group"
    <2>1. PICK g \in Groups : x = Group(l, g, style)
      BY <1>1, BlockKinds
    <2>2. DOMAIN x.attrs = {"ingress"}
      BY <2>1 DEF Group, R
    <2> QED BY <1>1, <2>2 DEF NamesOf
  <1>2. CASE x.type = "aws_instance"
    <2>1. x = Instance(l, style)
      BY <1>2, BlockKinds
    <2>2. DOMAIN x.attrs \ {"count"} =
             {"iam_instance_profile", AttachedName(style)}
      BY <2>1, InstanceAttrs
    <2> QED BY <1>2, <2>2 DEF NamesOf, AttachedName
  <1>3. CASE x.type = "aws_iam_instance_profile"
    <2>1. x = Profile
      BY <1>3, BlockKinds
    <2> QED BY <1>3, <2>1, RoleBlockAttrs DEF NamesOf
  <1>4. CASE x.type = "aws_iam_role"
    <2>1. x = Role(style)
      BY <1>4, BlockKinds
    <2> QED BY <1>4, <2>1, RoleBlockAttrs DEF NamesOf
  <1>5. CASE x.type = "aws_s3_bucket"
    <2>1. PICK b \in Buckets : x = Bucket(l, b, style)
      BY <1>5, BlockKinds
    <2> QED BY <1>5, <2>1, BucketDomain DEF NamesOf
  <1>6. CASE x.type = "aws_iam_policy"
    <2>1. x = Managed(l, style)
      BY <1>6, BlockKinds
    <2> QED BY <1>6, <2>1, RoleBlockAttrs DEF NamesOf
  <1>7. CASE x.type = "aws_iam_role_policy_attachment"
    <2>1. PICK m : x = Attachment(m)
      BY <1>7, BlockKinds
    <2> QED BY <1>7, <2>1, RoleBlockAttrs DEF NamesOf
  <1>8. CASE x.type = "aws_iam_role_policy"
    <2>1. x = Inline(l, style)
      BY <1>8, BlockKinds
    <2> QED BY <1>8, <2>1, RoleBlockAttrs DEF NamesOf
  <1>9. CASE x.type = "aws_s3_bucket_acl"
    <2>1. x = AclBlock(style)
      BY <1>9, BlockKinds
    <2> QED BY <1>9, <2>1, LinkBlockDomains DEF NamesOf
  <1>10. CASE x.type = "aws_s3_bucket_policy"
    <2>1. x = PolicyBlock(style)
      BY <1>10, BlockKinds
    <2> QED BY <1>10, <2>1, PolicyBlockAttrs DEF NamesOf
  <1>11. CASE x.type = "aws_s3_bucket_public_access_block"
    <2>1. PICK a \in {"pb1", "pb2"} : x = ControlBlock(a, style)
      BY <1>11, BlockKinds
    <2> QED BY <1>11, <2>1, LinkBlockDomains DEF NamesOf
  <1> QED BY <1>1, <1>2, <1>3, <1>4, <1>5, <1>6, <1>7, <1>8, <1>9, <1>10, <1>11
          DEF SupportedTypes, SecurityAttributes

LEMMA LinkNames ==
    /\ LinkAttributes("aws_security_group") = {}
    /\ LinkAttributes("aws_instance") =
          {"iam_instance_profile", "vpc_security_group_ids",
           "security_groups"}
    /\ LinkAttributes("aws_iam_instance_profile") = {"role"}
    /\ LinkAttributes("aws_iam_role") = {}
    /\ LinkAttributes("aws_s3_bucket") = {}
    /\ LinkAttributes("aws_iam_policy") = {}
    /\ LinkAttributes("aws_iam_role_policy_attachment") = {"role", "policy_arn"}
    /\ LinkAttributes("aws_iam_role_policy") = {"role"}
    /\ LinkAttributes("aws_s3_bucket_acl") = {"bucket"}
    /\ LinkAttributes("aws_s3_bucket_policy") = {"bucket"}
    /\ LinkAttributes("aws_s3_bucket_public_access_block") = {"bucket"}
  BY DEF LinkAttributes, SecurityAttributes

(* What a single link of a block is.                                       *)
SingleLink(l, style, n, m) ==
    \/ \E y \in BlocksOf(l, style) :
          /\ m = Ref(y.address) /\ y.address \in {"p1", "r1", "mp1", "b1"}
          /\ y.type \in SupportedTypes
          /\ TargetType(n) = y.type
    \/ n = "iam_instance_profile" /\ m = Ref("r1")
    \/ n = "policy_arn" /\ m = Literal("arn")

LEMMA LinkTargets ==
    ASSUME NEW l, NEW style
    PROVE  /\ SingleLink(l, style, "role", Ref("r1"))
           /\ SingleLink(l, style, "bucket", Ref("b1"))
           /\ SingleLink(l, style, "iam_instance_profile", Ref("p1"))
           /\ Managed(l, style) \in BlocksOf(l, style) =>
                 SingleLink(l, style, "policy_arn", Ref("mp1"))
  <1>1. /\ Role(style) \in BlocksOf(l, style)
        /\ Role(style).address = "r1" /\ Role(style).type = "aws_iam_role"
        /\ Profile \in BlocksOf(l, style)
        /\ Profile.address = "p1" /\ Profile.type = "aws_iam_instance_profile"
        /\ Bucket(l, "b1", style) \in BlocksOf(l, style)
        /\ Managed(l, style).address = "mp1"
        /\ Managed(l, style).type = "aws_iam_policy"
    BY BlockTypes DEF BlocksOf
  <1>2. /\ Bucket(l, "b1", style).address = "b1"
        /\ Bucket(l, "b1", style).type = "aws_s3_bucket"
    BY BucketType
  <1>3. /\ TargetType("role") = "aws_iam_role"
        /\ TargetType("bucket") = "aws_s3_bucket"
        /\ TargetType("iam_instance_profile") = "aws_iam_instance_profile"
        /\ TargetType("policy_arn") = "aws_iam_policy"
    BY DEF TargetType
  <1>4. {"aws_iam_role", "aws_s3_bucket", "aws_iam_instance_profile",
         "aws_iam_policy"} \subseteq SupportedTypes
    BY DEF SupportedTypes, SecurityAttributes
  <1> QED BY <1>1, <1>2, <1>3, <1>4 DEF SingleLink

LEMMA AttachmentKind ==
    ASSUME NEW l, NEW style, NEW x \in BlocksOf(l, style),
           x.type = "aws_iam_role_policy_attachment"
    PROVE  x \in Grants(l, style) /\ \E m : x = Attachment(m)
  BY BlockKinds

LEMMA GrantTypes ==
    ASSUME NEW l, NEW style
    PROVE  /\ Managed(l, style).type = "aws_iam_policy"
           /\ Inline(l, style).type = "aws_iam_role_policy"
  BY DEF Managed, Inline, R

(* Terraform makes no plan that refers to a policy there is none of.       *)
Plannable(style) == style # "policy missing"

LEMMA LinkLists ==
    ASSUME NEW l, NEW style, Plannable(style),
           NEW x \in BlocksOf(l, style), x.type \in SupportedTypes,
           NEW n \in LinkAttributes(x.type), n \in DOMAIN x.attrs
    PROVE  \/ /\ x = Instance(l, style) /\ n = AttachedName(style)
              /\ n \in Listed /\ x.attrs[n] = GroupList(l, style)
           \/ /\ n \notin Listed
              /\ \E m : x.attrs[n] = <<m>> /\ SingleLink(l, style, n, m)
  <1>1. CASE x.type = "aws_instance"
    <2>1. x = Instance(l, style)
      BY <1>1, BlockKinds
    <2>2. n \in {"iam_instance_profile", "vpc_security_group_ids",
                 "security_groups"}
      BY <1>1, LinkNames
    <2>3. n \in {"iam_instance_profile", AttachedName(style)}
      <3>1. DOMAIN x.attrs \ {"count"} =
               {"iam_instance_profile", AttachedName(style)}
        BY <2>1, InstanceAttrs
      <3> QED BY <2>2, <3>1
    <2>4. CASE n = "iam_instance_profile"
      <3>1. n \notin Listed
        BY <2>4 DEF Listed
      <3>2. x.attrs[n] = <<Ref(IF style = "role direct" THEN "r1" ELSE "p1")>>
        BY <2>1, <2>4, InstanceAttrs
      <3>3. CASE style = "role direct"
        <4>1. x.attrs[n] = <<Ref("r1")>> /\ SingleLink(l, style, n, Ref("r1"))
          BY <2>4, <3>2, <3>3 DEF SingleLink
        <4> QED BY <3>1, <4>1
      <3>4. CASE style # "role direct"
        <4>1. x.attrs[n] = <<Ref("p1")>>
          BY <3>2, <3>4
        <4> QED BY <2>4, <3>1, <4>1, LinkTargets
      <3> QED BY <3>3, <3>4
    <2>5. CASE n = AttachedName(style)
      <3>1. n \in Listed
        BY <2>5 DEF AttachedName, Listed
      <3> QED BY <2>1, <2>5, <3>1, InstanceAttrs
    <2> QED BY <2>3, <2>4, <2>5
  <1>2. CASE x.type = "aws_iam_instance_profile"
    <2>0. x = Profile
      BY <1>2, BlockKinds
    <2>1. x = Profile /\ n = "role"
      BY <1>2, <2>0, LinkNames
    <2> QED BY <2>1, RoleBlockAttrs, LinkTargets DEF Listed
  <1>3. CASE x.type = "aws_iam_role_policy"
    <2>0. x = Inline(l, style)
      BY <1>3, BlockKinds
    <2>1. x = Inline(l, style) /\ n = "role"
      BY <1>3, <2>0, LinkNames
    <2> QED BY <2>1, RoleBlockAttrs, LinkTargets DEF Listed
  <1>4. CASE x.type = "aws_iam_role_policy_attachment"
    <2>0. x \in Grants(l, style) /\ \E m : x = Attachment(m)
      BY <1>4, AttachmentKind
    <2>1. x \in Grants(l, style) /\ n \in {"role", "policy_arn"}
      BY <1>4, <2>0, LinkNames
    <2>2. CASE n = "role"
      <3>1. PICK m : x = Attachment(m)
        BY <2>0
      <3> QED BY <2>2, <3>1, RoleBlockAttrs, LinkTargets DEF Listed
    <2>3. CASE n = "policy_arn" /\ style = "managed"
      <3>1. x \in {Managed(l, style), Attachment(Ref("mp1"))}
        BY <2>1, <2>3 DEF Grants
      <3>2. x = Attachment(Ref("mp1"))
        <4>1. Managed(l, style).type = "aws_iam_policy"
          BY GrantTypes
        <4> QED BY <1>4, <3>1, <4>1
      <3>3. Managed(l, style) \in BlocksOf(l, style)
        BY <2>3 DEF BlocksOf, Grants
      <3>4. x.attrs[n] = <<Ref("mp1")>>
        BY <2>3, <3>2, RoleBlockAttrs
      <3>5. SingleLink(l, style, n, Ref("mp1"))
        BY <2>3, <3>3, LinkTargets
      <3> QED BY <2>3, <3>4, <3>5 DEF Listed
    <2>4. CASE n = "policy_arn" /\ style = "policy elsewhere"
      <3>1. x = Attachment(Literal("arn"))
        BY <2>1, <2>4 DEF Grants
      <3>2. x.attrs[n] = <<Literal("arn")>>
        BY <2>4, <3>1, RoleBlockAttrs
      <3>3. SingleLink(l, style, n, Literal("arn"))
        BY <2>4 DEF SingleLink
      <3> QED BY <2>4, <3>2, <3>3 DEF Listed
    <2>5. CASE style \notin {"managed", "policy elsewhere"}
      <3>1. x = Inline(l, style)
        BY <2>1, <2>5 DEF Grants, Plannable
      <3> QED BY <1>4, <3>1, BlockTypes
    <2> QED BY <2>1, <2>2, <2>3, <2>4, <2>5
  <1>5. CASE x.type = "aws_s3_bucket_acl"
    <2>0. x = AclBlock(style)
      BY <1>5, BlockKinds
    <2>1. x = AclBlock(style) /\ n = "bucket"
      BY <1>5, <2>0, LinkNames
    <2> QED BY <2>1, LinkBlockDomains, LinkTargets DEF Listed
  <1>6. CASE x.type = "aws_s3_bucket_policy"
    <2>0. x = PolicyBlock(style)
      BY <1>6, BlockKinds
    <2>1. x = PolicyBlock(style) /\ n = "bucket"
      BY <1>6, <2>0, LinkNames
    <2> QED BY <2>1, PolicyBlockAttrs, LinkTargets DEF Listed
  <1>7. CASE x.type = "aws_s3_bucket_public_access_block"
    <2>0. \E a \in {"pb1", "pb2"} : x = ControlBlock(a, style)
      BY <1>7, BlockKinds
    <2>1. n = "bucket" /\ \E a \in {"pb1", "pb2"} : x = ControlBlock(a, style)
      BY <1>7, <2>0, LinkNames
    <2> QED BY <2>1, LinkBlockDomains, LinkTargets DEF Listed
  <1>8. CASE x.type \in {"aws_security_group", "aws_iam_role", "aws_s3_bucket",
                        "aws_iam_policy"}
    BY <1>8, LinkNames
  <1> QED BY <1>1, <1>2, <1>3, <1>4, <1>5, <1>6, <1>7, <1>8
          DEF SupportedTypes, SecurityAttributes

(* The members of the list of groups, in a style that has a list.          *)
Lists(style) == style # "attachment variable"

LEMMA GroupsListed ==
    ASSUME NEW l, l.attached \subseteq Groups, NEW style, Lists(style)
    PROVE  LET list == GroupList(l, style) IN
           /\ \A i \in DOMAIN list : \E g \in l.attached :
                 list[i] = GroupMember(g, style)
           /\ \A g \in l.attached : \E i \in DOMAIN list :
                 list[i] = GroupMember(g, style)
  <1> DEFINE order == <<"g1", "g2">>
             list == [i \in Attaching(l) |-> GroupMember(order[i], style)]
  <1>1. GroupList(l, style) = list
    BY DEF GroupList, Lists
  <1>2. Attaching(l) = {j \in 1..2 : order[j] \in l.attached}
    BY DEF Attaching
  <1>3. order[1] = "g1" /\ order[2] = "g2"
    OBVIOUS
  <1> HIDE DEF order
  <1>4. \A i \in DOMAIN list : order[i] \in l.attached
    BY <1>2
  <1>5. \A g \in l.attached : \E i \in Attaching(l) : order[i] = g
    BY <1>2, <1>3 DEF Groups
  <1> QED BY <1>1, <1>2, <1>4, <1>5

-----------------------------------------------------------------------------
(* The links of a plan.                                                    *)

(* What becomes of a member of a list of links.                            *)
MayRead(q, m) ==
    \/ /\ m[1] \in {"ref", "literal"}
       /\ q \in {Ref(m[2]), Literal(m[2]), Literal("web")}
    \/ m = Expr /\ q = Expr

LEMMA MemberKinds ==
    /\ \A a : Ref(a)[1] = "ref" /\ Ref(a)[2] = a
    /\ \A a : Literal(a)[1] = "literal" /\ Literal(a)[2] = a
    /\ Expr[1] = "expr" /\ Null[1] = "null"
  BY DEF Ref, Literal, Expr, Null

LEMMA ListLink ==
    ASSUME NEW r, NEW x, NEW n, Has(r, n), Has(x, n), r.type = x.type,
           DOMAIN r.attrs[n] = DOMAIN x.attrs[n],
           \A i \in DOMAIN x.attrs[n] : MayRead(r.attrs[n][i], x.attrs[n][i])
    PROVE  ReadsLink(r, x, n)
  <1> DEFINE Q == r.attrs[n]  L == x.attrs[n]  D == DOMAIN L
  <1> HIDE DEF Q, L
  <1>1. /\ DOMAIN Q = D /\ \A i \in D : MayRead(Q[i], L[i])
        /\ Members(r, n) = {Q[i] : i \in D}
        /\ Members(x, n) = {L[i] : i \in D}
    BY DEF Q, L, Members, Range
  <1> HIDE DEF D
  <1>2. ASSUME NEW i \in D
        PROVE  /\ Q[i] # Null /\ L[i] # Null
               /\ Q[i][1] = "ref" => Q[i][2] = L[i][2] /\ L[i] # Expr
    BY <1>1, MemberKinds DEF MayRead
  <1>3. References(r, n) = {Q[i][2] : i \in {j \in D : Q[j][1] = "ref"}}
    BY <1>1 DEF References, Addresses
  <1>4. NamedBy(x, n) = {L[i][2] : i \in {j \in D : L[j] # Expr}}
    BY <1>1, <1>2 DEF NamedBy
  <1>5. References(r, n) \subseteq NamedBy(x, n)
    BY <1>2, <1>3, <1>4
  <1>6. ASSUME ~Unlinked(r, n)
        PROVE  NamedBy(x, n) \subseteq References(r, n)
               /\ Expr \notin Members(x, n)
    <2>1. Members(r, n) \ {Null} = {Q[i] : i \in D}
      BY <1>1, <1>2
    <2>2. \A i \in D : Q[i][1] = "ref"
      BY <1>6, <2>1 DEF Unlinked
    <2> QED BY <1>1, <1>2, <1>3, <1>4, <2>2
  <1> QED BY <1>5, <1>6 DEF ReadsLink

LEMMA NoLink ==
    ASSUME NEW r, NEW x, NEW n, ~Has(r, n), ~Has(x, n)
    PROVE  ReadsLink(r, x, n)
  <1>1. Members(r, n) = {} /\ Members(x, n) = {}
    BY DEF Members
  <1> QED BY <1>1 DEF ReadsLink, References, Addresses, NamedBy

(* The references the configuration of a plan has.                         *)
NamedIs(l, style, x, n, named) ==
    LET L == x.attrs[n] IN
    /\ n \notin DOMAIN x.attrs => DOMAIN named = {}
    /\ n \in DOMAIN x.attrs =>
          /\ DOMAIN named \subseteq DOMAIN L
          /\ \A i \in DOMAIN named : named[i] = L[i][2]
          /\ \A y \in BlocksOf(l, style) :
                y.type \in SupportedTypes =>
                \A i \in DOMAIN L : L[i] = Ref(y.address) =>
                   (i \in DOMAIN named <=> y.type = TargetType(n))
          /\ \A i \in DOMAIN named : L[i][1] = "ref"

LEMMA NamedAre ==
    ASSUME NEW l, NEW style, NEW x \in BlocksOf(l, style),
           x.type \in SupportedTypes,
           NEW n \in LinkAttributes(x.type), NEW r, r.address = x.address
    PROVE  NamedIs(l, style, x, n,
                   Named(ReferencesOf(Supported(Blocks(l, style))), r, n))
  <1> DEFINE blocks == Supported(Blocks(l, style))
             B == {y \in BlocksOf(l, style) : y.type \in SupportedTypes}
             typeOf(a) == (CHOOSE y \in Range(blocks) : y.address = a).type
             listed(list) ==
               [i \in {j \in DOMAIN list : list[j][1] = "ref"} |->
                  <<typeOf(list[i][2]), list[i][2]>>]
             at(a) == CHOOSE y \in Range(blocks) : y.address = a
             of(a) == [m \in LinkAttributes(at(a).type) \cap DOMAIN at(a).attrs |->
                          listed(at(a).attrs[m])]
             references == ReferencesOf(blocks)
             L == x.attrs[n]
             named == Named(references, r, n)
  <1>1. Range(blocks) = B
    BY BlocksAre, SupportedAre
  <1>2. references = [a \in {y.address : y \in Range(blocks)} |-> of(a)]
    BY DEF ReferencesOf
  <1>3. ASSUME NEW y \in B PROVE at(y.address) = y /\ typeOf(y.address) = y.type
    <2>1. \A z \in Range(blocks) : z.address = y.address => z = y
      BY <1>1, OneBlock
    <2> QED BY <1>1, <2>1
  <1>4. x \in B
    OBVIOUS
  <1>6. at(x.address) = x
    BY <1>3, <1>4
  <1> HIDE DEF blocks, at, references, typeOf, of
  <1>5. x.address \in DOMAIN references /\ references[x.address] = of(x.address)
    BY <1>1, <1>2, <1>4
  <1>7. of(x.address) = [m \in LinkAttributes(x.type) \cap DOMAIN x.attrs |->
                            listed(x.attrs[m])]
    BY <1>6 DEF of
  <1> HIDE DEF B
  <1>8. CASE n \notin DOMAIN x.attrs
    <2>1. n \notin DOMAIN references[r.address]
      BY <1>5, <1>7, <1>8
    <2>2. named = <<>>
      BY <2>1 DEF Named
    <2>3. DOMAIN named = {}
      BY <2>2
    <2> QED BY <1>8, <2>3 DEF references, blocks, NamedIs
  <1>9. CASE n \in DOMAIN x.attrs
    <2> DEFINE all == listed(L)
    <2>1. r.address \in DOMAIN references
          /\ n \in DOMAIN references[r.address]
          /\ references[r.address][n] = all
      BY <1>5, <1>7, <1>9
    <2>2. named = [i \in {j \in DOMAIN all : all[j][1] = TargetType(n)} |->
                      all[i][2]]
      <3> HIDE DEF all, listed, L
      <3> QED BY <2>1 DEF Named
    <2>3. /\ DOMAIN all = {j \in DOMAIN L : L[j][1] = "ref"}
          /\ \A i \in DOMAIN all : all[i] = <<typeOf(L[i][2]), L[i][2]>>
      OBVIOUS
    <2> HIDE DEF all, L
    <2>4. \A i \in DOMAIN all : all[i][1] = typeOf(L[i][2]) /\ all[i][2] = L[i][2]
      BY <2>3
    <2> HIDE DEF named
    <2>5. /\ DOMAIN named =
                {j \in DOMAIN L : L[j][1] = "ref" /\
                                  typeOf(L[j][2]) = TargetType(n)}
          /\ \A i \in DOMAIN named : named[i] = L[i][2]
      BY <2>2, <2>3, <2>4
    <2>6. ASSUME NEW y \in BlocksOf(l, style), y.type \in SupportedTypes,
                 NEW i \in DOMAIN L, L[i] = Ref(y.address)
          PROVE  i \in DOMAIN named <=> y.type = TargetType(n)
      <3>1. L[i][1] = "ref" /\ L[i][2] = y.address
        BY <2>6, MemberKinds
      <3>2. typeOf(y.address) = y.type
        BY <1>3, <2>6 DEF B
      <3> QED BY <2>5, <3>1, <3>2
    <2> QED BY <1>9, <2>5, <2>6 DEF named, L, references, blocks, NamedIs
  <1> QED BY <1>8, <1>9

(* The resources of one side of a plan that are modelled.                  *)
Shows(rs, l, fresh, style) ==
    \A r \in rs : \E x \in BlocksOf(l, style) :
       x.type \in SupportedTypes /\ r = Entry(x, fresh, style)

TargetTypes == {"aws_security_group", "aws_iam_instance_profile",
                "aws_iam_role", "aws_iam_policy", "aws_s3_bucket"}

LEMMA EntryFields ==
    ASSUME NEW x, NEW fresh, NEW style
    PROVE  /\ Entry(x, fresh, style).type = x.type
           /\ Entry(x, fresh, style).address = x.address
           /\ Entry(x, fresh, style).attrs = Values(x, fresh, style)
           /\ Entry(x, fresh, style).mode = "managed"
           /\ Entry(x, fresh, style).place = PlaceOf(x.address, style)
  BY DEF Entry

LEMMA IdentityIs ==
    ASSUME NEW n, NEW a, NEW style
    PROVE  /\ Identity(n, a, style) \in {Literal(a), Literal("web")}
           /\ style # "shared names" => Identity(n, a, style) = Literal(a)
           /\ n \notin {"name", "security_groups"} =>
                 Identity(n, a, style) = Literal(a)
           /\ n \in {"name", "security_groups"} /\ style = "shared names" =>
                 Identity(n, a, style) = Literal("web")
  BY DEF Identity

LEMMA ShownPlain ==
    ASSUME NEW list, NEW n, NEW style, \A m \in Range(list) : m[1] # "ref"
    PROVE  Range(Shown(list, n, style)) = Range(list)
  <1>1. \A i \in DOMAIN list : Shown(list, n, style)[i] = list[i]
    BY DEF Shown, Range
  <1>2. DOMAIN Shown(list, n, style) = DOMAIN list
    BY DEF Shown
  <1> QED BY <1>1, <1>2 DEF Range

LEMMA NoComputed ==
    ASSUME NEW l, NEW style, NEW x \in BlocksOf(l, style),
           x.type \in SupportedTypes
    PROVE  Computed \cap DOMAIN x.attrs = {}
  <1>1. Computed \cap NamesOf(x.type) = {}
    BY DEF Computed, NamesOf
  <1> QED BY <1>1, BlockNames

IsBearer(rs, style, type, value, a) ==
    \E r \in rs : /\ r.type = type /\ r.address = a
                  /\ \/ value = Literal(a)
                     \/ style = "shared names" /\ value = Literal("web")

LEMMA BucketOwn ==
    ASSUME NEW l, NEW b, NEW style
    PROVE  Members(Bucket(l, b, style), "bucket") = {Literal(b)}
  <1> DEFINE B == Bucket(l, b, style)
             name == "bucket"
             one == <<Literal(b)>>
  <1>1. name \in DOMAIN B.attrs
    BY BucketDomain
  <1>2. B.attrs[name] = one
    BY DEF Bucket, R, With
  <1>3. Range(one) = {Literal(b)}
    BY ShortLists
  <1> HIDE DEF B, one, name
  <1>4. Members(B, name) = {Literal(b)}
    BY <1>1, <1>2, <1>3 DEF Members, Has
  <1> QED BY <1>4 DEF B, name

LEMMA BucketName ==
    ASSUME NEW l, NEW style, NEW x \in BlocksOf(l, style),
           x.type = "aws_s3_bucket"
    PROVE  /\ Members(x, "bucket") = {Literal(x.address)}
           /\ x.address \in Buckets
  <1>1. PICK b \in Buckets : x = Bucket(l, b, style)
    BY BlockKinds
  <1>2. x.address = b
    BY <1>1, BucketType
  <1>3. Members(Bucket(l, b, style), "bucket") = {Literal(b)}
    BY BucketOwn
  <1> QED BY <1>1, <1>2, <1>3

LEMMA BearersAre ==
    ASSUME NEW l, NEW style, NEW fresh, NEW rs, Shows(rs, l, fresh, style),
           NEW type \in TargetTypes, NEW value,
           NEW a \in Bearers(rs, type, value)
    PROVE  IsBearer(rs, style, type, value, a)
  <1>1. PICK r \in rs : /\ r.type = type /\ r.address = a
                        /\ \E name \in IdentityAttributes :
                              value \in Members(r, name)
    BY DEF Bearers, OfType
  <1>2. PICK name \in IdentityAttributes : value \in Members(r, name)
    BY <1>1
  <1>3. PICK x \in BlocksOf(l, style) :
           x.type \in SupportedTypes /\ r = Entry(x, fresh, style)
    BY DEF Shows
  <1> DEFINE v == Values(x, fresh, style)
  <1>4. r.attrs = v /\ x.type = type /\ x.address = a
    BY <1>1, <1>3, EntryFields
  <1>5. name \in DOMAIN v /\ value \in Range(v[name])
    BY <1>2, <1>4 DEF Members, Has
  <1>6. CASE name \in Computed
    <2>1. name \notin DOMAIN x.attrs
      BY <1>3, <1>6, NoComputed
    <2>2. v[name] = <<Identity(name, x.address, style)>>
      BY <1>5, <1>6, <2>1, ComputedAre
    <2> DEFINE w == Identity(name, x.address, style)
               one == <<w>>
    <2>3. Range(one) = {w}
      BY ShortLists
    <2> HIDE DEF one, v
    <2>4. value \in Range(one)
      BY <1>5, <2>2 DEF one
    <2>5. value = w
      BY <2>3, <2>4
    <2> HIDE DEF w
    <2>a. w = Identity(name, a, style)
      BY <1>4 DEF w
    <2>b. CASE style # "shared names"
      <3>1. w = Literal(a)
        BY <2>a, <2>b, IdentityIs
      <3> QED BY <1>1, <2>5, <3>1 DEF IsBearer
    <2>c. CASE style = "shared names"
      <3>1. w \in {Literal(a), Literal("web")}
        BY <2>a, IdentityIs
      <3> QED BY <1>1, <2>5, <3>1, <2>c DEF IsBearer
    <2> QED BY <2>b, <2>c
  <1>7. CASE name = "bucket"
    <2>1. name \notin Computed /\ name \notin {"ingress", "policy"}
      BY <1>7 DEF Computed
    <2>2. name \in DOMAIN x.attrs /\ v[name] = Shown(x.attrs[name], name, style)
      BY <1>5, <2>1, ValuesAre
    <2>3. x.type = "aws_s3_bucket"
      <3>1. name \in NamesOf(x.type)
        BY <1>3, <2>2, BlockNames
      <3> QED BY <1>4, <1>7, <3>1 DEF NamesOf, TargetTypes
    <2>5. Members(x, name) = {Literal(a)}
      BY <1>4, <1>7, <2>3, BucketName
    <2>6. Range(x.attrs[name]) = {Literal(a)}
      BY <2>2, <2>5 DEF Members, Has
    <2>7. Range(v[name]) = {Literal(a)}
      <3>1. \A m \in Range(x.attrs[name]) : m[1] # "ref"
        BY <2>6, MemberKinds
      <3> HIDE DEF v
      <3> QED BY <2>2, <2>6, <3>1, ShownPlain
    <2> QED BY <1>1, <1>5, <2>7 DEF IsBearer
  <1> QED BY <1>6, <1>7 DEF IdentityAttributes, Computed

(* A link names no resource but its own, or none.                          *)
LEMMA IndexIs ==
    ASSUME NEW l, NEW style, NEW fresh, NEW rs, Shows(rs, l, fresh, style),
           NEW type \in TargetTypes
    PROVE  /\ \A a : style # "shared names" \/ Literal(a) # Literal("web") =>
                 IdentityIndex(rs, type, Literal(a)) \subseteq {a}
           /\ IdentityIndex(rs, type, Expr) = {}
  <1>1. ASSUME NEW a, style # "shared names" \/ Literal(a) # Literal("web")
        PROVE  Bearers(rs, type, Literal(a)) \subseteq {a}
    <2>1. ASSUME NEW b \in Bearers(rs, type, Literal(a)) PROVE b = a
      <3>1. IsBearer(rs, style, type, Literal(a), b)
        BY BearersAre
      <3>2. Literal(a) = Literal(b)
        BY <1>1, <3>1 DEF IsBearer
      <3> QED BY <3>2, MemberKinds
    <2> QED BY <2>1
  <1>2. Bearers(rs, type, Expr) = {}
    <2>1. ASSUME NEW b \in Bearers(rs, type, Expr) PROVE FALSE
      <3>1. IsBearer(rs, style, type, Expr, b)
        BY BearersAre
      <3>2. Expr = Literal(b) \/ Expr = Literal("web")
        BY <3>1 DEF IsBearer
      <3> QED BY <3>2, MemberKinds
    <2> QED BY <2>1
  <1> QED BY <1>1, <1>2 DEF IdentityIndex

Sharing(style) == style = "shared names"

LEMMA NameShown ==
    ASSUME NEW l, NEW style, NEW fresh, fresh = {},
           NEW x \in BlocksOf(l, style),
           x.type \in SupportedTypes, Sharing(style)
    PROVE  Literal("web") \in Members(Entry(x, fresh, style), "name")
  <1> DEFINE v == Values(x, fresh, style)
             one == <<Literal("web")>>
             n == "name"
  <1>1. n \in Computed /\ n \notin DOMAIN x.attrs
    BY NoComputed DEF Computed
  <1>2. /\ n \in DOMAIN v
        /\ v[n] = <<Identity(n, x.address, style)>>
    BY <1>1, ComputedAre
  <1>3. Identity(n, x.address, style) = Literal("web")
    BY IdentityIs DEF Sharing
  <1>4. v[n] = one
    BY <1>2, <1>3
  <1>5. Range(one) = {Literal("web")}
    BY ShortLists
  <1>6. Entry(x, fresh, style).attrs = v
    BY EntryFields
  <1> HIDE DEF v, one, n
  <1>7. Literal("web") \in Members(Entry(x, fresh, style), n)
    BY <1>2, <1>4, <1>5, <1>6 DEF Members, Has
  <1> QED BY <1>7 DEF n

(* A name that two groups have names neither.                              *)
LEMMA SharedIndex ==
    ASSUME NEW l, NEW style, NEW fresh, fresh = {}, NEW rs,
           Shows(rs, l, fresh, style),
           NEW r1 \in rs, NEW r2 \in rs, Sharing(style),
           r1.type = "aws_security_group", r2.type = "aws_security_group",
           r1.address # r2.address
    PROVE  IdentityIndex(rs, "aws_security_group", Literal("web")) = {}
  <1> DEFINE type == "aws_security_group"
             all == Bearers(rs, type, Literal("web"))
  <1>1. ASSUME NEW r \in rs, r.type = type PROVE r.address \in all
    <2>1. PICK x \in BlocksOf(l, style) :
             x.type \in SupportedTypes /\ r = Entry(x, fresh, style)
      BY DEF Shows
    <2>2. Literal("web") \in Members(r, "name")
      BY <2>1, NameShown
    <2>3. "name" \in IdentityAttributes
      BY DEF IdentityAttributes
    <2> QED BY <1>1, <2>2, <2>3 DEF Bearers, OfType
  <1>2. r1.address \in all /\ r2.address \in all
    BY <1>1
  <1>3. all \subseteq Groups
    <2>1. ASSUME NEW a \in all PROVE a \in Groups
      <3>1. PICK r \in rs : r.type = type /\ r.address = a
        BY DEF Bearers, OfType
      <3>2. PICK x \in BlocksOf(l, style) : r = Entry(x, fresh, style)
        BY DEF Shows
      <3>3. x.type = type /\ x.address = a
        BY <3>1, <3>2, EntryFields
      <3>4. \E g \in Groups : x = Group(l, g, style)
        BY <3>3, BlockKinds
      <3>5. PICK g \in Groups : x = Group(l, g, style)
        BY <3>4
      <3>6. x.address = g
        BY <3>5, GroupType
      <3> QED BY <3>3, <3>6
    <2> QED BY <2>1
  <1>4. IsFiniteSet(all)
    <2>1. IsFiniteSet({"g1"})
      BY FS_Singleton
    <2>2. IsFiniteSet({"g1"} \cup {"g2"})
      BY <2>1, FS_AddElement
    <2>3. Groups = {"g1"} \cup {"g2"}
      BY DEF Groups
    <2> HIDE DEF all
    <2> QED BY <1>3, <2>2, <2>3, FS_Subset
  <1> HIDE DEF all
  <1>5. Cardinality(all) # 1
    <2>1. SUFFICES ASSUME Cardinality(all) = 1 PROVE FALSE
      OBVIOUS
    <2>2. \E y : all = {y}
      BY <1>4, <2>1, FS_Singleton
    <2> QED BY <1>2, <2>2
  <1> QED BY <1>5 DEF IdentityIndex, all

-----------------------------------------------------------------------------
(* The members of a list of links.                                         *)
LinkMember(m) ==
    m = Expr \/ \E a : a # "web" /\ (m = Ref(a) \/ m = Literal(a))

LEMMA OneMember ==
    ASSUME NEW m
    PROVE  DOMAIN <<m>> = {1} /\ <<m>>[1] = m
  <1>1. DOMAIN <<m>> = 1..1
    OBVIOUS
  <1>2. 1..1 = {1}
    OBVIOUS
  <1> QED BY <1>1, <1>2

LEMMA GroupListMembers ==
    ASSUME NEW l \in Landscapes, NEW style,
           NEW i \in DOMAIN GroupList(l, style)
    PROVE  LinkMember(GroupList(l, style)[i])
  <1> DEFINE G == GroupList(l, style)
  <1>0. l.attached \subseteq Groups
    BY DEF Landscapes
  <1>1. CASE style = "attachment variable"
    <2>1. G = <<Expr>>
      BY <1>1 DEF GroupList
    <2> HIDE DEF G
    <2>2. i \in DOMAIN G /\ DOMAIN G = {1} /\ G[1] = Expr
      <3>1. i \in DOMAIN G
        BY DEF G
      <3> QED BY <2>1, <3>1, OneMember
    <2>3. G[i] = Expr
      BY <2>2
    <2> QED BY <2>3 DEF LinkMember, G
  <1>2. CASE style # "attachment variable"
    <2>1. G = [j \in Attaching(l) |-> GroupMember((<<"g1", "g2">>)[j], style)]
      BY <1>2 DEF GroupList
    <2>2. i \in 1..2
      BY <2>1 DEF Attaching
    <2>3. i = 1 \/ i = 2
      BY <2>2
    <2>4. (<<"g1", "g2">>)[i] \in {"g1", "g2"}
      BY <2>3
    <2>5. PICK g \in {"g1", "g2"} : (<<"g1", "g2">>)[i] = g
      BY <2>4
    <2>6. G[i] = GroupMember(g, style)
      BY <2>1, <2>5
    <2>7. g # "web"
      OBVIOUS
    <2> HIDE DEF G
    <2>8. LinkMember(G[i])
      BY <2>6, <2>7 DEF GroupMember, LinkMember
    <2> QED BY <2>8 DEF G
  <1> QED BY <1>1, <1>2

LEMMA LinkMembers ==
    ASSUME NEW l \in Landscapes, NEW style, Plannable(style),
           NEW x \in BlocksOf(l, style), x.type \in SupportedTypes,
           NEW n \in LinkAttributes(x.type), n \in DOMAIN x.attrs,
           NEW i \in DOMAIN x.attrs[n]
    PROVE  LinkMember(x.attrs[n][i])
  <1> DEFINE L == x.attrs[n]
  <1>1. CASE L = GroupList(l, style)
    BY <1>1, GroupListMembers
  <1>2. CASE \E m : L = <<m>> /\ SingleLink(l, style, n, m)
    <2>1. PICK m : L = <<m>> /\ SingleLink(l, style, n, m)
      BY <1>2
    <2>0. i \in DOMAIN L
      OBVIOUS
    <2> HIDE DEF L
    <2>2. L[i] = m
      <3>1. DOMAIN L = {1} /\ L[1] = m
        BY <2>1, OneMember
      <3> QED BY <2>0, <3>1
    <2>3. LinkMember(m)
      BY <2>1 DEF SingleLink, LinkMember
    <2> QED BY <2>2, <2>3 DEF L
  <1> QED BY <1>1, <1>2, LinkLists

(* What a plan shows of a member, and what a member that is shown resolves *)
(* to.                                                                     *)
ShownOf(m, n, style) ==
    IF m[1] = "ref" THEN Identity(n, m[2], style) ELSE m
Resolved(rs, n, q) ==
    IF IdentityIndex(rs, TargetType(n), q) = {} THEN q
    ELSE Ref(CHOOSE a \in IdentityIndex(rs, TargetType(n), q) : TRUE)

LEMMA ShownReads ==
    ASSUME NEW m, LinkMember(m), NEW n, NEW style
    PROVE  MayRead(ShownOf(m, n, style), m)
  <1>1. CASE m = Expr
    BY <1>1, MemberKinds DEF ShownOf, MayRead
  <1>2. ASSUME NEW a, m = Literal(a)
        PROVE  MayRead(ShownOf(m, n, style), m)
    BY <1>2, MemberKinds DEF ShownOf, MayRead
  <1>3. ASSUME NEW a, m = Ref(a)
        PROVE  MayRead(ShownOf(m, n, style), m)
    <2>1. ShownOf(m, n, style) = Identity(n, a, style)
      BY <1>3, MemberKinds DEF ShownOf
    <2>2. Identity(n, a, style) \in {Literal(a), Literal("web")}
      BY IdentityIs
    <2> QED BY <1>3, <2>1, <2>2, MemberKinds DEF MayRead
  <1> QED BY <1>1, <1>2, <1>3 DEF LinkMember

(* Two groups that share a name are both on that side of the plan.         *)
BothGroups(rs, style) ==
    Sharing(style) =>
       \E r1, r2 \in rs : /\ r1.type = "aws_security_group"
                          /\ r2.type = "aws_security_group"
                          /\ r1.address # r2.address

LinkNameSet == {"vpc_security_group_ids", "security_groups",
                "iam_instance_profile", "role", "policy_arn", "bucket"}

LEMMA TargetTypeIs ==
    ASSUME NEW n \in LinkNameSet
    PROVE  TargetType(n) \in TargetTypes
  BY DEF LinkNameSet, TargetType, TargetTypes

LEMMA TargetTypeGroups ==
    TargetType("security_groups") = "aws_security_group"
    /\ TargetType("vpc_security_group_ids") = "aws_security_group"
  BY DEF TargetType

LEMMA IndexOfShown ==
    ASSUME NEW l, NEW style, NEW fresh, NEW rs, Shows(rs, l, fresh, style),
           BothGroups(rs, style), Sharing(style) => fresh = {},
           NEW n \in LinkNameSet, NEW a, a # "web"
    PROVE  IdentityIndex(rs, TargetType(n), Identity(n, a, style))
              \subseteq {a}
  <1> DEFINE type == TargetType(n)
  <1>0. type \in TargetTypes
    BY TargetTypeIs
  <1>1. CASE Identity(n, a, style) = Literal(a)
    <2>1. Literal(a) # Literal("web")
      BY MemberKinds
    <2> HIDE DEF type
    <2>2. IdentityIndex(rs, type, Literal(a)) \subseteq {a}
      BY <1>0, <2>1, IndexIs
    <2> QED BY <1>1, <2>2 DEF type
  <1>2. CASE Identity(n, a, style) # Literal(a)
    <2>1. Sharing(style) /\ n = "security_groups"
      BY <1>2, IdentityIs DEF Sharing, LinkNameSet
    <2>2. Identity(n, a, style) = Literal("web")
      <3>1. Identity(n, a, style) \in {Literal(a), Literal("web")}
        BY IdentityIs
      <3> QED BY <1>2, <3>1
    <2>3. PICK r1, r2 \in rs : /\ r1.type = "aws_security_group"
                               /\ r2.type = "aws_security_group"
                               /\ r1.address # r2.address
      BY <2>1 DEF BothGroups
    <2>4. IdentityIndex(rs, "aws_security_group", Literal("web")) = {}
      BY <2>1, <2>3, SharedIndex
    <2> QED BY <2>1, <2>2, <2>4, TargetTypeGroups
  <1> QED BY <1>1, <1>2

LEMMA IndexOfLiteral ==
    ASSUME NEW l, NEW style, NEW fresh, NEW rs, Shows(rs, l, fresh, style),
           NEW n \in LinkNameSet, NEW a, a # "web"
    PROVE  /\ IdentityIndex(rs, TargetType(n), Literal(a)) \subseteq {a}
           /\ IdentityIndex(rs, TargetType(n), Expr) = {}
  <1> DEFINE type == TargetType(n)
  <1>0. type \in TargetTypes
    BY TargetTypeIs
  <1>1. Literal(a) # Literal("web")
    BY MemberKinds
  <1> HIDE DEF type
  <1>2. IdentityIndex(rs, type, Literal(a)) \subseteq {a}
    BY <1>0, <1>1, IndexIs
  <1>3. IdentityIndex(rs, type, Expr) = {}
    BY <1>0, IndexIs
  <1> QED BY <1>2, <1>3 DEF type

LEMMA ResolvedReads ==
    ASSUME NEW l, NEW style, NEW fresh, NEW rs, Shows(rs, l, fresh, style),
           BothGroups(rs, style), Sharing(style) => fresh = {},
           NEW n \in LinkNameSet, NEW m, LinkMember(m)
    PROVE  MayRead(Resolved(rs, n, ShownOf(m, n, style)), m)
  <1> DEFINE q == ShownOf(m, n, style)
             found == IdentityIndex(rs, TargetType(n), q)
  <1>1. CASE found = {}
    <2>1. Resolved(rs, n, q) = q
      BY <1>1 DEF Resolved
    <2> QED BY <2>1, ShownReads
  <1>2. CASE found # {}
    <2>1. m # Expr
      <3>1. m = Expr => q = Expr
        BY MemberKinds DEF ShownOf
      <3>2. IdentityIndex(rs, TargetType(n), Expr) = {}
        BY IndexOfLiteral
      <3> QED BY <1>2, <3>1, <3>2
    <2>2. PICK a : a # "web" /\ (m = Ref(a) \/ m = Literal(a))
      BY <2>1 DEF LinkMember
    <2>3. found \subseteq {a}
      <3>1. CASE m = Ref(a)
        <4>1. q = Identity(n, a, style)
          BY <3>1, MemberKinds DEF ShownOf
        <4> HIDE DEF q
        <4> QED BY <2>2, <4>1, IndexOfShown
      <3>2. CASE m = Literal(a)
        <4>1. q = Literal(a)
          BY <3>2, MemberKinds DEF ShownOf
        <4> HIDE DEF q
        <4> QED BY <2>2, <4>1, IndexOfLiteral
      <3> QED BY <2>2, <3>1, <3>2
    <2>4. Resolved(rs, n, q) = Ref(CHOOSE b \in found : TRUE)
      BY <1>2 DEF Resolved
    <2> HIDE DEF found, q
    <2>5. Resolved(rs, n, q) = Ref(a)
      BY <1>2, <2>3, <2>4
    <2> QED BY <2>2, <2>5, MemberKinds DEF MayRead, q
  <1> QED BY <1>1, <1>2

LEMMA AttachingIs ==
    ASSUME NEW l, NEW j \in Attaching(l)
    PROVE  (<<"g1", "g2">>)[j] \in {"g1", "g2"}
  <1>1. j \in 1..2
    BY DEF Attaching
  <1>2. j = 1 \/ j = 2
    BY <1>1
  <1> QED BY <1>2

LEMMA NamedFull ==
    ASSUME NEW l \in Landscapes, NEW style, Plannable(style),
           NEW x \in BlocksOf(l, style), x.type \in SupportedTypes,
           NEW n \in LinkAttributes(x.type), n \in DOMAIN x.attrs,
           NEW r, r.address = x.address,
           NEW named,
           named = Named(ReferencesOf(Supported(Blocks(l, style))), r, n)
    PROVE  /\ DOMAIN named \in {{}, DOMAIN x.attrs[n]}
           /\ \A i \in DOMAIN named : /\ named[i] = x.attrs[n][i][2]
                                      /\ x.attrs[n][i][1] = "ref"
           /\ n \in Listed => x.attrs[n] = GroupList(l, style)
           /\ n \notin Listed => DOMAIN x.attrs[n] = {1}
  <1> DEFINE L == x.attrs[n]
  <1>0. NamedIs(l, style, x, n, named)
    BY NamedAre
  <1>1. /\ DOMAIN named \subseteq DOMAIN L
        /\ \A i \in DOMAIN named : named[i] = L[i][2]
        /\ \A i \in DOMAIN named : L[i][1] = "ref"
    BY <1>0 DEF NamedIs
  <1>2. \A y \in BlocksOf(l, style) :
           y.type \in SupportedTypes =>
              \A i \in DOMAIN L : L[i] = Ref(y.address) =>
                 (i \in DOMAIN named <=> y.type = TargetType(n))
    BY <1>0 DEF NamedIs
  <1> DEFINE Grouped == /\ n \in Listed /\ L = GroupList(l, style)
             Single == n \notin Listed /\ \E m : L = <<m>>
  <1>3. Grouped \/ Single
    BY LinkLists
  <1>4. Single => DOMAIN L = {1}
    BY OneMember
  <1> HIDE DEF L
  <1>5. CASE Grouped
    <2>1. ASSUME NEW i \in DOMAIN named, NEW j \in DOMAIN L
          PROVE  j \in DOMAIN named
      <3>1. L[i][1] = "ref" /\ i \in DOMAIN L
        BY <1>1
      <3>2. style # "attachment variable"
        <4>1. SUFFICES ASSUME style = "attachment variable" PROVE FALSE
          OBVIOUS
        <4>2. L = <<Expr>>
          BY <1>5, <4>1 DEF GroupList
        <4>3. DOMAIN <<Expr>> = {1} /\ <<Expr>>[1] = Expr
          BY OneMember
        <4>4. L[i] = Expr
          BY <3>1, <4>2, <4>3
        <4> QED BY <3>1, <4>4, MemberKinds
      <3>3. L = [k \in Attaching(l) |-> GroupMember((<<"g1", "g2">>)[k], style)]
        BY <1>5, <3>2 DEF GroupList
      <3>4. style # "literal group"
        <4>1. SUFFICES ASSUME style = "literal group" PROVE FALSE
          OBVIOUS
        <4>2. L[i] = Literal((<<"g1", "g2">>)[i])
          BY <3>1, <3>3, <4>1 DEF GroupMember
        <4> QED BY <3>1, <4>2, MemberKinds
      <3> DEFINE g == (<<"g1", "g2">>)[j]
      <3>5. L[j] = Ref(g)
        BY <3>3, <3>4 DEF GroupMember
      <3>6. g \in {"g1", "g2"}
        BY <3>3, AttachingIs
      <3> HIDE DEF g
      <3>7. Group(l, g, style) \in BlocksOf(l, style)
        BY <3>6 DEF BlocksOf
      <3>8. /\ Group(l, g, style).type = "aws_security_group"
            /\ Group(l, g, style).address = g
        BY GroupType
      <3>9. "aws_security_group" \in SupportedTypes
        BY DEF SupportedTypes, SecurityAttributes
      <3>10. TargetType(n) = "aws_security_group"
        BY <1>5, TargetTypeGroups DEF Listed
      <3> QED BY <1>2, <3>5, <3>7, <3>8, <3>9, <3>10
    <2>2. DOMAIN named \in {{}, DOMAIN L}
      BY <1>1, <2>1
    <2> QED BY <1>1, <1>5, <2>2 DEF L
  <1>6. CASE Single
    <2>1. DOMAIN L = {1}
      BY <1>4, <1>6
    <2>2. DOMAIN named \in {{}, DOMAIN L}
      BY <1>1, <2>1
    <2> QED BY <1>1, <1>6, <2>1, <2>2 DEF L
  <1> QED BY <1>3, <1>5, <1>6

LEMMA LinkResult ==
    ASSUME NEW rs, NEW r, NEW n, NEW named, NEW L,
           n \in Listed \/ DOMAIN L = {1},
           DOMAIN named \in {{}, DOMAIN L},
           \A i \in DOMAIN named : named[i] = L[i][2] /\ L[i][1] = "ref",
           DOMAIN named = {} =>
              /\ Has(r, n) /\ DOMAIN r.attrs[n] = DOMAIN L
              /\ \A i \in DOMAIN L :
                    /\ MayRead(r.attrs[n][i], L[i])
                    /\ MayRead(Resolved(rs, n, r.attrs[n][i]), L[i])
    PROVE  /\ DOMAIN LinkAttribute(rs, r, n, named) = DOMAIN L
           /\ \A i \in DOMAIN L :
                 MayRead(LinkAttribute(rs, r, n, named)[i], L[i])
  <1> DEFINE q == LinkAttribute(rs, r, n, named)
             values == IF Has(r, n) THEN r.attrs[n] ELSE <<>>
             linked == IF DOMAIN named # {}
                       THEN [i \in DOMAIN named |-> Ref(named[i])]
                       ELSE Resolve(rs, n, values)
             found == {i \in DOMAIN linked : linked[i][1] = "ref"}
  <1>1. q = IF found = {} THEN values
            ELSE IF n \in Listed THEN linked ELSE <<linked[Min(found)]>>
    BY DEF LinkAttribute
  <1>2. DOMAIN linked = DOMAIN L /\ \A i \in DOMAIN L : MayRead(linked[i], L[i])
    <2>1. CASE DOMAIN named # {}
      <3>1. DOMAIN linked = DOMAIN L
        BY <2>1
      <3>2. ASSUME NEW i \in DOMAIN L PROVE MayRead(linked[i], L[i])
        <4>1. linked[i] = Ref(L[i][2]) /\ L[i][1] = "ref"
          BY <2>1
        <4> QED BY <4>1 DEF MayRead
      <3> QED BY <3>1, <3>2
    <2>2. CASE DOMAIN named = {}
      <3>1. linked = Resolve(rs, n, r.attrs[n])
        BY <2>2
      <3>2. linked = [i \in DOMAIN r.attrs[n] |-> Resolved(rs, n, r.attrs[n][i])]
        BY <3>1 DEF Resolve, Resolved
      <3> HIDE DEF linked
      <3> QED BY <2>2, <3>2
    <2> QED BY <2>1, <2>2
  <1>3. CASE found = {}
    <2>1. DOMAIN named = {}
      <3>1. SUFFICES ASSUME DOMAIN named # {} PROVE FALSE
        OBVIOUS
      <3>2. PICK i \in DOMAIN named : TRUE
        BY <3>1
      <3>3. linked[i] = Ref(named[i]) /\ i \in DOMAIN linked
        BY <3>1
      <3> HIDE DEF linked
      <3> QED BY <1>3, <3>3, MemberKinds
    <2>2. values = r.attrs[n]
      BY <2>1
    <2> HIDE DEF found, linked, q, values
    <2>3. q = r.attrs[n]
      BY <1>1, <1>3, <2>2
    <2> QED BY <2>1, <2>3 DEF q
  <1>4. CASE found # {} /\ n \in Listed
    <2> HIDE DEF found, linked, q, values
    <2>1. q = linked
      BY <1>1, <1>4
    <2> QED BY <1>2, <2>1 DEF q
  <1>5. CASE found # {} /\ n \notin Listed
    <2>1. DOMAIN L = {1}
      BY <1>5
    <2>2. found \subseteq {1}
      <3> HIDE DEF linked
      <3> QED BY <1>2, <2>1
    <2> HIDE DEF found, linked, q, values
    <2>3. found = {1}
      BY <1>5, <2>2
    <2>4. Min(found) = 1
      BY <2>3 DEF Min
    <2>5. q = <<linked[1]>>
      BY <1>1, <1>5, <2>4
    <2>6. DOMAIN q = {1} /\ q[1] = linked[1]
      BY <2>5, OneMember
    <2> QED BY <1>2, <2>1, <2>6 DEF q
  <1> QED BY <1>3, <1>4, <1>5

-----------------------------------------------------------------------------
(* A resource of a plan, once it is linked.                                *)
LEMMA RelinkFields ==
    ASSUME NEW rs, NEW references, NEW x, NEW fresh, NEW style, NEW e,
           e = Entry(x, fresh, style), NEW r, r = Relink(rs, references, e)
    PROVE  /\ r.type = x.type /\ r.address = x.address
           /\ \A n : n \notin LinkAttributes(x.type) =>
                 /\ Has(r, n) <=> Has(e, n)
                 /\ Has(e, n) /\ n # "policy" => r.attrs[n] = e.attrs[n]
                 /\ Has(e, n) /\ n = "policy" /\ x.type \in PolicyTypes =>
                       r.attrs[n] = LinkPolicy(rs, e.attrs[n])
           /\ \A n \in LinkAttributes(x.type) :
                 LET named == Named(references, e, n)
                 IN  /\ Has(r, n) <=> Has(e, n) \/ DOMAIN named # {}
                     /\ Has(r, n) =>
                           r.attrs[n] = LinkAttribute(rs, e, n, named)
  <1> DEFINE named(n) == Named(references, e, n)
             links(n) == LinkAttribute(rs, e, n, named(n))
             document(n) == LinkPolicy(rs, e.attrs[n])
             linked == {n \in LinkAttributes(e.type) :
                           Has(e, n) \/ DOMAIN named(n) # {}}
             value(n) ==
               IF n \in linked THEN links(n)
               ELSE IF n = "policy" /\ e.type \in PolicyTypes THEN document(n)
               ELSE e.attrs[n]
             attrs == [n \in DOMAIN e.attrs \cup linked |-> value(n)]
  <1>1. r = [e EXCEPT !.attrs = attrs]
    BY DEF Relink
  <1>2. /\ e.type = x.type /\ e.address = x.address
        /\ e = [type |-> e.type, address |-> e.address, mode |-> e.mode,
                place |-> e.place, attrs |-> e.attrs]
    BY DEF Entry
  <1> HIDE DEF named, links, document
  <1>3. \A n : /\ n \in DOMAIN attrs <=> n \in DOMAIN e.attrs \cup linked
               /\ n \in DOMAIN attrs => attrs[n] = value(n)
    OBVIOUS
  <1>4. /\ \A n \in linked : value(n) = links(n)
        /\ \A n : n \notin linked /\ ~(n = "policy" /\ e.type \in PolicyTypes)
                  => value(n) = e.attrs[n]
        /\ \A n : n \notin linked /\ n = "policy" /\ e.type \in PolicyTypes
                  => value(n) = document(n)
    OBVIOUS
  <1>5. \A n : n \in linked <=> /\ n \in LinkAttributes(e.type)
                                /\ Has(e, n) \/ DOMAIN named(n) # {}
    OBVIOUS
  <1> HIDE DEF attrs, linked, value
  <1>6. r.type = e.type /\ r.address = e.address /\ r.attrs = attrs
    BY <1>1, <1>2
  <1>7. ASSUME NEW n, n \notin LinkAttributes(x.type)
        PROVE  /\ Has(r, n) <=> Has(e, n)
               /\ Has(e, n) /\ n # "policy" => r.attrs[n] = e.attrs[n]
               /\ Has(e, n) /\ n = "policy" /\ x.type \in PolicyTypes =>
                     r.attrs[n] = document(n)
    BY <1>2, <1>3, <1>4, <1>5, <1>6, <1>7 DEF Has
  <1>8. ASSUME NEW n \in LinkAttributes(x.type)
        PROVE  /\ Has(r, n) <=> Has(e, n) \/ DOMAIN named(n) # {}
               /\ Has(r, n) => r.attrs[n] = links(n)
    BY <1>2, <1>3, <1>4, <1>5, <1>6 DEF Has
  <1> QED BY <1>2, <1>6, <1>7, <1>8 DEF document, links, named

LEMMA ShownDomain ==
    ASSUME NEW list, NEW n, NEW style
    PROVE  /\ DOMAIN Shown(list, n, style) = DOMAIN list
           /\ \A i \in DOMAIN list :
                 Shown(list, n, style)[i] = ShownOf(list[i], n, style)
  BY DEF Shown, ShownOf

LEMMA LinkNamesAre ==
    ASSUME NEW type \in SupportedTypes
    PROVE  /\ LinkAttributes(type) \subseteq LinkNameSet
           /\ (PlainNames \cup {"ingress", "policy"}) \cap LinkAttributes(type)
                 = {}
  <1>1. LinkAttributes(type) \subseteq LinkNameSet
    BY LinkNames DEF LinkNameSet, SupportedTypes, SecurityAttributes
  <1>2. (PlainNames \cup {"ingress", "policy"}) \cap LinkNameSet = {}
    BY DEF PlainNames, LinkNameSet
  <1> QED BY <1>1, <1>2

FullReferences(l, style) == ReferencesOf(Supported(Blocks(l, style)))

(* What the links of a side of a plan are recovered from.                  *)
Linkable(l, style, fresh, references, rs) ==
    /\ Shows(rs, l, fresh, style) /\ BothGroups(rs, style)
    /\ Sharing(style) => fresh = {}
    /\ references \in {<<>>, FullReferences(l, style)}
    /\ \/ fresh = {}
       \/ /\ references = FullReferences(l, style)
          /\ \A y \in BlocksOf(l, style) : y.type \in SupportedTypes =>
                \A n \in LinkAttributes(y.type) \cap DOMAIN y.attrs :
                   References(y, n) \cap fresh # {} =>
                      DOMAIN Named(references, y, n) # {}

LEMMA NamedByAddress ==
    ASSUME NEW references, NEW r, NEW x, r.address = x.address, NEW n
    PROVE  Named(references, r, n) = Named(references, x, n)
  BY DEF Named

LEMMA NoReferences ==
    ASSUME NEW r, NEW n
    PROVE  DOMAIN Named(<<>>, r, n) = {}
  <1>1. r.address \notin DOMAIN <<>>
    OBVIOUS
  <1>2. Named(<<>>, r, n) = <<>>
    BY <1>1 DEF Named
  <1>3. DOMAIN <<>> = {}
    OBVIOUS
  <1> QED BY <1>2, <1>3

LEMMA LinksRead ==
    ASSUME NEW l \in Landscapes, NEW style, Plannable(style), NEW fresh,
           NEW references, NEW rs, Linkable(l, style, fresh, references, rs),
           NEW x \in BlocksOf(l, style), x.type \in SupportedTypes,
           NEW n \in LinkAttributes(x.type)
    PROVE  ReadsLink(Relink(rs, references, Entry(x, fresh, style)), x, n)
  <1> DEFINE e == Entry(x, fresh, style)
             r == Relink(rs, references, e)
             named == Named(references, e, n)
             full == FullReferences(l, style)
             v == Values(x, fresh, style)
             L == x.attrs[n]
  <1>1. /\ e.address = x.address /\ e.attrs = v
    BY EntryFields
  <1>2. /\ r.type = x.type
        /\ Has(r, n) <=> Has(e, n) \/ DOMAIN named # {}
        /\ Has(r, n) => r.attrs[n] = LinkAttribute(rs, e, n, named)
    BY RelinkFields
  <1>3. n \in LinkNameSet /\ n \notin Computed /\ n \notin {"ingress", "policy"}
    BY LinkNamesAre DEF LinkNameSet, Computed
  <1>4. /\ Has(e, n) <=> n \in DOMAIN x.attrs /\ n \notin UnknownOf(x, fresh)
        /\ Has(e, n) => e.attrs[n] = Shown(L, n, style)
    BY <1>1, <1>3, ValuesAre DEF Has
  <1>5. references \in {<<>>, full}
    BY DEF Linkable
  <1>6. CASE n \notin DOMAIN x.attrs
    <2>1. DOMAIN named = {}
      <3>1. CASE references = <<>>
        BY <3>1, NoReferences
      <3>2. CASE references = full
        <4>1. NamedIs(l, style, x, n, named)
          BY <1>1, <3>2, NamedAre DEF FullReferences
        <4> QED BY <1>6, <4>1 DEF NamedIs
      <3> QED BY <1>5, <3>1, <3>2
    <2>2. ~Has(r, n) /\ ~Has(x, n)
      BY <1>2, <1>4, <1>6, <2>1 DEF Has
    <2> HIDE DEF r
    <2> QED BY <2>2, NoLink DEF r
  <1>7. CASE n \in DOMAIN x.attrs
    <2> DEFINE all == Named(full, e, n)
    <2>1. /\ DOMAIN all \in {{}, DOMAIN L}
          /\ \A i \in DOMAIN all : all[i] = L[i][2] /\ L[i][1] = "ref"
          /\ n \notin Listed => DOMAIN L = {1}
      BY <1>1, <1>7, NamedFull DEF FullReferences
    <2>2. /\ DOMAIN named \in {{}, DOMAIN L}
          /\ \A i \in DOMAIN named : named[i] = L[i][2] /\ L[i][1] = "ref"
      <3>1. CASE references = full
        BY <2>1, <3>1
      <3>2. CASE references = <<>>
        BY <3>2, NoReferences
      <3> QED BY <1>5, <3>1, <3>2
    <2>3. DOMAIN named = {} => n \notin UnknownOf(x, fresh)
      <3>1. n \in UnknownOf(x, fresh) => References(x, n) \cap fresh # {}
        BY <1>3 DEF UnknownOf
      <3>2. CASE fresh = {}
        BY <3>1, <3>2
      <3>3. CASE fresh # {}
        <4>1. References(x, n) \cap fresh # {} =>
                 DOMAIN Named(references, x, n) # {}
          BY <1>7, <3>3 DEF Linkable
        <4>2. named = Named(references, x, n)
          BY <1>1, NamedByAddress
        <4> QED BY <3>1, <4>1, <4>2
      <3> QED BY <3>2, <3>3
    <2>4. ASSUME NEW i \in DOMAIN L
          PROVE  /\ MayRead(ShownOf(L[i], n, style), L[i])
                 /\ MayRead(Resolved(rs, n, ShownOf(L[i], n, style)), L[i])
      <3>1. LinkMember(L[i])
        BY <1>7, LinkMembers
      <3>2. Shows(rs, l, fresh, style) /\ BothGroups(rs, style)
            /\ (Sharing(style) => fresh = {})
        BY DEF Linkable
      <3> HIDE DEF L
      <3> QED BY <1>3, <3>1, <3>2, ShownReads, ResolvedReads
    <2>5. DOMAIN named = {} =>
             /\ Has(e, n) /\ DOMAIN e.attrs[n] = DOMAIN L
             /\ \A i \in DOMAIN L :
                   /\ MayRead(e.attrs[n][i], L[i])
                   /\ MayRead(Resolved(rs, n, e.attrs[n][i]), L[i])
      <3>1. SUFFICES ASSUME DOMAIN named = {}
                     PROVE  /\ Has(e, n) /\ DOMAIN e.attrs[n] = DOMAIN L
                            /\ \A i \in DOMAIN L :
                                  /\ MayRead(e.attrs[n][i], L[i])
                                  /\ MayRead(Resolved(rs, n, e.attrs[n][i]),
                                             L[i])
        OBVIOUS
      <3>2. Has(e, n) /\ e.attrs[n] = Shown(L, n, style)
        BY <1>4, <1>7, <2>3, <3>1
      <3> HIDE DEF e, L, named
      <3>3. /\ DOMAIN e.attrs[n] = DOMAIN L
            /\ \A i \in DOMAIN L : e.attrs[n][i] = ShownOf(L[i], n, style)
        BY <3>2, ShownDomain
      <3> QED BY <2>4, <3>2, <3>3
    <2> HIDE DEF e, L, named
    <2>6. /\ DOMAIN LinkAttribute(rs, e, n, named) = DOMAIN L
          /\ \A i \in DOMAIN L :
                MayRead(LinkAttribute(rs, e, n, named)[i], L[i])
      BY <2>1, <2>2, <2>5, LinkResult
    <2> HIDE DEF r
    <2>7. Has(r, n) /\ r.attrs[n] = LinkAttribute(rs, e, n, named)
      BY <1>2, <2>5
    <2>8. Has(x, n)
      BY <1>7 DEF Has
    <2>9. /\ DOMAIN r.attrs[n] = DOMAIN x.attrs[n]
          /\ \A i \in DOMAIN x.attrs[n] : MayRead(r.attrs[n][i], x.attrs[n][i])
      BY <2>6, <2>7 DEF L
    <2>10. ReadsLink(r, x, n)
      BY <1>2, <2>7, <2>8, <2>9, ListLink
    <2> QED BY <2>10 DEF r, e
  <1> QED BY <1>6, <1>7

-----------------------------------------------------------------------------
(* The rest of a resource.                                                 *)
PlainMember(x, n) == \A m \in Members(x, n) : m[1] # "ref"

LEMMA NoMembers ==
    ASSUME NEW l, NEW style, NEW x \in BlocksOf(l, style),
           x.type \in SupportedTypes, NEW n, n \notin NamesOf(x.type)
    PROVE  Members(x, n) = {}
  BY BlockNames DEF Members, Has

LEMMA BucketPlain ==
    ASSUME NEW l, NEW b, NEW style, NEW n \in {"acl", "tags", "bucket"}
    PROVE  PlainMember(Bucket(l, b, style), n)
  <1> DEFINE B == Bucket(l, b, style)
  <1>1. \A m \in Members(B, "acl") : \E a : m = Literal(a)
    <2>1. Members(B, "acl") = AclMembers(l, b, style)
      BY BucketAcl
    <2> QED BY <2>1 DEF AclMembers
  <1>2. \A m \in Members(B, "tags") : m = Expr \/ \E a : m = Literal(a)
    <2>1. Members(B, "tags") = TagMembers(l, b, style)
      BY BucketAcl
    <2> QED BY <2>1 DEF TagMembers
  <1>3. \A m \in Members(B, "bucket") : \E a : m = Literal(a)
    BY BucketOwn
  <1>4. \A m \in Members(B, n) : m = Expr \/ \E a : m = Literal(a)
    BY <1>1, <1>2, <1>3
  <1> HIDE DEF B
  <1>5. \A m \in Members(B, n) : m[1] # "ref"
    BY <1>4, MemberKinds
  <1> QED BY <1>5 DEF B, PlainMember

LEMMA AclPlain ==
    ASSUME NEW style PROVE PlainMember(AclBlock(style), "acl")
  <1>1. \A m \in Members(AclBlock(style), "acl") :
           m = Expr \/ \E a : m = Literal(a)
    BY AclAttrs
  <1> QED BY <1>1, MemberKinds DEF PlainMember

LEMMA ControlPlain ==
    ASSUME NEW a, NEW style, NEW n \in Flags
    PROVE  PlainMember(ControlBlock(a, style), n)
  <1>1. Members(ControlBlock(a, style), n) = {FlagOf(style)}
    BY ControlAttrs
  <1>2. FlagOf(style)[1] # "ref"
    BY MemberKinds DEF FlagOf
  <1> QED BY <1>1, <1>2 DEF PlainMember

IsPlain(n, x) ==
    \/ n \in PlainNames
    \/ n = "bucket" /\ x.type = "aws_s3_bucket"

LEMMA PlainMembers ==
    ASSUME NEW l, NEW style, NEW x \in BlocksOf(l, style),
           x.type \in SupportedTypes, NEW n, IsPlain(n, x)
    PROVE  PlainMember(x, n)
  <1>1. CASE x.type = "aws_s3_bucket" /\ n \in {"acl", "tags", "bucket"}
    <2>1. \E b \in Buckets : x = Bucket(l, b, style)
      BY <1>1, BlockKinds
    <2> QED BY <1>1, <2>1, BucketPlain
  <1>2. CASE x.type = "aws_s3_bucket_acl" /\ n = "acl"
    <2>1. x = AclBlock(style)
      BY <1>2, BlockKinds
    <2> QED BY <1>2, <2>1, AclPlain
  <1>3. CASE x.type = "aws_s3_bucket_public_access_block" /\ n \in Flags
    <2>1. \E a \in {"pb1", "pb2"} : x = ControlBlock(a, style)
      BY <1>3, BlockKinds
    <2> QED BY <1>3, <2>1, ControlPlain
  <1>4. CASE n \notin NamesOf(x.type)
    BY <1>4, NoMembers DEF PlainMember
  <1>5. \/ n \notin NamesOf(x.type)
        \/ x.type = "aws_s3_bucket" /\ n \in {"acl", "tags", "bucket"}
        \/ x.type = "aws_s3_bucket_acl" /\ n = "acl"
        \/ x.type = "aws_s3_bucket_public_access_block" /\ n \in Flags
    BY DEF NamesOf, IsPlain, PlainNames, Flags, SupportedTypes,
           SecurityAttributes
  <1> QED BY <1>1, <1>2, <1>3, <1>4, <1>5

LEMMA PlainRead ==
    ASSUME NEW rs, NEW references, NEW x, NEW fresh, NEW style, NEW n,
           n \notin LinkAttributes(x.type), n \notin Computed,
           n \notin {"ingress", "policy"}, PlainMember(x, n)
    PROVE  Members(Relink(rs, references, Entry(x, fresh, style)), n)
              = Members(x, n)
  <1> DEFINE e == Entry(x, fresh, style)
             r == Relink(rs, references, e)
  <1>1. e.attrs = Values(x, fresh, style)
    BY EntryFields
  <1>2. /\ Has(r, n) <=> Has(e, n)
        /\ Has(e, n) => r.attrs[n] = e.attrs[n]
    BY RelinkFields
  <1>3. n \in UnknownOf(x, fresh) => References(x, n) \cap fresh # {}
    BY DEF UnknownOf
  <1>4. References(x, n) = {}
    BY DEF References, Addresses, PlainMember
  <1>5. /\ Has(e, n) <=> Has(x, n)
        /\ Has(e, n) => e.attrs[n] = Shown(x.attrs[n], n, style)
    BY <1>1, <1>3, <1>4, ValuesAre DEF Has
  <1> HIDE DEF e, r
  <1>6. CASE Has(x, n)
    <2>1. Members(x, n) = Range(x.attrs[n])
      BY <1>6 DEF Members
    <2>2. Members(r, n) = Range(Shown(x.attrs[n], n, style))
      BY <1>2, <1>5, <1>6 DEF Members
    <2>3. Range(Shown(x.attrs[n], n, style)) = Range(x.attrs[n])
      BY <2>1, ShownPlain DEF PlainMember
    <2> QED BY <2>1, <2>2, <2>3 DEF e, r
  <1>7. CASE ~Has(x, n)
    BY <1>2, <1>5, <1>7 DEF Members, e, r
  <1> QED BY <1>6, <1>7

LEMMA RulesRead ==
    ASSUME NEW rs, NEW references, NEW x, NEW fresh, NEW style,
           "ingress" \notin LinkAttributes(x.type)
    PROVE  Rules(Relink(rs, references, Entry(x, fresh, style))) = Rules(x)
  <1> DEFINE e == Entry(x, fresh, style)
             r == Relink(rs, references, e)
             n == "ingress"
  <1>1. e.attrs = Values(x, fresh, style)
    BY EntryFields
  <1>2. /\ Has(r, n) <=> Has(e, n)
        /\ Has(e, n) => r.attrs[n] = e.attrs[n]
    BY RelinkFields
  <1>3. n \notin UnknownOf(x, fresh)
    BY DEF UnknownOf
  <1>4. n \notin Computed
    BY DEF Computed
  <1>5. /\ Has(e, n) <=> Has(x, n)
        /\ Has(e, n) => e.attrs[n] = x.attrs[n]
    BY <1>1, <1>3, <1>4, ValuesAre DEF Has
  <1> HIDE DEF e, r, n
  <1>6. (IF Has(r, n) THEN r.attrs[n] ELSE {})
           = (IF Has(x, n) THEN x.attrs[n] ELSE {})
    BY <1>2, <1>5
  <1> QED BY <1>6 DEF Rules, n, e, r

-----------------------------------------------------------------------------
(* Policy documents.                                                       *)
IsStatement(s) ==
    s = [effect |-> s.effect, actions |-> s.actions,
         resources |-> s.resources, principal |-> s.principal,
         condition |-> s.condition]
IsDocument(d) ==
    /\ d = [kind |-> d.kind, statements |-> d.statements]
    /\ \A s \in d.statements : IsStatement(s)

WithResources(s, X) == [s EXCEPT !.resources = X]

LEMMA ResourcesChanged ==
    ASSUME NEW s, IsStatement(s), NEW X
    PROVE  /\ IsStatement(WithResources(s, X))
           /\ WithResources(s, X).resources = X
           /\ WithResources(s, X).effect = s.effect
           /\ WithResources(s, X).actions = s.actions
           /\ WithResources(s, X).principal = s.principal
           /\ WithResources(s, X).condition = s.condition
  <1> DEFINE t == WithResources(s, X)
  <1>1. t = [effect |-> s.effect, actions |-> s.actions, resources |-> X,
             principal |-> s.principal, condition |-> s.condition]
    BY DEF WithResources, IsStatement
  <1> HIDE DEF t
  <1>2. /\ t.resources = X /\ t.effect = s.effect /\ t.actions = s.actions
        /\ t.principal = s.principal /\ t.condition = s.condition
    BY <1>1
  <1>3. IsStatement(t)
    BY <1>1, <1>2 DEF IsStatement
  <1> QED BY <1>2, <1>3 DEF t

ArnOf(p) == CASE p[1] = "bucket" -> <<"bucket arn", p[2]>>
              [] p[1] = "objects" -> <<"objects arn", p[2]>>
              [] OTHER -> p
LinkedArn(buckets, p) == LinkArn(buckets, ArnOf(p))
LinkedResources(buckets, X) == {LinkedArn(buckets, p) : p \in X}

LEMMA DocumentLinked ==
    ASSUME NEW rs, NEW d, IsDocument(d)
    PROVE  LET buckets == OfType(rs, "aws_s3_bucket")
               q == LinkPolicy(rs, ArnsOf(d))
           IN  /\ q.kind = d.kind
               /\ q.statements =
                     {WithResources(s, LinkedResources(buckets, s.resources)) :
                         s \in d.statements}
  <1> DEFINE buckets == OfType(rs, "aws_s3_bucket")
             shown(s) == WithResources(s, {ArnOf(p) : p \in s.resources})
             link(s) == WithResources(s, {LinkArn(buckets, p) : p \in s.resources})
             a == ArnsOf(d)
             q == LinkPolicy(rs, a)
             S == d.statements
  <1>1. a = [d EXCEPT !.statements = {shown(s) : s \in S}]
    BY DEF ArnsOf, ArnOf, WithResources
  <1>2. q = [a EXCEPT !.statements = {link(s) : s \in a.statements}]
    BY DEF LinkPolicy, WithResources
  <1>3. d = [kind |-> d.kind, statements |-> S]
    BY DEF IsDocument
  <1> HIDE DEF shown, link, a, q, S
  <1>4. a = [kind |-> d.kind, statements |-> {shown(s) : s \in S}]
    BY <1>1, <1>3
  <1>5. q = [kind |-> d.kind,
             statements |-> {link(t) : t \in {shown(s) : s \in S}}]
    BY <1>2, <1>4
  <1>6. ASSUME NEW s \in S
        PROVE  link(shown(s))
                 = WithResources(s, LinkedResources(buckets, s.resources))
    <2>1. IsStatement(s)
      BY DEF IsDocument, S
    <2> DEFINE X == {ArnOf(p) : p \in s.resources}
               t == shown(s)
               Y == {LinkArn(buckets, p) : p \in X}
    <2>2. t = WithResources(s, X)
      BY DEF shown
    <2> HIDE DEF t, X
    <2>3. t.resources = X
      BY <2>1, <2>2, ResourcesChanged
    <2>4. link(t) = WithResources(t, Y)
      BY <2>3 DEF link
    <2> HIDE DEF Y
    <2>5. WithResources(t, Y) = WithResources(s, Y)
      BY <2>1, <2>2 DEF WithResources, IsStatement
    <2>6. Y = LinkedResources(buckets, s.resources)
      BY DEF Y, X, LinkedResources, LinkedArn
    <2> QED BY <2>4, <2>5, <2>6 DEF t
  <1>7. {link(t) : t \in {shown(s) : s \in S}}
          = {WithResources(s, LinkedResources(buckets, s.resources)) : s \in S}
    BY <1>6
  <1> QED BY <1>5, <1>7 DEF q, a, S

(* A name in an ARN is that of the bucket it links to.                     *)
LEMMA ArnOwner ==
    ASSUME NEW l, NEW style, NEW x \in BlocksOf(l, style), NEW fresh,
           x.type \in SupportedTypes, NEW a,
           Literal(a) \in Members(Entry(x, fresh, style), "arn")
    PROVE  x.address = a
  <1> DEFINE v == Values(x, fresh, style)
             n == "arn"
             e == Entry(x, fresh, style)
             one == <<Literal(x.address)>>
  <1>1. n \in Computed /\ n \notin DOMAIN x.attrs
    BY NoComputed DEF Computed
  <1>2. n \in DOMAIN v => v[n] = <<Identity(n, x.address, style)>>
    BY <1>1, ComputedAre
  <1>3. Identity(n, x.address, style) = Literal(x.address)
    BY DEF Identity
  <1>4. n \in DOMAIN v => v[n] = one
    BY <1>2, <1>3
  <1>5. Range(one) = {Literal(x.address)}
    BY ShortLists
  <1>6. e.attrs = v
    BY EntryFields
  <1>7. Literal(a) \in Members(e, n)
    OBVIOUS
  <1> HIDE DEF v, one, n, e
  <1>8. Literal(a) = Literal(x.address)
    BY <1>4, <1>5, <1>6, <1>7 DEF Members, Has
  <1> QED BY <1>8, MemberKinds

LEMMA ArnRead ==
    ASSUME NEW l, NEW style, NEW fresh, NEW rs, Shows(rs, l, fresh, style),
           NEW p
    PROVE  SamePattern(LinkedArn(OfType(rs, "aws_s3_bucket"), p), p)
  <1> DEFINE buckets == OfType(rs, "aws_s3_bucket")
             a == ArnOf(p)
             owners == {b \in buckets : Literal(a[2]) \in Members(b, "arn")}
             kind == IF a[1] = "bucket arn" THEN "bucket" ELSE "objects"
             q == LinkedArn(buckets, p)
             owner == CHOOSE b \in owners : TRUE
  <1>1. q = IF a[1] \in {"bucket arn", "objects arn"} /\ owners # {}
            THEN <<kind, owner.address>> ELSE a
    BY DEF LinkedArn, LinkArn
  <1>2. owners # {} => owner.address = a[2]
    <2>1. ASSUME NEW b \in owners PROVE b.address = a[2]
      <3>1. b \in rs
        BY DEF OfType
      <3>2. PICK x \in BlocksOf(l, style) :
               x.type \in SupportedTypes /\ b = Entry(x, fresh, style)
        BY <3>1 DEF Shows
      <3>3. Literal(a[2]) \in Members(Entry(x, fresh, style), "arn")
        BY <3>2
      <3> HIDE DEF a
      <3>4. x.address = a[2]
        BY <3>2, <3>3, ArnOwner
      <3> QED BY <3>2, <3>4, EntryFields
    <2> HIDE DEF owners, a
    <2> QED BY <2>1
  <1> HIDE DEF owners, owner, q, kind
  <1>3. CASE p[1] = "bucket"
    <2>1. a = <<"bucket arn", p[2]>>
      BY <1>3 DEF ArnOf
    <2> HIDE DEF a
    <2>2. a[1] = "bucket arn" /\ a[2] = p[2]
      BY <2>1
    <2>3. q \in {<<"bucket", p[2]>>, <<"bucket arn", p[2]>>}
      BY <1>1, <1>2, <2>1, <2>2 DEF kind
    <2>4. SamePattern(q, p)
      BY <1>3, <2>3 DEF SamePattern
    <2> QED BY <2>4 DEF q
  <1>4. CASE p[1] = "objects"
    <2>1. a = <<"objects arn", p[2]>>
      BY <1>4 DEF ArnOf
    <2> HIDE DEF a
    <2>2. a[1] = "objects arn" /\ a[2] = p[2]
      BY <2>1
    <2>3. q \in {<<"objects", p[2]>>, <<"objects arn", p[2]>>}
      BY <1>1, <1>2, <2>1, <2>2 DEF kind
    <2>4. SamePattern(q, p)
      BY <1>4, <2>3 DEF SamePattern
    <2> QED BY <2>4 DEF q
  <1>5. CASE p[1] \notin {"bucket", "objects"}
    <2>1. a = p
      BY <1>5 DEF ArnOf
    <2> HIDE DEF a
    <2>2. CASE p[1] = "bucket arn"
      <3>1. q \in {<<"bucket", p[2]>>, p}
        BY <1>1, <1>2, <2>1, <2>2 DEF kind
      <3>2. SamePattern(q, p)
        BY <2>2, <3>1 DEF SamePattern
      <3> QED BY <3>2 DEF q
    <2>3. CASE p[1] = "objects arn"
      <3>1. q \in {<<"objects", p[2]>>, p}
        BY <1>1, <1>2, <2>1, <2>3 DEF kind
      <3>2. SamePattern(q, p)
        BY <2>3, <3>1 DEF SamePattern
      <3> QED BY <3>2 DEF q
    <2>4. CASE p[1] \notin {"bucket arn", "objects arn"}
      <3>1. q = p
        BY <1>1, <2>1, <2>4
      <3>2. SamePattern(q, p)
        BY <3>1 DEF SamePattern
      <3> QED BY <3>2 DEF q
    <2> QED BY <2>2, <2>3, <2>4
  <1> QED BY <1>3, <1>4, <1>5

LEMMA PolicyRead ==
    ASSUME NEW l, NEW style, NEW fresh, NEW rs, Shows(rs, l, fresh, style),
           NEW d, IsDocument(d)
    PROVE  SamePolicy(LinkPolicy(rs, ArnsOf(d)), d)
  <1> DEFINE buckets == OfType(rs, "aws_s3_bucket")
             q == LinkPolicy(rs, ArnsOf(d))
             of(s) == WithResources(s, LinkedResources(buckets, s.resources))
  <1>1. /\ q.kind = d.kind
        /\ q.statements = {of(s) : s \in d.statements}
    BY DocumentLinked
  <1>2. ASSUME NEW s \in d.statements PROVE SameStatement(of(s), s)
    <2> DEFINE t == of(s)
               X == LinkedResources(buckets, s.resources)
    <2>1. IsStatement(s)
      BY DEF IsDocument
    <2>a. t = WithResources(s, X)
      OBVIOUS
    <2> HIDE DEF X, t
    <2>2. /\ t.resources = X /\ t.effect = s.effect /\ t.actions = s.actions
          /\ t.principal = s.principal /\ t.condition = s.condition
      BY <2>1, <2>a, ResourcesChanged
    <2> HIDE DEF buckets
    <2>3. X = {LinkedArn(buckets, p) : p \in s.resources}
      BY DEF X, LinkedResources
    <2>4. \A p \in s.resources : SamePattern(LinkedArn(buckets, p), p)
      BY ArnRead DEF buckets
    <2>5. SameStatement(t, s)
      BY <2>2, <2>3, <2>4 DEF SameStatement
    <2> QED BY <2>5 DEF t, X, buckets
  <1> HIDE DEF q, of
  <1>3. SamePolicy(q, d)
    BY <1>1, <1>2 DEF SamePolicy
  <1> QED BY <1>3 DEF q

LEMMA Documents ==
    ASSUME NEW l, NEW style
    PROVE  /\ IsDocument(RolePolicy(l, style))
           /\ IsDocument(PublicPolicy(style))
  <1> DEFINE gr == Grant(l, style)
             deny == [gr EXCEPT !.effect = "Deny"]
             none == [gr EXCEPT !.resources = {<<"bucket arn", "elsewhere">>}]
             d == RolePolicy(l, style)
  <1>1. IsStatement(gr)
    BY DEF Grant, IsStatement
  <1>2. /\ d = [kind |-> d.kind, statements |-> d.statements]
        /\ \A s \in d.statements : s \in {gr, deny, none}
    BY DEF RolePolicy
  <1> HIDE DEF gr, d
  <1>3. IsStatement(deny)
    <2>1. deny = [effect |-> "Deny", actions |-> gr.actions,
                  resources |-> gr.resources, principal |-> gr.principal,
                  condition |-> gr.condition]
      BY <1>1 DEF IsStatement
    <2> HIDE DEF deny
    <2> QED BY <2>1 DEF IsStatement
  <1>4. IsStatement(none)
    <2> DEFINE X == {<<"bucket arn", "elsewhere">>}
    <2> HIDE DEF X
    <2>1. IsStatement(WithResources(gr, X))
      BY <1>1, ResourcesChanged
    <2> QED BY <2>1 DEF WithResources, X
  <1>5. IsDocument(d)
    <2> HIDE DEF deny, none
    <2> QED BY <1>1, <1>2, <1>3, <1>4 DEF IsDocument
  <1>6. IsDocument(PublicPolicy(style))
    <2> DEFINE s == [effect |-> "Allow", actions |-> {"s3:GetObject"},
                     resources |-> {Pattern("objects", "b1", style)},
                     principal |-> CASE style = "partial principal" -> "partial"
                                     [] style = "no principal" -> "absent"
                                     [] OTHER -> "*",
                     condition |-> FALSE]
    <2>1. PublicPolicy(style) = [kind |-> "json", statements |-> {s}]
      BY DEF PublicPolicy
    <2>2. IsStatement(s)
      BY DEF IsStatement
    <2> HIDE DEF s
    <2> QED BY <2>1, <2>2 DEF IsDocument
  <1> QED BY <1>5, <1>6 DEF d

LEMMA PolicyOf ==
    ASSUME NEW l, NEW style, NEW x \in BlocksOf(l, style),
           x.type \in SupportedTypes, NEW n, n = "policy", Has(x, n)
    PROVE  x.type \in PolicyTypes /\ IsDocument(x.attrs[n])
  <1>1. n \in NamesOf(x.type)
    BY BlockNames DEF Has
  <1>2. x.type \in {"aws_iam_policy", "aws_iam_role_policy",
                    "aws_s3_bucket_policy"}
    BY <1>1 DEF NamesOf
  <1>3. CASE x.type = "aws_iam_policy"
    <2>1. x = Managed(l, style)
      BY <1>3, BlockKinds
    <2>2. x.attrs[n] = RolePolicy(l, style)
      BY <2>1, RoleBlockAttrs
    <2> QED BY <1>2, <2>2, Documents DEF PolicyTypes
  <1>4. CASE x.type = "aws_iam_role_policy"
    <2>1. x = Inline(l, style)
      BY <1>4, BlockKinds
    <2>2. x.attrs[n] = RolePolicy(l, style)
      BY <2>1, RoleBlockAttrs
    <2> QED BY <1>2, <2>2, Documents DEF PolicyTypes
  <1>5. CASE x.type = "aws_s3_bucket_policy"
    <2>1. x = PolicyBlock(style)
      BY <1>5, BlockKinds
    <2>2. x.attrs[n] = PublicPolicy(style)
      BY <2>1, PolicyBlockAttrs
    <2> QED BY <1>2, <2>2, Documents DEF PolicyTypes
  <1> QED BY <1>2, <1>3, <1>4, <1>5

LEMMA EntryReads ==
    ASSUME NEW l \in Landscapes, NEW style, Plannable(style), NEW fresh,
           NEW references, NEW rs, Linkable(l, style, fresh, references, rs),
           NEW x \in BlocksOf(l, style), x.type \in SupportedTypes
    PROVE  /\ Reads(Relink(rs, references, Entry(x, fresh, style)), x)
           /\ Rules(Relink(rs, references, Entry(x, fresh, style))) = Rules(x)
  <1> DEFINE e == Entry(x, fresh, style)
             r == Relink(rs, references, e)
  <1>1. r.type = x.type /\ r.address = x.address
    BY RelinkFields
  <1>2. /\ "ingress" \notin LinkAttributes(x.type)
        /\ "policy" \notin LinkAttributes(x.type)
        /\ \A name \in PlainNames : name \notin LinkAttributes(x.type)
    BY LinkNamesAre
  <1>3. Rules(r) = Rules(x)
    BY <1>2, RulesRead
  <1>4. ASSUME NEW name \in PlainNames PROVE Members(r, name) = Members(x, name)
    <2>1. name \notin Computed /\ name \notin {"ingress", "policy"}
      BY DEF PlainNames, Computed
    <2>2. PlainMember(x, name)
      <3>1. IsPlain(name, x)
        BY <1>4, Zenon DEF IsPlain
      <3> QED BY <3>1, PlainMembers
    <2> QED BY <1>2, <2>1, <2>2, PlainRead
  <1>5. ASSUME x.type = "aws_s3_bucket"
        PROVE  Members(r, "bucket") = Members(x, "bucket")
    <2> DEFINE n == "bucket"
    <2>1. n \notin Computed /\ n \notin {"ingress", "policy"}
      BY DEF Computed
    <2>2. n \notin LinkAttributes(x.type)
      BY <1>5, LinkNames
    <2>3. PlainMember(x, n)
      BY <1>5, PlainMembers DEF IsPlain
    <2> HIDE DEF n
    <2>4. Members(r, n) = Members(x, n)
      BY <2>1, <2>2, <2>3, PlainRead
    <2> QED BY <2>4 DEF n
  <1>6. ASSUME Has(r, "policy")
        PROVE  /\ Has(x, "policy")
               /\ SamePolicy(r.attrs["policy"], x.attrs["policy"])
    <2> DEFINE n == "policy"
               d == x.attrs[n]
    <2>1. n \notin Computed
      BY DEF Computed
    <2>2. /\ Has(r, n) <=> Has(e, n)
          /\ Has(e, n) /\ x.type \in PolicyTypes =>
                r.attrs[n] = LinkPolicy(rs, e.attrs[n])
      BY <1>2, RelinkFields
    <2>3. e.attrs = Values(x, fresh, style)
      BY EntryFields
    <2>4. Has(e, n) => Has(x, n) /\ e.attrs[n] = ArnsOf(d)
      BY <2>1, <2>3, ValuesAre DEF Has
    <2>5. Has(x, n)
      BY <1>6, <2>2, <2>4
    <2>6. x.type \in PolicyTypes /\ IsDocument(d)
      BY <2>5, PolicyOf
    <2>7. Shows(rs, l, fresh, style)
      BY DEF Linkable
    <2>8. r.attrs[n] = LinkPolicy(rs, ArnsOf(d))
      BY <1>6, <2>2, <2>4, <2>6
    <2> HIDE DEF n, d, e, r
    <2>9. SamePolicy(r.attrs[n], d)
      BY <2>6, <2>7, <2>8, PolicyRead
    <2> QED BY <2>5, <2>9 DEF n, d, e, r
  <1>7. \A name \in LinkAttributes(x.type) : ReadsLink(r, x, name)
    BY LinksRead
  <1> HIDE DEF r, e
  <1>8. Reads(r, x)
    BY <1>1, <1>3, <1>4, <1>5, <1>6, <1>7 DEF Reads
  <1> QED BY <1>3, <1>8 DEF r, e

-----------------------------------------------------------------------------
(* The parts of a plan.                                                    *)
NewBlocks(l1, style) == Blocks(l1, style)
OldBlocks(l0, style) ==
    Restrict(Blocks(Older(l0, style), style),
             {i \in DOMAIN Blocks(Older(l0, style), style) :
                 Blocks(Older(l0, style), style)[i].address \notin Fresh(style)})
PlanEntries(blocks, unknown, style) ==
    With([i \in DOMAIN blocks |-> Entry(blocks[i], unknown, style)],
         IF style = "data" THEN Only(0, DataSource) ELSE <<>>)
AddressesOf(blocks) == {r.address : r \in Range(blocks)}
AtAddress(a, blocks) == CHOOSE r \in Range(blocks) : r.address = a
SideOf(a, blocks, unknown, style) ==
    IF a \in AddressesOf(blocks)
    THEN <<Values(AtAddress(a, blocks), unknown, style)>> ELSE <<>>
ChangedOf(a, old, new) ==
    IF a \in AddressesOf(new) THEN AtAddress(a, new) ELSE AtAddress(a, old)
ChangeOf(a, old, new, style) ==
    [type |-> ChangedOf(a, old, new).type, address |-> a, mode |-> "managed",
     place |-> PlaceOf(a, style),
     before |-> SideOf(a, old, {}, style),
     after |-> SideOf(a, new, Fresh(style), style),
     unknown |-> UnknownOf(ChangedOf(a, old, new), Fresh(style))]
ChangesOf(old, new, style) ==
    [a \in AddressesOf(new) \cup AddressesOf(old) |->
        ChangeOf(a, old, new, style)]
SomeChanges(old, new, style) ==
    {a \in DOMAIN ChangesOf(old, new, style) :
        ChangesOf(old, new, style)[a].before # ChangesOf(old, new, style)[a].after}

LEMMA PlanIs ==
    ASSUME NEW l0, NEW l1, NEW style
    PROVE  LET old == OldBlocks(l0, style)
               new == NewBlocks(l1, style)
               p == Plan(l0, l1, style)
           IN  /\ p.prior = IF style = "no prior state" THEN <<>>
                            ELSE <<PlanEntries(old, {}, style)>>
               /\ p.planned = IF style = "no planned values" THEN <<>>
                              ELSE <<PlanEntries(new, Fresh(style), style)>>
               /\ p.changes = Restrict(ChangesOf(old, new, style),
                                       SomeChanges(old, new, style))
               /\ p.references = IF style = "indirect" THEN <<>>
                                 ELSE FullReferences(l1, style)
  BY DEF Plan, OldBlocks, NewBlocks, PlanEntries, ChangesOf, SomeChanges,
         ChangeOf, ChangedOf, SideOf, AtAddress, AddressesOf, FullReferences

(* The parts of a plan, one by one.                                        *)
LEMMA PriorIs ==
    ASSUME NEW l0, NEW l1, NEW style
    PROVE  Plan(l0, l1, style).prior =
              IF style = "no prior state" THEN <<>>
              ELSE <<PlanEntries(OldBlocks(l0, style), {}, style)>>
  BY DEF Plan, OldBlocks, NewBlocks, PlanEntries, ChangesOf, SomeChanges,
         ChangeOf, ChangedOf, SideOf, AtAddress, AddressesOf, FullReferences

LEMMA PlannedIs ==
    ASSUME NEW l0, NEW l1, NEW style
    PROVE  Plan(l0, l1, style).planned =
              IF style = "no planned values" THEN <<>>
              ELSE <<PlanEntries(NewBlocks(l1, style), Fresh(style), style)>>
  BY DEF Plan, OldBlocks, NewBlocks, PlanEntries, ChangesOf, SomeChanges,
         ChangeOf, ChangedOf, SideOf, AtAddress, AddressesOf, FullReferences

LEMMA ReferencesIs ==
    ASSUME NEW l0, NEW l1, NEW style
    PROVE  Plan(l0, l1, style).references =
              IF style = "indirect" THEN <<>> ELSE FullReferences(l1, style)
  BY DEF Plan, OldBlocks, NewBlocks, PlanEntries, ChangesOf, SomeChanges,
         ChangeOf, ChangedOf, SideOf, AtAddress, AddressesOf, FullReferences

LEMMA EntriesAre ==
    ASSUME NEW blocks, NEW unknown, NEW style
    PROVE  /\ \A e \in Range(PlanEntries(blocks, unknown, style)) :
                 e.mode = "managed" =>
                    \E b \in Range(blocks) : e = Entry(b, unknown, style)
           /\ \A b \in Range(blocks) :
                 Entry(b, unknown, style)
                    \in Range(PlanEntries(blocks, unknown, style))
           /\ DOMAIN blocks \subseteq
                 DOMAIN PlanEntries(blocks, unknown, style)
  <1> DEFINE all == [i \in DOMAIN blocks |-> Entry(blocks[i], unknown, style)]
             extra == IF style = "data" THEN Only(0, DataSource) ELSE <<>>
             both == PlanEntries(blocks, unknown, style)
  <1>1. both = With(all, extra)
    BY DEF PlanEntries
  <1>2. \A i \in DOMAIN extra : extra[i].mode = "data"
    <2>1. CASE style = "data"
      BY <2>1 DEF Only, DataSource
    <2>2. CASE style # "data"
      <3>1. DOMAIN <<>> = {}
        OBVIOUS
      <3> QED BY <2>2, <3>1
    <2> QED BY <2>1, <2>2
  <1>3. /\ DOMAIN all = DOMAIN blocks
        /\ \A i \in DOMAIN blocks : all[i] = Entry(blocks[i], unknown, style)
    OBVIOUS
  <1> HIDE DEF all, extra, both
  <1>4. /\ DOMAIN both = DOMAIN all \cup DOMAIN extra
        /\ \A i \in DOMAIN both :
              both[i] = IF i \in DOMAIN all THEN all[i] ELSE extra[i]
    BY <1>1 DEF With
  <1>5. ASSUME NEW e \in Range(both), e.mode = "managed"
        PROVE  \E b \in Range(blocks) : e = Entry(b, unknown, style)
    <2>1. PICK i \in DOMAIN both : e = both[i]
      BY DEF Range
    <2>2. i \in DOMAIN all
      BY <1>2, <1>4, <1>5, <2>1
    <2> QED BY <1>3, <1>4, <2>1, <2>2 DEF Range
  <1>6. ASSUME NEW b \in Range(blocks)
        PROVE  Entry(b, unknown, style) \in Range(both)
    <2>1. PICK i \in DOMAIN blocks : b = blocks[i]
      BY DEF Range
    <2>2. i \in DOMAIN both /\ both[i] = Entry(b, unknown, style)
      BY <1>3, <1>4, <2>1
    <2> QED BY <2>2 DEF Range
  <1> QED BY <1>3, <1>4, <1>5, <1>6 DEF both

ManagedOf(entries) ==
    Restrict(entries, {i \in DOMAIN entries : entries[i].mode = "managed"})
ModelledOf(entries) ==
    LET managed == ManagedOf(entries)
    IN  Restrict(managed, {i \in DOMAIN Supported(managed) :
                              managed[i].place = "root"})

LEMMA ModelledAre ==
    ASSUME NEW entries
    PROVE  /\ Range(ModelledOf(entries)) =
                 {e \in Range(entries) : /\ e.mode = "managed"
                                         /\ e.type \in SupportedTypes
                                         /\ e.place = "root"}
           /\ Range(ManagedOf(entries)) =
                 {e \in Range(entries) : e.mode = "managed"}
  <1> DEFINE managed == ManagedOf(entries)
             D == DOMAIN entries
  <1>1. /\ DOMAIN managed = {i \in D : entries[i].mode = "managed"}
        /\ \A i \in DOMAIN managed : managed[i] = entries[i]
    BY DEF ManagedOf, Restrict
  <1> HIDE DEF managed, D
  <1>2. DOMAIN Supported(managed) =
           {i \in DOMAIN managed : managed[i].type \in SupportedTypes}
    BY DEF Supported, Restrict
  <1> DEFINE S == {i \in DOMAIN Supported(managed) : managed[i].place = "root"}
             f == Restrict(managed, S)
  <1>3. ModelledOf(entries) = f
    BY DEF ModelledOf, managed
  <1>4. DOMAIN f = S /\ \A i \in S : f[i] = managed[i]
    BY DEF Restrict
  <1>5. S = {i \in D : /\ entries[i].mode = "managed"
                       /\ entries[i].type \in SupportedTypes
                       /\ entries[i].place = "root"}
    BY <1>1, <1>2
  <1> HIDE DEF S, f
  <1>6. \A i \in S : f[i] = entries[i]
    BY <1>1, <1>4, <1>5
  <1>7. Range(f) = {e \in Range(entries) : /\ e.mode = "managed"
                                           /\ e.type \in SupportedTypes
                                           /\ e.place = "root"}
    BY <1>4, <1>5, <1>6 DEF Range, D
  <1>8. Range(managed) = {e \in Range(entries) : e.mode = "managed"}
    BY <1>1 DEF Range, D
  <1> QED BY <1>3, <1>7, <1>8 DEF managed

LEMMA ParsedAre ==
    ASSUME NEW plan, NEW phase
    PROVE  LET rs == Range(ModelledOf(ValuesResources(plan, phase)))
               references == IF phase = "after" THEN plan.references ELSE <<>>
               c == ParsePlan(plan, phase)
           IN  /\ Range(c.resources) = {Relink(rs, references, e) : e \in rs}
               /\ c.diagnostics = PlanDiagnostics(plan, phase)
               /\ \A e \in Range(ManagedOf(ValuesResources(plan, phase))) :
                     e.type \in SupportedTypes /\ e.place # "root" =>
                        "module or indexed address" \in c.unsupported
               /\ \A e \in Range(ManagedOf(ValuesResources(plan, phase))) :
                     e.type \notin SupportedTypes => e.type \in c.unsupported
  <1> DEFINE entries == ValuesResources(plan, phase)
             managed == ManagedOf(entries)
             known == ModelledOf(entries)
             rs == Range(known)
             references == IF phase = "after" THEN plan.references ELSE <<>>
             linked == [i \in DOMAIN known |-> Relink(rs, references, known[i])]
             c == ParsePlan(plan, phase)
             apart == {s \in Range(Supported(managed)) : s.place # "root"}
  <1>1. /\ c.resources = linked
        /\ c.unsupported = Unsupported(managed) \cup
                           {"module or indexed address" : e \in apart}
        /\ c.diagnostics = PlanDiagnostics(plan, phase)
    BY DEF ParsePlan, ManagedOf, ModelledOf
  <1> HIDE DEF entries, managed, known, references, c
  <1>2. Range(linked) = {Relink(rs, references, e) : e \in rs}
    BY DEF Range
  <1> HIDE DEF linked
  <1>3. \A e \in Range(managed) : e.type \in SupportedTypes /\ e.place # "root" =>
           "module or indexed address" \in c.unsupported
    BY <1>1, SupportedAre
  <1>4. \A e \in Range(managed) : e.type \notin SupportedTypes =>
           e.type \in c.unsupported
    BY <1>1 DEF Unsupported
  <1> QED BY <1>1, <1>2, <1>3, <1>4 DEF entries, managed, known, references, c

-----------------------------------------------------------------------------
(* The two sides of a plan.                                                *)
SideLand(l0, l1, style, phase) ==
    IF phase = "after" THEN l1 ELSE Older(l0, style)
SideUnknown(style, phase) == IF phase = "after" THEN Fresh(style) ELSE {}
SideGone(style, phase) == IF phase = "after" THEN {} ELSE Fresh(style)
SideList(l0, l1, style, phase) ==
    IF phase = "after" THEN NewBlocks(l1, style) ELSE OldBlocks(l0, style)
SideBlocks(l0, l1, style, phase) ==
    {x \in BlocksOf(SideLand(l0, l1, style, phase), style) :
        x.address \notin SideGone(style, phase)}
HasSnapshot(style, phase) ==
    IF phase = "after" THEN style # "no planned values"
    ELSE style # "no prior state"

LEMMA OldRange ==
    ASSUME NEW l0, NEW style
    PROVE  Range(OldBlocks(l0, style)) =
              {x \in BlocksOf(Older(l0, style), style) :
                  x.address \notin Fresh(style)}
  <1> DEFINE l == Older(l0, style)
             all == Blocks(l, style)
             fresh == Fresh(style)
             S == {i \in DOMAIN all : all[i].address \notin fresh}
             old == Restrict(all, S)
  <1>1. OldBlocks(l0, style) = old
    BY DEF OldBlocks
  <1>2. Range(all) = BlocksOf(l, style)
    BY BlocksAre
  <1> HIDE DEF all, fresh, l
  <1>3. DOMAIN old = S /\ \A i \in S : old[i] = all[i]
    BY DEF Restrict
  <1> HIDE DEF old
  <1>4. Range(old) = {x \in Range(all) : x.address \notin fresh}
    BY <1>3 DEF Range
  <1> QED BY <1>1, <1>2, <1>4 DEF all, fresh, l

LEMMA SideRange ==
    ASSUME NEW l0, NEW l1, NEW style, NEW phase
    PROVE  Range(SideList(l0, l1, style, phase)) =
              SideBlocks(l0, l1, style, phase)
  <1>1. CASE phase = "after"
    <2>1. Range(Blocks(l1, style)) = BlocksOf(l1, style)
      BY BlocksAre
    <2> QED BY <1>1, <2>1
            DEF SideList, SideBlocks, SideLand, SideGone, NewBlocks
  <1>2. CASE phase # "after"
    BY <1>2, OldRange DEF SideList, SideBlocks, SideLand, SideGone
  <1> QED BY <1>1, <1>2

LEMMA FreshIs ==
    ASSUME NEW style
    PROVE  /\ Fresh(style) \subseteq {"g2", "b2"}
           /\ Fresh(style) # {} => style \in {"fresh group", "fresh bucket"}
  BY DEF Fresh

LEMMA ProfileThere ==
    ASSUME NEW l0, NEW l1, NEW style, NEW phase
    PROVE  /\ Profile \in SideBlocks(l0, l1, style, phase)
           /\ Instance(SideLand(l0, l1, style, phase), style)
                \in SideBlocks(l0, l1, style, phase)
           /\ Group(SideLand(l0, l1, style, phase), "g1", style)
                \in SideBlocks(l0, l1, style, phase)
  <1> DEFINE l == SideLand(l0, l1, style, phase)
  <1>1. {Profile, Instance(l, style), Group(l, "g1", style)}
           \subseteq BlocksOf(l, style)
    BY DEF BlocksOf
  <1>2. SideGone(style, phase) \subseteq {"g2", "b2"}
    BY FreshIs DEF SideGone
  <1>3. Profile.address = "p1" /\ Instance(l, style).address = "e1"
        /\ Group(l, "g1", style).address = "g1"
    BY DEF Profile, Instance, Group, R
  <1> HIDE DEF l
  <1>4. \A x \in {Profile, Instance(l, style), Group(l, "g1", style)} :
           x.address \notin SideGone(style, phase)
    BY <1>2, <1>3
  <1> QED BY <1>1, <1>4 DEF SideBlocks, l

LEMMA SnapshotIs ==
    ASSUME NEW l0, NEW l1, NEW style, NEW phase \in {"before", "after"},
           HasSnapshot(style, phase)
    PROVE  /\ ValuesResources(Plan(l0, l1, style), phase) =
                 PlanEntries(SideList(l0, l1, style, phase),
                             SideUnknown(style, phase), style)
           /\ Snapshot(Plan(l0, l1, style), phase) # <<>>
  <1> DEFINE p == Plan(l0, l1, style)
             list == SideList(l0, l1, style, phase)
             E == PlanEntries(list, SideUnknown(style, phase), style)
  <1>1. Snapshot(p, phase) = <<E>>
    <2>1. CASE phase = "after"
      <3>1. p.planned = <<PlanEntries(NewBlocks(l1, style), Fresh(style), style)>>
        BY <2>1, PlannedIs DEF HasSnapshot
      <3> QED BY <2>1, <3>1 DEF Snapshot, SideList, SideUnknown
    <2>2. CASE phase = "before"
      <3>1. p.prior = <<PlanEntries(OldBlocks(l0, style), {}, style)>>
        BY <2>2, PriorIs DEF HasSnapshot
      <3> QED BY <2>2, <3>1 DEF Snapshot, SideList, SideUnknown
    <2> QED BY <2>1, <2>2
  <1>2. DOMAIN E # {}
    <2>1. Profile \in Range(list)
      BY SideRange, ProfileThere
    <2> HIDE DEF list
    <2>2. DOMAIN list # {}
      BY <2>1 DEF Range
    <2>3. DOMAIN list \subseteq DOMAIN E
      BY EntriesAre
    <2> QED BY <2>2, <2>3
  <1> HIDE DEF E, p
  <1> DEFINE one == <<E>>
  <1>3. DOMAIN one = {1} /\ one[1] = E
    BY OneMember
  <1>4. one # <<>>
    <2>1. DOMAIN <<>> = {}
      OBVIOUS
    <2> HIDE DEF one
    <2> QED BY <1>3, <2>1
  <1> HIDE DEF one
  <1>5. Snapshot(p, phase) = one
    BY <1>1 DEF one
  <1>6. ValuesResources(p, phase) = E
    BY <1>2, <1>3, <1>4, <1>5 DEF ValuesResources
  <1> QED BY <1>4, <1>5, <1>6 DEF E, p

LEMMA ChangedType ==
    ASSUME NEW l0, NEW l1, NEW style, NEW a,
           a \in AddressesOf(NewBlocks(l1, style))
                 \cup AddressesOf(OldBlocks(l0, style))
    PROVE  ChangedOf(a, OldBlocks(l0, style), NewBlocks(l1, style)).type
              = TypeAt(a)
  <1> DEFINE new == NewBlocks(l1, style)
             old == OldBlocks(l0, style)
  <1>1. /\ Range(new) = BlocksOf(l1, style)
        /\ Range(old) \subseteq BlocksOf(Older(l0, style), style)
    BY BlocksAre, OldRange DEF NewBlocks
  <1> HIDE DEF new, old
  <1>2. CASE a \in AddressesOf(new)
    <2>1. AtAddress(a, new) \in Range(new) /\ AtAddress(a, new).address = a
      BY <1>2 DEF AddressesOf, AtAddress
    <2> QED BY <1>1, <1>2, <2>1, BlocksAreAt DEF ChangedOf, new, old
  <1>3. CASE a \notin AddressesOf(new)
    <2>1. a \in AddressesOf(old)
      BY <1>3 DEF new, old
    <2>2. AtAddress(a, old) \in Range(old) /\ AtAddress(a, old).address = a
      BY <2>1 DEF AddressesOf, AtAddress
    <2> QED BY <1>1, <1>3, <2>2, BlocksAreAt DEF ChangedOf, new, old
  <1> QED BY <1>2, <1>3

ChangedEntry(c, phase) ==
    [type |-> c.type, address |-> c.address, place |-> c.place,
     mode |-> c.mode,
     attrs |-> (IF phase = "after" THEN c.after ELSE c.before)[1]]

LEMMA FromChangesAre ==
    ASSUME NEW plan, NEW phase
    PROVE  \A e \in Range(FromChanges(plan, phase)) :
              \E c \in Range(plan.changes) :
                 /\ (IF phase = "after" THEN c.after ELSE c.before) # <<>>
                 /\ e = ChangedEntry(c, phase)
  <1> DEFINE values(c) == IF phase = "after" THEN c.after ELSE c.before
             D == {j \in DOMAIN plan.changes : values(plan.changes[j]) # <<>>}
             f == [i \in D |-> ChangedEntry(plan.changes[i], phase)]
  <1>1. FromChanges(plan, phase) = f
    BY DEF FromChanges, ChangedEntry
  <1>2. ASSUME NEW e \in Range(f)
        PROVE  \E c \in Range(plan.changes) :
                  values(c) # <<>> /\ e = ChangedEntry(c, phase)
    <2>1. PICK i \in D : e = ChangedEntry(plan.changes[i], phase)
      BY DEF Range
    <2> QED BY <2>1 DEF Range
  <1> QED BY <1>1, <1>2

LEMMA PlanChanges ==
    ASSUME NEW l0, NEW l1, NEW style,
           NEW c \in Range(Plan(l0, l1, style).changes)
    PROVE  \E a \in AddressesOf(NewBlocks(l1, style))
                    \cup AddressesOf(OldBlocks(l0, style)) :
              c = ChangeOf(a, OldBlocks(l0, style), NewBlocks(l1, style), style)
  <1> DEFINE new == NewBlocks(l1, style)
             old == OldBlocks(l0, style)
             all == ChangesOf(old, new, style)
             some == SomeChanges(old, new, style)
             f == Restrict(all, some)
  <1>1. Plan(l0, l1, style).changes = f
    BY PlanIs
  <1>2. some \subseteq DOMAIN all
    BY DEF SomeChanges
  <1>3. DOMAIN all = AddressesOf(new) \cup AddressesOf(old)
        /\ \A a \in DOMAIN all : all[a] = ChangeOf(a, old, new, style)
    BY DEF ChangesOf
  <1> HIDE DEF all, some, new, old
  <1>4. DOMAIN f = some /\ \A a \in some : f[a] = all[a]
    BY DEF Restrict
  <1> HIDE DEF f
  <1>5. PICK a \in some : c = all[a]
    BY <1>1, <1>4 DEF Range
  <1> QED BY <1>2, <1>3, <1>5 DEF new, old

LEMMA ChangeSide ==
    ASSUME NEW a, NEW old, NEW new, NEW style, NEW phase,
           NEW list, list = IF phase = "after" THEN new ELSE old,
           NEW c, c = ChangeOf(a, old, new, style),
           (IF phase = "after" THEN c.after ELSE c.before) # <<>>
    PROVE  /\ a \in AddressesOf(list)
           /\ ChangedEntry(c, phase) =
                [type |-> ChangedOf(a, old, new).type, address |-> a,
                 mode |-> "managed", place |-> PlaceOf(a, style),
                 attrs |-> Values(AtAddress(a, list),
                                  SideUnknown(style, phase), style)]
  <1> DEFINE values == IF phase = "after" THEN c.after ELSE c.before
             unknown == SideUnknown(style, phase)
             V == Values(AtAddress(a, list), unknown, style)
             type == ChangedOf(a, old, new).type
  <1>1. values = SideOf(a, list, unknown, style)
    BY DEF ChangeOf, SideUnknown
  <1>2. /\ c.type = type /\ c.address = a /\ c.mode = "managed"
        /\ c.place = PlaceOf(a, style)
    BY DEF ChangeOf
  <1> HIDE DEF values, unknown
  <1>3. a \in AddressesOf(list)
    BY <1>1 DEF SideOf, values
  <1>4. values = <<V>>
    BY <1>1, <1>3 DEF SideOf
  <1> HIDE DEF V
  <1>5. values[1] = V
    BY <1>4
  <1>6. ChangedEntry(c, phase).attrs = values[1]
    BY DEF ChangedEntry, values
  <1> HIDE DEF type
  <1>7. ChangedEntry(c, phase) =
          [type |-> type, address |-> a, mode |-> "managed",
           place |-> PlaceOf(a, style), attrs |-> V]
    BY <1>2, <1>5 DEF ChangedEntry, values
  <1> QED BY <1>3, <1>7 DEF V, type, unknown

LEMMA ChangedEntries ==
    ASSUME NEW l0, NEW l1, NEW style, NEW phase,
           NEW e \in Range(FromChanges(Plan(l0, l1, style), phase))
    PROVE  \E x \in SideBlocks(l0, l1, style, phase) :
              e = Entry(x, SideUnknown(style, phase), style)
  <1> DEFINE new == NewBlocks(l1, style)
             old == OldBlocks(l0, style)
             list == SideList(l0, l1, style, phase)
             unknown == SideUnknown(style, phase)
             l == SideLand(l0, l1, style, phase)
             p == Plan(l0, l1, style)
  <1>1. PICK c \in Range(p.changes) :
           /\ (IF phase = "after" THEN c.after ELSE c.before) # <<>>
           /\ e = ChangedEntry(c, phase)
    BY FromChangesAre
  <1>2. PICK a \in AddressesOf(new) \cup AddressesOf(old) :
           c = ChangeOf(a, old, new, style)
    BY PlanChanges
  <1>3. ChangedOf(a, old, new).type = TypeAt(a)
    BY <1>2, ChangedType
  <1>4. list = IF phase = "after" THEN new ELSE old
    BY DEF SideList
  <1> HIDE DEF new, old, list, unknown, l, p
  <1>5. /\ a \in AddressesOf(list)
        /\ e = [type |-> TypeAt(a), address |-> a, mode |-> "managed",
                place |-> PlaceOf(a, style),
                attrs |-> Values(AtAddress(a, list), unknown, style)]
    BY <1>1, <1>2, <1>3, <1>4, ChangeSide DEF unknown
  <1> DEFINE x == AtAddress(a, list)
  <1>6. x \in Range(list) /\ x.address = a
    BY <1>5 DEF AddressesOf, AtAddress
  <1> HIDE DEF x
  <1>7. x \in SideBlocks(l0, l1, style, phase)
    BY <1>6, SideRange DEF list
  <1>8. x \in BlocksOf(l, style)
    BY <1>7 DEF SideBlocks, l
  <1>9. x.type = TypeAt(a)
    BY <1>6, <1>8, BlocksAreAt
  <1>10. e = Entry(x, unknown, style)
    BY <1>5, <1>6, <1>9 DEF Entry, x
  <1> QED BY <1>7, <1>10 DEF unknown

LEMMA NoSnapshot ==
    ASSUME NEW l0, NEW l1, NEW style, NEW phase \in {"before", "after"},
           ~HasSnapshot(style, phase)
    PROVE  Snapshot(Plan(l0, l1, style), phase) = <<>>
  <1> DEFINE p == Plan(l0, l1, style)
  <1>1. CASE phase = "after"
    <2>1. p.planned = <<>>
      BY <1>1, PlanIs DEF HasSnapshot
    <2> QED BY <1>1, <2>1 DEF Snapshot
  <1>2. CASE phase = "before"
    <2>1. p.prior = <<>>
      BY <1>2, PlanIs DEF HasSnapshot
    <2> QED BY <1>2, <2>1 DEF Snapshot
  <1> QED BY <1>1, <1>2

SideShows(E, B, unknown, style, whole) ==
    /\ \A e \in E : e.mode = "managed" =>
          \E x \in B : e = Entry(x, unknown, style)
    /\ whole => \A x \in B : Entry(x, unknown, style) \in E

LEMMA SideEntries ==
    ASSUME NEW l0, NEW l1, NEW style, NEW phase \in {"before", "after"}
    PROVE  SideShows(Range(ValuesResources(Plan(l0, l1, style), phase)),
                     SideBlocks(l0, l1, style, phase),
                     SideUnknown(style, phase), style,
                     HasSnapshot(style, phase))
  <1> DEFINE p == Plan(l0, l1, style)
             entries == ValuesResources(p, phase)
             B == SideBlocks(l0, l1, style, phase)
             unknown == SideUnknown(style, phase)
             list == SideList(l0, l1, style, phase)
  <1>1. CASE HasSnapshot(style, phase)
    <2>1. entries = PlanEntries(list, unknown, style)
      BY <1>1, SnapshotIs
    <2>2. Range(list) = B
      BY SideRange
    <2> HIDE DEF p, B, unknown, list, entries
    <2>3. SideShows(Range(PlanEntries(list, unknown, style)), B, unknown,
                    style, TRUE)
      BY <2>2, EntriesAre DEF SideShows
    <2>4. SideShows(Range(entries), B, unknown, style, TRUE)
      BY <2>1, <2>3
    <2> QED BY <1>1, <2>4 DEF p, B, unknown, entries, SideShows
  <1>2. CASE ~HasSnapshot(style, phase)
    <2>1. entries = FromChanges(p, phase)
      <3>1. Snapshot(p, phase) = <<>>
        BY <1>2, NoSnapshot
      <3> HIDE DEF p
      <3> QED BY <3>1 DEF ValuesResources
    <2>2. \A e \in Range(FromChanges(p, phase)) :
             \E x \in B : e = Entry(x, unknown, style)
      BY ChangedEntries
    <2> HIDE DEF p, B, unknown, list, entries
    <2>3. \A e \in Range(entries) : \E x \in B : e = Entry(x, unknown, style)
      BY <2>1, <2>2
    <2> QED BY <1>2, <2>3 DEF p, B, unknown, entries, SideShows
  <1> QED BY <1>1, <1>2

LEMMA OlderIs ==
    ASSUME NEW l \in Landscapes, NEW style
    PROVE  /\ Older(l, style) \in Landscapes
           /\ "g2" \in Fresh(style) =>
                 /\ Older(l, style).open["g2"] = {}
                 /\ "g2" \notin Older(l, style).attached
           /\ "b2" \in Fresh(style) =>
                 /\ "b2" \notin Older(l, style).access
                 /\ "b2" \notin Older(l, style).sensitive
  <1>1. CASE style = "fresh group"
    <2> DEFINE open == [l.open EXCEPT !["g2"] = {}]
               attached == l.attached \ {"g2"}
    <2>1. Older(l, style) = [l EXCEPT !.open = open, !.attached = attached]
      BY <1>1 DEF Older
    <2>2. open \in [Groups -> SUBSET {"https", "admin", "range", "all"}]
          /\ open["g2"] = {} /\ attached \subseteq Groups /\ "g2" \notin attached
      BY DEF Landscapes, Groups
    <2> HIDE DEF open, attached
    <2>3. /\ Older(l, style) \in Landscapes
          /\ Older(l, style).open = open /\ Older(l, style).attached = attached
      BY <2>1, <2>2 DEF Landscapes
    <2>4. Fresh(style) = {"g2"}
      BY <1>1 DEF Fresh
    <2> QED BY <2>2, <2>3, <2>4
  <1>2. CASE style = "fresh bucket"
    <2> DEFINE access == l.access \ {"b2"}
               sensitive == l.sensitive \ {"b2"}
    <2>1. Older(l, style) = [l EXCEPT !.access = access, !.sensitive = sensitive]
      BY <1>2 DEF Older
    <2>2. access \subseteq Buckets /\ sensitive \subseteq Buckets
          /\ "b2" \notin access /\ "b2" \notin sensitive
      BY DEF Landscapes
    <2> HIDE DEF access, sensitive
    <2>3. /\ Older(l, style) \in Landscapes
          /\ Older(l, style).access = access
          /\ Older(l, style).sensitive = sensitive
      BY <2>1, <2>2 DEF Landscapes
    <2>4. Fresh(style) = {"b2"}
      BY <1>2 DEF Fresh
    <2> QED BY <2>2, <2>3, <2>4
  <1>3. CASE style \notin {"fresh group", "fresh bucket"}
    <2>1. Older(l, style) = l /\ Fresh(style) = {}
      BY <1>3 DEF Older, Fresh
    <2> QED BY <2>1
  <1> QED BY <1>1, <1>2, <1>3

(* A list of groups that holds something new is in the configuration.      *)
LEMMA FreshNamed ==
    ASSUME NEW l \in Landscapes, NEW style, Plannable(style),
           NEW fresh, fresh \subseteq {"g2", "b2"},
           NEW y \in BlocksOf(l, style), y.type \in SupportedTypes,
           NEW n \in LinkAttributes(y.type), n \in DOMAIN y.attrs,
           References(y, n) \cap fresh # {}
    PROVE  DOMAIN Named(FullReferences(l, style), y, n) # {}
  <1> DEFINE L == y.attrs[n]
             named == Named(FullReferences(l, style), y, n)
  <1>1. PICK a \in fresh : a \in References(y, n)
    OBVIOUS
  <1>2. Members(y, n) = {L[i] : i \in DOMAIN L}
    BY DEF Members, Has, Range
  <1> HIDE DEF L
  <1>3. PICK i \in DOMAIN L : L[i][1] = "ref" /\ L[i][2] = a
    BY <1>1, <1>2 DEF References, Addresses
  <1>4. LinkMember(L[i])
    BY <1>3, LinkMembers DEF L
  <1>5. L[i] = Ref(a)
    BY <1>3, <1>4, MemberKinds DEF LinkMember
  <1>6. a \in {"g2", "b2"}
    BY <1>1
  <1>7. CASE \E m : L = <<m>> /\ SingleLink(l, style, n, m)
    <2>1. PICK m : L = <<m>> /\ SingleLink(l, style, n, m)
      BY <1>7
    <2>2. L[i] = m
      <3>1. DOMAIN L = {1} /\ L[1] = m
        BY <2>1, OneMember
      <3> QED BY <1>3, <3>1
    <2>3. m # Ref("g2") /\ m # Ref("b2")
      <3>1. \A b : Ref(b) # Literal("arn")
        BY MemberKinds
      <3>2. \A b, c : Ref(b) = Ref(c) => b = c
        BY MemberKinds
      <3> QED BY <2>1, <3>1, <3>2 DEF SingleLink
    <2> QED BY <1>5, <1>6, <2>2, <2>3
  <1>8. CASE n \in Listed /\ L = GroupList(l, style)
    <2>1. NamedIs(l, style, y, n, named)
      BY NamedAre DEF FullReferences
    <2>2. a \in Groups
      <3> DEFINE G == GroupList(l, style)
      <3>1. i \in DOMAIN G /\ G[i] = Ref(a)
        BY <1>3, <1>5, <1>8
      <3>2. style # "attachment variable"
        <4>1. SUFFICES ASSUME style = "attachment variable" PROVE FALSE
          OBVIOUS
        <4>2. G = <<Expr>>
          BY <4>1 DEF GroupList
        <4> HIDE DEF G
        <4>3. G[i] = Expr
          BY <3>1, <4>2, OneMember
        <4> QED BY <3>1, <4>3, MemberKinds
      <3>3. G = [j \in Attaching(l) |-> GroupMember((<<"g1", "g2">>)[j], style)]
        BY <3>2 DEF GroupList
      <3> HIDE DEF G
      <3>4. i \in Attaching(l)
            /\ G[i] = GroupMember((<<"g1", "g2">>)[i], style)
        BY <3>1, <3>3
      <3>5. (<<"g1", "g2">>)[i] \in {"g1", "g2"}
        BY <3>4, AttachingIs
      <3> DEFINE g == (<<"g1", "g2">>)[i]
      <3>8. G[i] = GroupMember(g, style)
        BY <3>4
      <3> HIDE DEF g
      <3>6. GroupMember(g, style)[2] = g /\ Ref(a)[2] = a
        BY MemberKinds DEF GroupMember
      <3>7. g = a
        BY <3>1, <3>8, <3>6
      <3> QED BY <3>5, <3>7 DEF g, Groups
    <2>3. Group(l, a, style) \in BlocksOf(l, style)
      BY <2>2 DEF BlocksOf, Groups
    <2>4. /\ Group(l, a, style).type = "aws_security_group"
          /\ Group(l, a, style).address = a
      BY GroupType
    <2>5. "aws_security_group" \in SupportedTypes
      BY DEF SupportedTypes, SecurityAttributes
    <2>6. TargetType(n) = "aws_security_group"
      BY <1>8, TargetTypeGroups DEF Listed
    <2> HIDE DEF named
    <2>7. i \in DOMAIN named
      BY <1>3, <1>5, <2>1, <2>3, <2>4, <2>5, <2>6 DEF NamedIs, L
    <2> QED BY <2>7 DEF named
  <1> QED BY <1>7, <1>8, LinkLists DEF L

-----------------------------------------------------------------------------
(* A list of blocks is finite, and so is each list of a plan.              *)
LEMMA BlocksFinite ==
    ASSUME NEW l, NEW style
    PROVE  IsFiniteSet(DOMAIN Blocks(l, style))
  <1> DEFINE s == Blocks(l, style)
  <1>1. s \in Seq(Range(s))
    BY BlocksAre DEF IsList
  <1> HIDE DEF s
  <1>2. DOMAIN s = 1..Len(s) /\ Len(s) \in Nat
    BY <1>1
  <1>3. IsFiniteSet(1..Len(s))
    BY <1>2, FS_Interval
  <1> QED BY <1>2, <1>3 DEF s

LEMMA RangeFinite ==
    ASSUME NEW f, IsFiniteSet(DOMAIN f)
    PROVE  IsFiniteSet(AddressesOf(f))
  <1> DEFINE g == [i \in DOMAIN f |-> f[i].address]
  <1>1. AddressesOf(f) = {g[i] : i \in DOMAIN f}
    BY DEF AddressesOf, Range
  <1>2. g \in Surjection(DOMAIN f, {g[i] : i \in DOMAIN f})
    BY DEF Surjection
  <1>3. IsFiniteSet({g[i] : i \in DOMAIN f})
    BY <1>2, FS_Surjection
  <1> QED BY <1>1, <1>3

LEMMA SideFinite ==
    ASSUME NEW l0, NEW l1, NEW style, NEW phase
    PROVE  /\ IsFiniteSet(DOMAIN SideList(l0, l1, style, phase))
           /\ IsFiniteSet(DOMAIN OldBlocks(l0, style))
           /\ IsFiniteSet(DOMAIN NewBlocks(l1, style))
  <1>1. IsFiniteSet(DOMAIN NewBlocks(l1, style))
    BY BlocksFinite DEF NewBlocks
  <1>2. IsFiniteSet(DOMAIN OldBlocks(l0, style))
    <2> DEFINE b == Blocks(Older(l0, style), style)
               S == {i \in DOMAIN b : b[i].address \notin Fresh(style)}
    <2>1. OldBlocks(l0, style) = Restrict(b, S)
      BY DEF OldBlocks
    <2>2. IsFiniteSet(DOMAIN b)
      BY BlocksFinite
    <2> HIDE DEF b
    <2>3. DOMAIN Restrict(b, S) = S
      BY DEF Restrict
    <2>4. S \subseteq DOMAIN b
      OBVIOUS
    <2> HIDE DEF S
    <2> QED BY <2>1, <2>2, <2>3, <2>4, FS_Subset
  <1> QED BY <1>1, <1>2 DEF SideList

LEMMA EntriesFinite ==
    ASSUME NEW blocks, NEW unknown, NEW style, IsFiniteSet(DOMAIN blocks)
    PROVE  IsFiniteSet(DOMAIN PlanEntries(blocks, unknown, style))
  <1> DEFINE all == [i \in DOMAIN blocks |-> Entry(blocks[i], unknown, style)]
             extra == IF style = "data" THEN Only(0, DataSource) ELSE <<>>
  <1>1. PlanEntries(blocks, unknown, style) = With(all, extra)
    BY DEF PlanEntries
  <1>2. DOMAIN extra \subseteq {0}
    <2>1. CASE style = "data"
      BY <2>1 DEF Only
    <2>2. CASE style # "data"
      <3>1. DOMAIN <<>> = {}
        OBVIOUS
      <3> QED BY <2>2, <3>1
    <2> QED BY <2>1, <2>2
  <1>3. DOMAIN all = DOMAIN blocks
    OBVIOUS
  <1> HIDE DEF all, extra
  <1>4. DOMAIN With(all, extra) = DOMAIN all \cup DOMAIN extra
    BY DEF With
  <1>5. IsFiniteSet({0})
    BY FS_Singleton
  <1>6. IsFiniteSet(DOMAIN extra)
    BY <1>2, <1>5, FS_Subset
  <1>7. IsFiniteSet(DOMAIN all \cup DOMAIN extra)
    BY <1>3, <1>6, FS_Union
  <1> QED BY <1>1, <1>4, <1>7

LEMMA ValuesFinite ==
    ASSUME NEW l0, NEW l1, NEW style, NEW phase \in {"before", "after"}
    PROVE  IsFiniteSet(DOMAIN ValuesResources(Plan(l0, l1, style), phase))
  <1> DEFINE p == Plan(l0, l1, style)
             entries == ValuesResources(p, phase)
             list == SideList(l0, l1, style, phase)
             unknown == SideUnknown(style, phase)
             new == NewBlocks(l1, style)
             old == OldBlocks(l0, style)
  <1>1. CASE HasSnapshot(style, phase)
    <2>1. entries = PlanEntries(list, unknown, style)
      BY <1>1, SnapshotIs
    <2>2. IsFiniteSet(DOMAIN list)
      BY SideFinite
    <2> HIDE DEF entries, list, unknown
    <2>3. IsFiniteSet(DOMAIN PlanEntries(list, unknown, style))
      BY <2>2, EntriesFinite
    <2> QED BY <2>1, <2>3 DEF entries
  <1>2. CASE ~HasSnapshot(style, phase)
    <2>1. Snapshot(p, phase) = <<>>
      BY <1>2, NoSnapshot
    <2>2. p.changes = Restrict(ChangesOf(old, new, style),
                               SomeChanges(old, new, style))
      BY PlanIs
    <2>3. IsFiniteSet(DOMAIN new) /\ IsFiniteSet(DOMAIN old)
      BY SideFinite
    <2> HIDE DEF p, new, old
    <2>4. entries = FromChanges(p, phase)
      BY <2>1 DEF ValuesResources
    <2>5. DOMAIN FromChanges(p, phase) \subseteq DOMAIN p.changes
      BY DEF FromChanges
    <2>6. DOMAIN p.changes = SomeChanges(old, new, style)
      BY <2>2 DEF Restrict
    <2>7. SomeChanges(old, new, style) \subseteq
             AddressesOf(new) \cup AddressesOf(old)
      BY DEF SomeChanges, ChangesOf
    <2>8. IsFiniteSet(AddressesOf(new) \cup AddressesOf(old))
      BY <2>3, RangeFinite, FS_Union
    <2>9. IsFiniteSet(DOMAIN p.changes)
      BY <2>6, <2>7, <2>8, FS_Subset
    <2>10. IsFiniteSet(DOMAIN FromChanges(p, phase))
      BY <2>5, <2>9, FS_Subset
    <2> QED BY <2>4, <2>10 DEF p
  <1> QED BY <1>1, <1>2

LEMMA ParsedFinite ==
    ASSUME NEW plan, NEW phase,
           IsFiniteSet(DOMAIN ValuesResources(plan, phase))
    PROVE  IsFiniteSet(DOMAIN ParsePlan(plan, phase).resources)
  <1> DEFINE entries == ValuesResources(plan, phase)
             managed == ManagedOf(entries)
             known == ModelledOf(entries)
             rs == Range(known)
             references == IF phase = "after" THEN plan.references ELSE <<>>
             linked == [i \in DOMAIN known |-> Relink(rs, references, known[i])]
  <1>1. ParsePlan(plan, phase).resources = linked
    BY DEF ParsePlan, ManagedOf, ModelledOf
  <1>2. DOMAIN linked = DOMAIN known
    OBVIOUS
  <1> HIDE DEF linked, entries
  <1>3. DOMAIN managed \subseteq DOMAIN entries
    BY DEF ManagedOf, Restrict
  <1>4. DOMAIN known \subseteq DOMAIN managed
    <2> DEFINE S == {i \in DOMAIN Supported(managed) :
                        managed[i].place = "root"}
    <2> HIDE DEF managed
    <2>1. DOMAIN Restrict(managed, S) = S
      BY DEF Restrict
    <2>2. DOMAIN Supported(managed) \subseteq DOMAIN managed
      BY DEF Supported, Restrict
    <2>3. ModelledOf(entries) = Restrict(managed, S)
      BY DEF ModelledOf, managed
    <2> QED BY <2>1, <2>2, <2>3
  <1> HIDE DEF managed, known
  <1>5. DOMAIN known \subseteq DOMAIN entries
    BY <1>3, <1>4
  <1> QED BY <1>1, <1>2, <1>5, FS_Subset DEF entries

(* What a side of a plan shows can be linked.                              *)
LEMMA SideShown ==
    ASSUME NEW l0, NEW l1, NEW style, NEW phase \in {"before", "after"},
           NEW r \in Range(ModelledOf(ValuesResources(Plan(l0, l1, style),
                                                      phase)))
    PROVE  \E x \in SideBlocks(l0, l1, style, phase) :
              /\ x.type \in SupportedTypes
              /\ r = Entry(x, SideUnknown(style, phase), style)
  <1> DEFINE entries == ValuesResources(Plan(l0, l1, style), phase)
             B == SideBlocks(l0, l1, style, phase)
             unknown == SideUnknown(style, phase)
  <1>1. r \in Range(ModelledOf(entries))
    OBVIOUS
  <1>2. SideShows(Range(entries), B, unknown, style, HasSnapshot(style, phase))
    BY SideEntries
  <1> HIDE DEF entries, B, unknown
  <1>3. r \in Range(entries) /\ r.mode = "managed" /\ r.type \in SupportedTypes
    BY <1>1, ModelledAre
  <1>4. PICK x \in B : r = Entry(x, unknown, style)
    BY <1>2, <1>3 DEF SideShows
  <1>5. x.type \in SupportedTypes
    BY <1>3, <1>4, EntryFields
  <1> QED BY <1>4, <1>5 DEF B, unknown

LEMMA SideHolds ==
    ASSUME NEW l0, NEW l1, NEW style, NEW phase \in {"before", "after"},
           HasSnapshot(style, phase),
           NEW x \in SideBlocks(l0, l1, style, phase)
    PROVE  LET entries == ValuesResources(Plan(l0, l1, style), phase)
               e == Entry(x, SideUnknown(style, phase), style)
           IN  /\ e \in Range(ManagedOf(entries))
               /\ x.type \in SupportedTypes
                  /\ PlaceOf(x.address, style) = "root" =>
                     e \in Range(ModelledOf(entries))
  <1> DEFINE entries == ValuesResources(Plan(l0, l1, style), phase)
             B == SideBlocks(l0, l1, style, phase)
             unknown == SideUnknown(style, phase)
             e == Entry(x, unknown, style)
  <1>1. x \in B
    OBVIOUS
  <1>2. SideShows(Range(entries), B, unknown, style, HasSnapshot(style, phase))
    BY SideEntries
  <1> HIDE DEF entries, B, unknown
  <1>3. e \in Range(entries)
    BY <1>1, <1>2 DEF SideShows
  <1>4. /\ e.mode = "managed" /\ e.type = x.type
        /\ e.place = PlaceOf(x.address, style)
    BY EntryFields
  <1> HIDE DEF e
  <1> QED BY <1>3, <1>4, ModelledAre DEF e, entries, unknown

LEMMA PlanLinkable ==
    ASSUME NEW l0 \in Landscapes, NEW l1 \in Landscapes, NEW style,
           Plannable(style), NEW phase \in {"before", "after"}
    PROVE  Linkable(SideLand(l0, l1, style, phase), style,
                    SideUnknown(style, phase),
                    IF phase = "after" THEN Plan(l0, l1, style).references
                    ELSE <<>>,
                    Range(ModelledOf(ValuesResources(Plan(l0, l1, style),
                                                     phase))))
  <1> DEFINE l == SideLand(l0, l1, style, phase)
             fresh == SideUnknown(style, phase)
             references == IF phase = "after" THEN Plan(l0, l1, style).references
                           ELSE <<>>
             rs == Range(ModelledOf(ValuesResources(Plan(l0, l1, style), phase)))
  <1>1. Shows(rs, l, fresh, style)
    BY SideShown DEF Shows, SideBlocks
  <1>2. Sharing(style) => Fresh(style) = {} /\ HasSnapshot(style, phase)
    BY DEF Sharing, HasSnapshot, Fresh
  <1>3. Sharing(style) => fresh = {}
    BY <1>2 DEF SideUnknown
  <1>4. BothGroups(rs, style)
    <2> SUFFICES ASSUME Sharing(style)
                 PROVE  \E r1, r2 \in rs : /\ r1.type = "aws_security_group"
                                           /\ r2.type = "aws_security_group"
                                           /\ r1.address # r2.address
      BY DEF BothGroups
    <2>1. \A g \in Groups : Group(l, g, style) \in SideBlocks(l0, l1, style, phase)
      <3> TAKE g \in Groups
      <3>1. Group(l, g, style) \in BlocksOf(l, style)
        BY DEF BlocksOf, Groups
      <3>2. SideGone(style, phase) = {}
        BY <1>2 DEF SideGone
      <3> QED BY <3>1, <3>2 DEF SideBlocks
    <2>2. \A g \in Groups : PlaceOf(g, style) = "root"
      BY DEF PlaceOf, Sharing
    <2>3. \A g \in Groups : Entry(Group(l, g, style), fresh, style) \in rs
      <3> TAKE g \in Groups
      <3>1. /\ Group(l, g, style).type = "aws_security_group"
            /\ Group(l, g, style).address = g
        BY GroupType
      <3>2. "aws_security_group" \in SupportedTypes
        BY DEF SupportedTypes, SecurityAttributes
      <3> QED BY <1>2, <2>1, <2>2, <3>1, <3>2, SideHolds
    <2>4. \A g \in Groups :
             /\ Entry(Group(l, g, style), fresh, style).type
                   = "aws_security_group"
             /\ Entry(Group(l, g, style), fresh, style).address = g
      BY GroupType, EntryFields
    <2>5. "g1" \in Groups /\ "g2" \in Groups
      BY DEF Groups
    <2> HIDE DEF rs, l, fresh
    <2> QED BY <2>3, <2>4, <2>5
  <1>5. references = IF phase = "after" /\ style # "indirect"
                     THEN FullReferences(l, style) ELSE <<>>
    <2>1. Plan(l0, l1, style).references =
             IF style = "indirect" THEN <<>> ELSE FullReferences(l1, style)
      BY ReferencesIs
    <2> QED BY <2>1 DEF SideLand
  <1>6. ASSUME fresh # {}
        PROVE  /\ references = FullReferences(l, style)
               /\ fresh \subseteq {"g2", "b2"}
    <2>1. phase = "after" /\ Fresh(style) # {} /\ fresh = Fresh(style)
      BY <1>6 DEF SideUnknown
    <2>2. style \in {"fresh group", "fresh bucket"}
      BY <2>1, FreshIs
    <2>3. style # "indirect"
      BY <2>2
    <2>4. Fresh(style) \subseteq {"g2", "b2"}
      BY FreshIs
    <2> HIDE DEF fresh, l, references
    <2> QED BY <1>5, <2>1, <2>3, <2>4
  <1>7. l \in Landscapes
    BY OlderIs DEF SideLand
  <1>8. ASSUME fresh # {}, NEW y \in BlocksOf(l, style),
               y.type \in SupportedTypes,
               NEW n \in LinkAttributes(y.type) \cap DOMAIN y.attrs,
               References(y, n) \cap fresh # {}
        PROVE  DOMAIN Named(references, y, n) # {}
    <2> HIDE DEF fresh, l, references
    <2> QED BY <1>6, <1>7, <1>8, FreshNamed
  <1> HIDE DEF l, fresh, references, rs
  <1>9. references \in {<<>>, FullReferences(l, style)}
    BY <1>5
  <1>10. Linkable(l, style, fresh, references, rs)
    BY <1>1, <1>3, <1>4, <1>6, <1>8, <1>9 DEF Linkable
  <1> QED BY <1>10 DEF l, fresh, references, rs

-----------------------------------------------------------------------------
(* What a parser makes of a landscape: the links it finds are those of the *)
(* landscape, and unless it says that it left something out, it has every  *)
(* block.                                                                  *)
Inside(style) == style # "rule resource"
Faithful(config, l, style, gone) ==
    LET rs == Range(config.resources) IN
    /\ ReadFrom(rs, l, style) /\ IsFiniteSet(DOMAIN config.resources)
    /\ config.diagnostics = {} /\ config.unsupported \subseteq InertTypes =>
          Covers(rs, l, style, gone) /\ Inside(style)

LEMMA NotInert ==
    /\ "aws_vpc_security_group_ingress_rule" \notin InertTypes
    /\ "module or indexed address" \notin InertTypes
  BY TerraformAssumption

LEMMA RuleBlock ==
    ASSUME NEW l, NEW style, ~Inside(style)
    PROVE  \E x \in BlocksOf(l, style) :
              /\ x.type = "aws_vpc_security_group_ingress_rule"
              /\ x.type \notin SupportedTypes
              /\ x.address = "sr1"
  <1> DEFINE x == R("aws_vpc_security_group_ingress_rule", "sr1", <<>>)
  <1>1. x \in Others(style)
    BY DEF Others, Inside
  <1>2. /\ x.type = "aws_vpc_security_group_ingress_rule"
        /\ x.address = "sr1"
    BY DEF R
  <1>3. "aws_vpc_security_group_ingress_rule" \notin SupportedTypes
    BY DEF SupportedTypes, SecurityAttributes
  <1> HIDE DEF x
  <1>4. x \in BlocksOf(l, style)
    BY <1>1 DEF BlocksOf
  <1> QED BY <1>2, <1>3, <1>4

LEMMA DirectoryFinite ==
    ASSUME NEW l, NEW style
    PROVE  IsFiniteSet(DOMAIN Directory(l, style).blocks)
  <1> DEFINE all == Blocks(l, style)
             S == {i \in DOMAIN all :
                     ~(style \in {"module", "json"}) \/ all[i].address # "g1"}
             closed == Group([l EXCEPT !.open["g1"] = {}], "g1", style)
             twice == IF style = "twice" THEN Only(0, closed) ELSE <<>>
  <1>1. Directory(l, style).blocks = With(Restrict(all, S), twice)
    BY DEF Directory
  <1>2. IsFiniteSet(DOMAIN all)
    BY BlocksFinite
  <1>3. DOMAIN twice \subseteq {0}
    <2>1. CASE style = "twice"
      BY <2>1 DEF Only
    <2>2. CASE style # "twice"
      <3>1. DOMAIN <<>> = {}
        OBVIOUS
      <3> QED BY <2>2, <3>1
    <2> QED BY <2>1, <2>2
  <1>4. S \subseteq DOMAIN all
    OBVIOUS
  <1> HIDE DEF all, twice, S
  <1>5. DOMAIN Restrict(all, S) = S
    BY DEF Restrict
  <1>6. DOMAIN With(Restrict(all, S), twice) =
           DOMAIN Restrict(all, S) \cup DOMAIN twice
    BY DEF With
  <1>7. IsFiniteSet(S)
    BY <1>2, <1>4, FS_Subset
  <1>8. IsFiniteSet({0})
    BY FS_Singleton
  <1>9. IsFiniteSet(DOMAIN twice)
    BY <1>3, <1>8, FS_Subset
  <1>10. IsFiniteSet(S \cup DOMAIN twice)
    BY <1>7, <1>9, FS_Union
  <1> QED BY <1>1, <1>5, <1>6, <1>10

Spread(style) == style = "module"
Json(style) == style = "json"

LEMMA DirectoryFaithful ==
    ASSUME NEW l \in Landscapes, NEW style, NEW dir,
           dir.blocks = Directory(l, style).blocks,
           Spread(style) => dir.modules, Json(style) => dir.json
    PROVE  Faithful(ParseDirectory(dir), l, style, {})
  <1> DEFINE c == ParseDirectory(dir)
             rs == Range(c.resources)
             quiet == c.diagnostics = {} /\ c.unsupported \subseteq InertTypes
  <1>1. /\ c.resources = Supported(dir.blocks)
        /\ c.unsupported = Unsupported(dir.blocks)
        /\ dir.modules \/ dir.json => c.diagnostics # {}
    BY DEF ParseDirectory
  <1>2. /\ ReadFrom(rs, l, style)
        /\ style \notin {"module", "json"} => Covers(rs, l, style, {})
    BY DirectoryRead
  <1>3. style \notin {"module", "json"} =>
           BlocksOf(l, style) \subseteq Range(dir.blocks)
    BY DirectoryBlocks
  <1>4. IsFiniteSet(DOMAIN c.resources)
    <2>1. DOMAIN c.resources \subseteq DOMAIN dir.blocks
      BY <1>1 DEF Supported, Restrict
    <2>2. IsFiniteSet(DOMAIN dir.blocks)
      BY DirectoryFinite
    <2> HIDE DEF c
    <2> QED BY <2>1, <2>2, FS_Subset
  <1>5. quiet => style \notin {"module", "json"}
    BY <1>1 DEF Spread, Json
  <1> HIDE DEF c
  <1>6. quiet => Inside(style)
    <2> SUFFICES ASSUME quiet, ~Inside(style) PROVE FALSE
      OBVIOUS
    <2>1. PICK x \in BlocksOf(l, style) :
             /\ x.type = "aws_vpc_security_group_ingress_rule"
             /\ x.type \notin SupportedTypes
      BY RuleBlock
    <2>2. x \in Range(dir.blocks)
      BY <1>3, <1>5, <2>1
    <2>3. x.type \in c.unsupported
      BY <1>1, <2>1, <2>2 DEF Unsupported
    <2> QED BY <2>1, <2>3, NotInert
  <1> QED BY <1>2, <1>4, <1>5, <1>6 DEF Faithful, c

LEMMA PlanFaithful ==
    ASSUME NEW l0 \in Landscapes, NEW l1 \in Landscapes, NEW style,
           Plannable(style), NEW phase \in {"before", "after"}
    PROVE  Faithful(ParsePlan(Plan(l0, l1, style), phase),
                    SideLand(l0, l1, style, phase), style,
                    SideGone(style, phase))
  <1> DEFINE p == Plan(l0, l1, style)
             entries == ValuesResources(p, phase)
             l == SideLand(l0, l1, style, phase)
             fresh == SideUnknown(style, phase)
             gone == SideGone(style, phase)
             B == SideBlocks(l0, l1, style, phase)
             rs == Range(ModelledOf(entries))
             references == IF phase = "after" THEN p.references ELSE <<>>
             c == ParsePlan(p, phase)
             quiet == c.diagnostics = {} /\ c.unsupported \subseteq InertTypes
  <1>1. /\ Range(c.resources) = {Relink(rs, references, e) : e \in rs}
        /\ c.diagnostics = PlanDiagnostics(p, phase)
        /\ \A e \in Range(ManagedOf(entries)) :
              e.type \in SupportedTypes /\ e.place # "root" =>
                 "module or indexed address" \in c.unsupported
        /\ \A e \in Range(ManagedOf(entries)) :
              e.type \notin SupportedTypes => e.type \in c.unsupported
    BY ParsedAre
  <1>2. IsFiniteSet(DOMAIN c.resources)
    BY ValuesFinite, ParsedFinite
  <1>3. Linkable(l, style, fresh, references, rs)
    BY PlanLinkable
  <1>4. l \in Landscapes
    BY OlderIs DEF SideLand
  <1>5. \A e \in rs : \E x \in B : x.type \in SupportedTypes
                                   /\ e = Entry(x, fresh, style)
    BY SideShown
  <1>6. \A x \in B : x \in BlocksOf(l, style)
    BY DEF SideBlocks
  <1>7. quiet => HasSnapshot(style, phase)
    <2>1. ~HasSnapshot(style, phase) => Snapshot(p, phase) = <<>>
      BY NoSnapshot
    <2> HIDE DEF p, c
    <2>2. Snapshot(p, phase) = <<>> =>
             "PARTIAL_PLAN_SNAPSHOT" \in PlanDiagnostics(p, phase)
      BY DEF PlanDiagnostics
    <2> QED BY <1>1, <2>1, <2>2
  <1>8. HasSnapshot(style, phase) =>
           \A x \in B :
              /\ Entry(x, fresh, style) \in Range(ManagedOf(entries))
              /\ x.type \in SupportedTypes
                 /\ PlaceOf(x.address, style) = "root" =>
                    Entry(x, fresh, style) \in rs
    BY SideHolds
  <1>9. /\ Instance(l, style) \in B /\ Group(l, "g1", style) \in B
        /\ Instance(l, style).type \in SupportedTypes
        /\ Instance(l, style).address = "e1"
        /\ Group(l, "g1", style).type \in SupportedTypes
        /\ Group(l, "g1", style).address = "g1"
    <2>1. Instance(l, style).type = "aws_instance"
          /\ Instance(l, style).address = "e1"
      BY DEF Instance, R
    <2>2. {"aws_instance", "aws_security_group"} \subseteq SupportedTypes
      BY DEF SupportedTypes, SecurityAttributes
    <2> QED BY <2>1, <2>2, ProfileThere, GroupType
  <1>10. \A x : x \in B <=> x \in BlocksOf(l, style) /\ x.address \notin gone
    BY DEF SideBlocks
  <1>11. gone \subseteq {"g2", "b2"}
    BY FreshIs DEF SideGone
  <1> HIDE DEF c, entries, rs, references, B, fresh, l, gone, p
  <1>12. \A x \in BlocksOf(l, style) : x.type \in SupportedTypes =>
            /\ Reads(Relink(rs, references, Entry(x, fresh, style)), x)
            /\ Rules(Relink(rs, references, Entry(x, fresh, style))) = Rules(x)
    BY <1>3, <1>4, EntryReads
  <1>13. ReadFrom(Range(c.resources), l, style)
    <2> SUFFICES ASSUME NEW r \in Range(c.resources)
                 PROVE  \E x \in BlocksOf(l, style) : Reads(r, x)
      BY DEF ReadFrom
    <2>1. PICK e \in rs : r = Relink(rs, references, e)
      BY <1>1
    <2>2. PICK x \in B : x.type \in SupportedTypes
                         /\ e = Entry(x, fresh, style)
      BY <1>5, <2>1
    <2> QED BY <1>6, <1>12, <2>1, <2>2
  <1>14. ASSUME quiet, NEW x \in B, x.type \in SupportedTypes
         PROVE  PlaceOf(x.address, style) = "root"
    <2> DEFINE e == Entry(x, fresh, style)
    <2>1. e \in Range(ManagedOf(entries))
      BY <1>7, <1>8, <1>14
    <2>2. e.type = x.type /\ e.place = PlaceOf(x.address, style)
      BY EntryFields
    <2> HIDE DEF e
    <2>3. e.place # "root" => "module or indexed address" \in c.unsupported
      BY <1>1, <1>14, <2>1, <2>2
    <2> QED BY <1>14, <2>2, <2>3, NotInert
  <1>15. ASSUME quiet PROVE Covers(Range(c.resources), l, style, gone)
    <2> SUFFICES ASSUME NEW x \in BlocksOf(l, style),
                        x.type \in SupportedTypes, x.address \notin gone
                 PROVE  \E r \in Range(c.resources) :
                           Reads(r, x) /\ Rules(r) = Rules(x)
      BY DEF Covers
    <2>1. x \in B
      BY <1>10
    <2>2. PlaceOf(x.address, style) = "root"
      BY <1>14, <1>15, <2>1
    <2>3. Entry(x, fresh, style) \in rs
      BY <1>7, <1>8, <1>15, <2>1, <2>2
    <2>4. Relink(rs, references, Entry(x, fresh, style)) \in Range(c.resources)
      BY <1>1, <2>3
    <2> QED BY <1>12, <2>4
  <1>16. ASSUME quiet, ~Inside(style) PROVE FALSE
    <2>1. PICK x \in BlocksOf(l, style) :
             /\ x.type = "aws_vpc_security_group_ingress_rule"
             /\ x.type \notin SupportedTypes
             /\ x.address = "sr1"
      BY <1>16, RuleBlock
    <2>2. x \in B
      BY <1>10, <1>11, <2>1
    <2> DEFINE e == Entry(x, fresh, style)
    <2>3. e \in Range(ManagedOf(entries)) /\ e.type = x.type
      BY <1>7, <1>8, <1>16, <2>2, EntryFields
    <2> HIDE DEF e
    <2>4. x.type \in c.unsupported
      BY <1>1, <2>1, <2>3
    <2> QED BY <1>16, <2>1, <2>4, NotInert
  <1> QED BY <1>2, <1>13, <1>15, <1>16 DEF Faithful, c, l, gone, p

-----------------------------------------------------------------------------
(* A configuration without gaps that a parser made of a landscape.         *)
Clear(config, l, style, gone) ==
    LET rs == Range(config.resources) IN
    /\ ReadFrom(rs, l, style) /\ Covers(rs, l, style, gone) /\ Inside(style)
    /\ \A r, s \in rs : r.address = s.address => r = s
    /\ \A r \in rs : ~Gap(config, r)
Absent(l, gone) ==
    /\ l \in Landscapes /\ gone \subseteq {"g2", "b2"}
    /\ "g2" \in gone => l.open["g2"] = {} /\ "g2" \notin l.attached
    /\ "b2" \in gone => "b2" \notin l.access /\ "b2" \notin l.sensitive

LEMMA AddressOnce ==
    ASSUME NEW config, IsFiniteSet(DOMAIN config.resources),
           \A r \in Range(config.resources) : ~Gap(config, r)
    PROVE  /\ Unambiguous(config) = Range(config.resources)
           /\ \A r, s \in Range(config.resources) :
                 r.address = s.address => r = s
  <1> DEFINE list == config.resources
  <1>1. ASSUME NEW i \in DOMAIN list
        PROVE  /\ Cardinality(Copies(config, list[i].address)) = 1
               /\ IsFiniteSet(Copies(config, list[i].address))
               /\ i \in Copies(config, list[i].address)
    <2> DEFINE C == Copies(config, list[i].address)
    <2>1. C \subseteq DOMAIN list /\ i \in C
      BY DEF Copies
    <2>2. list[i] \in Range(list)
      BY DEF Range
    <2>3. ~(Cardinality(C) > 1)
      BY <2>2 DEF Gap
    <2>4. IsFiniteSet(C)
      BY <2>1, FS_Subset
    <2> HIDE DEF C
    <2>5. Cardinality(C) \in Nat /\ Cardinality(C) # 0
      BY <2>1, <2>4, FS_CardinalityType, FS_EmptySet
    <2> QED BY <2>1, <2>3, <2>4, <2>5 DEF C
  <1>2. \A r \in Range(list) : \E i \in DOMAIN list : r = list[i]
    BY DEF Range
  <1>3. ASSUME NEW r \in Range(list)
        PROVE  Cardinality(Copies(config, r.address)) = 1
    BY <1>1, <1>2
  <1>4. ASSUME NEW i \in DOMAIN list, NEW j \in DOMAIN list,
               list[i].address = list[j].address
        PROVE  i = j
    <2> DEFINE C == Copies(config, list[i].address)
    <2>1. /\ Cardinality(C) = 1 /\ IsFiniteSet(C) /\ i \in C
      BY <1>1
    <2>2. j \in C
      BY <1>4 DEF Copies
    <2> HIDE DEF C
    <2> QED BY <2>1, <2>2, FS_Singleton
  <1>5. \A r, s \in Range(list) : r.address = s.address => r = s
    BY <1>2, <1>4
  <1> QED BY <1>3, <1>5 DEF Unambiguous

LEMMA ClearIs ==
    ASSUME NEW config, NEW l, NEW style, NEW gone,
           Faithful(config, l, style, gone), Complete(config)
    PROVE  /\ Clear(config, l, style, gone)
           /\ Unambiguous(config) = Range(config.resources)
  <1>1. IsFiniteSet(DOMAIN config.resources)
    BY DEF Faithful
  <1>2. \A r \in Range(config.resources) : ~Gap(config, r)
    BY DEF Complete
  <1> QED BY <1>1, <1>2, AddressOnce DEF Faithful, Complete, Clear

(* The resource and the block at an address.                               *)
LEMMA ResourceOf ==
    ASSUME NEW config, NEW l, NEW style, NEW gone,
           Clear(config, l, style, gone),
           NEW r \in Range(config.resources)
    PROVE  \E x \in BlocksOf(l, style) :
              /\ Reads(r, x) /\ ~Gap(config, r)
              /\ x.type \in SupportedTypes /\ x.address \notin gone =>
                    Rules(r) = Rules(x)
  <1> DEFINE rs == Range(config.resources)
  <1>1. PICK x \in BlocksOf(l, style) : Reads(r, x)
    BY DEF Clear, ReadFrom
  <1>2. ASSUME x.type \in SupportedTypes, x.address \notin gone
        PROVE  Rules(r) = Rules(x)
    <2>1. PICK s \in rs : Reads(s, x) /\ Rules(s) = Rules(x)
      BY <1>2 DEF Clear, Covers
    <2>2. s.address = r.address
      BY <1>1, <2>1 DEF Reads
    <2> QED BY <2>1, <2>2 DEF Clear
  <1> QED BY <1>1, <1>2 DEF Clear

LEMMA BlockRead ==
    ASSUME NEW config, NEW l, NEW style, NEW gone,
           Clear(config, l, style, gone),
           NEW x \in BlocksOf(l, style), x.type \in SupportedTypes,
           x.address \notin gone
    PROVE  \E r \in OfType(Range(config.resources), x.type) :
              /\ Reads(r, x) /\ ~Gap(config, r) /\ Rules(r) = Rules(x)
              /\ r.address = x.address
  <1>1. PICK r \in Range(config.resources) : Reads(r, x) /\ Rules(r) = Rules(x)
    BY DEF Clear, Covers
  <1> QED BY <1>1 DEF Clear, OfType, Reads

LEMMA Supports ==
    /\ {"aws_security_group", "aws_instance", "aws_iam_instance_profile",
        "aws_iam_role", "aws_s3_bucket", "aws_iam_role_policy_attachment",
        "aws_iam_policy", "aws_iam_role_policy", "aws_s3_bucket_acl",
        "aws_s3_bucket_policy", "aws_s3_bucket_public_access_block"}
          \subseteq SupportedTypes
  BY DEF SupportedTypes, SecurityAttributes

(* What no gap means for a link, a plain attribute and a policy.           *)
LEMMA LinkedAll ==
    ASSUME NEW config, NEW r, NEW x, Reads(r, x), ~Gap(config, r),
           NEW n \in LinkAttributes(x.type)
    PROVE  /\ References(r, n) = NamedBy(x, n)
           /\ Expr \notin Members(x, n)
  <1>1. r.type = x.type
    BY DEF Reads
  <1>2. ~Unlinked(r, n)
    BY <1>1 DEF Gap
  <1> QED BY <1>2 DEF Reads, ReadsLink

LEMMA PlainKnown ==
    ASSUME NEW config, NEW r, ~Gap(config, r),
           NEW n \in SecurityAttributes[r.type], n \notin {"ingress", "policy"}
    PROVE  /\ Expr \notin Members(r, n)
           /\ References(r, n) \subseteq Known(config)
  <1>1. CASE Has(r, n)
    <2>1. n \in PlainAttributes(r)
      BY <1>1 DEF PlainAttributes, Has
    <2> QED BY <2>1 DEF Gap
  <1>2. CASE ~Has(r, n)
    BY <1>2 DEF References, Addresses, Members
  <1> QED BY <1>1, <1>2

LEMMA PolicyClear ==
    ASSUME NEW config, NEW r, ~Gap(config, r), r.type \in PolicyTypes
    PROVE  /\ Has(r, "policy") /\ Statements(r) = r.attrs["policy"].statements
           /\ \A t \in Statements(r) :
                 /\ ~t.condition /\ Expr \notin t.resources
                 /\ r.type = "aws_s3_bucket_policy" =>
                       t.principal \notin {"absent", "partial"}
  <1>1. ~PolicyGap(r)
    BY DEF Gap
  <1> QED BY <1>1 DEF PolicyGap, StatementGap, Statements

-----------------------------------------------------------------------------
LEMMA EdgeEnds ==
    ASSUME NEW a, NEW b, NEW relationship, NEW risk, NEW port
    PROVE  EdgeOf(Edge(a, b, relationship, risk, port)) = <<a, b>>
  BY DEF EdgeOf, Edge

LEMMA IngressAre ==
    ASSUME NEW rs, NEW f
    PROVE  f \in IngressFindings(rs) <=>
              \E sg \in OfType(rs, "aws_security_group") :
                 \E rule \in PublicIngress(sg) :
                    f = Edge(Internet, sg.address, "INGRESS_ALLOWS",
                             IngressRisk(rule), PortOf(rule))
  BY DEF IngressFindings

LEMMA ContainsAre ==
    ASSUME NEW rs, NEW f
    PROVE  f \in ContainsFindings(rs) <=>
              \E c \in OfType(rs, "aws_s3_bucket") :
                 /\ Literal("sensitive") \in Members(c, "tags")
                 /\ f = Edge(c.address, MarkerOf[c.address], "CONTAINS", HIGH,
                             "none")
  BY DEF ContainsFindings

(* The edges into the groups.                                              *)
LEMMA IngressExact ==
    ASSUME NEW config, NEW l, NEW style, NEW gone,
           Clear(config, l, style, gone), Absent(l, gone), NEW e
    PROVE  (\E f \in IngressFindings(Range(config.resources)) : EdgeOf(f) = e)
           <=> \E g \in Groups : l.open[g] # {} /\ e = <<Internet, g>>
  <1> DEFINE rs == Range(config.resources)
  <1>1. (\E f \in IngressFindings(rs) : EdgeOf(f) = e) <=>
        \E sg \in OfType(rs, "aws_security_group") :
           PublicIngress(sg) # {} /\ e = <<Internet, sg.address>>
    BY IngressAre, EdgeEnds
  <1>2. ASSUME NEW sg \in OfType(rs, "aws_security_group"),
               PublicIngress(sg) # {}
        PROVE  sg.address \in Groups /\ l.open[sg.address] # {}
    <2>1. ReadFrom(rs, l, style) /\ l \in Landscapes
      BY DEF Clear, Absent
    <2>2. /\ sg.address \in Groups
          /\ Rules(sg) \subseteq {Rule(p, style) : p \in l.open[sg.address]}
                                 \cup {PrivateRule(style)}
      BY <2>1, GroupsRead
    <2>3. PICK rule \in PublicIngress(sg) : TRUE
      BY <1>2
    <2>4. rule \in Rules(sg) /\ rule.cidr = "public"
      BY <2>3 DEF PublicIngress
    <2>5. PrivateRule(style).cidr = "private"
      BY DEF PrivateRule
    <2> QED BY <2>2, <2>4, <2>5
  <1>3. ASSUME NEW g \in Groups, l.open[g] # {}
        PROVE  \E sg \in OfType(rs, "aws_security_group") :
                  PublicIngress(sg) # {} /\ sg.address = g
    <2> DEFINE x == Group(l, g, style)
    <2>1. g \notin gone
      BY <1>3 DEF Absent, Groups
    <2>2. x \in BlocksOf(l, style)
      BY DEF BlocksOf, Groups
    <2>3. x.type = "aws_security_group" /\ x.address = g
      BY GroupType
    <2>4. Rules(x) = {Rule(p, style) : p \in l.open[g]} \cup {PrivateRule(style)}
      BY GroupRules DEF Clear, Inside
    <2>5. l.open[g] \subseteq PortKinds
      BY DEF Absent, Landscapes, PortKinds
    <2> HIDE DEF x
    <2>6. PICK sg \in OfType(rs, x.type) :
             /\ Reads(sg, x) /\ ~Gap(config, sg) /\ Rules(sg) = Rules(x)
             /\ sg.address = x.address
      BY <2>1, <2>2, <2>3, BlockRead, Supports
    <2>7. PICK p \in l.open[g] : TRUE
      BY <1>3
    <2>8. Rule(p, style) \in Rules(sg)
      BY <2>4, <2>6, <2>7
    <2>9. ~IngressGap(Rule(p, style))
      BY <2>6, <2>8 DEF Gap
    <2>10. Rule(p, style).cidr \in {"public", "expr"}
      BY <2>5, <2>7, RuleIs
    <2>11. Rule(p, style) \in PublicIngress(sg)
      BY <2>8, <2>9, <2>10 DEF IngressGap, PublicIngress
    <2> QED BY <2>3, <2>6, <2>11
  <1> QED BY <1>1, <1>2, <1>3

(* The edge to the bucket markers.                                         *)
LEMMA ContainsExact ==
    ASSUME NEW config, NEW l, NEW style, NEW gone,
           Clear(config, l, style, gone), Absent(l, gone), NEW e
    PROVE  (\E f \in ContainsFindings(Range(config.resources)) : EdgeOf(f) = e)
           <=> \E b \in l.sensitive : e = <<b, MarkerOf[b]>>
  <1> DEFINE rs == Range(config.resources)
  <1>1. (\E f \in ContainsFindings(rs) : EdgeOf(f) = e) <=>
        \E c \in OfType(rs, "aws_s3_bucket") :
           /\ Literal("sensitive") \in Members(c, "tags")
           /\ e = <<c.address, MarkerOf[c.address]>>
    BY ContainsAre, EdgeEnds
  <1>2. "tags" \in PlainNames
    BY DEF PlainNames
  <1>3. ASSUME NEW c \in OfType(rs, "aws_s3_bucket")
        PROVE  /\ c.address \in Buckets
               /\ Literal("sensitive") \in Members(c, "tags") <=>
                     c.address \in l.sensitive
    <2>1. PICK x \in BlocksOf(l, style) : Reads(c, x) /\ ~Gap(config, c)
      BY ResourceOf DEF OfType
    <2>2. /\ x.type = "aws_s3_bucket" /\ x.address = c.address
          /\ Members(c, "tags") = Members(x, "tags")
      BY <1>2, <2>1 DEF Reads, OfType
    <2>3. PICK b \in Buckets : x = Bucket(l, b, style)
      BY <2>2, BlockKinds
    <2>4. b = c.address
      BY <2>2, <2>3, BucketType
    <2>5. Members(c, "tags") = TagMembers(l, b, style)
      BY <2>2, <2>3, BucketAcl
    <2>6. Expr \notin Members(c, "tags")
      <3>1. c.type = "aws_s3_bucket"
        BY DEF OfType
      <3>2. "tags" \in SecurityAttributes[c.type]
        BY <3>1 DEF SecurityAttributes
      <3> QED BY <2>1, <3>2, PlainKnown
    <2>7. TagMembers(l, b, style) =
             IF b \in l.sensitive THEN {Literal("sensitive")} ELSE {}
      BY <2>5, <2>6 DEF TagMembers
    <2> QED BY <2>4, <2>5, <2>7
  <1>4. ASSUME NEW b \in l.sensitive
        PROVE  \E c \in OfType(rs, "aws_s3_bucket") : c.address = b
    <2> DEFINE x == Bucket(l, b, style)
    <2>1. b \in Buckets /\ b \notin gone
      BY DEF Absent, Landscapes, Buckets
    <2>2. x \in BlocksOf(l, style)
      BY <2>1 DEF BlocksOf, Buckets
    <2>3. x.type = "aws_s3_bucket" /\ x.address = b
      BY BucketType
    <2> HIDE DEF x
    <2> QED BY <2>1, <2>2, <2>3, BlockRead, Supports
  <1> QED BY <1>1, <1>3, <1>4

-----------------------------------------------------------------------------
LEMMA NamedMember ==
    ASSUME NEW x, NEW n, NEW m \in Members(x, n),
           m[1] \in {"ref", "literal"}
    PROVE  m[2] \in NamedBy(x, n)
  <1>1. m # Expr /\ m # Null
    BY MemberKinds
  <1> QED BY <1>1 DEF NamedBy

LEMMA OneNamed ==
    ASSUME NEW x, NEW n, NEW m, Has(x, n), x.attrs[n] = <<m>>,
           m[1] \in {"ref", "literal"}
    PROVE  Members(x, n) = {m} /\ NamedBy(x, n) = {m[2]}
  <1>1. Range(<<m>>) = {m}
    BY ShortLists
  <1>2. Members(x, n) = {m}
    BY <1>1 DEF Members
  <1>3. m # Expr /\ m # Null
    BY MemberKinds
  <1> QED BY <1>2, <1>3 DEF NamedBy

LEMMA NoneNamed ==
    ASSUME NEW x, NEW n, ~Has(x, n)
    PROVE  NamedBy(x, n) = {}
  BY DEF NamedBy, Members

LEMMA GroupListNamed ==
    ASSUME NEW l, l.attached \subseteq Groups, NEW style,
           Expr \notin Range(GroupList(l, style))
    PROVE  {m[2] : m \in Range(GroupList(l, style)) \ {Expr, Null}}
              = l.attached
  <1> DEFINE list == GroupList(l, style)
  <1>1. Lists(style)
    <2>1. Range(<<Expr>>) = {Expr}
      BY ShortLists
    <2> QED BY <2>1 DEF GroupList, Lists
  <1>2. \A g : /\ GroupMember(g, style)[2] = g
               /\ GroupMember(g, style) # Expr /\ GroupMember(g, style) # Null
    BY MemberKinds DEF GroupMember
  <1>3. /\ \A i \in DOMAIN list : \E g \in l.attached :
              list[i] = GroupMember(g, style)
        /\ \A g \in l.attached : \E i \in DOMAIN list :
              list[i] = GroupMember(g, style)
    <2> HIDE DEF list
    <2> QED BY <1>1, GroupsListed DEF list
  <1> HIDE DEF list
  <1>4. Range(list) = {GroupMember(g, style) : g \in l.attached}
    BY <1>3 DEF Range
  <1> QED BY <1>2, <1>4 DEF list

LEMMA InstanceNamed ==
    ASSUME NEW l \in Landscapes, NEW style, NEW x, x = Instance(l, style),
           Expr \notin Members(x, "vpc_security_group_ids"),
           Expr \notin Members(x, "security_groups")
    PROVE  /\ NamedBy(x, "vpc_security_group_ids") \cup
                 NamedBy(x, "security_groups") = l.attached
           /\ NamedBy(x, "iam_instance_profile") \in {{"p1"}, {"r1"}}
  <1> DEFINE name == AttachedName(style)
             profile == Ref(IF style = "role direct" THEN "r1" ELSE "p1")
  <1>1. /\ DOMAIN x.attrs \ {"count"} = {"iam_instance_profile", name}
        /\ x.attrs["iam_instance_profile"] = <<profile>>
        /\ x.attrs[name] = GroupList(l, style)
    BY InstanceAttrs
  <1>2. name \in {"vpc_security_group_ids", "security_groups"}
    BY DEF AttachedName
  <1>3. l.attached \subseteq Groups
    BY DEF Landscapes
  <1>7. profile[1] = "ref" /\ profile[2] \in {"p1", "r1"}
    BY MemberKinds
  <1> HIDE DEF name, profile
  <1>4. /\ Has(x, name) /\ Has(x, "iam_instance_profile")
        /\ \A n \in {"vpc_security_group_ids", "security_groups"} :
              n # name => ~Has(x, n)
    BY <1>1, <1>2 DEF Has
  <1>5. Members(x, name) = Range(GroupList(l, style))
    BY <1>1, <1>4 DEF Members
  <1>6. NamedBy(x, name) = l.attached
    BY <1>2, <1>3, <1>5, GroupListNamed DEF NamedBy
  <1>8. NamedBy(x, "iam_instance_profile") = {profile[2]}
    <2>1. profile[1] \in {"ref", "literal"}
      BY <1>7
    <2> QED BY <1>1, <1>4, <2>1, OneNamed
  <1> QED BY <1>2, <1>4, <1>6, <1>7, <1>8, NoneNamed

LEMMA InstanceRead ==
    ASSUME NEW config, NEW l, NEW style, NEW gone,
           Clear(config, l, style, gone), Absent(l, gone),
           NEW i \in OfType(Range(config.resources), "aws_instance")
    PROVE  /\ i.address = "e1" /\ Attached(i) = l.attached
           /\ References(i, "iam_instance_profile") \in {{"p1"}, {"r1"}}
  <1>1. PICK x \in BlocksOf(l, style) : Reads(i, x) /\ ~Gap(config, i)
    BY ResourceOf DEF OfType
  <1>2. x.type = "aws_instance" /\ x.address = i.address
    BY <1>1 DEF Reads, OfType
  <1>3. x = Instance(l, style)
    BY <1>2, BlockKinds
  <1>4. {"iam_instance_profile", "vpc_security_group_ids", "security_groups"}
           = LinkAttributes(x.type)
    BY <1>2, LinkNames
  <1>5. \A n \in LinkAttributes(x.type) :
           References(i, n) = NamedBy(x, n) /\ Expr \notin Members(x, n)
    BY <1>1, LinkedAll
  <1>6. i.address = "e1"
    BY <1>2, <1>3 DEF Instance, R
  <1>7. l \in Landscapes
    BY DEF Absent
  <1> QED BY <1>3, <1>4, <1>5, <1>6, <1>7, InstanceNamed DEF Attached

LEMMA InstanceThere ==
    ASSUME NEW config, NEW l, NEW style, NEW gone,
           Clear(config, l, style, gone), Absent(l, gone)
    PROVE  /\ \E i \in OfType(Range(config.resources), "aws_instance") : TRUE
           /\ \E r \in OfType(Range(config.resources), "aws_iam_role") :
                 r.address = "r1"
           /\ \E p \in OfType(Range(config.resources),
                              "aws_iam_instance_profile") : p.address = "p1"
           /\ \A g \in l.attached :
                 \E s \in OfType(Range(config.resources),
                                 "aws_security_group") : s.address = g
  <1> DEFINE i == Instance(l, style)
             role == Role(style)
             profile == Profile
  <1>1. {i, role, profile} \subseteq BlocksOf(l, style)
    BY DEF BlocksOf
  <1>2. /\ i.type = "aws_instance" /\ i.address = "e1"
        /\ role.type = "aws_iam_role" /\ role.address = "r1"
        /\ profile.type = "aws_iam_instance_profile" /\ profile.address = "p1"
    BY DEF Instance, Role, Profile, R
  <1>3. \A a \in {"e1", "r1", "p1"} : a \notin gone
    BY DEF Absent
  <1>4. ASSUME NEW g \in l.attached
        PROVE  \E s \in OfType(Range(config.resources), "aws_security_group") :
                  s.address = g
    <2> DEFINE x == Group(l, g, style)
    <2>1. g \in Groups /\ g \notin gone
      BY DEF Absent, Landscapes, Groups
    <2>2. x \in BlocksOf(l, style)
      BY <2>1 DEF BlocksOf, Groups
    <2>3. x.type = "aws_security_group" /\ x.address = g
      BY GroupType
    <2> HIDE DEF x
    <2> QED BY <2>1, <2>2, <2>3, BlockRead, Supports
  <1> HIDE DEF i, role, profile
  <1>5. \E r \in OfType(Range(config.resources), "aws_instance") : TRUE
    BY <1>1, <1>2, <1>3, BlockRead, Supports
  <1>6. \E r \in OfType(Range(config.resources), "aws_iam_role") :
           r.address = "r1"
    BY <1>1, <1>2, <1>3, BlockRead, Supports
  <1>7. \E r \in OfType(Range(config.resources), "aws_iam_instance_profile") :
           r.address = "p1"
    BY <1>1, <1>2, <1>3, BlockRead, Supports
  <1> QED BY <1>4, <1>5, <1>6, <1>7

LEMMA ProfileRead ==
    ASSUME NEW config, NEW l, NEW style, NEW gone,
           Clear(config, l, style, gone),
           NEW p \in OfType(Range(config.resources), "aws_iam_instance_profile")
    PROVE  p.address = "p1" /\ References(p, "role") = {"r1"}
  <1>1. PICK x \in BlocksOf(l, style) : Reads(p, x) /\ ~Gap(config, p)
    BY ResourceOf DEF OfType
  <1>2. x.type = "aws_iam_instance_profile" /\ x.address = p.address
    BY <1>1 DEF Reads, OfType
  <1>3. x = Profile
    BY <1>2, BlockKinds
  <1>4. "role" \in LinkAttributes(x.type)
    BY <1>2, LinkNames
  <1>5. Has(x, "role") /\ x.attrs["role"] = <<Ref("r1")>>
    BY <1>3, RoleBlockAttrs DEF Has
  <1>6. NamedBy(x, "role") = {"r1"}
    <2>1. Ref("r1")[1] \in {"ref", "literal"} /\ Ref("r1")[2] = "r1"
      BY MemberKinds
    <2>2. NamedBy(x, "role") = {Ref("r1")[2]}
      BY <1>5, <2>1, OneNamed
    <2> QED BY <2>1, <2>2
  <1>7. p.address = "p1"
    BY <1>2, <1>3 DEF Profile, R
  <1> QED BY <1>1, <1>4, <1>6, <1>7, LinkedAll

(* The edges of the instance.                                              *)
LEMMA InstanceExact ==
    ASSUME NEW config, NEW l, NEW style, NEW gone,
           Clear(config, l, style, gone), Absent(l, gone), NEW e
    PROVE  (\E f \in InstanceFindings(Range(config.resources)) : EdgeOf(f) = e)
           <=> e = <<"e1", "r1">> \/ \E g \in l.attached : e = <<g, "e1">>
  <1> DEFINE rs == Range(config.resources)
  <1>1. (\E f \in ProtectsIn(rs) : EdgeOf(f) = e) <=>
           \E i \in OfType(rs, "aws_instance") :
              \E s \in OfType(rs, "aws_security_group") :
                 s.address \in Attached(i) /\ e = <<s.address, i.address>>
    <2>1. ASSUME NEW f \in ProtectsIn(rs), EdgeOf(f) = e
          PROVE  \E i \in OfType(rs, "aws_instance") :
                    \E s \in OfType(rs, "aws_security_group") :
                       s.address \in Attached(i) /\ e = <<s.address, i.address>>
      <3>1. PICK i \in OfType(rs, "aws_instance"),
                 s \in OfType(rs, "aws_security_group") :
                    /\ s.address \in Attached(i)
                    /\ f = Edge(s.address, i.address, "PROTECTS", LOW, "none")
        BY <2>1, ProtectsAre
      <3>2. EdgeOf(f) = <<s.address, i.address>>
        BY <3>1, EdgeEnds
      <3> QED BY <2>1, <3>1, <3>2
    <2>2. ASSUME NEW i \in OfType(rs, "aws_instance"),
                 NEW s \in OfType(rs, "aws_security_group"),
                 s.address \in Attached(i), e = <<s.address, i.address>>
          PROVE  \E f \in ProtectsIn(rs) : EdgeOf(f) = e
      <3> DEFINE f == Edge(s.address, i.address, "PROTECTS", LOW, "none")
      <3>1. f \in ProtectsIn(rs)
        BY <2>2, ProtectsAre
      <3>2. EdgeOf(f) = <<s.address, i.address>>
        BY EdgeEnds
      <3> HIDE DEF f
      <3> QED BY <2>2, <3>1, <3>2
    <2> QED BY <2>1, <2>2
  <1>2. (\E f \in AssumesIn(rs) : EdgeOf(f) = e) <=>
           \E i \in OfType(rs, "aws_instance") :
              \E r \in OfType(rs, "aws_iam_role") :
                 /\ r.address \in InstanceRoles(rs, i)
                 /\ e = <<i.address, r.address>>
    <2>1. ASSUME NEW f \in AssumesIn(rs), EdgeOf(f) = e
          PROVE  \E i \in OfType(rs, "aws_instance") :
                    \E r \in OfType(rs, "aws_iam_role") :
                       /\ r.address \in InstanceRoles(rs, i)
                       /\ e = <<i.address, r.address>>
      <3>1. PICK i \in OfType(rs, "aws_instance"),
                 r \in OfType(rs, "aws_iam_role") :
                    /\ r.address \in InstanceRoles(rs, i)
                    /\ f = Edge(i.address, r.address, "ASSUMES_ROLE", MEDIUM,
                                "none")
        BY <2>1, AssumesAre
      <3>2. EdgeOf(f) = <<i.address, r.address>>
        BY <3>1, EdgeEnds
      <3> QED BY <2>1, <3>1, <3>2
    <2>2. ASSUME NEW i \in OfType(rs, "aws_instance"),
                 NEW r \in OfType(rs, "aws_iam_role"),
                 r.address \in InstanceRoles(rs, i),
                 e = <<i.address, r.address>>
          PROVE  \E f \in AssumesIn(rs) : EdgeOf(f) = e
      <3> DEFINE f == Edge(i.address, r.address, "ASSUMES_ROLE", MEDIUM, "none")
      <3>1. f \in AssumesIn(rs)
        BY <2>2, AssumesAre
      <3>2. EdgeOf(f) = <<i.address, r.address>>
        BY EdgeEnds
      <3> HIDE DEF f
      <3> QED BY <2>2, <3>1, <3>2
    <2> QED BY <2>1, <2>2
  <1>3. (\E f \in ProtectsIn(rs) : EdgeOf(f) = e) <=>
           \E g \in l.attached : e = <<g, "e1">>
    BY <1>1, InstanceRead, InstanceThere
  <1>4. \A r \in OfType(rs, "aws_iam_role") : r.address = "r1"
    BY InstancesRead DEF Clear
  <1>5. ASSUME NEW i \in OfType(rs, "aws_instance")
        PROVE  "r1" \in InstanceRoles(rs, i)
    <2>1. References(i, "iam_instance_profile") \in {{"p1"}, {"r1"}}
      BY InstanceRead
    <2>2. CASE References(i, "iam_instance_profile") = {"r1"}
      BY <2>2 DEF InstanceRoles
    <2>3. CASE References(i, "iam_instance_profile") = {"p1"}
      <3>1. PICK p \in OfType(rs, "aws_iam_instance_profile") : p.address = "p1"
        BY InstanceThere
      <3>2. "r1" \in References(p, "role")
        BY ProfileRead
      <3> QED BY <2>3, <3>1, <3>2 DEF InstanceRoles
    <2> QED BY <2>1, <2>2, <2>3
  <1>6. (\E f \in AssumesIn(rs) : EdgeOf(f) = e) <=> e = <<"e1", "r1">>
    BY <1>2, <1>4, <1>5, InstanceRead, InstanceThere
  <1> QED BY <1>3, <1>6, InstanceParts

-----------------------------------------------------------------------------
LEMMA KnownAre ==
    ASSUME NEW config, NEW l, NEW style, NEW gone,
           Clear(config, l, style, gone)
    PROVE  Known(config) \subseteq BlockAddresses
  <1>1. ASSUME NEW r \in Range(config.resources)
        PROVE  r.address \in BlockAddresses
    <2>1. PICK x \in BlocksOf(l, style) : Reads(r, x)
      BY ResourceOf
    <2> QED BY <2>1, BlocksAreAt DEF Reads
  <1> QED BY <1>1 DEF Known

LEMMA GrantsAre ==
    ASSUME NEW l, NEW style
    PROVE  Grants(l, style) \in
              {{Managed(l, style), Attachment(Ref("mp1"))},
               {Attachment(Literal("arn"))}, {Attachment(Ref("mp2"))},
               {Inline(l, style)}}
  BY DEF Grants

(* An attachment names the role and a policy that is there.                *)
LEMMA AttachmentRead ==
    ASSUME NEW config, NEW l, NEW style, NEW gone,
           Clear(config, l, style, gone),
           NEW m, m[1] \in {"ref", "literal"},
           Attachment(m) \in BlocksOf(l, style), "at1" \notin gone
    PROVE  \E a \in OfType(Range(config.resources),
                           "aws_iam_role_policy_attachment") :
              /\ References(a, "role") = {"r1"}
              /\ References(a, "policy_arn") = {m[2]}
              /\ m[2] \in Known(config)
  <1> DEFINE x == Attachment(m)
  <1>1. /\ x.type = "aws_iam_role_policy_attachment" /\ x.address = "at1"
    BY DEF Attachment, R
  <1>2. /\ DOMAIN x.attrs = {"role", "policy_arn"}
        /\ x.attrs["role"] = <<Ref("r1")>> /\ x.attrs["policy_arn"] = <<m>>
    BY RoleBlockAttrs
  <1> HIDE DEF x
  <1>3. Has(x, "role") /\ Has(x, "policy_arn")
    BY <1>2 DEF Has
  <1>4. NamedBy(x, "policy_arn") = {m[2]}
    BY <1>2, <1>3, OneNamed
  <1>5. NamedBy(x, "role") = {"r1"}
    <2>1. Ref("r1")[1] \in {"ref", "literal"} /\ Ref("r1")[2] = "r1"
      BY MemberKinds
    <2>2. NamedBy(x, "role") = {Ref("r1")[2]}
      BY <1>2, <1>3, <2>1, OneNamed
    <2> QED BY <2>1, <2>2
  <1>6. PICK a \in OfType(Range(config.resources), x.type) :
           Reads(a, x) /\ ~Gap(config, a)
    BY <1>1, BlockRead, Supports DEF x
  <1>7. {"role", "policy_arn"} \subseteq LinkAttributes(x.type)
    BY <1>1, LinkNames
  <1>8. References(a, "role") = {"r1"} /\ References(a, "policy_arn") = {m[2]}
    BY <1>4, <1>5, <1>6, <1>7, LinkedAll
  <1>9. "policy_arn" \in SecurityAttributes[a.type]
    <2>1. a.type = "aws_iam_role_policy_attachment"
      BY <1>1, <1>6 DEF OfType
    <2> QED BY <2>1 DEF SecurityAttributes
  <1>10. References(a, "policy_arn") \subseteq Known(config)
    BY <1>6, <1>9, PlainKnown
  <1> QED BY <1>1, <1>6, <1>8, <1>10

(* There is a policy that grants the role what the landscape does.         *)
LEMMA SourceThere ==
    ASSUME NEW config, NEW l, NEW style, NEW gone,
           Clear(config, l, style, gone), Absent(l, gone)
    PROVE  \E p \in PolicySources(Range(config.resources), "r1") :
              /\ p.type \in PolicyTypes /\ ~Gap(config, p)
              /\ Has(p, "policy")
              /\ SamePolicy(p.attrs["policy"], RolePolicy(l, style))
  <1> DEFINE rs == Range(config.resources)
  <1>0. Grants(l, style) \subseteq BlocksOf(l, style)
    BY DEF BlocksOf
  <1>1. \A a \in {"at1", "mp1", "rp1"} : a \notin gone
    BY DEF Absent
  <1>2. Known(config) \subseteq BlockAddresses
    BY KnownAre
  <1>3. CASE Grants(l, style) = {Attachment(Literal("arn"))}
    <2>1. Literal("arn")[1] = "literal" /\ Literal("arn")[2] = "arn"
      BY MemberKinds
    <2>2. Attachment(Literal("arn")) \in BlocksOf(l, style)
      BY <1>0, <1>3
    <2>3. "arn" \in Known(config)
      BY <1>1, <2>1, <2>2, AttachmentRead
    <2> QED BY <1>2, <2>3 DEF BlockAddresses
  <1>4. CASE Grants(l, style) = {Attachment(Ref("mp2"))}
    <2>1. Ref("mp2")[1] = "ref" /\ Ref("mp2")[2] = "mp2"
      BY MemberKinds
    <2>2. Attachment(Ref("mp2")) \in BlocksOf(l, style)
      BY <1>0, <1>4
    <2>3. "mp2" \in Known(config)
      BY <1>1, <2>1, <2>2, AttachmentRead
    <2> QED BY <1>2, <2>3 DEF BlockAddresses
  <1>5. CASE Grants(l, style) = {Inline(l, style)}
    <2> DEFINE x == Inline(l, style)
    <2>1. x \in BlocksOf(l, style)
      BY <1>0, <1>5
    <2>2. x.type = "aws_iam_role_policy" /\ x.address = "rp1"
      BY DEF Inline, R
    <2>3. /\ DOMAIN x.attrs = {"role", "policy"}
          /\ x.attrs["role"] = <<Ref("r1")>>
          /\ x.attrs["policy"] = RolePolicy(l, style)
      BY RoleBlockAttrs
    <2> HIDE DEF x
    <2>4. PICK p \in OfType(rs, x.type) : Reads(p, x) /\ ~Gap(config, p)
      BY <1>1, <2>1, <2>2, BlockRead, Supports
    <2>5. p.type = "aws_iam_role_policy" /\ p \in rs
      BY <2>2, <2>4 DEF OfType
    <2>6. p.type \in PolicyTypes
      BY <2>5 DEF PolicyTypes
    <2>7. Has(p, "policy")
      BY <2>4, <2>6, PolicyClear
    <2>8. SamePolicy(p.attrs["policy"], RolePolicy(l, style))
      BY <2>3, <2>4, <2>7 DEF Reads
    <2>9. NamedBy(x, "role") = {"r1"}
      <3>1. Ref("r1")[1] \in {"ref", "literal"} /\ Ref("r1")[2] = "r1"
        BY MemberKinds
      <3>2. Has(x, "role")
        BY <2>3 DEF Has
      <3>3. NamedBy(x, "role") = {Ref("r1")[2]}
        BY <2>3, <3>1, <3>2, OneNamed
      <3> QED BY <3>1, <3>3
    <2>10. "role" \in LinkAttributes(x.type)
      BY <2>2, LinkNames
    <2>11. "r1" \in References(p, "role")
      BY <2>4, <2>9, <2>10, LinkedAll
    <2>12. p \in PolicySources(rs, "r1")
      BY <2>5, <2>11 DEF PolicySources, Linked, OfType
    <2> QED BY <2>4, <2>6, <2>7, <2>8, <2>12
  <1>6. CASE Grants(l, style) = {Managed(l, style), Attachment(Ref("mp1"))}
    <2> DEFINE x == Managed(l, style)
    <2>1. x \in BlocksOf(l, style) /\ Attachment(Ref("mp1")) \in BlocksOf(l, style)
      BY <1>0, <1>6
    <2>2. x.type = "aws_iam_policy" /\ x.address = "mp1"
      BY DEF Managed, R
    <2>3. x.attrs["policy"] = RolePolicy(l, style)
      BY RoleBlockAttrs
    <2>4. Ref("mp1")[1] = "ref" /\ Ref("mp1")[2] = "mp1"
      BY MemberKinds
    <2> HIDE DEF x
    <2>5. PICK p \in OfType(rs, x.type) :
             Reads(p, x) /\ ~Gap(config, p) /\ p.address = x.address
      BY <1>1, <2>1, <2>2, BlockRead, Supports
    <2>6. p.type = "aws_iam_policy" /\ p \in rs
      BY <2>2, <2>5 DEF OfType
    <2>7. p.type \in PolicyTypes
      BY <2>6 DEF PolicyTypes
    <2>8. Has(p, "policy")
      BY <2>5, <2>7, PolicyClear
    <2>9. SamePolicy(p.attrs["policy"], RolePolicy(l, style))
      BY <2>3, <2>5, <2>8 DEF Reads
    <2>10. PICK a \in OfType(rs, "aws_iam_role_policy_attachment") :
              /\ References(a, "role") = {"r1"}
              /\ References(a, "policy_arn") = {"mp1"}
      BY <1>1, <2>1, <2>4, AttachmentRead
    <2>11. p \in PolicySources(rs, "r1")
      BY <2>2, <2>5, <2>6, <2>10 DEF PolicySources, Linked, OfType
    <2> QED BY <2>5, <2>7, <2>8, <2>9, <2>11
  <1> QED BY <1>3, <1>4, <1>5, <1>6, GrantsAre

-----------------------------------------------------------------------------
(* What a pattern of a grant matches.                                      *)
NamesItself(b) == Members(b, "bucket") = {Literal(b.address)}

LEMMA BucketRead ==
    ASSUME NEW l, NEW style, NEW rs, ReadFrom(rs, l, style),
           NEW b \in OfType(rs, "aws_s3_bucket")
    PROVE  b.address \in Buckets /\ NamesItself(b)
  <1>1. PICK x \in BlocksOf(l, style) : Reads(b, x)
    BY DEF ReadFrom, OfType
  <1>2. x.type = "aws_s3_bucket" /\ x.address = b.address
    BY <1>1 DEF Reads, OfType
  <1>3. Members(x, "bucket") = {Literal(x.address)} /\ x.address \in Buckets
    BY <1>2, BucketName
  <1> QED BY <1>1, <1>2, <1>3 DEF Reads, NamesItself

MatchedBy(address) ==
    {Everything, <<"objects", address>>, <<"objects arn", address>>,
     <<"bucket", address>>, <<"bucket arn", address>>}
ObjectsOf(address) ==
    {Everything, <<"objects", address>>, <<"objects arn", address>>}

LEMMA MatchesIs ==
    ASSUME NEW b, NamesItself(b), NEW q
    PROVE  /\ Matches(q, b, FALSE) <=> q \in MatchedBy(b.address)
           /\ Matches(q, b, TRUE) <=> q \in ObjectsOf(b.address)
  <1>1. Literal(b.address)[2] = b.address
    BY MemberKinds
  <1> QED BY <1>1 DEF Matches, NamesItself, MatchedBy, ObjectsOf

LEMMA PatternsApart ==
    /\ \A c, d :
          {<<"bucket", c>>, <<"bucket arn", c>>} \cap ObjectsOf(d) = {}
    /\ \A c, d : c # d =>
          /\ {<<"bucket", c>>, <<"bucket arn", c>>} \cap MatchedBy(d) = {}
          /\ {<<"objects", c>>, <<"objects arn", c>>} \cap MatchedBy(d) = {}
    /\ \A d : Expr \notin MatchedBy(d) /\ ObjectsOf(d) \subseteq MatchedBy(d)
  BY DEF MatchedBy, ObjectsOf, Everything, Expr

LEMMA PatternMatched ==
    ASSUME NEW b, NamesItself(b), NEW kind \in {"bucket", "objects"}, NEW c,
           NEW style, NEW q, SamePattern(q, Pattern(kind, c, style))
    PROVE  /\ Matches(q, b, FALSE) <=> b.address = c
           /\ Matches(q, b, TRUE) <=> b.address = c /\ kind = "objects"
  <1> DEFINE p == Pattern(kind, c, style)
  <1>1. /\ p[2] = c
        /\ kind = "bucket" => p[1] \in {"bucket", "bucket arn"}
        /\ kind = "objects" => p[1] \in {"objects", "objects arn"}
        /\ p = <<p[1], p[2]>>
    BY DEF Pattern
  <1> HIDE DEF p
  <1>2. SamePattern(q, p)
    BY DEF p
  <1>3. /\ kind = "bucket" => q \in {<<"bucket", c>>, <<"bucket arn", c>>}
        /\ kind = "objects" => q \in {<<"objects", c>>, <<"objects arn", c>>}
    BY <1>1, <1>2 DEF SamePattern
  <1>4. /\ Matches(q, b, FALSE) <=> q \in MatchedBy(b.address)
        /\ Matches(q, b, TRUE) <=> q \in ObjectsOf(b.address)
    BY MatchesIs
  <1>5. CASE kind = "bucket"
    <2>1. q \notin ObjectsOf(b.address)
      BY <1>3, <1>5, PatternsApart
    <2>2. q \in MatchedBy(b.address) => b.address = c
      BY <1>3, <1>5, PatternsApart
    <2>3. b.address = c => q \in MatchedBy(b.address)
      BY <1>3, <1>5 DEF MatchedBy
    <2> QED BY <1>4, <1>5, <2>1, <2>2, <2>3
  <1>6. CASE kind = "objects"
    <2>1. q \in MatchedBy(b.address) => b.address = c
      BY <1>3, <1>6, PatternsApart
    <2>2. b.address = c => q \in ObjectsOf(b.address)
      BY <1>3, <1>6 DEF ObjectsOf
    <2>3. ObjectsOf(b.address) \subseteq MatchedBy(b.address)
      BY PatternsApart
    <2> QED BY <1>4, <1>6, <2>1, <2>2, <2>3
  <1> QED BY <1>5, <1>6

LEMMA GrantMatched ==
    ASSUME NEW l, NEW style, NEW b, NamesItself(b), b.address \in Buckets,
           NEW p \in GrantedResources(l, style), NEW q, SamePattern(q, p),
           Matches(q, b, FALSE)
    PROVE  b.address \in l.access
  <1>1. CASE l.access = Buckets
    BY <1>1
  <1>2. CASE p = Expr
    <2>1. Expr[1] = "expr"
      BY MemberKinds
    <2>2. q = Expr
      BY <1>2, <2>1 DEF SamePattern
    <2> QED BY <2>2, MatchesIs, PatternsApart
  <1>3. CASE \E k \in {"bucket", "objects"} : \E c \in l.access :
                p = Pattern(k, c, style)
    BY <1>3, PatternMatched
  <1> QED BY <1>1, <1>2, <1>3, GrantedAre

LEMMA ElsewhereMatched ==
    ASSUME NEW b, NamesItself(b), b.address \in Buckets,
           NEW q, SamePattern(q, <<"bucket arn", "elsewhere">>)
    PROVE  ~Matches(q, b, FALSE)
  <1>1. q \in {<<"bucket", "elsewhere">>, <<"bucket arn", "elsewhere">>}
    BY DEF SamePattern
  <1>2. b.address # "elsewhere"
    BY DEF Buckets
  <1> QED BY <1>1, <1>2, MatchesIs, PatternsApart

(* What is found to be granted is.                                         *)
LEMMA StatementMatched ==
    ASSUME NEW l, NEW style, NEW b, NamesItself(b), b.address \in Buckets,
           NEW s \in RolePolicy(l, style).statements, NEW t,
           SameStatement(t, s), NEW q \in t.resources, Matches(q, b, FALSE)
    PROVE  b.address \in l.access
  <1>1. PICK p \in s.resources : SamePattern(q, p)
    BY DEF SameStatement
  <1>2. s.resources \in {GrantedResources(l, style),
                         {<<"bucket arn", "elsewhere">>}}
    <2>1. s.resources \in {Grant(l, style).resources,
                           {<<"bucket arn", "elsewhere">>}}
      BY Grantings
    <2> QED BY <2>1, GrantFields
  <1>3. CASE s.resources = GrantedResources(l, style)
    BY <1>1, <1>3, GrantMatched
  <1>4. CASE s.resources = {<<"bucket arn", "elsewhere">>}
    BY <1>1, <1>4, ElsewhereMatched
  <1> QED BY <1>2, <1>3, <1>4

(* What is granted is found.                                               *)
LEMMA GrantFound ==
    ASSUME NEW l, NEW style, NEW b, NamesItself(b), b.address \in l.access,
           NEW t, SameStatement(t, Grant(l, style)),
           Expr \notin t.resources
    PROVE  /\ t.effect = "Allow" /\ t.actions \cap S3Actions # {}
           /\ \E q \in t.resources : Matches(q, b, FALSE)
  <1>1. /\ Grant(l, style).actions = GrantedActions(style)
        /\ Grant(l, style).resources = GrantedResources(l, style)
        /\ Grant(l, style).effect = "Allow"
    BY GrantFields
  <1>2. t.effect = "Allow" /\ t.actions = GrantedActions(style)
    BY <1>1 DEF SameStatement
  <1>3. GrantedActions(style) \cap S3Actions # {}
    BY DEF GrantedActions, S3Actions
  <1>4. \A p \in GrantedResources(l, style) :
           \E q \in t.resources : SamePattern(q, p)
    BY <1>1 DEF SameStatement
  <1>5. GrantedResources(l, style) \in
           {{Everything}, {Expr}, Patterns(l.access, style)}
    BY DEF GrantedResources
  <1>6. CASE GrantedResources(l, style) = {Everything}
    <2>1. PICK q \in t.resources : SamePattern(q, Everything)
      BY <1>4, <1>6
    <2>2. q = Everything
      BY <2>1 DEF SamePattern, Everything
    <2> QED BY <1>2, <1>3, <2>1, <2>2, MatchesIs DEF MatchedBy
  <1>7. CASE GrantedResources(l, style) = {Expr}
    <2>1. PICK q \in t.resources : SamePattern(q, Expr)
      BY <1>4, <1>7
    <2>2. q = Expr
      BY <2>1 DEF SamePattern, Expr
    <2> QED BY <2>1, <2>2
  <1>8. CASE GrantedResources(l, style) = Patterns(l.access, style)
    <2>1. Pattern("bucket", b.address, style) \in Patterns(l.access, style)
      BY DEF Patterns
    <2>2. PICK q \in t.resources :
             SamePattern(q, Pattern("bucket", b.address, style))
      BY <1>4, <1>8, <2>1
    <2>3. Matches(q, b, FALSE)
      BY <2>2, PatternMatched
    <2> QED BY <1>2, <1>3, <2>3
  <1> QED BY <1>5, <1>6, <1>7, <1>8

LEMMA GrantStated ==
    ASSUME NEW l, NEW style, l.access # {}
    PROVE  Grant(l, style) \in RolePolicy(l, style).statements
  BY DEF RolePolicy

(* The edges to the buckets.                                               *)
LEMMA AccessExact ==
    ASSUME NEW config, NEW l, NEW style, NEW gone,
           Clear(config, l, style, gone), Absent(l, gone), NEW e
    PROVE  (\E f \in AccessFindings(Range(config.resources)) : EdgeOf(f) = e)
           <=> \E b \in l.access : e = <<"r1", b>>
  <1> DEFINE rs == Range(config.resources)
  <1>0. ReadFrom(rs, l, style)
    BY DEF Clear
  <1>1. ASSUME NEW f \in AccessFindings(rs), EdgeOf(f) = e
        PROVE  \E b \in l.access : e = <<"r1", b>>
    <2>1. IsAccess(rs, f)
      BY <1>1, AccessesAre
    <2>2. PICK role \in OfType(rs, "aws_iam_role") :
             \E b \in OfType(rs, "aws_s3_bucket") :
             \E p \in PolicySources(rs, role.address) :
             \E t \in S3Access(p) :
                /\ \E q \in t.resources : Matches(q, b, FALSE)
                /\ f = Edge(role.address, b.address, "CAN_ACCESS",
                            AccessRisk(t), "none")
      BY <2>1, Zenon DEF IsAccess
    <2>20. PICK b \in OfType(rs, "aws_s3_bucket"),
                p \in PolicySources(rs, role.address) :
             \E t \in S3Access(p) :
                /\ \E q \in t.resources : Matches(q, b, FALSE)
                /\ f = Edge(role.address, b.address, "CAN_ACCESS",
                            AccessRisk(t), "none")
      BY <2>2
    <2>21. PICK t \in S3Access(p) :
                /\ \E q \in t.resources : Matches(q, b, FALSE)
                /\ f = Edge(role.address, b.address, "CAN_ACCESS",
                            AccessRisk(t), "none")
      BY <2>20
    <2>3. e = <<role.address, b.address>>
      BY <1>1, <2>21, EdgeEnds
    <2>4. role.address = "r1"
      BY <1>0, InstancesRead
    <2>5. b.address \in Buckets /\ NamesItself(b)
      BY <1>0, BucketRead
    <2>6. p \in rs /\ p.type \in {"aws_iam_policy", "aws_iam_role_policy"}
      BY DEF PolicySources, Linked, OfType
    <2>7. t \in Statements(p)
      BY DEF S3Access
    <2>8. PICK s \in RolePolicy(l, style).statements : SameStatement(t, s)
      BY <1>0, <2>6, <2>7, PoliciesRead
    <2>9. b.address \in l.access
      BY <2>21, <2>5, <2>8, StatementMatched
    <2> QED BY <2>3, <2>4, <2>9
  <1>2. ASSUME NEW a \in l.access, e = <<"r1", a>>
        PROVE  \E f \in AccessFindings(rs) : EdgeOf(f) = e
    <2> DEFINE x == Bucket(l, a, style)
    <2>1. a \in Buckets /\ a \notin gone
      BY DEF Absent, Landscapes, Buckets
    <2>2. x \in BlocksOf(l, style)
      BY <2>1 DEF BlocksOf, Buckets
    <2>3. x.type = "aws_s3_bucket" /\ x.address = a
      BY BucketType
    <2> HIDE DEF x
    <2>4. PICK b \in OfType(rs, "aws_s3_bucket") : b.address = a
      BY <2>1, <2>2, <2>3, BlockRead, Supports
    <2>5. PICK role \in OfType(rs, "aws_iam_role") : role.address = "r1"
      BY InstanceThere
    <2>6. PICK p \in PolicySources(rs, "r1") :
              /\ p.type \in PolicyTypes /\ ~Gap(config, p)
              /\ Has(p, "policy")
              /\ SamePolicy(p.attrs["policy"], RolePolicy(l, style))
      BY SourceThere
    <2>7. Grant(l, style) \in RolePolicy(l, style).statements
      BY <1>2, GrantStated
    <2>8. PICK t \in p.attrs["policy"].statements :
             SameStatement(t, Grant(l, style))
      BY <2>6, <2>7 DEF SamePolicy
    <2>9. t \in Statements(p) /\ Expr \notin t.resources
      BY <2>6, <2>8, PolicyClear
    <2>10. NamesItself(b)
      BY <1>0, BucketRead
    <2>11. /\ t.effect = "Allow" /\ t.actions \cap S3Actions # {}
           /\ \E q \in t.resources : Matches(q, b, FALSE)
      BY <1>2, <2>4, <2>8, <2>9, <2>10, GrantFound
    <2>12. t \in S3Access(p)
      BY <2>9, <2>11 DEF S3Access
    <2> DEFINE f == Edge(role.address, b.address, "CAN_ACCESS", AccessRisk(t),
                         "none")
    <2>13. IsAccess(rs, f)
      BY <2>5, <2>6, <2>11, <2>12, Zenon DEF IsAccess
    <2>14. f \in AccessFindings(rs)
      BY <2>13, AccessesAre
    <2>15. EdgeOf(f) = <<"r1", a>>
      BY <2>4, <2>5, EdgeEnds
    <2> HIDE DEF f
    <2> QED BY <1>2, <2>14, <2>15
  <1> QED BY <1>1, <1>2

-----------------------------------------------------------------------------
LEMMA PublicKinds ==
    ASSUME NEW l, NEW style, NEW x \in Publics(l, style)
    PROVE  /\ x.type = "aws_s3_bucket_acl" => "acl" \in l.public
           /\ x.type = "aws_s3_bucket_policy" => "policy" \in l.public
           /\ x.type = "aws_s3_bucket_public_access_block" => l.blocked
  <1>1. /\ AclBlock(style).type = "aws_s3_bucket_acl"
        /\ PolicyBlock(style).type = "aws_s3_bucket_policy"
        /\ \A a : ControlBlock(a, style).type
                     = "aws_s3_bucket_public_access_block"
    BY BlockTypes
  <1> QED BY <1>1 DEF Publics

LEMMA LinkedOnBucket ==
    ASSUME NEW config, NEW l, NEW style, NEW gone,
           Clear(config, l, style, gone),
           NEW r \in Range(config.resources), r.type \in BucketLinked
    PROVE  /\ References(r, "bucket") = {"b1"}
           /\ \E x \in Publics(l, style) : Reads(r, x)
  <1>1. PICK x \in BlocksOf(l, style) : Reads(r, x) /\ ~Gap(config, r)
    BY ResourceOf
  <1>2. x.type \in BucketLinked /\ x.type = r.type
    BY <1>1 DEF Reads
  <1>3. NamedBy(x, "bucket") = {"b1"}
    BY <1>2, OnBucket
  <1>4. "bucket" \in LinkAttributes(x.type)
    BY <1>2, BucketLinks
  <1>5. References(r, "bucket") = {"b1"}
    BY <1>1, <1>3, <1>4, LinkedAll
  <1>6. x \in Publics(l, style)
    BY <1>2, BlockKinds DEF BucketLinked
  <1> QED BY <1>1, <1>5, <1>6

LEMMA PublicRead ==
    ASSUME NEW config, NEW l, NEW style, NEW gone,
           Clear(config, l, style, gone), Absent(l, gone),
           NEW x \in Publics(l, style), x.type \in BucketLinked,
           x.address \in {"ba1", "bp1", "pb1"}
    PROVE  \E r \in OfType(Range(config.resources), x.type) :
              /\ Reads(r, x) /\ ~Gap(config, r) /\ r.type = x.type
              /\ References(r, "bucket") = {"b1"}
              /\ r.address = x.address
  <1>1. x \in BlocksOf(l, style) /\ x.address \notin gone
    BY DEF BlocksOf, Absent
  <1>2. x.type \in SupportedTypes
    BY Supports DEF BucketLinked
  <1>3. PICK r \in OfType(Range(config.resources), x.type) :
           Reads(r, x) /\ ~Gap(config, r) /\ r.address = x.address
    BY <1>1, <1>2, BlockRead
  <1>4. r.type = x.type /\ r \in Range(config.resources)
    BY DEF OfType
  <1> QED BY <1>3, <1>4, LinkedOnBucket

(* A public access block counts when it is in force.                       *)
LEMMA ControlExact ==
    ASSUME NEW config, NEW l, NEW style, NEW gone,
           Clear(config, l, style, gone), Absent(l, gone),
           NEW b, b.address = "b1", NEW flag \in Flags
    PROVE  Controlled(Range(config.resources), b, flag) <=> l.blocked
  <1> DEFINE rs == Range(config.resources)
             type == "aws_s3_bucket_public_access_block"
             C == Linked(rs, type, "bucket", b.address)
  <1>1. type \in BucketLinked
    BY DEF BucketLinked
  <1>2. CASE ~l.blocked
    <2>1. C = {}
      <3> SUFFICES ASSUME NEW r \in C PROVE FALSE
        OBVIOUS
      <3>1. r \in rs /\ r.type = type
        BY DEF Linked, OfType
      <3>2. PICK x \in Publics(l, style) : Reads(r, x)
        BY <1>1, <3>1, LinkedOnBucket
      <3>3. x.type = type
        BY <3>1, <3>2 DEF Reads
      <3> QED BY <1>2, <3>3, PublicKinds
    <2>2. Cardinality(C) # 1
      BY <2>1, FS_EmptySet
    <2> QED BY <1>2, <2>2 DEF Controlled
  <1>3. CASE l.blocked
    <2> DEFINE x == ControlBlock("pb1", style)
    <2>1. x \in Publics(l, style)
      BY <1>3 DEF Publics
    <2>2. x.type = type /\ x.address = "pb1"
      BY DEF ControlBlock, R
    <2>3. Members(x, flag) = {FlagOf(style)}
      BY ControlAttrs
    <2> HIDE DEF x
    <2>4. PICK r \in OfType(rs, x.type) :
             /\ Reads(r, x) /\ ~Gap(config, r) /\ r.type = x.type
             /\ References(r, "bucket") = {"b1"}
      BY <1>1, <2>1, <2>2, PublicRead
    <2>5. r \in rs /\ r.type = type
      BY <2>2, <2>4 DEF OfType
    <2>6. r \in C
      BY <2>4, <2>5 DEF Linked, OfType
    <2>7. ASSUME NEW c \in C PROVE c = r
      <3>1. c \in rs /\ c.type = type /\ "b1" \in References(c, "bucket")
        BY DEF Linked, OfType
      <3>2. ~AmbiguousControl(config, r)
        BY <2>4 DEF Gap
      <3>3. c.address = r.address
        BY <2>4, <2>5, <3>1, <3>2 DEF AmbiguousControl
      <3> QED BY <2>5, <3>1, <3>3 DEF Clear
    <2>8. C = {r}
      BY <2>6, <2>7
    <2>9. Cardinality(C) = 1
      BY <2>8, FS_Singleton
    <2>10. Members(r, flag) = {FlagOf(style)}
      BY <2>3, <2>4 DEF Reads, PlainNames, Flags
    <2>11. Expr \notin Members(r, flag)
      <3>1. flag \in SecurityAttributes[r.type]
        BY <2>5 DEF SecurityAttributes, Flags
      <3> QED BY <2>4, <3>1, PlainKnown DEF Flags
    <2>12. Members(r, flag) = {Literal("true")}
      BY <2>10, <2>11 DEF FlagOf
    <2> QED BY <1>3, <2>8, <2>9, <2>12 DEF Controlled
  <1> QED BY <1>2, <1>3

(* A public ACL, on the bucket or beside it.                               *)
OpenAcl(m) == m[2] \in {"public-read", "public-read-write"}

LEMMA AclKinds ==
    /\ Literal("public-read")[2] = "public-read"
    /\ Literal("private")[2] = "private" /\ Expr[2] = ""
  BY DEF Literal, Expr

LEMMA AclOfBucket ==
    ASSUME NEW config, NEW l, NEW style, NEW gone,
           Clear(config, l, style, gone),
           NEW b \in OfType(Range(config.resources), "aws_s3_bucket")
    PROVE  Members(b, "acl") = AclMembers(l, b.address, style)
  <1>1. PICK x \in BlocksOf(l, style) : Reads(b, x)
    BY DEF Clear, ReadFrom, OfType
  <1>2. x.type = "aws_s3_bucket" /\ x.address = b.address
    BY <1>1 DEF Reads, OfType
  <1>3. PICK c \in Buckets : x = Bucket(l, c, style)
    BY <1>2, BlockKinds
  <1>4. c = b.address
    BY <1>2, <1>3, BucketType
  <1> QED BY <1>1, <1>3, <1>4, BucketAcl DEF Reads, PlainNames

LEMMA AclExact ==
    ASSUME NEW config, NEW l, NEW style, NEW gone,
           Clear(config, l, style, gone), Absent(l, gone),
           NEW b \in OfType(Range(config.resources), "aws_s3_bucket"),
           b.address = "b1"
    PROVE  PublicAcls(Range(config.resources), b) # {} <=> "acl" \in l.public
  <1> DEFINE rs == Range(config.resources)
             linked == Linked(rs, "aws_s3_bucket_acl", "bucket", b.address)
  <1>1. \A m : m \in PublicAcls(rs, b) <=>
           OpenAcl(m) /\ \E r \in {b} \cup linked : m \in Members(r, "acl")
    BY DEF PublicAcls, OpenAcl
  <1>2. "aws_s3_bucket_acl" \in BucketLinked
    BY DEF BucketLinked
  <1>3. ASSUME PublicAcls(rs, b) # {} PROVE "acl" \in l.public
    <2>0. PICK m \in PublicAcls(rs, b) : TRUE
      BY <1>3
    <2>1. PICK r \in {b} \cup linked : OpenAcl(m) /\ m \in Members(r, "acl")
      BY <1>1
    <2>2. CASE r = b
      <3>1. m \in AclMembers(l, "b1", style)
        BY <2>1, <2>2, AclOfBucket
      <3>2. "acl" \notin l.public =>
               AclMembers(l, "b1", style) \subseteq {Literal("private")}
        BY DEF AclMembers
      <3> QED BY <2>1, <3>1, <3>2, AclKinds DEF OpenAcl
    <2>3. CASE r \in linked
      <3>1. r \in rs /\ r.type = "aws_s3_bucket_acl"
        BY <2>3 DEF Linked, OfType
      <3>2. PICK x \in Publics(l, style) : Reads(r, x)
        BY <1>2, <3>1, LinkedOnBucket
      <3>3. x.type = "aws_s3_bucket_acl"
        BY <3>1, <3>2 DEF Reads
      <3> QED BY <3>3, PublicKinds
    <2> QED BY <2>1, <2>2, <2>3
  <1>4. ASSUME "acl" \in l.public PROVE PublicAcls(rs, b) # {}
    <2>1. CASE style = "inline acl"
      <3>1. AclMembers(l, "b1", style) = {Literal("public-read")}
        BY <1>4, <2>1 DEF AclMembers
      <3>2. Literal("public-read") \in Members(b, "acl")
        BY <3>1, AclOfBucket
      <3> QED BY <1>1, <3>2, AclKinds DEF OpenAcl
    <2>2. CASE style # "inline acl"
      <3> DEFINE x == AclBlock(style)
      <3>1. x \in Publics(l, style)
        BY <1>4, <2>2 DEF Publics
      <3>2. x.type = "aws_s3_bucket_acl" /\ x.address = "ba1"
        BY BlockTypes
      <3>3. Members(x, "acl") = {IF style = "acl variable" THEN Expr
                                 ELSE Literal("public-read")}
        BY AclAttrs
      <3> HIDE DEF x
      <3>4. PICK r \in OfType(rs, x.type) :
               /\ Reads(r, x) /\ ~Gap(config, r) /\ r.type = x.type
               /\ References(r, "bucket") = {"b1"}
        BY <1>2, <3>1, <3>2, PublicRead
      <3>5. r.type = "aws_s3_bucket_acl" /\ r \in rs
        BY <3>2, <3>4 DEF OfType
      <3>6. r \in linked
        BY <3>4, <3>5 DEF Linked, OfType
      <3>7. Members(r, "acl") = Members(x, "acl")
        BY <3>4 DEF Reads, PlainNames
      <3>8. Expr \notin Members(r, "acl")
        <4>1. "acl" \in SecurityAttributes[r.type]
          BY <3>5 DEF SecurityAttributes
        <4> QED BY <3>4, <4>1, PlainKnown
      <3>9. Literal("public-read") \in Members(r, "acl")
        BY <3>3, <3>7, <3>8
      <3> HIDE DEF linked
      <3> QED BY <1>1, <3>6, <3>9, AclKinds DEF OpenAcl
    <2> QED BY <2>1, <2>2
  <1> QED BY <1>3, <1>4

(* A policy for anyone.                                                    *)
PublicStatement(style) ==
    [effect |-> "Allow", actions |-> {"s3:GetObject"},
     resources |-> {Pattern("objects", "b1", style)},
     principal |-> CASE style = "partial principal" -> "partial"
                     [] style = "no principal" -> "absent"
                     [] OTHER -> "*",
     condition |-> FALSE]

LEMMA PublicPolicyIs ==
    ASSUME NEW style
    PROVE  /\ PublicPolicy(style).statements = {PublicStatement(style)}
           /\ PublicStatement(style).effect = "Allow"
           /\ PublicStatement(style).actions = {"s3:GetObject"}
           /\ PublicStatement(style).resources =
                 {Pattern("objects", "b1", style)}
           /\ PublicStatement(style).principal \in {"partial", "absent", "*"}
  BY DEF PublicPolicy, PublicStatement

LEMMA AnonymousIs ==
    ASSUME NEW b, NamesItself(b), b.address = "b1", NEW style,
           NEW t, SameStatement(t, PublicStatement(style)),
           t.principal \notin {"absent", "partial"}
    PROVE  Anonymous(b, t)
  <1>1. /\ t.effect = "Allow" /\ t.actions = {"s3:GetObject"}
        /\ t.principal \in {"partial", "absent", "*"}
    BY PublicPolicyIs DEF SameStatement
  <1>2. PICK q \in t.resources : SamePattern(q, Pattern("objects", "b1", style))
    BY PublicPolicyIs DEF SameStatement
  <1>3. Matches(q, b, TRUE)
    BY <1>2, PatternMatched
  <1> QED BY <1>1, <1>2, <1>3 DEF Anonymous, ReadActions

LEMMA PolicyExact ==
    ASSUME NEW config, NEW l, NEW style, NEW gone,
           Clear(config, l, style, gone), Absent(l, gone),
           NEW b \in OfType(Range(config.resources), "aws_s3_bucket"),
           b.address = "b1"
    PROVE  /\ PublicStatements(Range(config.resources), b) # {} <=>
                 "policy" \in l.public
           /\ \A t \in PublicStatements(Range(config.resources), b) :
                 ~t.condition
  <1> DEFINE rs == Range(config.resources)
             type == "aws_s3_bucket_policy"
             linked == Linked(rs, type, "bucket", b.address)
  <1>1. \A t : t \in PublicStatements(rs, b) <=>
           Anonymous(b, t) /\ \E p \in linked : t \in Statements(p)
    BY DEF PublicStatements
  <1>2. type \in BucketLinked /\ type \in PolicyTypes
    BY DEF BucketLinked, PolicyTypes
  <1>3. \A p \in linked : p \in rs /\ p.type = type
    BY DEF Linked, OfType
  <1>4. ASSUME NEW t \in PublicStatements(rs, b)
        PROVE  ~t.condition /\ "policy" \in l.public
    <2>1. PICK p \in linked : t \in Statements(p)
      BY <1>1
    <2>2. ~Gap(config, p)
      BY <1>3, <2>1 DEF Clear
    <2>3. ~t.condition
      BY <1>2, <1>3, <2>1, <2>2, PolicyClear
    <2>4. PICK x \in Publics(l, style) : Reads(p, x)
      BY <1>2, <1>3, LinkedOnBucket
    <2>5. x.type = type
      BY <1>3, <2>4 DEF Reads
    <2> QED BY <2>3, <2>5, PublicKinds
  <1>5. ASSUME "policy" \in l.public PROVE PublicStatements(rs, b) # {}
    <2> DEFINE x == PolicyBlock(style)
    <2>1. x \in Publics(l, style)
      BY <1>5 DEF Publics
    <2>2. x.type = type /\ x.address = "bp1"
      BY BlockTypes
    <2>3. x.attrs["policy"] = PublicPolicy(style)
      BY PolicyBlockAttrs
    <2> HIDE DEF x
    <2>4. PICK p \in OfType(rs, x.type) :
             /\ Reads(p, x) /\ ~Gap(config, p) /\ p.type = x.type
             /\ References(p, "bucket") = {"b1"}
      BY <1>2, <2>1, <2>2, PublicRead
    <2>5. p \in linked /\ p.type = type
      BY <2>2, <2>4 DEF Linked, OfType
    <2>6. /\ Has(p, "policy") /\ Statements(p) = p.attrs["policy"].statements
          /\ \A t \in Statements(p) :
                t.principal \notin {"absent", "partial"}
      BY <1>2, <2>4, <2>5, PolicyClear
    <2>7. SamePolicy(p.attrs["policy"], PublicPolicy(style))
      BY <2>3, <2>4, <2>6 DEF Reads
    <2>8. PICK t \in Statements(p) : SameStatement(t, PublicStatement(style))
      BY <2>6, <2>7, PublicPolicyIs DEF SamePolicy
    <2>9. NamesItself(b)
      BY BucketRead DEF Clear
    <2>10. Anonymous(b, t)
      BY <2>6, <2>8, <2>9, AnonymousIs
    <2> HIDE DEF linked
    <2> QED BY <1>1, <2>5, <2>8, <2>10
  <1> QED BY <1>4, <1>5

(* The edge from the internet to the bucket.                               *)
LEMMA PublicExact ==
    ASSUME NEW config, NEW l, NEW style, NEW gone,
           Clear(config, l, style, gone), Absent(l, gone), NEW e
    PROVE  (\E f \in PublicFindings(Range(config.resources)) : EdgeOf(f) = e)
           <=> ~l.blocked /\ l.public # {} /\ e = <<Internet, "b1">>
  <1> DEFINE rs == Range(config.resources)
  <1>0. ReadFrom(rs, l, style) /\ l.public \subseteq {"acl", "policy"}
    BY DEF Clear, Absent, Landscapes
  <1>1. ASSUME NEW f \in PublicFindings(rs), EdgeOf(f) = e
        PROVE  ~l.blocked /\ l.public # {} /\ e = <<Internet, "b1">>
    <2>1. IsPublic(rs, f)
      BY <1>1, PublicsAre
    <2>2. PICK b \in OfType(rs, "aws_s3_bucket") :
            /\ \/ /\ PublicAcls(rs, b) # {}
                  /\ ~Controlled(rs, b, "ignore_public_acls")
               \/ \E t \in PublicStatements(rs, b) :
                     ~Controlled(rs, b, "restrict_public_buckets")
                     \/ t.condition
            /\ \E risk : f = Edge(Internet, b.address, "PUBLIC_ACCESS", risk,
                                  "none")
      BY <2>1 DEF IsPublic
    <2>3. b.address = "b1"
      BY <1>0, <2>2, PublicBucket
    <2>4. e = <<Internet, "b1">>
      BY <1>1, <2>2, <2>3, EdgeEnds
    <2>5. "ignore_public_acls" \in Flags /\ "restrict_public_buckets" \in Flags
      BY DEF Flags
    <2>6. CASE PublicAcls(rs, b) # {} /\ ~Controlled(rs, b, "ignore_public_acls")
      BY <2>3, <2>4, <2>5, <2>6, AclExact, ControlExact
    <2>7. CASE \E t \in PublicStatements(rs, b) :
                  ~Controlled(rs, b, "restrict_public_buckets") \/ t.condition
      <3>1. ~Controlled(rs, b, "restrict_public_buckets")
        BY <2>3, <2>7, PolicyExact
      <3> QED BY <2>3, <2>4, <2>5, <2>7, <3>1, PolicyExact, ControlExact
    <2> QED BY <2>2, <2>6, <2>7
  <1>2. ASSUME ~l.blocked, l.public # {}, e = <<Internet, "b1">>
        PROVE  \E f \in PublicFindings(rs) : EdgeOf(f) = e
    <2> DEFINE x == Bucket(l, "b1", style)
    <2>1. x \in BlocksOf(l, style)
      BY DEF BlocksOf
    <2>2. x.type = "aws_s3_bucket" /\ x.address = "b1"
      BY BucketType
    <2>3. "b1" \notin gone
      BY DEF Absent
    <2> HIDE DEF x
    <2>4. PICK b \in OfType(rs, "aws_s3_bucket") : b.address = "b1"
      BY <2>1, <2>2, <2>3, BlockRead, Supports
    <2>5. "ignore_public_acls" \in Flags /\ "restrict_public_buckets" \in Flags
      BY DEF Flags
    <2>6. /\ ~Controlled(rs, b, "ignore_public_acls")
          /\ ~Controlled(rs, b, "restrict_public_buckets")
      BY <1>2, <2>4, <2>5, ControlExact
    <2>7. ASSUME NEW risk,
                 IsPublic(rs, Edge(Internet, "b1", "PUBLIC_ACCESS", risk,
                                   "none"))
          PROVE  \E f \in PublicFindings(rs) : EdgeOf(f) = e
      <3> DEFINE f == Edge(Internet, "b1", "PUBLIC_ACCESS", risk, "none")
      <3>1. EdgeOf(f) = <<Internet, "b1">>
        BY EdgeEnds
      <3>2. IsPublic(rs, f)
        BY <2>7
      <3> HIDE DEF f
      <3>3. f \in PublicFindings(rs)
        BY <3>2, PublicsAre
      <3> QED BY <1>2, <3>1, <3>3
    <2>8. CASE "acl" \in l.public
      <3>1. PICK acl \in PublicAcls(rs, b) : TRUE
        BY <2>4, <2>8, AclExact
      <3> DEFINE risk == IF acl[2] = "public-read-write" THEN CRITICAL ELSE HIGH
      <3>2. IsPublic(rs, Edge(Internet, b.address, "PUBLIC_ACCESS", risk, "none"))
        BY <2>6, <3>1 DEF IsPublic
      <3> QED BY <2>4, <2>7, <3>2
    <2>9. CASE "policy" \in l.public
      <3>1. PICK t \in PublicStatements(rs, b) : TRUE
        BY <2>4, <2>9, PolicyExact
      <3>2. IsPublic(rs, Edge(Internet, b.address, "PUBLIC_ACCESS", CRITICAL,
                              "none"))
        BY <2>6, <3>1 DEF IsPublic
      <3> QED BY <2>4, <2>7, <3>2
    <2> QED BY <1>0, <1>2, <2>8, <2>9
  <1> QED BY <1>1, <1>2

(* A configuration that is complete has the edges of the landscape.        *)
LEMMA CompleteExact ==
    ASSUME NEW config, NEW l, NEW style, NEW gone,
           Faithful(config, l, style, gone), Absent(l, gone),
           Complete(config)
    PROVE  {EdgeOf(f) : f \in Findings(config)} = TrueEdges(l)
  <1> DEFINE rs == Range(config.resources)
  <1>1. Clear(config, l, style, gone) /\ Unambiguous(config) = rs
    BY ClearIs
  <1>2. Findings(config) =
           IngressFindings(rs) \cup InstanceFindings(rs) \cup
           AccessFindings(rs) \cup PublicFindings(rs) \cup
           ContainsFindings(rs)
    BY <1>1 DEF Findings
  <1> HIDE DEF rs
  <1>3. \A e : e \in {EdgeOf(f) : f \in Findings(config)} <=>
           \/ \E f \in IngressFindings(rs) : EdgeOf(f) = e
           \/ \E f \in InstanceFindings(rs) : EdgeOf(f) = e
           \/ \E f \in AccessFindings(rs) : EdgeOf(f) = e
           \/ \E f \in PublicFindings(rs) : EdgeOf(f) = e
           \/ \E f \in ContainsFindings(rs) : EdgeOf(f) = e
    BY <1>2
  <1>4. \A e : e \in TrueEdges(l) <=>
           \/ \E g \in Groups : l.open[g] # {} /\ e = <<Internet, g>>
           \/ e = <<"e1", "r1">> \/ \E g \in l.attached : e = <<g, "e1">>
           \/ \E b \in l.access : e = <<"r1", b>>
           \/ ~l.blocked /\ l.public # {} /\ e = <<Internet, "b1">>
           \/ \E b \in l.sensitive : e = <<b, MarkerOf[b]>>
    BY DEF TrueEdges
  <1>5. ASSUME NEW e
        PROVE  e \in {EdgeOf(f) : f \in Findings(config)} <=> e \in TrueEdges(l)
    <2>1. (\E f \in IngressFindings(rs) : EdgeOf(f) = e) <=>
             \E g \in Groups : l.open[g] # {} /\ e = <<Internet, g>>
      BY <1>1, IngressExact DEF rs
    <2>2. (\E f \in InstanceFindings(rs) : EdgeOf(f) = e) <=>
             e = <<"e1", "r1">> \/ \E g \in l.attached : e = <<g, "e1">>
      BY <1>1, InstanceExact DEF rs
    <2>3. (\E f \in AccessFindings(rs) : EdgeOf(f) = e) <=>
             \E b \in l.access : e = <<"r1", b>>
      BY <1>1, AccessExact DEF rs
    <2>4. (\E f \in PublicFindings(rs) : EdgeOf(f) = e) <=>
             ~l.blocked /\ l.public # {} /\ e = <<Internet, "b1">>
      BY <1>1, PublicExact DEF rs
    <2>5. (\E f \in ContainsFindings(rs) : EdgeOf(f) = e) <=>
             \E b \in l.sensitive : e = <<b, MarkerOf[b]>>
      BY <1>1, ContainsExact DEF rs
    <2> QED BY <1>3, <1>4, <2>1, <2>2, <2>3, <2>4, <2>5
  <1> QED BY <1>5

-----------------------------------------------------------------------------
(* What an edit of Terraform text changes.  A block keeps its type, its    *)
(* address and all attributes but two: the cidr of ingress rules, and the  *)
(* canned ACL.                                                             *)
Edits == {"restrict", "widen"}

IsRule(rule) ==
    rule = [protocol |-> rule.protocol, ports |-> rule.ports,
            cidr |-> rule.cidr, hop |-> rule.hop]
WellMade(r) ==
    /\ r = R(r.type, r.address, r.attrs)
    /\ \A rule \in Rules(r) : IsRule(rule)

Kept(r, s) ==
    /\ s.type = r.type /\ s.address = r.address
    /\ DOMAIN s.attrs = DOMAIN r.attrs
    /\ \A n \in DOMAIN r.attrs \ {"ingress", "acl"} : s.attrs[n] = r.attrs[n]

WithCidr(rule, c) == [rule EXCEPT !.cidr = c]

LEMMA CidrSet ==
    ASSUME NEW rule, IsRule(rule), NEW c
    PROVE  LET q == WithCidr(rule, c) IN
           /\ IsRule(q) /\ q.protocol = rule.protocol /\ q.cidr = c
           /\ q.ports = rule.ports /\ q.hop = rule.hop
  BY DEF IsRule, WithCidr

LEMMA RuleEdited ==
    ASSUME NEW rule, IsRule(rule), NEW edit
    PROVE  LET q == EditRule(rule, edit) IN
           /\ IsRule(q) /\ q.protocol = rule.protocol
           /\ q.ports = rule.ports /\ q.hop = rule.hop
           /\ q = rule \/ q.cidr = IF edit = "restrict" THEN "private"
                                   ELSE "public"
           /\ edit = "restrict" /\ q.cidr = "public" =>
                 q = rule /\ ~ReachesAdminPort(rule)
           /\ edit = "restrict" /\ ~ReachesAdminPort(rule) => q = rule
           /\ edit # "restrict" /\ ReachesAdminPort(rule) => q.cidr = "public"
           /\ edit # "restrict" /\ rule.cidr = "public" => q = rule
           /\ edit # "restrict" /\ ~ReachesAdminPort(rule) => q = rule
  <1> DEFINE q == EditRule(rule, edit)
  <1>1. CASE edit = "restrict"
    <2>1. q = IF ReachesAdminPort(rule) /\ rule.cidr = "public"
              THEN WithCidr(rule, "private") ELSE rule
      BY <1>1, Zenon DEF EditRule, WithCidr
    <2> HIDE DEF q
    <2>2. CASE ReachesAdminPort(rule) /\ rule.cidr = "public"
      <3>1. q = WithCidr(rule, "private")
        BY <2>1, <2>2
      <3>2. /\ IsRule(q) /\ q.protocol = rule.protocol /\ q.cidr = "private"
            /\ q.ports = rule.ports /\ q.hop = rule.hop
        BY <3>1, CidrSet
      <3> QED BY <1>1, <2>2, <3>2 DEF q
    <2>3. CASE ~(ReachesAdminPort(rule) /\ rule.cidr = "public")
      <3>1. q = rule
        BY <2>1, <2>3
      <3> QED BY <1>1, <2>3, <3>1 DEF q
    <2> QED BY <2>2, <2>3
  <1>2. CASE edit # "restrict"
    <2>1. q = IF ReachesAdminPort(rule) /\ rule.cidr # "public"
              THEN WithCidr(rule, "public") ELSE rule
      BY <1>2, Zenon DEF EditRule, WithCidr
    <2> HIDE DEF q
    <2>2. CASE ReachesAdminPort(rule) /\ rule.cidr # "public"
      <3>1. q = WithCidr(rule, "public")
        BY <2>1, <2>2
      <3>2. /\ IsRule(q) /\ q.protocol = rule.protocol /\ q.cidr = "public"
            /\ q.ports = rule.ports /\ q.hop = rule.hop
        BY <3>1, CidrSet
      <3> QED BY <1>2, <2>2, <3>2 DEF q
    <2>3. CASE ~(ReachesAdminPort(rule) /\ rule.cidr # "public")
      <3>1. q = rule
        BY <2>1, <2>3
      <3> QED BY <1>2, <2>3, <3>1 DEF q
    <2> QED BY <2>2, <2>3
  <1> QED BY <1>1, <1>2

LEMMA AclEdited ==
    ASSUME NEW m
    PROVE  /\ PrivateAcl(m) = m \/ PrivateAcl(m) = Literal("private")
           /\ PrivateAcl(m)[2] \in {"public-read", "public-read-write"} =>
                 PrivateAcl(m) = m
           /\ PrivateAcl(m)[2] \notin CannedAcls => PrivateAcl(m) = m
           /\ PrivateAcl(Literal("public-read")) = Literal("private")
           /\ PrivateAcl(m)[1] = "ref" <=> m[1] = "ref"
           /\ PrivateAcl(m)[1] = "ref" => PrivateAcl(m) = m
  BY MemberKinds, AclKinds DEF PrivateAcl, CannedAcls, Literal

LEMMA BlockEdited ==
    ASSUME NEW r, WellMade(r), NEW edit \in Edits
    PROVE  LET s == EditBlock(r, edit) IN
           /\ WellMade(s) /\ Kept(r, s)
           /\ Rules(s) = {EditRule(rule, edit) : rule \in Rules(r)}
           /\ Members(s, "acl") =
                 IF edit = "restrict"
                 THEN {PrivateAcl(m) : m \in Members(r, "acl")}
                 ELSE Members(r, "acl")
  <1> DEFINE attrs == [n \in DOMAIN r.attrs |->
               CASE n = "ingress" ->
                      {EditRule(rule, edit) : rule \in r.attrs[n]}
                 [] n = "acl" /\ edit = "restrict" ->
                      [i \in DOMAIN r.attrs[n] |-> PrivateAcl(r.attrs[n][i])]
                 [] OTHER -> r.attrs[n]]
             s == EditBlock(r, edit)
             acl == r.attrs["acl"]
             list == [i \in DOMAIN acl |-> PrivateAcl(acl[i])]
  <1>1. s = [r EXCEPT !.attrs = attrs]
    BY DEF EditBlock
  <1>2. DOMAIN attrs = DOMAIN r.attrs
    OBVIOUS
  <1>3. \A n \in DOMAIN r.attrs \ {"ingress", "acl"} : attrs[n] = r.attrs[n]
    OBVIOUS
  <1>4. "ingress" \in DOMAIN r.attrs =>
           attrs["ingress"] = {EditRule(rule, edit) : rule \in r.attrs["ingress"]}
    OBVIOUS
  <1>5. "acl" \in DOMAIN r.attrs =>
           attrs["acl"] = IF edit = "restrict" THEN list ELSE acl
    OBVIOUS
  <1> HIDE DEF attrs, s
  <1>6. s = R(r.type, r.address, attrs)
    BY <1>1 DEF WellMade, R
  <1>7. /\ s.type = r.type /\ s.address = r.address /\ s.attrs = attrs
    BY <1>6 DEF R
  <1>8. Kept(r, s)
    BY <1>2, <1>3, <1>7 DEF Kept
  <1>9. Rules(s) = {EditRule(rule, edit) : rule \in Rules(r)}
    BY <1>2, <1>4, <1>7 DEF Rules, Has
  <1>10. WellMade(s)
    BY <1>6, <1>7, <1>9, RuleEdited DEF WellMade
  <1>11. Range(list) = {PrivateAcl(m) : m \in Range(acl)}
    BY DEF Range
  <1> HIDE DEF list, acl
  <1>12. Members(s, "acl") = IF edit = "restrict"
                             THEN {PrivateAcl(m) : m \in Members(r, "acl")}
                             ELSE Members(r, "acl")
    <2>1. CASE Has(r, "acl")
      <3>1. /\ Has(s, "acl") /\ Members(r, "acl") = Range(acl)
            /\ Members(s, "acl") = Range(IF edit = "restrict" THEN list
                                         ELSE acl)
        BY <1>2, <1>5, <1>7, <2>1 DEF Has, Members, acl
      <3>2. CASE edit = "restrict"
        BY <1>11, <3>1, <3>2
      <3>3. CASE edit # "restrict"
        BY <3>1, <3>3
      <3> QED BY <3>2, <3>3
    <2>2. CASE ~Has(r, "acl")
      <3>1. Members(r, "acl") = {} /\ Members(s, "acl") = {}
        BY <1>2, <1>7, <2>2 DEF Has, Members
      <3> QED BY <3>1
    <2> QED BY <2>1, <2>2
  <1> QED BY <1>8, <1>9, <1>10, <1>12 DEF s

LEMMA KeptSame ==
    ASSUME NEW r, NEW s, Kept(r, s)
    PROVE  /\ Kept(s, r)
           /\ \A n : n \notin {"ingress", "acl"} =>
                 Members(s, n) = Members(r, n)
                 /\ References(s, n) = References(r, n)
           /\ \A n : Has(s, n) <=> Has(r, n)
           /\ Has(r, "policy") => s.attrs["policy"] = r.attrs["policy"]
           /\ Statements(s) = Statements(r)
  <1>1. \A n : Has(s, n) <=> Has(r, n)
    BY DEF Kept, Has
  <1>2. \A n : n \notin {"ingress", "acl"} => Members(s, n) = Members(r, n)
    <2> TAKE n
    <2>1. CASE Has(r, n)
      BY <1>1, <2>1 DEF Kept, Has, Members
    <2>2. CASE ~Has(r, n)
      BY <1>1, <2>2 DEF Members
    <2> QED BY <2>1, <2>2
  <1>3. Kept(s, r)
    BY DEF Kept
  <1>4. Has(r, "policy") => s.attrs["policy"] = r.attrs["policy"]
    BY DEF Kept, Has
  <1>5. Statements(s) = Statements(r)
    BY <1>1, <1>4 DEF Statements
  <1> QED BY <1>1, <1>2, <1>3, <1>4, <1>5 DEF References

(* Two sets of resources that differ in what an edit may change.           *)
Alike(rs, ss) ==
    /\ \A r \in rs : \E s \in ss : Kept(r, s)
    /\ \A s \in ss : \E r \in rs : Kept(r, s)
    /\ \A r, q \in rs : r.address = q.address => r = q
    /\ \A s, q \in ss : s.address = q.address => s = q

LEMMA AlikeBack ==
    ASSUME NEW rs, NEW ss, Alike(rs, ss) PROVE Alike(ss, rs)
  BY KeptSame DEF Alike

LEMMA TwinOf ==
    ASSUME NEW rs, NEW ss, Alike(rs, ss), NEW type, NEW r \in OfType(rs, type)
    PROVE  \E s \in OfType(ss, type) :
              Kept(r, s) /\ s.address = r.address
  <1>1. r \in rs /\ r.type = type
    BY DEF OfType
  <1>2. PICK s \in ss : Kept(r, s)
    BY <1>1 DEF Alike
  <1> QED BY <1>1, <1>2 DEF Kept, OfType

-----------------------------------------------------------------------------
(* What an edit leaves alone finds the same.                               *)
LEMMA KeptUse ==
    ASSUME NEW r, NEW s, Kept(r, s)
    PROVE  /\ s.address = r.address /\ s.type = r.type
           /\ Attached(s) = Attached(r)
           /\ \A n \in {"role", "iam_instance_profile", "policy_arn",
                        "bucket"} : References(s, n) = References(r, n)
           /\ \A n \in {"tags", "bucket", "ignore_public_acls",
                        "restrict_public_buckets"} :
                 Members(s, n) = Members(r, n)
           /\ Statements(s) = Statements(r) /\ S3Access(s) = S3Access(r)
           /\ \A p : Matches(p, s, TRUE) <=> Matches(p, r, TRUE)
           /\ \A p : Matches(p, s, FALSE) <=> Matches(p, r, FALSE)
  <1>1. s.address = r.address /\ s.type = r.type
    BY DEF Kept
  <1>2. /\ \A n \in {"vpc_security_group_ids", "security_groups", "role",
                     "iam_instance_profile", "policy_arn", "bucket"} :
              References(s, n) = References(r, n)
        /\ \A n \in {"tags", "bucket", "ignore_public_acls",
                     "restrict_public_buckets"} : Members(s, n) = Members(r, n)
        /\ Statements(s) = Statements(r)
    BY KeptSame
  <1>3. Attached(s) = Attached(r)
    BY <1>2 DEF Attached
  <1>4. S3Access(s) = S3Access(r)
    BY <1>2 DEF S3Access
  <1>5. \A p : (Matches(p, s, TRUE) <=> Matches(p, r, TRUE))
               /\ (Matches(p, s, FALSE) <=> Matches(p, r, FALSE))
    BY <1>1, <1>2 DEF Matches
  <1> QED BY <1>1, <1>2, <1>3, <1>4, <1>5

LEMMA LinkedTwin ==
    ASSUME NEW rs, NEW ss, Alike(rs, ss), NEW type,
           NEW n \in {"role", "bucket"}, NEW a,
           NEW r \in Linked(rs, type, n, a)
    PROVE  \E s \in Linked(ss, type, n, a) : Kept(r, s)
  <1>1. r \in OfType(rs, type) /\ a \in References(r, n)
    BY DEF Linked
  <1>2. PICK s \in OfType(ss, type) : Kept(r, s)
    BY <1>1, TwinOf
  <1>3. References(s, n) = References(r, n)
    BY <1>2, KeptUse
  <1> QED BY <1>1, <1>2, <1>3 DEF Linked

LEMMA ProtectsKept ==
    ASSUME NEW rs, NEW ss, Alike(rs, ss)
    PROVE  ProtectsIn(rs) \subseteq ProtectsIn(ss)
  <1> SUFFICES ASSUME NEW f \in ProtectsIn(rs) PROVE f \in ProtectsIn(ss)
    OBVIOUS
  <1>1. PICK i \in OfType(rs, "aws_instance"),
             g \in OfType(rs, "aws_security_group") :
           /\ g.address \in Attached(i)
           /\ f = Edge(g.address, i.address, "PROTECTS", LOW, "none")
    BY ProtectsAre
  <1>2. PICK j \in OfType(ss, "aws_instance") : Kept(i, j)
    BY TwinOf
  <1>3. PICK h \in OfType(ss, "aws_security_group") : Kept(g, h)
    BY TwinOf
  <1>4. h.address \in Attached(j)
        /\ f = Edge(h.address, j.address, "PROTECTS", LOW, "none")
    BY <1>1, <1>2, <1>3, KeptUse
  <1> QED BY <1>4, ProtectsAre

LEMMA RolesKept ==
    ASSUME NEW rs, NEW ss, Alike(rs, ss), NEW i, NEW j, Kept(i, j)
    PROVE  InstanceRoles(rs, i) \subseteq InstanceRoles(ss, j)
  <1> DEFINE named == References(i, "iam_instance_profile")
             profiles(xs) == {p \in OfType(xs, "aws_iam_instance_profile") :
                                 p.address \in named}
             roles(xs) == UNION {References(p, "role") : p \in profiles(xs)}
  <1>1. References(j, "iam_instance_profile") = named
    BY KeptUse
  <1>2. InstanceRoles(rs, i) = named \cup roles(rs)
        /\ InstanceRoles(ss, j) = named \cup roles(ss)
    BY <1>1 DEF InstanceRoles
  <1>3. ASSUME NEW p \in profiles(rs)
        PROVE  \E q \in profiles(ss) :
                  References(q, "role") = References(p, "role")
    <2>1. p \in OfType(rs, "aws_iam_instance_profile") /\ p.address \in named
      OBVIOUS
    <2>2. PICK q \in OfType(ss, "aws_iam_instance_profile") : Kept(p, q)
      BY <2>1, TwinOf
    <2> QED BY <2>1, <2>2, KeptUse
  <1> HIDE DEF profiles, named
  <1>4. roles(rs) \subseteq roles(ss)
    BY <1>3
  <1> QED BY <1>2, <1>4

LEMMA AssumesKept ==
    ASSUME NEW rs, NEW ss, Alike(rs, ss)
    PROVE  AssumesIn(rs) \subseteq AssumesIn(ss)
  <1> SUFFICES ASSUME NEW f \in AssumesIn(rs) PROVE f \in AssumesIn(ss)
    OBVIOUS
  <1>1. PICK i \in OfType(rs, "aws_instance"),
             r \in OfType(rs, "aws_iam_role") :
           /\ r.address \in InstanceRoles(rs, i)
           /\ f = Edge(i.address, r.address, "ASSUMES_ROLE", MEDIUM, "none")
    BY AssumesAre
  <1>2. PICK j \in OfType(ss, "aws_instance") : Kept(i, j)
    BY TwinOf
  <1>3. PICK s \in OfType(ss, "aws_iam_role") : Kept(r, s)
    BY TwinOf
  <1>4. s.address \in InstanceRoles(ss, j)
        /\ f = Edge(j.address, s.address, "ASSUMES_ROLE", MEDIUM, "none")
    BY <1>1, <1>2, <1>3, KeptUse, RolesKept
  <1> QED BY <1>4, AssumesAre

LEMMA SourcesKept ==
    ASSUME NEW rs, NEW ss, Alike(rs, ss), NEW a, NEW p \in PolicySources(rs, a)
    PROVE  \E q \in PolicySources(ss, a) : Kept(p, q)
  <1>1. CASE p \in Linked(rs, "aws_iam_role_policy", "role", a)
    BY <1>1, LinkedTwin DEF PolicySources
  <1>2. CASE p \notin Linked(rs, "aws_iam_role_policy", "role", a)
    <2>1. /\ p \in OfType(rs, "aws_iam_policy")
          /\ \E t \in Linked(rs, "aws_iam_role_policy_attachment", "role", a) :
                p.address \in References(t, "policy_arn")
      BY <1>2 DEF PolicySources
    <2>2. PICK t \in Linked(rs, "aws_iam_role_policy_attachment", "role", a) :
             p.address \in References(t, "policy_arn")
      BY <2>1
    <2>3. PICK q \in OfType(ss, "aws_iam_policy") : Kept(p, q)
      BY <2>1, TwinOf
    <2>4. PICK u \in Linked(ss, "aws_iam_role_policy_attachment", "role", a) :
             Kept(t, u)
      BY LinkedTwin
    <2>5. q.address \in References(u, "policy_arn")
      BY <2>2, <2>3, <2>4, KeptUse
    <2> QED BY <2>3, <2>4, <2>5 DEF PolicySources
  <1> QED BY <1>1, <1>2

LEMMA AccessKept ==
    ASSUME NEW rs, NEW ss, Alike(rs, ss)
    PROVE  AccessFindings(rs) \subseteq AccessFindings(ss)
  <1> SUFFICES ASSUME NEW f, IsAccess(rs, f) PROVE IsAccess(ss, f)
    BY AccessesAre
  <1>1. PICK role \in OfType(rs, "aws_iam_role"),
             b \in OfType(rs, "aws_s3_bucket") :
           \E p \in PolicySources(rs, role.address) : \E t \in S3Access(p) :
              /\ \E pattern \in t.resources : Matches(pattern, b, FALSE)
              /\ f = Edge(role.address, b.address, "CAN_ACCESS",
                          AccessRisk(t), "none")
    BY DEF IsAccess
  <1>2. PICK p \in PolicySources(rs, role.address) : \E t \in S3Access(p) :
           /\ \E pattern \in t.resources : Matches(pattern, b, FALSE)
           /\ f = Edge(role.address, b.address, "CAN_ACCESS", AccessRisk(t),
                       "none")
    BY <1>1
  <1>3. PICK o \in OfType(ss, "aws_iam_role") : Kept(role, o)
    BY TwinOf
  <1>4. PICK c \in OfType(ss, "aws_s3_bucket") : Kept(b, c)
    BY TwinOf
  <1>5. PICK q \in PolicySources(ss, role.address) : Kept(p, q)
    BY SourcesKept
  <1>6. /\ o.address = role.address /\ c.address = b.address
        /\ S3Access(q) = S3Access(p)
        /\ \A pattern : Matches(pattern, c, FALSE) <=> Matches(pattern, b, FALSE)
    BY <1>3, <1>4, <1>5, KeptUse
  <1>7. q \in PolicySources(ss, o.address)
    BY <1>6
  <1> QED BY <1>2, <1>6, <1>7 DEF IsAccess

LEMMA ContainsKept ==
    ASSUME NEW rs, NEW ss, Alike(rs, ss)
    PROVE  ContainsFindings(rs) \subseteq ContainsFindings(ss)
  <1> SUFFICES ASSUME NEW f \in ContainsFindings(rs)
               PROVE  f \in ContainsFindings(ss)
    OBVIOUS
  <1>1. PICK c \in OfType(rs, "aws_s3_bucket") :
           /\ Literal("sensitive") \in Members(c, "tags")
           /\ f = Edge(c.address, MarkerOf[c.address], "CONTAINS", HIGH, "none")
    BY ContainsAre
  <1>2. PICK b \in OfType(ss, "aws_s3_bucket") : Kept(c, b)
    BY TwinOf
  <1>3. /\ Literal("sensitive") \in Members(b, "tags")
        /\ f = Edge(b.address, MarkerOf[b.address], "CONTAINS", HIGH, "none")
    BY <1>1, <1>2, KeptUse
  <1> QED BY <1>3, ContainsAre

LEMMA ControlledKept ==
    ASSUME NEW rs, NEW ss, Alike(rs, ss), IsFiniteSet(rs), IsFiniteSet(ss),
           NEW b, NEW c, c.address = b.address, NEW flag \in Flags,
           Controlled(rs, b, flag)
    PROVE  Controlled(ss, c, flag)
  <1> DEFINE linked(xs) == Linked(xs, "aws_s3_bucket_public_access_block",
                                  "bucket", b.address)
  <1>1. IsFiniteSet(linked(rs)) /\ IsFiniteSet(linked(ss))
    <2>1. linked(rs) \subseteq rs /\ linked(ss) \subseteq ss
      BY DEF Linked, OfType
    <2> QED BY <2>1, FS_Subset
  <1>2. /\ Cardinality(linked(rs)) = 1
        /\ \A x \in linked(rs) : Members(x, flag) = {Literal("true")}
    BY DEF Controlled
  <1>3. PICK x : linked(rs) = {x}
    BY <1>1, <1>2, FS_Singleton
  <1>4. x \in linked(rs)
    BY <1>3
  <1>5. PICK y \in linked(ss) : Kept(x, y)
    BY <1>4, LinkedTwin
  <1>6. ASSUME NEW z \in linked(ss) PROVE z = y
    <2>1. PICK w \in linked(rs) : Kept(z, w)
      BY AlikeBack, LinkedTwin
    <2>2. w = x
      BY <1>3
    <2>3. z.address = y.address
      BY <1>5, <2>1, <2>2, KeptUse
    <2>4. z \in ss /\ y \in ss
      BY DEF Linked, OfType
    <2> QED BY <2>3, <2>4 DEF Alike
  <1>7. linked(ss) = {y}
    BY <1>6
  <1>8. Members(y, flag) = {Literal("true")}
    <2>1. Members(x, flag) = {Literal("true")}
      BY <1>2, <1>4
    <2>2. flag \in {"tags", "bucket", "ignore_public_acls",
                    "restrict_public_buckets"}
      BY DEF Flags
    <2>3. Kept(x, y)
      BY <1>5
    <2> HIDE DEF linked
    <2> QED BY <2>1, <2>2, <2>3, KeptUse
  <1>9. Cardinality(linked(ss)) = 1
    BY <1>1, <1>7, FS_Singleton
  <1> HIDE DEF linked
  <1>10. \A z \in linked(ss) : Members(z, flag) = {Literal("true")}
    BY <1>7, <1>8
  <1> QED BY <1>9, <1>10 DEF Controlled, linked

LEMMA StatementsKept ==
    ASSUME NEW rs, NEW ss, Alike(rs, ss), NEW b, NEW c, Kept(b, c)
    PROVE  PublicStatements(rs, b) \subseteq PublicStatements(ss, c)
  <1> SUFFICES ASSUME NEW t \in PublicStatements(rs, b)
               PROVE  t \in PublicStatements(ss, c)
    OBVIOUS
  <1>1. PICK p \in Linked(rs, "aws_s3_bucket_policy", "bucket", b.address) :
           t \in Statements(p)
    BY DEF PublicStatements
  <1>2. PICK q \in Linked(ss, "aws_s3_bucket_policy", "bucket", b.address) :
           Kept(p, q)
    BY LinkedTwin
  <1>3. /\ c.address = b.address /\ Statements(q) = Statements(p)
        /\ \A pattern : Matches(pattern, c, TRUE) <=> Matches(pattern, b, TRUE)
    BY <1>2, KeptUse
  <1>4. Anonymous(b, t)
    BY DEF PublicStatements
  <1>5. Anonymous(c, t)
    BY <1>3, <1>4 DEF Anonymous
  <1> QED BY <1>1, <1>2, <1>3, <1>5 DEF PublicStatements

-----------------------------------------------------------------------------
(* A configuration that was read from edited text.                         *)
EditedFrom(c, d, edit) ==
    LET old == c.resources  new == d.resources IN
    /\ DOMAIN new = DOMAIN old /\ IsFiniteSet(DOMAIN old)
    /\ \A i \in DOMAIN old :
          WellMade(old[i]) /\ new[i] = EditBlock(old[i], edit)
    /\ d.unsupported = c.unsupported /\ d.diagnostics \subseteq c.diagnostics

LEMMA ImageFinite ==
    ASSUME NEW f, IsFiniteSet(DOMAIN f) PROVE IsFiniteSet(Range(f))
  <1> DEFINE g == [i \in DOMAIN f |-> f[i]]
  <1>1. Range(f) = {g[i] : i \in DOMAIN f}
    BY DEF Range
  <1>2. g \in Surjection(DOMAIN f, {g[i] : i \in DOMAIN f})
    BY DEF Surjection
  <1>3. IsFiniteSet({g[i] : i \in DOMAIN f})
    BY <1>2, FS_Surjection
  <1> QED BY <1>1, <1>3

LEMMA EditedResources ==
    ASSUME NEW c, NEW d, NEW edit \in Edits, EditedFrom(c, d, edit)
    PROVE  /\ \A r \in Range(c.resources) :
                 WellMade(r) /\ EditBlock(r, edit) \in Range(d.resources)
           /\ \A s \in Range(d.resources) :
                 \E r \in Range(c.resources) : s = EditBlock(r, edit)
           /\ \A a : Copies(d, a) = Copies(c, a)
           /\ Known(d) = Known(c)
           /\ IsFiniteSet(Range(c.resources))
           /\ IsFiniteSet(Range(d.resources))
  <1> DEFINE old == c.resources  new == d.resources
  <1>1. /\ DOMAIN new = DOMAIN old /\ IsFiniteSet(DOMAIN old)
        /\ \A i \in DOMAIN old :
              WellMade(old[i]) /\ new[i] = EditBlock(old[i], edit)
    BY DEF EditedFrom
  <1> HIDE DEF old, new
  <1>2. \A i \in DOMAIN old : new[i].address = old[i].address
    <2> TAKE i \in DOMAIN old
    <2>1. WellMade(old[i])
      BY <1>1
    <2>2. Kept(old[i], EditBlock(old[i], edit))
      BY <2>1, BlockEdited
    <2> QED BY <1>1, <2>2, KeptUse
  <1>3. /\ \A r \in Range(old) : WellMade(r) /\ EditBlock(r, edit) \in Range(new)
        /\ \A s \in Range(new) : \E r \in Range(old) : s = EditBlock(r, edit)
    BY <1>1 DEF Range
  <1>4. \A a : Copies(d, a) = Copies(c, a)
    BY <1>1, <1>2 DEF Copies, old, new
  <1>5. Known(d) = Known(c)
    <2>1. Known(d) = {new[i].address : i \in DOMAIN new}
      BY DEF Known, Range, new
    <2>2. Known(c) = {old[i].address : i \in DOMAIN old}
      BY DEF Known, Range, old
    <2> QED BY <1>1, <1>2, <2>1, <2>2
  <1>6. IsFiniteSet(Range(old)) /\ IsFiniteSet(Range(new))
    BY <1>1, ImageFinite
  <1> QED BY <1>3, <1>4, <1>5, <1>6 DEF old, new

LEMMA EditedUnique ==
    ASSUME NEW c, NEW d, NEW edit \in Edits, EditedFrom(c, d, edit)
    PROVE  /\ \A r \in Unambiguous(c) :
                 WellMade(r) /\ EditBlock(r, edit) \in Unambiguous(d)
           /\ \A s \in Unambiguous(d) :
                 \E r \in Unambiguous(c) : s = EditBlock(r, edit)
           /\ Alike(Unambiguous(c), Unambiguous(d))
           /\ IsFiniteSet(Unambiguous(c)) /\ IsFiniteSet(Unambiguous(d))
  <1>1. ASSUME NEW r \in Range(c.resources)
        PROVE  /\ WellMade(r) /\ EditBlock(r, edit) \in Range(d.resources)
               /\ EditBlock(r, edit).address = r.address
               /\ Kept(r, EditBlock(r, edit))
    <2>1. WellMade(r) /\ EditBlock(r, edit) \in Range(d.resources)
      BY EditedResources
    <2>2. Kept(r, EditBlock(r, edit))
      BY <2>1, BlockEdited
    <2> QED BY <2>1, <2>2, KeptUse
  <1>2. \A a : Copies(d, a) = Copies(c, a)
    BY EditedResources
  <1>3. \A r \in Unambiguous(c) : EditBlock(r, edit) \in Unambiguous(d)
    <2> TAKE r \in Unambiguous(c)
    <2>1. r \in Range(c.resources) /\ Cardinality(Copies(c, r.address)) = 1
      BY DEF Unambiguous
    <2>2. /\ EditBlock(r, edit) \in Range(d.resources)
          /\ EditBlock(r, edit).address = r.address
      BY <1>1, <2>1
    <2>3. Cardinality(Copies(d, EditBlock(r, edit).address)) = 1
      BY <1>2, <2>1, <2>2
    <2> QED BY <2>2, <2>3 DEF Unambiguous
  <1>4. \A s \in Unambiguous(d) :
           \E r \in Unambiguous(c) : s = EditBlock(r, edit)
    <2> TAKE s \in Unambiguous(d)
    <2>1. s \in Range(d.resources) /\ Cardinality(Copies(d, s.address)) = 1
      BY DEF Unambiguous
    <2>2. PICK r \in Range(c.resources) : s = EditBlock(r, edit)
      BY <2>1, EditedResources
    <2>3. s.address = r.address
      BY <1>1, <2>2
    <2>4. Cardinality(Copies(c, r.address)) = 1
      BY <1>2, <2>1, <2>3
    <2> QED BY <2>2, <2>4 DEF Unambiguous
  <1>5. /\ Unambiguous(c) \subseteq Range(c.resources)
        /\ Unambiguous(d) \subseteq Range(d.resources)
    BY DEF Unambiguous
  <1>6. \A r, q \in Unambiguous(c) : r.address = q.address => r = q
    <2> SUFFICES ASSUME NEW r \in Unambiguous(c), NEW q \in Unambiguous(c),
                        r.address = q.address
                 PROVE  r = q
      OBVIOUS
    <2> DEFINE C == Copies(c, r.address)
    <2>1. PICK i \in DOMAIN c.resources : r = c.resources[i]
      BY <1>5 DEF Range
    <2>2. PICK j \in DOMAIN c.resources : q = c.resources[j]
      BY <1>5 DEF Range
    <2>3. i \in C /\ j \in C /\ C \subseteq DOMAIN c.resources
      BY <2>1, <2>2 DEF Copies
    <2>4. IsFiniteSet(C)
      BY <2>3, FS_Subset DEF EditedFrom
    <2>5. Cardinality(C) = 1
      BY DEF Unambiguous
    <2> HIDE DEF C
    <2>6. i = j
      BY <2>3, <2>4, <2>5, FS_Singleton
    <2> QED BY <2>1, <2>2, <2>6
  <1>7. \A s, q \in Unambiguous(d) : s.address = q.address => s = q
    <2> SUFFICES ASSUME NEW s \in Unambiguous(d), NEW q \in Unambiguous(d),
                        s.address = q.address
                 PROVE  s = q
      OBVIOUS
    <2>1. PICK r \in Unambiguous(c) : s = EditBlock(r, edit)
      BY <1>4
    <2>2. PICK p \in Unambiguous(c) : q = EditBlock(p, edit)
      BY <1>4
    <2>3. r.address = p.address
      BY <1>1, <1>5, <2>1, <2>2
    <2> QED BY <1>6, <2>1, <2>2, <2>3
  <1>8. IsFiniteSet(Unambiguous(c)) /\ IsFiniteSet(Unambiguous(d))
    BY <1>5, EditedResources, FS_Subset
  <1>9. Alike(Unambiguous(c), Unambiguous(d))
    BY <1>1, <1>3, <1>4, <1>5, <1>6, <1>7 DEF Alike
  <1> QED BY <1>1, <1>3, <1>4, <1>5, <1>8, <1>9

(* What is found apart from what may be open to the world.                 *)
LEMMA InnerKept ==
    ASSUME NEW rs, NEW ss, Alike(rs, ss)
    PROVE  /\ InstanceFindings(rs) = InstanceFindings(ss)
           /\ AccessFindings(rs) = AccessFindings(ss)
           /\ ContainsFindings(rs) = ContainsFindings(ss)
  <1>1. Alike(ss, rs)
    BY AlikeBack
  <1>2. ProtectsIn(rs) = ProtectsIn(ss) /\ AssumesIn(rs) = AssumesIn(ss)
    BY <1>1, ProtectsKept, AssumesKept
  <1>3. AccessFindings(rs) = AccessFindings(ss)
    <2>1. AccessFindings(rs) \subseteq AccessFindings(ss)
      BY AccessKept
    <2>2. AccessFindings(ss) \subseteq AccessFindings(rs)
      BY <1>1, AccessKept
    <2> QED BY <2>1, <2>2
  <1>4. ContainsFindings(rs) = ContainsFindings(ss)
    <2>1. ContainsFindings(rs) \subseteq ContainsFindings(ss)
      BY ContainsKept
    <2>2. ContainsFindings(ss) \subseteq ContainsFindings(rs)
      BY <1>1, ContainsKept
    <2> QED BY <2>1, <2>2
  <1> QED BY <1>2, <1>3, <1>4, InstanceParts

(* Rules that are open to the world and do not reach an admin port.        *)
PlainPublic(r) ==
    {rule \in PublicIngress(r) : ~ReachesAdminPort(rule)}

LEMMA SameReach ==
    ASSUME NEW rule, NEW q, q.protocol = rule.protocol, q.ports = rule.ports
    PROVE  ReachesAdminPort(q) <=> ReachesAdminPort(rule)
  BY DEF ReachesAdminPort

LEMMA RestrictIngress ==
    ASSUME NEW r, WellMade(r)
    PROVE  PublicIngress(EditBlock(r, "restrict")) = PlainPublic(r)
  <1> DEFINE s == EditBlock(r, "restrict")
  <1>1. Rules(s) = {EditRule(rule, "restrict") : rule \in Rules(r)}
    BY BlockEdited DEF Edits
  <1>2. \A rule \in Rules(r) : IsRule(rule)
    BY DEF WellMade
  <1> HIDE DEF s
  <1>3. ASSUME NEW q \in PublicIngress(s) PROVE q \in PlainPublic(r)
    <2>1. q \in Rules(s) /\ q.cidr = "public" /\ q.ports # <<"expr">>
      BY DEF PublicIngress
    <2>2. PICK rule \in Rules(r) : q = EditRule(rule, "restrict")
      BY <1>1, <2>1
    <2>3. q = rule /\ ~ReachesAdminPort(rule)
      BY <1>2, <2>1, <2>2, RuleEdited
    <2> QED BY <2>1, <2>3 DEF PlainPublic, PublicIngress
  <1>4. ASSUME NEW rule \in PlainPublic(r) PROVE rule \in PublicIngress(s)
    <2>1. /\ rule \in Rules(r) /\ rule.cidr = "public"
          /\ rule.ports # <<"expr">> /\ ~ReachesAdminPort(rule)
      BY DEF PlainPublic, PublicIngress
    <2>2. EditRule(rule, "restrict") = rule
      BY <1>2, <2>1, RuleEdited
    <2>3. rule \in Rules(s)
      BY <1>1, <2>1, <2>2
    <2> QED BY <2>1, <2>3 DEF PublicIngress
  <1> QED BY <1>3, <1>4 DEF s

LEMMA WidenPlain ==
    ASSUME NEW r, WellMade(r)
    PROVE  /\ PlainPublic(EditBlock(r, "widen")) = PlainPublic(r)
           /\ PublicIngress(r) \subseteq PublicIngress(EditBlock(r, "widen"))
           /\ \A rule \in Rules(r) :
                 ReachesAdminPort(rule) /\ rule.ports # <<"expr">> =>
                    PublicIngress(EditBlock(r, "widen")) # {}
  <1> DEFINE s == EditBlock(r, "widen")
  <1>1. Rules(s) = {EditRule(rule, "widen") : rule \in Rules(r)}
    BY BlockEdited DEF Edits
  <1>2. \A rule \in Rules(r) : IsRule(rule)
    BY DEF WellMade
  <1> HIDE DEF s
  <1>3. ASSUME NEW q \in PlainPublic(s) PROVE q \in PlainPublic(r)
    <2>1. /\ q \in Rules(s) /\ q.cidr = "public" /\ q.ports # <<"expr">>
          /\ ~ReachesAdminPort(q)
      BY DEF PublicIngress, PlainPublic
    <2>2. PICK rule \in Rules(r) : q = EditRule(rule, "widen")
      BY <1>1, <2>1
    <2>3. q.protocol = rule.protocol /\ q.ports = rule.ports
      BY <1>2, <2>2, RuleEdited
    <2>4. ~ReachesAdminPort(rule)
      BY <2>1, <2>3, SameReach
    <2>5. q = rule
      BY <1>2, <2>2, <2>4, RuleEdited
    <2> QED BY <2>1, <2>5 DEF PlainPublic, PublicIngress
  <1>4. ASSUME NEW rule \in PublicIngress(r) PROVE rule \in PublicIngress(s)
    <2>1. rule \in Rules(r) /\ rule.cidr = "public" /\ rule.ports # <<"expr">>
      BY DEF PublicIngress
    <2>2. EditRule(rule, "widen") = rule
      BY <1>2, <2>1, RuleEdited
    <2>3. rule \in Rules(s)
      BY <1>1, <2>1, <2>2
    <2> QED BY <2>1, <2>3 DEF PublicIngress
  <1>5. ASSUME NEW rule \in Rules(r), ReachesAdminPort(rule),
               rule.ports # <<"expr">>
        PROVE  PublicIngress(s) # {}
    <2> DEFINE q == EditRule(rule, "widen")
    <2>1. q.cidr = "public" /\ q.ports = rule.ports
      BY <1>2, <1>5, RuleEdited
    <2>2. q \in Rules(s)
      BY <1>1
    <2> HIDE DEF q
    <2>3. q \in PublicIngress(s)
      BY <1>5, <2>1, <2>2 DEF PublicIngress
    <2> QED BY <2>3
  <1> QED BY <1>3, <1>4, <1>5 DEF s, PlainPublic

-----------------------------------------------------------------------------
(* Public buckets.  The canned ACLs that open one are those the repair     *)
(* closes.                                                                 *)
PublicNames == {"public-read", "public-read-write"}

(* The bucket before and after an edit.                                    *)
LEMMA BucketEdited ==
    ASSUME NEW c, NEW d, NEW edit \in Edits, EditedFrom(c, d, edit),
           NEW b \in OfType(Unambiguous(c), "aws_s3_bucket")
    PROVE  LET rs == Unambiguous(c)  ss == Unambiguous(d)
               e == EditBlock(b, edit)
           IN  /\ e \in OfType(ss, "aws_s3_bucket") /\ e.address = b.address
               /\ \A flag \in Flags :
                     Controlled(ss, e, flag) <=> Controlled(rs, b, flag)
               /\ PublicStatements(ss, e) = PublicStatements(rs, b)
  <1> DEFINE rs == Unambiguous(c)  ss == Unambiguous(d)
             e == EditBlock(b, edit)
  <1>1. b \in rs /\ b.type = "aws_s3_bucket"
    BY DEF OfType
  <1>2. /\ WellMade(b) /\ e \in ss
        /\ Alike(rs, ss) /\ IsFiniteSet(rs) /\ IsFiniteSet(ss)
    BY <1>1, EditedUnique
  <1>3. Kept(b, e)
    BY <1>2, BlockEdited
  <1> HIDE DEF rs, ss, e
  <1>4. /\ Alike(ss, rs) /\ Kept(e, b)
        /\ e.address = b.address /\ e.type = b.type
    BY <1>2, <1>3, AlikeBack, KeptSame, KeptUse
  <1>5. \A flag \in Flags : Controlled(ss, e, flag) <=> Controlled(rs, b, flag)
    <2> TAKE flag \in Flags
    <2>1. Controlled(ss, e, flag) => Controlled(rs, b, flag)
      BY <1>2, <1>4, ControlledKept
    <2>2. Controlled(rs, b, flag) => Controlled(ss, e, flag)
      BY <1>2, <1>4, ControlledKept
    <2> QED BY <2>1, <2>2
  <1>6. PublicStatements(ss, e) = PublicStatements(rs, b)
    <2>1. PublicStatements(ss, e) \subseteq PublicStatements(rs, b)
      BY <1>4, StatementsKept
    <2>2. PublicStatements(rs, b) \subseteq PublicStatements(ss, e)
      BY <1>2, <1>3, StatementsKept
    <2> QED BY <2>1, <2>2
  <1>7. e \in OfType(ss, "aws_s3_bucket")
    BY <1>1, <1>2, <1>4 DEF OfType
  <1> QED BY <1>4, <1>5, <1>6, <1>7 DEF rs, ss, e

LEMMA PublicAclIs ==
    ASSUME NEW rs, NEW b, NEW m
    PROVE  m \in PublicAcls(rs, b) <=>
              /\ m[2] \in PublicNames
              /\ \/ m \in Members(b, "acl")
                 \/ \E r \in Linked(rs, "aws_s3_bucket_acl", "bucket",
                                    b.address) : m \in Members(r, "acl")
  BY DEF PublicAcls, PublicNames

LEMMA AclsEdited ==
    ASSUME NEW c, NEW d, NEW edit \in Edits, EditedFrom(c, d, edit),
           NEW b \in OfType(Unambiguous(c), "aws_s3_bucket"), NEW m
    PROVE  m \in PublicAcls(Unambiguous(d), EditBlock(b, edit)) <=>
              /\ m[2] \in PublicNames
              /\ \/ m \in Members(EditBlock(b, edit), "acl")
                 \/ \E r \in Linked(Unambiguous(c), "aws_s3_bucket_acl",
                                    "bucket", b.address) :
                       m \in Members(EditBlock(r, edit), "acl")
  <1> DEFINE rs == Unambiguous(c)  ss == Unambiguous(d)
             linked(xs) == Linked(xs, "aws_s3_bucket_acl", "bucket", b.address)
  <1>1. EditBlock(b, edit).address = b.address
    BY BucketEdited
  <1>2. ASSUME NEW r \in rs
        PROVE  /\ EditBlock(r, edit) \in ss
               /\ EditBlock(r, edit) \in linked(ss) <=> r \in linked(rs)
    <2>1. WellMade(r) /\ EditBlock(r, edit) \in ss
      BY EditedUnique
    <2>2. Kept(r, EditBlock(r, edit))
      BY <2>1, BlockEdited
    <2>3. /\ EditBlock(r, edit).type = r.type
          /\ References(EditBlock(r, edit), "bucket") = References(r, "bucket")
      BY <2>2, KeptUse
    <2> QED BY <2>1, <2>3 DEF Linked, OfType
  <1>3. \A s \in ss : \E r \in rs : s = EditBlock(r, edit)
    BY EditedUnique
  <1>4. linked(rs) \subseteq rs /\ linked(ss) \subseteq ss
    BY DEF Linked, OfType
  <1> HIDE DEF rs, ss, linked
  <1>5. (\E s \in linked(ss) : m \in Members(s, "acl")) <=>
        (\E r \in linked(rs) : m \in Members(EditBlock(r, edit), "acl"))
    BY <1>2, <1>3, <1>4
  <1>6. m \in PublicAcls(ss, EditBlock(b, edit)) <=>
           /\ m[2] \in PublicNames
           /\ \/ m \in Members(EditBlock(b, edit), "acl")
              \/ \E s \in linked(ss) : m \in Members(s, "acl")
    BY <1>1, PublicAclIs DEF linked
  <1> QED BY <1>5, <1>6 DEF rs, ss, linked

LEMMA AclBefore ==
    ASSUME NEW r, WellMade(r), NEW m
    PROVE  /\ m \in Members(EditBlock(r, "restrict"), "acl") =>
                 \E x \in Members(r, "acl") : m = PrivateAcl(x)
           /\ Members(EditBlock(r, "widen"), "acl") = Members(r, "acl")
  BY BlockEdited DEF Edits

LEMMA RestrictAcls ==
    ASSUME NEW c, NEW d, EditedFrom(c, d, "restrict"),
           NEW b \in OfType(Unambiguous(c), "aws_s3_bucket"),
           NEW m \in PublicAcls(Unambiguous(d), EditBlock(b, "restrict"))
    PROVE  m \in PublicAcls(Unambiguous(c), b) /\ PrivateAcl(m) = m
  <1>0. "restrict" \in Edits
    BY DEF Edits
  <1> DEFINE linked == Linked(Unambiguous(c), "aws_s3_bucket_acl", "bucket",
                              b.address)
  <1>1. /\ m[2] \in PublicNames
        /\ \/ m \in Members(EditBlock(b, "restrict"), "acl")
           \/ \E r \in linked : m \in Members(EditBlock(r, "restrict"), "acl")
    BY <1>0, AclsEdited
  <1>2. /\ b \in Unambiguous(c) /\ linked \subseteq Unambiguous(c)
        /\ \A r \in Unambiguous(c) : WellMade(r)
    BY <1>0, EditedUnique DEF OfType, Linked
  <1> HIDE DEF linked
  <1>3. ASSUME NEW r \in Unambiguous(c),
               m \in Members(EditBlock(r, "restrict"), "acl")
        PROVE  m \in Members(r, "acl") /\ PrivateAcl(m) = m
    <2>1. PICK x \in Members(r, "acl") : m = PrivateAcl(x)
      BY <1>2, <1>3, AclBefore
    <2>2. PrivateAcl(x) = x
      BY <1>1, <2>1, AclEdited DEF PublicNames
    <2> QED BY <2>1, <2>2
  <1>4. CASE m \in Members(EditBlock(b, "restrict"), "acl")
    BY <1>1, <1>2, <1>3, <1>4, PublicAclIs
  <1>5. CASE \E r \in linked : m \in Members(EditBlock(r, "restrict"), "acl")
    <2>1. PICK r \in linked : m \in Members(EditBlock(r, "restrict"), "acl")
      BY <1>5
    <2>2. m \in Members(r, "acl") /\ PrivateAcl(m) = m
      BY <1>2, <1>3, <2>1
    <2> QED BY <1>1, <2>1, <2>2, PublicAclIs DEF linked
  <1> QED BY <1>1, <1>4, <1>5

LEMMA WidenAcls ==
    ASSUME NEW c, NEW d, EditedFrom(c, d, "widen"),
           NEW b \in OfType(Unambiguous(c), "aws_s3_bucket")
    PROVE  PublicAcls(Unambiguous(d), EditBlock(b, "widen"))
              = PublicAcls(Unambiguous(c), b)
  <1>0. "widen" \in Edits
    BY DEF Edits
  <1> DEFINE linked == Linked(Unambiguous(c), "aws_s3_bucket_acl", "bucket",
                              b.address)
             after == PublicAcls(Unambiguous(d), EditBlock(b, "widen"))
             earlier == PublicAcls(Unambiguous(c), b)
  <1>2. /\ b \in Unambiguous(c) /\ linked \subseteq Unambiguous(c)
        /\ \A r \in Unambiguous(c) : WellMade(r)
    BY <1>0, EditedUnique DEF OfType, Linked
  <1> SUFFICES ASSUME NEW m PROVE m \in after <=> m \in earlier
    OBVIOUS
  <1>1. m \in after <=>
        /\ m[2] \in PublicNames
        /\ \/ m \in Members(EditBlock(b, "widen"), "acl")
           \/ \E r \in linked : m \in Members(EditBlock(r, "widen"), "acl")
    BY <1>0, AclsEdited
  <1>3. m \in earlier <=>
        /\ m[2] \in PublicNames
        /\ \/ m \in Members(b, "acl")
           \/ \E r \in linked : m \in Members(r, "acl")
    BY PublicAclIs
  <1> HIDE DEF linked, after, earlier
  <1>4. \A r \in Unambiguous(c) :
           Members(EditBlock(r, "widen"), "acl") = Members(r, "acl")
    BY <1>2, AclBefore
  <1> QED BY <1>1, <1>2, <1>3, <1>4

(* A repair adds no finding, whatever the configuration.                   *)
LEMMA RepairFinds ==
    ASSUME NEW c, NEW d, EditedFrom(c, d, "restrict")
    PROVE  Findings(d) \subseteq Findings(c)
  <1>0. "restrict" \in Edits
    BY DEF Edits
  <1> DEFINE rs == Unambiguous(c)  ss == Unambiguous(d)
  <1>1. /\ \A s \in ss : \E r \in rs : s = EditBlock(r, "restrict")
        /\ \A r \in rs : WellMade(r) /\ Kept(r, EditBlock(r, "restrict"))
        /\ Alike(rs, ss)
    BY <1>0, EditedUnique, BlockEdited
  <1>2. ASSUME NEW type, NEW s \in OfType(ss, type)
        PROVE  \E r \in OfType(rs, type) :
                  s = EditBlock(r, "restrict") /\ s.address = r.address
    <2>1. s \in ss /\ s.type = type
      BY DEF OfType
    <2>2. PICK r \in rs : s = EditBlock(r, "restrict")
      BY <1>1, <2>1
    <2>3. r.type = s.type /\ s.address = r.address
      BY <1>1, <2>2, KeptUse
    <2> QED BY <2>1, <2>2, <2>3 DEF OfType
  <1>3. ASSUME NEW f \in IngressFindings(ss) PROVE f \in IngressFindings(rs)
    <2>1. PICK s \in OfType(ss, "aws_security_group") :
             \E rule \in PublicIngress(s) :
                f = Edge(Internet, s.address, "INGRESS_ALLOWS",
                         IngressRisk(rule), PortOf(rule))
      BY <1>3, IngressAre
    <2>2. PICK r \in OfType(rs, "aws_security_group") :
             s = EditBlock(r, "restrict") /\ s.address = r.address
      BY <1>2
    <2>3. PublicIngress(s) \subseteq PublicIngress(r)
      <3>1. WellMade(r)
        BY <1>1 DEF OfType
      <3> QED BY <2>2, <3>1, RestrictIngress DEF PlainPublic
    <2> QED BY <2>1, <2>2, <2>3, IngressAre
  <1>4. ASSUME NEW f, IsPublic(ss, f) PROVE IsPublic(rs, f)
    <2>1. PICK s \in OfType(ss, "aws_s3_bucket") :
       \/ \E acl \in PublicAcls(ss, s) :
             /\ ~Controlled(ss, s, "ignore_public_acls")
             /\ f = Edge(Internet, s.address, "PUBLIC_ACCESS",
                         IF acl[2] = "public-read-write" THEN CRITICAL
                         ELSE HIGH, "none")
       \/ \E t \in PublicStatements(ss, s) :
             /\ ~Controlled(ss, s, "restrict_public_buckets") \/ t.condition
             /\ f = Edge(Internet, s.address, "PUBLIC_ACCESS", CRITICAL,
                         "none")
      BY <1>4 DEF IsPublic
    <2>2. PICK b \in OfType(rs, "aws_s3_bucket") :
             s = EditBlock(b, "restrict") /\ s.address = b.address
      BY <1>2
    <2>3. /\ \A flag \in Flags :
                Controlled(ss, s, flag) <=> Controlled(rs, b, flag)
          /\ PublicStatements(ss, s) = PublicStatements(rs, b)
      BY <1>0, <2>2, BucketEdited
    <2>4. PublicAcls(ss, s) \subseteq PublicAcls(rs, b)
      BY <2>2, RestrictAcls
    <2> HIDE DEF rs, ss
    <2> QED BY <2>1, <2>2, <2>3, <2>4 DEF IsPublic, Flags
  <1>5. /\ InstanceFindings(rs) = InstanceFindings(ss)
        /\ AccessFindings(rs) = AccessFindings(ss)
        /\ ContainsFindings(rs) = ContainsFindings(ss)
    BY <1>1, InnerKept
  <1>6. PublicFindings(ss) \subseteq PublicFindings(rs)
    BY <1>4, PublicsAre
  <1>7. IngressFindings(ss) \subseteq IngressFindings(rs)
    BY <1>3
  <1>8. /\ Findings(c) = IngressFindings(rs) \cup InstanceFindings(rs)
             \cup AccessFindings(rs) \cup PublicFindings(rs)
             \cup ContainsFindings(rs)
        /\ Findings(d) = IngressFindings(ss) \cup InstanceFindings(ss)
             \cup AccessFindings(ss) \cup PublicFindings(ss)
             \cup ContainsFindings(ss)
    BY DEF Findings
  <1> HIDE DEF rs, ss
  <1> QED BY <1>5, <1>6, <1>7, <1>8

-----------------------------------------------------------------------------
(* An edit makes no gap.                                                   *)
LEMMA MembersEdited ==
    ASSUME NEW r, WellMade(r), NEW edit \in Edits
    PROVE  LET s == EditBlock(r, edit) IN
           \A n : n # "ingress" =>
              /\ \A m \in Members(s, n) :
                    m \in Members(r, n) \/ m = Literal("private")
              /\ References(s, n) \subseteq References(r, n)
  <1> DEFINE s == EditBlock(r, edit)
  <1>1. /\ Kept(r, s)
        /\ Members(s, "acl") = IF edit = "restrict"
                               THEN {PrivateAcl(m) : m \in Members(r, "acl")}
                               ELSE Members(r, "acl")
    BY BlockEdited
  <1> HIDE DEF s
  <1>2. \A m \in Members(s, "acl") :
           m \in Members(r, "acl") \/ m = Literal("private")
    <2> TAKE m \in Members(s, "acl")
    <2>1. CASE edit = "restrict"
      <3>1. PICK x \in Members(r, "acl") : m = PrivateAcl(x)
        BY <1>1, <2>1
      <3>2. m = x \/ m = Literal("private")
        BY <3>1, AclEdited
      <3> QED BY <3>1, <3>2
    <2>2. CASE edit # "restrict"
      BY <1>1, <2>2
    <2> QED BY <2>1, <2>2
  <1>3. \A n : n # "ingress" => \A m \in Members(s, n) :
           m \in Members(r, n) \/ m = Literal("private")
    BY <1>1, <1>2, KeptSame
  <1>4. \A n : n # "ingress" => References(s, n) \subseteq References(r, n)
    <2>1. Literal("private")[1] # "ref"
      BY MemberKinds
    <2> QED BY <1>3, <2>1 DEF References, Addresses
  <1> QED BY <1>3, <1>4 DEF s

LEMMA PolicyKept ==
    ASSUME NEW r, NEW s, Kept(r, s)
    PROVE  /\ PolicyGap(s) <=> PolicyGap(r)
           /\ PolicyReferences(s) = PolicyReferences(r)
  <1>1. /\ Statements(s) = Statements(r) /\ s.type = r.type
        /\ Has(s, "policy") <=> Has(r, "policy")
        /\ Has(r, "policy") => s.attrs["policy"] = r.attrs["policy"]
    BY KeptSame, KeptUse
  <1> QED BY <1>1 DEF PolicyGap, PolicyReferences, Granted

LEMMA IngressKept ==
    ASSUME NEW rule, IsRule(rule), NEW edit,
           IngressGap(EditRule(rule, edit))
    PROVE  IngressGap(rule)
  <1> DEFINE q == EditRule(rule, edit)
  <1>1. /\ q.protocol = rule.protocol /\ q.ports = rule.ports
        /\ q.hop = rule.hop
        /\ q = rule \/ q.cidr \in {"private", "public"}
    BY RuleEdited
  <1>2. IngressGap(q)
    OBVIOUS
  <1> HIDE DEF q
  <1>3. q.cidr = "expr" => rule.cidr = "expr"
    BY <1>1
  <1> QED BY <1>1, <1>2, <1>3 DEF IngressGap

LEMMA GapEdited ==
    ASSUME NEW c, NEW d, NEW edit \in Edits, EditedFrom(c, d, edit),
           NEW r \in Range(c.resources), Gap(d, EditBlock(r, edit))
    PROVE  Gap(c, r)
  <1> DEFINE s == EditBlock(r, edit)
  <1>1. WellMade(r)
    BY EditedResources
  <1>2. /\ Kept(r, s) /\ Rules(s) = {EditRule(rule, edit) : rule \in Rules(r)}
    BY <1>1, BlockEdited
  <1>3. \A n : n # "ingress" =>
           /\ \A m \in Members(s, n) :
                 m \in Members(r, n) \/ m = Literal("private")
           /\ References(s, n) \subseteq References(r, n)
    BY <1>1, MembersEdited
  <1>4. Gap(d, s)
    OBVIOUS
  <1> HIDE DEF s
  <1>5. /\ s.type = r.type /\ s.address = r.address
        /\ DOMAIN s.attrs = DOMAIN r.attrs
        /\ \A n : Has(s, n) <=> Has(r, n)
    BY <1>2, KeptSame DEF Kept
  <1>6. \A n : n \notin {"ingress", "acl"} =>
           Members(s, n) = Members(r, n) /\ References(s, n) = References(r, n)
    BY <1>2, KeptSame
  <1>7. /\ Copies(d, s.address) = Copies(c, r.address)
        /\ Known(d) = Known(c)
    BY <1>5, EditedResources
  <1>8. /\ PolicyGap(s) <=> PolicyGap(r)
        /\ PolicyReferences(s) = PolicyReferences(r)
    BY <1>2, PolicyKept
  <1>9. PlainAttributes(s) = PlainAttributes(r)
        /\ "ingress" \notin PlainAttributes(r)
    BY <1>5 DEF PlainAttributes
  <1>10. CASE Cardinality(Copies(d, s.address)) > 1
    BY <1>7, <1>10 DEF Gap
  <1>11. CASE s.type \in PolicyTypes /\ PolicyGap(s)
    BY <1>5, <1>8, <1>11 DEF Gap
  <1>12. CASE {"count", "for_each", "dynamic"} \cap DOMAIN s.attrs # {}
    BY <1>5, <1>12 DEF Gap
  <1>13. CASE \E n \in PlainAttributes(s) : {Expr, Null} \cap Members(s, n) # {}
    <2>1. Expr # Literal("private") /\ Null # Literal("private")
      BY MemberKinds
    <2>2. \E n \in PlainAttributes(r) : {Expr, Null} \cap Members(r, n) # {}
      BY <1>3, <1>9, <1>13, <2>1
    <2> QED BY <2>2 DEF Gap
  <1>14. CASE \E a \in PolicyReferences(s) \cup
                 UNION {References(s, n) : n \in PlainAttributes(s)} :
                    a \notin Known(d)
    <2>1. UNION {References(s, n) : n \in PlainAttributes(s)} \subseteq
             UNION {References(r, n) : n \in PlainAttributes(r)}
      BY <1>3, <1>9
    <2>2. \E a \in PolicyReferences(r) \cup
             UNION {References(r, n) : n \in PlainAttributes(r)} :
                a \notin Known(c)
      BY <1>7, <1>8, <1>14, <2>1
    <2> QED BY <2>2 DEF Gap
  <1>15. CASE {"permissions_boundary", "managed_policy_arns"}
                 \cap DOMAIN s.attrs # {}
    BY <1>5, <1>15 DEF Gap
  <1>16. CASE s.type = "aws_s3_bucket" /\ Has(s, "policy")
    BY <1>5, <1>16 DEF Gap
  <1>17. CASE \E n \in LinkAttributes(s.type) : Unlinked(s, n)
    <2>1. PICK n \in LinkAttributes(s.type) : Unlinked(s, n)
      BY <1>17
    <2>2. n \in {"vpc_security_group_ids", "security_groups", "role",
                 "iam_instance_profile", "policy_arn", "bucket"}
      BY DEF LinkAttributes
    <2>3. Members(s, n) = Members(r, n)
      BY <1>6, <2>2
    <2>4. Unlinked(r, n)
      BY <1>5, <2>1, <2>3 DEF Unlinked
    <2>5. n \in LinkAttributes(r.type)
      BY <1>5
    <2> QED BY <2>4, <2>5 DEF Gap
  <1>18. CASE AmbiguousControl(d, s)
    <2>1. PICK t \in Range(d.resources) :
             /\ s.type = "aws_s3_bucket_public_access_block"
             /\ t.type = s.type /\ t.address # s.address
             /\ References(t, "bucket") \cap References(s, "bucket") # {}
      BY <1>18 DEF AmbiguousControl
    <2>2. PICK q \in Range(c.resources) : t = EditBlock(q, edit)
      BY EditedResources
    <2>3. WellMade(q)
      BY EditedResources
    <2>4. Kept(q, t)
      BY <2>2, <2>3, BlockEdited
    <2>5. /\ t.type = q.type /\ t.address = q.address
          /\ References(t, "bucket") = References(q, "bucket")
      BY <2>4, KeptUse
    <2>6. References(s, "bucket") = References(r, "bucket")
      BY <1>6
    <2>7. AmbiguousControl(c, r)
      BY <1>5, <2>1, <2>5, <2>6 DEF AmbiguousControl
    <2> QED BY <2>7 DEF Gap
  <1>19. CASE \E m \in Members(s, "acl") : m[2] \notin CannedAcls
    <2>1. Literal("private")[2] \in CannedAcls
      BY MemberKinds DEF CannedAcls
    <2>2. \E m \in Members(r, "acl") : m[2] \notin CannedAcls
      BY <1>3, <1>19, <2>1
    <2> QED BY <2>2 DEF Gap
  <1>20. CASE \E n \in Flags : \E m \in Members(s, n) :
                 m[2] \notin {"true", "false"}
    <2>1. \A n \in Flags : Members(s, n) = Members(r, n)
      BY <1>6 DEF Flags
    <2>2. \E n \in Flags : \E m \in Members(r, n) :
             m[2] \notin {"true", "false"}
      BY <1>20, <2>1
    <2> QED BY <2>2 DEF Gap
  <1>21. CASE \E rule \in Rules(s) : IngressGap(rule)
    <2>1. PICK rule \in Rules(r) : IngressGap(EditRule(rule, edit))
      BY <1>2, <1>21
    <2>2. IngressGap(rule)
      BY <1>1, <2>1, IngressKept DEF WellMade
    <2> QED BY <2>2 DEF Gap
  <1> QED BY <1>4, <1>10, <1>11, <1>12, <1>13, <1>14, <1>15, <1>16, <1>17,
             <1>18, <1>19, <1>20, <1>21 DEF Gap

LEMMA CompleteEdited ==
    ASSUME NEW c, NEW d, NEW edit \in Edits, EditedFrom(c, d, edit),
           Complete(c)
    PROVE  Complete(d)
  <1>1. /\ c.diagnostics = {} /\ c.unsupported \subseteq InertTypes
        /\ \A r \in Range(c.resources) : ~Gap(c, r)
    BY DEF Complete
  <1>2. d.diagnostics = {} /\ d.unsupported \subseteq InertTypes
    BY <1>1 DEF EditedFrom
  <1>3. \A s \in Range(d.resources) :
           \E r \in Range(c.resources) : s = EditBlock(r, edit)
    BY EditedResources
  <1>4. \A s \in Range(d.resources) : ~Gap(d, s)
    BY <1>1, <1>3, GapEdited
  <1> QED BY <1>2, <1>4 DEF Complete

-----------------------------------------------------------------------------
(* The blocks of a directory are well made, and stay so when edited.       *)
LEMMA RulesMade ==
    ASSUME NEW p, NEW style
    PROVE  IsRule(Rule(p, style)) /\ IsRule(PrivateRule(style))
  BY DEF IsRule, Rule, PrivateRule

LEMMA MadeGroup ==
    ASSUME NEW l, NEW g, NEW style
    PROVE  WellMade(Group(l, g, style))
  <1>1. Group(l, g, style) =
           R(Group(l, g, style).type, Group(l, g, style).address,
             Group(l, g, style).attrs)
    BY DEF Group, R
  <1>2. \A rule \in Rules(Group(l, g, style)) : IsRule(rule)
    <2> SUFFICES ASSUME NEW rule \in Rules(Group(l, g, style))
                 PROVE  IsRule(rule)
      OBVIOUS
    <2>1. Rules(Group(l, g, style)) \subseteq
             {Rule(p, style) : p \in l.open[g]} \cup {PrivateRule(style)}
      BY GroupRules
    <2>2. (\E p \in l.open[g] : rule = Rule(p, style))
          \/ rule = PrivateRule(style)
      BY <2>1
    <2> QED BY <2>2, RulesMade
  <1> QED BY <1>1, <1>2 DEF WellMade

LEMMA MadePlain ==
    ASSUME NEW type, NEW address, NEW attrs, "ingress" \notin DOMAIN attrs
    PROVE  WellMade(R(type, address, attrs))
  <1> DEFINE r == R(type, address, attrs)
  <1>1. r.type = type /\ r.address = address /\ r.attrs = attrs
    BY DEF R
  <1>2. Rules(r) = {}
    BY <1>1 DEF Rules, Has
  <1>3. r = R(type, address, attrs)
    OBVIOUS
  <1> HIDE DEF r
  <1>4. r = R(r.type, r.address, r.attrs)
    BY <1>1, <1>3
  <1> QED BY <1>2, <1>3, <1>4 DEF WellMade

Shaped(x) == x = R(x.type, x.address, x.attrs)

LEMMA ShapedBlocks ==
    ASSUME NEW l, NEW style
    PROVE  /\ Shaped(Instance(l, style)) /\ Shaped(Profile)
           /\ Shaped(Role(style))
           /\ \A b : Shaped(Bucket(l, b, style))
           /\ \A m : Shaped(Attachment(m))
           /\ Shaped(Managed(l, style)) /\ Shaped(Inline(l, style))
           /\ Shaped(AclBlock(style)) /\ Shaped(PolicyBlock(style))
           /\ \A a : Shaped(ControlBlock(a, style))
  <1>1. \A type, address, attrs : Shaped(R(type, address, attrs))
    BY DEF Shaped, R
  <1>2. Shaped(Instance(l, style)) /\ Shaped(Profile) /\ Shaped(Role(style))
    BY <1>1 DEF Instance, Profile, Role
  <1>3. \A b : Shaped(Bucket(l, b, style))
    BY <1>1 DEF Bucket
  <1>4. /\ \A m : Shaped(Attachment(m))
        /\ Shaped(Managed(l, style)) /\ Shaped(Inline(l, style))
    BY <1>1 DEF Attachment, Managed, Inline
  <1>5. /\ Shaped(AclBlock(style)) /\ Shaped(PolicyBlock(style))
        /\ \A a : Shaped(ControlBlock(a, style))
    BY <1>1 DEF AclBlock, PolicyBlock, ControlBlock
  <1> QED BY <1>2, <1>3, <1>4, <1>5

LEMMA MadeBlocks ==
    ASSUME NEW l, NEW style, NEW x \in BlocksOf(l, style)
    PROVE  WellMade(x)
  <1>1. CASE x.type = "aws_security_group"
    <2>1. PICK g \in Groups : x = Group(l, g, style)
      BY <1>1, BlockKinds
    <2> QED BY <2>1, MadeGroup
  <1>2. CASE x.type # "aws_security_group" /\ x.type \in SupportedTypes
    <2>1. DOMAIN x.attrs \subseteq NamesOf(x.type)
      BY <1>2, BlockNames
    <2>2. "ingress" \notin NamesOf(x.type)
      BY <1>2 DEF NamesOf
    <2>3. Shaped(x)
      <3>1. x.type \in {"aws_instance", "aws_iam_instance_profile",
              "aws_iam_role", "aws_s3_bucket", "aws_iam_role_policy_attachment",
              "aws_iam_policy", "aws_iam_role_policy", "aws_s3_bucket_acl",
              "aws_s3_bucket_policy", "aws_s3_bucket_public_access_block"}
        BY <1>2 DEF SupportedTypes, SecurityAttributes
      <3> QED BY <3>1, BlockKinds, ShapedBlocks
    <2>4. x = R(x.type, x.address, x.attrs)
      BY <2>3 DEF Shaped
    <2> QED BY <2>1, <2>2, <2>4, MadePlain
  <1>3. CASE x.type \notin SupportedTypes
    <2>1. x \in Others(style)
      <3>1. x.type \in SupportedTypes \/ x \in Others(style)
        <4>1. \/ x \in {Group(l, "g1", style), Group(l, "g2", style),
                         Instance(l, style), Profile, Role(style),
                         Bucket(l, "b1", style), Bucket(l, "b2", style)}
              \/ x \in Grants(l, style) \/ x \in Publics(l, style)
              \/ x \in Others(style)
          BY DEF BlocksOf
        <4>2. /\ \A g : Group(l, g, style).type \in SupportedTypes
              /\ Instance(l, style).type \in SupportedTypes
              /\ Profile.type \in SupportedTypes
              /\ Role(style).type \in SupportedTypes
              /\ \A b : Bucket(l, b, style).type \in SupportedTypes
          BY BlockTypes, Supports
        <4>3. x \in Grants(l, style) => x.type \in SupportedTypes
          <5>1. /\ \A m : Attachment(m).type \in SupportedTypes
                /\ Managed(l, style).type \in SupportedTypes
                /\ Inline(l, style).type \in SupportedTypes
            BY BlockTypes, Supports
          <5>2. x \in Grants(l, style) =>
                   \/ x = Managed(l, style) \/ x = Inline(l, style)
                   \/ \E m : x = Attachment(m)
            BY GrantsAre
          <5> QED BY <5>1, <5>2
        <4>4. x \in Publics(l, style) => x.type \in SupportedTypes
          <5>1. /\ AclBlock(style).type \in SupportedTypes
                /\ PolicyBlock(style).type \in SupportedTypes
                /\ \A a : ControlBlock(a, style).type \in SupportedTypes
            BY BlockTypes, Supports
          <5>2. x \in Publics(l, style) =>
                   \/ x = AclBlock(style) \/ x = PolicyBlock(style)
                   \/ \E a : x = ControlBlock(a, style)
            BY DEF Publics
          <5> QED BY <5>1, <5>2
        <4> QED BY <4>1, <4>2, <4>3, <4>4
      <3> QED BY <1>3, <3>1
    <2>2. \E type, address : x = R(type, address, <<>>)
      BY <2>1 DEF Others
    <2>3. "ingress" \notin DOMAIN <<>>
      OBVIOUS
    <2> QED BY <2>2, <2>3, MadePlain
  <1> QED BY <1>1, <1>2, <1>3

IsSource(dir) ==
    /\ DOMAIN dir = {"blocks", "modules", "json", "text"}
    /\ IsFiniteSet(DOMAIN dir.blocks)
    /\ \A i \in DOMAIN dir.blocks : WellMade(dir.blocks[i])
    /\ dir = [blocks |-> dir.blocks, modules |-> dir.modules,
              json |-> dir.json, text |-> dir.text]

LEMMA DirectorySource ==
    ASSUME NEW l, NEW style
    PROVE  IsSource(Directory(l, style))
  <1> DEFINE dir == Directory(l, style)
             closed == Group([l EXCEPT !.open["g1"] = {}], "g1", style)
  <1>1. /\ DOMAIN dir = {"blocks", "modules", "json", "text"}
        /\ dir = [blocks |-> dir.blocks, modules |-> dir.modules,
                  json |-> dir.json, text |-> dir.text]
    BY DEF Directory
  <1>2. IsFiniteSet(DOMAIN dir.blocks)
    BY DirectoryFinite
  <1>3. Range(dir.blocks) \subseteq BlocksOf(l, style) \cup {closed}
    BY DirectoryBlocks
  <1>4. WellMade(closed)
    BY MadeGroup
  <1> HIDE DEF dir, closed
  <1>5. \A i \in DOMAIN dir.blocks : dir.blocks[i] \in Range(dir.blocks)
    BY DEF Range
  <1> QED BY <1>1, <1>2, <1>3, <1>4, <1>5, MadeBlocks DEF IsSource, dir

LEMMA DirectoryEdited ==
    ASSUME NEW dir, IsSource(dir), NEW edit \in Edits
    PROVE  LET d == EditDirectory(dir, edit) IN
           /\ IsSource(d)
           /\ EditedFrom(ParseDirectory(dir), ParseDirectory(d), edit)
  <1> DEFINE d == EditDirectory(dir, edit)
             old == dir.blocks
             new == [i \in DOMAIN old |-> EditBlock(old[i], edit)]
  <1>1. d = [dir EXCEPT !.blocks = new, !.json = FALSE]
    BY DEF EditDirectory
  <1> HIDE DEF d
  <1>2. /\ d = [blocks |-> new, modules |-> dir.modules, json |-> FALSE,
                text |-> dir.text]
    BY <1>1 DEF IsSource
  <1> HIDE DEF new
  <1>3. /\ DOMAIN d = {"blocks", "modules", "json", "text"}
        /\ d.blocks = new /\ d.modules = dir.modules /\ d.json = FALSE
        /\ d = [blocks |-> d.blocks, modules |-> d.modules,
                json |-> d.json, text |-> d.text]
    BY <1>2
  <1>4. DOMAIN new = DOMAIN old /\ \A i \in DOMAIN old :
           new[i] = EditBlock(old[i], edit)
    BY DEF new
  <1>5. \A i \in DOMAIN old : WellMade(old[i]) /\ IsFiniteSet(DOMAIN old)
    BY DEF IsSource
  <1>6. \A i \in DOMAIN old : /\ WellMade(new[i])
                              /\ new[i].type = old[i].type
    BY <1>4, <1>5, BlockEdited DEF Kept
  <1>7. IsSource(d)
    BY <1>3, <1>4, <1>6 DEF IsSource
  <1> DEFINE c0 == ParseDirectory(dir)
             c1 == ParseDirectory(d)
             S == {i \in DOMAIN old : old[i].type \in SupportedTypes}
  <1>8. /\ c0.resources = Supported(old) /\ c1.resources = Supported(new)
        /\ c0.unsupported = Unsupported(old)
        /\ c1.unsupported = Unsupported(new)
        /\ c1.diagnostics \subseteq c0.diagnostics
    BY <1>3 DEF ParseDirectory
  <1>9. /\ DOMAIN Supported(old) = S /\ DOMAIN Supported(new) = S
        /\ \A i \in S : /\ Supported(old)[i] = old[i]
                        /\ Supported(new)[i] = new[i]
    BY <1>4, <1>6 DEF Supported, Restrict
  <1>10. Unsupported(new) = Unsupported(old)
    BY <1>4, <1>6 DEF Unsupported, Range
  <1>11. IsFiniteSet(S)
    <2>1. S \subseteq DOMAIN old /\ IsFiniteSet(DOMAIN old)
      BY DEF IsSource
    <2> HIDE DEF S
    <2> QED BY <2>1, FS_Subset
  <1>12. S \subseteq DOMAIN old
    OBVIOUS
  <1> HIDE DEF c0, c1, S
  <1>13. EditedFrom(c0, c1, edit)
    BY <1>4, <1>5, <1>8, <1>9, <1>10, <1>11, <1>12 DEF EditedFrom
  <1> QED BY <1>7, <1>13 DEF d, c0, c1

-----------------------------------------------------------------------------
(* What an edited configuration leads to.  A configuration to be repaired, *)
(* as it was read or after a widening: its rules for plain ports, public   *)
(* policies and all other edges are those of the landscape.                *)
Exposing == {"admin", "all"}

PlainOpen(rs) ==
    {sg.address : sg \in {s \in OfType(rs, "aws_security_group") :
                             PlainPublic(s) # {}}}
OpenByPolicy(rs, b) ==
    \E t \in PublicStatements(rs, b) :
       ~Controlled(rs, b, "restrict_public_buckets") \/ t.condition
OpenByAcl(rs, b) ==
    PublicAcls(rs, b) # {} /\ ~Controlled(rs, b, "ignore_public_acls")
PolicyOpen(rs) ==
    {b.address : b \in {c \in OfType(rs, "aws_s3_bucket") :
                           OpenByPolicy(rs, c)}}
InnerFindings(rs) ==
    InstanceFindings(rs) \cup AccessFindings(rs) \cup ContainsFindings(rs)
InnerEdges(l) ==
    {<<g, "e1">> : g \in l.attached} \cup {<<"e1", "r1">>}
    \cup {<<"r1", b>> : b \in l.access}
    \cup {<<b, MarkerOf[b]>> : b \in l.sensitive}

Repairable(c, l) ==
    LET rs == Unambiguous(c) IN
    /\ PlainOpen(rs) = {g \in Groups : l.open[g] \ Exposing # {}}
    /\ \A b \in OfType(rs, "aws_s3_bucket") :
          \A m \in PublicAcls(rs, b) : PrivateAcl(m) # m
    /\ PolicyOpen(rs) =
          IF ~l.blocked /\ "policy" \in l.public THEN {"b1"} ELSE {}
    /\ {EdgeOf(f) : f \in InnerFindings(rs)} = InnerEdges(l)

LEMMA AdminReach ==
    ASSUME NEW p \in PortKinds, NEW style, ~IngressGap(Rule(p, style))
    PROVE  ReachesAdminPort(Rule(p, style)) <=> p \in Exposing
  <1> DEFINE rule == Rule(p, style)
  <1>1. /\ rule.protocol = "all" <=> p = "all"
        /\ rule.ports # <<"expr">> /\ rule.ports = Ports(p)
    BY RuleIs DEF IngressGap
  <1> HIDE DEF rule
  <1>2. CASE p = "all"
    BY <1>1, <1>2 DEF ReachesAdminPort, Exposing, rule
  <1>3. CASE p = "admin"
    <2>1. rule.ports = <<20, 30>> /\ rule.ports # <<>>
      BY <1>1, <1>3 DEF Ports
    <2>2. rule.ports[1] <= 22 /\ 22 <= rule.ports[2]
      BY <2>1
    <2> QED BY <1>1, <1>3, <2>1, <2>2
      DEF ReachesAdminPort, Exposing, AdminPorts, rule
  <1>4. CASE p = "https"
    <2>1. rule.ports = <<443, 443>>
      BY <1>1, <1>4 DEF Ports
    <2>2. \A port \in AdminPorts :
             ~(rule.ports[1] <= port /\ port <= rule.ports[2])
      BY <2>1 DEF AdminPorts
    <2> QED BY <1>1, <1>4, <2>2 DEF ReachesAdminPort, Exposing, rule
  <1>5. CASE p = "range"
    <2>1. rule.ports = <<8000, 8200>>
      BY <1>1, <1>5 DEF Ports
    <2>2. \A port \in AdminPorts :
             ~(rule.ports[1] <= port /\ port <= rule.ports[2])
      BY <2>1 DEF AdminPorts
    <2> QED BY <1>1, <1>5, <2>2 DEF ReachesAdminPort, Exposing, rule
  <1> QED BY <1>2, <1>3, <1>4, <1>5 DEF PortKinds

(* The group of a complete configuration that a group of the landscape is. *)
LEMMA GroupIs ==
    ASSUME NEW config, NEW l, NEW style,
           Clear(config, l, style, {}), Absent(l, {}),
           NEW sg \in OfType(Range(config.resources), "aws_security_group")
    PROVE  /\ sg.address \in Groups
           /\ Rules(sg) = {Rule(p, style) : p \in l.open[sg.address]}
                          \cup {PrivateRule(style)}
           /\ l.open[sg.address] \subseteq PortKinds
           /\ \A rule \in Rules(sg) : ~IngressGap(rule)
  <1> DEFINE rs == Range(config.resources)
  <1>1. sg \in rs /\ sg.type = "aws_security_group"
    BY DEF OfType
  <1>2. PICK x \in BlocksOf(l, style) :
          /\ Reads(sg, x) /\ ~Gap(config, sg)
          /\ x.type \in SupportedTypes /\ x.address \notin {} =>
                Rules(sg) = Rules(x)
    BY <1>1, ResourceOf
  <1>3. x.type = "aws_security_group" /\ x.address = sg.address
    BY <1>1, <1>2 DEF Reads
  <1>4. PICK g \in Groups : x = Group(l, g, style)
    BY <1>3, BlockKinds
  <1>5. g = sg.address
    BY <1>3, <1>4, GroupType
  <1>6. Rules(sg) = Rules(x)
    BY <1>2, <1>3, Supports
  <1>7. Rules(x) = {Rule(p, style) : p \in l.open[g]} \cup {PrivateRule(style)}
    BY <1>4, GroupRules DEF Clear, Inside
  <1>8. l.open[g] \subseteq PortKinds
    BY <1>4 DEF Absent, Landscapes, PortKinds
  <1>9. \A rule \in Rules(sg) : ~IngressGap(rule)
    BY <1>2 DEF Gap
  <1> QED BY <1>4, <1>5, <1>6, <1>7, <1>8, <1>9

LEMMA GroupThere ==
    ASSUME NEW config, NEW l, NEW style,
           Clear(config, l, style, {}), NEW g \in Groups
    PROVE  \E sg \in OfType(Range(config.resources), "aws_security_group") :
              sg.address = g
  <1> DEFINE x == Group(l, g, style)
  <1>1. x \in BlocksOf(l, style)
    BY DEF BlocksOf, Groups
  <1>2. x.type = "aws_security_group" /\ x.address = g
    BY GroupType
  <1> HIDE DEF x
  <1>3. \E r \in OfType(Range(config.resources), x.type) :
           r.address = x.address
    BY <1>1, <1>2, BlockRead, Supports
  <1> QED BY <1>2, <1>3

LEMMA GroupPlain ==
    ASSUME NEW config, NEW l, NEW style,
           Clear(config, l, style, {}), Absent(l, {}),
           NEW sg \in OfType(Range(config.resources), "aws_security_group")
    PROVE  PlainPublic(sg) # {} <=> l.open[sg.address] \ Exposing # {}
  <1> DEFINE open == l.open[sg.address]
  <1>1. /\ Rules(sg) = {Rule(p, style) : p \in open} \cup {PrivateRule(style)}
        /\ open \subseteq PortKinds
        /\ \A rule \in Rules(sg) : ~IngressGap(rule)
    BY GroupIs
  <1>2. \A rule : rule \in PlainPublic(sg) <=>
           /\ rule \in Rules(sg) /\ rule.cidr = "public"
           /\ rule.ports # <<"expr">> /\ ~ReachesAdminPort(rule)
    BY DEF PlainPublic, PublicIngress
  <1> HIDE DEF open
  <1>3. PrivateRule(style).cidr = "private"
    BY DEF PrivateRule
  <1>4. ASSUME NEW p \in open
        PROVE  Rule(p, style) \in PlainPublic(sg) <=> p \notin Exposing
    <2>1. Rule(p, style) \in Rules(sg) /\ ~IngressGap(Rule(p, style))
      BY <1>1
    <2>2. Rule(p, style).cidr \in {"public", "expr"} /\ p \in PortKinds
      BY <1>1, RuleIs
    <2>3. /\ Rule(p, style).cidr = "public"
          /\ Rule(p, style).ports # <<"expr">>
      BY <2>1, <2>2 DEF IngressGap
    <2>4. ReachesAdminPort(Rule(p, style)) <=> p \in Exposing
      BY <2>1, <2>2, AdminReach
    <2> QED BY <1>2, <2>1, <2>3, <2>4
  <1>5. ASSUME NEW rule \in PlainPublic(sg)
        PROVE  \E p \in open : rule = Rule(p, style)
    BY <1>1, <1>2, <1>3
  <1>6. (\E rule : rule \in PlainPublic(sg)) <=>
           \E p \in open : p \notin Exposing
    BY <1>4, <1>5
  <1> QED BY <1>6 DEF open

LEMMA PlainOpenIs ==
    ASSUME NEW config, NEW l, NEW style,
           Clear(config, l, style, {}), Absent(l, {})
    PROVE  PlainOpen(Range(config.resources)) =
              {g \in Groups : l.open[g] \ Exposing # {}}
  <1> DEFINE rs == Range(config.resources)
  <1>1. ASSUME NEW g \in Groups
        PROVE  g \in PlainOpen(rs) <=> l.open[g] \ Exposing # {}
    <2>1. PICK sg \in OfType(rs, "aws_security_group") : sg.address = g
      BY GroupThere
    <2>2. g \in PlainOpen(rs) <=>
             \E s \in OfType(rs, "aws_security_group") :
                PlainPublic(s) # {} /\ s.address = g
      BY DEF PlainOpen
    <2>3. \A s \in OfType(rs, "aws_security_group") : s.address = g =>
             (PlainPublic(s) # {} <=> l.open[g] \ Exposing # {})
      BY GroupPlain
    <2> HIDE DEF rs
    <2> QED BY <2>1, <2>2, <2>3
  <1>2. PlainOpen(rs) \subseteq Groups
    BY GroupIs DEF PlainOpen
  <1> QED BY <1>1, <1>2

-----------------------------------------------------------------------------
(* What is read of a landscape, without a gap, is to be repaired.          *)
LEMMA OnlyCanned ==
    ASSUME NEW config, NEW l, NEW style,
           Clear(config, l, style, {}), Absent(l, {}),
           NEW b \in OfType(Range(config.resources), "aws_s3_bucket"),
           NEW m \in PublicAcls(Range(config.resources), b)
    PROVE  PrivateAcl(m) # m
  <1> DEFINE rs == Range(config.resources)
  <1>1. m[2] \in PublicNames
        /\ \/ m \in Members(b, "acl")
           \/ \E r \in Linked(rs, "aws_s3_bucket_acl", "bucket", b.address) :
                 m \in Members(r, "acl")
    BY PublicAclIs
  <1>2. /\ Literal("private")[2] \notin PublicNames
        /\ Expr[2] \notin PublicNames
    BY AclKinds DEF PublicNames
  <1>3. m = Literal("public-read")
    <2>1. CASE m \in Members(b, "acl")
      <3>1. m \in AclMembers(l, b.address, style)
        BY <2>1, AclOfBucket
      <3>2. m \in {Literal("public-read"), Literal("private")}
        BY <3>1 DEF AclMembers
      <3> QED BY <1>1, <1>2, <3>2
    <2>2. ASSUME NEW r \in Linked(rs, "aws_s3_bucket_acl", "bucket",
                                  b.address),
                 m \in Members(r, "acl")
          PROVE  m = Literal("public-read")
      <3>1. r \in rs /\ r.type = "aws_s3_bucket_acl"
        BY DEF Linked, OfType
      <3>2. PICK x \in BlocksOf(l, style) : Reads(r, x)
        BY <3>1 DEF Clear, ReadFrom
      <3>3. x = AclBlock(style)
        BY <3>1, <3>2, BlockKinds DEF Reads
      <3>4. Members(r, "acl") = Members(x, "acl")
        BY <3>2 DEF Reads, PlainNames
      <3>5. m \in {Expr, Literal("public-read")}
        BY <2>2, <3>3, <3>4, AclAttrs
      <3> QED BY <1>1, <1>2, <3>5
    <2> QED BY <1>1, <2>1, <2>2
  <1>4. PrivateAcl(m) = Literal("private")
    BY <1>3, AclEdited
  <1> QED BY <1>1, <1>2, <1>4

LEMMA PolicyOpenIs ==
    ASSUME NEW config, NEW l, NEW style,
           Clear(config, l, style, {}), Absent(l, {})
    PROVE  PolicyOpen(Range(config.resources)) =
              IF ~l.blocked /\ "policy" \in l.public THEN {"b1"} ELSE {}
  <1> DEFINE rs == Range(config.resources)
             flag == "restrict_public_buckets"
  <1>0. ReadFrom(rs, l, style) /\ flag \in Flags
    BY DEF Clear, Flags
  <1>1. ASSUME NEW b \in OfType(rs, "aws_s3_bucket"), OpenByPolicy(rs, b)
        PROVE  b.address = "b1" /\ ~l.blocked /\ "policy" \in l.public
    <2>1. PICK t \in PublicStatements(rs, b) :
             ~Controlled(rs, b, flag) \/ t.condition
      BY <1>1 DEF OpenByPolicy
    <2>2. b.address = "b1"
      BY <1>0, <2>1, PublicBucket
    <2>3. "policy" \in l.public /\ ~t.condition
      BY <2>1, <2>2, PolicyExact
    <2>4. Controlled(rs, b, flag) <=> l.blocked
      BY <1>0, <2>2, ControlExact
    <2> QED BY <2>1, <2>2, <2>3, <2>4
  <1>2. ASSUME ~l.blocked, "policy" \in l.public
        PROVE  \E b \in OfType(rs, "aws_s3_bucket") :
                  b.address = "b1" /\ OpenByPolicy(rs, b)
    <2> DEFINE x == Bucket(l, "b1", style)
    <2>1. x \in BlocksOf(l, style)
      BY DEF BlocksOf
    <2>2. x.type = "aws_s3_bucket" /\ x.address = "b1"
      BY BucketType
    <2> HIDE DEF x
    <2>3. PICK b \in OfType(rs, "aws_s3_bucket") : b.address = "b1"
      BY <2>1, <2>2, BlockRead, Supports
    <2>4. ~Controlled(rs, b, flag)
      BY <1>0, <1>2, <2>3, ControlExact
    <2>5. PublicStatements(rs, b) # {}
      BY <1>2, <2>3, PolicyExact
    <2> QED BY <2>3, <2>4, <2>5 DEF OpenByPolicy
  <1>3. \A a : a \in PolicyOpen(rs) <=>
           \E b \in OfType(rs, "aws_s3_bucket") :
              OpenByPolicy(rs, b) /\ a = b.address
    BY DEF PolicyOpen
  <1> HIDE DEF rs
  <1>4. CASE ~l.blocked /\ "policy" \in l.public
    BY <1>1, <1>2, <1>3, <1>4 DEF rs
  <1>5. CASE ~(~l.blocked /\ "policy" \in l.public)
    BY <1>1, <1>3, <1>5 DEF rs
  <1> QED BY <1>4, <1>5 DEF rs

LEMMA InnerIs ==
    ASSUME NEW config, NEW l, NEW style,
           Clear(config, l, style, {}), Absent(l, {})
    PROVE  {EdgeOf(f) : f \in InnerFindings(Range(config.resources))}
              = InnerEdges(l)
  <1> DEFINE rs == Range(config.resources)
  <1>1. ASSUME NEW e
        PROVE  (\E f \in InnerFindings(rs) : e = EdgeOf(f))
               <=> e \in InnerEdges(l)
    <2>1. (\E f \in InnerFindings(rs) : e = EdgeOf(f)) <=>
             \/ \E f \in InstanceFindings(rs) : EdgeOf(f) = e
             \/ \E f \in AccessFindings(rs) : EdgeOf(f) = e
             \/ \E f \in ContainsFindings(rs) : EdgeOf(f) = e
      BY DEF InnerFindings
    <2>2. e \in InnerEdges(l) <=>
             \/ e = <<"e1", "r1">> \/ \E g \in l.attached : e = <<g, "e1">>
             \/ \E b \in l.access : e = <<"r1", b>>
             \/ \E b \in l.sensitive : e = <<b, MarkerOf[b]>>
      BY DEF InnerEdges
    <2>3. (\E f \in InstanceFindings(rs) : EdgeOf(f) = e) <=>
             e = <<"e1", "r1">> \/ \E g \in l.attached : e = <<g, "e1">>
      BY InstanceExact
    <2>4. (\E f \in AccessFindings(rs) : EdgeOf(f) = e) <=>
             \E b \in l.access : e = <<"r1", b>>
      BY AccessExact
    <2>5. (\E f \in ContainsFindings(rs) : EdgeOf(f) = e) <=>
             \E b \in l.sensitive : e = <<b, MarkerOf[b]>>
      BY ContainsExact
    <2> QED BY <2>1, <2>2, <2>3, <2>4, <2>5
  <1> QED BY <1>1

LEMMA RepairableIs ==
    ASSUME NEW config, NEW l, NEW style,
           Clear(config, l, style, {}), Absent(l, {}),
           Unambiguous(config) = Range(config.resources)
    PROVE  Repairable(config, l)
  BY OnlyCanned, PolicyOpenIs, InnerIs, PlainOpenIs DEF Repairable

-----------------------------------------------------------------------------
(* Edited resources, one by one.                                           *)
LEMMA EditedType ==
    ASSUME NEW c, NEW d, NEW edit \in Edits, EditedFrom(c, d, edit), NEW type
    PROVE  /\ \A r \in OfType(Unambiguous(c), type) :
                 /\ WellMade(r) /\ EditBlock(r, edit).address = r.address
                 /\ EditBlock(r, edit) \in OfType(Unambiguous(d), type)
           /\ \A s \in OfType(Unambiguous(d), type) :
                 \E r \in OfType(Unambiguous(c), type) :
                    s = EditBlock(r, edit)
  <1>1. /\ \A r \in Unambiguous(c) :
              WellMade(r) /\ EditBlock(r, edit) \in Unambiguous(d)
        /\ \A s \in Unambiguous(d) :
              \E r \in Unambiguous(c) : s = EditBlock(r, edit)
    BY EditedUnique
  <1>2. \A r \in Unambiguous(c) :
           /\ EditBlock(r, edit).address = r.address
           /\ EditBlock(r, edit).type = r.type
    BY <1>1, BlockEdited DEF Kept
  <1> QED BY <1>1, <1>2 DEF OfType

LEMMA InnerSame ==
    ASSUME NEW c, NEW d, NEW edit \in Edits, EditedFrom(c, d, edit)
    PROVE  InnerFindings(Unambiguous(d)) = InnerFindings(Unambiguous(c))
  <1>1. Alike(Unambiguous(c), Unambiguous(d))
    BY EditedUnique
  <1> QED BY <1>1, InnerKept DEF InnerFindings

LEMMA PolicySame ==
    ASSUME NEW c, NEW d, NEW edit \in Edits, EditedFrom(c, d, edit)
    PROVE  /\ \A b \in OfType(Unambiguous(c), "aws_s3_bucket") :
                 OpenByPolicy(Unambiguous(d), EditBlock(b, edit)) <=>
                    OpenByPolicy(Unambiguous(c), b)
           /\ PolicyOpen(Unambiguous(d)) = PolicyOpen(Unambiguous(c))
  <1> DEFINE rs == Unambiguous(c)  ss == Unambiguous(d)
             B == OfType(rs, "aws_s3_bucket")
             D == OfType(ss, "aws_s3_bucket")
  <1>1. ASSUME NEW b \in B
        PROVE  OpenByPolicy(ss, EditBlock(b, edit)) <=> OpenByPolicy(rs, b)
    <2>1. /\ \A flag \in Flags : Controlled(ss, EditBlock(b, edit), flag)
                                    <=> Controlled(rs, b, flag)
          /\ PublicStatements(ss, EditBlock(b, edit)) = PublicStatements(rs, b)
      BY BucketEdited
    <2>2. "restrict_public_buckets" \in Flags
      BY DEF Flags
    <2> QED BY <2>1, <2>2 DEF OpenByPolicy
  <1>2. /\ \A b \in B : EditBlock(b, edit) \in D
                        /\ EditBlock(b, edit).address = b.address
        /\ \A s \in D : \E b \in B : s = EditBlock(b, edit)
    BY EditedType
  <1> HIDE DEF B, D
  <1>3. PolicyOpen(ss) = PolicyOpen(rs)
    <2>1. /\ PolicyOpen(ss) =
                {s.address : s \in {t \in D : OpenByPolicy(ss, t)}}
          /\ PolicyOpen(rs) =
                {b.address : b \in {t \in B : OpenByPolicy(rs, t)}}
      BY DEF PolicyOpen, B, D
    <2> HIDE DEF rs, ss
    <2>2. \A a : a \in PolicyOpen(ss) <=> a \in PolicyOpen(rs)
      BY <1>1, <1>2, <2>1
    <2> QED BY <2>2
  <1> QED BY <1>1, <1>3 DEF B

(* SSH is opened, and what is to be repaired stays as it was.              *)
LEMMA RepairableWidened ==
    ASSUME NEW c, NEW d, EditedFrom(c, d, "widen"), NEW l, Repairable(c, l)
    PROVE  Repairable(d, l)
  <1> DEFINE rs == Unambiguous(c)  ss == Unambiguous(d)
             S == OfType(rs, "aws_security_group")
             T == OfType(ss, "aws_security_group")
  <1>0. "widen" \in Edits
    BY DEF Edits
  <1>1. PlainOpen(ss) = PlainOpen(rs)
    <2>1. /\ \A r \in S : /\ EditBlock(r, "widen") \in T
                          /\ EditBlock(r, "widen").address = r.address
                          /\ WellMade(r)
          /\ \A s \in T : \E r \in S : s = EditBlock(r, "widen")
      BY <1>0, EditedType
    <2>2. \A r \in S : PlainPublic(EditBlock(r, "widen")) = PlainPublic(r)
      BY <2>1, WidenPlain
    <2>3. /\ PlainOpen(ss) = {s.address : s \in {t \in T : PlainPublic(t) # {}}}
          /\ PlainOpen(rs) = {s.address : s \in {t \in S : PlainPublic(t) # {}}}
      BY DEF PlainOpen
    <2> HIDE DEF S, T, rs, ss
    <2>4. \A a : a \in PlainOpen(ss) <=> a \in PlainOpen(rs)
      BY <2>1, <2>2, <2>3
    <2> QED BY <2>4
  <1>2. ASSUME NEW s \in OfType(ss, "aws_s3_bucket"), NEW m \in PublicAcls(ss, s)
        PROVE  PrivateAcl(m) # m
    <2>1. PICK b \in OfType(rs, "aws_s3_bucket") : s = EditBlock(b, "widen")
      BY <1>0, EditedType
    <2>2. m \in PublicAcls(rs, b)
      BY <2>1, WidenAcls
    <2> QED BY <2>2 DEF Repairable
  <1>3. PolicyOpen(ss) = PolicyOpen(rs)
    BY <1>0, PolicySame
  <1>4. InnerFindings(ss) = InnerFindings(rs)
    BY <1>0, InnerSame
  <1> QED BY <1>1, <1>2, <1>3, <1>4 DEF Repairable
=============================================================================
