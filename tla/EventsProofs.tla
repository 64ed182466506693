---------------------------- MODULE EventsProofs ----------------------------
(***************************************************************************)
(* Proofs about Events, for any number of threads, analyses and            *)
(* organizations and any EVENT_LIMIT: the counter beside the product       *)
(* events is exact and within the limit, an end is recorded once, and      *)
(* transactions that wait for each other in a circle wait for the          *)
(* commercial row or run into a recovery.                                  *)
(*                                                                         *)
(* A step of a program is right only because of what earlier steps of it   *)
(* did, so the invariant is about the whole list that is left to do.       *)
(* LocalInv says of each transaction alone that every step has the row it  *)
(* relies on, or will have got it from a step before (Secure), and that    *)
(* what it wrote it has the locks for (Effects).  LockInv says that locks  *)
(* which conflict are not held together.  From these two: who writes       *)
(* events has the commercial row alone, so the counter follows the events  *)
(* (NumberInv, DroppedInv, CountInv), what a transaction saw stays so      *)
(* until it inserts (RoomInv), and what finish() or recover() found        *)
(* unfinished is so until it is ended (OpenInv, EndedInv).                 *)
(*                                                                         *)
(* The circles come last.  Of the transactions without the commercial row, *)
(* those about one analysis have no row when they wait for another (Calm); *)
(* those that delete take organizations in their order and an analysis     *)
(* only of an organization they have (Rising), and never touch an event    *)
(* that another of them touches (FarInv).  Among finitely many, one waits  *)
(* for the last of the organizations, which nobody in the circle has.      *)
(***************************************************************************)
EXTENDS Events, FiniteSetTheorems, WellFoundedInduction, TLAPS

(* The kinds that end analyses.                                            *)
Closers == {"finish", "failed", "recover"}

(* Transaction x has the row for an update.                                *)
Has(x, row) == <<row, "update">> \in x.held

(* What makes up for the row of an analysis that this transaction closed.  *)
Mark(j) == <<"closed", j>>

(* Step s relies, for analysis j, on a row that is locked, or on its mark. *)
Wants(s, j, row) ==
    \/ s.do \in {"record", "insert"} /\ j = s.job /\ row = LedgerRow
    \/ s.ended /\ j = s.job /\ row = Mark(j)
    \/ s.do = "close" /\ j = s.job /\ row = JobRow(j)
    \/ s.do \in {"drop", "cascade"} /\ j = s.job /\ row \in s.rows
    \/ s.do = "endEach" /\ row \in s.rows /\ row = JobRow(j)

(* Step s gets the row for analysis j, or leaves its mark.                 *)
Gives(s, j, row) ==
    \/ s.do = "lock" /\ s.mode = "update" /\ j = s.job /\ row \in s.rows
    \/ s.do = "lockEach" /\ row \in s.rows /\ row = JobRow(j)
    \/ s.do = "close" /\ j = s.job /\ row = Mark(j)

(* Nothing is missing: the row is had, or the analysis is passed over.     *)
Granted(x, j, row) ==
    \/ j \in x.skipped
    \/ Has(x, row)
    \/ j \in x.closed /\ row = Mark(j)

(* The rows and marks a step may rely on.                                  *)
RowsOf(s) == s.rows \cup {LedgerRow, JobRow(s.job), Mark(s.job)}

(* What a step relies on is there, or an earlier step sees to it.          *)
Secure(x) ==
    \A i \in 1..Len(x.todo), j \in Job \cup {0} : \A row \in RowsOf(x.todo[i]) :
        Wants(x.todo[i], j, row) =>
            \/ Granted(x, j, row)
            \/ \E k \in 1..i-1 : Gives(x.todo[k], j, row)

(* Only the deletion of other events goes before an insertion.             *)
InsertsNear(x) ==
    \A i \in 1..Len(x.todo) : x.todo[i].do = "insert" =>
        \A k \in 1..i-1 :
            /\ x.todo[k].do \in {"lock", "drop"}
            /\ x.todo[k].do = "drop" => x.todo[k].job = x.todo[i].job

(* Who closes analyses locks each in its own name.                         *)
OwnLock(s) ==
    /\ s.do # "expireEach"
    /\ s.do = "lock" => \A row \in s.rows : row[1] = "job" => row = JobRow(s.job)

JobsLocked(x) ==
    x.kind \in Closers => \A i \in 1..Len(x.todo) : OwnLock(x.todo[i])

(* Step s is to record the end of analysis j.                              *)
Ends(s, j) ==
    \/ s.ended /\ s.job = j
    \/ s.do = "endEach" /\ JobRow(j) \in s.rows

(* An end is still to be recorded only once, and only if it is not yet.    *)
EndsOnce(x) ==
    \A i \in 1..Len(x.todo) : \A j \in Job :
        Ends(x.todo[i], j) =>
            /\ x.kind \in Closers
            /\ \A e \in x.added : ~(e.ended /\ e.of = j)
            /\ \A k \in 1..Len(x.todo) : k # i => ~Ends(x.todo[k], j)

(* The lock that the trigger of a deletion takes.                          *)
Trigger(s) == s.do = "lock" /\ s.rows = {LedgerRow} /\ s.job = 0

(* What a transaction has done so far, it has the locks for.               *)
Effects(x) ==
    /\ x.dropped # {} => \/ \E m \in Mode : <<LedgerRow, m>> \in x.held
                         \/ x.todo # <<>> /\ Trigger(Head(x.todo))
    /\ x.added # {} => Has(x, LedgerRow)
    /\ \A e \in x.dropped : Has(x, EventRow(e))
    /\ \A j \in x.closed \cup x.deleted : Has(x, JobRow(j))
    /\ \A e \in x.added : e.ended => e.of \in x.closed /\ x.kind \in Closers
    /\ \A d, e \in x.added : d.of = e.of /\ d.ended /\ e.ended => d = e

(* Which rows and which analysis a step of a kind can have.                *)
Shape(s) ==
    /\ s.do \in {"cascade", "lockEach", "endEach"} => s.rows \subseteq JobRows
    /\ s.do = "expireEach" => s.rows \subseteq OrgRows
    /\ s.do \in {"record", "insert", "close"} => s.job \in Job
    /\ s.ended => s.do \in {"record", "insert"}
    /\ s.do \in {"lockEach", "endEach", "expireEach"} => s.job = 0

(* All steps of a transaction have their shape.                            *)
Shaped(x) ==
    /\ x.kind \in Wide \/ x.job \in Job
    /\ \A i \in 1..Len(x.todo) : Shape(x.todo[i])

(* What holds of a transaction whatever the others do.                     *)
Local(x) ==
    /\ Secure(x) /\ InsertsNear(x) /\ JobsLocked(x) /\ EndsOnce(x)
    /\ Effects(x) /\ Shaped(x)

LocalInv == \A t \in DOMAIN tx : Local(tx[t])

(* Locks that conflict are not held together.                              *)
LockInv ==
    \A t, u \in DOMAIN tx : t # u =>
        \A a \in tx[t].held, b \in tx[u].held : a[1] = b[1] => ~Conflict(a[2], b[2])

(* Every event has a number of its own, below the next one.                *)
NumberInv ==
    /\ \A e \in ledger.events : e.n < ledger.next
    /\ \A d, e \in ledger.events : d.n = e.n => d = e
    /\ \A t \in DOMAIN tx : \A e \in tx[t].added :
          /\ e.n < ledger.next
          /\ \A d \in ledger.events : d.n # e.n
          /\ \A d \in tx[t].added : d.n = e.n => d = e
          /\ \A u \in DOMAIN tx : u # t => \A d \in tx[u].added : d.n # e.n

(* What a transaction has deleted is still there for the others.           *)
DroppedInv ==
    \A t \in DOMAIN tx : tx[t].dropped \subseteq ledger.events \cup tx[t].added

(* What a transaction that ends analyses has locked is unfinished.         *)
OpenInv ==
    \A t \in DOMAIN tx : tx[t].kind \in Closers =>
        \A j \in Job : Holds(t, JobRow(j)) => condition[j] = "open"

(* An end that is recorded is one of a finished analysis, and the only     *)
(* one.                                                                    *)
EndedInv ==
    /\ \A e \in ledger.events : e.ended => condition[e.of] # "open"
    /\ \A d, e \in ledger.events : d.of = e.of /\ d.ended /\ e.ended => d = e

(* The counter is exact, and nobody sees more events than there may be.    *)
CountInv ==
    /\ IsFiniteSet(ledger.events)
    /\ ledger.count = Cardinality(ledger.events)
    /\ \A t \in DOMAIN tx : IsFiniteSet(tx[t].added)
    /\ ledger.count <= EventLimit
    /\ \A t \in DOMAIN tx : Cardinality(Seen(t)) <= EventLimit

(* What a transaction sees of the events E, and what the deletions that go *)
(* before step i will leave of it.                                         *)
SeenBy(x, E) == (E \cup x.added) \ x.dropped

Spared(x, E, i) ==
    {e \in SeenBy(x, E) : \A k \in 1..i-1 :
                            x.todo[k].do = "drop" => EventRow(e) \notin x.todo[k].rows}

(* There is room for the event that a step will insert.                    *)
Room(x, E) ==
    \A i \in 1..Len(x.todo) :
        x.todo[i].do = "insert" /\ x.todo[i].job \notin x.skipped =>
            Has(x, LedgerRow) /\ Cardinality(Spared(x, E, i)) < EventLimit

(* There is room for every insertion that is planned.                      *)
RoomInv == \A t \in DOMAIN tx : Room(tx[t], ledger.events)

(* The inductive invariant.                                                *)
IInv ==
    /\ EventsTypeOK /\ LocalInv /\ LockInv /\ NumberInv /\ DroppedInv /\ OpenInv
    /\ EndedInv /\ CountInv /\ RoomInv

-----------------------------------------------------------------------------
(* What a list is whose head has become the steps `new'.                   *)
LEMMA Splice ==
    ASSUME NEW S, NEW q \in Seq(S), q # <<>>, NEW new \in Seq(S), NEW r,
           r = new \o Tail(q)
    PROVE  /\ r \in Seq(S)
           /\ Len(r) = Len(new) + Len(q) - 1
           /\ Len(new) \in Nat /\ Len(q) \in Nat /\ Len(q) > 0
           /\ \A i \in 1..Len(r) :
                 \/ i \in 1..Len(new) /\ r[i] = new[i]
                 \/ /\ i > Len(new) /\ i - Len(new) + 1 \in 2..Len(q)
                    /\ r[i] = q[i - Len(new) + 1]
           /\ \A i \in 2..Len(q) : /\ i - 1 + Len(new) \in 1..Len(r)
                                   /\ r[i - 1 + Len(new)] = q[i]
           /\ \A i \in 1..Len(new) : i \in 1..Len(r) /\ r[i] = new[i]
           /\ q[1] = Head(q)
  <1>1. /\ r \in Seq(S) /\ Tail(q) \in Seq(S) /\ Len(Tail(q)) = Len(q) - 1
        /\ Len(r) = Len(new) + Len(q) - 1
        /\ Len(new) \in Nat /\ Len(q) \in Nat /\ Len(q) > 0
    OBVIOUS
  <1>2. \A i \in 1..Len(new) : r[i] = new[i]
    OBVIOUS
  <1>3. \A i \in 1..Len(Tail(q)) : Tail(q)[i] = q[i + 1]
    OBVIOUS
  <1>4. \A i \in Len(new) + 1 .. Len(r) : r[i] = Tail(q)[i - Len(new)]
    OBVIOUS
  <1>5. ASSUME NEW i \in 1..Len(r), ~(i \in 1..Len(new))
        PROVE  /\ i > Len(new) /\ i - Len(new) + 1 \in 2..Len(q)
               /\ r[i] = q[i - Len(new) + 1]
    <2>1. i \in Len(new) + 1 .. Len(r) /\ i - Len(new) \in 1..Len(Tail(q))
      BY <1>1, <1>5
    <2>2. r[i] = Tail(q)[i - Len(new)] /\ Tail(q)[i - Len(new)] = q[i - Len(new) + 1]
      BY <1>3, <1>4, <2>1
    <2> QED BY <1>1, <1>5, <2>1, <2>2
  <1>6. ASSUME NEW i \in 2..Len(q)
        PROVE  /\ i - 1 + Len(new) \in 1..Len(r)
               /\ r[i - 1 + Len(new)] = q[i]
    <2> DEFINE k == i - 1 + Len(new)
    <2>1. k \in 1..Len(r) /\ ~(k \in 1..Len(new)) /\ k - Len(new) + 1 = i
      BY <1>1, <1>6
    <2> HIDE DEF k
    <2>2. r[k] = q[k - Len(new) + 1]
      BY <1>5, <2>1
    <2> QED BY <2>1, <2>2 DEF k
  <1>7. q[1] = Head(q)
    OBVIOUS
  <1> QED BY <1>1, <1>2, <1>5, <1>6, <1>7

(* How what a step relies on survives that the head of the list becomes    *)
(* the steps `new'.                                                        *)
LEMMA SecureMoves ==
    ASSUME NEW x, NEW y, NEW new \in Seq(Statement),
           x.todo \in Seq(Statement), x.todo # <<>>,
           y.todo = new \o Tail(x.todo), Secure(x),
           \A j, row : Granted(x, j, row) => Granted(y, j, row),
           \A i \in 1..Len(new), j \in Job \cup {0} : \A row \in RowsOf(new[i]) :
              Wants(new[i], j, row) =>
                 Granted(y, j, row) \/ \E k \in 1..i-1 : Gives(new[k], j, row),
           \A j \in Job \cup {0} : \A row : Gives(Head(x.todo), j, row) =>
              Granted(y, j, row) \/ \E k \in 1..Len(new) : Gives(new[k], j, row)
    PROVE  Secure(y)
  <1> DEFINE q == x.todo
             r == y.todo
             n == Len(new)
  <1>1. r = new \o Tail(q) /\ q \in Seq(Statement) /\ q # <<>>
    OBVIOUS
  <1>2. /\ n \in Nat /\ Len(r) \in Nat /\ Len(q) \in Nat /\ Len(q) > 0
        /\ \A i \in 1..Len(r) :
                 \/ i \in 1..n /\ r[i] = new[i]
                 \/ /\ i > n /\ i - n + 1 \in 2..Len(q)
                    /\ r[i] = q[i - n + 1]
        /\ \A i \in 2..Len(q) : /\ i - 1 + n \in 1..Len(r)
                                /\ r[i - 1 + n] = q[i]
        /\ \A i \in 1..n : i \in 1..Len(r) /\ r[i] = new[i]
        /\ q[1] = Head(q)
    <2> HIDE DEF q, r
    <2> QED BY <1>1, Splice
  <1>3. SUFFICES ASSUME NEW i \in 1..Len(r), NEW j \in Job \cup {0},
                        NEW row \in RowsOf(r[i]), Wants(r[i], j, row)
                 PROVE  \/ Granted(y, j, row)
                        \/ \E k \in 1..i-1 : Gives(r[k], j, row)
    BY DEF Secure
  <1> USE DEF q, r
  <1>4. CASE i \in 1..n /\ r[i] = new[i]
    <2>1. Granted(y, j, row) \/ \E k \in 1..i-1 : Gives(new[k], j, row)
      BY <1>3, <1>4
    <2> HIDE DEF q, r
    <2>2. \A k \in 1..i-1 : r[k] = new[k]
      BY <1>2, <1>4
    <2> QED BY <2>1, <2>2
  <1>5. CASE i > n /\ i - n + 1 \in 2..Len(q) /\ r[i] = q[i - n + 1]
    <2> DEFINE h == i - n + 1
    <2>1. h \in 2..Len(q) /\ h \in 1..Len(q) /\ i = h - 1 + n
      BY <1>2, <1>5
    <2> HIDE DEF h
    <2>2. r[i] = q[h]
      BY <1>5 DEF h
    <2>3. Granted(x, j, row) \/ \E k \in 1..h-1 : Gives(q[k], j, row)
      BY <1>3, <2>1, <2>2 DEF Secure
    <2>4. ASSUME NEW k \in 1..h-1, Gives(q[k], j, row)
          PROVE  Granted(y, j, row) \/ \E m \in 1..i-1 : Gives(r[m], j, row)
      <3>1. CASE k = 1
        <4>1. Granted(y, j, row) \/ \E m \in 1..n : Gives(new[m], j, row)
          BY <1>2, <2>4, <3>1
        <4> HIDE DEF q, r
        <4>2. \A m \in 1..n : m \in 1..i-1 /\ r[m] = new[m]
          BY <1>2, <1>5
        <4> QED BY <4>1, <4>2
      <3>2. CASE k # 1
        <4> HIDE DEF q, r, n
        <4>1. k \in 2..Len(q) /\ k - 1 + n \in 1..i-1
          BY <1>2, <2>1, <2>4, <3>2
        <4>2. r[k - 1 + n] = q[k]
          BY <1>2, <4>1
        <4> QED BY <2>4, <4>1, <4>2
      <3> QED BY <3>1, <3>2
    <2> QED BY <2>3, <2>4
  <1> HIDE DEF q, r, n
  <1> QED BY <1>2, <1>4, <1>5

(* That only deletions go before an insertion survives it.                 *)
LEMMA NearMoves ==
    ASSUME NEW x, NEW y, NEW new \in Seq(Statement),
           x.todo \in Seq(Statement), x.todo # <<>>,
           y.todo = new \o Tail(x.todo), InsertsNear(x),
           \A i \in 1..Len(new) : new[i].do = "insert" =>
              \A k \in 1..i-1 :
                 /\ new[k].do \in {"lock", "drop"}
                 /\ new[k].do = "drop" => new[k].job = new[i].job,
           Head(x.todo).do \in {"lock", "drop"} =>
              \A i \in 1..Len(new) : new[i].do = "lock"
    PROVE  InsertsNear(y)
  <1> DEFINE q == x.todo
             r == y.todo
             n == Len(new)
  <1>1. r = new \o Tail(q) /\ q \in Seq(Statement) /\ q # <<>>
    OBVIOUS
  <1>2. /\ n \in Nat /\ Len(r) \in Nat /\ Len(q) \in Nat /\ Len(q) > 0
        /\ q[1] = Head(q) /\ 1 \in 1..Len(q)
        /\ \A i \in 1..Len(r) :
                 \/ i \in 1..n /\ r[i] = new[i]
                 \/ /\ i > n /\ i - n + 1 \in 2..Len(q)
                    /\ r[i] = q[i - n + 1]
    <2> HIDE DEF q, r
    <2> QED BY <1>1, Splice
  <1>3. SUFFICES ASSUME NEW i \in 1..Len(r), r[i].do = "insert", NEW k \in 1..i-1
                 PROVE  /\ r[k].do \in {"lock", "drop"}
                        /\ r[k].do = "drop" => r[k].job = r[i].job
    BY DEF InsertsNear
  <1>4. k \in 1..Len(r) /\ k < i /\ i \in Nat /\ k \in Nat
    BY <1>2
  <1>5. CASE i \in 1..n /\ r[i] = new[i]
    <2>1. k \in 1..n /\ ~(k > n)
      BY <1>2, <1>4, <1>5
    <2>2. r[k] = new[k]
      BY <1>2, <1>4, <2>1
    <2> QED BY <1>3, <1>5, <2>2
  <1>6. CASE i > n /\ i - n + 1 \in 2..Len(q) /\ r[i] = q[i - n + 1]
    <2> DEFINE h == i - n + 1
    <2>1. h \in 2..Len(q) /\ h \in 1..Len(q) /\ i = h - 1 + n
      <3>1. n \in Nat /\ i \in Nat /\ Len(q) \in Nat
        BY <1>2, <1>4
      <3> HIDE DEF n, q, r
      <3> QED BY <1>6, <3>1
    <2> HIDE DEF h
    <2>2. r[i] = q[h] /\ q[h].do = "insert"
      BY <1>3, <1>6 DEF h
    <2>3. \A m \in 1..h-1 : /\ q[m].do \in {"lock", "drop"}
                            /\ q[m].do = "drop" => q[m].job = q[h].job
      BY <2>1, <2>2 DEF InsertsNear
    <2>4. CASE k \in 1..n /\ r[k] = new[k]
      <3>1. Head(q).do \in {"lock", "drop"}
        BY <1>2, <2>1, <2>3
      <3> QED BY <2>4, <3>1
    <2>5. CASE k > n /\ k - n + 1 \in 2..Len(q) /\ r[k] = q[k - n + 1]
      <3>1. k - n + 1 \in 1..h-1
        BY <1>2, <1>4, <2>1, <2>5
      <3> QED BY <2>2, <2>3, <2>5, <3>1
    <2> QED BY <1>2, <1>4, <2>4, <2>5
  <1> HIDE DEF q, r, n
  <1> QED BY <1>2, <1>5, <1>6

(* So does the form of the steps.                                          *)
LEMMA FormMoves ==
    ASSUME NEW x, NEW y, NEW new \in Seq(Statement),
           x.todo \in Seq(Statement), x.todo # <<>>,
           y.todo = new \o Tail(x.todo), y.kind = x.kind, y.job = x.job,
           JobsLocked(x), Shaped(x),
           \A i \in 1..Len(new) : /\ Shape(new[i])
                                  /\ x.kind \in Closers => OwnLock(new[i])
    PROVE  JobsLocked(y) /\ Shaped(y)
  <1> DEFINE q == x.todo
             r == y.todo
             n == Len(new)
  <1>1. r = new \o Tail(q) /\ q \in Seq(Statement) /\ q # <<>>
    OBVIOUS
  <1>2. /\ n \in Nat /\ Len(r) \in Nat /\ Len(q) \in Nat /\ Len(q) > 0
        /\ q[1] = Head(q) /\ 1 \in 1..Len(q)
        /\ \A i \in 1..Len(r) :
                 \/ i \in 1..n /\ r[i] = new[i]
                 \/ /\ i > n /\ i - n + 1 \in 2..Len(q)
                    /\ r[i] = q[i - n + 1]
    <2> HIDE DEF q, r
    <2> QED BY <1>1, Splice
  <1>3. \A i \in 1..Len(r) :
           \/ \E k \in 1..n : r[i] = new[k]
           \/ \E k \in 1..Len(q) : r[i] = q[k]
    <2> HIDE DEF q, r, n
    <2>1. 2..Len(q) \subseteq 1..Len(q)
      BY <1>2
    <2> QED BY <1>2, <2>1
  <1>4. \A k \in 1..Len(q) : /\ Shape(q[k])
                             /\ x.kind \in Closers => OwnLock(q[k])
    BY DEF Shaped, JobsLocked
  <1>5. ASSUME NEW i \in 1..Len(r)
        PROVE  Shape(r[i]) /\ (x.kind \in Closers => OwnLock(r[i]))
    <2> HIDE DEF q, r
    <2> QED BY <1>3, <1>4, <1>5 DEF n
  <1> QED BY <1>5 DEF Shaped, JobsLocked

(* So does that an end is recorded once.                                   *)
LEMMA EndsMoves ==
    ASSUME NEW x, NEW y, NEW new \in Seq(Statement),
           x.todo \in Seq(Statement), x.todo # <<>>,
           y.todo = new \o Tail(x.todo), y.kind = x.kind, EndsOnce(x),
           \A i \in 1..Len(new), j \in Job : Ends(new[i], j) =>
              /\ Ends(Head(x.todo), j)
              /\ \A k \in 1..Len(new) : k # i => ~Ends(new[k], j)
              /\ \A e \in y.added : e \in x.added \/ ~(e.ended /\ e.of = j),
           \A e \in y.added : e \in x.added \/ ~e.ended \/ Ends(Head(x.todo), e.of)
    PROVE  EndsOnce(y)
  <1> DEFINE q == x.todo
             r == y.todo
             n == Len(new)
  <1>1. r = new \o Tail(q) /\ q \in Seq(Statement) /\ q # <<>>
    OBVIOUS
  <1>2. /\ n \in Nat /\ Len(r) \in Nat /\ Len(q) \in Nat /\ Len(q) > 0
        /\ q[1] = Head(q) /\ 1 \in 1..Len(q)
        /\ \A i \in 1..Len(r) :
                 \/ i \in 1..n /\ r[i] = new[i]
                 \/ /\ i > n /\ i - n + 1 \in 2..Len(q)
                    /\ r[i] = q[i - n + 1]
    <2> HIDE DEF q, r
    <2> QED BY <1>1, Splice
  <1> DEFINE hd == Head(q)
  <1>3. SUFFICES ASSUME NEW i \in 1..Len(r), NEW j \in Job, Ends(r[i], j)
                 PROVE  /\ x.kind \in Closers
                        /\ \A e \in y.added : ~(e.ended /\ e.of = j)
                        /\ \A k \in 1..Len(r) : k # i => ~Ends(r[k], j)
    BY DEF EndsOnce
  <1>4. Ends(hd, j) =>
           /\ x.kind \in Closers
           /\ \A e \in x.added : ~(e.ended /\ e.of = j)
           /\ \A k \in 2..Len(q) : ~Ends(q[k], j)
    <2>1. \A k \in 2..Len(q) : k \in 1..Len(q) /\ k # 1
      BY <1>2
    <2> QED BY <1>2, <2>1 DEF EndsOnce
  <1>5. \A k \in 1..n : Ends(new[k], j) => Ends(hd, j)
    OBVIOUS
  <1>6. CASE i \in 1..n /\ r[i] = new[i]
    <2>1. /\ Ends(hd, j)
          /\ \A k \in 1..n : k # i => ~Ends(new[k], j)
          /\ \A e \in y.added : e \in x.added \/ ~(e.ended /\ e.of = j)
      BY <1>3, <1>6
    <2> HIDE DEF q, r, n, hd
    <2>2. ASSUME NEW k \in 1..Len(r), k # i PROVE ~Ends(r[k], j)
      BY <1>2, <1>4, <2>1, <2>2
    <2> QED BY <1>4, <2>1, <2>2
  <1>7. CASE i > n /\ i - n + 1 \in 2..Len(q) /\ r[i] = q[i - n + 1]
    <2> DEFINE h == i - n + 1
    <2>1. h \in 2..Len(q) /\ h \in 1..Len(q) /\ i = h - 1 + n
      BY <1>2, <1>7
    <2> HIDE DEF h
    <2>2. r[i] = q[h] /\ Ends(q[h], j)
      BY <1>3, <1>7 DEF h
    <2>3. /\ x.kind \in Closers
          /\ \A e \in x.added : ~(e.ended /\ e.of = j)
          /\ \A k \in 1..Len(q) : k # h => ~Ends(q[k], j)
      BY <2>1, <2>2 DEF EndsOnce
    <2>4. ~Ends(hd, j)
      BY <1>4, <2>1, <2>2
    <2>5. \A e \in y.added : ~(e.ended /\ e.of = j)
      BY <2>3, <2>4
    <2>6. ASSUME NEW k \in 1..Len(r), k # i PROVE ~Ends(r[k], j)
      <3>1. CASE k \in 1..n /\ r[k] = new[k]
        BY <1>5, <2>4, <3>1
      <3>2. CASE k > n /\ k - n + 1 \in 2..Len(q) /\ r[k] = q[k - n + 1]
        <4>1. k - n + 1 \in 1..Len(q) /\ k - n + 1 # h
          BY <1>2, <2>1, <2>6, <3>2
        <4> QED BY <2>3, <3>2, <4>1
      <3> HIDE DEF q, r, n
      <3> QED BY <1>2, <3>1, <3>2
    <2> QED BY <2>3, <2>5, <2>6
  <1> HIDE DEF q, r, n
  <1> QED BY <1>2, <1>6, <1>7

(* The steps `new' may take the place of the head of a list.               *)
Fits(x, y, new) ==
    /\ \A i \in 1..Len(new) : /\ Shape(new[i])
                              /\ x.kind \in Closers => OwnLock(new[i])
    /\ \A i \in 1..Len(new), j \in Job \cup {0} : \A row \in RowsOf(new[i]) :
          Wants(new[i], j, row) =>
             Granted(y, j, row) \/ \E k \in 1..i-1 : Gives(new[k], j, row)
    /\ \A j \in Job \cup {0} : \A row : Gives(Head(x.todo), j, row) =>
          Granted(y, j, row) \/ \E k \in 1..Len(new) : Gives(new[k], j, row)
    /\ \A i \in 1..Len(new) : new[i].do = "insert" =>
          \A k \in 1..i-1 : /\ new[k].do \in {"lock", "drop"}
                            /\ new[k].do = "drop" => new[k].job = new[i].job
    /\ Head(x.todo).do \in {"lock", "drop"} =>
          \A i \in 1..Len(new) : new[i].do = "lock"
    /\ \A i \in 1..Len(new), j \in Job : Ends(new[i], j) =>
          /\ Ends(Head(x.todo), j)
          /\ \A k \in 1..Len(new) : k # i => ~Ends(new[k], j)
          /\ \A e \in y.added : e \in x.added \/ ~(e.ended /\ e.of = j)
    /\ \A e \in y.added : e \in x.added \/ ~e.ended \/ Ends(Head(x.todo), e.of)
    /\ \A i \in 1..Len(new) : new[i].do = "insert" => Head(x.todo).do = "record"

(* No insertion is planned.                                                *)
NoInsert(x) == \A i \in 1..Len(x.todo) : x.todo[i].do # "insert"

(* No insertion is planned behind any other step than a lock or a          *)
(* deletion.                                                               *)
LEMMA InsertsGone ==
    ASSUME NEW x \in Transaction, NEW y, NEW new \in Seq(Statement),
           x.todo # <<>>, y.todo = new \o Tail(x.todo), InsertsNear(x),
           Head(x.todo).do \notin {"lock", "drop"},
           \A i \in 1..Len(new) : new[i].do # "insert"
    PROVE  NoInsert(y)
  <1> DEFINE q == x.todo
             r == y.todo
             n == Len(new)
  <1>1. r = new \o Tail(q) /\ q \in Seq(Statement) /\ q # <<>>
    BY DEF Transaction
  <1>2. /\ n \in Nat /\ Len(r) \in Nat /\ Len(q) \in Nat /\ Len(q) > 0
        /\ q[1] = Head(q) /\ 1 \in 1..Len(q)
        /\ \A i \in 1..Len(r) :
                 \/ i \in 1..n /\ r[i] = new[i]
                 \/ /\ i > n /\ i - n + 1 \in 2..Len(q)
                    /\ r[i] = q[i - n + 1]
    <2> HIDE DEF q, r
    <2> QED BY <1>1, Splice
  <1>3. ASSUME NEW h \in 2..Len(q) PROVE q[h].do # "insert"
    <2>1. h \in 1..Len(q) /\ 1 \in 1..h-1
      BY <1>2, <1>3
    <2> QED BY <1>2, <2>1 DEF InsertsNear
  <1> HIDE DEF q, r, n
  <1>4. ASSUME NEW i \in 1..Len(r) PROVE r[i].do # "insert"
    <2>1. CASE i \in 1..n /\ r[i] = new[i]
      BY <2>1 DEF n
    <2>2. CASE i - n + 1 \in 2..Len(q) /\ r[i] = q[i - n + 1]
      BY <1>3, <2>2
    <2> QED BY <1>2, <2>1, <2>2
  <1> QED BY <1>4 DEF NoInsert, r

(* The same when nothing takes the place of the head.                      *)
LEMMA InsertsPop ==
    ASSUME NEW x \in Transaction, NEW y,
           x.todo # <<>>, y.todo = Tail(x.todo), InsertsNear(x),
           Head(x.todo).do \notin {"lock", "drop"}
    PROVE  NoInsert(y)
  <1> DEFINE new == <<>>
  <1>1. new \in Seq(Statement) /\ \A i \in 1..Len(new) : new[i].do # "insert"
    OBVIOUS
  <1>2. y.todo = new \o Tail(x.todo)
    <2>1. Tail(x.todo) \in Seq(Statement)
      BY DEF Transaction
    <2> QED BY <2>1
  <1> HIDE DEF new
  <1> QED BY <1>1, <1>2, InsertsGone

(* All of what a transaction relies on survives when the new steps fit.    *)
LEMMA LocalMoves ==
    ASSUME NEW x \in Transaction, NEW y \in Transaction, NEW new \in Seq(Statement),
           x.todo # <<>>, y.todo = new \o Tail(x.todo),
           y.kind = x.kind, y.job = x.job,
           x.held \subseteq y.held, x.skipped \subseteq y.skipped,
           x.closed \subseteq y.closed, Local(x), Effects(y), Fits(x, y, new)
    PROVE  Local(y)
  <1>1. x.todo \in Seq(Statement)
    BY DEF Transaction
  <1>2. \A j, row : Granted(x, j, row) => Granted(y, j, row)
    BY DEF Granted, Has
  <1>3. Secure(y)
    BY <1>1, <1>2, SecureMoves DEF Fits, Local
  <1>4. InsertsNear(y)
    BY <1>1, NearMoves DEF Fits, Local
  <1>5. JobsLocked(y) /\ Shaped(y)
    BY <1>1, FormMoves DEF Fits, Local
  <1>6. EndsOnce(y)
    BY <1>1, EndsMoves DEF Fits, Local
  <1> QED BY <1>3, <1>4, <1>5, <1>6 DEF Local

(* When the head is done and nothing takes its place.                      *)
LEMMA LocalPops ==
    ASSUME NEW x \in Transaction, NEW y \in Transaction,
           x.todo # <<>>, y.todo = Tail(x.todo),
           y.kind = x.kind, y.job = x.job,
           x.held \subseteq y.held, x.skipped \subseteq y.skipped,
           x.closed \subseteq y.closed, Local(x), Effects(y),
           \A j \in Job \cup {0} : \A row :
              Gives(Head(x.todo), j, row) => Granted(y, j, row),
           \A e \in y.added : e \in x.added \/ ~e.ended \/ Ends(Head(x.todo), e.of)
    PROVE  Local(y)
  <1> DEFINE new == <<>>
  <1>1. new \in Seq(Statement) /\ Len(new) = 0 /\ 1..Len(new) = {}
    OBVIOUS
  <1>2. y.todo = new \o Tail(x.todo)
    <2>1. Tail(x.todo) \in Seq(Statement)
      BY DEF Transaction
    <2> QED BY <2>1
  <1> HIDE DEF new
  <1>3. Fits(x, y, new)
    BY <1>1 DEF Fits
  <1> QED BY <1>1, <1>2, <1>3, LocalMoves

-----------------------------------------------------------------------------
(* The steps of the programs.                                              *)

(* The rows have their types.                                              *)
LEMMA RowTypes ==
    /\ LedgerRow \in Row
    /\ \A j \in Job : JobRow(j) \in Row /\ OrgRow(j) \in Row
    /\ \A e \in ProductEvent : EventRow(e) \in Row
    /\ JobRows \subseteq Row /\ OrgRows \subseteq Row
  BY EventsAssumption
  DEF LedgerRow, JobRow, OrgRow, EventRow, Row, ProductEvent, JobRows, OrgRows

(* What steps do.                                                          *)
Does == {"lock", "record", "insert", "close", "drop", "cascade", "discard",
         "lockEach", "endEach", "expireEach"}

(* Every step that is made from typed parts is a statement.                *)
LEMMA MakeTypes ==
    ASSUME NEW do \in Does, NEW j \in Job \cup {0}, NEW rows \in SUBSET Row,
           NEW mode \in Mode, NEW b \in BOOLEAN
    PROVE  Make(do, j, rows, mode, b) \in Statement
  BY DEF Make, Statement, Does

(* A lock is a statement.                                                  *)
LEMMA LockTypes ==
    ASSUME NEW j \in Job \cup {0}, NEW rows \in SUBSET Row, NEW mode \in Mode
    PROVE  Lock(j, rows, mode) \in Statement
  BY MakeTypes DEF Lock, Does

(* So is a step without a mode of its own.                                 *)
LEMMA StepTypes ==
    ASSUME NEW do \in Does, NEW j \in Job \cup {0}, NEW rows \in SUBSET Row
    PROVE  Step(do, j, rows) \in Statement
  BY MakeTypes DEF Step, Mode

(* So is each step of a loop.                                              *)
LEMMA ThroughTypes ==
    ASSUME NEW do \in Does, NEW j \in Job \cup {0}, NEW rows \in SUBSET Row
    PROVE  Through(do, j, rows) \in Seq(Statement)
  <1>1. <<>> \in Seq(Statement) /\ <<Step(do, j, rows)>> \in Seq(Statement)
    BY StepTypes
  <1> QED BY <1>1 DEF Through

(* So are the steps of record_event().                                     *)
LEMMA RecordTypes ==
    ASSUME NEW j \in Job, NEW b \in BOOLEAN
    PROVE  Record(j, b) \in Seq(Statement)
  <1> DEFINE s1 == Lock(j, {LedgerRow}, "update")
             s2 == Make("record", j, {}, "update", b)
             s3 == Lock(j, {OrgRow(j), JobRow(j)}, "share")
  <1>1. s1 \in Statement
    BY LockTypes, RowTypes DEF Mode
  <1>2. s2 \in Statement
    BY MakeTypes DEF Mode, Does
  <1>3. s3 \in Statement
    <2>1. {OrgRow(j), JobRow(j)} \in SUBSET Row
      BY RowTypes
    <2> QED BY <2>1, LockTypes DEF Mode
  <1>4. Record(j, b) = <<s1, s2, s3>>
    BY DEF Record
  <1> HIDE DEF s1, s2, s3
  <1> QED BY <1>1, <1>2, <1>3, <1>4

(* So is the lock of one analysis.                                         *)
LEMMA LockJobTypes ==
    ASSUME NEW j \in Job
    PROVE  LockJob(j) \in Seq(Statement)
  <1> DEFINE s == Lock(j, {JobRow(j)}, "update")
  <1>1. s \in Statement
    BY LockTypes, RowTypes DEF Mode
  <1>2. LockJob(j) = <<s>>
    BY DEF LockJob
  <1> HIDE DEF s
  <1> QED BY <1>1, <1>2

(* So are the steps of an end.                                             *)
LEMMA EndTypes ==
    ASSUME NEW j \in Job
    PROVE  End(j) \in Seq(Statement)
  <1> DEFINE s == Step("close", j, {})
  <1>1. s \in Statement
    BY StepTypes DEF Does
  <1>2. End(j) = <<s>> \o Record(j, TRUE)
    BY DEF End
  <1> DEFINE a == <<s>>
             b == Record(j, TRUE)
  <1>3. b \in Seq(Statement)
    <2>1. TRUE \in BOOLEAN
      OBVIOUS
    <2> QED BY <2>1, RecordTypes
  <1>4. a \in Seq(Statement)
    <2> HIDE DEF s
    <2> QED BY <1>1
  <1> HIDE DEF s, a, b
  <1>5. a \o b \in Seq(Statement)
    BY <1>3, <1>4
  <1> QED BY <1>2, <1>5 DEF a, b

(* So are the steps of one organization of cleanup().                      *)
LEMMA ExpireTypes ==
    ASSUME NEW o \in Nat
    PROVE  Expire(o) \in Seq(Statement)
  <1> DEFINE rows == {JobRow(j) : j \in {i \in Job : OrgOf[i] = o}}
             s1 == Lock(0, {<<"org", o>>}, "update")
             s2 == Lock(0, rows, "update")
  <1>1. rows \in SUBSET Row /\ {<<"org", o>>} \in SUBSET Row
    BY RowTypes DEF Row
  <1>2. s1 \in Statement
    BY <1>1, LockTypes DEF Mode
  <1>3. s2 \in Statement
    BY <1>1, LockTypes DEF Mode
  <1>4. Through("cascade", 0, rows) \in Seq(Statement)
    BY <1>1, ThroughTypes DEF Does
  <1>5. Expire(o) = <<s1, s2>> \o Through("cascade", 0, rows)
    BY DEF Expire
  <1> HIDE DEF s1, s2, rows
  <1> QED BY <1>2, <1>3, <1>4, <1>5

(* So are the steps of a deletion of events.                               *)
LEMMA DeletionTypes ==
    ASSUME NEW j \in Job \cup {0}, NEW S \in SUBSET ProductEvent
    PROVE  Deletion(j, S) \in Seq(Statement)
  <1> DEFINE rows == EventRows(S)
             s1 == Lock(j, rows, "update")
             s2 == Step("drop", j, rows)
  <1>1. rows \in SUBSET Row
    BY RowTypes DEF EventRows
  <1>2. s1 \in Statement
    BY <1>1, LockTypes DEF Mode
  <1>3. s2 \in Statement
    BY <1>1, StepTypes DEF Does
  <1>4. Deletion(j, S) = IF S = {} THEN <<>> ELSE <<s1, s2>>
    BY DEF Deletion
  <1> HIDE DEF s1, s2, rows
  <1> QED BY <1>2, <1>3, <1>4

-----------------------------------------------------------------------------
(* What a step that changes one transaction leaves of all of them.         *)
LEMMA Proceeds ==
    ASSUME tx \in [DOMAIN tx -> Transaction], NEW t \in DOMAIN tx, NEW v,
           Proceed(t, v)
    PROVE  /\ tx'[t] = v /\ DOMAIN tx' = DOMAIN tx
           /\ \A u \in DOMAIN tx : u # t => tx'[u] = tx[u]
           /\ v \in Transaction => tx' \in [DOMAIN tx' -> Transaction]
  BY DEF Proceed

(* What is known of the step at the head.                                  *)
LEMMA HeadIs ==
    ASSUME NEW x \in Transaction, x.todo # <<>>, Local(x)
    PROVE  /\ Head(x.todo) \in Statement /\ Tail(x.todo) \in Seq(Statement)
           /\ Shape(Head(x.todo))
           /\ x.kind \in Closers => OwnLock(Head(x.todo))
           /\ \A j \in Job \cup {0} : \A row \in RowsOf(Head(x.todo)) :
                 Wants(Head(x.todo), j, row) => Granted(x, j, row)
           /\ \A j \in Job : Ends(Head(x.todo), j) =>
                 /\ x.kind \in Closers
                 /\ \A e \in x.added : ~(e.ended /\ e.of = j)
  <1> DEFINE q == x.todo
  <1>1. q \in Seq(Statement)
    BY DEF Transaction
  <1>2. /\ Head(q) \in Statement /\ Tail(q) \in Seq(Statement)
        /\ 1 \in 1..Len(q) /\ q[1] = Head(q) /\ 1..1-1 = {}
    <2> HIDE DEF q
    <2>1. q # <<>>
      BY DEF q
    <2> QED BY <1>1, <2>1
  <1>3. Shape(q[1]) /\ (x.kind \in Closers => OwnLock(q[1]))
    BY <1>2 DEF Local, Shaped, JobsLocked
  <1>4. \A j \in Job \cup {0} : \A row \in RowsOf(q[1]) :
                 Wants(q[1], j, row) => Granted(x, j, row)
    BY <1>2 DEF Local, Secure
  <1>5. \A j \in Job : Ends(q[1], j) =>
                 /\ x.kind \in Closers
                 /\ \A e \in x.added : ~(e.ended /\ e.of = j)
    BY <1>2 DEF Local, EndsOnce
  <1> QED BY <1>2, <1>3, <1>4, <1>5

(* A step that is not passed over has the rows it relies on.               *)
LEMMA HeadHas ==
    ASSUME EventsTypeOK, NEW t \in DOMAIN tx, Running(t), ~Stale(t), Local(tx[t])
    PROVE  LET s == Now(t)
           IN  /\ s.job \notin tx[t].skipped
               /\ \A row \in RowsOf(s) :
                     Wants(s, s.job, row) =>
                        Has(tx[t], row) \/ (s.job \in tx[t].closed /\ row = Mark(s.job))
  <1> DEFINE x == tx[t]
             s == Head(x.todo)
  <1>1. x \in Transaction /\ x.todo # <<>>
    BY DEF EventsTypeOK, Running
  <1>2. s \in Statement
    BY <1>1, HeadIs
  <1>3. s.job \notin x.skipped
    <2>1. s.job = 0 \/ s.job \notin x.skipped
      BY DEF Stale, Now
    <2>2. 0 \notin x.skipped
      BY <1>1, EventsAssumption DEF Transaction
    <2> QED BY <2>1, <2>2
  <1>4. ASSUME NEW row \in RowsOf(s), Wants(s, s.job, row)
        PROVE  Has(x, row) \/ (s.job \in x.closed /\ row = Mark(s.job))
    <2>1. s.job \in Job \cup {0}
      BY <1>2 DEF Statement
    <2>2. Granted(x, s.job, row)
      BY <1>1, <1>4, <2>1, HeadIs
    <2> QED BY <1>3, <2>2 DEF Granted
  <1> QED BY <1>3, <1>4 DEF Now

(* Passing an analysis over keeps what the transaction relies on: whatever *)
(* is left for that analysis is passed over as well.                       *)
LEMMA SkipLocal ==
    ASSUME EventsTypeOK, NEW t \in DOMAIN tx, Local(tx[t]), Skip(t)
    PROVE  tx'[t] \in Transaction /\ Local(tx'[t])
  <1> DEFINE x == tx[t]
             s == Head(x.todo)
             y == [x EXCEPT !.todo = Tail(x.todo), !.skipped = x.skipped \cup {s.job}]
  <1>1. x \in Transaction /\ x.todo # <<>>
    BY DEF EventsTypeOK, Skip, Running
  <1>2. /\ s \in Statement /\ Shape(s) /\ Tail(x.todo) \in Seq(Statement)
    BY <1>1, HeadIs
  <1>3. s.job # 0 /\ s.job \in Job
    BY <1>2 DEF Skip, Stale, Now, Statement
  <1>4. tx'[t] = y
    <2>1. Proceed(t, y)
      BY DEF Skip, Rest, Now
    <2> HIDE DEF y
    <2> QED BY <2>1, Proceeds DEF EventsTypeOK
  <1>5. /\ y \in Transaction /\ y.todo = Tail(x.todo)
        /\ y.skipped = x.skipped \cup {s.job}
        /\ y.kind = x.kind /\ y.job = x.job /\ y.held = x.held
        /\ y.added = x.added /\ y.dropped = x.dropped
        /\ y.closed = x.closed /\ y.deleted = x.deleted
    <2> DEFINE q == Tail(x.todo)
               v == x.skipped \cup {s.job}
    <2>1. v \in SUBSET Job /\ q \in Seq(Statement)
      BY <1>1, <1>2, <1>3 DEF Transaction
    <2>2. y = [x EXCEPT !.todo = q, !.skipped = v]
      OBVIOUS
    <2> HIDE DEF x, s, y, q, v
    <2>3. /\ y \in Transaction /\ y.todo = q /\ y.skipped = v
          /\ y.kind = x.kind /\ y.job = x.job /\ y.held = x.held
          /\ y.added = x.added /\ y.dropped = x.dropped
          /\ y.closed = x.closed /\ y.deleted = x.deleted
      <3>1. x \in Transaction BY <1>1
      <3>2. q \in Seq(Statement) /\ v \in SUBSET Job BY <2>1
      <3> QED BY ONLY <3>1, <3>2, <2>2 DEF Transaction
    <2> QED BY <2>3 DEF q, v
  <1> HIDE DEF y
  <1>6. Effects(y)
    <2>1. ~Trigger(s)
      BY <1>3 DEF Trigger
    <2>2. Effects(x)
      BY DEF Local
    <2> HIDE DEF x, s
    <2> QED BY <1>5, <2>1, <2>2 DEF Effects, Has, s
  <1>7. ASSUME NEW j \in Job \cup {0}, NEW row, Gives(s, j, row)
        PROVE  Granted(y, j, row)
    <2>1. j = s.job
      BY <1>2, <1>3, <1>7 DEF Gives, Shape
    <2> HIDE DEF x, s
    <2> QED BY <1>5, <2>1 DEF Granted
  <1>8. Local(x)
    OBVIOUS
  <1> HIDE DEF x
  <1>9. Local(y)
    BY <1>1, <1>5, <1>6, <1>7, <1>8, LocalPops
  <1> QED BY <1>4, <1>5, <1>9

(* The deletion of events keeps it: they are locked, and the trigger takes *)
(* the commercial row next.                                                *)
LEMMA DropLocal ==
    ASSUME EventsTypeOK, NEW t \in DOMAIN tx, Local(tx[t]), Drop(t)
    PROVE  tx'[t] \in Transaction /\ Local(tx'[t])
  <1> DEFINE x == tx[t]
             s == Head(x.todo)
  <1>1. x \in Transaction /\ x.todo # <<>> /\ Local(x)
    BY DEF EventsTypeOK, Drop, Goes, Running
  <1>2. /\ s \in Statement /\ Shape(s) /\ Tail(x.todo) \in Seq(Statement)
        /\ x.kind \in Closers => OwnLock(s)
        /\ s.rows \in SUBSET Row /\ s.job \in Job \cup {0}
    <2>1. /\ s \in Statement /\ Shape(s) /\ Tail(x.todo) \in Seq(Statement)
          /\ x.kind \in Closers => OwnLock(s)
      BY <1>1, HeadIs
    <2> HIDE DEF s, x
    <2> QED BY <2>1 DEF Statement
  <1>3. /\ s.do = "drop" /\ ~Trigger(s)
        /\ s.job \notin x.skipped
        /\ \A row \in RowsOf(s) : Wants(s, s.job, row) =>
              Has(x, row) \/ (s.job \in x.closed /\ row = Mark(s.job))
    <2>1. s.do = "drop" /\ Running(t) /\ ~Stale(t)
      BY DEF Drop, Goes, Now
    <2> QED BY <2>1, HeadHas DEF Now, Trigger
  <1> DEFINE S == {e \in Seen(t) : EventRow(e) \in s.rows}
             new == IF S = {} THEN <<>> ELSE <<Lock(0, {LedgerRow}, "nokey")>>
             q == new \o Tail(x.todo)
             v == x.dropped \cup S
             y == [x EXCEPT !.todo = q, !.dropped = v]
  <1>4. /\ new \in Seq(Statement) /\ q \in Seq(Statement)
        /\ v \in SUBSET ProductEvent
    <2>1. S \subseteq ProductEvent
      BY <1>1 DEF EventsTypeOK, Transaction, Seen
    <2>2. <<>> \in Seq(Statement) /\ <<Lock(0, {LedgerRow}, "nokey")>> \in Seq(Statement)
      BY LockTypes, RowTypes DEF Mode
    <2>3. new \in Seq(Statement)
      BY <2>2
    <2>4. v \in SUBSET ProductEvent
      BY <1>1, <2>1 DEF Transaction
    <2> HIDE DEF x, new, S
    <2> QED BY <1>2, <2>3, <2>4
  <1>5. tx'[t] = y
    <2>1. Proceed(t, y)
      BY DEF Drop, Rest, Now
    <2> HIDE DEF y
    <2> QED BY <2>1, Proceeds DEF EventsTypeOK
  <1>6. /\ y \in Transaction /\ y.todo = q /\ y.dropped = v
        /\ y.kind = x.kind /\ y.job = x.job /\ y.held = x.held
        /\ y.added = x.added /\ y.closed = x.closed /\ y.deleted = x.deleted
        /\ y.skipped = x.skipped
    <2>1. x \in Transaction
      BY <1>1
    <2> HIDE DEF x, s, q, v
    <2> QED BY ONLY <2>1, <1>4, y = [x EXCEPT !.todo = q, !.dropped = v] DEF Transaction
  <1> HIDE DEF y
  <1>7. \A e \in S : Has(x, EventRow(e))
    <2> HIDE DEF x, s
    <2>1. ASSUME NEW e \in S PROVE Has(x, EventRow(e))
      <3>1. EventRow(e) \in s.rows /\ EventRow(e) \in RowsOf(s)
        BY DEF RowsOf
      <3>2. Wants(s, s.job, EventRow(e))
        BY <1>3, <3>1 DEF Wants
      <3>3. EventRow(e) # Mark(s.job)
        BY DEF EventRow, Mark
      <3> QED BY <1>3, <3>1, <3>2, <3>3
    <2> QED BY <2>1
  <1>8. Effects(y)
    <2>1. Effects(x)
      BY <1>1 DEF Local
    <2>2. y.dropped # {} => \/ \E m \in Mode : <<LedgerRow, m>> \in x.held
                            \/ y.todo # <<>> /\ Trigger(Head(y.todo))
      <3>1. CASE S = {}
        <4>1. v = x.dropped
          BY <3>1
        <4> HIDE DEF x, s, q, v
        <4> QED BY <1>3, <1>6, <2>1, <4>1 DEF Effects, s
      <3>2. CASE S # {}
        <4> DEFINE a == Lock(0, {LedgerRow}, "nokey")
        <4>1. a \in Statement /\ Trigger(a)
          BY LockTypes, RowTypes DEF Mode, Trigger, Lock, Make
        <4>2. q = <<a>> \o Tail(x.todo)
          BY <3>2
        <4> HIDE DEF x, s, q, v, a
        <4>3. q # <<>> /\ Head(q) = a
          BY <1>2, <4>1, <4>2
        <4> QED BY <1>6, <4>1, <4>3
      <3> QED BY <3>1, <3>2
    <2> HIDE DEF x, s, q
    <2> QED BY <1>6, <1>7, <2>1, <2>2 DEF Effects, Has
  <1>9. Fits(x, y, new)
    <2>1. \A i \in 1..Len(new) : new[i] = Lock(0, {LedgerRow}, "nokey") /\ i = 1
      BY DEF new
    <2>2. \A j \in Job \cup {0} : \A row : ~Gives(s, j, row)
      BY <1>3 DEF Gives
    <2> DEFINE a == Lock(0, {LedgerRow}, "nokey")
    <2>3. Shape(a) /\ OwnLock(a) /\ a.do = "lock" /\ a.job = 0 /\ a.ended = FALSE
      BY DEF Shape, OwnLock, Lock, Make, LedgerRow
    <2>4. /\ \A j \in Job \cup {0} : \A row : ~Wants(a, j, row)
          /\ \A j \in Job : ~Ends(a, j)
      BY <2>3 DEF Wants, Ends
    <2> HIDE DEF x, a, new
    <2> QED BY <1>6, <2>1, <2>2, <2>3, <2>4 DEF Fits, s, a
  <1>10. y.todo = new \o Tail(x.todo)
    BY <1>6
  <1> HIDE DEF x, new, q, v
  <1>11. Local(y)
    BY <1>1, <1>4, <1>6, <1>8, <1>9, <1>10, LocalMoves
  <1> QED BY <1>5, <1>6, <1>11

(* The insertion keeps it: it has the commercial row, and an end it        *)
(* records was closed before and not yet recorded.                         *)
LEMMA InsertLocal ==
    ASSUME EventsTypeOK, NEW t \in DOMAIN tx, Local(tx[t]), Insert(t)
    PROVE  tx'[t] \in Transaction /\ Local(tx'[t]) /\ NoInsert(tx'[t])
  <1> DEFINE x == tx[t]
             s == Head(x.todo)
  <1>1. x \in Transaction /\ x.todo # <<>> /\ Local(x)
    BY DEF EventsTypeOK, Insert, Goes, Running
  <1>2. /\ s \in Statement /\ Shape(s) /\ Tail(x.todo) \in Seq(Statement)
        /\ x.kind \in Closers => OwnLock(s)
        /\ s.rows \in SUBSET Row /\ s.job \in Job \cup {0}
    <2>1. /\ s \in Statement /\ Shape(s) /\ Tail(x.todo) \in Seq(Statement)
          /\ x.kind \in Closers => OwnLock(s)
      BY <1>1, HeadIs
    <2> HIDE DEF s, x
    <2> QED BY <2>1 DEF Statement
  <1>3. /\ s.do = "insert" /\ ~Trigger(s)
        /\ s.job \notin x.skipped
        /\ \A row \in RowsOf(s) : Wants(s, s.job, row) =>
              Has(x, row) \/ (s.job \in x.closed /\ row = Mark(s.job))
    <2>1. s.do = "insert" /\ Running(t) /\ ~Stale(t)
      BY DEF Insert, Goes, Now
    <2> QED BY <2>1, HeadHas DEF Now, Trigger
  <1> DEFINE e == [n |-> ledger.next, of |-> s.job, ended |-> s.ended]
             q == Tail(x.todo)
             v == x.added \cup {e}
             y == [x EXCEPT !.todo = q, !.added = v]
  <1>4. q \in Seq(Statement) /\ v \in SUBSET ProductEvent /\ s.job \in Job
    <2>1. s.job \in Job
      BY <1>2, <1>3 DEF Shape
    <2>2. ledger.next \in Nat /\ s.ended \in BOOLEAN
      BY <1>2 DEF EventsTypeOK, Statement
    <2>3. e \in ProductEvent
      BY <2>1, <2>2 DEF ProductEvent
    <2> HIDE DEF e, s, x
    <2> QED BY <1>1, <1>2, <2>1, <2>3 DEF Transaction
  <1>5. tx'[t] = y
    <2>1. Proceed(t, y)
      BY DEF Insert, Rest, Now
    <2> HIDE DEF y
    <2> QED BY <2>1, Proceeds DEF EventsTypeOK
  <1>6. /\ y \in Transaction /\ y.todo = q /\ y.added = v
        /\ y.kind = x.kind /\ y.job = x.job /\ y.held = x.held
        /\ y.dropped = x.dropped /\ y.closed = x.closed /\ y.deleted = x.deleted
        /\ y.skipped = x.skipped
    <2>1. x \in Transaction
      BY <1>1
    <2> HIDE DEF x, s, q, v
    <2> QED BY ONLY <2>1, <1>4, y = [x EXCEPT !.todo = q, !.added = v] DEF Transaction
  <1> HIDE DEF y
  <1>7. /\ Has(x, LedgerRow)
        /\ s.ended => /\ s.job \in x.closed /\ x.kind \in Closers
                      /\ \A d \in x.added : ~(d.ended /\ d.of = s.job)
    <2>1. LedgerRow \in RowsOf(s) /\ Mark(s.job) \in RowsOf(s)
      BY DEF RowsOf
    <2>2. LedgerRow # Mark(s.job)
      BY DEF LedgerRow, Mark
    <2>3. Has(x, LedgerRow)
      <3> HIDE DEF x, s
      <3> QED BY <1>3, <2>1, <2>2 DEF Wants
    <2>4. ~Has(x, Mark(s.job))
      BY <1>1 DEF Has, Mark, Transaction, Row
    <2>5. s.ended => s.job \in x.closed
      <3> HIDE DEF x, s
      <3> QED BY <1>3, <2>1, <2>4 DEF Wants
    <2>6. s.ended => Ends(s, s.job)
      BY DEF Ends
    <2>7. s.ended => /\ x.kind \in Closers
                     /\ \A d \in x.added : ~(d.ended /\ d.of = s.job)
      <3> HIDE DEF x
      <3> QED BY <1>1, <1>4, <2>6, HeadIs
    <2> QED BY <2>3, <2>5, <2>7
  <1>8. Effects(y)
    <2>1. Effects(x)
      BY <1>1 DEF Local
    <2>2. e.of = s.job /\ e.ended = s.ended
      OBVIOUS
    <2>3. x.dropped # {} => \E m \in Mode : <<LedgerRow, m>> \in x.held
      BY <1>3, <2>1 DEF Effects
    <2>4. \A d \in v : d.ended => d.of \in x.closed /\ x.kind \in Closers
      <3> HIDE DEF x, s, e
      <3> QED BY <1>7, <2>1, <2>2 DEF Effects
    <2>5. \A c, d \in v : c.of = d.of /\ c.ended /\ d.ended => c = d
      <3> HIDE DEF x, s, e
      <3> QED BY <1>7, <2>1, <2>2 DEF Effects
    <2> HIDE DEF x, s, e, q, v
    <2> QED BY <1>6, <1>7, <2>1, <2>3, <2>4, <2>5 DEF Effects, Has
  <1>9. \A j \in Job \cup {0} : \A row : ~Gives(s, j, row)
    BY <1>3 DEF Gives
  <1>10. \A d \in y.added : d \in x.added \/ ~d.ended \/ Ends(s, d.of)
    <2>1. e.of = s.job /\ e.ended = s.ended
      OBVIOUS
    <2>2. y.added = x.added \cup {e}
      BY <1>6
    <2> HIDE DEF x, s, e
    <2> QED BY <2>1, <2>2 DEF Ends
  <1>11. y.todo = Tail(x.todo)
    BY <1>6
  <1> HIDE DEF x, q, v
  <1>12. Local(y)
    BY <1>1, <1>6, <1>8, <1>9, <1>10, <1>11, LocalPops
  <1>13. NoInsert(y)
    BY <1>1, <1>3, <1>11, InsertsPop DEF Local, s
  <1> QED BY <1>5, <1>6, <1>12, <1>13

(* Closing an analysis keeps it, for the row is locked.                    *)
LEMMA CloseJobLocal ==
    ASSUME EventsTypeOK, NEW t \in DOMAIN tx, Local(tx[t]), CloseJob(t)
    PROVE  tx'[t] \in Transaction /\ Local(tx'[t]) /\ NoInsert(tx'[t])
  <1> DEFINE x == tx[t]
             s == Head(x.todo)
  <1>1. x \in Transaction /\ x.todo # <<>> /\ Local(x)
    BY DEF EventsTypeOK, CloseJob, Goes, Running
  <1>2. /\ s \in Statement /\ Shape(s) /\ Tail(x.todo) \in Seq(Statement)
        /\ x.kind \in Closers => OwnLock(s)
        /\ s.rows \in SUBSET Row /\ s.job \in Job \cup {0}
    <2>1. /\ s \in Statement /\ Shape(s) /\ Tail(x.todo) \in Seq(Statement)
          /\ x.kind \in Closers => OwnLock(s)
      BY <1>1, HeadIs
    <2> HIDE DEF s, x
    <2> QED BY <2>1 DEF Statement
  <1>3. /\ s.do = "close" /\ ~Trigger(s)
        /\ s.job \notin x.skipped
        /\ \A row \in RowsOf(s) : Wants(s, s.job, row) =>
              Has(x, row) \/ (s.job \in x.closed /\ row = Mark(s.job))
    <2>1. s.do = "close" /\ Running(t) /\ ~Stale(t)
      BY DEF CloseJob, Goes, Now
    <2> QED BY <2>1, HeadHas DEF Now, Trigger
  <1> DEFINE q == Tail(x.todo)
             v == x.closed \cup {s.job}
             y == [x EXCEPT !.todo = q, !.closed = v]
  <1>4. q \in Seq(Statement) /\ v \in SUBSET Job /\ s.job \in Job
    <2>1. s.job \in Job
      BY <1>2, <1>3 DEF Shape
    <2> HIDE DEF s, x
    <2> QED BY <1>1, <1>2, <2>1 DEF Transaction
  <1>5. tx'[t] = y
    <2>1. Proceed(t, y)
      BY DEF CloseJob, Rest, Now
    <2> HIDE DEF y
    <2> QED BY <2>1, Proceeds DEF EventsTypeOK
  <1>6. /\ y \in Transaction /\ y.todo = q /\ y.closed = v
        /\ y.kind = x.kind /\ y.job = x.job /\ y.held = x.held
        /\ y.added = x.added /\ y.dropped = x.dropped /\ y.deleted = x.deleted
        /\ y.skipped = x.skipped
    <2>1. x \in Transaction
      BY <1>1
    <2> HIDE DEF x, s, q, v
    <2> QED BY ONLY <2>1, <1>4, y = [x EXCEPT !.todo = q, !.closed = v] DEF Transaction
  <1> HIDE DEF y
  <1>7. Has(x, JobRow(s.job))
    <2>1. JobRow(s.job) \in RowsOf(s)
      BY DEF RowsOf
    <2>2. JobRow(s.job) # Mark(s.job)
      BY DEF JobRow, Mark
    <2> HIDE DEF x, s
    <2> QED BY <1>3, <2>1, <2>2 DEF Wants
  <1>8. Effects(y)
    <2>1. Effects(x)
      BY <1>1 DEF Local
    <2>2. x.dropped # {} => \E m \in Mode : <<LedgerRow, m>> \in x.held
      BY <1>3, <2>1 DEF Effects
    <2> HIDE DEF x, s, q
    <2> QED BY <1>6, <1>7, <2>1, <2>2 DEF Effects, Has
  <1>9. ASSUME NEW j \in Job \cup {0}, NEW row, Gives(s, j, row)
        PROVE  Granted(y, j, row)
    <2>1. j = s.job /\ row = Mark(j)
      BY <1>3, <1>9 DEF Gives
    <2>2. s.job \in y.closed
      BY <1>6
    <2> QED BY <2>1, <2>2 DEF Granted
  <1>10. \A d \in y.added : d \in x.added
    BY <1>6
  <1>11. y.todo = Tail(x.todo)
    BY <1>6
  <1>13. x.closed \subseteq y.closed
    BY <1>6
  <1> HIDE DEF x, q, v
  <1>12. Local(y)
    BY <1>1, <1>6, <1>8, <1>9, <1>10, <1>11, <1>13, LocalPops
  <1>14. NoInsert(y)
    BY <1>1, <1>3, <1>11, InsertsPop DEF Local, s
  <1> QED BY <1>5, <1>6, <1>12, <1>14

(* Taking one row of a lock keeps it: what the lock was to give is had, or *)
(* is in the rest of the lock.                                             *)
LEMMA TakeLocal ==
    ASSUME EventsTypeOK, NEW t \in DOMAIN tx, Local(tx[t]), Take(t)
    PROVE  tx'[t] \in Transaction /\ Local(tx'[t])
  <1> DEFINE x == tx[t]
             s == Head(x.todo)
  <1>1. x \in Transaction /\ x.todo # <<>> /\ Local(x)
    BY DEF EventsTypeOK, Take, Goes, Running
  <1>2. /\ s \in Statement /\ Shape(s) /\ Tail(x.todo) \in Seq(Statement)
        /\ x.kind \in Closers => OwnLock(s)
        /\ s.rows \in SUBSET Row /\ s.job \in Job \cup {0}
    <2>1. /\ s \in Statement /\ Shape(s) /\ Tail(x.todo) \in Seq(Statement)
          /\ x.kind \in Closers => OwnLock(s)
      BY <1>1, HeadIs
    <2> HIDE DEF s, x
    <2> QED BY <2>1 DEF Statement
  <1>3. /\ s.do = "lock"
        /\ s.job \notin x.skipped
        /\ \A row \in RowsOf(s) : Wants(s, s.job, row) =>
              Has(x, row) \/ (s.job \in x.closed /\ row = Mark(s.job))
    <2>1. s.do = "lock" /\ Running(t) /\ ~Stale(t)
      BY DEF Take, Goes, Now
    <2> QED BY <2>1, HeadHas DEF Now
  <1>4. PICK row \in s.rows :
          LET rows == s.rows \ {row}
              left == IF rows = {} THEN Tail(x.todo)
                      ELSE <<[s EXCEPT !.rows = rows]>> \o Tail(x.todo)
          IN  Proceed(t, [x EXCEPT !.todo = left,
                                   !.held = x.held \cup {<<row, s.mode>>}])
    BY DEF Take, Now, Rest
  <1> DEFINE rows == s.rows \ {row}
             a == [s EXCEPT !.rows = rows]
             new == IF rows = {} THEN <<>> ELSE <<a>>
             q == IF rows = {} THEN Tail(x.todo) ELSE <<a>> \o Tail(x.todo)
             v == x.held \cup {<<row, s.mode>>}
             y == [x EXCEPT !.todo = q, !.held = v]
  <1>5. /\ a \in Statement /\ a.do = "lock" /\ a.job = s.job /\ a.rows = rows
        /\ a.mode = s.mode /\ a.ended = s.ended /\ s.ended = FALSE
        /\ s.mode \in Mode
    <2>1. rows \in SUBSET Row
      BY <1>2
    <2>2. s.ended = FALSE
      BY <1>2, <1>3 DEF Shape, Statement
    <2> HIDE DEF s, rows
    <2> QED BY <1>2, <1>3, <2>1, <2>2 DEF Statement
  <1>6. q = new \o Tail(x.todo) /\ new \in Seq(Statement) /\ q \in Seq(Statement)
    <2> DEFINE r == Tail(x.todo)
    <2>1. r \in Seq(Statement)
      BY <1>2
    <2> HIDE DEF a, s, x, rows, r
    <2>2. CASE rows = {}
      <3>1. new = <<>> /\ q = r
        BY <2>2 DEF r
      <3> HIDE DEF new, q
      <3> QED BY <2>1, <3>1 DEF r
    <2>3. CASE rows # {}
      <3>1. new = <<a>> /\ q = <<a>> \o r
        BY <2>3 DEF r
      <3> HIDE DEF new, q
      <3> QED BY <1>5, <2>1, <3>1 DEF r
    <2> QED BY <2>2, <2>3
  <1>7. v \in SUBSET (Row \X Mode)
    <2>1. row \in Row
      BY <1>2, <1>4
    <2> HIDE DEF s
    <2> QED BY <1>1, <1>5, <2>1 DEF Transaction
  <1>8. tx'[t] = y
    <2>1. Proceed(t, y)
      BY <1>4
    <2> HIDE DEF y
    <2> QED BY <2>1, Proceeds DEF EventsTypeOK
  <1>9. /\ y \in Transaction /\ y.todo = q /\ y.held = v
        /\ y.kind = x.kind /\ y.job = x.job /\ y.added = x.added
        /\ y.dropped = x.dropped /\ y.closed = x.closed /\ y.deleted = x.deleted
        /\ y.skipped = x.skipped
    <2>1. x \in Transaction
      BY <1>1
    <2> HIDE DEF x, s, q, v
    <2> QED BY ONLY <2>1, <1>6, <1>7, y = [x EXCEPT !.todo = q, !.held = v]
            DEF Transaction
  <1> HIDE DEF y
  <1>10. x.held \subseteq y.held /\ <<row, s.mode>> \in y.held
    BY <1>9
  <1>11. Effects(y)
    <2>1. Effects(x)
      BY <1>1 DEF Local
    <2>2. x.dropped # {} => \E m \in Mode : <<LedgerRow, m>> \in y.held
      <3>1. Trigger(s) => row = LedgerRow
        BY <1>4 DEF Trigger
      <3> HIDE DEF s, x
      <3> QED BY <1>5, <1>10, <2>1, <3>1 DEF Effects, s
    <2> HIDE DEF x, s, q, v
    <2> QED BY <1>9, <1>10, <2>1, <2>2 DEF Effects, Has
  <1>12. ASSUME NEW j \in Job \cup {0}, NEW r, Gives(s, j, r), ~Granted(y, j, r)
         PROVE  rows # {} /\ Gives(a, j, r)
    <2>1. s.mode = "update" /\ j = s.job /\ r \in s.rows
      BY <1>3, <1>12 DEF Gives
    <2>2. r # row
      BY <1>10, <1>12, <2>1 DEF Granted, Has
    <2>3. r \in rows
      BY <2>1, <2>2
    <2> HIDE DEF s, rows, a
    <2> QED BY <1>5, <2>1, <2>3 DEF Gives
  <1>13. Fits(x, y, new)
    <2>1. \A i \in 1..Len(new) : new[i] = a /\ i = 1
      <3> HIDE DEF a, rows
      <3> QED OBVIOUS
    <2>2. rows # {} => 1 \in 1..Len(new) /\ new[1] = a
      <3> HIDE DEF a, rows
      <3> QED OBVIOUS
    <2>3. Shape(a)
      <3> HIDE DEF a, s
      <3> QED BY <1>5 DEF Shape
    <2>4. OwnLock(s) => OwnLock(a)
      <3>1. rows \subseteq s.rows
        OBVIOUS
      <3> HIDE DEF a, s, rows
      <3> QED BY <1>3, <1>5, <3>1 DEF OwnLock
    <2>5. /\ \A j \in Job \cup {0} : \A r : ~Wants(a, j, r)
          /\ \A j \in Job : ~Ends(a, j)
      <3> HIDE DEF a, s
      <3> QED BY <1>5 DEF Wants, Ends
    <2>6. \A d \in y.added : d \in x.added
      BY <1>9
    <2>7. \A j \in Job \cup {0} : \A r : Gives(Head(x.todo), j, r) =>
             Granted(y, j, r) \/ \E k \in 1..Len(new) : Gives(new[k], j, r)
      <3> HIDE DEF a, rows, new
      <3> QED BY <1>12, <2>2
    <2> HIDE DEF x, a, new, rows
    <2> QED BY <1>2, <1>5, <2>1, <2>3, <2>4, <2>5, <2>6, <2>7 DEF Fits
  <1>14. y.todo = new \o Tail(x.todo)
    BY <1>6, <1>9
  <1> HIDE DEF x, new, q, v
  <1>15. Local(y)
    BY <1>1, <1>6, <1>9, <1>10, <1>11, <1>13, <1>14, LocalMoves
  <1> QED BY <1>8, <1>9, <1>15

(* Steps that delete events, before other ones.                            *)
DeletesThen(new, rest, l, d) ==
    \A i \in 1..Len(new) :
       \/ /\ i \in {1, 2} /\ i <= Len(new) - Len(rest)
          /\ new[1] = l /\ (i = 2 => new[2] = d)
       \/ \E k \in 1..Len(rest) :
             new[i] = rest[k] /\ i = k + (Len(new) - Len(rest))

(* A deletion and what follows it, step by step.                           *)
LEMMA Deletes ==
    ASSUME NEW j \in Job \cup {0}, NEW S \in SUBSET ProductEvent,
           NEW rest \in Seq(Statement), NEW new, new = Deletion(j, S) \o rest,
           NEW l, l = Lock(j, EventRows(S), "update"),
           NEW d, d = Step("drop", j, EventRows(S))
    PROVE  /\ new \in Seq(Statement)
           /\ DeletesThen(new, rest, l, d)
           /\ Len(rest) \in Nat /\ Len(new) \in Nat
           /\ S = {} => Len(new) = Len(rest)
           /\ S # {} => Len(new) = Len(rest) + 2
  <1> DEFINE rows == EventRows(S)
  <1>1. rows \in SUBSET Row /\ l = Lock(j, rows, "update") /\ d = Step("drop", j, rows)
    BY RowTypes DEF EventRows
  <1>2. l \in Statement /\ d \in Statement
    <2> HIDE DEF rows
    <2>1. l \in Statement
      BY <1>1, LockTypes DEF Mode
    <2>2. d \in Statement
      BY <1>1, StepTypes DEF Does
    <2> QED BY <2>1, <2>2
  <1>3. CASE S = {}
    <2>1. new = <<>> \o rest
      BY <1>3 DEF Deletion
    <2>2. new = rest
      BY <2>1
    <2>3. \A i \in 1..Len(new) : i \in 1..Len(rest) /\ i = i + (Len(new) - Len(rest))
      BY <2>2
    <2>4. Len(rest) \in Nat /\ Len(new) = Len(rest)
      BY <2>2
    <2>5. \A i \in 1..Len(new) : \E k \in 1..Len(rest) :
             new[i] = rest[k] /\ i = k + (Len(new) - Len(rest))
      BY ONLY <2>2, <2>3
    <2>6. DeletesThen(new, rest, l, d)
      BY <2>5 DEF DeletesThen
    <2> QED BY <1>3, <2>2, <2>4, <2>6
  <1>4. CASE S # {}
    <2>1. new = <<l, d>> \o rest
      BY <1>4 DEF Deletion
    <2>2. /\ new \in Seq(Statement) /\ Len(new) = Len(rest) + 2
          /\ Len(rest) \in Nat /\ new[1] = l /\ new[2] = d
          /\ \A i \in 3..Len(new) : new[i] = rest[i - 2]
      BY <1>2, <2>1
    <2>3. ASSUME NEW i \in 1..Len(new), i \notin {1, 2}
          PROVE  \E k \in 1..Len(rest) :
                       new[i] = rest[k] /\ i = k + (Len(new) - Len(rest))
      <3>1. i \in 3..Len(new) /\ i - 2 \in 1..Len(rest)
        BY <2>2, <2>3
      <3> QED BY <2>2, <3>1
    <2> QED BY <1>4, <2>2, <2>3 DEF DeletesThen
  <1> QED BY <1>3, <1>4

(* What the two steps of a deletion rely on and give.                      *)
LEMMA DeletionIs ==
    ASSUME NEW j \in Job \cup {0}, NEW S
    PROVE  LET rows == EventRows(S)
               l == Lock(j, rows, "update")
               d == Step("drop", j, rows)
           IN  /\ Shape(l) /\ OwnLock(l) /\ Shape(d) /\ OwnLock(d)
               /\ l.do = "lock" /\ d.do = "drop" /\ l.job = j /\ d.job = j
               /\ \A i, row : ~Wants(l, i, row)
               /\ \A i, row : Wants(d, i, row) => Gives(l, i, row)
               /\ \A i : ~Ends(l, i) /\ ~Ends(d, i)
  <1> DEFINE rows == EventRows(S)
             l == Lock(j, rows, "update")
             d == Step("drop", j, rows)
  <1>1. \A row \in rows : row[1] = "event"
    BY DEF EventRow, EventRows
  <1>2. /\ l.do = "lock" /\ l.job = j /\ l.rows = rows /\ l.mode = "update"
        /\ l.ended = FALSE
        /\ d.do = "drop" /\ d.job = j /\ d.rows = rows /\ d.ended = FALSE
    BY DEF Lock, Step, Make
  <1> HIDE DEF l, d, rows
  <1>3. Shape(l) /\ OwnLock(l) /\ Shape(d) /\ OwnLock(d)
    BY <1>1, <1>2 DEF Shape, OwnLock
  <1>4. /\ \A i, row : ~Wants(l, i, row)
        /\ \A i, row : Wants(d, i, row) => Gives(l, i, row)
        /\ \A i : ~Ends(l, i) /\ ~Ends(d, i)
    BY <1>2 DEF Wants, Gives, Ends
  <1> QED BY <1>2, <1>3, <1>4 DEF l, d, rows

(* Before an insertion the oldest events are deleted, and that keeps it.   *)
LEMMA TrimLocal ==
    ASSUME EventsTypeOK, NEW t \in DOMAIN tx, Local(tx[t]), Trim(t)
    PROVE  tx'[t] \in Transaction /\ Local(tx'[t])
  <1> DEFINE x == tx[t]
             s == Head(x.todo)
  <1>1. x \in Transaction /\ x.todo # <<>> /\ Local(x)
    BY DEF EventsTypeOK, Trim, Goes, Running
  <1>2. /\ s \in Statement /\ Shape(s) /\ Tail(x.todo) \in Seq(Statement)
        /\ x.kind \in Closers => OwnLock(s)
        /\ s.rows \in SUBSET Row /\ s.job \in Job \cup {0}
    <2>1. /\ s \in Statement /\ Shape(s) /\ Tail(x.todo) \in Seq(Statement)
          /\ x.kind \in Closers => OwnLock(s)
      BY <1>1, HeadIs
    <2> HIDE DEF s, x
    <2> QED BY <2>1 DEF Statement
  <1>3. /\ s.do = "record" /\ ~Trigger(s)
        /\ s.job \notin x.skipped
        /\ \A row \in RowsOf(s) : Wants(s, s.job, row) =>
              Has(x, row) \/ (s.job \in x.closed /\ row = Mark(s.job))
    <2>1. s.do = "record" /\ Running(t) /\ ~Stale(t)
      BY DEF Trim, Goes, Now
    <2> QED BY <2>1, HeadHas DEF Now, Trigger
  <1> DEFINE S == Oldest(Seen(t), Count(t) - EventLimit + 1)
             a == [s EXCEPT !.do = "insert"]
             del == Deletion(s.job, S)
             new == del \o <<a>>
             q == new \o Tail(x.todo)
             y == [x EXCEPT !.todo = q]
             rows == EventRows(S)
             l == Lock(s.job, rows, "update")
             d == Step("drop", s.job, rows)
  <1>4. /\ a \in Statement /\ a.do = "insert" /\ a.job = s.job /\ a.ended = s.ended
        /\ s.job \in Job /\ S \in SUBSET ProductEvent
    <2>1. S \subseteq ProductEvent
      BY <1>1 DEF EventsTypeOK, Transaction, Seen, Oldest
    <2>2. s.job \in Job
      BY <1>2, <1>3 DEF Shape
    <2> HIDE DEF s, S
    <2> QED BY <1>2, <1>3, <2>1, <2>2 DEF Statement
  <1>5. tx'[t] = y
    <2>1. Proceed(t, y)
      BY DEF Trim, Rest, Now
    <2> HIDE DEF y
    <2> QED BY <2>1, Proceeds DEF EventsTypeOK
  <1>7. /\ new \in Seq(Statement) /\ q \in Seq(Statement)
        /\ \A i \in 1..Len(new) :
              \/ i < Len(new) /\ i = 1 /\ new[1] = l
              \/ i < Len(new) /\ i = 2 /\ new[1] = l /\ new[2] = d
              \/ i = Len(new) /\ new[i] = a
        /\ Len(new) \in Nat
    <2> DEFINE r == <<a>>
               tl == Tail(x.todo)
    <2>1. r \in Seq(Statement) /\ Len(r) = 1 /\ r[1] = a /\ tl \in Seq(Statement)
      <3> HIDE DEF a, s
      <3> QED BY <1>2, <1>4
    <2>2. new = Deletion(s.job, S) \o r
      OBVIOUS
    <2>3. /\ s.job \in Job \cup {0}
          /\ l = Lock(s.job, EventRows(S), "update")
          /\ d = Step("drop", s.job, EventRows(S))
      BY <1>4
    <2> HIDE DEF new, r, s, S, a, l, d, tl
    <2>4. /\ new \in Seq(Statement)
          /\ DeletesThen(new, r, l, d) /\ Len(new) \in Nat
      BY <1>4, <2>1, <2>2, <2>3, Deletes, ZenonT(90)
    <2>5. \A i \in 1..Len(new) :
              \/ i < Len(new) /\ i = 1 /\ new[1] = l
              \/ i < Len(new) /\ i = 2 /\ new[1] = l /\ new[2] = d
              \/ i = Len(new) /\ new[i] = a
      BY <2>1, <2>4 DEF DeletesThen
    <2>6. new \o tl \in Seq(Statement)
      BY <2>1, <2>4
    <2> QED BY <2>4, <2>5, <2>6 DEF tl
  <1> HIDE DEF new
  <1>6. /\ y \in Transaction /\ y.todo = q
        /\ y.kind = x.kind /\ y.job = x.job /\ y.held = x.held
        /\ y.added = x.added /\ y.dropped = x.dropped /\ y.closed = x.closed
        /\ y.deleted = x.deleted /\ y.skipped = x.skipped
    <2>1. x \in Transaction
      BY <1>1
    <2> HIDE DEF x, s, q
    <2> QED BY ONLY <2>1, <1>7, y = [x EXCEPT !.todo = q] DEF Transaction
  <1> HIDE DEF y
  <1>8. Effects(y)
    <2>1. Effects(x)
      BY <1>1 DEF Local
    <2> HIDE DEF x, s, q
    <2> QED BY <1>3, <1>6, <2>1 DEF Effects, Has, s
  <1>9. Fits(x, y, new)
    <2>1. /\ Shape(l) /\ OwnLock(l) /\ Shape(d) /\ OwnLock(d)
          /\ l.do = "lock" /\ d.do = "drop" /\ l.job = s.job /\ d.job = s.job
          /\ \A i, row : ~Wants(l, i, row)
          /\ \A i, row : Wants(d, i, row) => Gives(l, i, row)
          /\ \A i : ~Ends(l, i) /\ ~Ends(d, i)
      <3>1. s.job \in Job \cup {0}
        BY <1>4
      <3> HIDE DEF s, S
      <3> QED BY <3>1, DeletionIs
    <2>2. /\ Shape(a) /\ OwnLock(a)
          /\ \A j, row : Wants(a, j, row) => j = s.job /\ row \in RowsOf(s) /\ Wants(s, j, row)
          /\ \A j : Ends(a, j) => Ends(s, j)
      <3> HIDE DEF a, s
      <3> QED BY <1>3, <1>4 DEF Shape, OwnLock, Wants, Ends, RowsOf
    <2>3. \A j, row : ~Gives(s, j, row)
      BY <1>3 DEF Gives
    <2>4. \A row \in RowsOf(s) : Wants(s, s.job, row) => Granted(y, s.job, row)
      <3> HIDE DEF s, x
      <3> QED BY <1>3, <1>6 DEF Granted, Has
    <2>5. y.added = x.added
      BY <1>6
    <2> HIDE DEF x, s, a, l, d
    <2>6. \A i \in 1..Len(new) : Shape(new[i]) /\ OwnLock(new[i])
      BY <1>7, <2>1, <2>2
    <2>7. ASSUME NEW i \in 1..Len(new), NEW j \in Job \cup {0},
                 NEW row \in RowsOf(new[i]), Wants(new[i], j, row)
          PROVE  Granted(y, j, row) \/ \E k \in 1..i-1 : Gives(new[k], j, row)
      <3>1. CASE i = 1 /\ new[1] = l
        BY <2>1, <2>7, <3>1
      <3>2. CASE i = 2 /\ new[1] = l /\ new[2] = d
        <4>1. 1 \in 1..i-1
          BY <3>2
        <4> QED BY <2>1, <2>7, <3>2, <4>1
      <3>3. CASE new[i] = a
        BY <2>2, <2>4, <2>7, <3>3
      <3> QED BY <1>7, <3>1, <3>2, <3>3
    <2>8. ASSUME NEW i \in 1..Len(new), new[i].do = "insert", NEW k \in 1..i-1
          PROVE  /\ new[k].do \in {"lock", "drop"}
                 /\ new[k].do = "drop" => new[k].job = new[i].job
      <3>1. k \in 1..Len(new) /\ k < Len(new)
        BY <1>7, <2>8
      <3>2. new[i] = a
        BY <1>7, <2>1, <2>8
      <3>3. new[k] = l \/ new[k] = d
        BY <1>7, <3>1
      <3> QED BY <1>4, <2>1, <3>2, <3>3
    <2>9. ASSUME NEW i \in 1..Len(new), NEW j \in Job, Ends(new[i], j)
          PROVE  Ends(s, j) /\ \A k \in 1..Len(new) : k # i => ~Ends(new[k], j)
      <3>1. i = Len(new) /\ new[i] = a
        BY <1>7, <2>1, <2>9
      <3>2. ASSUME NEW k \in 1..Len(new), k # i PROVE ~Ends(new[k], j)
        BY <1>7, <2>1, <3>1, <3>2
      <3> QED BY <2>2, <2>9, <3>1, <3>2
    <2>10. s.do \notin {"lock", "drop"}
      BY <1>3
    <2> QED BY <2>3, <2>5, <2>6, <2>7, <2>8, <2>9, <2>10, <1>3 DEF Fits, s
  <1>10. y.todo = new \o Tail(x.todo)
    BY <1>6
  <1> HIDE DEF x, q
  <1>11. Local(y)
    BY <1>1, <1>6, <1>7, <1>8, <1>9, <1>10, LocalMoves
  <1> QED BY <1>5, <1>6, <1>11

(* Deletions, and then further steps of the same kind.                     *)
LEMMA FitsDeletion ==
    ASSUME NEW x \in Transaction, NEW y \in Transaction, x.todo # <<>>,
           NEW job \in Job \cup {0}, NEW S \in SUBSET ProductEvent,
           NEW r \in Seq(Statement), NEW new, new = Deletion(job, S) \o r,
           y.added = x.added,
           Head(x.todo).do \in {"cascade", "discard"},
           \A i \in 1..Len(r) :
              /\ Shape(r[i]) /\ OwnLock(r[i]) /\ r[i].do = "cascade"
              /\ ~r[i].ended
              /\ \A j \in Job \cup {0} : \A row \in RowsOf(r[i]) :
                    Wants(r[i], j, row) => Granted(y, j, row)
    PROVE  new \in Seq(Statement) /\ Fits(x, y, new)
  <1> DEFINE l == Lock(job, EventRows(S), "update")
             d == Step("drop", job, EventRows(S))
  <1>1. /\ new \in Seq(Statement) /\ DeletesThen(new, r, l, d)
        /\ Len(r) \in Nat /\ Len(new) \in Nat
    BY Deletes
  <1>2. /\ Shape(l) /\ OwnLock(l) /\ Shape(d) /\ OwnLock(d)
        /\ l.do = "lock" /\ d.do = "drop" /\ l.job = job /\ d.job = job
        /\ \A i, row : ~Wants(l, i, row)
        /\ \A i, row : Wants(d, i, row) => Gives(l, i, row)
        /\ \A i : ~Ends(l, i) /\ ~Ends(d, i)
    BY DeletionIs
  <1> HIDE DEF l, d
  <1>3. \A i \in 1..Len(new) :
           \/ i = 1 /\ new[i] = l
           \/ i = 2 /\ new[1] = l /\ new[i] = d
           \/ \E k \in 1..Len(r) : new[i] = r[k]
    BY <1>1 DEF DeletesThen
  <1>4. \A k \in 1..Len(r) : \A j : ~Ends(r[k], j)
    BY DEF Ends
  <1>5. \A i \in 1..Len(new) :
           /\ Shape(new[i]) /\ OwnLock(new[i]) /\ new[i].do # "insert"
           /\ \A j : ~Ends(new[i], j)
    BY <1>2, <1>3, <1>4
  <1>6. ASSUME NEW i \in 1..Len(new), NEW j \in Job \cup {0},
               NEW row \in RowsOf(new[i]), Wants(new[i], j, row)
        PROVE  Granted(y, j, row) \/ \E k \in 1..i-1 : Gives(new[k], j, row)
    <2>1. CASE i = 1 /\ new[i] = l
      BY <1>2, <1>6, <2>1
    <2>2. CASE i = 2 /\ new[1] = l /\ new[i] = d
      <3>1. 1 \in 1..i-1
        BY <2>2
      <3> QED BY <1>2, <1>6, <2>2, <3>1
    <2>3. CASE \E k \in 1..Len(r) : new[i] = r[k]
      BY <1>6, <2>3
    <2> QED BY <1>3, <2>1, <2>2, <2>3
  <1>7. \A j, row : ~Gives(Head(x.todo), j, row)
    BY DEF Gives
  <1> QED BY <1>1, <1>5, <1>6, <1>7 DEF Fits

(* The cascade from one analysis to its events keeps it.                   *)
LEMMA CascadeEventsLocal ==
    ASSUME EventsTypeOK, NEW t \in DOMAIN tx, Local(tx[t]), CascadeEvents(t)
    PROVE  tx'[t] \in Transaction /\ Local(tx'[t]) /\ NoInsert(tx'[t])
  <1> DEFINE x == tx[t]
             s == Head(x.todo)
  <1>1. x \in Transaction /\ x.todo # <<>> /\ Local(x)
    BY DEF EventsTypeOK, CascadeEvents, Goes, Running
  <1>2. /\ s \in Statement /\ Shape(s) /\ Tail(x.todo) \in Seq(Statement)
        /\ x.kind \in Closers => OwnLock(s)
        /\ s.rows \in SUBSET Row /\ s.job \in Job \cup {0}
    <2>1. /\ s \in Statement /\ Shape(s) /\ Tail(x.todo) \in Seq(Statement)
          /\ x.kind \in Closers => OwnLock(s)
      BY <1>1, HeadIs
    <2> HIDE DEF s, x
    <2> QED BY <2>1 DEF Statement
  <1>3. /\ s.do = "cascade" /\ ~Trigger(s)
        /\ s.job \notin x.skipped
        /\ \A row \in RowsOf(s) : Wants(s, s.job, row) =>
              Has(x, row) \/ (s.job \in x.closed /\ row = Mark(s.job))
    <2>1. s.do = "cascade" /\ Running(t) /\ ~Stale(t)
      BY DEF CascadeEvents, Goes, Now
    <2> QED BY <2>1, HeadHas DEF Now, Trigger
  <1>4. PICK row \in s.rows :
          Proceed(t, [x EXCEPT
             !.todo = Deletion(s.job, {e \in Seen(t) : e.of = row[2]})
                      \o Through("cascade", s.job, s.rows \ {row})
                      \o Tail(x.todo),
             !.deleted = x.deleted \cup {row[2]}])
    BY DEF CascadeEvents, Now, Rest
  <1> DEFINE j == row[2]
             S == {e \in Seen(t) : e.of = j}
             rows == s.rows \ {row}
             c == Step("cascade", s.job, rows)
             r == Through("cascade", s.job, rows)
             new == Deletion(s.job, S) \o r
             q == new \o Tail(x.todo)
             v == x.deleted \cup {j}
             y == [x EXCEPT !.todo = q, !.deleted = v]
  <1>5. /\ S \in SUBSET ProductEvent /\ rows \in SUBSET Row /\ rows \subseteq s.rows
        /\ r \in Seq(Statement) /\ new \in Seq(Statement) /\ q \in Seq(Statement)
        /\ \A i \in 1..Len(r) : r[i] = c
    <2>1. S \subseteq ProductEvent
      BY <1>1 DEF EventsTypeOK, Transaction, Seen
    <2>2. rows \in SUBSET Row /\ rows \subseteq s.rows
      BY <1>2
    <2>3. r \in Seq(Statement)
      <3> HIDE DEF rows, s
      <3> QED BY <1>2, <2>2, ThroughTypes DEF Does
    <2>4. \A i \in 1..Len(r) : r[i] = c
      <3>1. CASE rows = {}
        <4>1. r = <<>>
          BY <3>1 DEF Through
        <4> HIDE DEF r
        <4> QED BY <4>1
      <3>2. CASE rows # {}
        <4>1. r = <<c>>
          BY <3>2 DEF Through
        <4> HIDE DEF r, c
        <4> QED BY <4>1
      <3> QED BY <3>1, <3>2
    <2>5. Deletion(s.job, S) \in Seq(Statement)
      <3> HIDE DEF S, s
      <3> QED BY <1>2, <2>1, DeletionTypes
    <2> DEFINE del == Deletion(s.job, S)
               tl == Tail(x.todo)
    <2>6. del \in Seq(Statement) /\ tl \in Seq(Statement)
      BY <1>2, <2>5
    <2> HIDE DEF del, r, tl
    <2>7. del \o r \in Seq(Statement) /\ (del \o r) \o tl \in Seq(Statement)
      BY <2>3, <2>6
    <2> QED BY <2>1, <2>2, <2>3, <2>4, <2>7 DEF del, tl
  <1>6. j \in Job /\ row = JobRow(j) /\ v \in SUBSET Job
    <2>1. row \in JobRows
      BY <1>2, <1>3, <1>4 DEF Shape
    <2>2. j \in Job /\ row = JobRow(j)
      BY <2>1 DEF JobRows, JobRow
    <2> HIDE DEF j
    <2> QED BY <1>1, <2>2 DEF Transaction
  <1>7. tx'[t] = y
    <2>1. Proceed(t, y)
      BY <1>4
    <2> HIDE DEF y
    <2> QED BY <2>1, Proceeds DEF EventsTypeOK
  <1>8. /\ y \in Transaction /\ y.todo = q /\ y.deleted = v
        /\ y.kind = x.kind /\ y.job = x.job /\ y.held = x.held
        /\ y.added = x.added /\ y.dropped = x.dropped /\ y.closed = x.closed
        /\ y.skipped = x.skipped
    <2>1. x \in Transaction
      BY <1>1
    <2> HIDE DEF x, s, q, v
    <2> QED BY ONLY <2>1, <1>5, <1>6, y = [x EXCEPT !.todo = q, !.deleted = v]
            DEF Transaction
  <1> HIDE DEF y
  <1>9. \A rw \in s.rows : Has(x, rw)
    <2>1. \A rw \in s.rows : rw \in Row /\ rw \in RowsOf(s) /\ Wants(s, s.job, rw)
      BY <1>2, <1>3 DEF RowsOf, Wants
    <2>2. \A rw \in Row : rw # Mark(s.job)
      BY DEF Row, Mark
    <2> HIDE DEF s, x
    <2> QED BY <1>3, <2>1, <2>2
  <1>10. Effects(y)
    <2>1. Effects(x)
      BY <1>1 DEF Local
    <2>2. Has(x, JobRow(j))
      BY <1>4, <1>6, <1>9
    <2> HIDE DEF x, s, q, j
    <2> QED BY <1>3, <1>8, <2>1, <2>2 DEF Effects, Has, s
  <1>11. /\ Shape(c) /\ OwnLock(c) /\ c.do = "cascade" /\ ~c.ended
         /\ \A i \in Job \cup {0} : \A rw \in RowsOf(c) :
               Wants(c, i, rw) => Granted(y, i, rw)
    <2>1. c.do = "cascade" /\ c.job = s.job /\ c.rows = rows /\ c.ended = FALSE
      BY DEF Step, Make
    <2>2. rows \subseteq JobRows
      BY <1>2, <1>3 DEF Shape
    <2> HIDE DEF c, s, x, rows
    <2>3. Shape(c) /\ OwnLock(c)
      BY <2>1, <2>2 DEF Shape, OwnLock
    <2>4. \A i, rw : Wants(c, i, rw) => rw \in s.rows
      BY <1>5, <2>1 DEF Wants
    <2> QED BY <1>8, <1>9, <2>1, <2>3, <2>4 DEF Granted, Has
  <1>12. y.todo = new \o Tail(x.todo) /\ y.added = x.added
    BY <1>8
  <1>13. s.do \in {"cascade", "discard"} /\ new = Deletion(s.job, S) \o r
    BY <1>3
  <1> HIDE DEF x, new, q, v, S, c, r
  <1>14. Fits(x, y, new)
    BY <1>1, <1>2, <1>5, <1>8, <1>11, <1>12, <1>13, FitsDeletion
  <1>15. Local(y)
    BY <1>1, <1>5, <1>8, <1>10, <1>12, <1>14, LocalMoves
  <1>16. NoInsert(y)
    <2>1. /\ \A i \in 1..Len(new) : new[i].do # "insert"
          /\ Head(x.todo).do \notin {"lock", "drop"}
      BY <1>3, <1>14 DEF Fits, s
    <2> QED BY <1>1, <1>5, <1>12, <2>1, InsertsGone DEF Local
  <1> QED BY <1>7, <1>8, <1>15, <1>16

(* Discarding the oldest events keeps it.                                  *)
LEMMA DiscardOldLocal ==
    ASSUME EventsTypeOK, NEW t \in DOMAIN tx, Local(tx[t]), DiscardOld(t)
    PROVE  tx'[t] \in Transaction /\ Local(tx'[t]) /\ NoInsert(tx'[t])
  <1> DEFINE x == tx[t]
             s == Head(x.todo)
  <1>1. x \in Transaction /\ x.todo # <<>> /\ Local(x)
    BY DEF EventsTypeOK, DiscardOld, Goes, Running
  <1>2. /\ s \in Statement /\ Shape(s) /\ Tail(x.todo) \in Seq(Statement)
        /\ x.kind \in Closers => OwnLock(s)
        /\ s.rows \in SUBSET Row /\ s.job \in Job \cup {0}
    <2>1. /\ s \in Statement /\ Shape(s) /\ Tail(x.todo) \in Seq(Statement)
          /\ x.kind \in Closers => OwnLock(s)
      BY <1>1, HeadIs
    <2> HIDE DEF s, x
    <2> QED BY <2>1 DEF Statement
  <1>3. /\ s.do = "discard" /\ ~Trigger(s)
        /\ s.job \notin x.skipped
        /\ \A row \in RowsOf(s) : Wants(s, s.job, row) =>
              Has(x, row) \/ (s.job \in x.closed /\ row = Mark(s.job))
    <2>1. s.do = "discard" /\ Running(t) /\ ~Stale(t)
      BY DEF DiscardOld, Goes, Now
    <2> QED BY <2>1, HeadHas DEF Now, Trigger
  <1>4. PICK k \in 1..EventLimit :
          Proceed(t, [x EXCEPT !.todo =
             Deletion(0, Oldest(ledger.events, k)) \o Tail(x.todo)])
    BY DEF DiscardOld, Now, Rest
  <1> DEFINE S == Oldest(ledger.events, k)
             new == Deletion(0, S)
             q == new \o Tail(x.todo)
             y == [x EXCEPT !.todo = q]
  <1>5. /\ S \in SUBSET ProductEvent /\ new \in Seq(Statement) /\ q \in Seq(Statement)
    <2>1. S \subseteq ProductEvent
      BY DEF EventsTypeOK, Oldest
    <2>2. new \in Seq(Statement)
      <3> HIDE DEF S
      <3> QED BY <2>1, DeletionTypes
    <2> DEFINE tl == Tail(x.todo)
    <2>3. tl \in Seq(Statement)
      BY <1>2
    <2> HIDE DEF new, tl
    <2>4. new \o tl \in Seq(Statement)
      BY <2>2, <2>3
    <2> QED BY <2>1, <2>2, <2>4 DEF tl
  <1>7. tx'[t] = y
    <2>1. Proceed(t, y)
      BY <1>4
    <2> HIDE DEF y
    <2> QED BY <2>1, Proceeds DEF EventsTypeOK
  <1>8. /\ y \in Transaction /\ y.todo = q
        /\ y.kind = x.kind /\ y.job = x.job /\ y.held = x.held
        /\ y.added = x.added /\ y.dropped = x.dropped /\ y.closed = x.closed
        /\ y.deleted = x.deleted /\ y.skipped = x.skipped
    <2>1. x \in Transaction
      BY <1>1
    <2> HIDE DEF x, s, q
    <2> QED BY ONLY <2>1, <1>5, y = [x EXCEPT !.todo = q] DEF Transaction
  <1> HIDE DEF y
  <1>10. Effects(y)
    <2>1. Effects(x)
      BY <1>1 DEF Local
    <2> HIDE DEF x, s, q
    <2> QED BY <1>3, <1>8, <2>1 DEF Effects, Has, s
  <1>12. y.todo = new \o Tail(x.todo) /\ y.added = x.added
    BY <1>8
  <1>13. new = Deletion(0, S) \o <<>> /\ <<>> \in Seq(Statement) /\ Len(<<>>) = 0
    <2> HIDE DEF S
    <2>1. Deletion(0, S) \in Seq(Statement)
      BY <1>5
    <2> DEFINE del == Deletion(0, S)
    <2> HIDE DEF del
    <2>2. del = del \o <<>>
      BY <2>1 DEF del
    <2> QED BY <2>2 DEF del
  <1> DEFINE none == <<>>
  <1>14. /\ s.do \in {"cascade", "discard"} /\ none \in Seq(Statement)
         /\ new = Deletion(0, S) \o none /\ 1..Len(none) = {}
    BY <1>3, <1>13
  <1> HIDE DEF x, new, q, S, none
  <1>15. Fits(x, y, new)
    BY <1>1, <1>5, <1>8, <1>12, <1>14, FitsDeletion
  <1>16. Local(y)
    BY <1>1, <1>5, <1>8, <1>10, <1>12, <1>15, LocalMoves
  <1>17. NoInsert(y)
    <2>1. /\ \A i \in 1..Len(new) : new[i].do # "insert"
          /\ Head(x.todo).do \notin {"lock", "drop"}
      BY <1>3, <1>15 DEF Fits, s
    <2> QED BY <1>1, <1>5, <1>12, <2>1, InsertsGone DEF Local
  <1> QED BY <1>7, <1>8, <1>16, <1>17

(* An equation of its own name, for the provers.                           *)
Joined(w, p, r) == w = p \o r

(* The same, step by step.                                                 *)
Spliced(w, p, r) ==
    /\ \A i \in 1..Len(p) : w[i] = p[i]
    /\ \A i \in Len(p) + 1..Len(w) : w[i] = r[i - Len(p)]

(* Every step of r is c.                                                   *)
AllAre(r, c) == \A i \in 1..Len(r) : r[i] = c

(* Two lists joined, step by step.                                         *)
LEMMA Cat ==
    ASSUME NEW S, NEW p \in Seq(S), NEW r \in Seq(S), NEW w, Joined(w, p, r)
    PROVE  /\ w \in Seq(S) /\ Len(w) = Len(p) + Len(r)
           /\ Len(p) \in Nat /\ Len(r) \in Nat /\ Spliced(w, p, r)
  BY DEF Joined, Spliced

(* The next turn of a loop: a body, and then the loop for what is left.    *)
TurnIs(r, c, do, j, rows) ==
    /\ r \in Seq(Statement) /\ Len(r) \in {0, 1} /\ AllAre(r, c)
    /\ rows # {} => Len(r) = 1
    /\ c.do = do /\ c.job = j /\ c.rows = rows /\ c.mode = "update"
    /\ c.ended = FALSE

(* The next turn of a loop is one step, or none.                           *)
LEMMA ThroughIs ==
    ASSUME NEW do \in Does, NEW j \in Job \cup {0}, NEW rows \in SUBSET Row
    PROVE  TurnIs(Through(do, j, rows), Step(do, j, rows), do, j, rows)
  <1> DEFINE r == Through(do, j, rows)
             c == Step(do, j, rows)
  <1>1. r \in Seq(Statement)
    BY ThroughTypes
  <1>2. /\ c.do = do /\ c.job = j /\ c.rows = rows /\ c.mode = "update"
        /\ c.ended = FALSE
    BY DEF Step, Make
  <1>3. r = IF rows = {} THEN <<>> ELSE <<c>>
    BY DEF Through
  <1> HIDE DEF r, c
  <1>4. Len(r) \in {0, 1} /\ \A i \in 1..Len(r) : r[i] = c
    BY <1>3
  <1>5. rows # {} => Len(r) = 1
    BY <1>3
  <1>6. TurnIs(r, c, do, j, rows)
    BY <1>1, <1>2, <1>4, <1>5 DEF AllAre, TurnIs
  <1> QED BY <1>6 DEF r, c

(* A turn of the loop that locks the analyses of recover() fits.           *)
LEMMA FitsLocks ==
    ASSUME NEW x \in Transaction, NEW y \in Transaction,
           NEW s \in Statement, s = Head(x.todo), Shape(s), s.do = "lockEach",
           NEW j \in Job, JobRow(j) \in s.rows, y.added = x.added,
           NEW new,
           Joined(new, LockJob(j), Through("lockEach", 0, s.rows \ {JobRow(j)}))
    PROVE  new \in Seq(Statement) /\ Fits(x, y, new)
  <1> DEFINE rows == s.rows \ {JobRow(j)}
             r == Through("lockEach", 0, rows)
             c == Step("lockEach", 0, rows)
             l == Lock(j, {JobRow(j)}, "update")
  <1>1. rows \in SUBSET Row /\ rows \subseteq JobRows
    BY DEF Statement, Shape
  <1>2. /\ r \in Seq(Statement) /\ Len(r) \in {0, 1}
        /\ \A i \in 1..Len(r) : r[i] = c
        /\ rows # {} => Len(r) = 1
        /\ c.do = "lockEach" /\ c.job = 0 /\ c.rows = rows /\ c.ended = FALSE
    <2>1. "lockEach" \in Does /\ 0 \in Job \cup {0}
      BY DEF Does
    <2>2. TurnIs(r, c, "lockEach", 0, rows)
      <3> HIDE DEF rows
      <3> QED BY <1>1, <2>1, ThroughIs
    <2> HIDE DEF r, c, rows
    <2> QED BY <2>2 DEF TurnIs, AllAre
  <1>3. /\ l.do = "lock" /\ l.job = j /\ l.rows = {JobRow(j)} /\ l.mode = "update"
        /\ l.ended = FALSE
    BY DEF Lock, Make
  <1>4. l \in Statement
    BY LockTypes, RowTypes DEF Mode
  <1>5. Joined(new, <<l>>, r)
    BY DEF LockJob
  <1>6. s.rows = rows \cup {JobRow(j)}
    OBVIOUS
  <1> HIDE DEF rows, r, c, l
  <1>7. /\ new \in Seq(Statement) /\ Len(new) = 1 + Len(r) /\ Len(r) \in Nat
        /\ new[1] = l
        /\ \A i \in 2..Len(new) : new[i] = c
    <2> DEFINE p == <<l>>
    <2>1. p \in Seq(Statement) /\ Len(p) = 1 /\ p[1] = l /\ Joined(new, p, r)
      BY <1>4, <1>5
    <2> HIDE DEF p
    <2>2. /\ new \in Seq(Statement) /\ Len(new) = Len(p) + Len(r)
          /\ Len(r) \in Nat
          /\ \A i \in 1..Len(p) : new[i] = p[i]
          /\ \A i \in Len(p) + 1..Len(new) : new[i] = r[i - Len(p)]
      <3>1. /\ new \in Seq(Statement) /\ Len(new) = Len(p) + Len(r)
            /\ Len(p) \in Nat /\ Len(r) \in Nat /\ Spliced(new, p, r)
        BY <1>2, <2>1, Cat
      <3> QED BY <1>2, <2>1, <3>1 DEF Spliced
    <2>3. ASSUME NEW i \in 2..Len(new) PROVE new[i] = c
      <3>1. i - 1 \in 1..Len(r) /\ i \in Len(p) + 1..Len(new)
        BY <2>1, <2>2, <2>3
      <3> QED BY <1>2, <2>1, <2>2, <3>1
    <2> QED BY <2>1, <2>2, <2>3
  <1>8. \A i \in 1..Len(new) : new[i] = l \/ new[i] = c
    BY <1>7
  <1>9. Shape(l) /\ OwnLock(l) /\ Shape(c) /\ OwnLock(c)
    BY <1>1, <1>2, <1>3 DEF Shape, OwnLock
  <1>10. \A i, row : ~Wants(l, i, row) /\ ~Wants(c, i, row)
    BY <1>2, <1>3 DEF Wants
  <1>11. \A i : ~Ends(l, i) /\ ~Ends(c, i)
    BY <1>2, <1>3 DEF Ends
  <1>12. ASSUME NEW i \in Job \cup {0}, NEW row, Gives(s, i, row)
         PROVE  \E k \in 1..Len(new) : Gives(new[k], i, row)
    <2>1. row \in s.rows /\ row = JobRow(i)
      BY <1>12 DEF Gives
    <2>2. CASE row = JobRow(j)
      <3>1. i = j
        BY <2>1, <2>2 DEF JobRow
      <3>2. Gives(l, i, row)
        BY <1>3, <2>2, <3>1 DEF Gives
      <3> QED BY <1>7, <3>2
    <2>3. CASE row # JobRow(j)
      <3>1. row \in rows
        BY <1>6, <2>1, <2>3
      <3>2. Len(new) = 2 /\ new[2] = c
        BY <1>2, <1>7, <3>1
      <3>3. Gives(c, i, row)
        BY <1>2, <2>1, <3>1 DEF Gives
      <3> QED BY <3>2, <3>3
    <2> QED BY <2>2, <2>3
  <1>13. /\ \A i \in 1..Len(new) : new[i].do \notin {"insert"}
         /\ s.do \notin {"lock", "drop"}
    BY <1>2, <1>3, <1>8
  <1>14. /\ \A i \in 1..Len(new) : Shape(new[i]) /\ OwnLock(new[i])
         /\ \A i \in 1..Len(new) : \A k, row : ~Wants(new[i], k, row)
         /\ \A i \in 1..Len(new) : \A k : ~Ends(new[i], k)
    BY <1>8, <1>9, <1>10, <1>11
  <1> HIDE DEF l, c, r, rows
  <1> QED BY <1>7, <1>12, <1>13, <1>14 DEF Fits

(* The four steps of an end.                                               *)
LEMMA EndIs ==
    ASSUME NEW j \in Job
    PROVE  \E a, b, c, d \in Statement :
              /\ End(j) \in Seq(Statement) /\ Len(End(j)) = 4
              /\ End(j)[1] = a /\ End(j)[2] = b /\ End(j)[3] = c /\ End(j)[4] = d
              /\ a.do = "close" /\ a.job = j /\ a.rows = {} /\ a.ended = FALSE
              /\ b.do = "lock" /\ b.job = j /\ b.rows = {LedgerRow}
              /\ b.mode = "update" /\ b.ended = FALSE
              /\ c.do = "record" /\ c.job = j /\ c.rows = {} /\ c.ended = TRUE
              /\ d.do = "lock" /\ d.job = j /\ d.rows = {OrgRow(j), JobRow(j)}
              /\ d.mode = "share" /\ d.ended = FALSE
  <1> DEFINE a == Step("close", j, {})
             b == Lock(j, {LedgerRow}, "update")
             c == Make("record", j, {}, "update", TRUE)
             d == Lock(j, {OrgRow(j), JobRow(j)}, "share")
  <1>1. a \in Statement /\ a.do = "close" /\ a.job = j /\ a.rows = {} /\ a.ended = FALSE
    BY StepTypes DEF Does, Step, Make
  <1>2. /\ b \in Statement /\ b.do = "lock" /\ b.job = j /\ b.rows = {LedgerRow}
        /\ b.mode = "update" /\ b.ended = FALSE
    BY LockTypes, RowTypes DEF Mode, Lock, Make
  <1>3. c \in Statement /\ c.do = "record" /\ c.job = j /\ c.rows = {} /\ c.ended = TRUE
    BY MakeTypes DEF Does, Mode, Make
  <1>4. /\ d \in Statement /\ d.do = "lock" /\ d.job = j
        /\ d.rows = {OrgRow(j), JobRow(j)} /\ d.mode = "share" /\ d.ended = FALSE
    <2>1. {OrgRow(j), JobRow(j)} \in SUBSET Row
      BY RowTypes
    <2>2. d \in Statement
      BY <2>1, LockTypes DEF Mode
    <2> QED BY <2>2 DEF Lock, Make
  <1>5. End(j) = <<a>> \o <<b, c, d>>
    BY DEF End, Record
  <1> HIDE DEF a, b, c, d
  <1> DEFINE p == <<a>>
             q == <<b, c, d>>
  <1>6. /\ End(j) \in Seq(Statement) /\ Len(End(j)) = 4
        /\ End(j)[1] = a /\ End(j)[2] = b /\ End(j)[3] = c /\ End(j)[4] = d
    <2>1. p \in Seq(Statement) /\ Len(p) = 1 /\ p[1] = a
      BY <1>1
    <2>2. /\ q \in Seq(Statement) /\ Len(q) = 3
          /\ q[1] = b /\ q[2] = c /\ q[3] = d
      BY <1>2, <1>3, <1>4
    <2> DEFINE w == End(j)
    <2>3. Joined(w, p, q)
      BY <1>5 DEF Joined
    <2> HIDE DEF p, q, w
    <2>4. /\ w \in Seq(Statement) /\ Len(w) = 4
          /\ \A i \in 1..Len(p) : w[i] = p[i]
          /\ \A i \in Len(p) + 1..Len(w) : w[i] = q[i - Len(p)]
      <3>1. /\ w \in Seq(Statement) /\ Len(w) = Len(p) + Len(q)
            /\ Len(p) \in Nat /\ Len(q) \in Nat /\ Spliced(w, p, q)
        BY <2>1, <2>2, <2>3, Cat
      <3> QED BY <2>1, <2>2, <2>3, <3>1 DEF Spliced
    <2>5. w[1] = a /\ w[2] = b /\ w[3] = c /\ w[4] = d
      BY <2>1, <2>2, <2>4
    <2> QED BY <2>4, <2>5 DEF w
  <1> QED BY <1>1, <1>2, <1>3, <1>4, <1>5, <1>6

(* A turn of the loop that ends the analyses of recover() fits: it relies  *)
(* on the rows the first loop has locked.                                  *)
LEMMA FitsEnds ==
    ASSUME NEW x \in Transaction, NEW y \in Transaction,
           NEW s \in Statement, s = Head(x.todo), Shape(s), s.do = "endEach",
           NEW j \in Job, JobRow(j) \in s.rows, y.added = x.added,
           \A i \in Job \cup {0} : \A row \in RowsOf(s) :
              Wants(s, i, row) => Granted(y, i, row),
           NEW new,
           Joined(new, End(j), Through("endEach", 0, s.rows \ {JobRow(j)}))
    PROVE  new \in Seq(Statement) /\ Fits(x, y, new)
  <1> DEFINE rows == s.rows \ {JobRow(j)}
             r == Through("endEach", 0, rows)
             e == Step("endEach", 0, rows)
  <1>1. rows \in SUBSET Row /\ rows \subseteq JobRows
    BY DEF Statement, Shape
  <1>2. /\ r \in Seq(Statement) /\ Len(r) \in {0, 1}
        /\ \A i \in 1..Len(r) : r[i] = e
        /\ e.do = "endEach" /\ e.job = 0 /\ e.rows = rows /\ e.ended = FALSE
    <2>1. "endEach" \in Does /\ 0 \in Job \cup {0}
      BY DEF Does
    <2>2. TurnIs(r, e, "endEach", 0, rows)
      <3> HIDE DEF rows
      <3> QED BY <1>1, <2>1, ThroughIs
    <2> HIDE DEF r, e, rows
    <2> QED BY <2>2 DEF TurnIs, AllAre
  <1>3. PICK a, b, c, d \in Statement :
              /\ End(j) \in Seq(Statement) /\ Len(End(j)) = 4
              /\ End(j)[1] = a /\ End(j)[2] = b /\ End(j)[3] = c /\ End(j)[4] = d
              /\ a.do = "close" /\ a.job = j /\ a.rows = {} /\ a.ended = FALSE
              /\ b.do = "lock" /\ b.job = j /\ b.rows = {LedgerRow}
              /\ b.mode = "update" /\ b.ended = FALSE
              /\ c.do = "record" /\ c.job = j /\ c.rows = {} /\ c.ended = TRUE
              /\ d.do = "lock" /\ d.job = j /\ d.rows = {OrgRow(j), JobRow(j)}
              /\ d.mode = "share" /\ d.ended = FALSE
    BY EndIs
  <1>4. Joined(new, End(j), r)
    OBVIOUS
  <1>5. s.rows = rows \cup {JobRow(j)} /\ JobRow(j) \notin rows
    OBVIOUS
  <1> HIDE DEF rows, r, e
  <1>6. /\ new \in Seq(Statement) /\ Len(new) = 4 + Len(r) /\ Len(r) \in Nat
        /\ new[1] = a /\ new[2] = b /\ new[3] = c /\ new[4] = d
        /\ \A i \in 5..Len(new) : new[i] = r[i - 4]
    <2> DEFINE p == End(j)
    <2>1. /\ p \in Seq(Statement) /\ Len(p) = 4
          /\ p[1] = a /\ p[2] = b /\ p[3] = c /\ p[4] = d /\ Joined(new, p, r)
      BY <1>3, <1>4
    <2> HIDE DEF p
    <2>2. /\ new \in Seq(Statement) /\ Len(new) = Len(p) + Len(r)
          /\ Len(r) \in Nat
          /\ \A i \in 1..Len(p) : new[i] = p[i]
          /\ \A i \in Len(p) + 1..Len(new) : new[i] = r[i - Len(p)]
      <3>1. /\ new \in Seq(Statement) /\ Len(new) = Len(p) + Len(r)
            /\ Len(p) \in Nat /\ Len(r) \in Nat /\ Spliced(new, p, r)
        BY <1>2, <2>1, Cat
      <3> QED BY <1>2, <2>1, <3>1 DEF Spliced
    <2> QED BY <2>1, <2>2
  <1>7. ASSUME NEW i \in 1..Len(new)
        PROVE  \/ i = 1 /\ new[i] = a
               \/ i = 2 /\ new[i] = b
               \/ i = 3 /\ new[i] = c
               \/ i = 4 /\ new[i] = d
               \/ i = 5 /\ new[i] = e
    <2>1. CASE i \in 5..Len(new)
      <3>1. i - 4 \in 1..Len(r) /\ i = 5
        BY <1>2, <1>6, <2>1
      <3> QED BY <1>2, <1>6, <2>1, <3>1
    <2>2. CASE i = 1 \/ i = 2 \/ i = 3 \/ i = 4
      <3>1. CASE i = 1
        <4>1. new[i] = a
          BY <1>6, <3>1
        <4> QED BY <3>1, <4>1
      <3>2. CASE i = 2
        <4>1. new[i] = b
          BY <1>6, <3>2
        <4> QED BY <3>2, <4>1
      <3>3. CASE i = 3
        <4>1. new[i] = c
          BY <1>6, <3>3
        <4> QED BY <3>3, <4>1
      <3>4. CASE i = 4
        <4>1. new[i] = d
          BY <1>6, <3>4
        <4> QED BY <3>4, <4>1
      <3> QED BY <2>2, <3>1, <3>2, <3>3, <3>4
    <2>3. Len(new) \in Nat /\ i \in Nat
      BY <1>6
    <2>4. i \in 5..Len(new) \/ i = 1 \/ i = 2 \/ i = 3 \/ i = 4
      BY <2>3
    <2> QED BY <2>1, <2>2, <2>4
  <1>8. /\ Shape(a) /\ Shape(b) /\ Shape(c) /\ Shape(d) /\ Shape(e)
        /\ OwnLock(a) /\ OwnLock(b) /\ OwnLock(c) /\ OwnLock(d) /\ OwnLock(e)
    <2>1. LedgerRow[1] # "job" /\ OrgRow(j)[1] # "job"
      BY DEF LedgerRow, OrgRow
    <2> QED BY <1>1, <1>2, <1>3, <2>1 DEF Shape, OwnLock
  <1>9. ASSUME NEW i \in 1..Len(new), NEW k \in Job \cup {0},
               NEW row \in RowsOf(new[i]), Wants(new[i], k, row)
        PROVE  Granted(y, k, row) \/ \E m \in 1..i-1 : Gives(new[m], k, row)
    <2>1. CASE i = 1 /\ new[i] = a
      <3>1. k = j /\ row = JobRow(j)
        BY <1>3, <1>9, <2>1 DEF Wants
      <3>2. Wants(s, k, row) /\ row \in RowsOf(s)
        BY <3>1 DEF Wants, RowsOf
      <3> QED BY <3>2
    <2>2. CASE i = 3 /\ new[i] = c
      <3>1. k = j /\ (row = LedgerRow \/ row = Mark(j))
        BY <1>3, <1>9, <2>2 DEF Wants
      <3>2. Gives(a, k, Mark(j)) /\ Gives(b, k, LedgerRow)
        BY <1>3, <3>1 DEF Gives
      <3>3. 1 \in 1..i-1 /\ 2 \in 1..i-1
        BY <2>2
      <3> QED BY <1>6, <3>1, <3>2, <3>3
    <2>3. CASE i = 5 /\ new[i] = e
      <3>1. Wants(s, k, row) /\ row \in RowsOf(s)
        BY <1>2, <1>5, <1>9, <2>3 DEF Wants, RowsOf
      <3> QED BY <3>1
    <2>4. ~Wants(b, k, row) /\ ~Wants(d, k, row)
      BY <1>3 DEF Wants
    <2> QED BY <1>7, <1>9, <2>1, <2>2, <2>3, <2>4
  <1>10. ASSUME NEW i \in 1..Len(new), NEW k \in Job, Ends(new[i], k)
         PROVE  /\ Ends(s, k)
                /\ \A m \in 1..Len(new) : m # i => ~Ends(new[m], k)
    <2>1. ~Ends(a, k) /\ ~Ends(b, k) /\ ~Ends(d, k)
      BY <1>3 DEF Ends
    <2>2. Ends(c, k) <=> k = j
      BY <1>3 DEF Ends
    <2>3. Ends(e, k) <=> JobRow(k) \in rows
      BY <1>2 DEF Ends
    <2>4. Ends(s, k)
      <3>1. k = j \/ JobRow(k) \in rows
        BY <1>7, <1>10, <2>1, <2>2, <2>3
      <3> QED BY <1>5, <3>1 DEF Ends
    <2>5. ~(Ends(c, k) /\ Ends(e, k))
      BY <1>5, <2>2, <2>3
    <2>6. ASSUME NEW m \in 1..Len(new), m # i PROVE ~Ends(new[m], k)
      BY <1>7, <1>10, <2>1, <2>5, <2>6
    <2> QED BY <2>4, <2>6
  <1>11. \A i, row : ~Gives(s, i, row)
    BY DEF Gives
  <1>12. /\ \A i \in 1..Len(new) : new[i].do # "insert"
         /\ s.do \notin {"lock", "drop"}
    BY <1>2, <1>3, <1>7
  <1>13. \A i \in 1..Len(new) : Shape(new[i]) /\ OwnLock(new[i])
    BY <1>7, <1>8
  <1> QED BY <1>6, <1>9, <1>10, <1>11, <1>12, <1>13 DEF Fits

(* A turn of the loop over the organizations of cleanup() fits.            *)
LEMMA FitsExpires ==
    ASSUME NEW x \in Transaction, NEW y \in Transaction, x.kind \notin Closers,
           NEW s \in Statement, s = Head(x.todo), Shape(s), s.do = "expireEach",
           NEW row \in s.rows, y.added = x.added,
           NEW new,
           Joined(new, Expire(row[2]), Through("expireEach", 0, s.rows \ {row}))
    PROVE  new \in Seq(Statement) /\ Fits(x, y, new)
  <1> DEFINE o == row[2]
             rows == s.rows \ {row}
             r == Through("expireEach", 0, rows)
             e == Step("expireEach", 0, rows)
             jobs == {JobRow(j) : j \in {i \in Job : OrgOf[i] = o}}
             a == Lock(0, {<<"org", o>>}, "update")
             b == Lock(0, jobs, "update")
             u == Through("cascade", 0, jobs)
             c == Step("cascade", 0, jobs)
  <1>1. rows \in SUBSET Row /\ rows \subseteq OrgRows /\ o \in Nat
    <2>1. row \in OrgRows
      BY DEF Shape
    <2>2. o \in Nat
      BY <2>1, EventsAssumption DEF OrgRows, OrgRow
    <2> HIDE DEF o
    <2> QED BY <2>2 DEF Statement, Shape
  <1>2. /\ r \in Seq(Statement) /\ Len(r) \in {0, 1}
        /\ \A i \in 1..Len(r) : r[i] = e
        /\ e.do = "expireEach" /\ e.job = 0 /\ e.rows = rows /\ e.ended = FALSE
    <2>1. "expireEach" \in Does /\ 0 \in Job \cup {0}
      BY DEF Does
    <2>2. TurnIs(r, e, "expireEach", 0, rows)
      <3> HIDE DEF rows
      <3> QED BY <1>1, <2>1, ThroughIs
    <2> HIDE DEF r, e, rows
    <2> QED BY <2>2 DEF TurnIs, AllAre
  <1>3. jobs \in SUBSET Row /\ jobs \subseteq JobRows /\ {<<"org", o>>} \in SUBSET Row
    <2>1. jobs \subseteq JobRows
      BY DEF JobRows
    <2> HIDE DEF jobs, o
    <2> QED BY <1>1, <2>1, RowTypes DEF Row
  <1>4. /\ u \in Seq(Statement) /\ Len(u) \in {0, 1}
        /\ \A i \in 1..Len(u) : u[i] = c
        /\ c.do = "cascade" /\ c.job = 0 /\ c.rows = jobs /\ c.ended = FALSE
    <2>1. "cascade" \in Does /\ 0 \in Job \cup {0}
      BY DEF Does
    <2>2. TurnIs(u, c, "cascade", 0, jobs)
      <3> HIDE DEF jobs
      <3> QED BY <1>3, <2>1, ThroughIs
    <2> HIDE DEF u, c, jobs
    <2> QED BY <2>2 DEF TurnIs, AllAre
  <1>5. /\ a \in Statement /\ b \in Statement
        /\ a.do = "lock" /\ a.job = 0 /\ a.ended = FALSE
        /\ b.do = "lock" /\ b.job = 0 /\ b.rows = jobs /\ b.mode = "update"
        /\ b.ended = FALSE
    <2> HIDE DEF jobs, o
    <2>1. a \in Statement
      BY <1>3, LockTypes DEF Mode
    <2>2. b \in Statement
      BY <1>3, LockTypes DEF Mode
    <2> QED BY <2>1, <2>2 DEF Lock, Make
  <1>6. Joined(new, <<a, b>> \o u, r)
    BY DEF Expire
  <1> HIDE DEF rows, r, e, a, b, u, c, jobs, o
  <1> DEFINE p == <<a, b>>
             w == p \o u
  <1>7. /\ w \in Seq(Statement) /\ Len(w) = 2 + Len(u) /\ Len(u) \in Nat
        /\ w[1] = a /\ w[2] = b /\ \A i \in 3..Len(w) : w[i] = u[i - 2]
    <2>1. p \in Seq(Statement) /\ Len(p) = 2 /\ p[1] = a /\ p[2] = b
      BY <1>5
    <2>2. Joined(w, p, u)
      BY DEF Joined
    <2> HIDE DEF p, w
    <2>3. /\ w \in Seq(Statement) /\ Len(w) = Len(p) + Len(u) /\ Len(u) \in Nat
          /\ \A i \in 1..Len(p) : w[i] = p[i]
          /\ \A i \in Len(p) + 1..Len(w) : w[i] = u[i - Len(p)]
      <3>1. /\ w \in Seq(Statement) /\ Len(w) = Len(p) + Len(u)
            /\ Len(p) \in Nat /\ Len(u) \in Nat /\ Spliced(w, p, u)
        BY <1>4, <2>1, <2>2, Cat
      <3> QED BY <1>4, <2>1, <2>2, <3>1 DEF Spliced
    <2> QED BY <2>1, <2>3
  <1>8. \A i \in 3..Len(w) : w[i] = c
    <2> HIDE DEF w
    <2>1. \A i \in 3..Len(w) : i - 2 \in 1..Len(u)
      BY <1>7
    <2> QED BY <1>4, <1>7, <2>1
  <1>9. Joined(new, w, r)
    BY <1>6
  <1> HIDE DEF w
  <1>10. /\ new \in Seq(Statement) /\ Len(new) = Len(w) + Len(r) /\ Len(r) \in Nat
         /\ \A i \in 1..Len(w) : new[i] = w[i]
         /\ \A i \in Len(w) + 1..Len(new) : new[i] = r[i - Len(w)]
    <2>1. /\ new \in Seq(Statement) /\ Len(new) = Len(w) + Len(r)
          /\ Len(r) \in Nat /\ Spliced(new, w, r)
      BY <1>2, <1>7, <1>9, Cat
    <2> QED BY <2>1 DEF Spliced
  <1>11. ASSUME NEW i \in 1..Len(new)
         PROVE  \/ new[i] = a \/ new[i] = b
                \/ i > 2 /\ new[2] = b /\ new[i] = c
                \/ new[i] = e
    <2>1. CASE i \in 1..Len(w)
      <3>1. new[i] = w[i] /\ 2 \in 1..Len(w)
        BY <1>7, <1>10, <2>1
      <3>2. i = 1 \/ i = 2 \/ i \in 3..Len(w)
        BY <1>7, <2>1
      <3> QED BY <1>7, <1>8, <1>10, <3>1, <3>2
    <2>2. CASE i \in Len(w) + 1..Len(new)
      <3>1. i - Len(w) \in 1..Len(r)
        BY <1>7, <1>10, <2>2
      <3> QED BY <1>2, <1>10, <2>2, <3>1
    <2>3. i \in 1..Len(w) \/ i \in Len(w) + 1..Len(new)
      BY <1>7, <1>10
    <2> QED BY <2>1, <2>2, <2>3
  <1>12. Shape(a) /\ Shape(b) /\ Shape(c) /\ Shape(e)
    BY <1>1, <1>2, <1>3, <1>4, <1>5 DEF Shape
  <1>13. /\ \A i, rw : ~Wants(a, i, rw) /\ ~Wants(b, i, rw) /\ ~Wants(e, i, rw)
         /\ \A i, rw : Wants(c, i, rw) => Gives(b, i, rw)
         /\ \A i : ~Ends(a, i) /\ ~Ends(b, i) /\ ~Ends(c, i) /\ ~Ends(e, i)
    BY <1>2, <1>4, <1>5 DEF Wants, Gives, Ends
  <1>14. ASSUME NEW i \in 1..Len(new), NEW k \in Job \cup {0},
                NEW rw \in RowsOf(new[i]), Wants(new[i], k, rw)
         PROVE  \E m \in 1..i-1 : Gives(new[m], k, rw)
    <2>1. i > 2 /\ new[2] = b /\ new[i] = c
      BY <1>11, <1>13, <1>14
    <2>2. 2 \in 1..i-1
      BY <2>1
    <2> QED BY <1>13, <1>14, <2>1, <2>2
  <1>15. \A i, rw : ~Gives(s, i, rw)
    BY DEF Gives
  <1>16. /\ \A i \in 1..Len(new) : /\ Shape(new[i]) /\ new[i].do # "insert"
                                   /\ \A k \in Job : ~Ends(new[i], k)
         /\ s.do \notin {"lock", "drop"}
    BY <1>2, <1>4, <1>5, <1>11, <1>12, <1>13
  <1> QED BY <1>10, <1>14, <1>15, <1>16 DEF Fits

(* Every turn of a loop keeps what the transaction relies on.              *)
LEMMA IterateLocal ==
    ASSUME EventsTypeOK, NEW t \in DOMAIN tx, Local(tx[t]), Iterate(t)
    PROVE  tx'[t] \in Transaction /\ Local(tx'[t]) /\ NoInsert(tx'[t])
  <1> DEFINE x == tx[t]
             s == Head(x.todo)
  <1>1. x \in Transaction /\ x.todo # <<>> /\ Local(x)
    BY DEF EventsTypeOK, Iterate, Running
  <1>2. /\ s \in Statement /\ Shape(s) /\ Tail(x.todo) \in Seq(Statement)
        /\ x.kind \in Closers => OwnLock(s)
        /\ \A j \in Job \cup {0} : \A row \in RowsOf(s) :
              Wants(s, j, row) => Granted(x, j, row)
    BY <1>1, HeadIs
  <1>3. s.do \in {"lockEach", "endEach", "expireEach"} /\ ~Trigger(s)
    BY DEF Iterate, Now, Trigger
  <1>4. PICK row \in s.rows :
          Proceed(t, [x EXCEPT !.todo =
             Body(s.do, row[2]) \o Through(s.do, 0, s.rows \ {row}) \o Tail(x.todo)])
    BY DEF Iterate, Now, Rest
  <1> DEFINE p == Body(s.do, row[2])
             r == Through(s.do, 0, s.rows \ {row})
             new == p \o r
             q == new \o Tail(x.todo)
             y == [x EXCEPT !.todo = q]
  <1>5. tx'[t] = y
    <2>1. Proceed(t, y)
      BY <1>4
    <2> HIDE DEF y
    <2> QED BY <2>1, Proceeds DEF EventsTypeOK
  <1>6. y.added = x.added /\ y.held = x.held /\ y.skipped = x.skipped
        /\ y.closed = x.closed
    <2> HIDE DEF s, q
    <2> QED BY <1>1 DEF Transaction
  <1>7. \A j \in Job \cup {0} : \A rw \in RowsOf(s) :
           Wants(s, j, rw) => Granted(y, j, rw)
    <2> HIDE DEF x, s, y
    <2> QED BY <1>2, <1>6 DEF Granted, Has
  <1>8. Joined(new, p, r)
    BY DEF Joined
  <1>9. ASSUME y \in Transaction PROVE new \in Seq(Statement) /\ Fits(x, y, new)
    <2>1. CASE s.do = "lockEach"
      <3> DEFINE j == row[2]
      <3>1. j \in Job /\ row = JobRow(j)
        <4>1. row \in JobRows
          BY <1>2, <2>1, <1>4 DEF Shape
        <4> QED BY <4>1 DEF JobRows, JobRow
      <3>2. p = LockJob(j) /\ r = Through("lockEach", 0, s.rows \ {JobRow(j)})
        BY <2>1, <3>1 DEF Body
      <3>3. Joined(new, LockJob(j), Through("lockEach", 0, s.rows \ {JobRow(j)}))
        BY <1>8, <3>2
      <3>4. s = Head(x.todo) /\ JobRow(j) \in s.rows
        BY <1>4, <3>1
      <3> HIDE DEF x, s, y, new, p, r, j
      <3> QED BY <1>1, <1>2, <1>6, <1>9, <2>1, <3>1, <3>3, <3>4, FitsLocks
    <2>2. CASE s.do = "endEach"
      <3> DEFINE j == row[2]
      <3>1. j \in Job /\ row = JobRow(j)
        <4>1. row \in JobRows
          BY <1>2, <2>2, <1>4 DEF Shape
        <4> QED BY <4>1 DEF JobRows, JobRow
      <3>2. p = End(j) /\ r = Through("endEach", 0, s.rows \ {JobRow(j)})
        BY <2>2, <3>1 DEF Body
      <3>3. Joined(new, End(j), Through("endEach", 0, s.rows \ {JobRow(j)}))
        BY <1>8, <3>2
      <3>4. s = Head(x.todo) /\ JobRow(j) \in s.rows
        BY <1>4, <3>1
      <3> HIDE DEF x, s, y, new, p, r, j
      <3> QED BY <1>1, <1>2, <1>6, <1>7, <1>9, <2>2, <3>1, <3>3, <3>4, FitsEnds
    <2>3. CASE s.do = "expireEach"
      <3>1. p = Expire(row[2]) /\ r = Through("expireEach", 0, s.rows \ {row})
        BY <2>3 DEF Body
      <3>2. Joined(new, Expire(row[2]), Through("expireEach", 0, s.rows \ {row}))
        BY <1>8, <3>1
      <3>3. s = Head(x.todo) /\ row \in s.rows
        BY <1>4
      <3>4. x.kind \notin Closers
        BY <1>2, <2>3 DEF OwnLock
      <3> HIDE DEF x, s, y, new, p, r
      <3> QED BY <1>1, <1>2, <1>6, <1>9, <2>3, <3>2, <3>3, <3>4, FitsExpires
    <2> QED BY <1>3, <2>1, <2>2, <2>3
  <1>10. q \in Seq(Statement)
    <2>1. p \in Seq(Statement) /\ r \in Seq(Statement)
      <3>1. s.rows \in SUBSET Row
        <4> HIDE DEF s
        <4> QED BY <1>2 DEF Statement
      <3>2. r \in Seq(Statement)
        <4> DEFINE do == s.do
                   rows == s.rows \ {row}
        <4>1. do \in Does /\ 0 \in Job \cup {0} /\ rows \in SUBSET Row
          BY <1>3, <3>1 DEF Does
        <4> HIDE DEF do, rows
        <4>2. Through(do, 0, rows) \in Seq(Statement)
          BY <4>1, ThroughTypes
        <4> QED BY <4>2 DEF do, rows
      <3>3. CASE s.do \in {"lockEach", "endEach"}
        <4>1. row \in JobRows
          BY <1>2, <1>4, <3>3 DEF Shape
        <4>2. row[2] \in Job
          BY <4>1 DEF JobRows, JobRow
        <4>3. p = LockJob(row[2]) \/ p = End(row[2])
          BY <3>3 DEF Body
        <4> HIDE DEF p, r
        <4> QED BY <3>2, <4>2, <4>3, LockJobTypes, EndTypes
      <3>4. CASE s.do = "expireEach"
        <4>1. row \in OrgRows
          BY <1>2, <1>4, <3>4 DEF Shape
        <4>2. row[2] \in Nat
          BY <4>1, EventsAssumption DEF OrgRows, OrgRow
        <4>3. p = Expire(row[2])
          BY <3>4 DEF Body
        <4> HIDE DEF p, r
        <4> QED BY <3>2, <4>2, <4>3, ExpireTypes
      <3> QED BY <1>3, <3>3, <3>4
    <2> DEFINE tl == Tail(x.todo)
    <2>2. tl \in Seq(Statement)
      BY <1>2
    <2> HIDE DEF p, r, tl
    <2>3. p \o r \in Seq(Statement) /\ (p \o r) \o tl \in Seq(Statement)
      BY <2>1, <2>2
    <2> QED BY <2>3 DEF tl
  <1>11. /\ y \in Transaction /\ y.todo = q
         /\ y.kind = x.kind /\ y.job = x.job /\ y.held = x.held
         /\ y.added = x.added /\ y.dropped = x.dropped /\ y.closed = x.closed
         /\ y.deleted = x.deleted /\ y.skipped = x.skipped
    <2>1. x \in Transaction
      BY <1>1
    <2> HIDE DEF x, s, q
    <2> QED BY ONLY <2>1, <1>10, y = [x EXCEPT !.todo = q] DEF Transaction
  <1> HIDE DEF y
  <1>12. Effects(y)
    <2>1. Effects(x)
      BY <1>1 DEF Local
    <2> HIDE DEF x, s, q
    <2> QED BY <1>3, <1>11, <2>1 DEF Effects, Has, s
  <1>13. y.todo = new \o Tail(x.todo)
    BY <1>11
  <1> HIDE DEF x, s, q, new, p, r
  <1>14. new \in Seq(Statement) /\ Fits(x, y, new)
    BY <1>9, <1>11
  <1>15. Local(y)
    BY <1>1, <1>11, <1>12, <1>13, <1>14, LocalMoves
  <1>16. NoInsert(y)
    <2>1. /\ \A i \in 1..Len(new) : new[i].do # "insert"
          /\ Head(x.todo).do \notin {"lock", "drop"}
      BY <1>3, <1>14 DEF Fits, s
    <2> QED BY <1>1, <1>13, <1>14, <2>1, InsertsGone DEF Local
  <1> QED BY <1>5, <1>11, <1>15, <1>16

-----------------------------------------------------------------------------
(* A step that a program may begin with.                                   *)
Tidy(s) == s \in Statement /\ Shape(s) /\ s.do # "insert"

(* The steps r can follow the steps p.                                     *)
Follows(p, r) ==
    \A i \in 1..Len(r) :
        /\ Tidy(r[i])
        /\ \A j \in Job \cup {0} : \A row \in RowsOf(r[i]) :
              Wants(r[i], j, row) =>
                 \/ \E k \in 1..Len(p) : Gives(p[k], j, row)
                 \/ \E k \in 1..i-1 : Gives(r[k], j, row)

(* A program that relies on nothing before it.                             *)
Sound(w) == w \in Seq(Statement) /\ Follows(<<>>, w)

(* No step but the one at n records an end.                                *)
EndsAt(w, n) == \A i \in 1..Len(w) : \A j \in Job : Ends(w[i], j) => i = n

(* Analyses are locked each in its own name.                               *)
Owned(w) == \A i \in 1..Len(w) : OwnLock(w[i])

(* Steps that can follow others make a sound program with them.            *)
LEMMA Follow ==
    ASSUME NEW p \in Seq(Statement), NEW r \in Seq(Statement), NEW w,
           Joined(w, p, r), Sound(p), Follows(p, r), NEW n, EndsAt(p, n), EndsAt(r, 0)
    PROVE  Sound(w) /\ EndsAt(w, n) /\ (Owned(p) /\ Owned(r) => Owned(w))
  <1>1. /\ w \in Seq(Statement) /\ Len(w) = Len(p) + Len(r)
        /\ Len(p) \in Nat /\ Len(r) \in Nat /\ Spliced(w, p, r)
    BY Cat
  <1>2. ASSUME NEW i \in 1..Len(w)
        PROVE  \/ i \in 1..Len(p) /\ w[i] = p[i]
               \/ i > Len(p) /\ i - Len(p) \in 1..Len(r) /\ w[i] = r[i - Len(p)]
    BY <1>1 DEF Spliced
  <1>3. ASSUME NEW i \in 1..Len(w)
        PROVE  /\ Tidy(w[i])
               /\ \A j \in Job \cup {0} : \A row \in RowsOf(w[i]) :
                     Wants(w[i], j, row) => \E k \in 1..i-1 : Gives(w[k], j, row)
    <2>1. CASE i \in 1..Len(p) /\ w[i] = p[i]
      <3>1. /\ Tidy(p[i])
            /\ \A j \in Job \cup {0} : \A row \in RowsOf(p[i]) :
                  Wants(p[i], j, row) => \E k \in 1..i-1 : Gives(p[k], j, row)
        <4>1. ~\E k : k \in 1..Len(<<>>)
          OBVIOUS
        <4>2. Follows(<<>>, p)
          BY DEF Sound
        <4> QED BY <2>1, <4>1, <4>2 DEF Follows
      <3>2. \A k \in 1..i-1 : w[k] = p[k]
        BY <1>1, <2>1 DEF Spliced
      <3> QED BY <2>1, <3>1, <3>2
    <2>2. CASE i > Len(p) /\ i - Len(p) \in 1..Len(r) /\ w[i] = r[i - Len(p)]
      <3> DEFINE h == i - Len(p)
      <3>1. h \in 1..Len(r) /\ w[i] = r[h] /\ i = h + Len(p)
        BY <1>1, <2>2
      <3> HIDE DEF h
      <3>2. Tidy(w[i])
        BY <3>1 DEF Follows
      <3>3. ASSUME NEW j \in Job \cup {0}, NEW row \in RowsOf(w[i]), Wants(w[i], j, row)
            PROVE  \E k \in 1..i-1 : Gives(w[k], j, row)
        <4>1. \/ \E k \in 1..Len(p) : Gives(p[k], j, row)
              \/ \E k \in 1..h-1 : Gives(r[k], j, row)
          BY <3>1, <3>3 DEF Follows
        <4>2. \A k \in 1..Len(p) : k \in 1..i-1 /\ w[k] = p[k]
          BY <1>1, <3>1 DEF Spliced
        <4>3. ASSUME NEW k \in 1..h-1
              PROVE  k + Len(p) \in 1..i-1 /\ w[k + Len(p)] = r[k]
          <5>1. k + Len(p) \in 1..i-1 /\ k + Len(p) \in Len(p) + 1..Len(w)
            BY <1>1, <3>1
          <5>2. (k + Len(p)) - Len(p) = k
            BY <1>1
          <5> QED BY <1>1, <5>1, <5>2 DEF Spliced
        <4> QED BY <4>1, <4>2, <4>3
      <3> QED BY <3>2, <3>3
    <2> QED BY <1>2, <2>1, <2>2
  <1>4. Sound(w)
    BY <1>1, <1>3 DEF Sound, Follows
  <1>5. EndsAt(w, n)
    <2>1. ASSUME NEW i \in 1..Len(w), NEW j \in Job, Ends(w[i], j) PROVE i = n
      <3>1. CASE i \in 1..Len(p) /\ w[i] = p[i]
        BY <2>1, <3>1 DEF EndsAt
      <3>2. CASE i > Len(p) /\ i - Len(p) \in 1..Len(r) /\ w[i] = r[i - Len(p)]
        <4>1. i - Len(p) = 0
          BY <2>1, <3>2 DEF EndsAt
        <4> QED BY <3>2, <4>1
      <3> QED BY <1>2, <3>1, <3>2
    <2> QED BY <2>1 DEF EndsAt
  <1>6. ASSUME Owned(p), Owned(r) PROVE Owned(w)
    <2>1. ASSUME NEW i \in 1..Len(w) PROVE OwnLock(w[i])
      BY <1>2, <1>6 DEF Owned
    <2> QED BY <2>1 DEF Owned
  <1> QED BY <1>4, <1>5, <1>6

(* What relies on nothing can follow anything.                             *)
LEMMA FollowSound ==
    ASSUME NEW p, NEW r, Sound(r)
    PROVE  Follows(p, r)
  <1>1. ~\E k : k \in 1..Len(<<>>)
    OBVIOUS
  <1> QED BY <1>1 DEF Sound, Follows

(* One step that relies on nothing.                                        *)
LEMMA SoundOne ==
    ASSUME NEW a, Tidy(a), \A j, row : ~Wants(a, j, row), \A j : ~Ends(a, j)
    PROVE  /\ <<a>> \in Seq(Statement)
           /\ Sound(<<a>>) /\ EndsAt(<<a>>, 0) /\ (OwnLock(a) => Owned(<<a>>))
  <1> DEFINE w == <<a>>
  <1>1. w \in Seq(Statement) /\ Len(w) = 1 /\ w[1] = a
    BY DEF Tidy
  <1>2. \A i \in 1..Len(w) : w[i] = a
    BY <1>1
  <1> HIDE DEF w
  <1>3. Sound(w) /\ EndsAt(w, 0) /\ (OwnLock(a) => Owned(w))
    BY <1>1, <1>2 DEF Sound, Follows, EndsAt, Owned
  <1> QED BY <1>1, <1>3 DEF w

(* A lock is a sound program.                                              *)
LEMMA LockSound ==
    ASSUME NEW j \in Job \cup {0}, NEW rows \in SUBSET Row, NEW mode \in Mode
    PROVE  LET w == <<Lock(j, rows, mode)>>
           IN  /\ w \in Seq(Statement) /\ Sound(w) /\ EndsAt(w, 0)
               /\ (rows = {JobRow(j)} => Owned(w))
  <1> DEFINE a == Lock(j, rows, mode)
  <1>1. a \in Statement
    BY LockTypes
  <1>2. a.do = "lock" /\ a.rows = rows /\ a.ended = FALSE
    BY DEF Lock, Make
  <1> HIDE DEF a
  <1>3. Tidy(a) /\ (\A i, row : ~Wants(a, i, row)) /\ (\A i : ~Ends(a, i))
    BY <1>1, <1>2 DEF Tidy, Shape, Wants, Ends
  <1>4. a.job = j
    BY DEF a, Lock, Make
  <1>5. rows = {JobRow(j)} => OwnLock(a)
    BY <1>2, <1>4 DEF OwnLock
  <1>6. /\ <<a>> \in Seq(Statement) /\ Sound(<<a>>) /\ EndsAt(<<a>>, 0)
        /\ (OwnLock(a) => Owned(<<a>>))
    BY <1>3, SoundOne
  <1> QED BY <1>5, <1>6 DEF a

(* So is record_event().                                                   *)
LEMMA RecordSound ==
    ASSUME NEW j \in Job
    PROVE  LET w == Record(j, FALSE)
           IN  w \in Seq(Statement) /\ Sound(w) /\ EndsAt(w, 0) /\ Owned(w)
  <1> DEFINE b == Lock(j, {LedgerRow}, "update")
             c == Make("record", j, {}, "update", FALSE)
             d == Lock(j, {OrgRow(j), JobRow(j)}, "share")
             w == Record(j, FALSE)
  <1>1. /\ b \in Statement /\ b.do = "lock" /\ b.job = j /\ b.rows = {LedgerRow}
        /\ b.mode = "update" /\ b.ended = FALSE
    BY LockTypes, RowTypes DEF Mode, Lock, Make
  <1>2. c \in Statement /\ c.do = "record" /\ c.job = j /\ c.rows = {} /\ c.ended = FALSE
    BY MakeTypes DEF Does, Mode, Make
  <1>3. /\ d \in Statement /\ d.do = "lock" /\ d.job = j
        /\ d.rows = {OrgRow(j), JobRow(j)} /\ d.ended = FALSE
    <2>1. {OrgRow(j), JobRow(j)} \in SUBSET Row
      BY RowTypes
    <2>2. d \in Statement
      BY <2>1, LockTypes DEF Mode
    <2> QED BY <2>2 DEF Lock, Make
  <1>4. w = <<b, c, d>>
    BY DEF Record
  <1> HIDE DEF b, c, d, w
  <1>5. w \in Seq(Statement) /\ Len(w) = 3 /\ w[1] = b /\ w[2] = c /\ w[3] = d
    BY <1>1, <1>2, <1>3, <1>4
  <1>6. \A i \in 1..Len(w) : \/ i = 1 /\ w[i] = b
                             \/ i = 2 /\ w[1] = b /\ w[i] = c
                             \/ i = 3 /\ w[i] = d
    BY <1>5
  <1>7. /\ Tidy(b) /\ Tidy(c) /\ Tidy(d) /\ OwnLock(b) /\ OwnLock(c) /\ OwnLock(d)
    <2>1. LedgerRow[1] # "job" /\ OrgRow(j)[1] # "job"
      BY DEF LedgerRow, OrgRow
    <2> QED BY <1>1, <1>2, <1>3, <2>1 DEF Tidy, Shape, OwnLock
  <1>8. /\ \A i, row : ~Wants(b, i, row) /\ ~Wants(d, i, row)
        /\ \A i, row : Wants(c, i, row) => Gives(b, i, row)
        /\ \A i : ~Ends(b, i) /\ ~Ends(c, i) /\ ~Ends(d, i)
    BY <1>1, <1>2, <1>3 DEF Wants, Gives, Ends
  <1>9. ASSUME NEW i \in 1..Len(w), NEW k \in Job \cup {0},
               NEW row \in RowsOf(w[i]), Wants(w[i], k, row)
        PROVE  \E m \in 1..i-1 : Gives(w[m], k, row)
    <2>1. i = 2 /\ w[1] = b /\ w[i] = c
      BY <1>6, <1>8, <1>9
    <2>2. 1 \in 1..i-1
      BY <2>1
    <2> QED BY <1>8, <1>9, <2>1, <2>2
  <1>10. \A i \in 1..Len(w) : Tidy(w[i]) /\ OwnLock(w[i]) /\ \A k : ~Ends(w[i], k)
    BY <1>6, <1>7, <1>8
  <1>11. Sound(w)
    BY <1>5, <1>9, <1>10 DEF Sound, Follows
  <1>12. EndsAt(w, 0) /\ Owned(w)
    BY <1>10 DEF EndsAt, Owned
  <1> QED BY <1>5, <1>11, <1>12 DEF w

(* The row of an analysis, and then its end.                               *)
LEMMA EndingSound ==
    ASSUME NEW j \in Job
    PROVE  LET w == LockJob(j) \o End(j)
           IN  w \in Seq(Statement) /\ Sound(w) /\ EndsAt(w, 4) /\ Owned(w)
  <1> DEFINE p == LockJob(j)
             r == End(j)
             w == p \o r
             z == Lock(j, {JobRow(j)}, "update")
  <1>1. PICK a, b, c, d \in Statement :
              /\ End(j) \in Seq(Statement) /\ Len(End(j)) = 4
              /\ End(j)[1] = a /\ End(j)[2] = b /\ End(j)[3] = c /\ End(j)[4] = d
              /\ a.do = "close" /\ a.job = j /\ a.rows = {} /\ a.ended = FALSE
              /\ b.do = "lock" /\ b.job = j /\ b.rows = {LedgerRow}
              /\ b.mode = "update" /\ b.ended = FALSE
              /\ c.do = "record" /\ c.job = j /\ c.rows = {} /\ c.ended = TRUE
              /\ d.do = "lock" /\ d.job = j /\ d.rows = {OrgRow(j), JobRow(j)}
              /\ d.mode = "share" /\ d.ended = FALSE
    BY EndIs
  <1>2. /\ z \in Statement /\ z.do = "lock" /\ z.job = j /\ z.rows = {JobRow(j)}
        /\ z.mode = "update" /\ z.ended = FALSE
    BY LockTypes, RowTypes DEF Mode, Lock, Make
  <1>3. p = <<z>>
    BY DEF LockJob
  <1>4. r \in Seq(Statement) /\ Len(r) = 4 /\ r[1] = a /\ r[2] = b /\ r[3] = c /\ r[4] = d
    BY <1>1
  <1> HIDE DEF z, p, r
  <1>5. p \in Seq(Statement) /\ Len(p) = 1 /\ p[1] = z
    BY <1>2, <1>3
  <1>6. Joined(w, p, r)
    BY DEF Joined
  <1> HIDE DEF w
  <1>7. /\ w \in Seq(Statement) /\ Len(w) = 5
        /\ w[1] = z /\ w[2] = a /\ w[3] = b /\ w[4] = c /\ w[5] = d
    <2>1. /\ w \in Seq(Statement) /\ Len(w) = Len(p) + Len(r)
          /\ Len(p) \in Nat /\ Len(r) \in Nat /\ Spliced(w, p, r)
      BY <1>4, <1>5, <1>6, Cat
    <2>2. /\ w[1] = p[1] /\ w[2] = r[1] /\ w[3] = r[2] /\ w[4] = r[3] /\ w[5] = r[4]
      BY <1>4, <1>5, <2>1 DEF Spliced
    <2> QED BY <1>4, <1>5, <2>1, <2>2
  <1>8. \A i \in 1..Len(w) : \/ i = 1 /\ w[i] = z
                             \/ i = 2 /\ w[i] = a
                             \/ i = 3 /\ w[i] = b
                             \/ i = 4 /\ w[i] = c
                             \/ i = 5 /\ w[i] = d
    BY <1>7
  <1>9. /\ Tidy(a) /\ Tidy(b) /\ Tidy(c) /\ Tidy(d) /\ Tidy(z)
        /\ OwnLock(a) /\ OwnLock(b) /\ OwnLock(c) /\ OwnLock(d) /\ OwnLock(z)
    <2>1. LedgerRow[1] # "job" /\ OrgRow(j)[1] # "job"
      BY DEF LedgerRow, OrgRow
    <2> QED BY <1>1, <1>2, <2>1 DEF Tidy, Shape, OwnLock
  <1>10. /\ \A i, row : ~Wants(z, i, row) /\ ~Wants(b, i, row) /\ ~Wants(d, i, row)
         /\ \A i, row : Wants(a, i, row) => Gives(z, i, row)
         /\ \A i, row : Wants(c, i, row) => Gives(b, i, row) \/ Gives(a, i, row)
         /\ \A i : ~Ends(a, i) /\ ~Ends(b, i) /\ ~Ends(d, i) /\ ~Ends(z, i)
    BY <1>1, <1>2 DEF Wants, Gives, Ends
  <1>11. ASSUME NEW i \in 1..Len(w), NEW k \in Job \cup {0},
                NEW row \in RowsOf(w[i]), Wants(w[i], k, row)
         PROVE  \E m \in 1..i-1 : Gives(w[m], k, row)
    <2>1. CASE i = 2 /\ w[i] = a
      <3>1. 1 \in 1..i-1
        BY <2>1
      <3> QED BY <1>7, <1>10, <1>11, <2>1, <3>1
    <2>2. CASE i = 4 /\ w[i] = c
      <3>1. 2 \in 1..i-1 /\ 3 \in 1..i-1
        BY <2>2
      <3> QED BY <1>7, <1>10, <1>11, <2>2, <3>1
    <2> QED BY <1>8, <1>10, <1>11, <2>1, <2>2
  <1>12. \A i \in 1..Len(w) : /\ Tidy(w[i]) /\ OwnLock(w[i])
                              /\ \A k : Ends(w[i], k) => i = 4
    BY <1>8, <1>9, <1>10
  <1>13. Sound(w)
    BY <1>7, <1>11, <1>12 DEF Sound, Follows
  <1>14. EndsAt(w, 4) /\ Owned(w)
    BY <1>12 DEF EndsAt, Owned
  <1> QED BY <1>7, <1>13, <1>14 DEF w, p, r

(* Two steps in a row.                                                     *)
LEMMA Pair ==
    ASSUME NEW a \in Statement, NEW b \in Statement
    PROVE  <<a>> \o <<b>> = <<a, b>>
  <1> DEFINE p == <<a>>
             r == <<b>>
             w == p \o r
             u == <<a, b>>
  <1>1. /\ p \in Seq(Statement) /\ Len(p) = 1 /\ p[1] = a
        /\ r \in Seq(Statement) /\ Len(r) = 1 /\ r[1] = b
    OBVIOUS
  <1>2. u \in Seq(Statement) /\ Len(u) = 2 /\ u[1] = a /\ u[2] = b
    OBVIOUS
  <1> HIDE DEF p, r, u
  <1>3. w \in Seq(Statement) /\ Len(w) = 2 /\ w[1] = a /\ w[2] = b
    <2>1. Joined(w, p, r)
      BY DEF Joined
    <2> HIDE DEF w
    <2>2. /\ w \in Seq(Statement) /\ Len(w) = Len(p) + Len(r)
          /\ Len(p) \in Nat /\ Len(r) \in Nat /\ Spliced(w, p, r)
      BY <1>1, <2>1, Cat
    <2>3. w[1] = p[1] /\ w[2] = r[1]
      BY <1>1, <2>2 DEF Spliced
    <2> QED BY <1>1, <2>2, <2>3
  <1> HIDE DEF w
  <1>4. w \in [1..2 -> Statement] /\ u \in [1..2 -> Statement]
    BY <1>2, <1>3
  <1>5. \A i \in 1..2 : w[i] = u[i]
    BY <1>2, <1>3
  <1>6. w = u
    BY <1>4, <1>5
  <1> QED BY <1>6 DEF w, u, p, r

(* The program w is one that a transaction of this kind may begin with.    *)
Begins(kind, w) ==
    /\ w \in Seq(Statement) /\ Sound(w)
    /\ IF kind \in Closers THEN Owned(w) /\ \E n : EndsAt(w, n) ELSE EndsAt(w, 0)

(* Two parts of a program, the second of which relies on nothing before.   *)
LEMMA Append2 ==
    ASSUME NEW p \in Seq(Statement), NEW r \in Seq(Statement),
           Sound(p), Sound(r), NEW n, EndsAt(p, n), EndsAt(r, 0)
    PROVE  /\ p \o r \in Seq(Statement) /\ Sound(p \o r) /\ EndsAt(p \o r, n)
           /\ Owned(p) /\ Owned(r) => Owned(p \o r)
  <1> DEFINE w == p \o r
  <1>1. Joined(w, p, r) /\ w \in Seq(Statement)
    BY DEF Joined
  <1>2. Follows(p, r)
    BY FollowSound
  <1> HIDE DEF w
  <1>3. Sound(w) /\ EndsAt(w, n) /\ (Owned(p) /\ Owned(r) => Owned(w))
    BY <1>1, <1>2, Follow
  <1> QED BY <1>1, <1>3 DEF w

(* The programs about one analysis are sound, and end it at most once.     *)
LEMMA NarrowBegins ==
    ASSUME NEW j \in Job, NEW kind \in {"start", "finish", "failed", "export", "feedback"}
    PROVE  Begins(kind, Program(kind, j))
  <1> DEFINE rec == Record(j, FALSE)
             ending == LockJob(j) \o End(j)
  <1>1. rec \in Seq(Statement) /\ Sound(rec) /\ EndsAt(rec, 0) /\ Owned(rec)
    BY RecordSound
  <1>2. ending \in Seq(Statement) /\ Sound(ending) /\ EndsAt(ending, 4) /\ Owned(ending)
    BY EndingSound
  <1>3. {JobRow(j)} \in SUBSET Row /\ {OrgRow(j)} \in SUBSET Row
        /\ {LedgerRow} \in SUBSET Row /\ {OrgRow(j), JobRow(j)} \in SUBSET Row
    BY RowTypes
  <1>4. CASE kind = "start"
    <2> DEFINE p == <<Lock(j, {JobRow(j)}, "nokey")>>
    <2>1. p \in Seq(Statement) /\ Sound(p) /\ EndsAt(p, 0)
      BY <1>3, LockSound DEF Mode
    <2>2. Program(kind, j) = p \o rec /\ kind \notin Closers
      BY <1>4 DEF Program, Closers
    <2> HIDE DEF p, rec
    <2>3. p \o rec \in Seq(Statement) /\ Sound(p \o rec) /\ EndsAt(p \o rec, 0)
      BY <1>1, <2>1, Append2
    <2> QED BY <2>2, <2>3 DEF Begins
  <1>5. CASE kind = "finish"
    <2>1. Program(kind, j) = ending \o rec /\ kind \in Closers
      BY <1>5 DEF Program, Closers
    <2> HIDE DEF ending, rec
    <2>2. /\ ending \o rec \in Seq(Statement) /\ Sound(ending \o rec)
          /\ EndsAt(ending \o rec, 4) /\ Owned(ending \o rec)
      BY <1>1, <1>2, Append2
    <2> QED BY <2>1, <2>2 DEF Begins
  <1>6. CASE kind = "failed"
    <2>1. Program(kind, j) = ending /\ kind \in Closers
      BY <1>6 DEF Program, Closers
    <2> HIDE DEF ending
    <2> QED BY <1>2, <2>1 DEF Begins
  <1>7. CASE kind = "export"
    <2> DEFINE p == <<Lock(j, {OrgRow(j)}, "update")>>
    <2>1. p \in Seq(Statement) /\ Sound(p) /\ EndsAt(p, 0)
      BY <1>3, LockSound DEF Mode
    <2>2. Program(kind, j) = p \o rec /\ kind \notin Closers
      BY <1>7 DEF Program, Closers
    <2> HIDE DEF p, rec
    <2>3. p \o rec \in Seq(Statement) /\ Sound(p \o rec) /\ EndsAt(p \o rec, 0)
      BY <1>1, <2>1, Append2
    <2> QED BY <2>2, <2>3 DEF Begins
  <1>8. CASE kind = "feedback"
    <2> DEFINE p == LockJob(j)
               a == Lock(j, {LedgerRow}, "update")
               b == Lock(j, {OrgRow(j), JobRow(j)}, "share")
               ab == <<a, b>>
    <2>1. p \in Seq(Statement) /\ Sound(p) /\ EndsAt(p, 0)
      BY <1>3, LockSound DEF LockJob, Mode
    <2>2. <<a>> \in Seq(Statement) /\ Sound(<<a>>) /\ EndsAt(<<a>>, 0)
      BY <1>3, LockSound DEF Mode
    <2>3. <<b>> \in Seq(Statement) /\ Sound(<<b>>) /\ EndsAt(<<b>>, 0)
      BY <1>3, LockSound DEF Mode
    <2>4. Program(kind, j) = (p \o ab) \o rec /\ kind \notin Closers
      BY <1>8 DEF Program, Closers
    <2> HIDE DEF p, a, b, rec
    <2>5. ab = <<a>> \o <<b>>
      <3>1. a \in Statement /\ b \in Statement
        BY <1>3, LockTypes DEF Mode, a, b
      <3> QED BY <3>1, Pair
    <2>6. ab \in Seq(Statement) /\ Sound(ab) /\ EndsAt(ab, 0)
      <3> HIDE DEF ab
      <3> QED BY <2>2, <2>3, <2>5, Append2
    <2> HIDE DEF ab
    <2>7. p \o ab \in Seq(Statement) /\ Sound(p \o ab) /\ EndsAt(p \o ab, 0)
      BY <2>1, <2>6, Append2
    <2> DEFINE pab == p \o ab
    <2> HIDE DEF pab
    <2>8. pab \o rec \in Seq(Statement) /\ Sound(pab \o rec) /\ EndsAt(pab \o rec, 0)
      BY <1>1, <2>7, Append2 DEF pab
    <2> QED BY <2>4, <2>8 DEF Begins, pab
  <1> QED BY <1>4, <1>5, <1>6, <1>7, <1>8

(* So is the deletion of an analysis.                                      *)
LEMMA DeleteBegins ==
    ASSUME NEW j \in Job
    PROVE  Begins("delete", Program("delete", j))
  <1> DEFINE o == Lock(j, {OrgRow(j)}, "update")
             z == Lock(j, {JobRow(j)}, "update")
             c == Step("cascade", j, {JobRow(j)})
             p == <<o>> \o <<z>>
             r == <<c>>
  <1>1. {JobRow(j)} \in SUBSET Row /\ {OrgRow(j)} \in SUBSET Row
    BY RowTypes
  <1>2. <<o>> \in Seq(Statement) /\ Sound(<<o>>) /\ EndsAt(<<o>>, 0)
    BY <1>1, LockSound DEF Mode
  <1>3. <<z>> \in Seq(Statement) /\ Sound(<<z>>) /\ EndsAt(<<z>>, 0)
    BY <1>1, LockSound DEF Mode
  <1>4. z.do = "lock" /\ z.job = j /\ z.rows = {JobRow(j)} /\ z.mode = "update"
    BY DEF Lock, Make
  <1>5. c \in Statement
    BY <1>1, StepTypes DEF Does
  <1>6. c.do = "cascade" /\ c.job = j /\ c.rows = {JobRow(j)} /\ c.ended = FALSE
    BY DEF Step, Make
  <1>7. Program("delete", j) = p \o r
    BY DEF Program, LockJob, Through
  <1> HIDE DEF o, z, c
  <1>8. p \in Seq(Statement) /\ Sound(p) /\ EndsAt(p, 0)
    BY <1>2, <1>3, Append2
  <1>9. Len(p) = 2 /\ p[2] = z
    BY <1>2, <1>3
  <1>10. r \in Seq(Statement) /\ Len(r) = 1 /\ r[1] = c
    BY <1>5
  <1> HIDE DEF p, r
  <1>11. /\ Tidy(c) /\ \A k, row : Wants(c, k, row) => Gives(z, k, row)
         /\ \A k : ~Ends(c, k)
    <2>1. JobRow(j) \in JobRows
      BY DEF JobRows
    <2> QED BY <1>4, <1>5, <1>6, <2>1 DEF Tidy, Shape, Wants, Gives, Ends
  <1>12. \A i \in 1..Len(r) : r[i] = c
    BY <1>10
  <1>13. 2 \in 1..Len(p)
    BY <1>9
  <1>14. Follows(p, r) /\ EndsAt(r, 0)
    BY <1>9, <1>11, <1>12, <1>13 DEF Follows, EndsAt
  <1> DEFINE w == p \o r
  <1>15. Joined(w, p, r) /\ w \in Seq(Statement)
    BY <1>8, <1>10 DEF Joined
  <1> HIDE DEF w
  <1>16. Sound(w) /\ EndsAt(w, 0)
    BY <1>8, <1>10, <1>14, <1>15, Follow
  <1>17. "delete" \notin Closers
    BY DEF Closers
  <1> QED BY <1>7, <1>15, <1>16, <1>17 DEF Begins, w

(* So are the programs about all analyses.                                 *)
LEMMA WideBegins ==
    ASSUME NEW kind \in Wide
    PROVE  Begins(kind, Program(kind, 0))
  <1>1. CASE kind = "discard"
    <2> DEFINE a == Lock(0, {LedgerRow}, "update")
               b == Step("discard", 0, {})
               ab == <<a, b>>
    <2>1. <<a>> \in Seq(Statement) /\ Sound(<<a>>) /\ EndsAt(<<a>>, 0)
      BY RowTypes, LockSound DEF Mode
    <2>2. b \in Statement
      BY StepTypes DEF Does
    <2>3. b.do = "discard" /\ b.job = 0 /\ b.rows = {} /\ b.ended = FALSE
      BY DEF Step, Make
    <2>4. Program(kind, 0) = ab /\ kind \notin Closers
      BY <1>1 DEF Program, Closers
    <2> HIDE DEF a, b
    <2>5. Tidy(b) /\ (\A i, row : ~Wants(b, i, row)) /\ (\A i : ~Ends(b, i))
      BY <2>2, <2>3 DEF Tidy, Shape, Wants, Ends
    <2>6. <<b>> \in Seq(Statement) /\ Sound(<<b>>) /\ EndsAt(<<b>>, 0)
      BY <2>5, SoundOne
    <2>7. ab = <<a>> \o <<b>>
      <3>1. a \in Statement
        BY RowTypes, LockTypes DEF Mode, a
      <3> QED BY <2>2, <3>1, Pair
    <2> HIDE DEF ab
    <2>8. ab \in Seq(Statement) /\ Sound(ab) /\ EndsAt(ab, 0)
      BY <2>1, <2>6, <2>7, Append2
    <2> QED BY <2>4, <2>8 DEF Begins
  <1>2. <<>> \in Seq(Statement) /\ Sound(<<>>) /\ EndsAt(<<>>, 0) /\ Owned(<<>>)
    <2> DEFINE w == <<>>
    <2>1. w \in Seq(Statement) /\ ~\E k : k \in 1..Len(w)
      OBVIOUS
    <2> HIDE DEF w
    <2>2. EndsAt(w, 0) /\ Owned(w) /\ Follows(w, w)
      BY <2>1 DEF EndsAt, Owned, Follows
    <2> QED BY <2>1, <2>2 DEF w, Sound
  <1>3. CASE kind = "cleanup"
    <2> DEFINE e == Step("expireEach", 0, OrgRows)
               w == Through("expireEach", 0, OrgRows)
    <2>1. e \in Statement
      BY StepTypes, RowTypes DEF Does
    <2>2. e.do = "expireEach" /\ e.job = 0 /\ e.rows = OrgRows /\ e.ended = FALSE
      BY DEF Step, Make
    <2>3. w = <<>> \/ w = <<e>>
      BY DEF Through
    <2>4. Program(kind, 0) = w /\ kind \notin Closers
      BY <1>3 DEF Program, Closers
    <2> HIDE DEF e, w
    <2>5. Tidy(e) /\ (\A i, row : ~Wants(e, i, row)) /\ (\A i : ~Ends(e, i))
      BY <2>1, <2>2 DEF Tidy, Shape, Wants, Ends
    <2>6. <<e>> \in Seq(Statement) /\ Sound(<<e>>) /\ EndsAt(<<e>>, 0)
      BY <2>5, SoundOne
    <2> QED BY <1>2, <2>3, <2>4, <2>6 DEF Begins
  <1>4. CASE kind = "recover"
    <2> DEFINE a == Step("lockEach", 0, JobRows)
               b == Step("endEach", 0, JobRows)
               p == Through("lockEach", 0, JobRows)
               r == Through("endEach", 0, JobRows)
    <2>1. a \in Statement /\ b \in Statement
      BY StepTypes, RowTypes DEF Does
    <2>2. /\ a.do = "lockEach" /\ a.job = 0 /\ a.rows = JobRows /\ a.ended = FALSE
          /\ b.do = "endEach" /\ b.job = 0 /\ b.rows = JobRows /\ b.ended = FALSE
      BY DEF Step, Make
    <2>3. (p = <<>> /\ r = <<>>) \/ (p = <<a>> /\ r = <<b>>)
      BY DEF Through
    <2>4. Program(kind, 0) = p \o r /\ kind \in Closers
      BY <1>4 DEF Program, Closers
    <2> HIDE DEF a, b, p, r
    <2>5. CASE p = <<>> /\ r = <<>>
      <3>1. p \o r = <<>>
        BY <2>5
      <3> QED BY <1>2, <2>4, <3>1 DEF Begins
    <2>6. CASE p = <<a>> /\ r = <<b>>
      <3> DEFINE w == p \o r
      <3>1. w = <<a, b>>
        <4>1. w = <<a>> \o <<b>>
          BY <2>6
        <4> QED BY <2>1, <4>1, Pair
      <3> HIDE DEF w
      <3>2. w \in Seq(Statement) /\ Len(w) = 2 /\ w[1] = a /\ w[2] = b
        BY <2>1, <3>1
      <3>3. \A i \in 1..Len(w) : \/ i = 1 /\ w[i] = a
                                 \/ i = 2 /\ w[1] = a /\ w[i] = b
        BY <3>2
      <3>4. Tidy(a) /\ Tidy(b) /\ OwnLock(a) /\ OwnLock(b)
        BY <2>1, <2>2 DEF Tidy, Shape, OwnLock
      <3>5. /\ \A i, row : ~Wants(a, i, row)
            /\ \A i, row : Wants(b, i, row) => Gives(a, i, row)
            /\ \A i : ~Ends(a, i)
        BY <2>2 DEF Wants, Gives, Ends
      <3>6. ASSUME NEW i \in 1..Len(w), NEW k \in Job \cup {0},
                   NEW row \in RowsOf(w[i]), Wants(w[i], k, row)
            PROVE  \E m \in 1..i-1 : Gives(w[m], k, row)
        <4>1. i = 2 /\ w[1] = a /\ w[i] = b
          BY <3>3, <3>5, <3>6
        <4>2. 1 \in 1..i-1
          BY <4>1
        <4> QED BY <3>5, <3>6, <4>1, <4>2
      <3>7. \A i \in 1..Len(w) : /\ Tidy(w[i]) /\ OwnLock(w[i])
                                 /\ \A k : Ends(w[i], k) => i = 2
        BY <3>3, <3>4, <3>5
      <3>8. Sound(w)
        BY <3>2, <3>6, <3>7 DEF Sound, Follows
      <3>9. EndsAt(w, 2) /\ Owned(w)
        BY <3>7 DEF EndsAt, Owned
      <3> QED BY <2>4, <3>2, <3>8, <3>9 DEF Begins, w
    <2> QED BY <2>3, <2>5, <2>6
  <1> QED BY <1>1, <1>3, <1>4 DEF Wide

(* A transaction begins well.                                              *)
LEMMA BeginLocal ==
    ASSUME NEW kind, NEW j, <<kind, j>> \in Work
    PROVE  /\ Begin(kind, j) \in Transaction /\ Local(Begin(kind, j))
           /\ NoInsert(Begin(kind, j))
  <1>1. kind \in Kind /\ j \in Job \cup {0} /\ (kind \in Wide \/ j \in Job)
    BY DEF Work, Kind, Wide
  <1>2. (kind \in Wide /\ j = 0) \/ (kind \notin Wide /\ j \in Job)
    BY DEF Work
  <1> DEFINE w == Program(kind, j)
             x == Begin(kind, j)
  <1>3. Begins(kind, w)
    <2>1. CASE kind \in Wide
      BY <1>2, <2>1, WideBegins
    <2>2. CASE kind \notin Wide
      <3>1. \/ kind = "delete"
            \/ kind \in {"start", "finish", "failed", "export", "feedback"}
        BY <1>1, <2>2 DEF Kind, Wide
      <3>2. j \in Job
        BY <1>2, <2>2
      <3> QED BY <3>1, <3>2, NarrowBegins, DeleteBegins
    <2> QED BY <2>1, <2>2
  <1>4. /\ x.kind = kind /\ x.job = j /\ x.todo = w /\ x.held = {} /\ x.added = {}
        /\ x.dropped = {} /\ x.closed = {} /\ x.deleted = {} /\ x.skipped = {}
    BY DEF Begin
  <1>5. x \in Transaction
    <2>1. w \in Seq(Statement)
      BY <1>3 DEF Begins
    <2> HIDE DEF w
    <2> QED BY <1>1, <2>1 DEF Begin, Transaction, w
  <1> HIDE DEF w, x
  <1>6. ASSUME NEW i \in 1..Len(w)
        PROVE  /\ Tidy(w[i])
               /\ \A k \in Job \cup {0} : \A row \in RowsOf(w[i]) :
                     Wants(w[i], k, row) => \E m \in 1..i-1 : Gives(w[m], k, row)
    <2>1. ~\E k : k \in 1..Len(<<>>)
      OBVIOUS
    <2>2. Follows(<<>>, w)
      BY <1>3 DEF Begins, Sound
    <2> QED BY <2>1, <2>2 DEF Follows
  <1>7. Secure(x)
    BY <1>4, <1>6 DEF Secure
  <1>8. InsertsNear(x)
    BY <1>4, <1>6 DEF InsertsNear, Tidy
  <1>9. JobsLocked(x)
    BY <1>3, <1>4 DEF JobsLocked, Begins, Owned
  <1>10. EndsOnce(x)
    <2>1. SUFFICES ASSUME NEW i \in 1..Len(w), NEW k \in Job, Ends(w[i], k)
                   PROVE  /\ kind \in Closers
                          /\ \A m \in 1..Len(w) : m # i => ~Ends(w[m], k)
      BY <1>4 DEF EndsOnce
    <2>2. kind \in Closers
      <3>1. ~(i = 0)
        OBVIOUS
      <3> QED BY <1>3, <2>1, <3>1 DEF Begins, EndsAt
    <2>3. PICK n : EndsAt(w, n)
      BY <1>3, <2>2 DEF Begins
    <2>4. i = n
      BY <2>1, <2>3 DEF EndsAt
    <2> QED BY <2>2, <2>3, <2>4 DEF EndsAt
  <1>11. Effects(x)
    BY <1>4 DEF Effects
  <1>12. Shaped(x)
    BY <1>1, <1>4, <1>6 DEF Shaped, Tidy
  <1>13. NoInsert(x)
    BY <1>4, <1>6 DEF NoInsert, Tidy
  <1> QED BY <1>5, <1>7, <1>8, <1>9, <1>10, <1>11, <1>12, <1>13 DEF Local, x

-----------------------------------------------------------------------------
(* A step of t leaves the other transactions alone.                        *)
Others(t) ==
    /\ DOMAIN tx' = DOMAIN tx
    /\ \A u \in DOMAIN tx : u # t => tx'[u] = tx[u]

(* It also leaves alone what others see of t.                              *)
Keeps(t) ==
    /\ Others(t)
    /\ tx'[t].kind = tx[t].kind /\ tx'[t].held = tx[t].held
    /\ tx'[t].added = tx[t].added /\ tx'[t].dropped = tx[t].dropped
    /\ condition' = condition /\ ledger' = ledger

(* What others see of a transaction is not changed when it passes an       *)
(* analysis over.                                                          *)
LEMMA SkipMoves ==
    ASSUME EventsTypeOK, NEW t \in DOMAIN tx, Skip(t)
    PROVE  Keeps(t)
  <1> DEFINE x == tx[t]
             s == Head(x.todo)
  <1>1. x \in Transaction
    BY DEF EventsTypeOK
  <1> DEFINE y == [x EXCEPT !.todo = Tail(x.todo), !.skipped = x.skipped \cup {s.job}]
  <1>3. Proceed(t, y)
    BY DEF Skip, Now, Rest
  <1>4. condition' = condition /\ ledger' = ledger
    BY DEF Skip
  <1>5. /\ y.kind = x.kind /\ y.held = x.held /\ y.added = x.added
        /\ y.dropped = x.dropped
    <2> HIDE DEF x, s
    <2> QED BY <1>1 DEF Transaction
  <1> HIDE DEF y
  <1>6. tx'[t] = y /\ Others(t)
    BY <1>3, Proceeds DEF EventsTypeOK, Others
  <1> QED BY <1>4, <1>5, <1>6 DEF Keeps, x

(* Nor by a turn of a loop.                                                *)
LEMMA IterateMoves ==
    ASSUME EventsTypeOK, NEW t \in DOMAIN tx, Iterate(t)
    PROVE  Keeps(t)
  <1> DEFINE x == tx[t]
             s == Head(x.todo)
  <1>1. x \in Transaction
    BY DEF EventsTypeOK
  <1>2. PICK row \in s.rows :
          Proceed(t, [x EXCEPT !.todo =
             Body(s.do, row[2]) \o Through(s.do, 0, s.rows \ {row}) \o Tail(x.todo)])
    BY DEF Iterate, Now, Rest
  <1> DEFINE y == [x EXCEPT !.todo = Body(s.do, row[2])
                                    \o Through(s.do, 0, s.rows \ {row}) \o Tail(x.todo)]
  <1>3. Proceed(t, y)
    BY <1>2
  <1>4. condition' = condition /\ ledger' = ledger
    BY DEF Iterate
  <1>5. /\ y.kind = x.kind /\ y.held = x.held /\ y.added = x.added
        /\ y.dropped = x.dropped
    <2> HIDE DEF x, s
    <2> QED BY <1>1 DEF Transaction
  <1> HIDE DEF y
  <1>6. tx'[t] = y /\ Others(t)
    BY <1>3, Proceeds DEF EventsTypeOK, Others
  <1> QED BY <1>4, <1>5, <1>6 DEF Keeps, x

(* Nor by the choice of the events that must go.                           *)
LEMMA TrimMoves ==
    ASSUME EventsTypeOK, NEW t \in DOMAIN tx, Trim(t)
    PROVE  Keeps(t)
  <1> DEFINE x == tx[t]
             s == Head(x.todo)
  <1>1. x \in Transaction
    BY DEF EventsTypeOK
  <1> DEFINE S == Oldest(Seen(t), Count(t) - EventLimit + 1)
             y == [x EXCEPT !.todo = Deletion(s.job, S)
                                    \o <<[s EXCEPT !.do = "insert"]>> \o Tail(x.todo)]
  <1>3. Proceed(t, y)
    BY DEF Trim, Now, Rest
  <1>4. condition' = condition /\ ledger' = ledger
    BY DEF Trim
  <1>5. /\ y.kind = x.kind /\ y.held = x.held /\ y.added = x.added
        /\ y.dropped = x.dropped
    <2> HIDE DEF x, s
    <2> QED BY <1>1 DEF Transaction
  <1> HIDE DEF y
  <1>6. tx'[t] = y /\ Others(t)
    BY <1>3, Proceeds DEF EventsTypeOK, Others
  <1> QED BY <1>4, <1>5, <1>6 DEF Keeps, x

(* Nor when it closes an analysis: others see that at its commit.          *)
LEMMA CloseJobMoves ==
    ASSUME EventsTypeOK, NEW t \in DOMAIN tx, CloseJob(t)
    PROVE  Keeps(t)
  <1> DEFINE x == tx[t]
             s == Head(x.todo)
  <1>1. x \in Transaction
    BY DEF EventsTypeOK
  <1> DEFINE y == [x EXCEPT !.todo = Tail(x.todo), !.closed = x.closed \cup {s.job}]
  <1>3. Proceed(t, y)
    BY DEF CloseJob, Now, Rest
  <1>4. condition' = condition /\ ledger' = ledger
    BY DEF CloseJob
  <1>5. /\ y.kind = x.kind /\ y.held = x.held /\ y.added = x.added
        /\ y.dropped = x.dropped
    <2> HIDE DEF x, s
    <2> QED BY <1>1 DEF Transaction
  <1> HIDE DEF y
  <1>6. tx'[t] = y /\ Others(t)
    BY <1>3, Proceeds DEF EventsTypeOK, Others
  <1> QED BY <1>4, <1>5, <1>6 DEF Keeps, x

(* Nor when it deletes one: others see that at its commit.                 *)
LEMMA CascadeEventsMoves ==
    ASSUME EventsTypeOK, NEW t \in DOMAIN tx, CascadeEvents(t)
    PROVE  Keeps(t)
  <1> DEFINE x == tx[t]
             s == Head(x.todo)
  <1>1. x \in Transaction
    BY DEF EventsTypeOK
  <1>2. PICK row \in s.rows :
          Proceed(t, [x EXCEPT
             !.todo = Deletion(s.job, {e \in Seen(t) : e.of = row[2]})
                      \o Through("cascade", s.job, s.rows \ {row})
                      \o Tail(x.todo),
             !.deleted = x.deleted \cup {row[2]}])
    BY DEF CascadeEvents, Now, Rest
  <1> DEFINE y == [x EXCEPT
             !.todo = Deletion(s.job, {e \in Seen(t) : e.of = row[2]})
                      \o Through("cascade", s.job, s.rows \ {row})
                      \o Tail(x.todo),
             !.deleted = x.deleted \cup {row[2]}]
  <1>3. Proceed(t, y)
    BY <1>2
  <1>4. condition' = condition /\ ledger' = ledger
    BY DEF CascadeEvents
  <1>5. /\ y.kind = x.kind /\ y.held = x.held /\ y.added = x.added
        /\ y.dropped = x.dropped
    <2> HIDE DEF x, s
    <2> QED BY <1>1 DEF Transaction
  <1> HIDE DEF y
  <1>6. tx'[t] = y /\ Others(t)
    BY <1>3, Proceeds DEF EventsTypeOK, Others
  <1> QED BY <1>4, <1>5, <1>6 DEF Keeps, x

(* Nor by the choice of the events that have expired.                      *)
LEMMA DiscardOldMoves ==
    ASSUME EventsTypeOK, NEW t \in DOMAIN tx, DiscardOld(t)
    PROVE  Keeps(t)
  <1> DEFINE x == tx[t]
             s == Head(x.todo)
  <1>1. x \in Transaction
    BY DEF EventsTypeOK
  <1>2. PICK k \in 1..EventLimit :
          Proceed(t, [x EXCEPT !.todo =
             Deletion(0, Oldest(ledger.events, k)) \o Tail(x.todo)])
    BY DEF DiscardOld, Now, Rest
  <1> DEFINE y == [x EXCEPT !.todo = Deletion(0, Oldest(ledger.events, k)) \o Tail(x.todo)]
  <1>3. Proceed(t, y)
    BY <1>2
  <1>4. condition' = condition /\ ledger' = ledger
    BY DEF DiscardOld
  <1>5. /\ y.kind = x.kind /\ y.held = x.held /\ y.added = x.added
        /\ y.dropped = x.dropped
    <2> HIDE DEF x, s
    <2> QED BY <1>1 DEF Transaction
  <1> HIDE DEF y
  <1>6. tx'[t] = y /\ Others(t)
    BY <1>3, Proceeds DEF EventsTypeOK, Others
  <1> QED BY <1>4, <1>5, <1>6 DEF Keeps, x

(* What taking a row changes.                                              *)
LEMMA TakeMoves ==
    ASSUME EventsTypeOK, NEW t \in DOMAIN tx, Take(t)
    PROVE  /\ Others(t)
           /\ tx'[t].kind = tx[t].kind /\ tx'[t].added = tx[t].added
           /\ tx'[t].dropped = tx[t].dropped
           /\ condition' = condition /\ ledger' = ledger
           /\ Now(t).do = "lock" /\ ~Stale(t) /\ Running(t)
           /\ \E row \in Now(t).rows :
                 /\ Blockers(t, row, Now(t).mode) = {}
                 /\ tx'[t].held = tx[t].held \cup {<<row, Now(t).mode>>}
                 /\ tx'[t].skipped = tx[t].skipped
                 /\ tx'[t].todo =
                       IF Now(t).rows \ {row} = {} THEN Rest(t)
                       ELSE <<[Now(t) EXCEPT !.rows = Now(t).rows \ {row}]>> \o Rest(t)
  <1> DEFINE x == tx[t]
             s == Now(t)
  <1>1. x \in Transaction
    BY DEF EventsTypeOK
  <1>2. PICK row \in s.rows :
          /\ Blockers(t, row, s.mode) = {}
          /\ Proceed(t, [x EXCEPT !.todo =
                            IF s.rows \ {row} = {} THEN Rest(t)
                            ELSE <<[s EXCEPT !.rows = s.rows \ {row}]>> \o Rest(t),
                         !.held = x.held \cup {<<row, s.mode>>}])
    BY DEF Take
  <1> DEFINE q == IF s.rows \ {row} = {} THEN Rest(t)
                  ELSE <<[s EXCEPT !.rows = s.rows \ {row}]>> \o Rest(t)
             y == [x EXCEPT !.todo = q, !.held = x.held \cup {<<row, s.mode>>}]
  <1>3. Proceed(t, y)
    BY <1>2
  <1>4. /\ condition' = condition /\ ledger' = ledger
        /\ s.do = "lock" /\ ~Stale(t) /\ Running(t)
    BY DEF Take, Goes
  <1>5. /\ y.kind = x.kind /\ y.held = x.held \cup {<<row, s.mode>>} /\ y.added = x.added
        /\ y.dropped = x.dropped /\ y.skipped = x.skipped /\ y.todo = q
    <2> HIDE DEF x, s, q
    <2> QED BY <1>1 DEF Transaction
  <1> HIDE DEF y
  <1>6. tx'[t] = y /\ Others(t)
    BY <1>3, Proceeds DEF EventsTypeOK, Others
  <1> HIDE DEF x, s, q
  <1>7. /\ tx'[t].kind = x.kind /\ tx'[t].added = x.added /\ tx'[t].dropped = x.dropped
        /\ tx'[t].held = x.held \cup {<<row, s.mode>>}
        /\ tx'[t].skipped = x.skipped /\ tx'[t].todo = q
    BY <1>5, <1>6
  <1> QED BY <1>2, <1>4, <1>6, <1>7 DEF x, s, q

(* What deleting events changes.                                           *)
LEMMA DropMoves ==
    ASSUME EventsTypeOK, NEW t \in DOMAIN tx, Drop(t)
    PROVE  LET S == {e \in Seen(t) : EventRow(e) \in Now(t).rows}
           IN  /\ Others(t)
               /\ tx'[t].kind = tx[t].kind /\ tx'[t].added = tx[t].added
               /\ tx'[t].held = tx[t].held
               /\ tx'[t].skipped = tx[t].skipped
               /\ tx'[t].dropped = tx[t].dropped \cup S
               /\ condition' = condition /\ ledger' = ledger
               /\ Now(t).do = "drop" /\ Running(t)
               /\ tx'[t].todo =
                     (IF S = {} THEN <<>> ELSE <<Lock(0, {LedgerRow}, "nokey")>>)
                     \o Rest(t)
  <1> DEFINE x == tx[t]
             S == {e \in Seen(t) : EventRow(e) \in Now(t).rows}
             q == (IF S = {} THEN <<>> ELSE <<Lock(0, {LedgerRow}, "nokey")>>) \o Rest(t)
             y == [x EXCEPT !.todo = q, !.dropped = x.dropped \cup S]
  <1>1. x \in Transaction
    BY DEF EventsTypeOK
  <1>3. Proceed(t, y)
    BY DEF Drop
  <1>4. /\ condition' = condition /\ ledger' = ledger
        /\ Now(t).do = "drop" /\ Running(t)
    BY DEF Drop, Goes
  <1>5. /\ y.kind = x.kind /\ y.held = x.held /\ y.added = x.added
        /\ y.dropped = x.dropped \cup S /\ y.skipped = x.skipped /\ y.todo = q
    <2> HIDE DEF x, S, q
    <2> QED BY <1>1 DEF Transaction
  <1> HIDE DEF y
  <1>6. tx'[t] = y /\ Others(t)
    BY <1>3, Proceeds DEF EventsTypeOK, Others
  <1> HIDE DEF x, q, S
  <1>7. /\ tx'[t].kind = x.kind /\ tx'[t].added = x.added /\ tx'[t].held = x.held
        /\ tx'[t].dropped = x.dropped \cup S
        /\ tx'[t].skipped = x.skipped /\ tx'[t].todo = q
    BY <1>5, <1>6
  <1> QED BY <1>4, <1>6, <1>7 DEF x, q, S

(* What inserting an event changes.                                        *)
LEMMA InsertMoves ==
    ASSUME EventsTypeOK, NEW t \in DOMAIN tx, Insert(t)
    PROVE  LET e == [n |-> ledger.next, of |-> Now(t).job, ended |-> Now(t).ended]
           IN  /\ Others(t)
               /\ tx'[t].kind = tx[t].kind /\ tx'[t].held = tx[t].held
               /\ tx'[t].dropped = tx[t].dropped
               /\ tx'[t].added = tx[t].added \cup {e}
               /\ condition' = condition
               /\ ledger'.events = ledger.events /\ ledger'.count = ledger.count
               /\ ledger'.next = ledger.next + 1
               /\ ledger' \in [count : Nat, events : SUBSET ProductEvent, next : Nat]
               /\ Now(t).do = "insert" /\ Running(t) /\ ~Stale(t)
  <1> DEFINE x == tx[t]
             e == [n |-> ledger.next, of |-> Now(t).job, ended |-> Now(t).ended]
             y == [x EXCEPT !.todo = Rest(t), !.added = x.added \cup {e}]
  <1>1. x \in Transaction
    BY DEF EventsTypeOK
  <1>3. Proceed(t, y)
    BY DEF Insert
  <1>4. /\ condition' = condition /\ ledger' = [ledger EXCEPT !.next = ledger.next + 1]
        /\ Now(t).do = "insert" /\ Running(t) /\ ~Stale(t)
    BY DEF Insert, Goes
  <1>5. /\ y.kind = x.kind /\ y.held = x.held /\ y.added = x.added \cup {e}
        /\ y.dropped = x.dropped
    <2> HIDE DEF x, e
    <2> QED BY <1>1 DEF Transaction
  <1>8. ledger \in [count : Nat, events : SUBSET ProductEvent, next : Nat]
    BY DEF EventsTypeOK
  <1> HIDE DEF y
  <1>6. tx'[t] = y /\ Others(t)
    BY <1>3, Proceeds DEF EventsTypeOK, Others
  <1> HIDE DEF x, e
  <1>7. /\ tx'[t].kind = x.kind /\ tx'[t].held = x.held /\ tx'[t].dropped = x.dropped
        /\ tx'[t].added = x.added \cup {e}
    BY <1>5, <1>6
  <1>9. /\ ledger'.events = ledger.events /\ ledger'.count = ledger.count
        /\ ledger'.next = ledger.next + 1
        /\ ledger' \in [count : Nat, events : SUBSET ProductEvent, next : Nat]
    BY <1>4, <1>8
  <1> QED BY <1>4, <1>6, <1>7, <1>9 DEF x, e

(* What the end of a transaction changes.                                  *)
LEMMA DoneMoves ==
    ASSUME tx \in [DOMAIN tx -> Transaction], NEW t, Done(t)
    PROVE  /\ DOMAIN tx' = DOMAIN tx \ {t}
           /\ \A u \in DOMAIN tx' : u \in DOMAIN tx /\ u # t /\ tx'[u] = tx[u]
           /\ tx' \in [DOMAIN tx' -> Transaction]
  BY DEF Done

(* An aborted transaction ends, or begins again as one that stores a       *)
(* failure (finish() in jobs.py).                                          *)
LEMMA AbortMoves ==
    ASSUME EventsTypeOK, NEW t \in DOMAIN tx, Local(tx[t]), Abort(t)
    PROVE  /\ condition' = condition /\ ledger' = ledger
           /\ \/ Done(t)
              \/ /\ Others(t)
                 /\ tx'[t] \in Transaction /\ Local(tx'[t])
                 /\ tx'[t].held = {} /\ tx'[t].added = {} /\ tx'[t].dropped = {}
                 /\ \A i \in 1..Len(tx'[t].todo) : tx'[t].todo[i].do # "insert"
  <1>1. condition' = condition /\ ledger' = ledger
    BY DEF Abort
  <1>2. CASE Done(t)
    BY <1>1, <1>2
  <1>3. CASE tx[t].kind = "finish" /\ Proceed(t, Begin("failed", tx[t].job))
    <2> DEFINE j == tx[t].job
               y == Begin("failed", j)
    <2>1. j \in Job
      BY <1>3 DEF Local, Shaped, Wide
    <2>2. <<"failed", j>> \in Work
      <3> HIDE DEF j
      <3> QED BY <2>1 DEF Work, Kind, Wide
    <2>3. y.held = {} /\ y.added = {} /\ y.dropped = {} /\ y.todo = Program("failed", j)
      BY DEF Begin
    <2>4. y \in Transaction /\ Local(y)
      <3> HIDE DEF j
      <3> QED BY <2>2, BeginLocal
    <2>5. \A i \in 1..Len(y.todo) : y.todo[i].do # "insert"
      <3> DEFINE w == Program("failed", j)
      <3>1. Begins("failed", w)
        <4> HIDE DEF j
        <4> QED BY <2>1, NarrowBegins
      <3> HIDE DEF y, w
      <3> QED BY <2>3, <3>1 DEF Begins, Sound, Follows, Tidy, w
    <2>6. Proceed(t, y)
      BY <1>3
    <2> HIDE DEF y
    <2>7. tx'[t] = y /\ Others(t)
      BY <2>6, Proceeds DEF EventsTypeOK, Others
    <2> QED BY <1>1, <2>3, <2>4, <2>5, <2>7
  <1> QED BY <1>2, <1>3 DEF Abort

(* The steps, as others see them.                                          *)
LEMMA StepCases ==
    ASSUME EventsTypeOK, LocalInv, EventsNext
    PROVE  \E t \in DOMAIN tx :
              \/ Keeps(t) \/ Take(t) \/ Drop(t) \/ Insert(t) \/ Commit(t) \/ Abort(t)
  BY SkipMoves, IterateMoves, TrimMoves, CloseJobMoves, CascadeEventsMoves,
     DiscardOldMoves DEF EventsNext

(* What a transaction relies on for itself survives every step.            *)
LEMMA LocalNext ==
    ASSUME EventsTypeOK, LocalInv, EventsNext
    PROVE  /\ LocalInv' /\ DOMAIN tx' \subseteq Thread
           /\ tx' \in [DOMAIN tx' -> Transaction]
  <1>0. SUFFICES ASSUME NEW t \in DOMAIN tx,
                        \/ Skip(t) \/ Iterate(t) \/ Take(t) \/ Drop(t) \/ Trim(t)
                        \/ Insert(t) \/ CloseJob(t) \/ CascadeEvents(t)
                        \/ DiscardOld(t) \/ Commit(t) \/ Abort(t)
                 PROVE  /\ LocalInv' /\ DOMAIN tx' \subseteq Thread
                        /\ tx' \in [DOMAIN tx' -> Transaction]
    BY DEF EventsNext
  <1> DEFINE Good == /\ LocalInv' /\ DOMAIN tx' \subseteq Thread
                     /\ tx' \in [DOMAIN tx' -> Transaction]
  <1>1. /\ tx \in [DOMAIN tx -> Transaction] /\ DOMAIN tx \subseteq Thread
        /\ \A u \in DOMAIN tx : Local(tx[u])
        /\ Local(tx[t])
    BY DEF EventsTypeOK, LocalInv
  <1>2. ASSUME Done(t) PROVE Good
    BY <1>1, <1>2, DoneMoves DEF LocalInv
  <1>3. ASSUME Others(t), tx'[t] \in Transaction, Local(tx'[t]), \E v : Proceed(t, v)
        PROVE  Good
    <2>1. \A u \in DOMAIN tx' : tx'[u] \in Transaction /\ Local(tx'[u])
      BY <1>1, <1>3 DEF Others
    <2>2. tx' = [u \in DOMAIN tx' |-> tx'[u]]
      BY <1>1, <1>3 DEF Proceed
    <2>3. tx' \in [DOMAIN tx' -> Transaction]
      BY <2>1, <2>2
    <2> QED BY <1>1, <1>3, <2>1, <2>3 DEF Others, LocalInv
  <1>4. CASE Skip(t)
    <2>1. tx'[t] \in Transaction /\ Local(tx'[t])
      BY <1>1, <1>4, SkipLocal
    <2>2. Others(t)
      BY <1>4, SkipMoves DEF Keeps
    <2>3. \E v : Proceed(t, v)
      BY <1>4 DEF Skip
    <2> QED BY <1>3, <2>1, <2>2, <2>3
  <1>5. CASE Iterate(t)
    <2>1. tx'[t] \in Transaction /\ Local(tx'[t])
      BY <1>1, <1>5, IterateLocal
    <2>2. Others(t)
      BY <1>5, IterateMoves DEF Keeps
    <2>3. \E v : Proceed(t, v)
      BY <1>5 DEF Iterate
    <2> QED BY <1>3, <2>1, <2>2, <2>3
  <1>6. CASE Take(t)
    <2>1. tx'[t] \in Transaction /\ Local(tx'[t])
      BY <1>1, <1>6, TakeLocal
    <2>2. Others(t)
      BY <1>6, TakeMoves
    <2>3. \E v : Proceed(t, v)
      BY <1>6 DEF Take
    <2> QED BY <1>3, <2>1, <2>2, <2>3
  <1>7. CASE Drop(t)
    <2>1. tx'[t] \in Transaction /\ Local(tx'[t])
      BY <1>1, <1>7, DropLocal
    <2>2. Others(t)
      BY <1>7, DropMoves
    <2>3. \E v : Proceed(t, v)
      BY <1>7 DEF Drop
    <2> QED BY <1>3, <2>1, <2>2, <2>3
  <1>8. CASE Trim(t)
    <2>1. tx'[t] \in Transaction /\ Local(tx'[t])
      BY <1>1, <1>8, TrimLocal
    <2>2. Others(t)
      BY <1>8, TrimMoves DEF Keeps
    <2>3. \E v : Proceed(t, v)
      BY <1>8 DEF Trim
    <2> QED BY <1>3, <2>1, <2>2, <2>3
  <1>9. CASE Insert(t)
    <2>1. tx'[t] \in Transaction /\ Local(tx'[t])
      BY <1>1, <1>9, InsertLocal
    <2>2. Others(t)
      BY <1>9, InsertMoves
    <2>3. \E v : Proceed(t, v)
      BY <1>9 DEF Insert
    <2> QED BY <1>3, <2>1, <2>2, <2>3
  <1>10. CASE CloseJob(t)
    <2>1. tx'[t] \in Transaction /\ Local(tx'[t])
      BY <1>1, <1>10, CloseJobLocal
    <2>2. Others(t)
      BY <1>10, CloseJobMoves DEF Keeps
    <2>3. \E v : Proceed(t, v)
      BY <1>10 DEF CloseJob
    <2> QED BY <1>3, <2>1, <2>2, <2>3
  <1>11. CASE CascadeEvents(t)
    <2>1. tx'[t] \in Transaction /\ Local(tx'[t])
      BY <1>1, <1>11, CascadeEventsLocal
    <2>2. Others(t)
      BY <1>11, CascadeEventsMoves DEF Keeps
    <2>3. \E v : Proceed(t, v)
      BY <1>11 DEF CascadeEvents
    <2> QED BY <1>3, <2>1, <2>2, <2>3
  <1>12. CASE DiscardOld(t)
    <2>1. tx'[t] \in Transaction /\ Local(tx'[t])
      BY <1>1, <1>12, DiscardOldLocal
    <2>2. Others(t)
      BY <1>12, DiscardOldMoves DEF Keeps
    <2>3. \E v : Proceed(t, v)
      BY <1>12 DEF DiscardOld
    <2> QED BY <1>3, <2>1, <2>2, <2>3
  <1>13. CASE Commit(t)
    BY <1>2, <1>13 DEF Commit
  <1>14. CASE Abort(t)
    <2>1. CASE Done(t)
      BY <1>2, <2>1
    <2>2. CASE ~Done(t)
      <3>1. \E v : Proceed(t, v)
        BY <1>14, <2>2 DEF Abort
      <3> QED BY <1>1, <1>3, <1>14, <2>2, <3>1, AbortMoves
    <2> QED BY <2>1, <2>2
  <1> QED BY <1>0, <1>4, <1>5, <1>6, <1>7, <1>8, <1>9, <1>10, <1>11, <1>12, <1>13, <1>14

(* Two transactions hold no locks that conflict.                           *)
Apart(x, y) ==
    \A a \in x.held, b \in y.held : a[1] = b[1] => ~Conflict(a[2], b[2])

(* Locks that conflict are never held together.                            *)
LEMMA LockNext ==
    ASSUME EventsTypeOK, LocalInv, LockInv, EventsNext
    PROVE  LockInv'
  <1>1. \A u, v \in DOMAIN tx : u # v => Apart(tx[u], tx[v])
    BY DEF LockInv, Apart
  <1>2. (\A u, v \in DOMAIN tx' : u # v => Apart(tx'[u], tx'[v])) => LockInv'
    BY DEF LockInv, Apart
  <1>3. PICK t \in DOMAIN tx :
              \/ Keeps(t) \/ Take(t) \/ Drop(t) \/ Insert(t) \/ Commit(t) \/ Abort(t)
    BY StepCases
  <1>4. ASSUME Others(t), tx'[t].held = tx[t].held PROVE LockInv'
    <2>1. DOMAIN tx' = DOMAIN tx /\ \A u \in DOMAIN tx : tx'[u].held = tx[u].held
      BY <1>4 DEF Others
    <2> QED BY <1>1, <1>2, <2>1 DEF Apart
  <1>5. ASSUME Others(t), tx'[t].held = {} PROVE LockInv'
    <2>1. \A u, v \in DOMAIN tx' : u # v => Apart(tx'[u], tx'[v])
      BY <1>1, <1>5 DEF Apart, Others
    <2> QED BY <1>2, <2>1
  <1>6. ASSUME Done(t) PROVE LockInv'
    BY <1>1, <1>2, <1>6, DoneMoves DEF EventsTypeOK
  <1>7. CASE Keeps(t)
    BY <1>4, <1>7 DEF Keeps
  <1>8. CASE Take(t)
    <2>1. Others(t)
      BY <1>8, TakeMoves
    <2>2. PICK row \in Now(t).rows :
            /\ Blockers(t, row, Now(t).mode) = {}
            /\ tx'[t].held = tx[t].held \cup {<<row, Now(t).mode>>}
      BY <1>8, TakeMoves
    <2> DEFINE m == Now(t).mode
    <2>3. ASSUME NEW u \in DOMAIN tx, u # t, NEW lock \in tx[u].held, lock[1] = row
          PROVE  ~Conflict(lock[2], m) /\ ~Conflict(m, lock[2])
      BY <2>2, <2>3 DEF Blockers, Conflict
    <2> HIDE DEF m
    <2>4. ASSUME NEW u \in DOMAIN tx, u # t
          PROVE  Apart(tx'[t], tx'[u]) /\ Apart(tx'[u], tx'[t])
      <3>1. Apart(tx[t], tx[u]) /\ Apart(tx[u], tx[t]) /\ tx'[u] = tx[u]
        BY <1>1, <2>1, <2>4 DEF Others
      <3>2. tx'[t].held = tx[t].held \cup {<<row, m>>}
        BY <2>2 DEF m
      <3> QED BY <2>3, <2>4, <3>1, <3>2 DEF Apart
    <2>5. \A u, v \in DOMAIN tx' : u # v => Apart(tx'[u], tx'[v])
      BY <1>1, <2>1, <2>4 DEF Others
    <2> QED BY <1>2, <2>5
  <1>9. CASE Drop(t)
    BY <1>4, <1>9, DropMoves
  <1>10. CASE Insert(t)
    BY <1>4, <1>10, InsertMoves
  <1>11. CASE Commit(t)
    BY <1>6, <1>11 DEF Commit
  <1>12. CASE Abort(t)
    <2>1. Local(tx[t])
      BY DEF LocalInv
    <2> QED BY <1>5, <1>6, <1>12, <2>1, AbortMoves
  <1> QED BY <1>3, <1>7, <1>8, <1>9, <1>10, <1>11, <1>12

(* The ledger is left alone.                                               *)
LEMMA CommitMoves ==
    ASSUME EventsTypeOK, NEW t \in DOMAIN tx, Commit(t)
    PROVE  /\ Done(t) /\ tx[t].todo = <<>>
           /\ \A j \in Job : condition'[j] = IF j \in tx[t].deleted THEN "gone"
                                             ELSE IF j \in tx[t].closed THEN "closed"
                                             ELSE condition[j]
           /\ ledger'.count = Count(t) /\ ledger'.events = Seen(t)
           /\ ledger'.next = ledger.next
  <1>1. ledger \in [count : Nat, events : SUBSET ProductEvent, next : Nat]
    BY DEF EventsTypeOK
  <1> QED BY <1>1 DEF Commit

(* The events E have different numbers, below n.                           *)
Numbers(E, n) ==
    /\ \A e \in E : e.n < n
    /\ \A d, e \in E : d.n = e.n => d = e

(* Events of two sets never have one number.                               *)
Differ(D, E) == \A d \in D, e \in E : d.n # e.n

(* The numbers of events, by sets.                                         *)
LEMMA NumberIs ==
    NumberInv <=>
       /\ Numbers(ledger.events, ledger.next)
       /\ \A t \in DOMAIN tx : /\ Numbers(tx[t].added, ledger.next)
                               /\ Differ(ledger.events, tx[t].added)
       /\ \A t, u \in DOMAIN tx : u # t => Differ(tx[u].added, tx[t].added)
  BY DEF NumberInv, Numbers, Differ

(* The same of the next state.                                             *)
LEMMA NumberIsNext ==
    NumberInv' <=>
       /\ Numbers(ledger'.events, ledger'.next)
       /\ \A t \in DOMAIN tx' : /\ Numbers(tx'[t].added, ledger'.next)
                                /\ Differ(ledger'.events, tx'[t].added)
       /\ \A t, u \in DOMAIN tx' : u # t => Differ(tx'[u].added, tx'[t].added)
  BY DEF NumberInv, Numbers, Differ

(* A number is given once.                                                 *)
LEMMA NumberNext ==
    ASSUME EventsTypeOK, LocalInv, NumberInv, EventsNext
    PROVE  NumberInv'
  <1>1. /\ Numbers(ledger.events, ledger.next)
        /\ \A t \in DOMAIN tx : /\ Numbers(tx[t].added, ledger.next)
                                /\ Differ(ledger.events, tx[t].added)
        /\ \A t, u \in DOMAIN tx : u # t => Differ(tx[u].added, tx[t].added)
    BY NumberIs
  <1>2. PICK t \in DOMAIN tx :
              \/ Keeps(t) \/ Take(t) \/ Drop(t) \/ Insert(t) \/ Commit(t) \/ Abort(t)
    BY StepCases
  <1>3. ASSUME Others(t), tx'[t].added = tx[t].added, ledger' = ledger PROVE NumberInv'
    <2>1. DOMAIN tx' = DOMAIN tx /\ \A u \in DOMAIN tx : tx'[u].added = tx[u].added
      BY <1>3 DEF Others
    <2> QED BY <1>1, <1>3, <2>1, NumberIsNext
  <1>4. ASSUME Others(t), tx'[t].added = {}, ledger' = ledger PROVE NumberInv'
    <2>1. Numbers({}, ledger.next) /\ \A E : Differ({}, E) /\ Differ(E, {})
      BY DEF Numbers, Differ
    <2>2. /\ DOMAIN tx' = DOMAIN tx
          /\ \A u \in DOMAIN tx : tx'[u].added = IF u = t THEN {} ELSE tx[u].added
      BY <1>4 DEF Others
    <2> QED BY <1>1, <1>4, <2>1, <2>2, NumberIsNext
  <1>5. ASSUME Done(t), ledger' = ledger PROVE NumberInv'
    BY <1>1, <1>5, DoneMoves, NumberIsNext DEF EventsTypeOK
  <1>6. CASE Keeps(t)
    BY <1>3, <1>6 DEF Keeps
  <1>7. CASE Take(t)
    BY <1>3, <1>7, TakeMoves
  <1>8. CASE Drop(t)
    BY <1>3, <1>8, DropMoves
  <1>9. CASE Insert(t)
    <2> DEFINE e == [n |-> ledger.next, of |-> Now(t).job, ended |-> Now(t).ended]
    <2>1. /\ Others(t) /\ tx'[t].added = tx[t].added \cup {e}
          /\ ledger'.events = ledger.events /\ ledger'.next = ledger.next + 1
      BY <1>9, InsertMoves
    <2>2. e.n = ledger.next /\ ledger.next \in Nat
      BY DEF EventsTypeOK
    <2> HIDE DEF e
    <2>3. /\ ledger.events \subseteq ProductEvent
          /\ \A u \in DOMAIN tx : tx[u].added \subseteq ProductEvent
      BY DEF EventsTypeOK, Transaction
    <2>4. \A d \in ProductEvent : d.n \in Nat
      BY DEF ProductEvent
    <2>5. ASSUME NEW E \in SUBSET ProductEvent, Numbers(E, ledger.next)
          PROVE  /\ Numbers(E, ledger.next + 1) /\ Numbers(E \cup {e}, ledger.next + 1)
                 /\ Differ(E, {e}) /\ Differ({e}, E)
      <3>1. \A d \in E : d.n \in Nat /\ d.n < ledger.next
        BY <2>4, <2>5 DEF Numbers
      <3>2. \A d \in E : d.n < ledger.next + 1 /\ d.n # ledger.next
        BY <2>2, <3>1
      <3>3. e.n < ledger.next + 1
        BY <2>2
      <3>4. Numbers(E, ledger.next + 1)
        BY <2>5, <3>2 DEF Numbers
      <3>5. \A d \in E \cup {e} : d.n < ledger.next + 1
        BY <3>2, <3>3
      <3>6. \A c, d \in E \cup {e} : c.n = d.n => c = d
        BY <2>2, <2>5, <3>2 DEF Numbers
      <3>7. Differ(E, {e}) /\ Differ({e}, E)
        BY <2>2, <3>2 DEF Differ
      <3> QED BY <3>4, <3>5, <3>6, <3>7 DEF Numbers
    <2>6. Numbers(ledger'.events, ledger'.next)
      BY <1>1, <2>1, <2>3, <2>5
    <2>7. ASSUME NEW u \in DOMAIN tx'
          PROVE  /\ Numbers(tx'[u].added, ledger'.next)
                 /\ Differ(ledger'.events, tx'[u].added)
      <3>1. u \in DOMAIN tx
        BY <2>1 DEF Others
      <3>2. /\ Numbers(tx[u].added, ledger.next + 1)
            /\ Numbers(tx[u].added \cup {e}, ledger.next + 1)
            /\ Differ(ledger.events, {e})
        BY <1>1, <2>3, <2>5, <3>1
      <3>3. Differ(ledger.events, tx[u].added)
        BY <1>1, <3>1
      <3>4. Differ(ledger.events, tx[u].added \cup {e})
        BY <3>2, <3>3 DEF Differ
      <3> QED BY <2>1, <3>1, <3>2, <3>3, <3>4 DEF Others
    <2>8. ASSUME NEW u \in DOMAIN tx', NEW v \in DOMAIN tx', u # v
          PROVE  Differ(tx'[u].added, tx'[v].added)
      <3>1. u \in DOMAIN tx /\ v \in DOMAIN tx
        BY <2>1 DEF Others
      <3>2. /\ Differ(tx[u].added, tx[v].added)
            /\ Differ(tx[u].added, {e}) /\ Differ({e}, tx[v].added)
        BY <1>1, <2>3, <2>5, <2>8, <3>1
      <3>3. /\ Differ(tx[u].added \cup {e}, tx[v].added)
            /\ Differ(tx[u].added, tx[v].added \cup {e})
        BY <3>2 DEF Differ
      <3> QED BY <2>1, <2>8, <3>1, <3>2, <3>3 DEF Others
    <2> QED BY <2>6, <2>7, <2>8, NumberIsNext
  <1>10. CASE Commit(t)
    <2>1. Done(t) /\ ledger'.events = Seen(t) /\ ledger'.next = ledger.next
      BY <1>10, CommitMoves
    <2>2. /\ DOMAIN tx' = DOMAIN tx \ {t}
          /\ \A u \in DOMAIN tx' : u \in DOMAIN tx /\ u # t /\ tx'[u] = tx[u]
      BY <2>1, DoneMoves DEF EventsTypeOK
    <2>3. Seen(t) \subseteq ledger.events \cup tx[t].added
      BY DEF Seen
    <2>4. Numbers(ledger.events \cup tx[t].added, ledger.next)
      <3>1. \A e \in ledger.events \cup tx[t].added : e.n < ledger.next
        BY <1>1 DEF Numbers
      <3>2. \A d, e \in ledger.events \cup tx[t].added : d.n = e.n => d = e
        BY <1>1 DEF Numbers, Differ
      <3> QED BY <3>1, <3>2 DEF Numbers
    <2>5. Numbers(ledger'.events, ledger'.next)
      BY <2>1, <2>3, <2>4 DEF Numbers
    <2>6. ASSUME NEW u \in DOMAIN tx'
          PROVE  /\ Numbers(tx'[u].added, ledger'.next)
                 /\ Differ(ledger'.events, tx'[u].added)
      <3>1. u \in DOMAIN tx /\ u # t /\ tx'[u] = tx[u]
        BY <2>2
      <3>2. Differ(ledger.events, tx[u].added) /\ Differ(tx[t].added, tx[u].added)
        BY <1>1, <3>1
      <3>3. Differ(Seen(t), tx[u].added)
        BY <2>3, <3>2 DEF Differ
      <3> QED BY <1>1, <2>1, <3>1, <3>3
    <2>7. \A u, v \in DOMAIN tx' : u # v => Differ(tx'[u].added, tx'[v].added)
      BY <1>1, <2>2
    <2> QED BY <2>5, <2>6, <2>7, NumberIsNext
  <1>11. CASE Abort(t)
    <2>1. Local(tx[t])
      BY DEF LocalInv
    <2> QED BY <1>4, <1>5, <1>11, <2>1, AbortMoves
  <1> QED BY <1>2, <1>6, <1>7, <1>8, <1>9, <1>10, <1>11

(* No row is locked for an update by two.                                  *)
LEMMA OneHolder ==
    ASSUME LockInv, NEW t \in DOMAIN tx, NEW u \in DOMAIN tx, u # t, NEW row,
           Has(tx[t], row)
    PROVE  ~Has(tx[u], row) /\ ~Holds(u, row)
  <1>1. ASSUME NEW b \in tx[u].held, b[1] = row PROVE FALSE
    <2> DEFINE a == <<row, "update">>
    <2>1. a \in tx[t].held /\ a[1] = b[1] /\ a[2] = "update"
      BY <1>1 DEF Has
    <2> HIDE DEF a
    <2>2. ~Conflict(a[2], b[2])
      BY <2>1 DEF LockInv
    <2> QED BY <2>1, <2>2 DEF Conflict
  <1>2. <<row, "update">>[1] = row
    OBVIOUS
  <1> QED BY <1>1, <1>2 DEF Has, Holds

(* The effects of a transaction have their locks.                          *)
LEMMA EffectsAre ==
    ASSUME LocalInv, NEW t \in DOMAIN tx
    PROVE  Effects(tx[t])
  BY DEF LocalInv, Local

(* What is deleted is there until the end.                                 *)
LEMMA DroppedNext ==
    ASSUME EventsTypeOK, LocalInv, LockInv, DroppedInv, EventsNext
    PROVE  DroppedInv'
  <1>1. \A u \in DOMAIN tx : tx[u].dropped \subseteq ledger.events \cup tx[u].added
    BY DEF DroppedInv
  <1>2. PICK t \in DOMAIN tx :
              \/ Keeps(t) \/ Take(t) \/ Drop(t) \/ Insert(t) \/ Commit(t) \/ Abort(t)
    BY StepCases
  <1>3. ASSUME Others(t), ledger'.events = ledger.events,
               tx'[t].dropped \subseteq ledger.events \cup tx'[t].added
        PROVE  DroppedInv'
    BY <1>1, <1>3 DEF DroppedInv, Others
  <1>4. ASSUME Done(t), ledger' = ledger PROVE DroppedInv'
    BY <1>1, <1>4, DoneMoves DEF EventsTypeOK, DroppedInv
  <1>5. CASE Keeps(t)
    BY <1>1, <1>3, <1>5 DEF Keeps
  <1>6. CASE Take(t)
    BY <1>1, <1>3, <1>6, TakeMoves
  <1>7. CASE Drop(t)
    <2> DEFINE S == {e \in Seen(t) : EventRow(e) \in Now(t).rows}
    <2>1. /\ Others(t) /\ tx'[t].dropped = tx[t].dropped \cup S
          /\ tx'[t].added = tx[t].added /\ ledger' = ledger
      BY <1>7, DropMoves
    <2>2. S \subseteq ledger.events \cup tx[t].added
      BY DEF Seen
    <2> HIDE DEF S
    <2> QED BY <1>1, <1>3, <2>1, <2>2
  <1>8. CASE Insert(t)
    <2> DEFINE e == [n |-> ledger.next, of |-> Now(t).job, ended |-> Now(t).ended]
    <2>1. /\ Others(t) /\ tx'[t].dropped = tx[t].dropped
          /\ tx'[t].added = tx[t].added \cup {e} /\ ledger'.events = ledger.events
      BY <1>8, InsertMoves
    <2> HIDE DEF e
    <2> QED BY <1>1, <1>3, <2>1
  <1>9. CASE Commit(t)
    <2>1. Done(t) /\ ledger'.events = Seen(t)
      BY <1>9, CommitMoves
    <2>2. \A u \in DOMAIN tx' : u \in DOMAIN tx /\ u # t /\ tx'[u] = tx[u]
      BY <2>1, DoneMoves DEF EventsTypeOK
    <2>3. ASSUME NEW u \in DOMAIN tx', NEW e \in tx'[u].dropped
          PROVE  e \in ledger'.events \cup tx'[u].added
      <3>1. u \in DOMAIN tx /\ u # t /\ tx'[u] = tx[u]
        BY <2>2
      <3>2. Has(tx[u], EventRow(e))
        BY <2>3, <3>1, EffectsAre DEF Effects
      <3>3. e \notin tx[t].dropped
        <4>1. SUFFICES ASSUME e \in tx[t].dropped PROVE FALSE
          OBVIOUS
        <4>2. Has(tx[t], EventRow(e))
          BY <4>1, EffectsAre DEF Effects
        <4> QED BY <3>1, <3>2, <4>2, OneHolder
      <3>4. e \in ledger.events \cup tx[u].added
        BY <1>1, <2>3, <3>1
      <3> QED BY <2>1, <3>1, <3>3, <3>4 DEF Seen
    <2> QED BY <2>3 DEF DroppedInv
  <1>10. CASE Abort(t)
    <2>1. Local(tx[t])
      BY DEF LocalInv
    <2> QED BY <1>3, <1>4, <1>10, <2>1, AbortMoves
  <1> QED BY <1>2, <1>5, <1>6, <1>7, <1>8, <1>9, <1>10

(* Who closes analyses has locked none that is closed already.             *)
LEMMA OpenNext ==
    ASSUME EventsTypeOK, LocalInv, LockInv, OpenInv, EventsNext
    PROVE  OpenInv'
  <1> DEFINE Locks(x, j) == \E lock \in x.held : lock[1] = JobRow(j)
  <1>1. \A u \in DOMAIN tx : tx[u].kind \in Closers =>
           \A j \in Job : Locks(tx[u], j) => condition[j] = "open"
    BY DEF OpenInv, Holds
  <1>2. (\A u \in DOMAIN tx' : tx'[u].kind \in Closers =>
           \A j \in Job : Locks(tx'[u], j) => condition'[j] = "open") => OpenInv'
    BY DEF OpenInv, Holds
  <1>3. PICK t \in DOMAIN tx :
              \/ Keeps(t) \/ Take(t) \/ Drop(t) \/ Insert(t) \/ Commit(t) \/ Abort(t)
    BY StepCases
  <1>4. ASSUME Others(t), condition' = condition, tx'[t].kind = tx[t].kind,
               tx'[t].held = tx[t].held
        PROVE  OpenInv'
    <2>1. /\ DOMAIN tx' = DOMAIN tx
          /\ \A u \in DOMAIN tx : /\ tx'[u].kind = tx[u].kind
                                  /\ tx'[u].held = tx[u].held
      BY <1>4 DEF Others
    <2> QED BY <1>1, <1>2, <1>4, <2>1
  <1>5. ASSUME Others(t), condition' = condition, tx'[t].held = {} PROVE OpenInv'
    <2>1. /\ DOMAIN tx' = DOMAIN tx
          /\ \A u \in DOMAIN tx : u # t => tx'[u] = tx[u]
      BY <1>5 DEF Others
    <2> QED BY <1>1, <1>2, <1>5, <2>1
  <1>6. ASSUME Done(t), condition' = condition PROVE OpenInv'
    <2>1. \A u \in DOMAIN tx' : u \in DOMAIN tx /\ tx'[u] = tx[u]
      BY <1>6, DoneMoves DEF EventsTypeOK
    <2> QED BY <1>1, <1>2, <1>6, <2>1
  <1>7. CASE Keeps(t)
    BY <1>4, <1>7 DEF Keeps
  <1>8. CASE Take(t)
    <2>1. /\ Others(t) /\ tx'[t].kind = tx[t].kind /\ condition' = condition
          /\ Now(t).do = "lock" /\ ~Stale(t) /\ Running(t)
      BY <1>8, TakeMoves
    <2>2. PICK row \in Now(t).rows :
            tx'[t].held = tx[t].held \cup {<<row, Now(t).mode>>}
      BY <1>8, TakeMoves
    <2>3. ASSUME NEW u \in DOMAIN tx', tx'[u].kind \in Closers, NEW j \in Job,
                 Locks(tx'[u], j)
          PROVE  condition'[j] = "open"
      <3>1. u \in DOMAIN tx
        BY <2>1 DEF Others
      <3>2. CASE u # t
        BY <1>1, <2>1, <2>3, <3>1, <3>2 DEF Others
      <3>3. CASE u = t /\ Locks(tx[t], j)
        BY <1>1, <2>1, <2>3, <3>3
      <3>4. CASE u = t /\ ~Locks(tx[t], j)
        <4>1. row = JobRow(j)
          <5>1. PICK lock \in tx'[t].held : lock[1] = JobRow(j)
            BY <2>3, <3>4
          <5>2. lock = <<row, Now(t).mode>>
            BY <2>2, <3>4, <5>1
          <5> QED BY <5>1, <5>2
        <4>2. OwnLock(Now(t)) /\ Now(t) \in Statement
          <5>1. tx[t] \in Transaction /\ tx[t].todo # <<>> /\ Local(tx[t])
            BY <2>1 DEF EventsTypeOK, LocalInv, Running
          <5>2. tx[t].kind \in Closers
            BY <2>1, <2>3, <3>4
          <5> QED BY <5>1, <5>2, HeadIs DEF Now
        <4>3. Now(t).job = j
          <5>1. row = JobRow(Now(t).job)
            BY <2>1, <4>1, <4>2 DEF OwnLock, JobRow
          <5> QED BY <4>1, <5>1 DEF JobRow
        <4>4. j # 0
          BY EventsAssumption
        <4>5. condition[j] \in Wanted(tx[t].kind)
          BY <2>1, <3>4, <4>3, <4>4 DEF Stale, Holds
        <4>6. Wanted(tx[t].kind) = {"open"}
          BY <2>1, <2>3, <3>4 DEF Wanted, Closers
        <4> QED BY <2>1, <4>5, <4>6
      <3> QED BY <3>2, <3>3, <3>4
    <2> HIDE DEF Locks
    <2> QED BY <1>2, <2>3
  <1>9. CASE Drop(t)
    BY <1>4, <1>9, DropMoves
  <1>10. CASE Insert(t)
    BY <1>4, <1>10, InsertMoves
  <1>11. CASE Commit(t)
    <2>1. /\ Done(t)
          /\ \A j \in Job : condition'[j] = IF j \in tx[t].deleted THEN "gone"
                                            ELSE IF j \in tx[t].closed THEN "closed"
                                            ELSE condition[j]
      BY <1>11, CommitMoves
    <2>2. \A u \in DOMAIN tx' : u \in DOMAIN tx /\ u # t /\ tx'[u] = tx[u]
      BY <2>1, DoneMoves DEF EventsTypeOK
    <2>3. ASSUME NEW u \in DOMAIN tx', tx'[u].kind \in Closers, NEW j \in Job,
                 Locks(tx'[u], j)
          PROVE  condition'[j] = "open"
      <3>1. u \in DOMAIN tx /\ u # t /\ tx'[u] = tx[u]
        BY <2>2
      <3>2. condition[j] = "open"
        BY <1>1, <2>3, <3>1
      <3>3. Holds(u, JobRow(j))
        BY <2>3, <3>1 DEF Holds
      <3>4. j \notin tx[t].closed \cup tx[t].deleted
        <4>1. SUFFICES ASSUME j \in tx[t].closed \cup tx[t].deleted PROVE FALSE
          OBVIOUS
        <4>2. Has(tx[t], JobRow(j))
          BY <4>1, EffectsAre DEF Effects
        <4> QED BY <3>1, <3>3, <4>2, OneHolder
      <3> QED BY <2>1, <3>2, <3>4
    <2> HIDE DEF Locks
    <2> QED BY <1>2, <2>3
  <1>12. CASE Abort(t)
    <2>1. Local(tx[t])
      BY DEF LocalInv
    <2> HIDE DEF Locks
    <2> QED BY <1>5, <1>6, <1>12, <2>1, AbortMoves
  <1> QED BY <1>3, <1>7, <1>8, <1>9, <1>10, <1>11, <1>12

(* An end is recorded once, and its analysis is closed with it.            *)
LEMMA EndedNext ==
    ASSUME EventsTypeOK, LocalInv, LockInv, OpenInv, EndedInv, EventsNext
    PROVE  EndedInv'
  <1>1. PICK t \in DOMAIN tx :
              \/ Keeps(t) \/ Take(t) \/ Drop(t) \/ Insert(t) \/ Commit(t) \/ Abort(t)
    BY StepCases
  <1>2. ASSUME condition' = condition, ledger'.events = ledger.events PROVE EndedInv'
    BY <1>2 DEF EndedInv
  <1>3. CASE Keeps(t)
    BY <1>2, <1>3 DEF Keeps
  <1>4. CASE Take(t)
    BY <1>2, <1>4, TakeMoves
  <1>5. CASE Drop(t)
    BY <1>2, <1>5, DropMoves
  <1>6. CASE Insert(t)
    BY <1>2, <1>6, InsertMoves
  <1>7. CASE Abort(t)
    <2>1. Local(tx[t])
      BY DEF LocalInv
    <2> QED BY <1>2, <1>7, <2>1, AbortMoves
  <1>8. CASE Commit(t)
    <2>1. /\ ledger'.events = Seen(t)
          /\ \A j \in Job : condition'[j] = IF j \in tx[t].deleted THEN "gone"
                                            ELSE IF j \in tx[t].closed THEN "closed"
                                            ELSE condition[j]
      BY <1>8, CommitMoves
    <2>2. Seen(t) \subseteq ledger.events \cup tx[t].added
      BY DEF Seen
    <2>3. \A e \in ledger.events \cup tx[t].added : e.of \in Job
      BY DEF EventsTypeOK, Transaction, ProductEvent
    <2>4. \A e \in ledger.events : e.ended => condition[e.of] # "open"
      BY DEF EndedInv
    <2>5. \A d, e \in ledger.events : d.of = e.of /\ d.ended /\ e.ended => d = e
      BY DEF EndedInv
    <2>6. /\ \A e \in tx[t].added : e.ended => e.of \in tx[t].closed /\ tx[t].kind \in Closers
          /\ \A d, e \in tx[t].added : d.of = e.of /\ d.ended /\ e.ended => d = e
          /\ \A j \in tx[t].closed : Has(tx[t], JobRow(j))
      BY EffectsAre DEF Effects
    <2>7. ASSUME NEW e \in ledger'.events, e.ended PROVE condition'[e.of] # "open"
      <3>1. e.of \in Job /\ (e \in ledger.events \/ e \in tx[t].added)
        BY <2>1, <2>2, <2>3, <2>7
      <3>2. CASE e \in ledger.events
        BY <2>1, <2>4, <2>7, <3>1, <3>2
      <3>3. CASE e \in tx[t].added
        BY <2>1, <2>6, <2>7, <3>1, <3>3
      <3> QED BY <3>1, <3>2, <3>3
    <2>8. ASSUME NEW d \in ledger.events, NEW e \in tx[t].added, d.of = e.of,
                 d.ended, e.ended
          PROVE  FALSE
      <3>1. e.of \in tx[t].closed /\ tx[t].kind \in Closers /\ Has(tx[t], JobRow(e.of))
            /\ e.of \in Job
        BY <2>3, <2>6, <2>8
      <3>2. Holds(t, JobRow(e.of))
        <4>1. <<JobRow(e.of), "update">>[1] = JobRow(e.of)
          OBVIOUS
        <4> QED BY <3>1, <4>1 DEF Has, Holds
      <3>3. condition[e.of] = "open"
        BY <3>1, <3>2 DEF OpenInv
      <3> QED BY <2>4, <2>8, <3>3
    <2>9. ASSUME NEW d \in ledger'.events, NEW e \in ledger'.events,
                 d.of = e.of, d.ended, e.ended
          PROVE  d = e
      <3>1. /\ d \in ledger.events \/ d \in tx[t].added
            /\ e \in ledger.events \/ e \in tx[t].added
        BY <2>1, <2>2, <2>9
      <3> QED BY <2>5, <2>6, <2>8, <2>9, <3>1
    <2> QED BY <2>7, <2>9 DEF EndedInv
  <1> QED BY <1>1, <1>3, <1>4, <1>5, <1>6, <1>7, <1>8

-----------------------------------------------------------------------------
(* A set of numbers has a least one.                                       *)
LEMMA LeastOf ==
    ASSUME NEW S \in SUBSET Nat, S # {}
    PROVE  \E n \in S : \A m \in S : n <= m
  <1> DEFINE R == {ss \in Nat \X Nat : ss[1] < ss[2]}
  <1>1. R = OpToRel(<, Nat)
    BY DEF OpToRel
  <1>2. IsWellFoundedOn(R, Nat)
    BY <1>1, NatLessThanWellFounded
  <1> HIDE DEF R
  <1>3. PICK x \in S : \A y \in S : ~ (<<y, x>> \in R)
    BY <1>2, WFMin
  <1>4. \A y \in S : ~ (y < x)
    BY <1>3 DEF R
  <1> QED BY <1>4

(* There is an oldest event.                                               *)
LEMMA OldestOne ==
    ASSUME NEW S \in SUBSET ProductEvent, S # {}
    PROVE  \E e \in S : e \in Oldest(S, 1)
  <1> DEFINE N == {e.n : e \in S}
  <1>1. N \in SUBSET Nat /\ N # {}
    BY DEF ProductEvent
  <1>2. PICK n \in N : \A m \in N : n <= m
    BY <1>1, LeastOf
  <1>3. PICK e \in S : e.n = n
    BY <1>2
  <1> DEFINE D == {d \in S : d.n < e.n}
  <1>4. D = {}
    <2>1. ASSUME NEW d \in S PROVE ~(d.n < e.n)
      <3>1. d.n \in N /\ e.n \in N /\ e.n <= d.n
        BY <1>2, <1>3
      <3> QED BY <1>1, <3>1
    <2> QED BY <2>1
  <1>5. Cardinality(D) < 1
    BY <1>4, FS_EmptySet
  <1> QED BY <1>5 DEF Oldest

(* The count that goes with a transaction is the number of events it sees. *)
LEMMA Counted ==
    ASSUME EventsTypeOK, LocalInv, NumberInv, DroppedInv, CountInv, NEW t \in DOMAIN tx
    PROVE  /\ IsFiniteSet(Seen(t)) /\ Count(t) = Cardinality(Seen(t))
           /\ Count(t) \in Nat
  <1> DEFINE E == ledger.events
             A == tx[t].added
             D == tx[t].dropped
             U == E \cup A
  <1>1. IsFiniteSet(E) /\ IsFiniteSet(A) /\ ledger.count = Cardinality(E)
    BY DEF CountInv
  <1>2. D \subseteq U
    BY DEF DroppedInv
  <1>3. E \cap A = {}
    BY DEF NumberInv
  <1> HIDE DEF E, A, D
  <1>4. Cardinality(E) \in Nat /\ Cardinality(A) \in Nat
    BY <1>1, FS_CardinalityType
  <1>5. IsFiniteSet(U) /\ Cardinality(U) = Cardinality(E) + Cardinality(A)
    <2>1. Cardinality(E \cap A) = 0
      BY <1>3, FS_EmptySet
    <2>2. /\ IsFiniteSet(E \cup A)
          /\ Cardinality(E \cup A)
                = Cardinality(E) + Cardinality(A) - Cardinality(E \cap A)
      BY <1>1, FS_Union
    <2> QED BY <1>4, <2>1, <2>2
  <1> HIDE DEF U
  <1>6. IsFiniteSet(D) /\ Cardinality(D) \in Nat
    BY <1>2, <1>5, FS_Subset, FS_CardinalityType
  <1>7. U \cap D = D
    BY <1>2
  <1>8. IsFiniteSet(U \ D) /\ Cardinality(U \ D) = Cardinality(U) - Cardinality(D)
    BY <1>5, <1>7, FS_Difference
  <1>9. Cardinality(U \ D) \in Nat
    BY <1>8, FS_CardinalityType
  <1>10. Seen(t) = U \ D /\ Count(t) = ledger.count + Cardinality(A) - Cardinality(D)
    BY DEF Seen, Count, U, E, A, D
  <1> QED BY <1>1, <1>4, <1>5, <1>6, <1>8, <1>9, <1>10

(* What a transaction sees, as a function of it and the events.            *)
LEMMA SeenIs ==
    /\ \A t : Seen(t) = SeenBy(tx[t], ledger.events)
    /\ \A t : Seen(t)' = SeenBy(tx'[t], ledger'.events)
  BY DEF Seen, SeenBy

(* A commit changes no event while another one has the commercial row.     *)
LEMMA CommitApart ==
    ASSUME EventsTypeOK, LocalInv, LockInv, NEW t \in DOMAIN tx, Commit(t),
           NEW u \in DOMAIN tx, u # t, Has(tx[u], LedgerRow)
    PROVE  ledger'.events = ledger.events
  <1>1. ~Has(tx[t], LedgerRow) /\ ~Holds(t, LedgerRow)
    BY OneHolder
  <1>2. tx[t].todo = <<>> /\ ledger'.events = Seen(t)
    BY CommitMoves
  <1>3. tx[t].added = {}
    BY <1>1, EffectsAre DEF Effects
  <1>4. tx[t].dropped = {}
    <2>1. SUFFICES ASSUME tx[t].dropped # {} PROVE FALSE
      OBVIOUS
    <2>2. PICK m \in Mode : <<LedgerRow, m>> \in tx[t].held
      BY <1>2, <2>1, EffectsAre DEF Effects
    <2>3. <<LedgerRow, m>>[1] = LedgerRow
      OBVIOUS
    <2> QED BY <1>1, <2>2, <2>3 DEF Holds
  <1> QED BY <1>2, <1>3, <1>4 DEF Seen

(* The counter is exact, and no transaction sees too many events.          *)
LEMMA CountNext ==
    ASSUME EventsTypeOK, LocalInv, LockInv, NumberInv, DroppedInv, CountInv, RoomInv,
           EventsNext
    PROVE  CountInv'
  <1> DEFINE Small(S) == IsFiniteSet(S) /\ Cardinality(S) <= EventLimit
  <1>1. /\ IsFiniteSet(ledger.events) /\ ledger.count = Cardinality(ledger.events)
        /\ ledger.count <= EventLimit
        /\ \A u \in DOMAIN tx :
              IsFiniteSet(tx[u].added) /\ Small(SeenBy(tx[u], ledger.events))
    BY SeenIs, Counted DEF CountInv
  <1>2. ASSUME /\ IsFiniteSet(ledger'.events)
               /\ ledger'.count = Cardinality(ledger'.events)
               /\ ledger'.count <= EventLimit
               /\ \A u \in DOMAIN tx' : IsFiniteSet(tx'[u].added)
               /\ \A u \in DOMAIN tx' : Small(SeenBy(tx'[u], ledger'.events))
        PROVE  CountInv'
    BY <1>2, SeenIs DEF CountInv
  <1>3. ASSUME NEW S, Small(S), NEW T \in SUBSET S PROVE Small(T)
    <2>1. /\ IsFiniteSet(T) /\ Cardinality(T) <= Cardinality(S)
          /\ Cardinality(S) \in Nat /\ Cardinality(T) \in Nat
      BY <1>3, FS_Subset, FS_CardinalityType
    <2> QED BY <1>3, <2>1, EventsAssumption
  <1>4. Small(ledger.events)
    BY <1>1
  <1> HIDE DEF Small
  <1>5. PICK t \in DOMAIN tx :
              \/ Keeps(t) \/ Take(t) \/ Drop(t) \/ Insert(t) \/ Commit(t) \/ Abort(t)
    BY StepCases
  <1>6. ASSUME Others(t), ledger'.events = ledger.events, ledger'.count = ledger.count,
               IsFiniteSet(tx'[t].added), Small(SeenBy(tx'[t], ledger.events))
        PROVE  CountInv'
    <2>1. /\ DOMAIN tx' = DOMAIN tx
          /\ \A u \in DOMAIN tx : u # t => tx'[u] = tx[u]
      BY <1>6 DEF Others
    <2>2. \A u \in DOMAIN tx' : IsFiniteSet(tx'[u].added)
      BY <1>1, <1>6, <2>1
    <2>3. \A u \in DOMAIN tx' : Small(SeenBy(tx'[u], ledger'.events))
      BY <1>1, <1>6, <2>1
    <2> QED BY <1>1, <1>2, <1>6, <2>2, <2>3
  <1>7. ASSUME Done(t), ledger' = ledger PROVE CountInv'
    <2>1. \A u \in DOMAIN tx' : u \in DOMAIN tx /\ tx'[u] = tx[u]
      BY <1>7, DoneMoves DEF EventsTypeOK
    <2>2. \A u \in DOMAIN tx' : /\ IsFiniteSet(tx'[u].added)
                                /\ Small(SeenBy(tx'[u], ledger'.events))
      BY <1>1, <1>7, <2>1
    <2> QED BY <1>1, <1>2, <1>7, <2>2
  <1>8. ASSUME tx'[t].added = tx[t].added, tx[t].dropped \subseteq tx'[t].dropped
        PROVE  Small(SeenBy(tx'[t], ledger.events)) /\ IsFiniteSet(tx'[t].added)
    <2>1. SeenBy(tx'[t], ledger.events) \subseteq SeenBy(tx[t], ledger.events)
      BY <1>8 DEF SeenBy
    <2> QED BY <1>1, <1>3, <1>8, <2>1
  <1>9. CASE Keeps(t)
    BY <1>6, <1>8, <1>9 DEF Keeps
  <1>10. CASE Take(t)
    BY <1>6, <1>8, <1>10, TakeMoves
  <1>11. CASE Drop(t)
    BY <1>6, <1>8, <1>11, DropMoves
  <1>12. CASE Insert(t)
    <2> DEFINE e == [n |-> ledger.next, of |-> Now(t).job, ended |-> Now(t).ended]
               S == SeenBy(tx[t], ledger.events)
    <2>1. /\ Others(t) /\ tx'[t].dropped = tx[t].dropped
          /\ tx'[t].added = tx[t].added \cup {e}
          /\ ledger'.events = ledger.events /\ ledger'.count = ledger.count
          /\ Now(t).do = "insert" /\ Running(t) /\ ~Stale(t)
      BY <1>12, InsertMoves
    <2> HIDE DEF e
    <2>2. IsFiniteSet(tx'[t].added)
      <3>1. IsFiniteSet(tx[t].added)
        BY <1>1
      <3> QED BY <2>1, <3>1, FS_AddElement
    <2>3. /\ tx[t].todo \in Seq(Statement) /\ tx[t].todo # <<>>
          /\ 1 \in 1..Len(tx[t].todo) /\ tx[t].todo[1] = Now(t)
      <3>1. tx[t].todo \in Seq(Statement) /\ tx[t].todo # <<>>
        BY <2>1 DEF EventsTypeOK, Transaction, Running
      <3> QED BY <3>1 DEF Now
    <2>4. Now(t).job \notin tx[t].skipped
      <3>1. Local(tx[t]) /\ tx[t] \in Transaction
        BY DEF LocalInv, EventsTypeOK
      <3> QED BY <2>1, <2>3, <3>1, HeadHas
    <2>5. Cardinality(Spared(tx[t], ledger.events, 1)) < EventLimit
      BY <2>1, <2>3, <2>4 DEF RoomInv, Room
    <2>6. Spared(tx[t], ledger.events, 1) = S
      <3>1. ~\E k : k \in 1..(1-1)
        OBVIOUS
      <3> QED BY <3>1 DEF Spared
    <2>7. IsFiniteSet(S) /\ Cardinality(S) < EventLimit
      BY <1>1, <2>5, <2>6 DEF Small
    <2> HIDE DEF S
    <2>8. Small(S \cup {e})
      <3>1. /\ IsFiniteSet(S \cup {e}) /\ Cardinality(S) \in Nat
            /\ \/ Cardinality(S \cup {e}) = Cardinality(S)
               \/ Cardinality(S \cup {e}) = Cardinality(S) + 1
        BY <2>7, FS_AddElement, FS_CardinalityType
      <3>2. Cardinality(S \cup {e}) <= EventLimit
        BY <2>7, <3>1, EventsAssumption
      <3> QED BY <3>1, <3>2 DEF Small
    <2>9. SeenBy(tx'[t], ledger.events) \subseteq S \cup {e}
      BY <2>1 DEF SeenBy, S
    <2>10. Small(SeenBy(tx'[t], ledger.events))
      BY <1>3, <2>8, <2>9
    <2> QED BY <1>6, <2>1, <2>2, <2>10
  <1>13. CASE Commit(t)
    <2>1. Done(t) /\ ledger'.events = Seen(t) /\ ledger'.count = Count(t)
      BY <1>13, CommitMoves
    <2>2. \A u \in DOMAIN tx' : u \in DOMAIN tx /\ u # t /\ tx'[u] = tx[u]
      BY <2>1, DoneMoves DEF EventsTypeOK
    <2>3. /\ IsFiniteSet(Seen(t)) /\ Count(t) = Cardinality(Seen(t))
      BY Counted
    <2>4. Small(Seen(t))
      BY <1>1, SeenIs
    <2>5. Count(t) <= EventLimit
      BY <2>3, <2>4 DEF Small
    <2>6. ASSUME NEW u \in DOMAIN tx'
          PROVE  IsFiniteSet(tx'[u].added) /\ Small(SeenBy(tx'[u], ledger'.events))
      <3>1. u \in DOMAIN tx /\ u # t /\ tx'[u] = tx[u]
        BY <2>2
      <3>2. CASE Has(tx[u], LedgerRow)
        <4>1. ledger'.events = ledger.events
          BY <1>13, <3>1, <3>2, CommitApart
        <4> QED BY <1>1, <3>1, <4>1
      <3>3. CASE ~Has(tx[u], LedgerRow)
        <4>1. tx[u].added = {}
          BY <3>1, <3>3, EffectsAre DEF Effects
        <4>2. SeenBy(tx'[u], ledger'.events) \subseteq Seen(t)
          BY <2>1, <3>1, <4>1 DEF SeenBy
        <4> QED BY <1>1, <1>3, <2>4, <3>1, <4>2
      <3> QED BY <3>2, <3>3
    <2> QED BY <1>2, <2>1, <2>3, <2>5, <2>6
  <1>14. CASE Abort(t)
    <2>1. /\ Local(tx[t]) /\ condition' = condition /\ ledger' = ledger
      BY <1>14, AbortMoves DEF LocalInv
    <2>2. CASE Done(t)
      BY <1>7, <2>1, <2>2
    <2>3. CASE ~Done(t)
      <3>1. Others(t) /\ tx'[t].added = {} /\ tx'[t].dropped = {}
        BY <1>14, <2>1, <2>3, AbortMoves
      <3>2. SeenBy(tx'[t], ledger.events) = ledger.events
        BY <3>1 DEF SeenBy
      <3> QED BY <1>4, <1>6, <2>1, <3>1, <3>2, FS_EmptySet
    <2> QED BY <2>2, <2>3
  <1> QED BY <1>5, <1>9, <1>10, <1>11, <1>12, <1>13, <1>14

(* What is left to do after an analysis was passed over.                   *)
LEMMA SkipTodo ==
    ASSUME EventsTypeOK, NEW t \in DOMAIN tx, Skip(t)
    PROVE  /\ tx[t].todo # <<>> /\ tx'[t].todo = Tail(tx[t].todo)
           /\ tx'[t].skipped = tx[t].skipped \cup {Head(tx[t].todo).job}
  <1> DEFINE x == tx[t]
             s == Head(x.todo)
             y == [x EXCEPT !.todo = Tail(x.todo), !.skipped = x.skipped \cup {s.job}]
  <1>1. x \in Transaction /\ x.todo # <<>>
    BY DEF EventsTypeOK, Skip, Running
  <1>2. Proceed(t, y)
    BY DEF Skip, Now, Rest
  <1>3. y.todo = Tail(x.todo) /\ y.skipped = x.skipped \cup {s.job}
    <2> HIDE DEF x, s
    <2> QED BY <1>1 DEF Transaction
  <1> HIDE DEF y
  <1>4. tx'[t] = y
    BY <1>2, Proceeds DEF EventsTypeOK
  <1> QED BY <1>1, <1>3, <1>4

(* What is left to do after the choice of the events that must go.         *)
LEMMA TrimTodo ==
    ASSUME EventsTypeOK, NEW t \in DOMAIN tx, Trim(t)
    PROVE  LET S == Oldest(Seen(t), Count(t) - EventLimit + 1)
           IN  /\ Running(t) /\ ~Stale(t) /\ Now(t).do = "record"
               /\ tx'[t].todo = (Deletion(Now(t).job, S)
                                 \o <<[Now(t) EXCEPT !.do = "insert"]>>) \o Rest(t)
  <1> DEFINE x == tx[t]
             S == Oldest(Seen(t), Count(t) - EventLimit + 1)
             q == (Deletion(Now(t).job, S) \o <<[Now(t) EXCEPT !.do = "insert"]>>)
                  \o Rest(t)
             y == [x EXCEPT !.todo = q]
  <1>1. x \in Transaction /\ Running(t) /\ ~Stale(t) /\ Now(t).do = "record"
    BY DEF EventsTypeOK, Trim, Goes
  <1>2. Proceed(t, y)
    BY DEF Trim
  <1>3. y.todo = q
    <2> HIDE DEF x, q
    <2> QED BY <1>1 DEF Transaction
  <1> HIDE DEF y
  <1>4. tx'[t] = y
    BY <1>2, Proceeds DEF EventsTypeOK
  <1> QED BY <1>1, <1>3, <1>4

(* Room that is kept while the first step is done.                         *)
LEMMA RoomMoves ==
    ASSUME NEW x \in Transaction, NEW y, NEW new \in Seq(Statement), NEW E,
           x.todo # <<>>, y.todo = new \o Tail(x.todo),
           InsertsNear(x), Room(x, E), NoInsert([todo |-> new]),
           x.held \subseteq y.held, x.skipped \subseteq y.skipped,
           y.added = x.added, x.dropped \subseteq y.dropped,
           Head(x.todo).do = "drop" =>
              \/ Head(x.todo).job \in y.skipped
              \/ \A e \in SeenBy(y, E) : EventRow(e) \notin Head(x.todo).rows,
           IsFiniteSet(SeenBy(x, E))
    PROVE  Room(y, E)
  <1> DEFINE q == x.todo
             r == y.todo
             n == Len(new)
  <1>1. r = new \o Tail(q) /\ q \in Seq(Statement) /\ q # <<>>
    BY DEF Transaction
  <1>2. /\ n \in Nat /\ Len(r) \in Nat /\ Len(q) \in Nat /\ Len(q) > 0
        /\ q[1] = Head(q) /\ 1 \in 1..Len(q)
        /\ \A i \in 1..Len(r) :
                 \/ i \in 1..n /\ r[i] = new[i]
                 \/ /\ i > n /\ i - n + 1 \in 2..Len(q)
                    /\ r[i] = q[i - n + 1]
        /\ \A i \in 2..Len(q) : /\ i - 1 + n \in 1..Len(r)
                                /\ r[i - 1 + n] = q[i]
    <2> HIDE DEF q, r
    <2> QED BY <1>1, Splice
  <1>3. \A i \in 1..n : new[i].do # "insert"
    BY DEF NoInsert
  <1>4. ASSUME NEW i \in 1..Len(r), r[i].do = "insert", r[i].job \notin y.skipped
        PROVE  Has(y, LedgerRow) /\ Cardinality(Spared(y, E, i)) < EventLimit
    <2> DEFINE h == i - n + 1
    <2>1. h \in 2..Len(q) /\ r[i] = q[h]
      BY <1>2, <1>3, <1>4
    <2>11. i \in Nat /\ i = h - 1 + n
      <3> HIDE DEF q, r, n
      <3> QED BY <1>2, <1>4
    <2>2. i = h - 1 + n /\ h \in 1..Len(q) /\ h \in Nat /\ i \in Nat
      <3> HIDE DEF q, r, n, h
      <3> QED BY <1>2, <2>1, <2>11
    <2> HIDE DEF h
    <2>3. q[h].do = "insert" /\ q[h].job \notin y.skipped /\ q[h].job \notin x.skipped
      BY <1>4, <2>1
    <2>4. Has(x, LedgerRow) /\ Cardinality(Spared(x, E, h)) < EventLimit
      BY <2>2, <2>3 DEF Room
    <2>5. Head(q).do = "drop" => \A e \in SeenBy(y, E) : EventRow(e) \notin Head(q).rows
      <3>1. 1 \in 1..h-1
        BY <2>1, <2>2
      <3>2. Head(q).do = "drop" => Head(q).job = q[h].job
        BY <1>2, <2>2, <2>3, <3>1 DEF InsertsNear
      <3> QED BY <2>3, <3>2
    <2>6. SeenBy(y, E) \subseteq SeenBy(x, E)
      BY DEF SeenBy
    <2>7. Spared(y, E, i) \subseteq Spared(x, E, h)
      <3>1. SUFFICES ASSUME NEW e \in Spared(y, E, i), NEW k \in 1..h-1, q[k].do = "drop"
                     PROVE  EventRow(e) \notin q[k].rows
        BY <2>6 DEF Spared
      <3>2. e \in SeenBy(y, E)
        BY DEF Spared
      <3>3. CASE k = 1
        BY <1>2, <2>5, <3>1, <3>2, <3>3
      <3>4. CASE k # 1
        <4>1. k \in 2..Len(q) /\ k - 1 + n \in 1..i-1
          BY <1>2, <2>1, <2>2, <3>1, <3>4
        <4>2. r[k - 1 + n] = q[k]
          BY <1>2, <4>1
        <4> HIDE DEF q
        <4> QED BY <3>1, <4>1, <4>2 DEF Spared
      <3> QED BY <3>3, <3>4
    <2>8. IsFiniteSet(Spared(x, E, h))
      <3>1. Spared(x, E, h) \subseteq SeenBy(x, E)
        BY DEF Spared
      <3> QED BY <3>1, FS_Subset
    <2>9. /\ Cardinality(Spared(y, E, i)) <= Cardinality(Spared(x, E, h))
          /\ Cardinality(Spared(y, E, i)) \in Nat /\ Cardinality(Spared(x, E, h)) \in Nat
      BY <2>7, <2>8, FS_Subset, FS_CardinalityType
    <2>10. Has(y, LedgerRow)
      BY <2>4 DEF Has
    <2> QED BY <2>4, <2>9, <2>10, EventsAssumption
  <1> QED BY <1>4 DEF Room, r

(* Before an insertion the oldest event goes, if there are as many as may  *)
(* be.                                                                     *)
LEMMA TrimRoom ==
    ASSUME EventsTypeOK, LocalInv, NumberInv, DroppedInv, CountInv,
           NEW t \in DOMAIN tx, Trim(t)
    PROVE  Room(tx'[t], ledger.events)
  <1> DEFINE x == tx[t]
             y == tx'[t]
             s == Now(t)
             S == Oldest(Seen(t), Count(t) - EventLimit + 1)
             a == [s EXCEPT !.do = "insert"]
             new == Deletion(s.job, S) \o <<a>>
             q == x.todo
             r == y.todo
             n == Len(new)
             l == Lock(s.job, EventRows(S), "update")
             d == Step("drop", s.job, EventRows(S))
  <1>1. /\ Running(t) /\ ~Stale(t) /\ s.do = "record" /\ r = new \o Tail(q)
    BY TrimTodo DEF Rest
  <1>2. /\ y.added = x.added /\ y.dropped = x.dropped /\ y.held = x.held
    BY TrimMoves DEF Keeps
  <1>3. /\ x \in Transaction /\ Local(x) /\ q \in Seq(Statement) /\ q # <<>>
        /\ s = Head(q)
    BY <1>1 DEF EventsTypeOK, LocalInv, Transaction, Running, Now
  <1>4. /\ s \in Statement /\ s.job \in Job \cup {0}
    <2>1. s \in Statement
      BY <1>3, HeadIs
    <2> HIDE DEF s
    <2> QED BY <2>1 DEF Statement
  <1>5. Has(y, LedgerRow)
    <2>1. LedgerRow \in RowsOf(s) /\ LedgerRow # Mark(s.job) /\ Wants(s, s.job, LedgerRow)
      BY <1>1 DEF RowsOf, LedgerRow, Mark, Wants
    <2>2. Has(x, LedgerRow)
      BY <1>1, <1>3, <2>1, HeadHas
    <2> HIDE DEF x, y
    <2> QED BY <1>2, <2>2 DEF Has
  <1>6. S \in SUBSET ProductEvent /\ S \subseteq Seen(t)
    BY <1>3 DEF EventsTypeOK, Transaction, Seen, Oldest
  <1>7. /\ a \in Statement /\ a.do = "insert"
    <2> HIDE DEF s
    <2> QED BY <1>4 DEF Statement
  <1>8. /\ new \in Seq(Statement) /\ n = 1 + (IF S = {} THEN 0 ELSE 2)
        /\ \A i \in 1..n : new[i].do = "insert" => i = n
        /\ S # {} => new[2] = d
        /\ d.do = "drop" /\ d.rows = EventRows(S) /\ l.do = "lock"
    <2> DEFINE u == <<a>>
    <2>1. u \in Seq(Statement) /\ Len(u) = 1 /\ u[1] = a
      <3> HIDE DEF a, s
      <3> QED BY <1>7
    <2>2. /\ new = Deletion(s.job, S) \o u
          /\ l = Lock(s.job, EventRows(S), "update")
          /\ d = Step("drop", s.job, EventRows(S))
      OBVIOUS
    <2>3. d.do = "drop" /\ d.rows = EventRows(S) /\ l.do = "lock"
      BY DEF Step, Lock, Make
    <2>7. s.job \in Job \cup {0} /\ S \in SUBSET ProductEvent
      BY <1>4, <1>6
    <2> HIDE DEF new, u, s, S, a, l, d, n
    <2>4. /\ new \in Seq(Statement) /\ DeletesThen(new, u, l, d)
          /\ Len(u) \in Nat /\ Len(new) \in Nat
      BY <2>1, <2>2, <2>7, Deletes, ZenonT(90)
    <2>8. (S = {} => Len(new) = Len(u)) /\ (S # {} => Len(new) = Len(u) + 2)
      <3>1. CASE S = {}
        <4>1. new = <<>> \o u
          BY <2>2, <3>1 DEF Deletion
        <4> QED BY <2>1, <3>1, <4>1
      <3>2. CASE S # {}
        <4>1. new = <<l, d>> \o u
          BY <2>2, <3>2 DEF Deletion
        <4>3. EventRows(S) \in SUBSET Row
          BY <2>7, RowTypes DEF EventRows
        <4>4. l \in Statement
          BY <2>2, <2>7, <4>3, LockTypes DEF Mode
        <4>5. d \in Statement
          BY <2>2, <2>7, <4>3, StepTypes DEF Does
        <4> DEFINE v == <<l, d>>
        <4>6. v \in Seq(Statement) /\ Len(v) = 2
          BY <4>4, <4>5
        <4>7. new = v \o u /\ u \in Seq(Statement)
          BY <2>1, <4>1
        <4> HIDE DEF v
        <4>8. Joined(new, v, u)
          BY <4>7 DEF Joined
        <4>9. Len(new) = Len(v) + Len(u) /\ Len(u) \in Nat
          BY <4>6, <4>7, <4>8, Cat, ZenonT(90)
        <4>2. Len(new) = Len(u) + 2
          BY <4>6, <4>9
        <4> QED BY <3>2, <4>2
      <3> QED BY <3>1, <3>2
    <2>5. \A i \in 1..n : new[i].do = "insert" => i = n
      <3>1. S # {} \/ Len(new) = 1
        BY <2>1, <2>8
      <3>2. CASE S # {}
        <4> SUFFICES ASSUME NEW i \in 1..Len(new), new[i].do = "insert" PROVE i = Len(new)
          BY DEF n
        <4>1. Len(new) = 3
          BY <2>1, <2>8, <3>2
        <4>2. i \in {1, 2} => new[i] = l \/ new[i] = d
          <5>1. \A k \in 1..Len(u) : /\ 1 # k + (Len(new) - Len(u))
                                     /\ 2 # k + (Len(new) - Len(u))
            BY <2>1, <4>1
          <5>2. i \in {1, 2} => new[1] = l /\ (i = 2 => new[2] = d)
            BY <2>4, <5>1 DEF DeletesThen
          <5> QED BY <5>2
        <4>3. i \in {1, 2, 3}
          BY <4>1
        <4> QED BY <2>3, <4>1, <4>2, <4>3
      <3>3. CASE Len(new) = 1
        BY <3>3 DEF n
      <3> QED BY <3>1, <3>2, <3>3
    <2>6. S # {} => new[2] = d
      <3>1. ASSUME S # {}
            PROVE  2 \in 1..Len(new) /\ \A k \in 1..Len(u) : 2 # k + (Len(new) - Len(u))
        <4>1. Len(new) = 3 /\ Len(u) = 1
          BY <2>1, <2>8, <3>1
        <4> QED BY <4>1
      <3> QED BY <2>4, <3>1 DEF DeletesThen
    <2> QED BY <2>1, <2>3, <2>4, <2>5, <2>6, <2>8 DEF n
  <1> HIDE DEF new, a, s, S, l, d
  <1>9. /\ n \in Nat /\ Len(r) \in Nat /\ Len(q) \in Nat /\ Len(q) > 0
        /\ q[1] = Head(q) /\ 1 \in 1..Len(q)
        /\ \A i \in 1..Len(r) :
                 \/ i \in 1..n /\ r[i] = new[i]
                 \/ /\ i > n /\ i - n + 1 \in 2..Len(q)
                    /\ r[i] = q[i - n + 1]
        /\ \A i \in 1..n : i \in 1..Len(r) /\ r[i] = new[i]
    <2>1. r = new \o Tail(q) /\ q \in Seq(Statement) /\ q # <<>>
          /\ new \in Seq(Statement)
      BY <1>1, <1>3, <1>8
    <2> HIDE DEF q, r
    <2> QED BY <2>1, Splice
  <1>10. ASSUME NEW i \in 1..Len(r), r[i].do = "insert" PROVE i = n
    <2>1. CASE i \in 1..n /\ r[i] = new[i]
      BY <1>8, <1>10, <2>1
    <2>2. CASE i > n /\ i - n + 1 \in 2..Len(q) /\ r[i] = q[i - n + 1]
      <3> DEFINE h == i - n + 1
      <3>1. h \in 1..Len(q) /\ 1 \in 1..h-1 /\ q[h].do = "insert"
        BY <1>9, <1>10, <2>2
      <3> HIDE DEF h
      <3>2. q[1].do \in {"lock", "drop"}
        BY <1>3, <3>1 DEF Local, InsertsNear
      <3> HIDE DEF q, r
      <3> QED BY <1>1, <1>3, <1>9, <3>2
    <2> QED BY <1>9, <1>10, <2>1, <2>2
  <1> DEFINE E == ledger.events
             F == Spared(y, E, n)
  <1>11. F \subseteq Seen(t) \ S
    <2>1. SUFFICES ASSUME NEW e \in F PROVE e \in Seen(t) /\ e \notin S
      OBVIOUS
    <2>2. e \in Seen(t)
      BY <1>2 DEF Spared, SeenBy, Seen
    <2>3. e \notin S
      <3>1. SUFFICES ASSUME e \in S PROVE FALSE
        OBVIOUS
      <3>2. n = 3 /\ r[2] = d
        BY <1>8, <1>9, <3>1
      <3>3. 2 \in 1..n-1 /\ r[2].do = "drop" /\ r[2].rows = EventRows(S)
        BY <1>8, <3>2
      <3>4. EventRow(e) \notin EventRows(S)
        BY <2>1, <3>3 DEF Spared
      <3> QED BY <3>1, <3>4 DEF EventRows
    <2> QED BY <2>2, <2>3
  <1>12. /\ IsFiniteSet(Seen(t)) /\ Count(t) = Cardinality(Seen(t)) /\ Count(t) \in Nat
         /\ Count(t) <= EventLimit
    BY Counted DEF CountInv
  <1>13. Cardinality(F) < EventLimit
    <2>1. CASE Count(t) < EventLimit
      <3>1. Cardinality(F) <= Cardinality(Seen(t)) /\ Cardinality(F) \in Nat
        <4> HIDE DEF F
        <4> QED BY <1>11, <1>12, FS_Subset, FS_CardinalityType
      <3> QED BY <1>12, <2>1, <3>1, EventsAssumption
    <2>2. CASE Count(t) = EventLimit
      <3>1. S = Oldest(Seen(t), 1)
        <4>1. Count(t) - EventLimit + 1 = 1
          BY <1>12, <2>2, EventsAssumption
        <4> QED BY <4>1 DEF S
      <3>2. Seen(t) # {}
        BY <1>12, <2>2, EventsAssumption, FS_EmptySet
      <3>3. PICK e \in Seen(t) : e \in S
        <4>1. Seen(t) \in SUBSET ProductEvent
          BY <1>3 DEF EventsTypeOK, Transaction, Seen
        <4> QED BY <3>1, <3>2, <4>1, OldestOne
      <3>4. F \subseteq Seen(t) \ {e}
        BY <1>11, <3>3
      <3>5. /\ IsFiniteSet(Seen(t) \ {e})
            /\ Cardinality(Seen(t) \ {e}) = Cardinality(Seen(t)) - 1
        BY <1>12, <3>3, FS_RemoveElement
      <3>6. Cardinality(F) <= Cardinality(Seen(t) \ {e}) /\ Cardinality(F) \in Nat
        <4> HIDE DEF F
        <4> QED BY <3>4, <3>5, FS_Subset, FS_CardinalityType
      <3> QED BY <1>12, <2>2, <3>5, <3>6, EventsAssumption
    <2> QED BY <1>12, <2>1, <2>2, EventsAssumption
  <1> HIDE DEF F
  <1> QED BY <1>5, <1>10, <1>13 DEF Room, F

(* There is always room for an event that is to be inserted.               *)
LEMMA RoomNext ==
    ASSUME EventsTypeOK, LocalInv, LockInv, NumberInv, DroppedInv, CountInv, RoomInv,
           EventsNext
    PROVE  RoomInv'
  <1>1. SUFFICES ASSUME NEW t \in DOMAIN tx,
                        \/ Skip(t) \/ Iterate(t) \/ Take(t) \/ Drop(t) \/ Trim(t)
                        \/ Insert(t) \/ CloseJob(t) \/ CascadeEvents(t)
                        \/ DiscardOld(t) \/ Commit(t) \/ Abort(t)
                 PROVE  RoomInv'
    BY DEF EventsNext
  <1>2. /\ \A u \in DOMAIN tx : Room(tx[u], ledger.events)
        /\ tx[t] \in Transaction /\ Local(tx[t])
        /\ IsFiniteSet(SeenBy(tx[t], ledger.events))
    BY Counted, SeenIs DEF RoomInv, EventsTypeOK, LocalInv
  <1>3. ASSUME NEW x, NoInsert(x), NEW E PROVE Room(x, E)
    BY <1>3 DEF NoInsert, Room
  <1>4. ASSUME Others(t), ledger'.events = ledger.events, Room(tx'[t], ledger.events)
        PROVE  RoomInv'
    BY <1>2, <1>4 DEF RoomInv, Others
  <1>5. ASSUME Done(t), ledger' = ledger PROVE RoomInv'
    BY <1>2, <1>5, DoneMoves DEF RoomInv, EventsTypeOK
  <1> DEFINE none == <<>>
  <1>6. /\ none \in Seq(Statement) /\ NoInsert([todo |-> none])
        /\ Tail(tx[t].todo) \in Seq(Statement)
           => Tail(tx[t].todo) = none \o Tail(tx[t].todo)
    BY DEF NoInsert
  <1>7. tx[t].todo # <<>> => Tail(tx[t].todo) \in Seq(Statement)
    BY <1>2 DEF Transaction
  <1> HIDE DEF none
  <1>8. InsertsNear(tx[t]) /\ Room(tx[t], ledger.events)
    BY <1>2 DEF Local
  <1>9. CASE Skip(t)
    <2>1. /\ Others(t) /\ tx'[t].added = tx[t].added /\ tx'[t].dropped = tx[t].dropped
          /\ tx'[t].held = tx[t].held /\ ledger' = ledger
      BY <1>9, SkipMoves DEF Keeps
    <2>2. /\ tx[t].todo # <<>> /\ tx'[t].todo = Tail(tx[t].todo)
          /\ tx'[t].skipped = tx[t].skipped \cup {Head(tx[t].todo).job}
      BY <1>9, SkipTodo
    <2>3. tx'[t].todo = none \o Tail(tx[t].todo)
      BY <1>6, <1>7, <2>2
    <2>4. Room(tx'[t], ledger.events)
      BY <1>2, <1>6, <1>8, <2>1, <2>2, <2>3, RoomMoves
    <2> QED BY <1>4, <2>1, <2>4
  <1>10. CASE Take(t)
    <2>1. /\ Others(t) /\ tx'[t].added = tx[t].added /\ tx'[t].dropped = tx[t].dropped
          /\ ledger' = ledger /\ Now(t).do = "lock" /\ Running(t)
      BY <1>10, TakeMoves
    <2>2. PICK row \in Now(t).rows :
             /\ tx'[t].held = tx[t].held \cup {<<row, Now(t).mode>>}
             /\ tx'[t].skipped = tx[t].skipped
             /\ tx'[t].todo =
                   IF Now(t).rows \ {row} = {} THEN Rest(t)
                   ELSE <<[Now(t) EXCEPT !.rows = Now(t).rows \ {row}]>> \o Rest(t)
      BY <1>10, TakeMoves
    <2>3. tx[t].todo # <<>> /\ Rest(t) = Tail(tx[t].todo) /\ Now(t) = Head(tx[t].todo)
      BY <2>1 DEF Running, Rest, Now
    <2>4. \E new \in Seq(Statement) : /\ tx'[t].todo = new \o Tail(tx[t].todo)
                                      /\ NoInsert([todo |-> new])
      <3>1. CASE Now(t).rows \ {row} = {}
        BY <1>6, <1>7, <2>2, <2>3, <3>1
      <3>2. CASE Now(t).rows \ {row} # {}
        <4> DEFINE s == Now(t)
                   a == [s EXCEPT !.rows = s.rows \ {row}]
                   new == <<a>>
        <4>1. s \in Statement
          BY <1>2, <2>3, HeadIs
        <4>2. a \in Statement /\ a.do = "lock"
          <5>1. s.do = "lock"
            BY <2>1
          <5> HIDE DEF s
          <5> QED BY <4>1, <5>1 DEF Statement
        <4>3. tx'[t].todo = new \o Tail(tx[t].todo)
          BY <2>2, <2>3, <3>2
        <4> HIDE DEF a
        <4>4. new \in Seq(Statement) /\ Len(new) = 1 /\ new[1] = a
          BY <4>2
        <4> HIDE DEF new
        <4>5. NoInsert([todo |-> new])
          <5>1. \A i \in 1..Len(new) : new[i].do # "insert"
            BY <4>2, <4>4
          <5> QED BY <5>1 DEF NoInsert
        <4> QED BY <4>3, <4>4, <4>5
      <3> QED BY <3>1, <3>2
    <2>5. PICK new \in Seq(Statement) : /\ tx'[t].todo = new \o Tail(tx[t].todo)
                                        /\ NoInsert([todo |-> new])
      BY <2>4
    <2>6. Head(tx[t].todo).do # "drop" /\ tx[t].held \subseteq tx'[t].held
      BY <2>1, <2>2, <2>3
    <2>7. Room(tx'[t], ledger.events)
      BY <1>2, <1>8, <2>1, <2>2, <2>3, <2>5, <2>6, RoomMoves
    <2> QED BY <1>4, <2>1, <2>7
  <1>11. CASE Drop(t)
    <2> DEFINE S == {e \in Seen(t) : EventRow(e) \in Now(t).rows}
               new == IF S = {} THEN <<>> ELSE <<Lock(0, {LedgerRow}, "nokey")>>
    <2>1. /\ Others(t) /\ tx'[t].added = tx[t].added
          /\ tx'[t].held = tx[t].held /\ tx'[t].skipped = tx[t].skipped
          /\ tx'[t].dropped = tx[t].dropped \cup S /\ ledger' = ledger
          /\ Now(t).do = "drop" /\ Running(t)
          /\ tx'[t].todo = new \o Rest(t)
      BY <1>11, DropMoves
    <2>2. tx[t].todo # <<>> /\ Rest(t) = Tail(tx[t].todo) /\ Now(t) = Head(tx[t].todo)
      BY <2>1 DEF Running, Rest, Now
    <2>3. new \in Seq(Statement) /\ NoInsert([todo |-> new])
      <3> DEFINE a == Lock(0, {LedgerRow}, "nokey")
      <3>1. a \in Statement
        BY RowTypes, LockTypes DEF Mode
      <3>2. a.do = "lock"
        BY DEF Lock, Make
      <3>3. new = <<>> \/ new = <<a>>
        OBVIOUS
      <3> HIDE DEF a, new
      <3>4. CASE new = <<>>
        BY <1>6, <3>4 DEF none
      <3>5. CASE new = <<a>>
        <4>1. new \in Seq(Statement) /\ \A i \in 1..Len(new) : new[i] = a
          BY <3>1, <3>5
        <4> QED BY <3>2, <4>1 DEF NoInsert
      <3> QED BY <3>3, <3>4, <3>5
    <2>4. \A e \in SeenBy(tx'[t], ledger.events) :
             EventRow(e) \notin Head(tx[t].todo).rows
      <3>1. \A e \in SeenBy(tx'[t], ledger.events) : e \in Seen(t) /\ e \notin S
        <4> HIDE DEF S
        <4> QED BY <2>1 DEF SeenBy, Seen
      <3> QED BY <2>2, <3>1
    <2> HIDE DEF S, new
    <2>5. tx'[t].todo = new \o Tail(tx[t].todo) /\ tx[t].dropped \subseteq tx'[t].dropped
      BY <2>1, <2>2
    <2>6. Room(tx'[t], ledger.events)
      BY <1>2, <1>8, <2>1, <2>2, <2>3, <2>4, <2>5, RoomMoves
    <2> QED BY <1>4, <2>1, <2>6
  <1>12. CASE Trim(t)
    <2>1. Others(t) /\ ledger' = ledger
      BY <1>12, TrimMoves DEF Keeps
    <2> QED BY <1>4, <1>12, <2>1, TrimRoom
  <1>13. CASE Iterate(t)
    BY <1>2, <1>3, <1>4, <1>13, IterateLocal, IterateMoves DEF Keeps
  <1>14. CASE CascadeEvents(t)
    BY <1>2, <1>3, <1>4, <1>14, CascadeEventsLocal, CascadeEventsMoves DEF Keeps
  <1>15. CASE DiscardOld(t)
    BY <1>2, <1>3, <1>4, <1>15, DiscardOldLocal, DiscardOldMoves DEF Keeps
  <1>16. CASE CloseJob(t)
    BY <1>2, <1>3, <1>4, <1>16, CloseJobLocal, CloseJobMoves DEF Keeps
  <1>17. CASE Insert(t)
    <2>1. Others(t) /\ ledger'.events = ledger.events
      BY <1>17, InsertMoves
    <2>2. NoInsert(tx'[t])
      BY <1>2, <1>17, InsertLocal
    <2> QED BY <1>3, <1>4, <2>1, <2>2
  <1>18. CASE Commit(t)
    <2>1. Done(t)
      BY <1>18, CommitMoves
    <2>2. \A u \in DOMAIN tx' : u \in DOMAIN tx /\ u # t /\ tx'[u] = tx[u]
      BY <2>1, DoneMoves DEF EventsTypeOK
    <2>3. ASSUME NEW u \in DOMAIN tx' PROVE Room(tx'[u], ledger'.events)
      <3>1. u \in DOMAIN tx /\ u # t /\ tx'[u] = tx[u] /\ Room(tx[u], ledger.events)
        BY <1>2, <2>2
      <3>2. CASE Has(tx[u], LedgerRow)
        BY <1>18, <3>1, <3>2, CommitApart
      <3>3. CASE ~Has(tx[u], LedgerRow)
        BY <3>1, <3>3 DEF Room
      <3> QED BY <3>2, <3>3
    <2> QED BY <2>3 DEF RoomInv
  <1>19. CASE Abort(t)
    <2>1. condition' = condition /\ ledger' = ledger
      BY <1>2, <1>19, AbortMoves
    <2>2. CASE Done(t)
      BY <1>5, <2>1, <2>2
    <2>3. CASE ~Done(t)
      <3>1. Others(t) /\ NoInsert(tx'[t])
        BY <1>2, <1>19, <2>3, AbortMoves DEF NoInsert
      <3> QED BY <1>3, <1>4, <2>1, <3>1
    <2> QED BY <2>2, <2>3
  <1> QED BY <1>1, <1>9, <1>10, <1>11, <1>12, <1>13, <1>14, <1>15, <1>16, <1>17,
             <1>18, <1>19

-----------------------------------------------------------------------------
(* The types survive every step.                                           *)
LEMMA TypesNext ==
    ASSUME EventsTypeOK, LocalInv, NumberInv, DroppedInv, CountInv, EventsNext
    PROVE  EventsTypeOK'
  <1>1. DOMAIN tx' \subseteq Thread /\ tx' \in [DOMAIN tx' -> Transaction]
    BY LocalNext
  <1>2. /\ condition \in [Job -> {"open", "closed", "gone"}]
        /\ ledger \in [count : Nat, events : SUBSET ProductEvent, next : Nat]
    BY DEF EventsTypeOK
  <1>3. ASSUME condition' = condition, ledger' = ledger PROVE EventsTypeOK'
    BY <1>1, <1>2, <1>3 DEF EventsTypeOK
  <1>4. PICK t \in DOMAIN tx :
              \/ Keeps(t) \/ Take(t) \/ Drop(t) \/ Insert(t) \/ Commit(t) \/ Abort(t)
    BY StepCases
  <1>5. CASE Keeps(t)
    BY <1>3, <1>5 DEF Keeps
  <1>6. CASE Take(t)
    BY <1>3, <1>6, TakeMoves
  <1>7. CASE Drop(t)
    BY <1>3, <1>7, DropMoves
  <1>8. CASE Insert(t)
    <2>1. /\ condition' = condition
          /\ ledger' \in [count : Nat, events : SUBSET ProductEvent, next : Nat]
      BY <1>8, InsertMoves
    <2> QED BY <1>1, <1>2, <2>1 DEF EventsTypeOK
  <1>9. CASE Commit(t)
    <2>1. Count(t) \in Nat
      BY Counted
    <2>2. Seen(t) \subseteq ProductEvent
      BY <1>2 DEF EventsTypeOK, Transaction, Seen
    <2>3. ledger' = [ledger EXCEPT !.count = Count(t), !.events = Seen(t)]
      BY <1>9 DEF Commit
    <2>4. ledger' \in [count : Nat, events : SUBSET ProductEvent, next : Nat]
      BY <1>2, <2>1, <2>2, <2>3
    <2>5. condition' = [j \in Job |-> IF j \in tx[t].deleted THEN "gone"
                                      ELSE IF j \in tx[t].closed THEN "closed"
                                      ELSE condition[j]]
      BY <1>9 DEF Commit
    <2>6. condition' \in [Job -> {"open", "closed", "gone"}]
      BY <1>2, <2>5
    <2> QED BY <1>1, <2>4, <2>6 DEF EventsTypeOK
  <1>10. CASE Abort(t)
    BY <1>3, <1>10, AbortMoves DEF LocalInv
  <1> QED BY <1>4, <1>5, <1>6, <1>7, <1>8, <1>9, <1>10

(* A full table of events, as a run may start with it.                     *)
LEMMA FullTable ==
    ASSUME NEW j \in Job, NEW old, old = [n : 1..EventLimit, of : {j}, ended : {FALSE}]
    PROVE  /\ old \subseteq ProductEvent /\ IsFiniteSet(old)
           /\ Cardinality(old) \in Nat /\ Cardinality(old) <= EventLimit
           /\ \A e \in old : e.n \in 1..EventLimit /\ e.of = j /\ ~e.ended
           /\ \A d, e \in old : d.n = e.n => d = e
  <1> DEFINE N == 1..EventLimit
             f == [i \in N |-> [n |-> i, of |-> j, ended |-> FALSE]]
  <1>1. EventLimit \in Nat /\ EventLimit > 0
    BY EventsAssumption
  <1>2. IsFiniteSet(N) /\ Cardinality(N) = EventLimit
    BY <1>1, FS_Interval
  <1> DEFINE of == {j}
             ended == {FALSE}
  <1>8. /\ N \subseteq Nat /\ of \subseteq Job /\ ended \subseteq BOOLEAN
        /\ \A b \in of : b = j
        /\ \A b \in ended : b = FALSE
    BY <1>1
  <1>9. old = [n : N, of : of, ended : ended]
    OBVIOUS
  <1>10. \A e \in old : /\ e \in ProductEvent /\ e.n \in N
                        /\ e.of \in of /\ e.ended \in ended
    <2> HIDE DEF N, of, ended
    <2> QED BY <1>8, <1>9 DEF ProductEvent
  <1>11. \A e \in old : e = [n |-> e.n, of |-> e.of, ended |-> e.ended]
    <2> HIDE DEF N, of, ended
    <2> QED BY <1>9
  <1>3. \A e \in old : e \in ProductEvent /\ e.n \in N /\ e.of = j /\ e.ended = FALSE
    <2> HIDE DEF N, of, ended
    <2> QED BY <1>8, <1>10
  <1>4. ASSUME NEW d \in old, NEW e \in old, d.n = e.n PROVE d = e
    <2>1. d.of = e.of /\ d.ended = e.ended
      BY <1>3
    <2> QED BY <1>4, <1>11, <2>1
  <1>5. f \in Surjection(N, old)
    <2>1. f \in [N -> old]
      OBVIOUS
    <2>2. \A e \in old : \E i \in N : f[i] = e
      <3>1. SUFFICES ASSUME NEW e \in old PROVE f[e.n] = e /\ e.n \in N
        OBVIOUS
      <3> QED BY <1>3
    <2> HIDE DEF f
    <2> QED BY <2>1, <2>2 DEF Surjection
  <1> HIDE DEF f, N
  <1>6. IsFiniteSet(old) /\ Cardinality(old) <= Cardinality(N)
    BY <1>2, <1>5, FS_Surjection
  <1>7. Cardinality(old) \in Nat
    BY <1>6, FS_CardinalityType
  <1> QED BY <1>2, <1>3, <1>4, <1>6, <1>7 DEF N

(* The invariant holds at first.                                           *)
LEMMA StartHolds ==
    ASSUME NEW open \in SUBSET Job, EventsInit(Thread, open)
    PROVE  IInv
  <1>1. PICK w \in [Thread -> DOMAIN Works] :
           tx = [t \in Thread |-> Begin(Works[w[t]][1], Works[w[t]][2])]
    BY DEF EventsInit
  <1>2. DOMAIN tx = Thread
    BY <1>1
  <1>3. ASSUME NEW t \in DOMAIN tx
        PROVE  /\ tx[t] \in Transaction /\ Local(tx[t]) /\ NoInsert(tx[t])
               /\ tx[t].held = {} /\ tx[t].added = {} /\ tx[t].dropped = {}
    <2> DEFINE kind == Works[w[t]][1]
               j == Works[w[t]][2]
               x == Begin(kind, j)
    <2>1. tx[t] = x
      BY <1>1, <1>2, <1>3
    <2>2. Works[w[t]] \in Work
      BY <1>1, <1>2, <1>3, EventsAssumption
    <2>3. <<kind, j>> \in Work
      BY <2>2 DEF Work
    <2> HIDE DEF kind, j
    <2>4. x \in Transaction /\ Local(x) /\ NoInsert(x)
      BY <2>3, BeginLocal
    <2>5. x.held = {} /\ x.added = {} /\ x.dropped = {}
      BY DEF Begin
    <2> HIDE DEF x
    <2> QED BY <2>1, <2>4, <2>5
  <1>4. condition = [j \in Job |-> IF j \in open THEN "open" ELSE "closed"]
    BY DEF EventsInit
  <1>5. \E old : /\ old = {} \/ \E j \in Job : old = [n : 1..EventLimit, of : {j},
                                                      ended : {FALSE}]
                 /\ ledger = [count |-> Cardinality(old), events |-> old,
                              next |-> EventLimit + 1]
    <2>1. PICK old \in {{}} \cup (IF Thread = {} THEN {}
                                  ELSE {[n : 1..EventLimit, of : {j}, ended : {FALSE}] :
                                           j \in Job}) :
             ledger = [count |-> Cardinality(old), events |-> old,
                       next |-> EventLimit + 1]
      BY DEF EventsInit
    <2>2. old = {} \/ \E j \in Job : old = [n : 1..EventLimit, of : {j}, ended : {FALSE}]
      BY <2>1
    <2> QED BY <2>1, <2>2
  <1>6. PICK old : /\ old = {} \/ \E j \in Job : old = [n : 1..EventLimit, of : {j},
                                                        ended : {FALSE}]
                   /\ ledger = [count |-> Cardinality(old), events |-> old,
                                next |-> EventLimit + 1]
    BY <1>5
  <1>7. EventLimit \in Nat /\ EventLimit > 0
    BY EventsAssumption
  <1>8. /\ old \subseteq ProductEvent /\ IsFiniteSet(old)
        /\ Cardinality(old) \in Nat /\ Cardinality(old) <= EventLimit
        /\ \A e \in old : e.n \in 1..EventLimit /\ ~e.ended
        /\ \A d, e \in old : d.n = e.n => d = e
    <2>1. CASE old = {}
      BY <1>7, <2>1, FS_EmptySet
    <2>2. CASE old # {}
      BY <1>6, <2>2, FullTable
    <2> QED BY <2>1, <2>2
  <1>9. ledger.count = Cardinality(old) /\ ledger.events = old
        /\ ledger.next = EventLimit + 1
    BY <1>6
  <1>10. EventsTypeOK
    <2>1. tx \in [DOMAIN tx -> Transaction]
      <3>1. tx = [t \in DOMAIN tx |-> tx[t]]
        BY <1>1
      <3> QED BY <1>3, <3>1
    <2>2. condition \in [Job -> {"open", "closed", "gone"}]
      BY <1>4
    <2>3. ledger \in [count : Nat, events : SUBSET ProductEvent, next : Nat]
      BY <1>6, <1>7, <1>8
    <2> QED BY <1>2, <2>1, <2>2, <2>3 DEF EventsTypeOK
  <1>11. LocalInv
    BY <1>3 DEF LocalInv
  <1>12. LockInv
    BY <1>3 DEF LockInv
  <1>13. NumberInv
    <2>1. \A e \in old : e.n < EventLimit + 1
      BY <1>7, <1>8
    <2> QED BY <1>3, <1>8, <1>9, <2>1 DEF NumberInv
  <1>14. DroppedInv
    BY <1>3 DEF DroppedInv
  <1>15. OpenInv
    BY <1>3 DEF OpenInv, Holds
  <1>16. EndedInv
    BY <1>8, <1>9 DEF EndedInv
  <1>17. CountInv
    <2>1. ASSUME NEW t \in DOMAIN tx
          PROVE  IsFiniteSet(tx[t].added) /\ Cardinality(Seen(t)) <= EventLimit
      <3>1. Seen(t) = old
        BY <1>3, <1>9, <2>1 DEF Seen
      <3> QED BY <1>3, <1>8, <2>1, <3>1, FS_EmptySet
    <2> QED BY <1>8, <1>9, <2>1 DEF CountInv
  <1>18. RoomInv
    BY <1>3 DEF RoomInv, Room, NoInsert
  <1> QED BY <1>10, <1>11, <1>12, <1>13, <1>14, <1>15, <1>16, <1>17, <1>18 DEF IInv

(* Every step keeps it.                                                    *)
LEMMA StepHolds ==
    ASSUME IInv, [EventsNext]_eventsVars
    PROVE  IInv'
  <1>1. CASE EventsNext
    <2>1. EventsTypeOK' /\ LocalInv'
      BY <1>1, TypesNext, LocalNext DEF IInv
    <2>2. LockInv' /\ NumberInv' /\ DroppedInv'
      BY <1>1, LockNext, NumberNext, DroppedNext DEF IInv
    <2>3. OpenInv' /\ EndedInv'
      BY <1>1, OpenNext, EndedNext DEF IInv
    <2>4. CountInv' /\ RoomInv'
      BY <1>1, CountNext, RoomNext DEF IInv
    <2> QED BY <2>1, <2>2, <2>3, <2>4 DEF IInv
  <1>2. CASE UNCHANGED eventsVars
    <2>1. tx' = tx /\ condition' = condition /\ ledger' = ledger
      BY <1>2 DEF eventsVars
    <2>2. \A t : Seen(t)' = Seen(t)
      BY <2>1 DEF Seen
    <2> QED BY <2>1, <2>2
            DEF IInv, EventsTypeOK, LocalInv, LockInv, NumberInv, DroppedInv, OpenInv,
                EndedInv, CountInv, RoomInv, Holds
  <1> QED BY <1>1, <1>2

(* The inductive invariant holds in every state of every run.              *)
THEOREM EventsInvariant == EventsSpec => []IInv
  <1>1. (\E open \in SUBSET Job : EventsInit(Thread, open)) => IInv
    BY StartHolds
  <1>2. IInv /\ [EventsNext]_eventsVars => IInv'
    BY StepHolds
  <1> QED BY <1>1, <1>2, PTL DEF EventsSpec

(* Every variable keeps to its type: no counter becomes negative, and only *)
(* the steps of the code are ever left to do.                              *)
THEOREM EventsTypeCorrect == EventsSpec => []EventsTypeOK
  <1>1. IInv => EventsTypeOK
    BY DEF IInv
  <1> QED BY <1>1, EventsInvariant, PTL

(* The counter beside the product events is their number, there are never  *)
(* more than EVENT_LIMIT, and an end is recorded once, for any number of   *)
(* threads and analyses (record_event(), migration 0006).                  *)
THEOREM LedgerExact == EventsSpec => []LedgerHolds
  <1>1. IInv => LedgerHolds
    BY DEF IInv, CountInv, EndedInv, LedgerHolds
  <1> QED BY <1>1, EventsInvariant, PTL

-----------------------------------------------------------------------------
(* Who waits in a circle.  Without the commercial row, a transaction about *)
(* one analysis either has no row at all or waits for no other (Calm), and *)
(* one that deletes takes organizations in their order, analyses only of   *)
(* an organization it has, and events that nobody else takes (Rises,       *)
(* FarInv).                                                                *)

(* The kinds that may have rows of organizations and still wait for more.  *)
Broad == {"delete", "cleanup"}
Brief == Kind \ (Broad \cup {"recover"})

Loops == {"lockEach", "endEach", "expireEach"}

(* Transaction x does not have the commercial row, whatever the mode.      *)
Free(x) == \A lock \in x.held : lock[1] # LedgerRow

LedgerLock(s) == s.do = "lock" /\ s.rows = {LedgerRow}

(* Step s needs the commercial row, but when it is the first one of all.   *)
Needy(s) == s.do = "discard" \/ (s.do = "lock" /\ s.rows # {LedgerRow})

(* The first lock of a transaction that has none, on one row.              *)
FirstLock(x, s) ==
    /\ x.held = {} /\ s.do = "lock"
    /\ \E row \in s.rows : s.rows = {row} /\ row[1] # "event"

(* Beyond its first lock, x locks only with the commercial row.            *)
LocksLate(x) ==
    /\ \A lock \in x.held : lock[1][1] # "event"
    /\ \A i \in 1..Len(x.todo) : Needy(x.todo[i]) =>
          \/ i = 1 /\ FirstLock(x, x.todo[i])
          \/ x.todo[i].job \in x.skipped
          \/ \E k \in 1..i-1 : LedgerLock(x.todo[k]) /\ x.todo[k].job = x.todo[i].job

(* A transaction about one analysis has no loops or cascades, and needs    *)
(* the commercial row for all but its first lock.                          *)
Calm(x) ==
    x.kind \in Brief =>
      /\ \A i \in 1..Len(x.todo) : x.todo[i].do \notin Loops \cup {"cascade"}
      /\ Free(x) => LocksLate(x)

(* That survives that the head of the list becomes the steps `new'.        *)
LEMMA CalmMoves ==
    ASSUME NEW x \in Transaction, NEW y, NEW new \in Seq(Statement),
           x.todo # <<>>, y.todo = new \o Tail(x.todo), y.kind = x.kind, Calm(x),
           x.kind \in Brief =>
              \A i \in 1..Len(new) : new[i].do \notin Loops \cup {"cascade"},
           x.kind \in Brief /\ Free(y) =>
              /\ Free(x) /\ x.skipped \subseteq y.skipped
              /\ LedgerLock(Head(x.todo)) => Head(x.todo).job \in y.skipped
              /\ \A i \in 1..Len(new) : ~Needy(new[i])
              /\ \A lock \in y.held : lock[1][1] # "event"
    PROVE  Calm(y)
  <1> DEFINE q == x.todo
             r == y.todo
             n == Len(new)
  <1>1. r = new \o Tail(q) /\ q \in Seq(Statement) /\ q # <<>>
    BY DEF Transaction
  <1>2. /\ n \in Nat /\ Len(r) \in Nat /\ Len(q) \in Nat /\ Len(q) > 0
        /\ q[1] = Head(q) /\ 1 \in 1..Len(q)
        /\ \A i \in 1..Len(r) :
                 \/ i \in 1..n /\ r[i] = new[i]
                 \/ /\ i > n /\ i - n + 1 \in 2..Len(q)
                    /\ r[i] = q[i - n + 1]
        /\ \A i \in 2..Len(q) : /\ i - 1 + n \in 1..Len(r)
                                /\ r[i - 1 + n] = q[i]
    <2> HIDE DEF q, r
    <2>1. q[1] = Head(q) /\ Len(q) > 0 /\ Len(q) \in Nat /\ 1 \in 1..Len(q)
      BY <1>1
    <2>2. /\ n \in Nat /\ Len(r) \in Nat
          /\ \A i \in 1..Len(r) :
                 \/ i \in 1..n /\ r[i] = new[i]
                 \/ /\ i > n /\ i - n + 1 \in 2..Len(q)
                    /\ r[i] = q[i - n + 1]
      BY <1>1, Splice
    <2>3. \A i \in 2..Len(q) : i - 1 + n \in 1..Len(r) /\ r[i - 1 + n] = q[i]
      BY <1>1, Splice
    <2> QED BY <2>1, <2>2, <2>3
  <1>3. SUFFICES ASSUME y.kind \in Brief
                 PROVE  /\ \A i \in 1..Len(r) : r[i].do \notin Loops \cup {"cascade"}
                        /\ Free(y) => LocksLate(y)
    BY DEF Calm
  <1>4. /\ \A i \in 1..Len(q) : q[i].do \notin Loops \cup {"cascade"}
        /\ Free(x) => LocksLate(x)
    BY <1>3 DEF Calm
  <1>5. \A i \in 1..n : new[i].do \notin Loops \cup {"cascade"}
    BY <1>3
  <1>6. \A i \in 1..Len(r) : r[i].do \notin Loops \cup {"cascade"}
    <2>1. \A h \in 2..Len(q) : h \in 1..Len(q)
      BY <1>2
    <2> HIDE DEF q, r, n
    <2> QED BY <1>2, <1>4, <1>5, <2>1
  <1>7. ASSUME Free(y) PROVE LocksLate(y)
    <2>1. /\ LocksLate(x) /\ x.skipped \subseteq y.skipped
          /\ LedgerLock(q[1]) => q[1].job \in y.skipped
          /\ \A i \in 1..n : ~Needy(new[i])
          /\ \A lock \in y.held : lock[1][1] # "event"
      BY <1>2, <1>3, <1>4, <1>7
    <2>2. ASSUME NEW i \in 1..Len(r), Needy(r[i])
          PROVE  \/ r[i].job \in y.skipped
                 \/ \E k \in 1..i-1 : LedgerLock(r[k]) /\ r[k].job = r[i].job
      <3> DEFINE h == i - n + 1
      <3>1. h \in 2..Len(q) /\ r[i] = q[h]
        BY <1>2, <2>1, <2>2
      <3>2. i \in Nat
        <4> HIDE DEF q, r, n
        <4> QED BY <1>2
      <3>3. i = h - 1 + n /\ h \in 1..Len(q) /\ h \in Nat /\ h # 1
        <4>1. h = i - n + 1
          OBVIOUS
        <4> HIDE DEF q, r, n, h
        <4> QED BY <1>2, <3>1, <3>2, <4>1
      <3> HIDE DEF h
      <3>4. \/ q[h].job \in x.skipped
            \/ \E k \in 1..h-1 : LedgerLock(q[k]) /\ q[k].job = q[h].job
        BY <2>1, <2>2, <3>1, <3>3 DEF LocksLate
      <3>5. ASSUME NEW k \in 1..h-1, LedgerLock(q[k]), q[k].job = q[h].job
            PROVE  \/ q[h].job \in y.skipped
                   \/ \E m \in 1..i-1 : LedgerLock(r[m]) /\ r[m].job = q[h].job
        <4>1. CASE k = 1
          BY <2>1, <3>5, <4>1
        <4>2. CASE k # 1
          <5> HIDE DEF q, r, n
          <5>1. k \in 2..Len(q) /\ k - 1 + n \in 1..i-1
            BY <1>2, <3>2, <3>3, <3>5, <4>2
          <5>2. r[k - 1 + n] = q[k]
            BY <1>2, <5>1
          <5> QED BY <3>5, <5>1, <5>2
        <4> QED BY <4>1, <4>2
      <3> HIDE DEF q, r, n
      <3> QED BY <2>1, <3>1, <3>4, <3>5
    <2> QED BY <2>1, <2>2 DEF LocksLate
  <1> QED BY <1>6, <1>7

(* The same when the head is only taken off.                               *)
LEMMA CalmPops ==
    ASSUME NEW x \in Transaction, NEW y,
           x.todo # <<>>, y.todo = Tail(x.todo), y.kind = x.kind, Calm(x),
           x.kind \in Brief /\ Free(y) =>
              /\ Free(x) /\ x.skipped \subseteq y.skipped
              /\ LedgerLock(Head(x.todo)) => Head(x.todo).job \in y.skipped
              /\ \A lock \in y.held : lock[1][1] # "event"
    PROVE  Calm(y)
  <1> DEFINE new == <<>>
             q == x.todo
  <1>1. new \in Seq(Statement) /\ Len(new) = 0
    OBVIOUS
  <1>2. q \in Seq(Statement) /\ q # <<>>
    BY DEF Transaction
  <1>3. Tail(q) \in Seq(Statement)
    <2> HIDE DEF q
    <2> QED BY <1>2
  <1> DEFINE tl == Tail(q)
  <1>4. y.todo = new \o tl
    <2>1. y.todo = tl
      OBVIOUS
    <2> HIDE DEF tl
    <2> QED BY <1>3, <2>1 DEF tl
  <1> HIDE DEF new
  <1>5. \A i \in 1..Len(new) : FALSE
    BY <1>1
  <1> QED BY <1>1, <1>4, <1>5, CalmMoves

(* Who has the commercial row is not without it.                           *)
LEMMA HasNotFree ==
    ASSUME NEW x, Has(x, LedgerRow)
    PROVE  ~Free(x)
  <1>1. <<LedgerRow, "update">>[1] = LedgerRow
    OBVIOUS
  <1> QED BY <1>1 DEF Has, Free

(* Who trims or inserts has it.                                            *)
LEMMA LedgerHad ==
    ASSUME EventsTypeOK, NEW t \in DOMAIN tx, Local(tx[t]), Running(t), ~Stale(t),
           Now(t).do \in {"record", "insert"}
    PROVE  Has(tx[t], LedgerRow)
  <1>1. LedgerRow \in RowsOf(Now(t)) /\ Wants(Now(t), Now(t).job, LedgerRow)
    BY DEF RowsOf, Wants
  <1>2. LedgerRow # Mark(Now(t).job)
    BY DEF LedgerRow, Mark
  <1> QED BY <1>1, <1>2, HeadHas

(* What is left to do after an event was inserted.                         *)
LEMMA InsertTodo ==
    ASSUME EventsTypeOK, NEW t \in DOMAIN tx, Insert(t)
    PROVE  /\ Running(t) /\ ~Stale(t) /\ Now(t).do = "insert"
           /\ tx'[t].todo = Tail(tx[t].todo)
  <1> DEFINE x == tx[t]
             v == x.added \cup {[n |-> ledger.next, of |-> Now(t).job,
                                 ended |-> Now(t).ended]}
             y == [x EXCEPT !.todo = Tail(x.todo), !.added = v]
  <1>1. x \in Transaction /\ Running(t) /\ ~Stale(t) /\ Now(t).do = "insert"
    BY DEF EventsTypeOK, Insert, Goes
  <1>2. Proceed(t, y)
    BY DEF Insert, Rest
  <1>3. y.todo = Tail(x.todo)
    <2> HIDE DEF x, v
    <2> QED BY <1>1 DEF Transaction
  <1> HIDE DEF y
  <1>4. tx'[t] = y
    BY <1>2, Proceeds DEF EventsTypeOK
  <1> QED BY <1>1, <1>3, <1>4

(* What is left to do after an analysis was closed.                        *)
LEMMA CloseJobTodo ==
    ASSUME EventsTypeOK, NEW t \in DOMAIN tx, CloseJob(t)
    PROVE  /\ Running(t) /\ ~Stale(t) /\ Now(t).do = "close"
           /\ tx'[t].todo = Tail(tx[t].todo) /\ tx'[t].skipped = tx[t].skipped
  <1> DEFINE x == tx[t]
             v == x.closed \cup {Now(t).job}
             y == [x EXCEPT !.todo = Tail(x.todo), !.closed = v]
  <1>1. x \in Transaction /\ Running(t) /\ ~Stale(t) /\ Now(t).do = "close"
    BY DEF EventsTypeOK, CloseJob, Goes
  <1>2. Proceed(t, y)
    BY DEF CloseJob, Rest
  <1>3. y.todo = Tail(x.todo) /\ y.skipped = x.skipped
    <2> HIDE DEF x, v
    <2> QED BY <1>1 DEF Transaction
  <1> HIDE DEF y
  <1>4. tx'[t] = y
    BY <1>2, Proceeds DEF EventsTypeOK
  <1> QED BY <1>1, <1>3, <1>4

(* What is left to do after the choice of the events that have expired.    *)
LEMMA DiscardOldTodo ==
    ASSUME EventsTypeOK, NEW t \in DOMAIN tx, DiscardOld(t)
    PROVE  /\ Running(t) /\ ~Stale(t) /\ Now(t).do = "discard"
           /\ \E S \in SUBSET ProductEvent :
                 tx'[t].todo = Deletion(0, S) \o Tail(tx[t].todo)
  <1> DEFINE x == tx[t]
  <1>1. x \in Transaction /\ Running(t) /\ ~Stale(t) /\ Now(t).do = "discard"
    BY DEF EventsTypeOK, DiscardOld, Goes
  <1>2. PICK k \in 1..EventLimit :
          Proceed(t, [x EXCEPT !.todo =
             Deletion(0, Oldest(ledger.events, k)) \o Tail(x.todo)])
    BY DEF DiscardOld, Rest
  <1> DEFINE S == Oldest(ledger.events, k)
             q == Deletion(0, S) \o Tail(x.todo)
             y == [x EXCEPT !.todo = q]
  <1>3. Proceed(t, y)
    BY <1>2
  <1>4. S \in SUBSET ProductEvent
    BY DEF EventsTypeOK, Oldest
  <1>5. y.todo = q
    <2> HIDE DEF x, q
    <2> QED BY <1>1 DEF Transaction
  <1> HIDE DEF y
  <1>6. tx'[t] = y
    BY <1>3, Proceeds DEF EventsTypeOK
  <1> HIDE DEF S
  <1> QED BY <1>1, <1>4, <1>5, <1>6

(* What is left to do after one analysis was deleted.                      *)
LEMMA CascadeEventsTodo ==
    ASSUME EventsTypeOK, NEW t \in DOMAIN tx, CascadeEvents(t)
    PROVE  /\ Running(t) /\ ~Stale(t) /\ Now(t).do = "cascade"
           /\ tx'[t].skipped = tx[t].skipped
           /\ \E row \in Now(t).rows : \E S \in SUBSET ProductEvent :
                 /\ S = {e \in Seen(t) : e.of = row[2]}
                 /\ tx'[t].todo = (Deletion(Now(t).job, S)
                                   \o Through("cascade", Now(t).job, Now(t).rows \ {row}))
                                  \o Tail(tx[t].todo)
  <1> DEFINE x == tx[t]
             s == Now(t)
  <1>1. x \in Transaction /\ Running(t) /\ ~Stale(t) /\ s.do = "cascade"
    BY DEF EventsTypeOK, CascadeEvents, Goes
  <1>2. PICK row \in s.rows :
          Proceed(t, [x EXCEPT
             !.todo = (Deletion(s.job, {e \in Seen(t) : e.of = row[2]})
                       \o Through("cascade", s.job, s.rows \ {row}))
                      \o Tail(x.todo),
             !.deleted = x.deleted \cup {row[2]}])
    BY DEF CascadeEvents, Rest
  <1> DEFINE S == {e \in Seen(t) : e.of = row[2]}
             q == (Deletion(s.job, S) \o Through("cascade", s.job, s.rows \ {row}))
                  \o Tail(x.todo)
             v == x.deleted \cup {row[2]}
             y == [x EXCEPT !.todo = q, !.deleted = v]
  <1>3. Proceed(t, y)
    BY <1>2
  <1>4. S \in SUBSET ProductEvent
    BY <1>1 DEF EventsTypeOK, Seen, Transaction
  <1>5. y.todo = q /\ y.skipped = x.skipped
    <2> HIDE DEF x, q, v
    <2> QED BY <1>1 DEF Transaction
  <1> HIDE DEF y
  <1>6. tx'[t] = y
    BY <1>3, Proceeds DEF EventsTypeOK
  <1>7. tx'[t].todo = (Deletion(s.job, S) \o Through("cascade", s.job, s.rows \ {row}))
                      \o Tail(tx[t].todo)
    BY <1>5, <1>6
  <1>8. tx'[t].skipped = tx[t].skipped
    BY <1>5, <1>6
  <1>9. S = {e \in Seen(t) : e.of = row[2]}
    OBVIOUS
  <1> HIDE DEF S, s
  <1> QED BY <1>1, <1>4, <1>7, <1>8, <1>9 DEF s

(* What is left to do after a turn of a loop.                              *)
LEMMA IterateTodo ==
    ASSUME EventsTypeOK, NEW t \in DOMAIN tx, Iterate(t)
    PROVE  /\ tx[t].todo # <<>> /\ Now(t).do \in Loops
           /\ tx'[t].skipped = tx[t].skipped
           /\ \E row \in Now(t).rows :
                 /\ \A other \in Now(t).rows : row[2] <= other[2]
                 /\ tx'[t].todo = (Body(Now(t).do, row[2])
                                   \o Through(Now(t).do, 0, Now(t).rows \ {row}))
                                  \o Tail(tx[t].todo)
  <1> DEFINE x == tx[t]
             s == Now(t)
  <1>1. x \in Transaction /\ x.todo # <<>> /\ s.do \in Loops
    BY DEF EventsTypeOK, Iterate, Running, Loops
  <1>2. PICK row \in s.rows :
          /\ \A other \in s.rows : row[2] <= other[2]
          /\ Proceed(t, [x EXCEPT !.todo =
                (Body(s.do, row[2]) \o Through(s.do, 0, s.rows \ {row})) \o Tail(x.todo)])
    BY DEF Iterate, Rest
  <1> DEFINE q == (Body(s.do, row[2]) \o Through(s.do, 0, s.rows \ {row})) \o Tail(x.todo)
             y == [x EXCEPT !.todo = q]
  <1>3. Proceed(t, y)
    BY <1>2
  <1>4. y.todo = q /\ y.skipped = x.skipped
    <2> HIDE DEF x, q
    <2> QED BY <1>1 DEF Transaction
  <1> HIDE DEF y
  <1>5. tx'[t] = y
    BY <1>3, Proceeds DEF EventsTypeOK
  <1>6. tx'[t].skipped = tx[t].skipped /\ tx'[t].todo = q
    BY <1>4, <1>5
  <1> HIDE DEF s
  <1> QED BY <1>1, <1>2, <1>6 DEF s

(* Every step of a transaction keeps it calm.                              *)
LEMMA CalmSkip ==
    ASSUME EventsTypeOK, NEW t \in DOMAIN tx, Calm(tx[t]), Skip(t)
    PROVE  Calm(tx'[t])
  <1> DEFINE x == tx[t]
             y == tx'[t]
  <1>1. x \in Transaction /\ x.todo # <<>> /\ y.todo = Tail(x.todo)
        /\ y.skipped = x.skipped \cup {Head(x.todo).job}
    BY SkipTodo DEF EventsTypeOK
  <1>2. y.kind = x.kind /\ y.held = x.held
    BY SkipMoves DEF Keeps
  <1>3. Calm(x)
    OBVIOUS
  <1> HIDE DEF x, y
  <1>4. Free(y) => Free(x)
    BY <1>2 DEF Free
  <1>5. x.kind \in Brief /\ Free(y) => \A lock \in y.held : lock[1][1] # "event"
    BY <1>2, <1>3, <1>4 DEF Calm, LocksLate
  <1>6. Calm(y)
    BY <1>1, <1>2, <1>3, <1>4, <1>5, CalmPops
  <1> QED BY <1>6 DEF y

(* Closing an analysis takes a step off and no lock.                        *)
LEMMA CalmClose ==
    ASSUME EventsTypeOK, NEW t \in DOMAIN tx, Calm(tx[t]), CloseJob(t)
    PROVE  Calm(tx'[t])
  <1> DEFINE x == tx[t]
             y == tx'[t]
  <1>1. /\ x \in Transaction /\ x.todo # <<>> /\ y.todo = Tail(x.todo)
        /\ y.skipped = x.skipped /\ Head(x.todo).do = "close"
    BY CloseJobTodo DEF EventsTypeOK, Running, Now
  <1>2. y.kind = x.kind /\ y.held = x.held
    BY CloseJobMoves DEF Keeps
  <1>3. Calm(x)
    OBVIOUS
  <1> HIDE DEF x, y
  <1>4. Free(y) => Free(x)
    BY <1>2 DEF Free
  <1>5. x.kind \in Brief /\ Free(y) => \A lock \in y.held : lock[1][1] # "event"
    BY <1>2, <1>3, <1>4 DEF Calm, LocksLate
  <1>6. ~LedgerLock(Head(x.todo))
    BY <1>1 DEF LedgerLock
  <1>7. Calm(y)
    BY <1>1, <1>2, <1>3, <1>4, <1>5, <1>6, CalmPops
  <1> QED BY <1>7 DEF y

(* An event is inserted with the commercial row.                            *)
LEMMA CalmInsert ==
    ASSUME EventsTypeOK, NEW t \in DOMAIN tx, Local(tx[t]), Calm(tx[t]), Insert(t)
    PROVE  Calm(tx'[t])
  <1> DEFINE x == tx[t]
             y == tx'[t]
  <1>1. x \in Transaction /\ x.todo # <<>> /\ y.todo = Tail(x.todo)
    BY InsertTodo DEF EventsTypeOK, Running
  <1>2. y.kind = x.kind /\ y.held = x.held
    BY InsertMoves
  <1>3. Has(x, LedgerRow)
    BY InsertTodo, LedgerHad
  <1>4. Calm(x)
    OBVIOUS
  <1> HIDE DEF x, y
  <1>5. ~Free(y)
    BY <1>2, <1>3, HasNotFree DEF Has
  <1>6. Calm(y)
    BY <1>1, <1>2, <1>4, <1>5, CalmPops
  <1> QED BY <1>6 DEF y

(* So are the oldest ones deleted before it.                                *)
LEMMA CalmTrim ==
    ASSUME EventsTypeOK, NEW t \in DOMAIN tx, Local(tx[t]), Calm(tx[t]), Trim(t)
    PROVE  Calm(tx'[t])
  <1> DEFINE x == tx[t]
             y == tx'[t]
             s == Head(x.todo)
             S == Oldest(Seen(t), Count(t) - EventLimit + 1)
             z == [s EXCEPT !.do = "insert"]
             rest == <<z>>
             new == Deletion(s.job, S) \o rest
             l == Lock(s.job, EventRows(S), "update")
             d == Step("drop", s.job, EventRows(S))
  <1>1. x \in Transaction /\ x.todo # <<>> /\ y.todo = new \o Tail(x.todo)
    BY TrimTodo DEF EventsTypeOK, Running, Now, Rest
  <1>2. y.kind = x.kind /\ y.held = x.held
    BY TrimMoves DEF Keeps
  <1>3. Has(x, LedgerRow)
    BY TrimTodo, LedgerHad
  <1>4. Calm(x)
    OBVIOUS
  <1>5. s \in Statement
    BY <1>1, HeadIs
  <1>6. s.job \in Job \cup {0} /\ z \in Statement /\ z.do = "insert"
    <2> HIDE DEF s
    <2> QED BY <1>5 DEF Statement
  <1>7. S \in SUBSET ProductEvent
    <2>1. Seen(t) \subseteq ProductEvent
      BY <1>1 DEF EventsTypeOK, Seen, Transaction
    <2> QED BY <2>1 DEF Oldest
  <1>8. l.do = "lock" /\ d.do = "drop"
    BY DEF Lock, Step, Make
  <1> HIDE DEF z
  <1>9. rest \in Seq(Statement) /\ Len(rest) = 1 /\ \A i \in 1..Len(rest) : rest[i] = z
    BY <1>6
  <1>14. /\ new = Deletion(s.job, S) \o rest
         /\ l = Lock(s.job, EventRows(S), "update")
         /\ d = Step("drop", s.job, EventRows(S))
    OBVIOUS
  <1> HIDE DEF x, y, s, S, rest, new, l, d
  <1>10. /\ new \in Seq(Statement) /\ DeletesThen(new, rest, l, d)
         /\ Len(rest) \in Nat /\ Len(new) \in Nat
    BY <1>6, <1>7, <1>9, <1>14, Deletes, ZenonT(90)
  <1>11. \A i \in 1..Len(new) : new[i].do \notin Loops \cup {"cascade"}
    <2>1. \A i \in 1..Len(new) : new[i] = l \/ new[i] = d \/ new[i] = z
      BY <1>9, <1>10 DEF DeletesThen
    <2> QED BY <1>6, <1>8, <2>1 DEF Loops
  <1>12. ~Free(y)
    BY <1>2, <1>3, HasNotFree DEF Has
  <1>13. Calm(y)
    BY <1>1, <1>2, <1>4, <1>10, <1>11, <1>12, CalmMoves
  <1> QED BY <1>13 DEF y

(* The expired events are chosen with the commercial row.                   *)
LEMMA CalmDiscard ==
    ASSUME EventsTypeOK, NEW t \in DOMAIN tx, Local(tx[t]), Calm(tx[t]), DiscardOld(t)
    PROVE  Calm(tx'[t])
  <1> DEFINE x == tx[t]
             y == tx'[t]
             s == Head(x.todo)
             rest == <<>>
  <1>1. x \in Transaction /\ x.todo # <<>> /\ s.do = "discard" /\ s = Now(t)
    BY DiscardOldTodo DEF EventsTypeOK, Running, Now
  <1>2. PICK S \in SUBSET ProductEvent : y.todo = Deletion(0, S) \o Tail(x.todo)
    BY DiscardOldTodo
  <1>3. y.kind = x.kind /\ y.held = x.held
    BY DiscardOldMoves DEF Keeps
  <1>4. s.job \notin x.skipped
    BY DiscardOldTodo, HeadHas DEF Now
  <1>5. Calm(x)
    OBVIOUS
  <1> DEFINE del == Deletion(0, S)
             new == del \o rest
             l == Lock(0, EventRows(S), "update")
             d == Step("drop", 0, EventRows(S))
  <1>6. l.do = "lock" /\ d.do = "drop"
    BY DEF Lock, Step, Make
  <1>7. rest \in Seq(Statement) /\ Len(rest) = 0
    OBVIOUS
  <1>8. new = del
    <2>1. del \in Seq(Statement)
      BY DeletionTypes
    <2> HIDE DEF del
    <2> QED BY <2>1
  <1>9. y.todo = new \o Tail(x.todo)
    BY <1>2, <1>8
  <1> HIDE DEF x, y, s, rest, del
  <1>10. /\ new \in Seq(Statement) /\ DeletesThen(new, rest, l, d)
         /\ Len(rest) \in Nat /\ Len(new) \in Nat
    <2> HIDE DEF l, d
    <2> DEFINE none == 0
    <2>1. /\ new = Deletion(none, S) \o rest /\ l = Lock(none, EventRows(S), "update")
          /\ d = Step("drop", none, EventRows(S)) /\ none \in Job \cup {0}
      BY DEF del, l, d
    <2>2. S \in SUBSET ProductEvent /\ rest \in Seq(Statement)
      BY <1>7
    <2> HIDE DEF new, none
    <2> QED BY <2>1, <2>2, Deletes, ZenonT(90)
  <1> HIDE DEF new, l, d
  <1>11. \A i \in 1..Len(new) : new[i].do \notin Loops \cup {"cascade"}
    <2>1. \A i \in 1..Len(new) : new[i] = l \/ new[i] = d
      BY <1>7, <1>10 DEF DeletesThen
    <2> QED BY <1>6, <2>1 DEF Loops
  <1>12. x.kind \in Brief => ~Free(x)
    <2>1. SUFFICES ASSUME x.kind \in Brief, Free(x) PROVE FALSE
      OBVIOUS
    <2>2. LocksLate(x)
      BY <1>5, <2>1 DEF Calm
    <2> DEFINE w == x.todo
    <2>3. w \in Seq(Statement) /\ w # <<>> /\ s = Head(w)
      BY <1>1 DEF Transaction, s
    <2>4. 1 \in 1..Len(w) /\ w[1] = s
      <3> HIDE DEF w
      <3> QED BY <2>3
    <2>5. Needy(s) /\ ~FirstLock(x, s)
      BY <1>1 DEF Needy, FirstLock
    <2>6. \A k \in 1..1-1 : FALSE
      OBVIOUS
    <2> QED BY <1>4, <2>2, <2>4, <2>5, <2>6 DEF LocksLate
  <1>13. x.kind \in Brief => ~Free(y)
    BY <1>3, <1>12 DEF Free
  <1>14. Calm(y)
    BY <1>1, <1>3, <1>5, <1>9, <1>10, <1>11, <1>13, CalmMoves
  <1> QED BY <1>14 DEF y

(* The head of the list, when it is about to be done.                      *)
LEMMA HeadFirst ==
    ASSUME NEW x \in Transaction, x.todo # <<>>
    PROVE  1 \in 1..Len(x.todo) /\ x.todo[1] = Head(x.todo)
  <1> DEFINE w == x.todo
  <1>1. w \in Seq(Statement) /\ w # <<>>
    BY DEF Transaction
  <1> HIDE DEF w
  <1>2. 1 \in 1..Len(w) /\ w[1] = Head(w)
    BY <1>1
  <1> QED BY <1>2 DEF w

(* Without that row, only the first lock of all is taken.                   *)
LEMMA CalmTake ==
    ASSUME EventsTypeOK, NEW t \in DOMAIN tx, Local(tx[t]), Calm(tx[t]), Take(t)
    PROVE  Calm(tx'[t])
  <1> DEFINE x == tx[t]
             y == tx'[t]
             s == Head(x.todo)
  <1>1. /\ Now(t).do = "lock" /\ ~Stale(t) /\ Running(t)
        /\ y.kind = x.kind
    BY TakeMoves
  <1>2. PICK row \in Now(t).rows :
              /\ y.held = x.held \cup {<<row, Now(t).mode>>}
              /\ y.skipped = x.skipped
              /\ y.todo = IF Now(t).rows \ {row} = {} THEN Rest(t)
                          ELSE <<[Now(t) EXCEPT !.rows = Now(t).rows \ {row}]>> \o Rest(t)
    BY TakeMoves
  <1>3. x \in Transaction /\ x.todo # <<>> /\ s = Now(t) /\ s \in Statement
    <2>1. x \in Transaction /\ x.todo # <<>> /\ s = Now(t)
      BY <1>1 DEF EventsTypeOK, Running, Now
    <2> QED BY <2>1, HeadIs
  <1>4. s.job \notin x.skipped
    BY <1>1, HeadHas DEF Now
  <1> DEFINE lock == <<row, s.mode>>
             a == [s EXCEPT !.rows = s.rows \ {row}]
             new == <<a>>
  <1>5. /\ y.held = x.held \cup {lock} /\ row \in s.rows /\ s.do = "lock"
        /\ y.skipped = x.skipped
        /\ y.todo = IF s.rows \ {row} = {} THEN Tail(x.todo) ELSE new \o Tail(x.todo)
    BY <1>1, <1>2, <1>3 DEF Rest
  <1>6. Calm(x)
    OBVIOUS
  <1>7. lock[1] = row
    OBVIOUS
  <1>8. a \in Statement /\ a.do = "lock"
    <2> HIDE DEF s
    <2> QED BY <1>3, <1>5 DEF Statement
  <1>9. 1 \in 1..Len(x.todo) /\ x.todo[1] = s
    BY <1>3, HeadFirst
  <1> HIDE DEF a
  <1>10. new \in Seq(Statement) /\ Len(new) = 1 /\ \A i \in 1..Len(new) : new[i] = a
    BY <1>8
  <1> HIDE DEF x, y, s, lock, new
  <1>11. Free(y) => Free(x) /\ row # LedgerRow
    BY <1>5, <1>7 DEF Free
  <1>12. ASSUME x.kind \in Brief, Free(y)
         PROVE  /\ s.rows = {row} /\ row[1] # "event" /\ x.held = {}
                /\ ~LedgerLock(s)
    <2>1. LocksLate(x)
      BY <1>6, <1>11, <1>12 DEF Calm
    <2>2. ~LedgerLock(s) /\ Needy(s)
      BY <1>5, <1>11, <1>12 DEF LedgerLock, Needy
    <2>3. FirstLock(x, s) \/ \E k \in 1..1-1 : LedgerLock(x.todo[k])
      BY <1>4, <1>9, <2>1, <2>2 DEF LocksLate
    <2>4. \A k \in 1..1-1 : FALSE
      OBVIOUS
    <2>5. FirstLock(x, s)
      BY <2>3, <2>4
    <2> QED BY <1>5, <2>2, <2>5 DEF FirstLock
  <1>13. x.kind \in Brief /\ Free(y) =>
            /\ s.rows \ {row} = {} /\ ~LedgerLock(s)
            /\ \A b \in y.held : b[1][1] # "event"
    BY <1>5, <1>7, <1>12
  <1>14. CASE s.rows \ {row} = {}
    <2>1. y.todo = Tail(x.todo) /\ x.skipped \subseteq y.skipped
      BY <1>5, <1>14
    <2>2. Calm(y)
      BY <1>1, <1>3, <1>6, <1>11, <1>13, <2>1, CalmPops DEF x, y, s
    <2> QED BY <2>2 DEF y
  <1>15. CASE s.rows \ {row} # {}
    <2>1. y.todo = new \o Tail(x.todo)
      BY <1>5, <1>15
    <2>2. \A i \in 1..Len(new) : new[i].do \notin Loops \cup {"cascade"}
      BY <1>8, <1>10 DEF Loops
    <2>3. ~(x.kind \in Brief /\ Free(y))
      BY <1>13, <1>15
    <2>4. y.kind = x.kind
      BY <1>1 DEF x, y
    <2>5. Calm(y)
      BY <1>3, <1>6, <1>10, <2>1, <2>2, <2>3, <2>4, CalmMoves
    <2> QED BY <2>5 DEF y
  <1> QED BY <1>14, <1>15

(* A deletion leaves, at most, the lock of the trigger to take.             *)
LEMMA CalmDrop ==
    ASSUME EventsTypeOK, NEW t \in DOMAIN tx, Calm(tx[t]), Drop(t)
    PROVE  Calm(tx'[t])
  <1> DEFINE x == tx[t]
             y == tx'[t]
             S == {e \in Seen(t) : EventRow(e) \in Now(t).rows}
             a == Lock(0, {LedgerRow}, "nokey")
             new == IF S = {} THEN <<>> ELSE <<a>>
  <1>1. /\ y.kind = x.kind /\ y.held = x.held /\ y.skipped = x.skipped
        /\ Head(x.todo).do = "drop" /\ x.todo # <<>> /\ x \in Transaction
        /\ y.todo = new \o Tail(x.todo)
    BY DropMoves DEF EventsTypeOK, Now, Rest, Running
  <1>2. Calm(x)
    OBVIOUS
  <1>3. a \in Statement /\ a.do = "lock" /\ ~Needy(a)
    <2>1. a \in Statement
      BY RowTypes, LockTypes DEF Mode
    <2>2. a.do = "lock" /\ a.rows = {LedgerRow}
      BY DEF Lock, Make
    <2> QED BY <2>1, <2>2 DEF Needy
  <1>4. new = <<>> \/ new = <<a>>
    OBVIOUS
  <1> HIDE DEF x, y, a, new
  <1>5. new \in Seq(Statement) /\ \A i \in 1..Len(new) : new[i] = a
    <2>1. CASE new = <<>>
      BY <2>1
    <2>2. CASE new = <<a>>
      BY <1>3, <2>2
    <2> QED BY <1>4, <2>1, <2>2
  <1>6. \A i \in 1..Len(new) : new[i].do \notin Loops \cup {"cascade"} /\ ~Needy(new[i])
    BY <1>3, <1>5 DEF Loops
  <1>7. Free(y) => Free(x)
    BY <1>1 DEF Free
  <1>8. x.kind \in Brief /\ Free(y) => \A lock \in y.held : lock[1][1] # "event"
    BY <1>1, <1>2, <1>7 DEF Calm, LocksLate
  <1>9. ~LedgerLock(Head(x.todo))
    BY <1>1 DEF LedgerLock
  <1>10. Calm(y)
    BY <1>1, <1>2, <1>5, <1>6, <1>7, <1>8, <1>9, CalmMoves
  <1> QED BY <1>10 DEF y

(* Cascades and loops are not of its kind.                                 *)
LEMMA CalmNever ==
    ASSUME EventsTypeOK, NEW t \in DOMAIN tx, Calm(tx[t]), NEW y, y.kind = tx[t].kind,
           tx[t].todo # <<>>, Head(tx[t].todo).do \in Loops \cup {"cascade"}
    PROVE  Calm(y)
  <1>1. tx[t] \in Transaction
    BY DEF EventsTypeOK
  <1>2. 1 \in 1..Len(tx[t].todo) /\ tx[t].todo[1] = Head(tx[t].todo)
    BY <1>1, HeadFirst
  <1> QED BY <1>2 DEF Calm

-----------------------------------------------------------------------------
(* Steps for analysis j, which lock only after they asked for the          *)
(* commercial row, but for step n, which may be the lock of one row.       *)
OneLock(s) ==
    s.do = "lock" /\ \E row \in s.rows : s.rows = {row} /\ row[1] # "event"

Settled(w, j, n) ==
    /\ w \in Seq(Statement)
    /\ \A i \in 1..Len(w) :
          /\ w[i].job = j /\ w[i].do \notin Loops \cup {"cascade"}
          /\ Needy(w[i]) => \/ i = n /\ OneLock(w[i])
                            \/ \E k \in 1..i-1 : LedgerLock(w[k])

(* Such a list after another.                                              *)
LEMMA SettledTwo ==
    ASSUME NEW j, NEW n, NEW p, NEW r, Settled(p, j, n), Settled(r, j, 0),
           NEW w, Joined(w, p, r)
    PROVE  Settled(w, j, n)
  <1>1. p \in Seq(Statement) /\ r \in Seq(Statement)
    BY DEF Settled
  <1>2. /\ w \in Seq(Statement) /\ Len(w) = Len(p) + Len(r)
        /\ Len(p) \in Nat /\ Len(r) \in Nat /\ Spliced(w, p, r)
    BY <1>1, Cat
  <1>3. SUFFICES ASSUME NEW i \in 1..Len(w)
                 PROVE  /\ w[i].job = j /\ w[i].do \notin Loops \cup {"cascade"}
                        /\ Needy(w[i]) => \/ i = n /\ OneLock(w[i])
                                          \/ \E k \in 1..i-1 : LedgerLock(w[k])
    BY <1>2 DEF Settled
  <1>4. CASE i \in 1..Len(p)
    <2>1. w[i] = p[i] /\ \A k \in 1..i-1 : w[k] = p[k]
      BY <1>2, <1>4 DEF Spliced
    <2> QED BY <1>4, <2>1 DEF Settled
  <1>5. CASE i \in Len(p) + 1..Len(w)
    <2> DEFINE h == i - Len(p)
    <2>1. h \in 1..Len(r) /\ w[i] = r[h]
      BY <1>2, <1>5 DEF Spliced
    <2>2. ASSUME NEW k \in 1..h-1
          PROVE  k + Len(p) \in 1..i-1 /\ w[k + Len(p)] = r[k]
      <3> DEFINE m == k + Len(p)
      <3>1. m \in Len(p) + 1..Len(w) /\ m \in 1..i-1 /\ m - Len(p) = k
        BY <1>2, <1>5
      <3> HIDE DEF m
      <3>2. w[m] = r[m - Len(p)]
        BY <1>2, <3>1 DEF Spliced
      <3> QED BY <3>1, <3>2 DEF m
    <2> HIDE DEF h
    <2>3. Needy(r[h]) => \E k \in 1..h-1 : LedgerLock(r[k])
      BY <2>1 DEF Settled
    <2> QED BY <2>1, <2>2, <2>3 DEF Settled
  <1>6. i \in 1..Len(p) \/ i \in Len(p) + 1..Len(w)
    BY <1>2
  <1> QED BY <1>4, <1>5, <1>6

(* A lock of one row.                                                      *)
LEMMA SettledOne ==
    ASSUME NEW j \in Job, NEW row \in Row, row[1] # "event", NEW mode \in Mode
    PROVE  Settled(<<Lock(j, {row}, mode)>>, j, 1)
  <1> DEFINE a == Lock(j, {row}, mode)
             w == <<a>>
  <1>1. a \in Statement
    BY LockTypes
  <1>2. a.do = "lock" /\ a.job = j /\ a.rows = {row}
    BY DEF Lock, Make
  <1> HIDE DEF a
  <1>3. w \in Seq(Statement) /\ Len(w) = 1 /\ w[1] = a
    BY <1>1
  <1>4. \A i \in 1..Len(w) : i = 1 /\ w[i] = a
    BY <1>3
  <1>5. OneLock(a)
    BY <1>2 DEF OneLock
  <1> HIDE DEF w
  <1>6. Settled(w, j, 1)
    BY <1>2, <1>3, <1>4, <1>5 DEF Settled, Loops
  <1> QED BY <1>6 DEF w, a

(* The commercial row, and then two steps that may need it.                *)
LEMMA SettledAfter ==
    ASSUME NEW j, NEW w \in Seq(Statement), Len(w) \in Nat, LedgerLock(w[1]),
           \A i \in 1..Len(w) : /\ w[i].job = j
                                /\ w[i].do \notin Loops \cup {"cascade"}
    PROVE  Settled(w, j, 0)
  <1>1. ASSUME NEW i \in 1..Len(w), Needy(w[i])
        PROVE  \E k \in 1..i-1 : LedgerLock(w[k])
    <2>1. i # 1
      BY <1>1 DEF Needy, LedgerLock
    <2>2. 1 \in 1..i-1
      BY <2>1
    <2> QED BY <2>2
  <1> QED BY <1>1 DEF Settled

(* record_event() is such a list.                                          *)
LEMMA SettledRecord ==
    ASSUME NEW j \in Job, NEW b \in BOOLEAN
    PROVE  Settled(Record(j, b), j, 0)
  <1> DEFINE l == Lock(j, {LedgerRow}, "update")
             c == Make("record", j, {}, "update", b)
             d == Lock(j, {OrgRow(j), JobRow(j)}, "share")
             w == Record(j, b)
  <1>1. l.do = "lock" /\ l.job = j /\ l.rows = {LedgerRow}
    BY DEF Lock, Make
  <1>2. c.do = "record" /\ c.job = j
    BY DEF Make
  <1>3. d.do = "lock" /\ d.job = j
    BY DEF Lock, Make
  <1>4. w = <<l, c, d>>
    BY DEF Record
  <1>5. w \in Seq(Statement)
    BY RecordTypes
  <1> HIDE DEF l, c, d, w
  <1>6. Len(w) = 3 /\ w[1] = l /\ w[2] = c /\ w[3] = d
    BY <1>4
  <1>7. \A i \in 1..Len(w) : w[i] = l \/ w[i] = c \/ w[i] = d
    BY <1>6
  <1>8. /\ LedgerLock(w[1])
        /\ \A i \in 1..Len(w) : w[i].job = j /\ w[i].do \notin Loops \cup {"cascade"}
    BY <1>1, <1>2, <1>3, <1>6, <1>7 DEF LedgerLock, Loops
  <1>9. Settled(w, j, 0)
    BY <1>5, <1>6, <1>8, SettledAfter
  <1> QED BY <1>9 DEF w

(* So is the end of an analysis.                                           *)
LEMMA SettledEnd ==
    ASSUME NEW j \in Job
    PROVE  Settled(End(j), j, 0)
  <1> DEFINE a == Step("close", j, {})
             p == <<a>>
             r == Record(j, TRUE)
             w == p \o r
  <1>1. a \in Statement /\ a.do = "close" /\ a.job = j
    BY StepTypes DEF Does, Step, Make
  <1>2. Settled(r, j, 0)
    BY SettledRecord
  <1>3. Joined(w, p, r)
    BY DEF Joined
  <1>4. End(j) = w
    BY DEF End
  <1> HIDE DEF a, r, w
  <1>5. p \in Seq(Statement) /\ Len(p) = 1 /\ p[1] = a
    BY <1>1
  <1> HIDE DEF p
  <1>6. \A i \in 1..Len(p) : p[i] = a
    BY <1>5
  <1>7. Settled(p, j, 0)
    BY <1>1, <1>5, <1>6 DEF Settled, Needy, Loops
  <1>8. Settled(w, j, 0)
    BY <1>2, <1>3, <1>7, SettledTwo
  <1> QED BY <1>4, <1>8

(* The programs of the transactions about one analysis.                    *)
LEMMA SettledPrograms ==
    ASSUME NEW j \in Job, NEW kind \in {"start", "finish", "failed", "export", "feedback"}
    PROVE  Settled(Program(kind, j), j, 1)
  <1> DEFINE z == LockJob(j)
             e == End(j)
             r == Record(j, FALSE)
  <1>1. /\ JobRow(j) \in Row /\ JobRow(j)[1] # "event"
        /\ OrgRow(j) \in Row /\ OrgRow(j)[1] # "event"
    BY RowTypes DEF JobRow, OrgRow
  <1>2. Settled(z, j, 1)
    BY <1>1, SettledOne DEF LockJob, Mode
  <1>3. Settled(e, j, 0) /\ Settled(r, j, 0)
    BY SettledEnd, SettledRecord
  <1>4. CASE kind = "start"
    <2> DEFINE a == <<Lock(j, {JobRow(j)}, "nokey")>>
               w == a \o r
    <2>1. Settled(a, j, 1)
      BY <1>1, SettledOne DEF Mode
    <2>2. Joined(w, a, r) /\ Program(kind, j) = w
      BY <1>4 DEF Joined, Program
    <2> HIDE DEF a, w, r
    <2> QED BY <1>3, <2>1, <2>2, SettledTwo
  <1>5. CASE kind = "export"
    <2> DEFINE a == <<Lock(j, {OrgRow(j)}, "update")>>
               w == a \o r
    <2>1. Settled(a, j, 1)
      BY <1>1, SettledOne DEF Mode
    <2>2. Joined(w, a, r) /\ Program(kind, j) = w
      BY <1>5 DEF Joined, Program
    <2> HIDE DEF a, w, r
    <2> QED BY <1>3, <2>1, <2>2, SettledTwo
  <1>6. CASE kind = "failed"
    <2> DEFINE w == z \o e
    <2>1. Joined(w, z, e) /\ Program(kind, j) = w
      BY <1>6 DEF Joined, Program
    <2> HIDE DEF w, z, e
    <2> QED BY <1>2, <1>3, <2>1, SettledTwo
  <1>7. CASE kind = "finish"
    <2> DEFINE v == z \o e
               w == v \o r
    <2>1. Joined(v, z, e) /\ Joined(w, v, r) /\ Program(kind, j) = w
      BY <1>7 DEF Joined, Program
    <2> HIDE DEF w, v, z, e, r
    <2>2. Settled(v, j, 1)
      BY <1>2, <1>3, <2>1, SettledTwo
    <2> QED BY <1>3, <2>1, <2>2, SettledTwo
  <1>8. CASE kind = "feedback"
    <2> DEFINE l == Lock(j, {LedgerRow}, "update")
               d == Lock(j, {OrgRow(j), JobRow(j)}, "share")
               u == <<l, d>>
               v == z \o u
               w == v \o r
    <2>1. Joined(v, z, u) /\ Joined(w, v, r) /\ Program(kind, j) = w
      BY <1>8 DEF Joined, Program
    <2>2. l.do = "lock" /\ l.job = j /\ l.rows = {LedgerRow} /\ d.do = "lock" /\ d.job = j
      BY DEF Lock, Make
    <2>3. l \in Statement /\ d \in Statement
      <3>1. {LedgerRow} \in SUBSET Row /\ {OrgRow(j), JobRow(j)} \in SUBSET Row
        BY RowTypes
      <3> QED BY <3>1, LockTypes DEF Mode
    <2> HIDE DEF l, d
    <2>4. u \in Seq(Statement) /\ Len(u) = 2 /\ u[1] = l /\ u[2] = d
      BY <2>3
    <2> HIDE DEF u, v, w, z, r
    <2>5. \A i \in 1..Len(u) : u[i] = l \/ u[i] = d
      BY <2>4
    <2>6. /\ LedgerLock(u[1])
          /\ \A i \in 1..Len(u) : u[i].job = j /\ u[i].do \notin Loops \cup {"cascade"}
      BY <2>2, <2>4, <2>5 DEF LedgerLock, Loops
    <2>7. Settled(u, j, 0)
      BY <2>4, <2>6, SettledAfter
    <2>8. Settled(v, j, 1)
      BY <1>2, <2>1, <2>7, SettledTwo
    <2> QED BY <1>3, <2>1, <2>8, SettledTwo
  <1> QED BY <1>4, <1>5, <1>6, <1>7, <1>8

(* A transaction is calm when it begins.                                   *)
LEMMA CalmBegins ==
    ASSUME NEW kind, NEW j, <<kind, j>> \in Work
    PROVE  Calm(Begin(kind, j))
  <1> DEFINE x == Begin(kind, j)
             w == Program(kind, j)
  <1>1. /\ kind \in Kind /\ (kind \in Wide => j = 0) /\ (kind \notin Wide => j \in Job)
    BY DEF Work, Kind, Wide
  <1>2. x.kind = kind /\ x.todo = w /\ x.held = {}
    BY DEF Begin
  <1>3. SUFFICES ASSUME kind \in Brief PROVE Calm(x)
    BY <1>2 DEF Calm
  <1>4. \E n : Settled(w, j, n) /\ n \in {0, 1}
    <2>1. CASE kind = "discard"
      <3> DEFINE a == Lock(0, {LedgerRow}, "update")
                 d == Step("discard", 0, {})
      <3>1. a.do = "lock" /\ a.job = 0 /\ a.rows = {LedgerRow}
        BY DEF Lock, Make
      <3>2. d.do = "discard" /\ d.job = 0
        BY DEF Step, Make
      <3>3. a \in Statement /\ d \in Statement
        <4>1. {LedgerRow} \in SUBSET Row
          BY RowTypes
        <4> QED BY <4>1, LockTypes, StepTypes DEF Does, Mode
      <3>4. w = <<a, d>> /\ j = 0
        BY <1>1, <2>1 DEF Program, Wide
      <3> HIDE DEF a, d, w
      <3>5. w \in Seq(Statement) /\ Len(w) = 2 /\ w[1] = a /\ w[2] = d
        BY <3>3, <3>4
      <3>6. \A i \in 1..Len(w) : w[i] = a \/ w[i] = d
        BY <3>5
      <3>7. /\ LedgerLock(w[1])
            /\ \A i \in 1..Len(w) : w[i].job = j /\ w[i].do \notin Loops \cup {"cascade"}
        BY <3>1, <3>2, <3>4, <3>5, <3>6 DEF LedgerLock, Loops
      <3>8. w \in Seq(Statement) /\ Len(w) \in Nat
        BY <3>5
      <3>9. Settled(w, j, 0)
        BY <3>7, <3>8, SettledAfter
      <3> QED BY <3>9
    <2>2. CASE kind # "discard"
      <3>1. kind \in {"start", "finish", "failed", "export", "feedback"} /\ j \in Job
        BY <1>1, <1>3, <2>2 DEF Brief, Broad, Kind, Wide
      <3> QED BY <3>1, SettledPrograms
    <2> QED BY <2>1, <2>2
  <1>5. PICK n \in {0, 1} : Settled(w, j, n)
    BY <1>4
  <1> HIDE DEF x, w
  <1>6. \A i \in 1..Len(w) : OneLock(w[i]) => FirstLock(x, w[i])
    BY <1>2 DEF OneLock, FirstLock
  <1>7. ASSUME NEW i \in 1..Len(w), Needy(w[i])
        PROVE  \/ i = 1 /\ FirstLock(x, w[i])
               \/ \E k \in 1..i-1 : LedgerLock(w[k]) /\ w[k].job = w[i].job
    <2>1. CASE i = n /\ OneLock(w[i])
      BY <1>6, <2>1
    <2>2. CASE \E k \in 1..i-1 : LedgerLock(w[k])
      <3>1. PICK k \in 1..i-1 : LedgerLock(w[k])
        BY <2>2
      <3>2. w \in Seq(Statement) /\ Len(w) \in Nat
        BY <1>5 DEF Settled
      <3>3. k \in 1..Len(w)
        BY <3>2
      <3>4. w[k].job = j /\ w[i].job = j
        BY <1>5, <3>3 DEF Settled
      <3> QED BY <3>1, <3>4
    <2> QED BY <1>5, <1>7, <2>1, <2>2 DEF Settled
  <1>8. LocksLate(x)
    BY <1>2, <1>7 DEF LocksLate
  <1>9. Calm(x)
    BY <1>2, <1>5, <1>8 DEF Calm, Settled
  <1> QED BY <1>9 DEF x
-----------------------------------------------------------------------------
(* All organizations that x has come before o.                             *)
OrgsBelow(x, o) == \A lock \in x.held : lock[1][1] = "org" => lock[1][2] < o

(* Step s gets the organization of analysis j.                             *)
GivesOrg(s, job, j) ==
    s.do = "lock" /\ s.mode = "update" /\ s.job = job /\ OrgRow(j) \in s.rows

(* Who has an analysis has its organization.                               *)
OwnsJobs(x) ==
    \A j \in Job : (\E lock \in x.held : lock[1] = JobRow(j)) => Has(x, OrgRow(j))

(* Step s needs the organization of analysis j.                            *)
NeedsOrg(s, j) == s.do \in {"lock", "cascade"} /\ JobRow(j) \in s.rows

(* It is there, or an earlier step gets it.                                *)
JobsCovered(x) ==
    \A i \in 1..Len(x.todo) : \A j \in Job :
        NeedsOrg(x.todo[i], j) =>
            \/ x.todo[i].job \in x.skipped
            \/ Has(x, OrgRow(j))
            \/ \E k \in 1..i-1 : GivesOrg(x.todo[k], x.todo[i].job, j)

(* The rows of locks: of an organization alone, in its turn, and next.     *)
LocksOf(x, s, i) ==
    \A row \in s.rows :
        /\ row = LedgerRow \/ row \in JobRows \/ row[1] \in {"org", "event"}
        /\ row[1] = "org" => /\ i = 1 /\ s.rows = {row} /\ s.mode = "update"
                             /\ OrgsBelow(x, row[2])

LocksInTurn(x) ==
    \A i \in 1..Len(x.todo) : x.todo[i].do = "lock" => LocksOf(x, x.todo[i], i)

(* Step s locks only organizations before o.                               *)
LocksBelow(s, o) ==
    s.do = "lock" => \A row \in s.rows : row[1] = "org" => row[2] < o

(* What is left of the loop of cleanup() are later organizations.          *)
LoopInTurn(x) ==
    \A i \in 1..Len(x.todo) : x.todo[i].do = "expireEach" =>
        /\ \A k \in 1..Len(x.todo) : k # i => x.todo[k].do # "expireEach"
        /\ \A row \in x.todo[i].rows :
              /\ OrgsBelow(x, row[2])
              /\ \A k \in 1..i-1 : LocksBelow(x.todo[k], row[2])

Rises(x) == OwnsJobs(x) /\ JobsCovered(x) /\ LocksInTurn(x) /\ LoopInTurn(x)

(* A transaction that deletes analyses.                                    *)
Rising(x) ==
    x.kind \in Broad =>
      /\ \A i \in 1..Len(x.todo) : x.todo[i].do \in {"lock", "drop", "cascade", "expireEach"}
      /\ Free(x) => Rises(x)

(* How that survives that the head becomes the steps `new'.                *)
LEMMA CoveredMoves ==
    ASSUME NEW x \in Transaction, NEW y, NEW new \in Seq(Statement),
           x.todo # <<>>, y.todo = new \o Tail(x.todo), JobsCovered(x),
           x.skipped \subseteq y.skipped, x.held \subseteq y.held,
           \A i \in 1..Len(new), j \in Job : NeedsOrg(new[i], j) =>
              \/ new[i].job \in y.skipped
              \/ Has(y, OrgRow(j))
              \/ \E k \in 1..i-1 : GivesOrg(new[k], new[i].job, j),
           \A job, j : GivesOrg(Head(x.todo), job, j) =>
              \/ job \in y.skipped
              \/ Has(y, OrgRow(j))
              \/ \E k \in 1..Len(new) : GivesOrg(new[k], job, j)
    PROVE  JobsCovered(y)
  <1> DEFINE q == x.todo
             r == y.todo
             n == Len(new)
  <1>1. r = new \o Tail(q) /\ q \in Seq(Statement) /\ q # <<>>
    BY DEF Transaction
  <1>2. /\ n \in Nat /\ Len(r) \in Nat /\ Len(q) \in Nat /\ Len(q) > 0
        /\ \A i \in 1..Len(r) :
                 \/ i \in 1..n /\ r[i] = new[i]
                 \/ /\ i > n /\ i - n + 1 \in 2..Len(q)
                    /\ r[i] = q[i - n + 1]
        /\ \A i \in 2..Len(q) : /\ i - 1 + n \in 1..Len(r)
                                /\ r[i - 1 + n] = q[i]
        /\ \A i \in 1..n : i \in 1..Len(r) /\ r[i] = new[i]
        /\ q[1] = Head(q)
    <2> HIDE DEF q, r
    <2> QED BY <1>1, Splice
  <1>3. SUFFICES ASSUME NEW i \in 1..Len(r), NEW j \in Job, NeedsOrg(r[i], j)
                 PROVE  \/ r[i].job \in y.skipped
                        \/ Has(y, OrgRow(j))
                        \/ \E k \in 1..i-1 : GivesOrg(r[k], r[i].job, j)
    BY DEF JobsCovered
  <1>4. CASE i \in 1..n /\ r[i] = new[i]
    <2>1. \/ new[i].job \in y.skipped
          \/ Has(y, OrgRow(j))
          \/ \E k \in 1..i-1 : GivesOrg(new[k], new[i].job, j)
      BY <1>3, <1>4
    <2> HIDE DEF q, r
    <2>2. \A k \in 1..i-1 : r[k] = new[k]
      BY <1>2, <1>4
    <2> QED BY <1>4, <2>1, <2>2
  <1>5. CASE i > n /\ i - n + 1 \in 2..Len(q) /\ r[i] = q[i - n + 1]
    <2> DEFINE h == i - n + 1
    <2>1. h \in 2..Len(q) /\ h \in 1..Len(q) /\ i = h - 1 + n
      BY <1>2, <1>5
    <2> HIDE DEF h
    <2>2. r[i] = q[h]
      BY <1>5 DEF h
    <2>3. \/ q[h].job \in x.skipped
          \/ Has(x, OrgRow(j))
          \/ \E k \in 1..h-1 : GivesOrg(q[k], q[h].job, j)
      BY <1>3, <2>1, <2>2 DEF JobsCovered
    <2>4. ASSUME NEW k \in 1..h-1, GivesOrg(q[k], q[h].job, j)
          PROVE  \/ q[h].job \in y.skipped
                 \/ Has(y, OrgRow(j))
                 \/ \E m \in 1..i-1 : GivesOrg(r[m], q[h].job, j)
      <3>1. CASE k = 1
        <4>1. \/ q[h].job \in y.skipped
              \/ Has(y, OrgRow(j))
              \/ \E m \in 1..n : GivesOrg(new[m], q[h].job, j)
          BY <1>2, <2>4, <3>1
        <4> HIDE DEF q, r
        <4>2. \A m \in 1..n : m \in 1..i-1 /\ r[m] = new[m]
          BY <1>2, <1>5
        <4> QED BY <4>1, <4>2
      <3>2. CASE k # 1
        <4> HIDE DEF q, r, n
        <4>1. k \in 2..Len(q) /\ k - 1 + n \in 1..i-1
          BY <1>2, <2>1, <2>4, <3>2
        <4>2. r[k - 1 + n] = q[k]
          BY <1>2, <4>1
        <4> QED BY <2>4, <4>1, <4>2
      <3> QED BY <3>1, <3>2
    <2>5. Has(x, OrgRow(j)) => Has(y, OrgRow(j))
      BY DEF Has
    <2> HIDE DEF q, r, n
    <2> QED BY <2>2, <2>3, <2>4, <2>5
  <1> HIDE DEF q, r, n
  <1> QED BY <1>2, <1>4, <1>5

(* The locks stay in turn if the new ones are.                              *)
LEMMA LocksMoves ==
    ASSUME NEW x \in Transaction, NEW y, NEW new \in Seq(Statement),
           x.todo # <<>>, y.todo = new \o Tail(x.todo), LocksInTurn(x),
           \A i \in 1..Len(new) : new[i].do = "lock" => LocksOf(y, new[i], i)
    PROVE  LocksInTurn(y)
  <1> DEFINE q == x.todo
             r == y.todo
             n == Len(new)
  <1>1. r = new \o Tail(q) /\ q \in Seq(Statement) /\ q # <<>>
    BY DEF Transaction
  <1>2. /\ n \in Nat /\ Len(r) \in Nat /\ Len(q) \in Nat /\ Len(q) > 0
        /\ \A i \in 1..Len(r) :
                 \/ i \in 1..n /\ r[i] = new[i]
                 \/ /\ i > n /\ i - n + 1 \in 2..Len(q)
                    /\ r[i] = q[i - n + 1]
    <2> HIDE DEF q, r
    <2> QED BY <1>1, Splice
  <1>3. SUFFICES ASSUME NEW i \in 1..Len(r), r[i].do = "lock"
                 PROVE  LocksOf(y, r[i], i)
    BY DEF LocksInTurn
  <1>4. CASE i \in 1..n /\ r[i] = new[i]
    BY <1>3, <1>4
  <1>5. CASE i > n /\ i - n + 1 \in 2..Len(q) /\ r[i] = q[i - n + 1]
    <2> DEFINE h == i - n + 1
    <2>1. h \in 2..Len(q) /\ h \in 1..Len(q) /\ h # 1
      BY <1>2, <1>5
    <2>2. r[i] = q[h]
      BY <1>5
    <2> HIDE DEF h
    <2>3. LocksOf(x, q[h], h)
      BY <1>3, <2>1, <2>2 DEF LocksInTurn
    <2> QED BY <2>1, <2>2, <2>3 DEF LocksOf
  <1> HIDE DEF q, r, n
  <1> QED BY <1>2, <1>4, <1>5

(* The loop stays before its organizations, and is the only one.            *)
LEMMA LoopMoves ==
    ASSUME NEW x \in Transaction, NEW y, NEW new \in Seq(Statement),
           x.todo # <<>>, y.todo = new \o Tail(x.todo), LoopInTurn(x),
           \A lock \in y.held : lock \in x.held \/
              (Head(x.todo).do = "lock" /\ lock[1] \in Head(x.todo).rows),
           \A i \in 1..Len(new) : new[i].do = "expireEach" =>
              /\ Head(x.todo).do = "expireEach"
              /\ \A k \in 1..Len(new) : k # i => new[k].do # "expireEach"
              /\ \A row \in new[i].rows :
                    /\ OrgsBelow(y, row[2])
                    /\ \A k \in 1..i-1 : LocksBelow(new[k], row[2]),
           \A i \in 1..Len(new) :
              \/ Head(x.todo).do = "expireEach"
              \/ new[i].do = "lock" => \A row \in new[i].rows : row[1] = "org" =>
                    Head(x.todo).do = "lock" /\ row \in Head(x.todo).rows
    PROVE  LoopInTurn(y)
  <1> DEFINE q == x.todo
             r == y.todo
             n == Len(new)
  <1>1. r = new \o Tail(q) /\ q \in Seq(Statement) /\ q # <<>>
    BY DEF Transaction
  <1>2. /\ n \in Nat /\ Len(r) \in Nat /\ Len(q) \in Nat /\ Len(q) > 0
        /\ q[1] = Head(q) /\ 1 \in 1..Len(q)
        /\ \A i \in 1..Len(r) :
                 \/ i \in 1..n /\ r[i] = new[i]
                 \/ /\ i > n /\ i - n + 1 \in 2..Len(q)
                    /\ r[i] = q[i - n + 1]
    <2> HIDE DEF q, r
    <2> QED BY <1>1, Splice
  <1>3. SUFFICES ASSUME NEW i \in 1..Len(r), r[i].do = "expireEach"
                 PROVE  /\ \A k \in 1..Len(r) : k # i => r[k].do # "expireEach"
                        /\ \A row \in r[i].rows :
                              /\ OrgsBelow(y, row[2])
                              /\ \A k \in 1..i-1 : LocksBelow(r[k], row[2])
    BY DEF LoopInTurn
  <1>4. q[1].do = "expireEach" => \A h \in 2..Len(q) : q[h].do # "expireEach"
    <2>1. \A h \in 2..Len(q) : h \in 1..Len(q) /\ h # 1
      BY <1>2
    <2> QED BY <1>2, <2>1 DEF LoopInTurn
  <1>5. CASE i \in 1..n /\ r[i] = new[i]
    <2>1. /\ q[1].do = "expireEach"
          /\ \A k \in 1..n : k # i => new[k].do # "expireEach"
          /\ \A row \in r[i].rows :
                    /\ OrgsBelow(y, row[2])
                    /\ \A k \in 1..i-1 : LocksBelow(new[k], row[2])
      BY <1>2, <1>3, <1>5
    <2> HIDE DEF q, r, n
    <2>2. ASSUME NEW k \in 1..Len(r), k # i PROVE r[k].do # "expireEach"
      BY <1>2, <1>4, <2>1, <2>2
    <2>3. \A k \in 1..i-1 : r[k] = new[k]
      <3>1. \A k \in 1..i-1 : k \in 1..Len(r) /\ ~(k > n)
        BY <1>2, <1>5
      <3> QED BY <1>2, <3>1
    <2> QED BY <2>1, <2>2, <2>3
  <1>6. CASE i > n /\ i - n + 1 \in 2..Len(q) /\ r[i] = q[i - n + 1]
    <2> DEFINE h == i - n + 1
    <2>1. h \in 2..Len(q) /\ h \in 1..Len(q) /\ h # 1 /\ i = h - 1 + n /\ 1 \in 1..h-1
      BY <1>2, <1>6
    <2>2. r[i] = q[h]
      BY <1>6
    <2> HIDE DEF h
    <2>3. /\ \A k \in 1..Len(q) : k # h => q[k].do # "expireEach"
          /\ \A row \in q[h].rows :
                /\ OrgsBelow(x, row[2])
                /\ \A k \in 1..h-1 : LocksBelow(q[k], row[2])
      BY <1>3, <2>1, <2>2 DEF LoopInTurn
    <2>4. q[1].do # "expireEach"
      BY <1>2, <2>1, <2>3
    <2>5. \A k \in 1..n : /\ new[k].do # "expireEach"
                          /\ new[k].do = "lock" => \A row \in new[k].rows :
                                row[1] = "org" => q[1].do = "lock" /\ row \in q[1].rows
      BY <1>2, <2>4
    <2>6. ASSUME NEW k \in 1..Len(r), k # i PROVE r[k].do # "expireEach"
      <3>1. CASE k \in 1..n /\ r[k] = new[k]
        BY <2>5, <3>1
      <3>2. CASE k > n /\ k - n + 1 \in 2..Len(q) /\ r[k] = q[k - n + 1]
        <4>1. k - n + 1 \in 1..Len(q) /\ k - n + 1 # h
          <5> HIDE DEF q, r, n
          <5> QED BY <1>2, <2>1, <2>6, <3>2
        <4> QED BY <2>3, <3>2, <4>1
      <3> HIDE DEF q, r, n
      <3> QED BY <1>2, <3>1, <3>2
    <2>7. ASSUME NEW row \in r[i].rows
          PROVE  /\ OrgsBelow(y, row[2])
                 /\ \A k \in 1..i-1 : LocksBelow(r[k], row[2])
      <3>1. OrgsBelow(x, row[2]) /\ LocksBelow(q[1], row[2])
        BY <2>1, <2>2, <2>3, <2>7
      <3>2. OrgsBelow(y, row[2])
        BY <1>2, <3>1 DEF OrgsBelow, LocksBelow
      <3>3. ASSUME NEW k \in 1..i-1 PROVE LocksBelow(r[k], row[2])
        <4>1. k \in 1..Len(r)
          BY <1>2
        <4>2. CASE k \in 1..n /\ r[k] = new[k]
          BY <2>5, <3>1, <4>2 DEF LocksBelow
        <4>3. CASE k > n /\ k - n + 1 \in 2..Len(q) /\ r[k] = q[k - n + 1]
          <5>1. k - n + 1 \in 1..h-1
            <6> HIDE DEF q, r, n
            <6> QED BY <1>2, <2>1, <3>3, <4>1, <4>3
          <5> QED BY <2>2, <2>3, <2>7, <4>3, <5>1
        <4> HIDE DEF q, r, n
        <4> QED BY <1>2, <4>1, <4>2, <4>3
      <3> QED BY <3>2, <3>3
    <2> QED BY <2>6, <2>7
  <1> HIDE DEF q, r, n
  <1> QED BY <1>2, <1>5, <1>6

(* Nothing goes before what is left when the head is taken off.            *)
LEMMA PopIs ==
    ASSUME NEW x \in Transaction, x.todo # <<>>
    PROVE  Tail(x.todo) = <<>> \o Tail(x.todo)
  <1> DEFINE q == x.todo
  <1>1. q \in Seq(Statement) /\ q # <<>>
    BY DEF Transaction
  <1>2. Tail(q) \in Seq(Statement)
    <2> HIDE DEF q
    <2> QED BY <1>1
  <1> DEFINE tl == Tail(q)
  <1> HIDE DEF tl
  <1>3. tl = <<>> \o tl
    BY <1>2 DEF tl
  <1> QED BY <1>3 DEF tl

(* The steps of a transaction that deletes.                                *)
BroadStep == {"lock", "drop", "cascade", "expireEach"}

(* A transaction that deletes stays so, if its new steps are of its kind.   *)
LEMMA RisingMoves ==
    ASSUME NEW x \in Transaction, NEW y, NEW new \in Seq(Statement),
           x.todo # <<>>, y.todo = new \o Tail(x.todo), y.kind = x.kind, Rising(x),
           x.kind \in Broad => \A i \in 1..Len(new) : new[i].do \in BroadStep,
           x.kind \in Broad /\ Free(y) => Free(x),
           x.kind \in Broad /\ Free(y) /\ Rises(x) => Rises(y)
    PROVE  Rising(y)
  <1> DEFINE q == x.todo
             r == y.todo
             n == Len(new)
  <1>1. r = new \o Tail(q) /\ q \in Seq(Statement) /\ q # <<>>
    BY DEF Transaction
  <1>2. /\ n \in Nat /\ Len(r) \in Nat /\ Len(q) \in Nat /\ Len(q) > 0
        /\ \A i \in 1..Len(r) :
                 \/ i \in 1..n /\ r[i] = new[i]
                 \/ /\ i > n /\ i - n + 1 \in 2..Len(q)
                    /\ r[i] = q[i - n + 1]
    <2> HIDE DEF q, r
    <2> QED BY <1>1, Splice
  <1>3. ASSUME y.kind \in Broad PROVE \A i \in 1..Len(r) : r[i].do \in BroadStep
    <2>1. \A i \in 1..n : new[i].do \in BroadStep
      BY <1>3
    <2>2. \A h \in 1..Len(q) : q[h].do \in BroadStep
      BY <1>3 DEF Rising, BroadStep
    <2>3. \A h \in 2..Len(q) : h \in 1..Len(q)
      BY <1>2
    <2> HIDE DEF q, r, n
    <2> QED BY <1>2, <2>1, <2>2, <2>3
  <1> QED BY <1>3 DEF Rising, BroadStep

(* Every step of such a transaction keeps to the order.                    *)
LEMMA RisingSkip ==
    ASSUME EventsTypeOK, NEW t \in DOMAIN tx, Rising(tx[t]), Skip(t)
    PROVE  Rising(tx'[t])
  <1> DEFINE x == tx[t]
             y == tx'[t]
             new == <<>>
  <1>1. x \in Transaction /\ x.todo # <<>> /\ y.todo = Tail(x.todo)
        /\ y.skipped = x.skipped \cup {Head(x.todo).job}
    BY SkipTodo DEF EventsTypeOK
  <1>2. y.kind = x.kind /\ y.held = x.held
    BY SkipMoves DEF Keeps
  <1>3. y.todo = new \o Tail(x.todo)
    BY <1>1, PopIs
  <1>4. Rising(x) /\ new \in Seq(Statement) /\ \A i \in 1..Len(new) : FALSE
    OBVIOUS
  <1> HIDE DEF x, y, new
  <1>5. Free(y) => Free(x)
    BY <1>2 DEF Free
  <1>6. ASSUME Rises(x) PROVE Rises(y)
    <2>1. OwnsJobs(y)
      BY <1>2, <1>6 DEF Rises, OwnsJobs, Has
    <2>2. \A job, j : GivesOrg(Head(x.todo), job, j) => job \in y.skipped
      BY <1>1 DEF GivesOrg
    <2>3. JobsCovered(y)
      BY <1>1, <1>2, <1>3, <1>4, <1>6, <2>2, CoveredMoves DEF Rises
    <2>4. LocksInTurn(y)
      BY <1>1, <1>3, <1>4, <1>6, LocksMoves DEF Rises
    <2>5. LoopInTurn(y)
      BY <1>1, <1>2, <1>3, <1>4, <1>6, LoopMoves DEF Rises
    <2> QED BY <2>1, <2>3, <2>4, <2>5 DEF Rises
  <1>7. Rising(y)
    BY <1>1, <1>2, <1>3, <1>4, <1>5, <1>6, RisingMoves
  <1> QED BY <1>7 DEF y

(* A row that is taken is the next in the order.                            *)
LEMMA RisingTake ==
    ASSUME EventsTypeOK, NEW t \in DOMAIN tx, Local(tx[t]), Rising(tx[t]), Take(t)
    PROVE  Rising(tx'[t])
  <1> DEFINE x == tx[t]
             y == tx'[t]
             s == Head(x.todo)
  <1>1. /\ Now(t).do = "lock" /\ ~Stale(t) /\ Running(t)
        /\ y.kind = x.kind
    BY TakeMoves
  <1>2. PICK row \in Now(t).rows :
              /\ y.held = x.held \cup {<<row, Now(t).mode>>}
              /\ y.skipped = x.skipped
              /\ y.todo = IF Now(t).rows \ {row} = {} THEN Rest(t)
                          ELSE <<[Now(t) EXCEPT !.rows = Now(t).rows \ {row}]>> \o Rest(t)
    BY TakeMoves
  <1>3. x \in Transaction /\ x.todo # <<>> /\ s = Now(t) /\ s \in Statement
    <2>1. x \in Transaction /\ x.todo # <<>> /\ s = Now(t)
      BY <1>1 DEF EventsTypeOK, Running, Now
    <2> QED BY <2>1, HeadIs
  <1>4. s.job \notin x.skipped
    BY <1>1, HeadHas DEF Now
  <1> DEFINE lock == <<row, s.mode>>
             a == [s EXCEPT !.rows = s.rows \ {row}]
             new == IF s.rows \ {row} = {} THEN <<>> ELSE <<a>>
  <1>5. /\ y.held = x.held \cup {lock} /\ row \in s.rows /\ s.do = "lock"
        /\ y.skipped = x.skipped
        /\ y.todo = IF s.rows \ {row} = {} THEN Tail(x.todo) ELSE <<a>> \o Tail(x.todo)
    BY <1>1, <1>2, <1>3 DEF Rest
  <1>6. y.todo = new \o Tail(x.todo) /\ (new = <<>> \/ new = <<a>>)
    BY <1>3, <1>5, PopIs
  <1>7. Rising(x) /\ lock[1] = row /\ (s.mode = "update" => lock = <<row, "update">>)
    OBVIOUS
  <1>8. a \in Statement /\ a.do = "lock" /\ a.job = s.job /\ a.rows = s.rows \ {row}
    <2> HIDE DEF s
    <2> QED BY <1>3, <1>5 DEF Statement
  <1>9. 1 \in 1..Len(x.todo) /\ x.todo[1] = s
    BY <1>3, HeadFirst
  <1>10. s = Head(x.todo) /\ y.kind = x.kind
    BY <1>1
  <1> HIDE DEF a, lock, new, x, y, s
  <1>11. new \in Seq(Statement) /\ \A i \in 1..Len(new) : i = 1 /\ new[i] = a
    <2>1. CASE new = <<>>
      BY <2>1
    <2>2. CASE new = <<a>>
      BY <1>8, <2>2
    <2> QED BY <1>6, <2>1, <2>2
  <1>12. Free(y) => Free(x)
    BY <1>5 DEF Free
  <1>13. ASSUME Rises(x) PROVE Rises(y)
    <2>1. \A j \in Job : NeedsOrg(s, j) => Has(x, OrgRow(j))
      <3>1. \A k \in 1..1-1 : FALSE
        OBVIOUS
      <3> QED BY <1>4, <1>9, <1>13, <3>1 DEF Rises, JobsCovered
    <2>2. \A rw : Has(x, rw) => Has(y, rw)
      BY <1>5 DEF Has
    <2>3. OwnsJobs(y)
      <3>1. \A j \in Job : row = JobRow(j) => NeedsOrg(s, j)
        BY <1>5 DEF NeedsOrg
      <3> QED BY <1>5, <1>7, <1>13, <2>1, <2>2, <3>1 DEF Rises, OwnsJobs
    <2>4. LocksOf(x, s, 1)
      BY <1>5, <1>9, <1>13 DEF Rises, LocksInTurn
    <2>5. \A rw \in s.rows : rw[1] = "org" => s.rows = {rw} /\ s.mode = "update"
      BY <2>4 DEF LocksOf
    <2>6. \A job, j : GivesOrg(s, job, j) => Has(y, OrgRow(j))
      <3>1. \A j : OrgRow(j)[1] = "org"
        BY DEF OrgRow
      <3> QED BY <1>5, <1>7, <2>5, <3>1 DEF GivesOrg, Has
    <2>7. \A j : NeedsOrg(a, j) => NeedsOrg(s, j)
      BY <1>5, <1>8 DEF NeedsOrg
    <2>8. \A i \in 1..Len(new), j \in Job : NeedsOrg(new[i], j) => Has(y, OrgRow(j))
      BY <1>11, <2>1, <2>2, <2>7
    <2>9. JobsCovered(y)
      <3>1. \A i \in 1..Len(new), j \in Job : NeedsOrg(new[i], j) =>
               \/ new[i].job \in y.skipped
               \/ Has(y, OrgRow(j))
               \/ \E k \in 1..i-1 : GivesOrg(new[k], new[i].job, j)
        BY <2>8
      <3>2. \A job, j : GivesOrg(Head(x.todo), job, j) =>
               \/ job \in y.skipped
               \/ Has(y, OrgRow(j))
               \/ \E k \in 1..Len(new) : GivesOrg(new[k], job, j)
        BY <1>10, <2>6
      <3>3. JobsCovered(x) /\ x.skipped \subseteq y.skipped /\ x.held \subseteq y.held
        BY <1>5, <1>13 DEF Rises
      <3> QED BY <1>3, <1>6, <1>11, <3>1, <3>2, <3>3, CoveredMoves
    <2>10. LocksOf(y, a, 1)
      <3>1. \A rw \in a.rows : rw \in s.rows /\ rw # row
        BY <1>8
      <3>2. \A rw \in a.rows : rw[1] # "org"
        BY <1>5, <2>5, <3>1
      <3> QED BY <2>4, <3>1, <3>2 DEF LocksOf
    <2>11. LocksInTurn(y)
      BY <1>3, <1>6, <1>11, <1>13, <2>10, LocksMoves DEF Rises
    <2>12. \A b \in y.held : b \in x.held \/ (s.do = "lock" /\ b[1] \in s.rows)
      BY <1>5, <1>7
    <2>13. \A i \in 1..Len(new) : /\ new[i].do = "lock" /\ new[i].rows \subseteq s.rows
                                  /\ new[i].do # "expireEach"
      BY <1>8, <1>11
    <2>14. LoopInTurn(y)
      BY <1>3, <1>5, <1>6, <1>10, <1>11, <1>13, <2>12, <2>13, LoopMoves DEF Rises
    <2> QED BY <2>3, <2>9, <2>11, <2>14 DEF Rises
  <1>14. \A i \in 1..Len(new) : new[i].do \in BroadStep
    BY <1>8, <1>11 DEF BroadStep
  <1>15. Rising(y)
    BY <1>3, <1>6, <1>7, <1>10, <1>11, <1>12, <1>13, <1>14, RisingMoves
  <1> QED BY <1>15 DEF y

(* A deletion of events leaves only the lock of the trigger.                *)
LEMMA RisingDrop ==
    ASSUME EventsTypeOK, NEW t \in DOMAIN tx, Rising(tx[t]), Drop(t)
    PROVE  Rising(tx'[t])
  <1> DEFINE x == tx[t]
             y == tx'[t]
             s == Head(x.todo)
             S == {e \in Seen(t) : EventRow(e) \in Now(t).rows}
             a == Lock(0, {LedgerRow}, "nokey")
             new == IF S = {} THEN <<>> ELSE <<a>>
  <1>1. /\ y.kind = x.kind /\ y.held = x.held /\ y.skipped = x.skipped
        /\ s.do = "drop" /\ x.todo # <<>> /\ x \in Transaction
        /\ y.todo = new \o Tail(x.todo) /\ s = Head(x.todo)
    BY DropMoves DEF EventsTypeOK, Now, Rest, Running
  <1>2. Rising(x)
    OBVIOUS
  <1>3. a \in Statement /\ a.do = "lock" /\ a.rows = {LedgerRow}
    <2>1. a \in Statement
      BY RowTypes, LockTypes DEF Mode
    <2> QED BY <2>1 DEF Lock, Make
  <1>4. new = <<>> \/ new = <<a>>
    OBVIOUS
  <1> HIDE DEF x, y, s, a, new
  <1>5. new \in Seq(Statement) /\ \A i \in 1..Len(new) : new[i] = a
    <2>1. CASE new = <<>>
      BY <2>1
    <2>2. CASE new = <<a>>
      BY <1>3, <2>2
    <2> QED BY <1>4, <2>1, <2>2
  <1>6. \A i \in 1..Len(new) : new[i].do \in BroadStep
    BY <1>3, <1>5 DEF BroadStep
  <1>7. Free(y) => Free(x)
    BY <1>1 DEF Free
  <1>8. LedgerRow[1] # "org" /\ \A j : LedgerRow # JobRow(j)
    BY DEF LedgerRow, JobRow
  <1>9. ASSUME Rises(x) PROVE Rises(y)
    <2>1. OwnsJobs(y)
      BY <1>1, <1>9 DEF Rises, OwnsJobs, Has
    <2>2. /\ \A job, j : ~GivesOrg(s, job, j)
          /\ \A i \in 1..Len(new), j \in Job : ~NeedsOrg(new[i], j)
      BY <1>1, <1>3, <1>5, <1>8 DEF GivesOrg, NeedsOrg
    <2>3. JobsCovered(y)
      BY <1>1, <1>5, <1>9, <2>2, CoveredMoves DEF Rises
    <2>4. \A i \in 1..Len(new) : LocksOf(y, new[i], i)
      BY <1>3, <1>5, <1>8 DEF LocksOf
    <2>5. LocksInTurn(y)
      BY <1>1, <1>5, <1>9, <2>4, LocksMoves DEF Rises
    <2>6. \A i \in 1..Len(new) : /\ new[i].do # "expireEach"
                                 /\ \A rw \in new[i].rows : rw[1] # "org"
      BY <1>3, <1>5, <1>8
    <2>7. LoopInTurn(y)
      BY <1>1, <1>5, <1>9, <2>6, LoopMoves DEF Rises
    <2> QED BY <2>1, <2>3, <2>5, <2>7 DEF Rises
  <1>10. Rising(y)
    BY <1>1, <1>2, <1>5, <1>6, <1>7, <1>9, RisingMoves
  <1> QED BY <1>10 DEF y

(* What never is a step of such a transaction.                             *)
LEMMA RisingNever ==
    ASSUME EventsTypeOK, NEW t \in DOMAIN tx, Rising(tx[t]), NEW y, y.kind = tx[t].kind,
           tx[t].todo # <<>>, Head(tx[t].todo).do \notin BroadStep
    PROVE  Rising(y)
  <1>1. tx[t] \in Transaction
    BY DEF EventsTypeOK
  <1>2. 1 \in 1..Len(tx[t].todo) /\ tx[t].todo[1] = Head(tx[t].todo)
    BY <1>1, HeadFirst
  <1> QED BY <1>2 DEF Rising, BroadStep

(* The events of an analysis that is deleted come with its organization.    *)
LEMMA RisingCascade ==
    ASSUME EventsTypeOK, NEW t \in DOMAIN tx, Local(tx[t]), Rising(tx[t]),
           CascadeEvents(t)
    PROVE  Rising(tx'[t])
  <1> DEFINE x == tx[t]
             y == tx'[t]
             s == Head(x.todo)
  <1>1. /\ x \in Transaction /\ x.todo # <<>> /\ s = Now(t) /\ s.do = "cascade"
        /\ y.skipped = x.skipped
    BY CascadeEventsTodo DEF EventsTypeOK, Running, Now
  <1>2. PICK row \in s.rows, S \in SUBSET ProductEvent :
           y.todo = (Deletion(s.job, S) \o Through("cascade", s.job, s.rows \ {row}))
                    \o Tail(x.todo)
    BY CascadeEventsTodo DEF Now
  <1>3. y.kind = x.kind /\ y.held = x.held
    BY CascadeEventsMoves DEF Keeps
  <1>4. s \in Statement /\ s = Head(x.todo) /\ Rising(x)
    BY <1>1, HeadIs
  <1>5. s.job \in Job \cup {0} /\ s.rows \in SUBSET Row
    <2> HIDE DEF s
    <2> QED BY <1>4 DEF Statement
  <1> DEFINE rows == s.rows \ {row}
             c == Step("cascade", s.job, rows)
             r == Through("cascade", s.job, rows)
             new == Deletion(s.job, S) \o r
             l == Lock(s.job, EventRows(S), "update")
             d == Step("drop", s.job, EventRows(S))
  <1>6. /\ r \in Seq(Statement) /\ \A i \in 1..Len(r) : r[i] = c
        /\ c.do = "cascade" /\ c.job = s.job /\ c.rows = rows
    <2>1. "cascade" \in Does /\ rows \in SUBSET Row /\ rows \subseteq s.rows
      BY <1>5 DEF Does
    <2>2. TurnIs(r, c, "cascade", s.job, rows)
      <3> HIDE DEF rows, s
      <3> QED BY <1>5, <2>1, ThroughIs
    <2> HIDE DEF r, c, rows
    <2> QED BY <2>2 DEF TurnIs, AllAre
  <1>7. /\ l.do = "lock" /\ l.job = s.job /\ l.rows = EventRows(S)
        /\ d.do = "drop" /\ d.job = s.job
    BY DEF Lock, Step, Make
  <1>8. /\ new = Deletion(s.job, S) \o r
        /\ l = Lock(s.job, EventRows(S), "update")
        /\ d = Step("drop", s.job, EventRows(S))
        /\ y.todo = new \o Tail(x.todo) /\ rows \subseteq s.rows
    BY <1>2
  <1> HIDE DEF x, y, s, rows, c, r, new, l, d
  <1>9. /\ new \in Seq(Statement) /\ DeletesThen(new, r, l, d)
        /\ Len(r) \in Nat /\ Len(new) \in Nat
    BY <1>5, <1>6, <1>8, Deletes, ZenonT(90)
  <1>10. \A i \in 1..Len(new) : new[i] = l \/ new[i] = d \/ new[i] = c
    BY <1>6, <1>9 DEF DeletesThen
  <1>11. 1 \in 1..Len(x.todo) /\ x.todo[1] = s
    BY <1>1, HeadFirst DEF s
  <1>12. Free(y) => Free(x)
    BY <1>3 DEF Free
  <1>13. \A rw \in l.rows : rw[1] = "event"
    BY <1>7 DEF EventRows, EventRow
  <1>14. \A j : JobRow(j)[1] # "event"
    BY DEF JobRow
  <1>15. ASSUME Rises(x) PROVE Rises(y)
    <2>1. OwnsJobs(y)
      BY <1>3, <1>15 DEF Rises, OwnsJobs, Has
    <2>2. \A job, j : ~GivesOrg(s, job, j)
      BY <1>1 DEF GivesOrg
    <2>3. \A i \in 1..Len(new), j \in Job : NeedsOrg(new[i], j) =>
              NeedsOrg(s, j) /\ new[i].job = s.job
      <3>1. \A j : ~NeedsOrg(l, j) /\ ~NeedsOrg(d, j)
        BY <1>7, <1>13, <1>14 DEF NeedsOrg
      <3>2. \A j : NeedsOrg(c, j) => NeedsOrg(s, j)
        BY <1>1, <1>6, <1>8 DEF NeedsOrg
      <3> QED BY <1>6, <1>10, <3>1, <3>2
    <2>4. \A j \in Job : NeedsOrg(s, j) => s.job \in x.skipped \/ Has(x, OrgRow(j))
      <3>1. \A k \in 1..1-1 : FALSE
        OBVIOUS
      <3> QED BY <1>11, <1>15, <3>1 DEF Rises, JobsCovered
    <2>5. \A i \in 1..Len(new), j \in Job : NeedsOrg(new[i], j) =>
              new[i].job \in y.skipped \/ Has(y, OrgRow(j))
      BY <1>1, <1>3, <2>3, <2>4 DEF Has
    <2>6. JobsCovered(y)
      <3>1. /\ \A i \in 1..Len(new), j \in Job : NeedsOrg(new[i], j) =>
                  new[i].job \in y.skipped \/ Has(y, OrgRow(j))
            /\ \A job, j : ~GivesOrg(Head(x.todo), job, j)
        BY <1>4, <2>2, <2>5
      <3>2. /\ x \in Transaction /\ x.todo # <<>> /\ new \in Seq(Statement)
            /\ y.todo = new \o Tail(x.todo) /\ JobsCovered(x)
            /\ x.skipped \subseteq y.skipped /\ x.held \subseteq y.held
        BY <1>1, <1>3, <1>8, <1>9, <1>15 DEF Rises
      <3> QED BY <3>1, <3>2, CoveredMoves
    <2>7. \A i \in 1..Len(new) : /\ new[i].do # "expireEach"
                                 /\ new[i].do = "lock" => new[i] = l
      BY <1>6, <1>7, <1>10
    <2>8. \A i \in 1..Len(new) : new[i].do = "lock" => LocksOf(y, new[i], i)
      BY <1>13, <2>7 DEF LocksOf
    <2>9. LocksInTurn(y)
      BY <1>1, <1>8, <1>9, <1>15, <2>8, LocksMoves DEF Rises
    <2>10. \A i \in 1..Len(new) : new[i].do = "lock" =>
              \A rw \in new[i].rows : rw[1] # "org"
      BY <1>13, <2>7
    <2>11. LoopInTurn(y)
      <3>1. /\ x \in Transaction /\ x.todo # <<>> /\ new \in Seq(Statement)
            /\ y.todo = new \o Tail(x.todo) /\ LoopInTurn(x)
            /\ y.held = x.held
        BY <1>1, <1>3, <1>8, <1>9, <1>15 DEF Rises
      <3> QED BY <2>7, <2>10, <3>1, LoopMoves
    <2> QED BY <2>1, <2>6, <2>9, <2>11 DEF Rises
  <1>16. \A i \in 1..Len(new) : new[i].do \in BroadStep
    BY <1>6, <1>7, <1>10 DEF BroadStep
  <1>17. Rising(y)
    BY <1>1, <1>3, <1>4, <1>8, <1>9, <1>12, <1>15, <1>16, RisingMoves
  <1> QED BY <1>17 DEF y

(* The steps of a turn of cleanup(), and what is left of its loop.         *)
ExpireSteps(new, a, b, c, e, o, rows) ==
    /\ a.do = "lock" /\ a.job = 0 /\ a.mode = "update" /\ a.rows = {<<"org", o>>}
    /\ b.do = "lock" /\ b.job = 0
    /\ b.rows = {JobRow(j) : j \in {i \in Job : OrgOf[i] = o}}
    /\ c.do = "cascade" /\ c.job = 0 /\ c.rows = b.rows
    /\ e.do = "expireEach" /\ e.rows = rows
    /\ new \in Seq(Statement) /\ Len(new) > 1 /\ new[1] = a
    /\ \A i \in 1..Len(new) :
          \/ i = 1 /\ new[i] = a
          \/ i = 2 /\ new[i] = b
          \/ i > 2 /\ new[i] = c
          \/ i > 2 /\ i = Len(new) /\ new[i] = e

(* A turn of cleanup(): an organization, its analyses, the rest of the      *)
(* loop.                                                                    *)
LEMMA ExpireIs ==
    ASSUME NEW o \in Nat, NEW rows \in SUBSET Row, NEW new,
           Joined(new, Expire(o), Through("expireEach", 0, rows))
    PROVE  \E a, b, c, e : ExpireSteps(new, a, b, c, e, o, rows)
  <1> DEFINE r == Through("expireEach", 0, rows)
             e == Step("expireEach", 0, rows)
             jobs == {JobRow(j) : j \in {i \in Job : OrgOf[i] = o}}
             a == Lock(0, {<<"org", o>>}, "update")
             b == Lock(0, jobs, "update")
             u == Through("cascade", 0, jobs)
             c == Step("cascade", 0, jobs)
  <1>1. /\ r \in Seq(Statement) /\ Len(r) \in {0, 1}
        /\ \A i \in 1..Len(r) : r[i] = e
        /\ e.do = "expireEach" /\ e.rows = rows
    <2>1. "expireEach" \in Does /\ 0 \in Job \cup {0}
      BY DEF Does
    <2>2. TurnIs(r, e, "expireEach", 0, rows)
      BY <2>1, ThroughIs
    <2> HIDE DEF r, e
    <2> QED BY <2>2 DEF TurnIs, AllAre
  <1>2. jobs \in SUBSET Row /\ {<<"org", o>>} \in SUBSET Row
    <2>1. jobs \subseteq JobRows
      BY DEF JobRows
    <2> HIDE DEF jobs
    <2> QED BY <2>1, RowTypes DEF Row
  <1>3. /\ u \in Seq(Statement) /\ Len(u) \in {0, 1}
        /\ \A i \in 1..Len(u) : u[i] = c
        /\ c.do = "cascade" /\ c.job = 0 /\ c.rows = jobs
    <2>1. "cascade" \in Does /\ 0 \in Job \cup {0}
      BY DEF Does
    <2>2. TurnIs(u, c, "cascade", 0, jobs)
      <3> HIDE DEF jobs
      <3> QED BY <1>2, <2>1, ThroughIs
    <2> HIDE DEF u, c, jobs
    <2> QED BY <2>2 DEF TurnIs, AllAre
  <1>4. /\ a \in Statement /\ b \in Statement
        /\ a.do = "lock" /\ a.job = 0 /\ a.mode = "update" /\ a.rows = {<<"org", o>>}
        /\ b.do = "lock" /\ b.job = 0 /\ b.rows = jobs
    <2> HIDE DEF jobs
    <2>1. a \in Statement
      BY <1>2, LockTypes DEF Mode
    <2>2. b \in Statement
      BY <1>2, LockTypes DEF Mode
    <2> QED BY <2>1, <2>2 DEF Lock, Make
  <1>5. Joined(new, <<a, b>> \o u, r)
    BY DEF Expire
  <1>20. jobs = {JobRow(j) : j \in {i \in Job : OrgOf[i] = o}}
    OBVIOUS
  <1> HIDE DEF r, e, a, b, u, c, jobs
  <1> DEFINE p == <<a, b>>
             w == p \o u
  <1>6. /\ w \in Seq(Statement) /\ Len(w) = 2 + Len(u) /\ Len(u) \in Nat
        /\ w[1] = a /\ w[2] = b /\ \A i \in 3..Len(w) : w[i] = u[i - 2]
    <2>1. p \in Seq(Statement) /\ Len(p) = 2 /\ p[1] = a /\ p[2] = b
      BY <1>4
    <2>2. Joined(w, p, u)
      BY DEF Joined
    <2> HIDE DEF p, w
    <2>3. /\ w \in Seq(Statement) /\ Len(w) = Len(p) + Len(u)
          /\ Len(p) \in Nat /\ Len(u) \in Nat /\ Spliced(w, p, u)
      BY <1>3, <2>1, <2>2, Cat
    <2>4. \A i \in 1..Len(p) : w[i] = p[i]
      BY <2>3 DEF Spliced
    <2>5. \A i \in Len(p) + 1..Len(w) : w[i] = u[i - Len(p)]
      BY <2>3 DEF Spliced
    <2> QED BY <2>1, <2>3, <2>4, <2>5
  <1>7. \A i \in 3..Len(w) : w[i] = c
    <2> HIDE DEF w
    <2>1. \A i \in 3..Len(w) : i - 2 \in 1..Len(u)
      BY <1>6
    <2> QED BY <1>3, <1>6, <2>1
  <1>8. Joined(new, w, r)
    BY <1>5
  <1> HIDE DEF w
  <1>9. /\ new \in Seq(Statement) /\ Len(new) = Len(w) + Len(r) /\ Len(r) \in Nat
        /\ \A i \in 1..Len(w) : new[i] = w[i]
        /\ \A i \in Len(w) + 1..Len(new) : new[i] = r[i - Len(w)]
    <2>1. /\ new \in Seq(Statement) /\ Len(new) = Len(w) + Len(r)
          /\ Len(r) \in Nat /\ Spliced(new, w, r)
      BY <1>1, <1>6, <1>8, Cat
    <2> QED BY <2>1 DEF Spliced
  <1>10. ASSUME NEW i \in 1..Len(new)
         PROVE  \/ i = 1 /\ new[i] = a
                \/ i = 2 /\ new[i] = b
                \/ i > 2 /\ new[i] = c
                \/ i > 2 /\ i = Len(new) /\ new[i] = e
    <2>1. CASE i \in 1..Len(w)
      <3>1. i = 1 \/ i = 2 \/ i \in 3..Len(w)
        BY <1>6, <2>1
      <3> QED BY <1>6, <1>7, <1>9, <2>1, <3>1
    <2>2. CASE i \in Len(w) + 1..Len(new)
      <3>1. i - Len(w) \in 1..Len(r) /\ i > 2 /\ i = Len(new)
        BY <1>1, <1>6, <1>9, <2>2
      <3> QED BY <1>1, <1>9, <2>2, <3>1
    <2>3. i \in 1..Len(w) \/ i \in Len(w) + 1..Len(new)
      BY <1>6, <1>9
    <2> QED BY <2>1, <2>2, <2>3
  <1>11. Len(new) > 1 /\ new[1] = a
    <2>1. 1 \in 1..Len(w) /\ Len(new) > 1
      BY <1>6, <1>9
    <2> QED BY <1>6, <1>9, <2>1
  <1>12. ExpireSteps(new, a, b, c, e, o, rows)
    BY <1>1, <1>3, <1>4, <1>9, <1>10, <1>11, <1>20 DEF ExpireSteps
  <1> QED BY <1>12

(* The turns of cleanup() take the organizations in their order.            *)
LEMMA RisingIterate ==
    ASSUME EventsTypeOK, NEW t \in DOMAIN tx, Local(tx[t]), Rising(tx[t]), Iterate(t)
    PROVE  Rising(tx'[t])
  <1> DEFINE x == tx[t]
             y == tx'[t]
             s == Head(x.todo)
  <1>1. /\ x \in Transaction /\ x.todo # <<>> /\ s = Now(t) /\ s.do \in Loops
        /\ y.skipped = x.skipped
    BY IterateTodo DEF EventsTypeOK, Now
  <1>2. PICK row \in s.rows :
           /\ \A other \in s.rows : row[2] <= other[2]
           /\ y.todo = (Body(s.do, row[2]) \o Through(s.do, 0, s.rows \ {row}))
                       \o Tail(x.todo)
    BY IterateTodo DEF Now
  <1>3. y.kind = x.kind /\ y.held = x.held
    BY IterateMoves DEF Keeps
  <1>4. s \in Statement /\ s = Head(x.todo) /\ Rising(x) /\ Shape(s)
    BY <1>1, HeadIs
  <1>5. CASE s.do # "expireEach"
    <2>1. s.do \notin BroadStep
      BY <1>1, <1>5 DEF Loops, BroadStep
    <2> QED BY <1>1, <1>3, <2>1, RisingNever
  <1>6. CASE s.do = "expireEach"
    <2> DEFINE o == row[2]
               rows == s.rows \ {row}
               new == Expire(o) \o Through("expireEach", 0, rows)
    <2>1. s.rows \subseteq OrgRows /\ s.rows \in SUBSET Row
      <3> HIDE DEF s
      <3> QED BY <1>4, <1>6 DEF Shape, Statement
    <2>2. \A rw \in s.rows : rw = <<"org", rw[2]>> /\ rw[2] \in Nat
      BY <2>1, EventsAssumption DEF OrgRows, OrgRow
    <2>3. Joined(new, Expire(o), Through("expireEach", 0, rows)) /\ rows \in SUBSET Row
      BY <2>1 DEF Joined
    <2>4. y.todo = new \o Tail(x.todo)
      BY <1>2, <1>6 DEF Body
    <2>5. o \in Nat /\ row = <<"org", o>>
      BY <2>2
    <2>6. \A rw \in rows : rw[2] \in Nat /\ o < rw[2] /\ rw \in s.rows
      <3>1. \A rw \in rows : rw \in s.rows /\ rw # row
        OBVIOUS
      <3>2. ASSUME NEW rw \in rows PROVE o < rw[2]
        <4>1. o <= rw[2] /\ o # rw[2] /\ rw[2] \in Nat
          BY <1>2, <2>2, <2>5, <3>1
        <4> QED BY <2>5, <4>1
      <3> QED BY <2>2, <3>1, <3>2
    <2>7. o = row[2] /\ row \in s.rows
      OBVIOUS
    <2> HIDE DEF x, y, s, rows, new, o
    <2>8. PICK a, b, c, e : ExpireSteps(new, a, b, c, e, o, rows)
      BY <2>3, <2>5, ExpireIs
    <2>9. /\ a.do = "lock" /\ a.job = 0 /\ a.mode = "update" /\ a.rows = {<<"org", o>>}
          /\ b.do = "lock" /\ b.job = 0
          /\ b.rows = {JobRow(j) : j \in {i \in Job : OrgOf[i] = o}}
          /\ c.do = "cascade" /\ c.job = 0 /\ c.rows = b.rows
          /\ e.do = "expireEach" /\ e.rows = rows
          /\ new \in Seq(Statement) /\ Len(new) > 1 /\ new[1] = a
      BY <2>8 DEF ExpireSteps
    <2>10. \A i \in 1..Len(new) :
              \/ i = 1 /\ new[i] = a
              \/ i = 2 /\ new[i] = b
              \/ i > 2 /\ new[i] = c
              \/ i > 2 /\ i = Len(new) /\ new[i] = e
      BY <2>8 DEF ExpireSteps
    <2>11. Free(y) => Free(x)
      BY <1>3 DEF Free
    <2>12. 1 \in 1..Len(x.todo) /\ x.todo[1] = s
      BY <1>1, HeadFirst DEF x, s
    <2>13. ASSUME Rises(x) PROVE Rises(y)
      <3>1. OwnsJobs(y)
        BY <1>3, <2>13 DEF Rises, OwnsJobs, Has, x, y
      <3>2. \A job, j : ~GivesOrg(s, job, j)
        BY <1>6 DEF GivesOrg
      <3>3. \A j : JobRow(j) \in b.rows => GivesOrg(a, 0, j)
        <4>1. \A i, j : JobRow(i) = JobRow(j) => i = j
          BY DEF JobRow
        <4>2. ASSUME NEW j, JobRow(j) \in b.rows PROVE OrgOf[j] = o
          <5>1. PICK i \in Job : OrgOf[i] = o /\ JobRow(j) = JobRow(i)
            BY <2>9, <4>2
          <5> QED BY <4>1, <5>1
        <4> QED BY <2>9, <4>2 DEF GivesOrg, OrgRow
      <3>4. ASSUME NEW i \in 1..Len(new), NEW j \in Job, NeedsOrg(new[i], j)
            PROVE  \E k \in 1..i-1 : GivesOrg(new[k], new[i].job, j)
        <4>1. \A k : <<"org", o>> # JobRow(k)
          BY DEF JobRow
        <4>2. i > 1 /\ new[i].job = 0 /\ JobRow(j) \in b.rows
          BY <2>9, <2>10, <3>4, <4>1 DEF NeedsOrg
        <4>3. 1 \in 1..i-1
          BY <4>2
        <4> QED BY <2>9, <3>3, <4>2, <4>3
      <3>5. JobsCovered(y)
        BY <1>1, <1>3, <1>4, <2>4, <2>9, <2>13, <3>2, <3>4, CoveredMoves DEF Rises, x, y, s
      <3>6. \A rw \in s.rows : OrgsBelow(y, rw[2])
        BY <1>3, <1>6, <2>12, <2>13 DEF Rises, LoopInTurn, OrgsBelow, x, y
      <3>7. LocksOf(y, a, 1)
        <4>1. \A rw \in a.rows : rw = row /\ rw[2] = o /\ a.rows = {rw} /\ rw[1] = "org"
          BY <2>5, <2>9
        <4> QED BY <2>7, <2>9, <3>6, <4>1 DEF LocksOf
      <3>8. \A rw \in b.rows : rw \in JobRows /\ rw[1] = "job"
        BY <2>9 DEF JobRows, JobRow
      <3>9. LocksOf(y, b, 2)
        BY <3>8 DEF LocksOf
      <3>10. \A i \in 1..Len(new) : new[i].do = "lock" => LocksOf(y, new[i], i)
        BY <2>9, <2>10, <3>7, <3>9
      <3>11. LocksInTurn(y)
        BY <1>1, <2>4, <2>9, <2>13, <3>10, LocksMoves DEF Rises, x
      <3>12. ASSUME NEW i \in 1..Len(new), new[i].do = "expireEach"
             PROVE  /\ \A k \in 1..Len(new) : k # i => new[k].do # "expireEach"
                    /\ \A rw \in new[i].rows :
                          /\ OrgsBelow(y, rw[2])
                          /\ \A k \in 1..i-1 : LocksBelow(new[k], rw[2])
        <4>1. i = Len(new) /\ new[i] = e
          BY <2>9, <2>10, <3>12
        <4>2. \A k \in 1..Len(new) : k # i => new[k] = a \/ new[k] = b \/ new[k] = c
          BY <2>10, <4>1
        <4>3. ASSUME NEW rw \in new[i].rows
              PROVE  /\ OrgsBelow(y, rw[2])
                     /\ LocksBelow(a, rw[2]) /\ LocksBelow(b, rw[2]) /\ LocksBelow(c, rw[2])
          <5>1. rw \in rows
            BY <2>9, <4>1, <4>3
          <5>2. <<"org", o>>[2] = o
            OBVIOUS
          <5> QED BY <2>6, <2>9, <3>6, <3>8, <5>1, <5>2 DEF LocksBelow
        <4>4. \A k \in 1..i-1 : k \in 1..Len(new) /\ k # i
          BY <4>1
        <4> QED BY <2>9, <4>2, <4>3, <4>4
      <3>13. LoopInTurn(y)
        BY <1>1, <1>3, <1>4, <1>6, <2>4, <2>9, <2>13, <3>12, LoopMoves DEF Rises, x, y, s
      <3> QED BY <3>1, <3>5, <3>11, <3>13 DEF Rises
    <2>14. \A i \in 1..Len(new) : new[i].do \in BroadStep
      BY <2>9, <2>10 DEF BroadStep
    <2>15. Rising(y)
      BY <1>1, <1>3, <1>4, <2>4, <2>9, <2>11, <2>13, <2>14, RisingMoves DEF x, y
    <2> QED BY <2>15 DEF y
  <1> QED BY <1>5, <1>6

(* No step of x locks an event.                                            *)
NoEvents(x) ==
    \A i \in 1..Len(x.todo) : x.todo[i].do = "lock" =>
        \A row \in x.todo[i].rows : row[1] # "event"

(* A transaction that deletes is in the order when it begins.              *)
LEMMA RisingBegins ==
    ASSUME NEW kind, NEW j, <<kind, j>> \in Work
    PROVE  Rising(Begin(kind, j)) /\ (kind \in Broad => NoEvents(Begin(kind, j)))
  <1> DEFINE x == Begin(kind, j)
             w == Program(kind, j)
  <1>1. /\ kind \in Kind /\ (kind \in Wide => j = 0) /\ (kind \notin Wide => j \in Job)
    BY DEF Work, Kind, Wide
  <1>2. x.kind = kind /\ x.todo = w /\ x.held = {}
    BY DEF Begin
  <1>3. OwnsJobs(x) /\ \A o : OrgsBelow(x, o)
    BY <1>2 DEF OwnsJobs, OrgsBelow
  <1>4. CASE kind = "cleanup"
    <2> DEFINE e == Step("expireEach", 0, OrgRows)
    <2>1. "expireEach" \in Does /\ OrgRows \in SUBSET Row
      BY RowTypes DEF Does
    <2>2. TurnIs(w, e, "expireEach", 0, OrgRows)
      <3>1. w = Through("expireEach", 0, OrgRows)
        BY <1>4 DEF Program
      <3> QED BY <2>1, <3>1, ThroughIs
    <2> HIDE DEF x, w, e
    <2>3. Len(w) \in {0, 1} /\ \A i \in 1..Len(w) : i = 1 /\ w[i].do = "expireEach"
      BY <2>2 DEF TurnIs, AllAre
    <2>4. \A i \in 1..Len(w) : \A k \in 1..i-1 : FALSE
      BY <2>3
    <2>5. JobsCovered(x) /\ LocksInTurn(x)
      BY <1>2, <2>3 DEF JobsCovered, LocksInTurn, NeedsOrg
    <2>6. LoopInTurn(x)
      BY <1>2, <1>3, <2>3, <2>4 DEF LoopInTurn
    <2>7. Rising(x)
      BY <1>2, <1>3, <2>3, <2>5, <2>6 DEF Rising, Rises
    <2>8. NoEvents(x)
      BY <1>2, <2>3 DEF NoEvents
    <2> QED BY <2>7, <2>8 DEF x
  <1>5. CASE kind = "delete"
    <2> DEFINE o == Lock(j, {OrgRow(j)}, "update")
               z == Lock(j, {JobRow(j)}, "update")
               c == Step("cascade", j, {JobRow(j)})
               p == <<o>> \o <<z>>
               r == <<c>>
    <2>1. j \in Job
      BY <1>1, <1>5 DEF Wide
    <2>2. {JobRow(j)} \in SUBSET Row /\ {OrgRow(j)} \in SUBSET Row
      BY <2>1, RowTypes
    <2>3. o \in Statement /\ z \in Statement /\ c \in Statement
      BY <2>1, <2>2, LockTypes, StepTypes DEF Mode, Does
    <2>4. /\ o.do = "lock" /\ o.job = j /\ o.rows = {OrgRow(j)} /\ o.mode = "update"
          /\ z.do = "lock" /\ z.job = j /\ z.rows = {JobRow(j)}
          /\ c.do = "cascade" /\ c.job = j /\ c.rows = {JobRow(j)}
      BY DEF Lock, Step, Make
    <2>5. w = p \o r
      BY <1>5 DEF Program, LockJob, Through
    <2> HIDE DEF x, w, o, z, c
    <2>6. /\ p \in Seq(Statement) /\ Len(p) = 2 /\ p[1] = o /\ p[2] = z
          /\ r \in Seq(Statement) /\ Len(r) = 1 /\ r[1] = c
      <3>1. p = <<o, z>>
        BY <2>3, Pair
      <3> HIDE DEF p
      <3> QED BY <2>3, <3>1
    <2>7. Joined(w, p, r)
      BY <2>5 DEF Joined
    <2> HIDE DEF p, r
    <2>8. Len(w) = 3 /\ w[1] = o /\ w[2] = z /\ w[3] = c
      <3>1. /\ w \in Seq(Statement) /\ Len(w) = Len(p) + Len(r)
            /\ Len(p) \in Nat /\ Len(r) \in Nat /\ Spliced(w, p, r)
        BY <2>6, <2>7, Cat
      <3>2. w[1] = p[1] /\ w[2] = p[2] /\ w[3] = r[1]
        BY <2>6, <3>1 DEF Spliced
      <3> QED BY <2>6, <3>1, <3>2
    <2>9. \A i \in 1..Len(w) : \/ i = 1 /\ w[i] = o
                               \/ i = 2 /\ w[i] = z
                               \/ i = 3 /\ w[i] = c
      BY <2>8
    <2>10. /\ JobRow(j) \in JobRows /\ JobRow(j)[1] = "job" /\ OrgRow(j)[1] = "org"
           /\ \A i : JobRow(i) # OrgRow(j)
           /\ \A i : JobRow(i) = JobRow(j) => i = j
      BY <2>1 DEF JobRows, JobRow, OrgRow
    <2>11. LocksInTurn(x)
      <3>1. LocksOf(x, o, 1) /\ LocksOf(x, z, 2)
        BY <1>3, <2>4, <2>10 DEF LocksOf
      <3> QED BY <1>2, <2>4, <2>9, <3>1 DEF LocksInTurn
    <2>12. LoopInTurn(x)
      BY <1>2, <2>4, <2>9 DEF LoopInTurn
    <2>13. JobsCovered(x)
      <3>1. SUFFICES ASSUME NEW i \in 1..Len(w), NEW k \in Job, NeedsOrg(w[i], k)
                     PROVE  \E m \in 1..i-1 : GivesOrg(w[m], w[i].job, k)
        BY <1>2 DEF JobsCovered
      <3>2. i > 1 /\ k = j /\ w[i].job = j
        BY <2>4, <2>9, <2>10, <3>1 DEF NeedsOrg
      <3>3. 1 \in 1..i-1
        BY <3>2
      <3>4. GivesOrg(w[1], w[i].job, k)
        BY <2>4, <2>8, <3>2 DEF GivesOrg
      <3> QED BY <3>3, <3>4
    <2>14. \A i \in 1..Len(w) : w[i].do \in {"lock", "drop", "cascade", "expireEach"}
      BY <2>4, <2>9
    <2>15. Rising(x)
      BY <1>2, <1>3, <2>11, <2>12, <2>13, <2>14 DEF Rising, Rises
    <2>16. NoEvents(x)
      BY <1>2, <2>4, <2>9, <2>10 DEF NoEvents
    <2> QED BY <2>15, <2>16 DEF x
  <1>6. CASE kind \notin Broad
    BY <1>2, <1>6 DEF Rising
  <1> QED BY <1>4, <1>5, <1>6 DEF Broad

-----------------------------------------------------------------------------
(* Every transaction locks in one of these two ways.                       *)
SteadyInv == \A t \in DOMAIN tx : Calm(tx[t]) /\ Rising(tx[t])

(* What an aborted finish() goes on with.                                  *)
LEMMA AbortIs ==
    ASSUME EventsTypeOK, NEW t \in DOMAIN tx, Local(tx[t]), Abort(t)
    PROVE  \/ Done(t)
           \/ \E j \in Job : tx'[t] = Begin("failed", j) /\ Others(t)
  <1>1. CASE tx[t].kind = "finish" /\ Proceed(t, Begin("failed", tx[t].job))
    <2> DEFINE j == tx[t].job
               y == Begin("failed", j)
    <2>1. j \in Job
      BY <1>1 DEF Local, Shaped, Wide
    <2>2. Proceed(t, y)
      BY <1>1
    <2> HIDE DEF y
    <2>3. tx'[t] = y /\ Others(t)
      BY <2>2, Proceeds DEF EventsTypeOK, Others
    <2> QED BY <2>1, <2>3 DEF y
  <1> QED BY <1>1 DEF Abort

(* Every step of every transaction keeps these two ways of locking.         *)
LEMMA SteadyNext ==
    ASSUME EventsTypeOK, LocalInv, SteadyInv, EventsNext
    PROVE  SteadyInv'
  <1>1. PICK t \in DOMAIN tx :
        \/ Skip(t) \/ Iterate(t) \/ Take(t) \/ Drop(t) \/ Trim(t) \/ Insert(t)
        \/ CloseJob(t) \/ CascadeEvents(t) \/ DiscardOld(t) \/ Commit(t) \/ Abort(t)
    BY DEF EventsNext
  <1>2. Local(tx[t]) /\ Calm(tx[t]) /\ Rising(tx[t])
    BY DEF LocalInv, SteadyInv
  <1>3. ASSUME Others(t), Calm(tx'[t]), Rising(tx'[t]) PROVE SteadyInv'
    BY <1>3 DEF Others, SteadyInv
  <1>4. ASSUME Done(t) PROVE SteadyInv'
    BY <1>4, DoneMoves DEF EventsTypeOK, SteadyInv
  <1>5. CASE Skip(t)
    BY <1>2, <1>3, <1>5, SkipMoves, CalmSkip, RisingSkip DEF Keeps
  <1>6. CASE Iterate(t)
    <2>1. Others(t) /\ tx'[t].kind = tx[t].kind
      BY <1>6, IterateMoves DEF Keeps
    <2>2. tx[t].todo # <<>> /\ Head(tx[t].todo).do \in Loops \cup {"cascade"}
      BY <1>6, IterateTodo DEF Now
    <2> QED BY <1>2, <1>3, <1>6, <2>1, <2>2, CalmNever, RisingIterate
  <1>7. CASE Take(t)
    BY <1>2, <1>3, <1>7, TakeMoves, CalmTake, RisingTake
  <1>8. CASE Drop(t)
    BY <1>2, <1>3, <1>8, DropMoves, CalmDrop, RisingDrop
  <1>9. CASE Trim(t)
    <2>1. Others(t) /\ tx'[t].kind = tx[t].kind
      BY <1>9, TrimMoves DEF Keeps
    <2>2. tx[t].todo # <<>> /\ Head(tx[t].todo).do \notin BroadStep
      BY <1>9, TrimTodo DEF Now, Running, BroadStep
    <2> QED BY <1>2, <1>3, <1>9, <2>1, <2>2, CalmTrim, RisingNever
  <1>10. CASE Insert(t)
    <2>1. Others(t) /\ tx'[t].kind = tx[t].kind
      BY <1>10, InsertMoves
    <2>2. tx[t].todo # <<>> /\ Head(tx[t].todo).do \notin BroadStep
      BY <1>10, InsertTodo DEF Now, Running, BroadStep
    <2> QED BY <1>2, <1>3, <1>10, <2>1, <2>2, CalmInsert, RisingNever
  <1>11. CASE CloseJob(t)
    <2>1. Others(t) /\ tx'[t].kind = tx[t].kind
      BY <1>11, CloseJobMoves DEF Keeps
    <2>2. tx[t].todo # <<>> /\ Head(tx[t].todo).do \notin BroadStep
      BY <1>11, CloseJobTodo DEF Now, Running, BroadStep
    <2> QED BY <1>2, <1>3, <1>11, <2>1, <2>2, CalmClose, RisingNever
  <1>12. CASE CascadeEvents(t)
    <2>1. Others(t) /\ tx'[t].kind = tx[t].kind
      BY <1>12, CascadeEventsMoves DEF Keeps
    <2>2. tx[t].todo # <<>> /\ Head(tx[t].todo).do \in Loops \cup {"cascade"}
      BY <1>12, CascadeEventsTodo DEF Now, Running
    <2> QED BY <1>2, <1>3, <1>12, <2>1, <2>2, CalmNever, RisingCascade
  <1>13. CASE DiscardOld(t)
    <2>1. Others(t) /\ tx'[t].kind = tx[t].kind
      BY <1>13, DiscardOldMoves DEF Keeps
    <2>2. tx[t].todo # <<>> /\ Head(tx[t].todo).do \notin BroadStep
      BY <1>13, DiscardOldTodo DEF Now, Running, BroadStep
    <2> QED BY <1>2, <1>3, <1>13, <2>1, <2>2, CalmDiscard, RisingNever
  <1>14. CASE Commit(t)
    BY <1>4, <1>14, CommitMoves
  <1>15. CASE Abort(t)
    <2>1. CASE Done(t)
      BY <1>4, <2>1
    <2>2. CASE \E j \in Job : tx'[t] = Begin("failed", j) /\ Others(t)
      <3>1. PICK j \in Job : tx'[t] = Begin("failed", j) /\ Others(t)
        BY <2>2
      <3>2. <<"failed", j>> \in Work
        BY DEF Work, Kind, Wide
      <3>3. Calm(Begin("failed", j)) /\ Rising(Begin("failed", j))
        BY <3>2, CalmBegins, RisingBegins
      <3> QED BY <1>3, <3>1, <3>3
    <2> QED BY <1>2, <1>15, <2>1, <2>2, AbortIs
  <1> QED BY <1>1, <1>5, <1>6, <1>7, <1>8, <1>9, <1>10, <1>11, <1>12, <1>13, <1>14, <1>15

-----------------------------------------------------------------------------
(* Transaction x has the row of an event, or is to lock it.                *)
Touches(x, row) ==
    /\ row[1] = "event"
    /\ \/ \E lock \in x.held : lock[1] = row
       \/ \E i \in 1..Len(x.todo) : x.todo[i].do = "lock" /\ row \in x.todo[i].rows

(* It deletes without the commercial row.                                  *)
Lone(x) == x.kind \in Broad /\ Free(x)

(* The row is that of an event of an organization x has, or that is gone.  *)
Mine(x, row) ==
    /\ \E m \in Nat : row = <<"event", m>> /\ m < ledger.next
    /\ \A u \in DOMAIN tx : \A e \in tx[u].added : EventRow(e) # row
    /\ \A e \in ledger.events : EventRow(e) = row => Has(x, OrgRow(e.of))

(* Two such transactions never touch the same event.                       *)
FarInv ==
    \A t \in DOMAIN tx : Lone(tx[t]) => \A row : Touches(tx[t], row) =>
        /\ Mine(tx[t], row)
        /\ \A u \in DOMAIN tx : u # t /\ Lone(tx[u]) => ~Touches(tx[u], row)

(* The rows of events that are touched when the head becomes `new'.        *)
LEMMA TouchMoves ==
    ASSUME NEW x \in Transaction, NEW y, NEW new \in Seq(Statement),
           x.todo # <<>>, y.todo = new \o Tail(x.todo),
           \A lock \in y.held : lock \in x.held \/
              (Head(x.todo).do = "lock" /\ lock[1] \in Head(x.todo).rows),
           NEW row, Touches(y, row),
           \A i \in 1..Len(new) : new[i].do = "lock" /\ row \in new[i].rows =>
              Head(x.todo).do = "lock" /\ row \in Head(x.todo).rows
    PROVE  Touches(x, row)
  <1> DEFINE q == x.todo
             r == y.todo
             n == Len(new)
  <1>1. r = new \o Tail(q) /\ q \in Seq(Statement) /\ q # <<>>
    BY DEF Transaction
  <1>2. /\ n \in Nat /\ Len(r) \in Nat /\ Len(q) \in Nat /\ Len(q) > 0
        /\ q[1] = Head(q) /\ 1 \in 1..Len(q)
        /\ \A i \in 1..Len(r) :
                 \/ i \in 1..n /\ r[i] = new[i]
                 \/ /\ i > n /\ i - n + 1 \in 2..Len(q)
                    /\ r[i] = q[i - n + 1]
    <2> HIDE DEF q, r
    <2> QED BY <1>1, Splice
  <1>3. \A h \in 2..Len(q) : h \in 1..Len(q)
    BY <1>2
  <1>4. CASE \E lock \in y.held : lock[1] = row
    BY <1>2, <1>4 DEF Touches
  <1>5. CASE \E i \in 1..Len(r) : r[i].do = "lock" /\ row \in r[i].rows
    <2>1. PICK i \in 1..Len(r) : r[i].do = "lock" /\ row \in r[i].rows
      BY <1>5
    <2>2. CASE i \in 1..n /\ r[i] = new[i]
      <3>1. q[1].do = "lock" /\ row \in q[1].rows
        BY <1>2, <2>1, <2>2
      <3> QED BY <1>2, <3>1 DEF Touches
    <2>3. CASE i - n + 1 \in 2..Len(q) /\ r[i] = q[i - n + 1]
      BY <1>3, <2>1, <2>3 DEF Touches
    <2> HIDE DEF q, r, n
    <2> QED BY <1>2, <2>2, <2>3
  <1> QED BY <1>4, <1>5 DEF Touches

(* A step that touches no new event.                                       *)
LEMMA FarQuiet ==
    ASSUME FarInv, NEW t \in DOMAIN tx, Others(t), ledger' = ledger,
           \A e \in tx'[t].added : e \in tx[t].added,
           Lone(tx'[t]) => /\ Lone(tx[t]) /\ tx[t].held \subseteq tx'[t].held
                           /\ \A row : Touches(tx'[t], row) => Touches(tx[t], row)
    PROVE  FarInv'
  <1>1. DOMAIN tx' = DOMAIN tx /\ \A u \in DOMAIN tx : u # t => tx'[u] = tx[u]
    BY DEF Others
  <1>2. ASSUME NEW u \in DOMAIN tx, Lone(tx'[u])
        PROVE  /\ Lone(tx[u]) /\ tx[u].held \subseteq tx'[u].held
               /\ \A row : Touches(tx'[u], row) => Touches(tx[u], row)
    BY <1>1, <1>2
  <1>3. \A u \in DOMAIN tx : \A e \in tx'[u].added : e \in tx[u].added
    BY <1>1
  <1>4. ASSUME NEW u \in DOMAIN tx, Lone(tx'[u]), NEW row, Touches(tx'[u], row)
        PROVE  /\ Mine(tx[u], row)'
               /\ \A v \in DOMAIN tx : v # u /\ Lone(tx'[v]) => ~Touches(tx'[v], row)
    <2>1. Lone(tx[u]) /\ Touches(tx[u], row) /\ tx[u].held \subseteq tx'[u].held
      BY <1>2, <1>4
    <2>2. /\ Mine(tx[u], row)
          /\ \A v \in DOMAIN tx : v # u /\ Lone(tx[v]) => ~Touches(tx[v], row)
      BY <2>1 DEF FarInv
    <2>3. \A rw : Has(tx[u], rw) => Has(tx'[u], rw)
      BY <2>1 DEF Has
    <2>4. Mine(tx[u], row)'
      BY <1>1, <1>3, <2>2, <2>3 DEF Mine
    <2> QED BY <1>2, <2>2, <2>4
  <1> QED BY <1>1, <1>4 DEF FarInv

(* The end of another transaction.                                         *)
LEMMA FarDone ==
    ASSUME FarInv, EventsTypeOK, NEW t \in DOMAIN tx, Done(t),
           ledger'.next = ledger.next,
           \A e \in ledger'.events : e \in ledger.events \/ e \in tx[t].added
    PROVE  FarInv'
  <1>1. /\ DOMAIN tx' = DOMAIN tx \ {t}
        /\ \A u \in DOMAIN tx' : u \in DOMAIN tx /\ u # t /\ tx'[u] = tx[u]
    BY DoneMoves DEF EventsTypeOK
  <1>2. ASSUME NEW u \in DOMAIN tx', Lone(tx'[u]), NEW row, Touches(tx'[u], row)
        PROVE  /\ Mine(tx[u], row)'
               /\ \A v \in DOMAIN tx' : v # u /\ Lone(tx'[v]) => ~Touches(tx'[v], row)
    <2>1. /\ Mine(tx[u], row)
          /\ \A v \in DOMAIN tx : v # u /\ Lone(tx[v]) => ~Touches(tx[v], row)
      BY <1>1, <1>2 DEF FarInv
    <2>2. \A e \in ledger'.events : EventRow(e) = row => e \in ledger.events
      BY <2>1 DEF Mine
    <2>3. Mine(tx[u], row)'
      BY <1>1, <2>1, <2>2 DEF Mine
    <2> QED BY <1>1, <2>1, <2>3
  <1> QED BY <1>2 DEF FarInv

(* Passing an analysis over touches no event.                               *)
LEMMA FarSkip ==
    ASSUME EventsTypeOK, FarInv, NEW t \in DOMAIN tx, Skip(t)
    PROVE  FarInv'
  <1> DEFINE x == tx[t]
             y == tx'[t]
             new == <<>>
  <1>1. x \in Transaction /\ x.todo # <<>> /\ y.todo = new \o Tail(x.todo)
    BY SkipTodo, PopIs DEF EventsTypeOK
  <1>2. /\ Others(t) /\ y.kind = x.kind /\ y.held = x.held /\ y.added = x.added
        /\ ledger' = ledger
    BY SkipMoves DEF Keeps
  <1>3. new \in Seq(Statement) /\ \A i \in 1..Len(new) : FALSE
    OBVIOUS
  <1> HIDE DEF new, x, y
  <1>4. \A row : Touches(y, row) => Touches(x, row)
    BY <1>1, <1>2, <1>3, TouchMoves
  <1>5. Lone(y) => Lone(x)
    BY <1>2 DEF Lone, Free
  <1> QED BY <1>2, <1>4, <1>5, FarQuiet DEF x, y

(* A lock of an event was to be taken before.                               *)
LEMMA FarTake ==
    ASSUME EventsTypeOK, FarInv, NEW t \in DOMAIN tx, Local(tx[t]), Take(t)
    PROVE  FarInv'
  <1> DEFINE x == tx[t]
             y == tx'[t]
             s == Head(x.todo)
  <1>1. /\ Now(t).do = "lock" /\ Running(t) /\ Others(t)
        /\ y.kind = x.kind /\ y.added = x.added /\ ledger' = ledger
    BY TakeMoves
  <1>2. PICK row \in Now(t).rows :
              /\ y.held = x.held \cup {<<row, Now(t).mode>>}
              /\ y.todo = IF Now(t).rows \ {row} = {} THEN Rest(t)
                          ELSE <<[Now(t) EXCEPT !.rows = Now(t).rows \ {row}]>> \o Rest(t)
    BY TakeMoves
  <1>3. x \in Transaction /\ x.todo # <<>> /\ s = Now(t) /\ s \in Statement
    <2>1. x \in Transaction /\ x.todo # <<>> /\ s = Now(t)
      BY <1>1 DEF EventsTypeOK, Running, Now
    <2> QED BY <2>1, HeadIs
  <1> DEFINE lock == <<row, s.mode>>
             a == [s EXCEPT !.rows = s.rows \ {row}]
             new == IF s.rows \ {row} = {} THEN <<>> ELSE <<a>>
  <1>4. y.held = x.held \cup {lock} /\ row \in s.rows /\ s.do = "lock" /\ lock[1] = row
    BY <1>1, <1>2, <1>3
  <1>5. y.todo = IF s.rows \ {row} = {} THEN Tail(x.todo) ELSE <<a>> \o Tail(x.todo)
    BY <1>2, <1>3 DEF Rest
  <1>6. y.todo = new \o Tail(x.todo) /\ (new = <<>> \/ new = <<a>>)
    BY <1>3, <1>5, PopIs
  <1>7. a \in Statement /\ a.rows \subseteq s.rows
    <2> HIDE DEF s
    <2> QED BY <1>3 DEF Statement
  <1>8. s = Head(x.todo)
    OBVIOUS
  <1> HIDE DEF a, lock, new, x, y, s
  <1>9. new \in Seq(Statement) /\ \A i \in 1..Len(new) : new[i] = a
    <2>1. CASE new = <<>>
      BY <2>1
    <2>2. CASE new = <<a>>
      BY <1>7, <2>2
    <2> QED BY <1>6, <2>1, <2>2
  <1>10. /\ \A b \in y.held : b \in x.held \/ (s.do = "lock" /\ b[1] \in s.rows)
         /\ \A i \in 1..Len(new) : \A rw \in new[i].rows : s.do = "lock" /\ rw \in s.rows
    BY <1>4, <1>7, <1>9
  <1>11. \A rw : Touches(y, rw) => Touches(x, rw)
    BY <1>3, <1>6, <1>8, <1>9, <1>10, TouchMoves
  <1>12. Lone(y) => Lone(x)
    BY <1>1, <1>4 DEF Lone, Free, x, y
  <1> QED BY <1>1, <1>4, <1>11, <1>12, FarQuiet DEF x, y

(* A deletion of events touches no others.                                  *)
LEMMA FarDrop ==
    ASSUME EventsTypeOK, FarInv, NEW t \in DOMAIN tx, Drop(t)
    PROVE  FarInv'
  <1> DEFINE x == tx[t]
             y == tx'[t]
             S == {e \in Seen(t) : EventRow(e) \in Now(t).rows}
             a == Lock(0, {LedgerRow}, "nokey")
             new == IF S = {} THEN <<>> ELSE <<a>>
  <1>1. /\ y.kind = x.kind /\ y.held = x.held /\ y.added = x.added
        /\ x.todo # <<>> /\ x \in Transaction /\ Others(t) /\ ledger' = ledger
        /\ y.todo = new \o Tail(x.todo)
    BY DropMoves DEF EventsTypeOK, Now, Rest, Running
  <1>2. a \in Statement /\ a.rows = {LedgerRow}
    <2>1. a \in Statement
      BY RowTypes, LockTypes DEF Mode
    <2> QED BY <2>1 DEF Lock, Make
  <1>3. new = <<>> \/ new = <<a>>
    OBVIOUS
  <1> HIDE DEF x, y, a, new
  <1>4. new \in Seq(Statement) /\ \A i \in 1..Len(new) : new[i] = a
    <2>1. CASE new = <<>>
      BY <2>1
    <2>2. CASE new = <<a>>
      BY <1>2, <2>2
    <2> QED BY <1>3, <2>1, <2>2
  <1>5. \A row : Touches(y, row) => Touches(x, row)
    <2>1. SUFFICES ASSUME NEW row, Touches(y, row) PROVE Touches(x, row)
      OBVIOUS
    <2>2. row # LedgerRow
      BY <2>1 DEF Touches, LedgerRow
    <2>3. \A i \in 1..Len(new) : row \notin new[i].rows
      BY <1>2, <1>4, <2>2
    <2> QED BY <1>1, <1>4, <2>1, <2>3, TouchMoves
  <1>6. Lone(y) => Lone(x)
    BY <1>1 DEF Lone, Free
  <1> QED BY <1>1, <1>5, <1>6, FarQuiet DEF x, y

(* Nor does a turn of a loop.                                               *)
LEMMA FarIterate ==
    ASSUME EventsTypeOK, FarInv, NEW t \in DOMAIN tx, Local(tx[t]), Rising(tx[t]),
           Iterate(t)
    PROVE  FarInv'
  <1> DEFINE x == tx[t]
             y == tx'[t]
             s == Head(x.todo)
  <1>1. /\ x \in Transaction /\ x.todo # <<>> /\ s = Now(t) /\ s.do \in Loops
    BY IterateTodo DEF EventsTypeOK, Now
  <1>2. PICK row \in s.rows :
           y.todo = (Body(s.do, row[2]) \o Through(s.do, 0, s.rows \ {row}))
                    \o Tail(x.todo)
    BY IterateTodo DEF Now
  <1>3. /\ Others(t) /\ y.kind = x.kind /\ y.held = x.held /\ y.added = x.added
        /\ ledger' = ledger
    BY IterateMoves DEF Keeps
  <1>4. s \in Statement /\ Rising(x) /\ Shape(s) /\ s = Head(x.todo)
    BY <1>1, HeadIs
  <1>5. Lone(y) => Lone(x)
    BY <1>3 DEF Lone, Free
  <1>6. ASSUME Lone(y), NEW rw, Touches(y, rw) PROVE Touches(x, rw)
    <2>1. s.do = "expireEach"
      <3>1. 1 \in 1..Len(x.todo) /\ x.todo[1] = s /\ x.kind \in Broad
        BY <1>1, <1>5, <1>6, HeadFirst DEF Lone
      <3>2. s.do \in BroadStep
        BY <1>4, <3>1 DEF Rising, BroadStep
      <3> QED BY <1>1, <3>2 DEF Loops, BroadStep
    <2> DEFINE o == row[2]
               rows == s.rows \ {row}
               new == Expire(o) \o Through("expireEach", 0, rows)
    <2>2. rows \in SUBSET Row /\ row \in OrgRows
      <3> HIDE DEF s
      <3> QED BY <1>4, <2>1 DEF Shape, Statement
    <2>3. o \in Nat
      BY <2>2, EventsAssumption DEF OrgRows, OrgRow
    <2>4. Joined(new, Expire(o), Through("expireEach", 0, rows))
      BY DEF Joined
    <2>5. y.todo = new \o Tail(x.todo)
      BY <1>2, <2>1 DEF Body
    <2> HIDE DEF x, y, s, rows, new, o
    <2>6. PICK a, b, c, e : ExpireSteps(new, a, b, c, e, o, rows)
      BY <2>2, <2>3, <2>4, ExpireIs
    <2>7. /\ a.rows = {<<"org", o>>}
          /\ b.rows = {JobRow(j) : j \in {i \in Job : OrgOf[i] = o}}
          /\ c.do = "cascade" /\ e.do = "expireEach" /\ new \in Seq(Statement)
          /\ \A i \in 1..Len(new) : \/ new[i] = a \/ new[i] = b
                                    \/ new[i] = c \/ new[i] = e
      BY <2>6 DEF ExpireSteps
    <2>8. rw[1] = "event"
      BY <1>6 DEF Touches
    <2>9. rw \notin a.rows /\ rw \notin b.rows
      BY <2>7, <2>8 DEF JobRow
    <2>10. \A i \in 1..Len(new) : ~(new[i].do = "lock" /\ rw \in new[i].rows)
      BY <2>7, <2>9
    <2>11. x \in Transaction /\ x.todo # <<>> /\ y.held = x.held /\ Touches(y, rw)
      BY <1>1, <1>3, <1>6 DEF x, y
    <2> QED BY <2>5, <2>7, <2>10, <2>11, TouchMoves
  <1> QED BY <1>3, <1>5, <1>6, FarQuiet

(* A step of another kind than these transactions'.                        *)
LEMMA FarNever ==
    ASSUME EventsTypeOK, FarInv, NEW t \in DOMAIN tx, Rising(tx[t]),
           tx[t].todo # <<>>, Head(tx[t].todo).do \notin BroadStep, Keeps(t)
    PROVE  FarInv'
  <1>1. tx[t] \in Transaction
    BY DEF EventsTypeOK
  <1>2. 1 \in 1..Len(tx[t].todo) /\ tx[t].todo[1] = Head(tx[t].todo)
    BY <1>1, HeadFirst
  <1>3. tx[t].kind \notin Broad
    BY <1>2 DEF Rising, BroadStep
  <1>4. ~Lone(tx'[t])
    BY <1>3 DEF Keeps, Lone
  <1> QED BY <1>4, FarQuiet DEF Keeps

(* A new event has a number that nobody touches.                            *)
LEMMA FarInsert ==
    ASSUME EventsTypeOK, FarInv, NEW t \in DOMAIN tx, Rising(tx[t]), Insert(t)
    PROVE  FarInv'
  <1> DEFINE e == [n |-> ledger.next, of |-> Now(t).job, ended |-> Now(t).ended]
  <1>1. /\ Others(t) /\ tx'[t].kind = tx[t].kind
        /\ tx'[t].added = tx[t].added \cup {e}
        /\ ledger'.events = ledger.events /\ ledger'.next = ledger.next + 1
        /\ Now(t).do = "insert" /\ Running(t)
    BY InsertMoves
  <1>2. e.n = ledger.next /\ ledger.next \in Nat
    BY DEF EventsTypeOK
  <1>3. tx[t].kind \notin Broad
    <2>1. tx[t] \in Transaction /\ tx[t].todo # <<>>
      BY <1>1 DEF EventsTypeOK, Running
    <2>2. 1 \in 1..Len(tx[t].todo) /\ tx[t].todo[1] = Head(tx[t].todo)
      BY <2>1, HeadFirst
    <2> QED BY <1>1, <2>2 DEF Rising, Now
  <1> HIDE DEF e
  <1>4. /\ DOMAIN tx' = DOMAIN tx /\ ~Lone(tx'[t]) /\ ~Lone(tx[t])
        /\ \A u \in DOMAIN tx : u # t => tx'[u] = tx[u]
    BY <1>1, <1>3 DEF Others, Lone
  <1>5. ASSUME NEW u \in DOMAIN tx, Lone(tx'[u]), NEW row, Touches(tx'[u], row)
        PROVE  /\ Mine(tx[u], row)'
               /\ \A v \in DOMAIN tx : v # u /\ Lone(tx'[v]) => ~Touches(tx'[v], row)
    <2>1. u # t /\ tx'[u] = tx[u]
      BY <1>4, <1>5
    <2>2. /\ Mine(tx[u], row)
          /\ \A v \in DOMAIN tx : v # u /\ Lone(tx[v]) => ~Touches(tx[v], row)
      BY <1>5, <2>1 DEF FarInv
    <2>3. PICK m \in Nat : row = <<"event", m>> /\ m < ledger.next
      BY <2>2 DEF Mine
    <2>4. m < ledger'.next /\ m # ledger.next
      BY <1>1, <1>2, <2>3
    <2>5. EventRow(e) # row
      BY <1>2, <2>3, <2>4 DEF EventRow
    <2>6. \A v \in DOMAIN tx : \A d \in tx'[v].added : EventRow(d) # row
      BY <1>1, <1>4, <2>2, <2>5 DEF Mine
    <2>7. \A d \in ledger.events : EventRow(d) = row => Has(tx[u], OrgRow(d.of))
      BY <2>2 DEF Mine
    <2>8. Mine(tx[u], row)'
      BY <1>1, <1>4, <2>1, <2>3, <2>4, <2>6, <2>7 DEF Mine
    <2> QED BY <1>4, <2>2, <2>8
  <1> QED BY <1>4, <1>5 DEF FarInv

(* The events of an analysis belong to who has its organization, and the    *)
(* other has not.                                                           *)
LEMMA FarCascade ==
    ASSUME EventsTypeOK, LocalInv, LockInv, NumberInv, FarInv,
           NEW t \in DOMAIN tx, Rising(tx[t]), CascadeEvents(t)
    PROVE  FarInv'
  <1> DEFINE x == tx[t]
             y == tx'[t]
             s == Head(x.todo)
  <1>1. /\ x \in Transaction /\ x.todo # <<>> /\ s = Now(t) /\ s.do = "cascade"
        /\ Running(t) /\ ~Stale(t)
    BY CascadeEventsTodo DEF EventsTypeOK, Running, Now
  <1>2. PICK row \in s.rows, S \in SUBSET ProductEvent :
           /\ S = {e \in Seen(t) : e.of = row[2]}
           /\ y.todo = (Deletion(s.job, S) \o Through("cascade", s.job, s.rows \ {row}))
                       \o Tail(x.todo)
    BY CascadeEventsTodo DEF Now
  <1>3. /\ Others(t) /\ y.kind = x.kind /\ y.held = x.held /\ y.added = x.added
        /\ ledger' = ledger
    BY CascadeEventsMoves DEF Keeps
  <1>4. Local(x)
    BY DEF LocalInv
  <1>5. s \in Statement /\ s = Head(x.todo) /\ Rising(x) /\ Shape(s)
    BY <1>1, <1>4, HeadIs
  <1>6. s.job \in Job \cup {0} /\ s.rows \in SUBSET Row /\ s.rows \subseteq JobRows
    <2> HIDE DEF s
    <2> QED BY <1>1, <1>5 DEF Statement, Shape
  <1>7. s.job \notin x.skipped
    BY <1>1, <1>4, HeadHas DEF Now
  <1> DEFINE j == row[2]
  <1>8. j \in Job /\ row = JobRow(j)
    BY <1>6 DEF JobRows, JobRow
  <1>9. Lone(y) => Lone(x)
    BY <1>3 DEF Lone, Free
  <1>10. ASSUME Lone(x) PROVE Has(x, OrgRow(j)) /\ S \subseteq ledger.events
    <2>1. 1 \in 1..Len(x.todo) /\ x.todo[1] = s
      BY <1>1, HeadFirst
    <2>2. JobsCovered(x)
      BY <1>5, <1>10 DEF Rising, Rises, Lone
    <2>3. NeedsOrg(s, j)
      BY <1>1, <1>2, <1>8 DEF NeedsOrg
    <2>4. \A k \in 1..1-1 : FALSE
      OBVIOUS
    <2>5. Has(x, OrgRow(j))
      <3> HIDE DEF x, s, j
      <3> QED BY <1>7, <1>8, <2>1, <2>2, <2>3, <2>4 DEF JobsCovered
    <2>6. x.added = {}
      <3>1. x.added # {} => Has(x, LedgerRow)
        BY <1>4 DEF Local, Effects
      <3>2. ~Has(x, LedgerRow)
        BY <1>10, HasNotFree DEF Lone
      <3> QED BY <3>1, <3>2
    <2>7. S \subseteq ledger.events
      BY <1>2, <2>6 DEF Seen
    <2> QED BY <2>5, <2>7
  <1>11. ASSUME Lone(x), NEW rw, Touches(y, rw)
         PROVE  Touches(x, rw) \/ \E e \in S : rw = EventRow(e)
    <2> DEFINE r == Through("cascade", s.job, s.rows \ {row})
               c == Step("cascade", s.job, s.rows \ {row})
               l == Lock(s.job, EventRows(S), "update")
               d == Step("drop", s.job, EventRows(S))
               new == Deletion(s.job, S) \o r
    <2>1. /\ r \in Seq(Statement) /\ \A i \in 1..Len(r) : r[i] = c
          /\ c.do = "cascade"
      <3> DEFINE rows == s.rows \ {row}
      <3>1. "cascade" \in Does /\ rows \in SUBSET Row
        BY <1>6 DEF Does
      <3>2. TurnIs(r, c, "cascade", s.job, rows)
        <4> HIDE DEF rows, s
        <4>1. TurnIs(Through("cascade", s.job, rows), Step("cascade", s.job, rows),
                     "cascade", s.job, rows)
          BY <1>6, <3>1, ThroughIs
        <4> QED BY <4>1 DEF rows
      <3> HIDE DEF r, c, rows
      <3> QED BY <3>2 DEF TurnIs, AllAre
    <2>2. l.rows = EventRows(S) /\ d.do = "drop"
      BY DEF Lock, Step, Make
    <2>3. /\ new = Deletion(s.job, S) \o r
          /\ l = Lock(s.job, EventRows(S), "update")
          /\ d = Step("drop", s.job, EventRows(S))
      OBVIOUS
    <2>4. y.todo = new \o Tail(x.todo)
      BY <1>2
    <2>5. x \in Transaction /\ x.todo # <<>> /\ y.held = x.held /\ Touches(y, rw)
      BY <1>1, <1>3, <1>11
    <2> HIDE DEF x, y, s, c, r, new, l, d
    <2>6. /\ new \in Seq(Statement) /\ DeletesThen(new, r, l, d)
          /\ Len(r) \in Nat /\ Len(new) \in Nat
      BY <1>6, <2>1, <2>3, Deletes, ZenonT(90)
    <2>7. \A i \in 1..Len(new) : new[i] = l \/ new[i] = d \/ new[i] = c
      BY <2>1, <2>6 DEF DeletesThen
    <2>8. CASE rw \in EventRows(S)
      BY <2>8 DEF EventRows
    <2>9. CASE rw \notin EventRows(S)
      <3>1. \A i \in 1..Len(new) : ~(new[i].do = "lock" /\ rw \in new[i].rows)
        BY <2>1, <2>2, <2>7, <2>9
      <3> QED BY <2>4, <2>5, <2>6, <3>1, TouchMoves
    <2> QED BY <2>8, <2>9
  <1> HIDE DEF s, j
  <1>12. /\ DOMAIN tx' = DOMAIN tx
         /\ \A u \in DOMAIN tx : u # t => tx'[u] = tx[u]
    BY <1>3 DEF Others
  <1>13. /\ \A u \in DOMAIN tx : tx'[u].added = tx[u].added
         /\ \A u \in DOMAIN tx : \A rw : Has(tx[u], rw) => Has(tx'[u], rw)
         /\ \A u \in DOMAIN tx : Lone(tx'[u]) => Lone(tx[u])
    BY <1>3, <1>9, <1>12 DEF Has
  <1>14. ASSUME NEW u \in DOMAIN tx, NEW rw, Mine(tx[u], rw)
         PROVE  Mine(tx[u], rw)'
    BY <1>3, <1>12, <1>13, <1>14 DEF Mine
  <1>15. ASSUME Lone(x), NEW e \in S
         PROVE  /\ Mine(x, EventRow(e))
                /\ \A u \in DOMAIN tx : u # t /\ Lone(tx[u]) => ~Touches(tx[u], EventRow(e))
    <2>1. e \in ledger.events /\ e.of = j /\ Has(x, OrgRow(j))
      BY <1>2, <1>10, <1>15 DEF j
    <2>2. e.n \in Nat /\ e.n < ledger.next
      BY <2>1 DEF EventsTypeOK, ProductEvent, NumberInv
    <2>3. \A b : EventRow(b) = EventRow(e) => b.n = e.n
      BY DEF EventRow
    <2>4. \A u \in DOMAIN tx : \A b \in tx[u].added : EventRow(b) # EventRow(e)
      BY <2>1, <2>3 DEF NumberInv
    <2>5. \A b \in ledger.events : EventRow(b) = EventRow(e) => b = e
      BY <2>1, <2>3 DEF NumberInv
    <2>6. Mine(x, EventRow(e))
      <3>1. EventRow(e) = <<"event", e.n>>
        BY DEF EventRow
      <3> QED BY <2>1, <2>2, <2>4, <2>5, <3>1 DEF Mine
    <2>7. ASSUME NEW u \in DOMAIN tx, u # t, Lone(tx[u]), Touches(tx[u], EventRow(e))
          PROVE  FALSE
      <3>1. Mine(tx[u], EventRow(e))
        BY <2>7 DEF FarInv
      <3>2. Has(tx[u], OrgRow(j))
        BY <2>1, <3>1 DEF Mine
      <3> QED BY <2>1, <2>7, <3>2, OneHolder
    <2> QED BY <2>6, <2>7
  <1>16. ASSUME NEW u \in DOMAIN tx, Lone(tx'[u]), NEW rw, Touches(tx'[u], rw)
         PROVE  /\ Mine(tx[u], rw)'
                /\ \A v \in DOMAIN tx : v # u /\ Lone(tx'[v]) => ~Touches(tx'[v], rw)
    <2>1. CASE Touches(tx[u], rw)
      <3>1. /\ Mine(tx[u], rw)
            /\ \A v \in DOMAIN tx : v # u /\ Lone(tx[v]) => ~Touches(tx[v], rw)
        BY <1>13, <1>16, <2>1 DEF FarInv
      <3>2. ASSUME NEW v \in DOMAIN tx, v # u, Lone(tx'[v]), Touches(tx'[v], rw)
            PROVE  FALSE
        <4>1. Lone(tx[v]) /\ Lone(tx[u]) /\ ~Touches(tx[v], rw)
          BY <1>13, <1>16, <3>1, <3>2
        <4>2. v = t /\ \E e \in S : rw = EventRow(e)
          BY <1>11, <1>12, <3>2, <4>1
        <4> QED BY <1>15, <2>1, <3>2, <4>1, <4>2
      <3> QED BY <1>14, <3>1, <3>2
    <2>2. CASE ~Touches(tx[u], rw)
      <3>1. u = t /\ Lone(x)
        BY <1>12, <1>13, <1>16, <2>2
      <3>2. PICK e \in S : rw = EventRow(e)
        BY <1>11, <1>16, <2>2, <3>1
      <3>3. /\ Mine(tx[u], rw)
            /\ \A v \in DOMAIN tx : v # u /\ Lone(tx[v]) => ~Touches(tx[v], rw)
        BY <1>15, <3>1, <3>2
      <3>4. \A v \in DOMAIN tx : v # u /\ Lone(tx'[v]) => ~Touches(tx'[v], rw)
        BY <1>12, <1>13, <3>1, <3>3
      <3> QED BY <1>14, <3>3, <3>4
    <2> QED BY <2>1, <2>2
  <1> QED BY <1>12, <1>16 DEF FarInv

(* Every step keeps those that delete away from each other's events.        *)
LEMMA FarNext ==
    ASSUME EventsTypeOK, LocalInv, LockInv, NumberInv, SteadyInv, FarInv, EventsNext
    PROVE  FarInv'
  <1>1. PICK t \in DOMAIN tx :
        \/ Skip(t) \/ Iterate(t) \/ Take(t) \/ Drop(t) \/ Trim(t) \/ Insert(t)
        \/ CloseJob(t) \/ CascadeEvents(t) \/ DiscardOld(t) \/ Commit(t) \/ Abort(t)
    BY DEF EventsNext
  <1>2. Local(tx[t]) /\ Rising(tx[t])
    BY DEF LocalInv, SteadyInv
  <1>3. CASE Trim(t)
    <2>1. tx[t].todo # <<>> /\ Head(tx[t].todo).do \notin BroadStep /\ Keeps(t)
      BY <1>3, TrimTodo, TrimMoves DEF Now, Running, BroadStep
    <2> QED BY <1>2, <2>1, FarNever
  <1>4. CASE CloseJob(t)
    <2>1. tx[t].todo # <<>> /\ Head(tx[t].todo).do \notin BroadStep /\ Keeps(t)
      BY <1>4, CloseJobTodo, CloseJobMoves DEF Now, Running, BroadStep
    <2> QED BY <1>2, <2>1, FarNever
  <1>5. CASE DiscardOld(t)
    <2>1. tx[t].todo # <<>> /\ Head(tx[t].todo).do \notin BroadStep /\ Keeps(t)
      BY <1>5, DiscardOldTodo, DiscardOldMoves DEF Now, Running, BroadStep
    <2> QED BY <1>2, <2>1, FarNever
  <1>6. CASE Commit(t)
    <2>1. /\ Done(t) /\ ledger'.events = Seen(t) /\ ledger'.next = ledger.next
      BY <1>6, CommitMoves
    <2>2. \A e \in ledger'.events : e \in ledger.events \/ e \in tx[t].added
      BY <2>1 DEF Seen
    <2> QED BY <2>1, <2>2, FarDone
  <1>7. CASE Abort(t)
    <2>1. ledger' = ledger
      BY <1>2, <1>7, AbortMoves
    <2>2. CASE Done(t)
      BY <2>1, <2>2, FarDone
    <2>3. CASE \E j \in Job : tx'[t] = Begin("failed", j) /\ Others(t)
      <3>1. PICK j \in Job : tx'[t] = Begin("failed", j) /\ Others(t)
        BY <2>3
      <3>2. tx'[t].added = {} /\ ~Lone(tx'[t])
        BY <3>1 DEF Begin, Lone, Broad
      <3> QED BY <2>1, <3>1, <3>2, FarQuiet
    <2> QED BY <1>2, <1>7, <2>2, <2>3, AbortIs
  <1> QED BY <1>1, <1>2, <1>3, <1>4, <1>5, <1>6, <1>7, FarSkip, FarTake, FarDrop,
             FarIterate, FarInsert, FarCascade

-----------------------------------------------------------------------------
(* Of finitely many, one has the greatest number.                          *)
LEMMA GreatestOf ==
    ASSUME NEW S, IsFiniteSet(S), S # {}, NEW w, \A t \in S : w[t] \in Nat
    PROVE  \E t \in S : \A u \in S : w[u] <= w[t]
  <1> DEFINE Above(t) == {u \in S : w[u] > w[t]}
             N == {Cardinality(Above(t)) : t \in S}
  <1>1. \A t \in S : IsFiniteSet(Above(t)) /\ Cardinality(Above(t)) \in Nat
    BY FS_Subset, FS_CardinalityType
  <1>2. N \in SUBSET Nat /\ N # {}
    BY <1>1
  <1>3. PICK n \in N : \A m \in N : n <= m
    <2> HIDE DEF N
    <2> QED BY <1>2, LeastOf
  <1>4. PICK t \in S : n = Cardinality(Above(t))
    OBVIOUS
  <1>5. ASSUME NEW u \in S, ~(w[u] <= w[t]) PROVE FALSE
    <2>1. w[u] > w[t] /\ w[u] \in Nat /\ w[t] \in Nat
      BY <1>5
    <2>2. u \in Above(t) /\ u \notin Above(u) /\ Above(u) \subseteq Above(t)
      BY <2>1
    <2>3. Cardinality(Above(u)) \in N
      OBVIOUS
    <2>4. n <= Cardinality(Above(u))
      BY <1>3, <2>3
    <2> DEFINE a == Above(t)
               b == Above(u)
    <2>5. /\ IsFiniteSet(a) /\ IsFiniteSet(b) /\ b \subseteq a /\ b # a
          /\ Cardinality(a) \in Nat /\ Cardinality(b) \in Nat
          /\ Cardinality(a) <= Cardinality(b)
      BY <1>1, <1>4, <2>2, <2>4
    <2> HIDE DEF a, b
    <2>6. Cardinality(b) <= Cardinality(a) /\ (Cardinality(a) = Cardinality(b) => a = b)
      BY <2>5, FS_Subset
    <2> QED BY <2>5, <2>6
  <1> QED BY <1>5

(* Who waits without the commercial row and is no recovery: one about an   *)
(* analysis has nothing or waits for that row, and the others are in turn. *)
LEMMA WaiterIs ==
    ASSUME EventsTypeOK, LocalInv, SteadyInv, NEW t \in DOMAIN tx, Waits(t),
           ~Holds(t, LedgerRow), tx[t].kind # "recover"
    PROVE  LET x == tx[t]
               s == Now(t)
           IN  /\ s.do = "lock" /\ s.rows \in SUBSET Row /\ s.job \notin x.skipped
               /\ x.todo # <<>> /\ 1 \in 1..Len(x.todo) /\ x.todo[1] = s
               /\ x.held = {} \/ s.rows = {LedgerRow} \/ (Lone(x) /\ Rises(x))
  <1> DEFINE x == tx[t]
             s == Now(t)
  <1>1. Running(t) /\ ~Stale(t) /\ s.do = "lock"
    BY DEF Waits, Goes
  <1>2. x \in Transaction /\ x.todo # <<>> /\ Local(x) /\ Calm(x) /\ Rising(x)
    BY <1>1 DEF Running, EventsTypeOK, LocalInv, SteadyInv
  <1>3. s.job \notin x.skipped
    BY <1>1, <1>2, HeadHas
  <1>4. 1 \in 1..Len(x.todo) /\ x.todo[1] = s
    BY <1>2, HeadFirst DEF Now
  <1>5. s \in Statement
    BY <1>2, HeadIs DEF Now
  <1>6. Free(x)
    BY DEF Holds, Free
  <1>7. x.kind \in Kind /\ x.kind # "recover"
    BY <1>2 DEF Transaction
  <1>8. s.rows \in SUBSET Row
    <2> HIDE DEF s
    <2> QED BY <1>5 DEF Statement
  <1>9. SUFFICES x.held = {} \/ s.rows = {LedgerRow} \/ (Lone(x) /\ Rises(x))
    BY <1>1, <1>2, <1>3, <1>4, <1>8
  <1> HIDE DEF x, s
  <1>10. CASE x.kind \in Broad
    BY <1>2, <1>6, <1>10 DEF Lone, Rising
  <1>11. CASE x.kind \notin Broad
    <2>1. x.kind \in Brief
      BY <1>7, <1>11 DEF Brief
    <2>2. LocksLate(x)
      BY <1>2, <1>6, <2>1 DEF Calm
    <2>3. CASE s.rows # {LedgerRow}
      <3>1. Needy(s)
        BY <1>1, <2>3 DEF Needy
      <3>2. \A k \in 1..1-1 : FALSE
        OBVIOUS
      <3>3. FirstLock(x, s)
        BY <1>3, <1>4, <2>2, <3>1, <3>2 DEF LocksLate
      <3> QED BY <3>3 DEF FirstLock
    <2> QED BY <2>3
  <1> QED BY <1>10, <1>11

(* Two that delete: the one waits for an organization alone, and the other,*)
(* which has it, for later ones only.                                      *)
LEMMA BlockedInTurn ==
    ASSUME EventsTypeOK, LockInv, FarInv,
           NEW t \in DOMAIN tx, NEW u \in DOMAIN tx, t # u,
           Lone(tx[t]), Rises(tx[t]), Lone(tx[u]), Rises(tx[u]),
           Now(t).do = "lock", Now(u).do = "lock", Now(t).rows \in SUBSET Row,
           Now(t).job \notin tx[t].skipped,
           1 \in 1..Len(tx[t].todo), tx[t].todo[1] = Now(t),
           1 \in 1..Len(tx[u].todo), tx[u].todo[1] = Now(u),
           NEW row \in Now(t).rows, Holds(u, row)
    PROVE  /\ Now(t).rows = {row} /\ row[2] \in Nat
           /\ \A r \in Now(u).rows : r[1] = "org" => row[2] < r[2]
           /\ row[1] = "org"
  <1>1. PICK lock \in tx[u].held : lock[1] = row
    BY DEF Holds
  <1>2. LocksOf(tx[t], Now(t), 1) /\ LocksOf(tx[u], Now(u), 1)
    BY DEF Rises, LocksInTurn
  <1>3. row \in Row /\ row[2] \in Nat
    BY DEF Row
  <1>4. row # LedgerRow
    BY <1>1 DEF Lone, Free
  <1>5. row \notin JobRows
    <2>1. SUFFICES ASSUME NEW j \in Job, row = JobRow(j) PROVE FALSE
      BY DEF JobRows
    <2>2. Has(tx[u], OrgRow(j))
      BY <1>1, <2>1 DEF Rises, OwnsJobs
    <2>3. NeedsOrg(Now(t), j)
      BY <2>1 DEF NeedsOrg
    <2>4. \A k \in 1..1-1 : FALSE
      OBVIOUS
    <2>5. Has(tx[t], OrgRow(j))
      BY <2>3, <2>4 DEF Rises, JobsCovered
    <2> QED BY <2>2, <2>5, OneHolder
  <1>6. row[1] # "event"
    <2>1. SUFFICES ASSUME row[1] = "event" PROVE FALSE
      OBVIOUS
    <2>2. Touches(tx[t], row) /\ Touches(tx[u], row)
      BY <1>1, <2>1 DEF Touches
    <2> QED BY <2>2 DEF FarInv
  <1>7. row[1] = "org"
    BY <1>2, <1>4, <1>5, <1>6 DEF LocksOf
  <1>8. Now(t).rows = {row}
    BY <1>2, <1>7 DEF LocksOf
  <1>9. \A r \in Now(u).rows : r[1] = "org" => row[2] < r[2]
    BY <1>1, <1>2, <1>7 DEF LocksOf, OrgsBelow
  <1> QED BY <1>3, <1>7, <1>8, <1>9

(* So whoever waits in a circle waits for the commercial row or a recovery.*)
LEMMA NoCircle ==
    ASSUME EventsTypeOK, LocalInv, LockInv, SteadyInv, FarInv
    PROVE  CirclesNeedLedger
  <1>1. SUFFICES ASSUME NEW S \in SUBSET DOMAIN tx, Circle(S),
                        \A t \in S : ~Holds(t, LedgerRow) /\ tx[t].kind # "recover"
                 PROVE  FALSE
    BY DEF CirclesNeedLedger
  <1> DEFINE B == {t \in S : tx[t].held # {}}
             w == [t \in B |-> (CHOOSE r \in Now(t).rows : TRUE)[2]]
  <1>2. ASSUME NEW t \in S
        PROVE  \E u \in B : u # t /\ \E row \in Now(t).rows : Holds(u, row)
    <2>1. PICK row \in Now(t).rows : Blockers(t, row, Now(t).mode) \cap S # {}
      BY <1>1 DEF Circle
    <2>2. PICK u \in S : u \in Blockers(t, row, Now(t).mode)
      BY <2>1
    <2>3. u # t /\ \E lock \in tx[u].held : lock[1] = row
      BY <2>2 DEF Blockers
    <2> QED BY <2>3 DEF Holds
  <1>3. S # {} /\ \A t \in S : Waits(t) /\ t \in DOMAIN tx
    BY <1>1 DEF Circle
  <1>4. ASSUME NEW t \in S PROVE Now(t).rows # {LedgerRow}
    BY <1>1, <1>2
  <1>5. ASSUME NEW t \in B
        PROVE  /\ Now(t).do = "lock" /\ Now(t).rows \in SUBSET Row
               /\ Now(t).job \notin tx[t].skipped
               /\ 1 \in 1..Len(tx[t].todo) /\ tx[t].todo[1] = Now(t)
               /\ Lone(tx[t]) /\ Rises(tx[t])
    BY <1>1, <1>3, <1>4, WaiterIs
  <1>6. B # {} /\ IsFiniteSet(B)
    <2>1. IsFiniteSet(Thread) /\ B \subseteq Thread
      BY EventsAssumption DEF EventsTypeOK
    <2> HIDE DEF B
    <2> QED BY <1>2, <1>3, <2>1, FS_Subset
  <1>7. ASSUME NEW t \in B
        PROVE  \E u \in B, row \in Row :
                  /\ Now(t).rows = {row} /\ row[2] \in Nat /\ row[1] = "org"
                  /\ \A r \in Now(u).rows : r[1] = "org" => row[2] < r[2]
    <2>1. PICK u \in B, row \in Now(t).rows : u # t /\ Holds(u, row)
      BY <1>2
    <2>2. t \in DOMAIN tx /\ u \in DOMAIN tx /\ row \in Row
      BY <1>5
    <2> HIDE DEF B
    <2>3. /\ Now(t).rows = {row} /\ row[2] \in Nat
          /\ \A r \in Now(u).rows : r[1] = "org" => row[2] < r[2]
          /\ row[1] = "org"
      BY <1>5, <2>1, <2>2, BlockedInTurn
    <2> QED BY <2>1, <2>2, <2>3
  <1> HIDE DEF B
  <1>8. ASSUME NEW t \in B, NEW row, Now(t).rows = {row} PROVE w[t] = row[2]
    BY <1>8
  <1>9. \A t \in B : w[t] \in Nat
    BY <1>7, <1>8
  <1> HIDE DEF w
  <1>10. PICK t \in B : \A u \in B : w[u] <= w[t]
    BY <1>6, <1>9, GreatestOf
  <1>11. PICK u \in B, row \in Row :
            /\ Now(t).rows = {row} /\ row[2] \in Nat /\ row[1] = "org"
            /\ \A r \in Now(u).rows : r[1] = "org" => row[2] < r[2]
    BY <1>7
  <1>12. PICK later \in Row : Now(u).rows = {later} /\ later[2] \in Nat /\ later[1] = "org"
    BY <1>7
  <1>13. w[t] = row[2] /\ w[u] = later[2] /\ row[2] < later[2]
    BY <1>8, <1>11, <1>12
  <1> QED BY <1>10, <1>11, <1>12, <1>13

(* All of it holds at first.                                               *)
LEMMA SteadyStarts ==
    ASSUME NEW open \in SUBSET Job, EventsInit(Thread, open)
    PROVE  SteadyInv /\ FarInv
  <1>1. PICK w \in [Thread -> DOMAIN Works] :
           tx = [t \in Thread |-> Begin(Works[w[t]][1], Works[w[t]][2])]
    BY DEF EventsInit
  <1>2. ASSUME NEW t \in DOMAIN tx
        PROVE  Calm(tx[t]) /\ Rising(tx[t]) /\ \A row : Lone(tx[t]) => ~Touches(tx[t], row)
    <2> DEFINE kind == Works[w[t]][1]
               j == Works[w[t]][2]
               x == Begin(kind, j)
    <2>1. tx[t] = x
      BY <1>1
    <2>2. Works[w[t]] \in Work
      BY <1>1, EventsAssumption
    <2>3. <<kind, j>> \in Work
      BY <2>2 DEF Work
    <2> HIDE DEF kind, j
    <2>4. Calm(x) /\ Rising(x) /\ (kind \in Broad => NoEvents(x))
      BY <2>3, CalmBegins, RisingBegins
    <2>5. x.held = {} /\ x.kind = kind
      BY DEF Begin
    <2> HIDE DEF x
    <2>6. \A row : Lone(x) => ~Touches(x, row)
      BY <2>4, <2>5 DEF Lone, Touches, NoEvents
    <2> QED BY <2>1, <2>4, <2>6
  <1> QED BY <1>2 DEF SteadyInv, FarInv

(* Every step keeps it.                                                    *)
LEMMA SteadyHolds ==
    ASSUME IInv, SteadyInv, FarInv, [EventsNext]_eventsVars
    PROVE  SteadyInv' /\ FarInv'
  <1>1. CASE EventsNext
    BY <1>1, SteadyNext, FarNext DEF IInv
  <1>2. CASE UNCHANGED eventsVars
    <2>1. tx' = tx /\ ledger' = ledger
      BY <1>2 DEF eventsVars
    <2> QED BY <2>1 DEF SteadyInv, FarInv, Mine
  <1> QED BY <1>1, <1>2

(* Who waits in a circle has the commercial row, or is recover(), for any  *)
(* number of threads and analyses: organizations, analyses and events alone*)
(* never close one, because who deletes takes the organizations in their   *)
(* order (cleanup(), delete_job()) and who records has the commercial row  *)
(* before a second lock (record_event()).                                  *)
THEOREM CirclesAreKnown == EventsSpec => []CirclesNeedLedger
  <1>1. (\E open \in SUBSET Job : EventsInit(Thread, open))
           => IInv /\ SteadyInv /\ FarInv
    BY StartHolds, SteadyStarts
  <1>2. IInv /\ SteadyInv /\ FarInv /\ [EventsNext]_eventsVars
           => (IInv /\ SteadyInv /\ FarInv)'
    BY StepHolds, SteadyHolds
  <1>3. IInv /\ SteadyInv /\ FarInv => CirclesNeedLedger
    BY NoCircle DEF IInv
  <1> QED BY <1>1, <1>2, <1>3, PTL DEF EventsSpec
=============================================================================
