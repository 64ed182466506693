------------------------------- MODULE Events -------------------------------
(***************************************************************************)
(* The transactions that record product events, and those whose deletions  *)
(* take events along, as PostgreSQL runs them: each takes the row locks of *)
(* its statements one after the other, foreign keys and triggers included, *)
(* keeps them to its end and waits for a row that another one has          *)
(* (server/events.py, beta.py, jobs.py, app.py, persistence.py, migration  *)
(* 0006).  Module Workspace takes each of them for one step; here they are *)
(* taken apart.                                                            *)
(*                                                                         *)
(* A transaction is a list of steps (`Program').  What it writes is its own*)
(* until it commits.  Rows of users and projects, which no transaction here*)
(* locks in a way that would keep the others out, are left away, and so    *)
(* are the attempts of finish() but the first two.                         *)
(***************************************************************************)
EXTENDS Integers, Sequences, FiniteSets

CONSTANTS Thread,       \* 1..n
          Job,          \* analyses, numbered as their identifiers are sorted
          OrgOf,        \* [Job -> Nat]: organizations, numbered likewise
          EventLimit,   \* EVENT_LIMIT
          Works         \* sequence of <<kind, job>>: what threads may run

Kind == {"start", "finish", "failed", "recover", "export", "feedback",
         "delete", "cleanup", "discard"}

(* The kinds that are not about one analysis.                              *)
Wide == {"recover", "cleanup", "discard"}
Work == ((Kind \ Wide) \X Job) \cup (Wide \X {0})

ASSUME EventsAssumption ==
    /\ Thread \subseteq Nat /\ IsFiniteSet(Thread) /\ Job \subseteq Nat \ {0}
    /\ OrgOf \in [Job -> Nat]
    /\ EventLimit \in Nat \ {0}
    /\ \A w \in DOMAIN Works : Works[w] \in Work

VARIABLES tx,        \* [thread -> its transaction], for those that run
          condition, \* [Job -> "open", "closed" or "gone"]
          ledger     \* commercial_lock.event_count, the events, the next number

eventsVars == <<tx, condition, ledger>>

LedgerRow   == <<"ledger", 0>>
OrgRow(j)   == <<"org", OrgOf[j]>>
JobRow(j)   == <<"job", j>>
EventRow(e) == <<"event", e.n>>

ProductEvent == [n : Nat, of : Job, ended : BOOLEAN]

Row == {"ledger", "org", "job", "event"} \X Nat
Mode == {"update", "nokey", "share"}

-----------------------------------------------------------------------------
(* The programs.  A step belongs to an analysis, or to none (0).           *)

Make(do, j, rows, mode, ended) ==
    [do |-> do, job |-> j, rows |-> rows, mode |-> mode, ended |-> ended]

Lock(j, rows, mode) == Make("lock", j, rows, mode, FALSE)
Step(do, j, rows) == Make(do, j, rows, "update", FALSE)

Statement ==
    [do : {"lock", "record", "insert", "close", "drop", "cascade", "discard",
           "lockEach", "endEach", "expireEach"},
     job : Job \cup {0}, rows : SUBSET Row, mode : Mode, ended : BOOLEAN]

(* A step for each of the rows, as long as there are any.                  *)
Through(do, j, rows) ==
    IF rows = {} THEN <<>> ELSE <<Step(do, j, rows)>>

(* record_event(): the commercial row, the oldest events and the new one,  *)
(* whose foreign keys share the rows it refers to.                         *)
Record(j, ended) ==
    <<Lock(j, {LedgerRow}, "update"),
      Make("record", j, {}, "update", ended),
      Lock(j, {OrgRow(j), JobRow(j)}, "share")>>

(* terminal_events(): of a success also its decision.                      *)
End(j) == <<Step("close", j, {})>> \o Record(j, TRUE)

LockJob(j) == <<Lock(j, {JobRow(j)}, "update")>>

JobRows == {JobRow(j) : j \in Job}
OrgRows == {OrgRow(j) : j \in Job}

(* One organization of cleanup(), in which every analysis has expired; one *)
(* statement deletes them, in an order of its own.                         *)
Expire(o) ==
    LET rows == {JobRow(j) : j \in {i \in Job : OrgOf[i] = o}}
    IN  <<Lock(0, {<<"org", o>>}, "update"), Lock(0, rows, "update")>>
        \o Through("cascade", 0, rows)

Body(do, number) ==
    CASE do = "lockEach"   -> LockJob(number)
      [] do = "endEach"    -> End(number)
      [] do = "expireEach" -> Expire(number)

(* Mutant of Program: the organizations of cleanup() in an order of its own*)
ProgramUnsorted(kind, j) ==
    CASE kind = "start"    -> <<Lock(j, {JobRow(j)}, "nokey")>> \o Record(j, FALSE)
      [] kind = "finish"   -> LockJob(j) \o End(j) \o Record(j, FALSE)
      [] kind = "failed"   -> LockJob(j) \o End(j)
      [] kind = "recover"  -> Through("lockEach", 0, JobRows)
                              \o Through("endEach", 0, JobRows)
      [] kind = "export"   -> <<Lock(j, {OrgRow(j)}, "update")>> \o Record(j, FALSE)
      [] kind = "feedback" -> LockJob(j) \o <<Lock(j, {LedgerRow}, "update"),
                                 Lock(j, {OrgRow(j), JobRow(j)}, "share")>>
                              \o Record(j, FALSE)
      [] kind = "delete"   -> <<Lock(j, {OrgRow(j)}, "update")>> \o LockJob(j)
                              \o Through("cascade", j, {JobRow(j)})
      [] kind = "cleanup"  -> <<Lock(0, OrgRows, "update")>>
                              \o Through("expireEach", 0, OrgRows)
      [] kind = "discard"  -> <<Lock(0, {LedgerRow}, "update"), Step("discard", 0, {})>>

Program(kind, j) ==
    CASE kind = "start"    -> <<Lock(j, {JobRow(j)}, "nokey")>> \o Record(j, FALSE)
      [] kind = "finish"   -> LockJob(j) \o End(j) \o Record(j, FALSE)
      [] kind = "failed"   -> LockJob(j) \o End(j)
      [] kind = "recover"  -> Through("lockEach", 0, JobRows)
                              \o Through("endEach", 0, JobRows)
      [] kind = "export"   -> <<Lock(j, {OrgRow(j)}, "update")>> \o Record(j, FALSE)
      [] kind = "feedback" -> LockJob(j) \o <<Lock(j, {LedgerRow}, "update"),
                                 Lock(j, {OrgRow(j), JobRow(j)}, "share")>>
                              \o Record(j, FALSE)
      [] kind = "delete"   -> <<Lock(j, {OrgRow(j)}, "update")>> \o LockJob(j)
                              \o Through("cascade", j, {JobRow(j)})
      [] kind = "cleanup"  -> Through("expireEach", 0, OrgRows)
      [] kind = "discard"  -> <<Lock(0, {LedgerRow}, "update"), Step("discard", 0, {})>>

(* What the code asks of the status once it has locked an analysis or its  *)
(* organization; of an analysis that is gone, nobody changes anything.     *)
Wanted(kind) ==
    CASE kind \in {"start", "finish", "failed", "recover"} -> {"open"}
      [] kind \in {"export", "feedback"} -> {"closed"}
      [] OTHER -> {"open", "closed"}

Begin(kind, j) ==
    [kind |-> kind, job |-> j, todo |-> Program(kind, j), held |-> {},
     added |-> {}, dropped |-> {}, closed |-> {}, deleted |-> {}, skipped |-> {}]

(* Any three of the works, and an event table that is empty or full.       *)
EventsInit(threads, open) ==
    /\ \E w \in [threads -> DOMAIN Works] :
          /\ \A t, u \in threads : t < u => w[t] <= w[u]
          /\ tx = [t \in threads |-> Begin(Works[w[t]][1], Works[w[t]][2])]
    /\ condition = [j \in Job |-> IF j \in open THEN "open" ELSE "closed"]
    /\ \E old \in {{}} \cup (IF threads = {} THEN {}
                             ELSE {[n : 1..EventLimit, of : {j}, ended : {FALSE}] :
                                      j \in Job}) :
          ledger = [count |-> Cardinality(old), events |-> old, next |-> EventLimit + 1]

-----------------------------------------------------------------------------
Conflict(m, n) == "update" \in {m, n} \/ (m = "nokey" /\ n = "nokey")

Blockers(t, row, mode) ==
    {u \in DOMAIN tx \ {t} :
        \E lock \in tx[u].held : lock[1] = row /\ Conflict(lock[2], mode)}

Running(t) == t \in DOMAIN tx /\ tx[t].todo # <<>>
Now(t) == Head(tx[t].todo)
Rest(t) == Tail(tx[t].todo)
Holds(t, row) == \E lock \in tx[t].held : lock[1] = row

(* The events this transaction sees.                                       *)
Seen(t) == (ledger.events \cup tx[t].added) \ tx[t].dropped

Oldest(S, k) == {e \in S : Cardinality({d \in S : d.n < e.n}) < k}

(* The statement finds the analysis gone or in another condition.          *)
Stale(t) ==
    LET j == Now(t).job
    IN  /\ j # 0
        /\ \/ j \in tx[t].skipped
           \/ ~Holds(t, JobRow(j)) /\ condition[j] \notin Wanted(tx[t].kind)

Proceed(t, changed) == tx' = [tx EXCEPT ![t] = changed]
Goes(t, do) == Running(t) /\ ~Stale(t) /\ Now(t).do = do

(* An analysis that is passed over once is passed over to the end.         *)
Skip(t) ==
    /\ Running(t) /\ Stale(t)
    /\ Proceed(t, [tx[t] EXCEPT !.todo = Rest(t),
                                 !.skipped = @ \cup {Now(t).job}])
    /\ UNCHANGED <<condition, ledger>>

(* The loops of recover() and cleanup(), in the order of the identifiers.  *)
Iterate(t) ==
    /\ Running(t) /\ Now(t).do \in {"lockEach", "endEach", "expireEach"}
    /\ \E row \in Now(t).rows :
          /\ \A other \in Now(t).rows : row[2] <= other[2]
          /\ Proceed(t, [tx[t] EXCEPT !.todo =
                Body(Now(t).do, row[2])
                \o Through(Now(t).do, 0, Now(t).rows \ {row}) \o Rest(t)])
    /\ UNCHANGED <<condition, ledger>>

(* The rows of a statement are locked one by one.                          *)
Take(t) ==
    /\ Goes(t, "lock")
    /\ \E row \in Now(t).rows :
          LET rows == Now(t).rows \ {row}
              left == IF rows = {} THEN Rest(t)
                      ELSE <<[Now(t) EXCEPT !.rows = rows]>> \o Rest(t)
          IN  /\ Blockers(t, row, Now(t).mode) = {}
              /\ Proceed(t, [tx[t] EXCEPT !.todo = left,
                                           !.held = @ \cup {<<row, Now(t).mode>>}])
    /\ UNCHANGED <<condition, ledger>>

EventRows(S) == {EventRow(e) : e \in S}

(* Delete some events: lock them, and the ones that are still there fire   *)
(* the trigger.                                                            *)
Deletion(j, S) ==
    IF S = {} THEN <<>>
    ELSE <<Lock(j, EventRows(S), "update"), Step("drop", j, EventRows(S))>>

Drop(t) ==
    /\ Goes(t, "drop")
    /\ LET S == {e \in Seen(t) : EventRow(e) \in Now(t).rows}
           trigger == IF S = {} THEN <<>> ELSE <<Lock(0, {LedgerRow}, "nokey")>>
       IN  Proceed(t, [tx[t] EXCEPT !.todo = trigger \o Rest(t),
                                     !.dropped = @ \cup S])
    /\ UNCHANGED <<condition, ledger>>

Count(t) == ledger.count + Cardinality(tx[t].added) - Cardinality(tx[t].dropped)

(* Mutant of Trim: the event to be inserted is forgotten.                  *)
TrimOneLess(t) ==
    /\ Goes(t, "record")
    /\ Proceed(t, [tx[t] EXCEPT !.todo =
          Deletion(Now(t).job, Oldest(Seen(t), Count(t) - EventLimit))
          \o <<[Now(t) EXCEPT !.do = "insert"]>> \o Rest(t)])
    /\ UNCHANGED <<condition, ledger>>

Trim(t) ==
    /\ Goes(t, "record")
    /\ Proceed(t, [tx[t] EXCEPT !.todo =
          Deletion(Now(t).job, Oldest(Seen(t), Count(t) - EventLimit + 1))
          \o <<[Now(t) EXCEPT !.do = "insert"]>> \o Rest(t)])
    /\ UNCHANGED <<condition, ledger>>

Insert(t) ==
    /\ Goes(t, "insert")
    /\ Proceed(t, [tx[t] EXCEPT !.todo = Rest(t),
          !.added = @ \cup {[n |-> ledger.next, of |-> Now(t).job,
                             ended |-> Now(t).ended]}])
    /\ ledger' = [ledger EXCEPT !.next = @ + 1]
    /\ UNCHANGED condition

CloseJob(t) ==
    /\ Goes(t, "close")
    /\ Proceed(t, [tx[t] EXCEPT !.todo = Rest(t), !.closed = @ \cup {Now(t).job}])
    /\ UNCHANGED <<condition, ledger>>

(* One analysis is deleted, and by ON DELETE CASCADE its events.           *)
CascadeEvents(t) ==
    /\ Goes(t, "cascade")
    /\ \E row \in Now(t).rows :
          LET j == row[2]
          IN  Proceed(t, [tx[t] EXCEPT
                 !.todo = Deletion(Now(t).job, {e \in Seen(t) : e.of = j})
                          \o Through("cascade", Now(t).job, Now(t).rows \ {row})
                          \o Rest(t),
                 !.deleted = @ \cup {j}])
    /\ UNCHANGED <<condition, ledger>>

(* cleanup_commercial(): the events that have expired.                     *)
DiscardOld(t) ==
    /\ Goes(t, "discard")
    /\ \E k \in 1..EventLimit :
          Proceed(t, [tx[t] EXCEPT !.todo =
             Deletion(0, Oldest(ledger.events, k)) \o Rest(t)])
    /\ UNCHANGED <<condition, ledger>>

Done(t) == tx' = [u \in DOMAIN tx \ {t} |-> tx[u]]

Commit(t) ==
    /\ t \in DOMAIN tx /\ tx[t].todo = <<>>
    /\ condition' = [j \in Job |-> IF j \in tx[t].deleted THEN "gone"
                                ELSE IF j \in tx[t].closed THEN "closed"
                                ELSE condition[j]]
    /\ ledger' = [ledger EXCEPT !.count = Count(t), !.events = Seen(t)]
    /\ Done(t)

Waits(t) ==
    /\ Goes(t, "lock")
    /\ \A row \in Now(t).rows : Blockers(t, row, Now(t).mode) # {}

(* lock_timeout, or the victim of a deadlock.  Routes answer with an error;*)
(* finish() tries again, and stores that the worker has failed.            *)
Abort(t) ==
    /\ t \in DOMAIN tx /\ Waits(t)
    /\ IF tx[t].kind = "finish" THEN Proceed(t, Begin("failed", tx[t].job))
       ELSE Done(t)
    /\ UNCHANGED <<condition, ledger>>

EventsNext ==
    \E t \in DOMAIN tx :
        \/ Skip(t) \/ Iterate(t) \/ Take(t) \/ Drop(t) \/ Trim(t) \/ Insert(t)
        \/ CloseJob(t) \/ CascadeEvents(t) \/ DiscardOld(t) \/ Commit(t) \/ Abort(t)

EventsSpec ==
    /\ \E open \in SUBSET Job : EventsInit(Thread, open)
    /\ [][EventsNext]_eventsVars

Transaction ==
    [kind : Kind, job : Job \cup {0}, todo : Seq(Statement),
     held : SUBSET (Row \X Mode),
     added : SUBSET ProductEvent, dropped : SUBSET ProductEvent,
     closed : SUBSET Job, deleted : SUBSET Job, skipped : SUBSET Job]

(* Type correctness; the number is what a trigger may not take below zero. *)
EventsTypeOK ==
    /\ DOMAIN tx \subseteq Thread
    /\ tx \in [DOMAIN tx -> Transaction]
    /\ condition \in [Job -> {"open", "closed", "gone"}]
    /\ ledger \in [count : Nat, events : SUBSET ProductEvent, next : Nat]

-----------------------------------------------------------------------------
(* Safety: the counter beside the events is exact and within its limit,    *)
(* whatever is inserted, trimmed, cascaded, discarded and rolled back; and *)
(* an end is recorded once, however often it is written                    *)
(* (docs/beta-api.md:266-267, migration 0006).                             *)
LedgerHolds ==
    /\ ledger.count = Cardinality(ledger.events)
    /\ ledger.count <= EventLimit
    /\ \A d, e \in ledger.events : d.of = e.of /\ d.ended /\ e.ended => d = e

(* Safety: who waits in a circle waits for the commercial row, or runs     *)
(* into a recovery: one of the circle holds that row, or is recover().     *)
(* Organizations, analyses and events alone never close a circle.          *)
Circle(S) ==
    /\ S # {}
    /\ \A t \in S : Waits(t) /\ \E row \in Now(t).rows :
                       Blockers(t, row, Now(t).mode) \cap S # {}

CirclesNeedLedger ==
    \A S \in SUBSET DOMAIN tx :
        Circle(S) => \E t \in S : Holds(t, LedgerRow) \/ tx[t].kind = "recover"
=============================================================================
