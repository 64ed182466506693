---------------------------- MODULE FencedWriter ----------------------------
(***************************************************************************)
(* What the service lease promises to the rest of the server: one process, *)
(* `writer', is the last one whose acquire() returned, a process is writer *)
(* at most once, and between two takeovers every fenced commit is by the   *)
(* writer.  Whatever is built on db.session() may therefore treat a fenced *)
(* transaction as one atomic step of the current writer.  ServiceLease     *)
(* implements this module; the modules of the job queue and of the GitHub  *)
(* pipeline are written on top of it.                                      *)
(***************************************************************************)
CONSTANTS Server,    \* server processes; a restarted server is another one
          Nobody     \* "no process", assumed not to be in Server by the
                     \* modules that instantiate this one

VARIABLES writer,    \* the last process whose acquire() returned
          retired,   \* the writers before it
          author     \* who made the last fenced commit since then, or Nobody

fwVars == <<writer, retired, author>>

Init == writer = Nobody /\ retired = {} /\ author = Nobody

(* acquire() returns in p, which has never held the lease before.          *)
Takeover(p) ==
    /\ p \notin retired \cup {writer}
    /\ writer' = p
    /\ retired' = retired \cup ({writer} \ {Nobody})
    /\ author' = Nobody

(* A fenced transaction of p commits.                                      *)
FencedCommit(p) ==
    /\ p = writer
    /\ author' = p
    /\ UNCHANGED <<writer, retired>>

Next == \E p \in Server : Takeover(p) \/ FencedCommit(p)

Spec == Init /\ [][Next]_fwVars
=============================================================================
