---------------------------- MODULE MCWorkspace ----------------------------
(* Workspace for TLC: three plans that keep the order of the table in      *)
(* plans.py (free: nothing; pro: project policies; team: all), with limits *)
(* small enough to be reached, and kinds of behaviours: one edits policies,*)
(* one lets days pass, one has two projects, one changes members, one      *)
(* connects repositories.                                                  *)
EXTENDS Workspace
CONSTANTS p1, p2, a1, a2, r1, u1, u2, i1, i2, v1, v2, g1, g2, t1, t2

MCEntitled ==
    [free |-> [projects |-> 1, analyses |-> 1, retention |-> 1, members |-> 1,
               advanced |-> FALSE, organization |-> FALSE, team |-> FALSE],
     pro  |-> [projects |-> 2, analyses |-> 2, retention |-> 2, members |-> 1,
               advanced |-> TRUE, organization |-> FALSE, team |-> FALSE],
     team |-> [projects |-> 2, analyses |-> 2, retention |-> 2, members |-> 2,
               advanced |-> TRUE, organization |-> TRUE, team |-> TRUE]]

MCBounds ==
    {[edits |-> 3, days |-> 0, plan |-> Plan,
      people |-> {}, guest |-> {}, knock |-> {}, connector |-> {}, moves |-> 0,
      project |-> {p1}, analysis |-> {a1}, request |-> {r1}],
     [edits |-> 0, days |-> 2, plan |-> {"free", "pro"},
      people |-> {}, guest |-> {}, knock |-> {}, connector |-> {}, moves |-> 0,
      project |-> {p1}, analysis |-> {a1, a2}, request |-> {r1}],
     [edits |-> 0, days |-> 0, plan |-> {"free", "pro"},
      people |-> {}, guest |-> {}, knock |-> {}, connector |-> {}, moves |-> 0,
      project |-> {p1, p2}, analysis |-> {a1, a2}, request |-> {r1}],
     [edits |-> 0, days |-> 1, plan |-> {"free", "team"}, people |-> {u1, u2},
      guest |-> {u2}, knock |-> {<<v1, u1>>, <<v1, u2>>, <<v2, u2>>},
      connector |-> {}, moves |-> 0,
      project |-> {}, analysis |-> {}, request |-> {}],
     [edits |-> 0, days |-> 0, plan |-> {"pro"},
      people |-> {}, guest |-> {}, knock |-> {}, connector |-> {t1}, moves |-> 2,
      project |-> {p1, p2}, analysis |-> {}, request |-> {}]}
=============================================================================
