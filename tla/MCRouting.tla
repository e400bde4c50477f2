------------------------------ MODULE MCRouting ------------------------------
(* A small instance of Routing for TLC: routes that overlap in host, path  *)
(* and kind, among them pairs on which the comparison of the sort is no    *)
(* order.                                                                  *)
EXTENDS Routing

Every == [labels |-> <<>>, wild |-> FALSE, port |-> FALSE]
A     == [labels |-> <<"a", "com">>, wild |-> FALSE, port |-> FALSE]
Wild  == [labels |-> <<"com">>, wild |-> TRUE, port |-> FALSE]

gh    == <<"/", "gh">>
ghost == <<"/", "gh", "ost">>
ghx   == <<"/", "gh", "/", "x">>

Plan(host, path, match, lang, priority, nodes) ==
    [host |-> host, path |-> path, match |-> match, lang |-> lang,
     priority |-> priority, nodes |-> nodes]

MCPlans ==
    { Plan(Every, <<>>, "", {}, 1, TRUE),
      Plan(Every, gh, "prefix", {}, 0, TRUE),
      Plan(A, gh, "prefix", {}, 0, TRUE),
      Plan(Wild, gh, "prefix", {}, 0, TRUE),
      Plan(Every, ghx, "prefix", {}, 0, FALSE),
      Plan(A, ghost, "exact", {}, 0, TRUE),
      Plan(Every, ghost, "prefix", {}, 1, TRUE),
      Plan(A, <<"^/">>, "regex", {Slash, gh, ghost, ghx}, 0, TRUE),
      Plan(Every, <<"^/gh", ".*">>, "regex", {gh, ghost, ghx}, 0, TRUE) }

(* Tables handed over whole: the same routes in either order, one with the *)
(* routes on which the comparison is no order, an empty one.               *)
MCTables ==
    LET On(p)  == [plan |-> p, enabled |-> TRUE]
        host   == On(Plan(A, gh, "prefix", {}, 0, TRUE))
        wild   == On(Plan(Wild, gh, "prefix", {}, 0, TRUE))
        short  == On(Plan(A, <<"^/">>, "regex", {Slash, gh, ghost, ghx}, 0, TRUE))
        long   == On(Plan(Every, <<"^/gh", ".*">>, "regex", {gh, ghost, ghx}, 0, TRUE))
    IN  { <<>>, <<host, wild>>, <<wild, host>>, <<short, long, wild>>, <<long, host, short>> }

MCHosts == { [labels |-> <<"a", "com">>, port |-> TRUE],
             [labels |-> <<"b", "com">>, port |-> FALSE] }

MCAsked == {Slash, gh, ghost, ghx}
==============================================================================
