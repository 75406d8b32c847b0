----------------------------- MODULE MCArchive -----------------------------
EXTENDS HDFArchive, TLC

CONSTANTS a, b, num, F, U

Small == [type |-> "object", fmt |-> F, items |-> (a :> Leaf(num))]

Nested == [type |-> "object", fmt |-> F, items |-> (a :> Small)]

Unknown == [type |-> "object", fmt |-> U, items |-> (a :> Leaf(num))]

MCObjects == {Nested, Small, Unknown}

MCAliases == {<<a, b>>}

(* Views are interchangeable: no operation and no property tells one from   *)
(* another.                                                                 *)
Symmetry == Permutations(Views)

(* Objects nobody can reach any more are never looked at again: states that *)
(* differ in them only behave alike.                                        *)
Held == {Root} \cup {view[v].grp : v \in Views} \cup {stack[i].sub.grp : i \in DOMAIN stack}
        \cup UNION {{stack[i].todo[k].grp : k \in {k \in DOMAIN stack[i].todo :
                        stack[i].todo[k].type = "view"}} : i \in DOMAIN stack}

Reachable == UNION {Below(links, n) : n \in Held \ {NoNode}}

Seen == <<[n \in Reachable |-> <<links[n], kind[n], data[n], tag[n], goal[n]>>],
          Unused, view, call, stack, protect, foreign>>
=============================================================================
