----------------------------- MODULE LinkStore -----------------------------
(***************************************************************************)
(* The part of the HDF5 library that c++/h5 works on: objects (groups and  *)
(* datasets) at addresses of a file, and the named links of each group.    *)
(* A hard link owns an object, a soft link holds a name that is looked up  *)
(* in the same group each time it is followed and may lead nowhere.        *)
(* External code, modelled by what group.cpp relies on.                    *)
(*                                                                         *)
(* A link table is a function from addresses to functions from names to    *)
(* links.  An object without a hard link stays usable for whoever has it   *)
(* open; its address is not given out again.                               *)
(***************************************************************************)
EXTENDS Naturals, FiniteSets

CONSTANTS MaxNodes,   \* bound: number of objects a file may ever hold
          Names       \* link names

ASSUME MaxNodesAssumption == MaxNodes \in Nat \ {0}

ASSUME LinkNamesAssumption == IsFiniteSet(Names)

Nodes == 0..(MaxNodes - 1)

Root == 0             \* the root group

NoNode == MaxNodes    \* "cannot be opened"

NoLink == [type |-> "none"]

Hard(n) == [type |-> "hard", node |-> n]

Soft(k) == [type |-> "soft", path |-> k]

Links == {NoLink} \cup {Hard(n) : n \in Nodes} \cup {Soft(k) : k \in Names}

EmptyGroup == [k \in Names |-> NoLink]

(* H5Lexists: the link itself, whether or not it leads anywhere. *)
Lexists(links, g, k) == links[g][k].type # "none"

(* The object a name leads to.  A soft link is looked up in the same group  *)
(* again; a chain longer than the number of names is a cycle.              *)
Resolve(links, g, k) ==
    LET follow[d \in 0..Cardinality(Names)] ==
          [j \in Names |->
             IF links[g][j].type = "hard" THEN links[g][j].node
             ELSE IF links[g][j].type = "none" \/ d = 0 THEN NoNode
             ELSE follow[d - 1][links[g][j].path]]
    IN  IF links[g][k].type = "hard" THEN links[g][k].node
        ELSE follow[Cardinality(Names)][k]

(* H5Ldelete, H5Lcreate_soft, and the link made by H5Gcreate2, H5Dcreate2. *)
SetLink(links, g, k, l) == [links EXCEPT ![g][k] = l]

(* Objects that a chain of hard links connects to g. *)
Below(links, g) ==
    LET reach[d \in 0..MaxNodes] ==
          IF d = 0 THEN {g}
          ELSE LET above == reach[d - 1]
               IN  above \cup {links[e[1]][e[2]].node : e \in
                        {e \in above \X Names : links[e[1]][e[2]].type = "hard"}}
    IN  reach[MaxNodes]
=============================================================================
