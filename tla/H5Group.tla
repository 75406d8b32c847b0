------------------------------ MODULE H5Group ------------------------------
(***************************************************************************)
(* C++ clients of h5::group (c++/h5/group.hpp, group.cpp): several group   *)
(* objects open on one file, each calling the class's operations in any    *)
(* order.  A group object is a handle to an object of the file, not to a   *)
(* path: it goes on working after the path is unlinked or given away.      *)
(***************************************************************************)
EXTENDS GroupOps

CONSTANT Handles      \* C++ variables of type h5::group

VARIABLES links,      \* link table of the file
          kind,       \* kind of each object: "none" until it is created
          handle,     \* object each group variable is open on, or NoNode
          outcome     \* how the last call ended: "ok", or it threw: "refused" by
                      \* its own checks or the library's, or "failed" in the library

vars == <<links, kind, handle, outcome>>

Init ==
    /\ links = [n \in Nodes |-> EmptyGroup]
    /\ kind = [n \in Nodes |-> IF n = Root THEN "group" ELSE "none"]
    /\ handle = [h \in Handles |-> NoNode]
    /\ outcome = "ok"

Unused == {n \in Nodes : kind[n] = "none"}

(* The next object to be created takes the lowest unused address; when     *)
(* there is none the model ends here (bound MaxNodes).                     *)
IsNext(n) == n \in Unused /\ \A m \in Unused : n <= m

(* The result r of an operation becomes the link table, and the object n   *)
(* it created, if any, comes into being.                                   *)
Finish(r, n, what, able) ==
    /\ links' = r.links
    /\ outcome' = IF r.ok THEN "ok" ELSE IF able THEN "refused" ELSE "failed"
    /\ kind' = IF r.ok /\ n # NoNode THEN [kind EXCEPT ![n] = what] ELSE kind

Live(h) == handle[h] # NoNode

-----------------------------------------------------------------------------

(* group(file) *)
OpenRoot(h) ==
    /\ ~Live(h)
    /\ handle' = [handle EXCEPT ![h] = Root]
    /\ outcome' = "ok"
    /\ UNCHANGED <<links, kind>>

(* A group variable goes out of scope. *)
Drop(h) ==
    /\ Live(h)
    /\ handle' = [handle EXCEPT ![h] = NoNode]
    /\ outcome' = "ok"
    /\ UNCHANGED <<links, kind>>

(* open_group(key): H5Gopen2 fails on a dataset and on a dangling link. *)
OpenGroup(h, k, h2) ==
    /\ Live(h) /\ ~Live(h2)
    /\ IF has_subgroup(links, kind, handle[h], k)
         THEN /\ handle' = [handle EXCEPT ![h2] = Resolve(links, handle[h], k)]
              /\ outcome' = "ok"
         ELSE /\ outcome' = "refused"
              /\ UNCHANGED handle
    /\ UNCHANGED <<links, kind>>

(* create_group(key, delete_if_exists), its result kept in h2. *)
CreateGroup(h, k, h2, delete_if_exists) ==
    \E n \in Unused, able \in BOOLEAN :
        /\ Live(h) /\ ~Live(h2) /\ IsNext(n)
        /\ LET r == create_group(links, handle[h], k, n, delete_if_exists, able)
           IN  /\ Finish(r, n, "group", able)
               /\ handle' = IF r.ok THEN [handle EXCEPT ![h2] = n] ELSE handle

(* create_dataset(key, ...) *)
CreateDataset(h, k) ==
    \E n \in Unused, able \in BOOLEAN :
        /\ Live(h) /\ IsNext(n)
        /\ Finish(create_dataset(links, handle[h], k, n, able), n, "data", able)
        /\ UNCHANGED handle

(* open_dataset(key): H5Dopen2 fails on a group and on a dangling link.     *)
OpenDataset(h, k) ==
    /\ Live(h)
    /\ outcome' = IF has_dataset(links, kind, handle[h], k) THEN "ok" ELSE "refused"
    /\ UNCHANGED <<links, kind, handle>>

(* get_all_subgroup_names(), get_all_dataset_names() and                   *)
(* get_all_subgroup_dataset_names(): whatever kind is asked for, every     *)
(* link of the group has to lead somewhere.                                *)
List(h) ==
    /\ Live(h)
    /\ outcome' = IF listable(links, handle[h]) THEN "ok" ELSE "refused"
    /\ UNCHANGED <<links, kind, handle>>

(* create_softlink(target_key, key, delete_if_exists) *)
CreateSoftlink(h, target_key, k, delete_if_exists) ==
    /\ Live(h)
    /\ \E able \in BOOLEAN :
          Finish(create_softlink(links, handle[h], target_key, k, delete_if_exists, able),
                 NoNode, "none", able)
    /\ UNCHANGED handle

(* unlink(key, error_if_absent) *)
Unlink(h, k, error_if_absent) ==
    /\ Live(h)
    /\ Finish(unlink(links, handle[h], k, error_if_absent), NoNode, "none", TRUE)
    /\ UNCHANGED handle

(* H5Ldelete does not take away the link that unlink has found, as in a    *)
(* file open for reading: unlink throws, and so does the operation that    *)
(* called it.                                                              *)
FailUnlink(h, k) ==
    /\ Live(h) /\ has_key(links, handle[h], k)
    /\ outcome' = "failed"
    /\ UNCHANGED <<links, kind, handle>>

Next ==
    \/ \E h \in Handles : OpenRoot(h) \/ Drop(h) \/ List(h)
    \/ \E h, h2 \in Handles, k \in Names : OpenGroup(h, k, h2)
    \/ \E h, h2 \in Handles, k \in Names, d \in BOOLEAN : CreateGroup(h, k, h2, d)
    \/ \E h \in Handles, k \in Names :
          CreateDataset(h, k) \/ OpenDataset(h, k) \/ FailUnlink(h, k)
    \/ \E h \in Handles, t, k \in Names, d \in BOOLEAN : CreateSoftlink(h, t, k, d)
    \/ \E h \in Handles, k \in Names, e \in BOOLEAN : Unlink(h, k, e)

Spec == Init /\ [][Next]_vars

-----------------------------------------------------------------------------

TypeOK ==
    /\ links \in [Nodes -> [Names -> Links]]
    /\ kind \in [Nodes -> {"none", "group", "data"}]
    /\ handle \in [Handles -> Nodes \cup {NoNode}]
    /\ outcome \in {"ok", "refused", "failed"}
    /\ \A h \in Handles : Live(h) => kind[handle[h]] = "group"

(* The objects of a file form a tree: every object has at most one hard    *)
(* link to it, the root has none and no group contains itself, whatever    *)
(* the group objects that stay open on replaced and unlinked groups do.    *)
Forest ==
    /\ \A g, p \in Nodes, j, k \in Names :
          links[g][j].type = "hard" /\ links[p][k] = links[g][j] => g = p /\ j = k
    /\ \A g \in Nodes, k \in Names : links[g][k].type = "hard" =>
          /\ links[g][k].node # Root
          /\ g \notin Below(links, links[g][k].node)

(* A call that is refused has changed nothing: create_softlink looks at    *)
(* its target before it unlinks anything (group.cpp 122-138).  A call in   *)
(* which the library fails costs at most the link of one name in a group   *)
(* that somebody has open, which was unlinked to make room (group.cpp 114, *)
(* 131, 152), and never leaves a link to what was not created.             *)
CleanThrow ==
    /\ outcome' = "refused" => UNCHANGED <<links, kind, handle>>
    /\ outcome' = "failed" =>
          /\ UNCHANGED <<kind, handle>>
          /\ \/ UNCHANGED links
             \/ \E h \in Handles, k \in Names :
                   Live(h) /\ links' = SetLink(links, handle[h], k, NoLink)

(* Every call that throws does so cleanly in this sense. *)
ThrowsCleanly == [][CleanThrow]_vars

(* A softlink that was created leads to an object at that moment           *)
(* (group.hpp 131-133: "Throws an exception if the target does not         *)
(* exist").                                                                *)
SoftlinkHasTarget ==
    [][\A g \in Nodes, k \in Names :
          links'[g][k].type = "soft" /\ links'[g][k] # links[g][k] =>
              Resolve(links', g, k) # NoNode]_vars
=============================================================================
