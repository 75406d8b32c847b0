------------------------------ MODULE GroupOps ------------------------------
(***************************************************************************)
(* h5::group (c++/h5/group.cpp): its operations as functions of the link   *)
(* table.  An operation that can throw returns whether it returned         *)
(* normally and the table it leaves behind in either case.                 *)
(***************************************************************************)
EXTENDS LinkStore

Returns(links) == [ok |-> TRUE, links |-> links]

Throws(links) == [ok |-> FALSE, links |-> links]

has_key(links, g, k) == Lexists(links, g, k)

(* Seeded fault: any key will do. *)
has_object(links, kind, g, k) == has_key(links, g, k) /\ Resolve(links, g, k) \in Nodes

has_subgroup(links, kind, g, k) ==
    /\ has_key(links, g, k)
    /\ Resolve(links, g, k) \in Nodes
    /\ kind[Resolve(links, g, k)] = "group"

has_dataset(links, kind, g, k) ==
    /\ has_key(links, g, k)
    /\ Resolve(links, g, k) \in Nodes
    /\ kind[Resolve(links, g, k)] = "data"

unlink(links, g, k, error_if_absent) ==
    IF has_key(links, g, k) THEN Returns(SetLink(links, g, k, NoLink))
    ELSE IF error_if_absent THEN Throws(links)
    ELSE Returns(links)

(* The library refuses to create an object under a name that is taken; it  *)
(* may also be unable to create it (a full disk, ...): able tells.         *)
create(links, g, k, n, able) ==
    IF able /\ ~Lexists(links, g, k) THEN Returns(SetLink(links, g, k, Hard(n)))
    ELSE Throws(links)

(* A creation that fails comes after the unlink: the old link is gone. *)
create_group(links, g, k, n, delete_if_exists, able) ==
    create(IF delete_if_exists THEN unlink(links, g, k, FALSE).links ELSE links, g, k, n, able)

create_dataset(links, g, k, n, able) ==
    create(unlink(links, g, k, FALSE).links, g, k, n, able)

(* Seeded fault: the link owns its target. *)
create_hardlink(links, g, target_key, k, delete_if_exists, able) ==
    IF ~has_key(links, g, target_key) THEN Throws(links)
    ELSE IF ~delete_if_exists /\ has_key(links, g, k) THEN Throws(links)
    ELSE IF ~able THEN Throws(unlink(links, g, k, FALSE).links)
    ELSE Returns([links EXCEPT ![g][k] = links[g][target_key]])

(* Seeded fault: the old link goes before the target is looked at. *)
create_softlink_unlink_first(links, g, target_key, k, delete_if_exists, able) ==
    LET left == IF delete_if_exists THEN unlink(links, g, k, FALSE).links ELSE links
    IN  IF ~has_key(left, g, target_key) \/ has_key(left, g, k) \/ ~able THEN Throws(left)
        ELSE Returns(SetLink(left, g, k, Soft(target_key)))

create_softlink(links, g, target_key, k, delete_if_exists, able) ==
    LET left == unlink(links, g, k, FALSE).links
    IN  IF ~has_key(links, g, target_key) \/ (~delete_if_exists /\ has_key(links, g, k))
          THEN Throws(links)
        ELSE IF able THEN Returns(SetLink(left, g, k, Soft(target_key)))
        ELSE Throws(left)

(* The H5Literate callbacks throw at the first link that leads nowhere. *)
listable(links, g) ==
    \A k \in Names : Lexists(links, g, k) => Resolve(links, g, k) # NoNode

(* get_all_subgroup_dataset_names, when it returns. *)
keys(links, g) == {k \in Names : Lexists(links, g, k)}
=============================================================================
