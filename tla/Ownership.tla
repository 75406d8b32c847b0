------------------------------ MODULE Ownership ------------------------------
(***************************************************************************)
(* What reference counting promises, stated without counts: an HDF5        *)
(* identifier is open exactly as long as somebody owns a share of it, it   *)
(* is closed by the step that gives up the last share, and a closed        *)
(* identifier never comes back.  c++/h5/object.hpp promises it as "handles *)
(* the proper reference counting using a RAII pattern".                    *)
(***************************************************************************)
EXTENDS Naturals

CONSTANT Ids          \* identifiers the library may ever issue

VARIABLES shares,     \* shares[i]: how many owners i has
          open,       \* identifiers that are valid
          issued      \* identifiers that were ever issued

vars == <<shares, open, issued>>

Init ==
    /\ shares = [i \in Ids |-> 0]
    /\ open = {}
    /\ issued = {}

(* The library issues an identifier nobody has seen, with n owners. *)
Issue(i, n) ==
    /\ i \notin issued
    /\ shares' = [shares EXCEPT ![i] = n]
    /\ open' = open \cup {i}
    /\ issued' = issued \cup {i}

(* Owners of identifiers that are open come and go; the last one closes. *)
Exchange ==
    /\ shares' \in [Ids -> Nat]
    /\ \A i \in Ids \ open : shares'[i] = shares[i]
    /\ open' = {i \in open : shares'[i] > 0}
    /\ UNCHANGED issued

Next ==
    \/ \E i \in Ids, n \in 1..2 : Issue(i, n)
    \/ Exchange

Spec == Init /\ [][Next]_vars
=============================================================================
