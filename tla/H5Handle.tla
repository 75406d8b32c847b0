------------------------------ MODULE H5Handle ------------------------------
(***************************************************************************)
(* h5::object (c++/h5/object.hpp, object.cpp): the RAII wrapper that every *)
(* file, group, dataset, datatype, dataspace and attribute of the library  *)
(* derives from.  The HDF5 identifier table (reference counts, validity)   *)
(* is external; the wrapper's constructors, assignments and destructor are *)
(* modelled with every call to xincref and xdecref they make, in order.    *)
(*                                                                         *)
(* A C++ variable that has not been constructed, has been destroyed, has   *)
(* been moved from or wraps the default id 0 behaves the same way towards  *)
(* the reference counts, so all four are held[o] = NoId.                   *)
(***************************************************************************)
EXTENDS Naturals, FiniteSets

CONSTANTS Ids,        \* identifiers the HDF5 library may issue
          Objs,       \* C++ variables of type h5::object
          NoId,       \* the id 0 of a default constructed or moved-from object
          BadId       \* a negative id, what a failed H5Xopen returns

ASSUME IdsAssumption == NoId \notin Ids /\ BadId \notin Ids /\ NoId # BadId
ASSUME ObjsAssumption == IsFiniteSet(Objs)

VARIABLES ref,        \* the library's reference count of each identifier
          issued,     \* identifiers issued so far; HDF5 does not reuse them
          held,       \* the id member of each h5::object
          raw,        \* references owned through a plain hid_t
          lost        \* references whose only hid_t went out of scope

vars == <<ref, issued, held, raw, lost>>

-----------------------------------------------------------------------------
(* The identifier table of HDF5. *)

(* H5Iis_valid: neither 0, nor negative, nor closed. *)
Valid(count, i) == i \in Ids /\ count[i] > 0

(* xdecref: H5Idec_ref under the H5Iis_valid guard. *)
Xdecref(count, i) ==
    IF Valid(count, i) THEN [count EXCEPT ![i] = @ - 1] ELSE count

(* xincref: H5Iinc_ref under the same guard. *)
Xincref(count, i) ==
    IF Valid(count, i) THEN [count EXCEPT ![i] = @ + 1] ELSE count

-----------------------------------------------------------------------------

Init ==
    /\ ref = [i \in Ids |-> 0]
    /\ issued = {}
    /\ held = [o \in Objs |-> NoId]
    /\ raw = [i \in Ids |-> 0]
    /\ lost = [i \in Ids |-> 0]

(* H5Xopen or H5Xcreate hands the caller a new identifier with one         *)
(* reference, or the library sets up a predefined datatype.                *)
LibraryOpen(i) ==
    /\ i \notin issued
    /\ issued' = issued \cup {i}
    /\ ref' = [ref EXCEPT ![i] = 1]
    /\ raw' = [raw EXCEPT ![i] = 1]
    /\ UNCHANGED <<held, lost>>

(* The caller closes its hid_t itself, as has_subgroup does with H5Oclose. *)
LibraryClose(i) ==
    /\ raw[i] > 0
    /\ raw' = [raw EXCEPT ![i] = @ - 1]
    /\ ref' = Xdecref(ref, i)
    /\ UNCHANGED <<issued, held, lost>>

(* Seeded fault: a borrowed identifier is wrapped as if it were owned. *)
StealBorrowed(o, i) ==
    /\ held[o] = NoId
    /\ Valid(ref, i)
    /\ held' = [held EXCEPT ![o] = i]
    /\ raw' = [raw EXCEPT ![i] = @ - 1]
    /\ UNCHANGED <<ref, issued, lost>>

(* object(hid_t): takes over the caller's reference. *)
Steal(o, i) ==
    /\ held[o] = NoId
    /\ raw[i] > 0
    /\ held' = [held EXCEPT ![o] = i]
    /\ raw' = [raw EXCEPT ![i] = @ - 1]
    /\ UNCHANGED <<ref, issued, lost>>

(* object(hid_t) around the negative id of a call that failed; the callers *)
(* test the wrapped id only afterwards and then throw.                     *)
StealFailure(o) ==
    /\ held[o] = NoId
    /\ held' = [held EXCEPT ![o] = BadId]
    /\ UNCHANGED <<ref, issued, raw, lost>>

(* from_borrowed: the id stays with whoever owns it now. *)
FromBorrowed(o, i) ==
    /\ held[o] = NoId
    /\ Valid(ref, i)
    /\ ref' = Xincref(ref, i)
    /\ held' = [held EXCEPT ![o] = i]
    /\ UNCHANGED <<issued, raw, lost>>

(* hdf5_type<bool>(): hid_t_of<bool> creates an enum type, from_borrowed   *)
(* adds a reference, and the hid_t that owned the first one is gone.       *)
BoolType(o, i) ==
    /\ held[o] = NoId
    /\ i \notin issued
    /\ issued' = issued \cup {i}
    /\ ref' = Xincref([ref EXCEPT ![i] = 1], i)
    /\ held' = [held EXCEPT ![o] = i]
    /\ lost' = [lost EXCEPT ![i] = @ + 1]
    /\ UNCHANGED raw

(* read_attribute compares H5Aget_type(attr) without keeping the hid_t: it *)
(* is open, and there is nobody to close it.                               *)
AttributeType(i) ==
    /\ i \notin issued
    /\ issued' = issued \cup {i}
    /\ ref' = [ref EXCEPT ![i] = 1]
    /\ lost' = [lost EXCEPT ![i] = @ + 1]
    /\ UNCHANGED <<held, raw>>

(* object(object const &) *)
CopyConstruct(o, p) ==
    /\ o # p
    /\ held[o] = NoId
    /\ held' = [held EXCEPT ![o] = held[p]]
    /\ ref' = Xincref(ref, held[p])
    /\ UNCHANGED <<issued, raw, lost>>

(* object(object &&) *)
MoveConstruct(o, p) ==
    /\ o # p
    /\ held[o] = NoId
    /\ held' = [held EXCEPT ![o] = held[p], ![p] = NoId]
    /\ UNCHANGED <<ref, issued, raw, lost>>

(* Seeded fault: the assignment releases its own id before it copies rhs. *)
CopyAssignReleaseFirst(o, p) ==
    /\ ref' = Xincref(Xdecref(ref, held[o]), held[p])
    /\ held' = [held EXCEPT ![o] = held[p]]
    /\ UNCHANGED <<issued, raw, lost>>

(* operator=(object const &): a temporary copy of rhs is moved into o. *)
CopyAssign(o, p) ==
    /\ ref' = Xdecref(Xincref(ref, held[p]), held[o])
    /\ held' = [held EXCEPT ![o] = held[p]]
    /\ UNCHANGED <<issued, raw, lost>>

(* Seeded fault: rhs keeps the id that o has taken. *)
MoveAssignKeepRhs(o, p) ==
    /\ ref' = Xdecref(ref, held[o])
    /\ held' = [held EXCEPT ![o] = held[p]]
    /\ UNCHANGED <<issued, raw, lost>>

(* operator=(object &&), self-move included. *)
MoveAssign(o, p) ==
    /\ ref' = Xdecref(ref, held[o])
    /\ held' = [held EXCEPT ![o] = held[p], ![p] = NoId]
    /\ UNCHANGED <<issued, raw, lost>>

(* close() and the destructor. *)
Close(o) ==
    /\ ref' = Xdecref(ref, held[o])
    /\ held' = [held EXCEPT ![o] = NoId]
    /\ UNCHANGED <<issued, raw, lost>>

Next ==
    \/ \E i \in Ids : LibraryOpen(i) \/ LibraryClose(i) \/ AttributeType(i)
    \/ \E o \in Objs : StealFailure(o) \/ Close(o)
    \/ \E o \in Objs, i \in Ids : Steal(o, i) \/ FromBorrowed(o, i) \/ BoolType(o, i)
    \/ \E o, p \in Objs : CopyConstruct(o, p) \/ MoveConstruct(o, p)
    \/ \E o, p \in Objs : CopyAssign(o, p) \/ MoveAssign(o, p)

Spec == Init /\ [][Next]_vars

-----------------------------------------------------------------------------

TypeOK ==
    /\ ref \in [Ids -> Nat]
    /\ issued \subseteq Ids
    /\ held \in [Objs -> Ids \cup {NoId, BadId}]
    /\ raw \in [Ids -> Nat]
    /\ lost \in [Ids -> Nat]

Holders(h, i) == {o \in Objs : h[o] = i}

(* The owners of i: the objects that wrap it, plain hid_t values, and the  *)
(* references nobody can release any more.                                 *)
Shares == [i \in Ids |-> Cardinality(Holders(held, i)) + raw[i] + lost[i]]

(* The library's count of an identifier is the number of its owners after  *)
(* every sequence of copies, moves, self-assignments and destructions: no  *)
(* object ever wraps a closed identifier and none is closed twice          *)
(* (object.hpp 71-104, object.cpp 96-113).                                 *)
Counted == \A i \in Ids : ref[i] = Shares[i]

Open == {i \in Ids : ref[i] > 0}

Abstract == INSTANCE Ownership WITH shares <- Shares, open <- Open

(* The wrapper implements ownership: the step that gives up the last share *)
(* is the step that closes the identifier, and it stays closed.            *)
ImplementsOwnership == Abstract!Spec
=============================================================================
