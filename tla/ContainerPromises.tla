------------------------- MODULE ContainerPromises -------------------------
(***************************************************************************)
(* What whoever reads a container back may rely on.                        *)
(***************************************************************************)
EXTENDS Containers

(* The parts that h5_read has a type for. *)
Readable == {p \in Parts : p[1] \in Types}

(* Reading the type gives the value back.  An optional without a value is  *)
(* written as nothing at all, so it must be in a place where nothing is    *)
(* read as such: absent says whether the value itself is in such a place.  *)
(* A variant must hold the first alternative of its datatype.              *)
(* kept says the same of the elements.                                     *)
StorableBy(T, v, absent, kept) ==
    CASE T.con = "leaf" -> TRUE
      [] T.con = "optional" -> IF v = None THEN absent ELSE kept[<<T.of, v.val>>][FALSE]
      [] T.con = "variant" -> \A i \in 1..(v.alt - 1) : T.alts[i].dtype # T.alts[v.alt].dtype
      [] T.con = "vector" -> \A i \in DOMAIN v.items : kept[<<T.of, v.items[i]>>][FALSE]
      [] T.con = "tuple" -> \A i \in DOMAIN v.items : kept[<<T.elems[i], v.items[i]>>][FALSE]
      [] T.con = "pair" -> kept[<<T.first, v.items[1]>>][FALSE] /\ kept[<<T.second, v.items[2]>>][FALSE]
      [] T.con = "array" -> \A i \in DOMAIN v.items : kept[<<T.of, v.items[i]>>][TRUE]
      [] T.con = "map" -> \A k \in DOMAIN v.entries : kept[<<T.of, v.entries[k]>>][FALSE]
      [] T.con = "keyed_map" ->
           \A q \in v.pairs : kept[<<T.key, q[1]>>][FALSE] /\ kept[<<T.of, q[2]>>][TRUE]

Storable[p \in Readable] == [absent \in BOOLEAN |-> StorableBy(p[1], p[2], absent, Storable)]

(* One element of each S[i]. *)
Picks(S) == {f \in [DOMAIN S -> UNION Range(S)] : \A i \in DOMAIN S : f[i] \in S[i]}

(* Two types of datasets. *)
StoredAlike(t, u) == t.dtype = u.dtype /\ t.extent = u.extent

(* What a write of v that does not end well may leave to be read: v with   *)
(* elements cut off at the end of a vector, left out of a map, without the *)
(* values of optionals, or not filled.  A variant is read as the first     *)
(* alternative that is stored like its own.                                *)
RemainsBy(T, v, left) ==
    LET lists(m, elem) == {List(s) : s \in Picks([i \in 1..m |-> left[<<elem[i], v.items[i]>>]])}
    IN  CASE T.con = "leaf" -> {v, [v EXCEPT !.leaf = Fill]}
          [] T.con = "optional" ->
               {None} \cup IF v = None THEN {} ELSE {Some(r) : r \in left[<<T.of, v.val>>]}
          [] T.con = "variant" ->
               {Alt(i, r) : i \in {i \in 1..v.alt : StoredAlike(T.alts[i], T.alts[v.alt])},
                            r \in left[<<T.alts[v.alt], v.val>>]}
          [] T.con = "vector" ->
               UNION {lists(m, [i \in 1..m |-> T.of]) : m \in 0..Len(v.items)}
          [] T.con = "tuple" -> lists(Len(v.items), T.elems)
          [] T.con = "pair" -> lists(2, <<T.first, T.second>>)
          [] T.con = "array" -> lists(Len(v.items), [i \in DOMAIN v.items |-> T.of])
          [] T.con = "map" ->
               {Dict(f) : f \in UNION {Picks([k \in K |-> left[<<T.of, v.entries[k]>>]]) :
                                         K \in SUBSET DOMAIN v.entries}}
          [] T.con = "keyed_map" ->
               {Pairs(P) : P \in SUBSET UNION {left[<<T.key, q[1]>>] \X left[<<T.of, q[2]>>] :
                                                 q \in v.pairs}}

Remains[p \in Readable] == RemainsBy(p[1], p[2], Remains)

Written == <<last.call.type, last.call.val>>

ReadBack == Read(last.call.type, last.call.grp, last.call.key)

(* What h5_write stored, h5_read of the same type gives back, whatever was *)
(* under the name before; values with an optional left empty in a vector,  *)
(* tuple or map with string keys, or over older content, and variants that *)
(* another alternative hides, are the exceptions (optional.hpp 57, vector. *)
(* hpp 156, pair.hpp 78, variant.hpp 84).  try_read finds it as well, and  *)
(* finds nothing after an optional without a value (generic.hpp 211-217).  *)
RoundTrip ==
    last.ended = "returned" /\ Storable[Written][last.link = NoLink] =>
        /\ ReadBack = last.call.val
        /\ try_read(last.call.type, last.call.grp, last.call.key) =
              IF last.call.val = None THEN NotThere ELSE last.call.val

(* However h5_write ended, h5_read ends without a value or gives part of   *)
(* the new value, or what was there before if the name was not touched:    *)
(* never a mixture of old and new elements, although no Format tells whole *)
(* from partial.  To end without a value may be to end the program, when   *)
(* the length of an array was not written (array.hpp 129).                 *)
PartOnly ==
    last.ended \in {"returned", "thrown"} =>
        \/ ReadBack \in Ends
        \/ ReadBack \in Remains[Written]
        \/ /\ ReadBack = last.read
           /\ links[last.call.grp][last.call.key] = last.link
=============================================================================
