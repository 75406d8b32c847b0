----------------------------- MODULE Containers -----------------------------
(***************************************************************************)
(* h5_write and h5_read of the standard library's containers               *)
(* (c++/h5/stl/*.hpp, generic.hpp) over h5::group.                         *)
(*                                                                         *)
(* A C++ type is a record whose field con names the template; a value is a *)
(* record as well (see the constructors below).  Writing a container makes *)
(* a group, gives it a Format and then writes the elements one after the   *)
(* other, each by its own h5_write: the calls that are still to come are a *)
(* list, and any of them may throw, which leaves what was written.         *)
(* Reading is a function of the file.                                      *)
(*                                                                         *)
(* Numbers, strings, vectors and std::arrays of them are one dataset: a    *)
(* leaf, which is fixed if the type knows its length (std::array).         *)
(***************************************************************************)
EXTENDS GroupOps, SequencesExt

CONSTANTS TypeList,     \* C++ types, each after the types of its elements
          Inputs,       \* pairs <<type, value>> that clients write
          Parts,        \* these pairs, and those of all their elements
          Keys,         \* names that clients write to
          Index,        \* names std::to_string(0), std::to_string(1), ...
          KeyName, ValName, ShapeName,   \* "key", "val", "shape"
          Fill,         \* what a dataset reads as when its write failed
          MaxCalls      \* bound: number of calls clients make

VARIABLES links,        \* link table of the file
          kind,         \* kind of each object: "none" until it is created
          data,         \* what each dataset holds
          tag,          \* Format attribute of each group
          pending,      \* calls of h5_write under way, the next one first
          last          \* the client's last h5_write, and how it ended

file == <<links, kind, data, tag>>
vars == <<links, kind, data, tag, pending, last>>

(* Values.  A leaf has the datatype and the extent of its dataset. *)
Leaf(dtype, extent, x) == [is |-> "leaf", dtype |-> dtype, extent |-> extent, leaf |-> x]
None == [is |-> "none"]
Some(v) == [is |-> "some", val |-> v]
List(s) == [is |-> "list", items |-> s]           \* std::vector, array, pair, tuple
Dict(f) == [is |-> "dict", entries |-> f]         \* std::map with strings for keys
Pairs(s) == [is |-> "pairs", pairs |-> s]         \* std::map with other keys
Alt(i, v) == [is |-> "alt", alt |-> i, val |-> v] \* std::variant

Types == ToSet(TypeList)

(* What a group is made for. *)
IsGroup(T) == T.con \notin {"leaf", "optional", "variant"}

(* The element of a map with other keys is a group of its own. *)
Entry(t) == [con |-> "entry", key |-> t.key, of |-> t.of]

ASSUME NamesAssumption ==
    /\ Keys \subseteq Names /\ {KeyName, ValName, ShapeName} \subseteq Names
    /\ Index \in Seq(Names) /\ IsInjective(Index)
    /\ KeyName # ValName /\ ShapeName \notin ToSet(Index)

(* T is a template applied to types in S.  The alternatives of a variant   *)
(* must be datasets, and there are names for the elements that a type has. *)
MadeOf(T, S) ==
    \/ T.con = "leaf" /\ T.fixed \in BOOLEAN
    \/ T.con \in {"optional", "vector", "map"} /\ T.of \in S
    \/ T.con = "variant" /\ T.alts \in Seq({U \in S : U.con = "leaf"})
    \/ T.con = "tuple" /\ T.elems \in Seq(S) /\ Len(T.elems) <= Len(Index)
    \/ T.con = "pair" /\ {T.first, T.second} \subseteq S /\ Len(Index) >= 2
    \/ /\ T.con = "array" /\ T.size \in 0..Len(Index)
       /\ {T.of, T.shape} \subseteq S /\ T.shape.con = "leaf"
    \/ T.con = "keyed_map" /\ {T.key, T.of} \subseteq S

ASSUME TypesAssumption ==
    /\ TypeList \in Seq(Types)
    /\ \A i \in DOMAIN TypeList : MadeOf(TypeList[i], {TypeList[j] : j \in 1..(i - 1)})

(* A value has its type, each of its elements is among the parts, and      *)
(* there are names for all of them.                                        *)
Typed(T, v) ==
    LET part(t, w) == <<t, w>> \in Parts
        listed == v = List(v.items) /\ v.items \in Seq(ToSet(v.items)) /\ Len(v.items) <= Len(Index)
    IN  \/ T.con = "leaf" /\ v = Leaf(T.dtype, T.extent, v.leaf)
        \/ T.con = "optional" /\ (v = None \/ (v = Some(v.val) /\ part(T.of, v.val)))
        \/ /\ T.con = "variant" /\ v = Alt(v.alt, v.val)
           /\ v.alt \in DOMAIN T.alts /\ part(T.alts[v.alt], v.val)
        \/ T.con = "vector" /\ listed /\ \A i \in DOMAIN v.items : part(T.of, v.items[i])
        \/ /\ T.con = "tuple" /\ listed /\ Len(v.items) = Len(T.elems)
           /\ \A i \in DOMAIN v.items : part(T.elems[i], v.items[i])
        \/ /\ T.con = "pair" /\ v = List(<<v.items[1], v.items[2]>>)
           /\ part(T.first, v.items[1]) /\ part(T.second, v.items[2])
        \/ /\ T.con = "array" /\ listed /\ Len(v.items) = T.size
           /\ part(T.shape, Leaf(T.shape.dtype, T.shape.extent, T.size))
           /\ \A i \in DOMAIN v.items : part(T.of, v.items[i])
        \/ /\ T.con = "map" /\ v = Dict([k \in DOMAIN v.entries |-> v.entries[k]])
           /\ IsFiniteSet(DOMAIN v.entries) /\ DOMAIN v.entries \subseteq Names
           /\ \A k \in DOMAIN v.entries : part(T.of, v.entries[k])
        \/ /\ T.con = "keyed_map" /\ v = Pairs(v.pairs)
           /\ IsFiniteSet(v.pairs) /\ Cardinality(v.pairs) <= Len(Index)
           /\ \A q \in v.pairs : part(Entry(T), q)
        \/ T.con = "entry" /\ v = <<v[1], v[2]>> /\ part(T.key, v[1]) /\ part(T.of, v[2])

ASSUME PartsAssumption ==
    /\ Inputs \subseteq Parts /\ \A i \in Inputs : i[1] \in Types
    /\ \A p \in Parts :
          /\ p = <<p[1], p[2]>> /\ Typed(p[1], p[2])
          /\ p[1] \in Types \/ \E T \in Types : T.con = "keyed_map" /\ p[1] = Entry(T)

Throw == [is |-> "throw"]                         \* h5_read ends with an exception
Terminate == [is |-> "terminate"]                 \* h5_read ends the program (H5_EXPECTS)

(* The ways in which h5_read may end without a value. *)
Ends == {Throw, Terminate}

Untagged == "none"
Blank == [is |-> "blank"]

NoCall == [ended |-> "never", number |-> 0]

Init ==
    /\ links = [n \in Nodes |-> EmptyGroup]
    /\ kind = [n \in Nodes |-> IF n = Root THEN "group" ELSE "none"]
    /\ data = [n \in Nodes |-> Blank]
    /\ tag = [n \in Nodes |-> Untagged]
    /\ pending = <<>>
    /\ last = NoCall

Unused == {n \in Nodes : kind[n] = "none"}

(* The next object takes the lowest unused address (bound MaxNodes). *)
IsNext(n) == n \in Unused /\ \A m \in Unused : n <= m

-----------------------------------------------------------------------------
(* h5_read<T>(g, k), with read[T][g][k] for the reads of the elements. *)

(* A dataset of another extent does not fit in a std::array: its length is *)
(* a precondition.                                                         *)
ReadLeaf(t, g, k) ==
    IF ~has_dataset(links, kind, g, k) THEN Throw
    ELSE LET found == data[Resolve(links, g, k)]
         IN  IF found.extent # t.extent THEN IF t.fixed THEN Terminate ELSE Throw
             ELSE IF found.dtype # t.dtype THEN Throw
             ELSE found

ReadOptional(t, g, k, read) ==
    IF ~has_key(links, g, k) THEN None
    ELSE IF read[t.of][g][k] \in Ends THEN read[t.of][g][k]
    ELSE Some(read[t.of][g][k])

(* The first alternative with the datatype of the dataset is tried. *)
ReadVariant(t, g, k, read) ==
    LET fits == {i \in DOMAIN t.alts : t.alts[i].dtype = data[Resolve(links, g, k)].dtype}
        i == CHOOSE i \in fits : \A j \in fits : i <= j
    IN  IF ~has_dataset(links, kind, g, k) \/ fits = {} THEN Throw
        ELSE IF read[t.alts[i]][g][k] \in Ends THEN read[t.alts[i]][g][k]
        ELSE Alt(i, read[t.alts[i]][g][k])

(* The elements are read in turn, until the read of one gives no value. *)
FirstEnding(s) == s[CHOOSE i \in DOMAIN s : s[i] \in Ends /\ \A j \in 1..(i - 1) : s[j] \notin Ends]

Collect(s) == IF \E i \in DOMAIN s : s[i] \in Ends THEN FirstEnding(s) ELSE List(s)

(* Those of a map in the order of their names. *)
EndingByName(r) ==
    LET order == SetToSeq(DOMAIN r)
    IN  FirstEnding([i \in DOMAIN order |-> r[order[i]]])

(* Seeded fault: subgroups are not counted. *)
LengthOfDatasets(g) == Cardinality({k \in keys(links, g) : has_dataset(links, kind, g, k)})

(* The length of a vector is the number of objects in its group. *)
Length(g) == Cardinality(keys(links, g))

ReadVector(t, g, read) ==
    IF Length(g) > Len(Index) THEN Throw
    ELSE Collect([i \in 1..Length(g) |-> read[t.of][g][Index[i]]])

ReadTuple(t, g, read) ==
    IF Cardinality(keys(links, g)) # Len(t.elems) THEN Throw
    ELSE Collect([i \in DOMAIN t.elems |-> read[t.elems[i]][g][Index[i]]])

ReadPair(t, g, read) ==
    IF Cardinality(keys(links, g)) # 2 THEN Throw
    ELSE Collect(<<read[t.first][g][Index[1]], read[t.second][g][Index[2]]>>)

(* An array has its length in a dataset, and it is a precondition as well. *)
ReadArray(t, g, read) ==
    LET length == read[t.shape][g][ShapeName]
    IN  IF length \in Ends THEN length
        ELSE IF length.leaf # t.size THEN Terminate
        ELSE Collect([i \in 1..t.size |-> read[t.of][g][Index[i]]])

ReadMap(t, g, read) ==
    LET r == [k \in keys(links, g) |-> read[t.of][g][k]]
    IN  IF \E k \in keys(links, g) : r[k] \in Ends THEN EndingByName(r) ELSE Dict(r)

(* A map with other keys: every object is a subgroup with a key and a val. *)
ReadPairs(t, g, read) ==
    LET part(u, k, name) ==
            IF has_subgroup(links, kind, g, k) THEN read[u][Resolve(links, g, k)][name] ELSE Throw
        firsts == [k \in keys(links, g) |-> part(t.key, k, KeyName)]
        seconds == [k \in keys(links, g) |-> part(t.of, k, ValName)]
    IN  IF \E k \in keys(links, g) : {firsts[k], seconds[k]} \cap Ends # {}
          THEN EndingByName([k \in keys(links, g) |->
                               IF firsts[k] \in Ends THEN firsts[k] ELSE seconds[k]])
          ELSE Pairs({<<firsts[k], seconds[k]>> : k \in keys(links, g)})

ReadGroup(t, g, read) ==
    CASE t.con = "vector" -> ReadVector(t, g, read)
      [] t.con = "tuple" -> ReadTuple(t, g, read)
      [] t.con = "pair" -> ReadPair(t, g, read)
      [] t.con = "array" -> ReadArray(t, g, read)
      [] t.con = "map" -> ReadMap(t, g, read)
      [] t.con = "keyed_map" -> ReadPairs(t, g, read)

ReadBy(t, g, k, read) ==
    CASE t.con = "leaf" -> ReadLeaf(t, g, k)
      [] t.con = "optional" -> ReadOptional(t, g, k, read)
      [] t.con = "variant" -> ReadVariant(t, g, k, read)
      [] IsGroup(t) -> IF has_subgroup(links, kind, g, k)
                         THEN ReadGroup(t, Resolve(links, g, k), read) ELSE Throw

Read(T, g, k) ==
    LET read[t \in Types] == [h \in Nodes |-> [j \in Names |-> ReadBy(t, h, j, read)]]
    IN  read[T][g][k]

(* try_read, when there is nothing under the name. *)
NotThere == [is |-> "false"]

try_read(T, g, k) == IF has_key(links, g, k) THEN Read(T, g, k) ELSE NotThere

-----------------------------------------------------------------------------
(* h5_write(g, k, v) of a v of type T. *)

Call(T, g, k, v) == [type |-> T, grp |-> g, key |-> k, val |-> v]

(* hdf5_format_impl, in each of the headers. *)
FormatOfVector == "List"
FormatOfPair == "Tuple"
FormatOfTuple == "Tuple"
FormatOfMap == "Dict"

FormatOf(T) ==
    CASE T.con = "vector" -> FormatOfVector
      [] T.con = "pair" -> FormatOfPair
      [] T.con = "tuple" -> FormatOfTuple
      [] T.con \in {"map", "keyed_map"} -> FormatOfMap
      [] T.con \in {"array", "entry"} -> Untagged

(* The calls that fill the new group n: element by element. *)
VectorElements(T, v, n) ==
    [i \in DOMAIN v.items |-> Call(T.of, n, Index[i], v.items[i])]

TupleElements(T, v, n) ==
    [i \in DOMAIN v.items |-> Call(T.elems[i], n, Index[i], v.items[i])]

PairElements(T, v, n) ==
    <<Call(T.first, n, Index[1], v.items[1]), Call(T.second, n, Index[2], v.items[2])>>

(* The length of an array comes first. *)
ArrayElements(T, v, n) ==
    <<Call(T.shape, n, ShapeName, Leaf(T.shape.dtype, T.shape.extent, T.size))>>
    \o VectorElements(T, v, n)

(* The entries of a map come in some fixed order. *)
MapElements(T, v, n) ==
    LET order == SetToSeq(DOMAIN v.entries)
    IN  [i \in DOMAIN order |-> Call(T.of, n, order[i], v.entries[order[i]])]

PairsElements(T, v, n) ==
    LET order == SetToSeq(v.pairs)
    IN  [i \in DOMAIN order |-> Call(Entry(T), n, Index[i], order[i])]

EntryElements(T, v, n) ==
    <<Call(T.key, n, KeyName, v[1]), Call(T.of, n, ValName, v[2])>>

Elements(T, v, n) ==
    CASE T.con = "vector" -> VectorElements(T, v, n)
      [] T.con = "tuple" -> TupleElements(T, v, n)
      [] T.con = "pair" -> PairElements(T, v, n)
      [] T.con = "array" -> ArrayElements(T, v, n)
      [] T.con = "map" -> MapElements(T, v, n)
      [] T.con = "keyed_map" -> PairsElements(T, v, n)
      [] T.con = "entry" -> EntryElements(T, v, n)

(* An optional writes its value if it has one, a variant the value it has. *)
Unwrapped(c) ==
    CASE c.type.con = "variant" -> <<Call(c.type.alts[c.val.alt], c.grp, c.key, c.val.val)>>
      [] c.type.con = "optional" ->
           IF c.val = None THEN <<>> ELSE <<Call(c.type.of, c.grp, c.key, c.val.val)>>

Top == Head(pending)

Return(calls) ==
    /\ pending' = calls
    /\ last' = IF calls = <<>> THEN [last EXCEPT !.ended = "returned"] ELSE last

Unwind ==
    /\ pending' = <<>>
    /\ last' = [last EXCEPT !.ended = "thrown"]

NewObject(n, what) == kind' = [kind EXCEPT ![n] = what]

(* A client calls h5_write(g, k, v) on a group of the file. *)
Write(g, k, T, v) ==
    /\ pending = <<>> /\ last.number < MaxCalls
    /\ kind[g] = "group" /\ g \in Below(links, Root)
    /\ pending' = <<Call(T, g, k, v)>>
    /\ last' = [ended |-> "not yet", number |-> last.number + 1, call |-> Call(T, g, k, v), link |-> links[g][k],
                read |-> Read(T, g, k), old |-> Nodes \ Unused]
    /\ UNCHANGED file

Unwrap ==
    /\ pending # <<>>
    /\ Top.type.con \in {"optional", "variant"}
    /\ Return(Unwrapped(Top) \o Tail(pending))
    /\ UNCHANGED file

(* Seeded fault: nothing is written to the dataset. *)
WriteLeafUnfilled ==
    \E n \in Unused :
        /\ pending # <<>> /\ IsNext(n)
        /\ Top.type.con = "leaf"
        /\ links' = create_dataset(links, Top.grp, Top.key, n, TRUE).links
        /\ NewObject(n, "data")
        /\ Return(Tail(pending))
        /\ UNCHANGED <<data, tag>>

(* A dataset is made and filled. *)
WriteLeaf ==
    \E n \in Unused :
        /\ pending # <<>> /\ IsNext(n)
        /\ Top.type.con = "leaf"
        /\ links' = create_dataset(links, Top.grp, Top.key, n, TRUE).links
        /\ NewObject(n, "data")
        /\ data' = [data EXCEPT ![n] = Top.val]
        /\ Return(Tail(pending))
        /\ UNCHANGED tag

(* Seeded fault: an existing subgroup keeps its content. *)
MakeGroupKeep(lnk, g, k, n) ==
    IF has_subgroup(lnk, kind, g, k)
      THEN [create_group(lnk, g, k, n, TRUE, TRUE).links EXCEPT ![n] = lnk[Resolve(lnk, g, k)]]
      ELSE create_group(lnk, g, k, n, TRUE, TRUE).links

(* Seeded fault: the name is looked up from the root. *)
MakeGroupAtRoot(lnk, g, k, n) == create_group(lnk, Root, k, n, TRUE, TRUE).links

(* create_group(key), and the group it is filled in. *)
MakeGroup(lnk, g, k, n) == create_group(lnk, g, k, n, TRUE, TRUE).links

(* A group is made and given its Format; its elements come next. *)
WriteGroup ==
    \E n \in Unused :
        /\ pending # <<>> /\ IsNext(n)
        /\ IsGroup(Top.type)
        /\ links' = MakeGroup(links, Top.grp, Top.key, n)
        /\ NewObject(n, "group")
        /\ tag' = [tag EXCEPT ![n] = FormatOf(Top.type)]
        /\ Return(Elements(Top.type, Top.val, n) \o Tail(pending))
        /\ UNCHANGED data

-----------------------------------------------------------------------------
(* Exceptions. *)

(* The call throws before it touches the file. *)
Fail ==
    /\ pending # <<>>
    /\ Unwind
    /\ UNCHANGED file

(* H5Dcreate2 or H5Gcreate2 fails after the old link is gone. *)
FailUnlinked ==
    /\ pending # <<>>
    /\ Top.type.con \notin {"optional", "variant"}
    /\ links' = unlink(links, Top.grp, Top.key, FALSE).links
    /\ Unwind
    /\ UNCHANGED <<kind, data, tag>>

(* H5Dwrite or the attribute after it fails, or the Format cannot be       *)
(* written.                                                                *)
FailTorn ==
    \E n \in Unused :
        /\ pending # <<>> /\ IsNext(n)
        /\ \/ /\ Top.type.con = "leaf"
              /\ links' = create_dataset(links, Top.grp, Top.key, n, TRUE).links
              /\ NewObject(n, "data")
              /\ \E x \in {Fill, Top.val.leaf} :
                    data' = [data EXCEPT ![n] = Leaf(Top.type.dtype, Top.type.extent, x)]
           \/ /\ IsGroup(Top.type)
              /\ links' = MakeGroup(links, Top.grp, Top.key, n)
              /\ NewObject(n, "group")
              /\ UNCHANGED data
        /\ Unwind
        /\ UNCHANGED tag

Next ==
    \/ \E g \in Nodes, k \in Keys, i \in Inputs : Write(g, k, i[1], i[2])
    \/ Unwrap
    \/ WriteLeaf
    \/ WriteGroup
    \/ Fail
    \/ FailUnlinked
    \/ FailTorn

Spec == Init /\ [][Next]_vars

-----------------------------------------------------------------------------

TypeOK ==
    /\ links \in [Nodes -> [Names -> Links]]
    /\ kind \in [Nodes -> {"none", "group", "data"}]
    /\ \A n \in Nodes : kind[n] = "data" <=> data[n] # Blank
    /\ tag \in [Nodes -> {"List", "Tuple", "Dict", Untagged}]
    /\ \A n \in Nodes : tag[n] # Untagged => kind[n] = "group"
    /\ \A i \in DOMAIN pending : kind[pending[i].grp] = "group"
    /\ pending # <<>> <=> last.ended = "not yet"

(* One h5_write, however deep the value and wherever it throws, changes    *)
(* nothing that was in the file but the link under its own name.           *)
Untouched ==
    [][pending # <<>> =>
         \A n \in last.old :
            /\ kind'[n] = kind[n] /\ data'[n] = data[n] /\ tag'[n] = tag[n]
            /\ \A k \in Names :
                 n # last.call.grp \/ k # last.call.key => links'[n][k] = links[n][k]]_vars
=============================================================================
