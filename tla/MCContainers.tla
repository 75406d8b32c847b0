---------------------------- MODULE MCContainers ----------------------------
EXTENDS ContainerPromises

CONSTANTS x, i0, i1, i2, key, val, shape

Stored(dtype, extent) == [con |-> "leaf", dtype |-> dtype, extent |-> extent, fixed |-> FALSE]

(* A std::complex<double> is two doubles in one dataset. *)
int == Stored("int", <<>>)
double == Stored("dbl", <<>>)
complex == Stored("dbl", <<2>>)
array1 == [int EXCEPT !.extent = <<1>>, !.fixed = TRUE]      \* std::array<long, 1>
long == int                        \* another C++ type of the same HDF5 type

Optional(T) == [con |-> "optional", of |-> T]
Vector(T) == [con |-> "vector", of |-> T]
Tuple(s) == [con |-> "tuple", elems |-> s]
Pair(T, U) == [con |-> "pair", first |-> T, second |-> U]
Array(T, n) == [con |-> "array", of |-> T, size |-> n, shape |-> array1]
MapTo(T) == [con |-> "map", of |-> T]
KeyedMap(K, T) == [con |-> "keyed_map", key |-> K, of |-> T]
Variant(s) == [con |-> "variant", alts |-> s]

OI == Optional(int)
VOI == Vector(OI)
P == Pair(int, OI)
VP == Vector(P)
T3 == Tuple(<<OI, int, int>>)
MI == MapTo(int)
MOV == MapTo(VOI)
KM == KeyedMap(int, OI)
AO == Array(OI, 2)
V2 == Variant(<<int, double, complex, long>>)
OMI == Optional(MI)

MCTypes == <<int, double, complex, array1, OI, VOI, P, VP, MI, MOV, T3, KM, AO, V2, OMI>>

One == Leaf("int", <<>>, 1)
Two == Leaf("int", <<>>, 2)
Is(v) == Some(v)

MCInputs ==
    {<<int, One>>, <<OI, None>>, <<OI, Some(Two)>>,
     <<VOI, List(<<>>)>>, <<VOI, List(<<Is(One), Is(Two)>>)>>, <<VOI, List(<<Is(One), None, Is(Two)>>)>>,
     <<VOI, List(<<None, Is(Two)>>)>>,
     <<P, List(<<One, Is(Two)>>)>>, <<P, List(<<Two, None>>)>>,
     <<VP, List(<<List(<<Two, Is(One)>>)>>)>>,
     <<T3, List(<<Is(One), Two, One>>)>>, <<T3, List(<<None, One, Two>>)>>,
     <<MI, Dict(i0 :> Two @@ i1 :> One)>>, <<MI, Dict(x :> Two)>>,
     <<MOV, Dict(x :> List(<<Is(Two)>>))>>,
     <<KM, Pairs({<<One, None>>})>>, <<KM, Pairs({<<One, Is(One)>>, <<Two, None>>})>>, <<KM, Pairs({<<Two, Is(Two)>>})>>,
     <<AO, List(<<None, Is(One)>>)>>, <<array1, Leaf("int", <<1>>, 2)>>,
     <<V2, Alt(1, Two)>>, <<V2, Alt(2, Leaf("dbl", <<>>, 2))>>, <<V2, Alt(3, Leaf("dbl", <<2>>, 2))>>, <<V2, Alt(4, One)>>,
     <<OMI, Some(Dict(i0 :> Two))>>, <<OMI, None>>}

MCIndex == <<i0, i1, i2>>

RECURSIVE PartsOf(_, _)

(* A value of type T and all that is in it, with the types of the parts. *)
PartsOf(T, v) ==
    {<<T, v>>} \cup
    CASE T.con = "leaf" -> {}
      [] T.con = "optional" -> IF v = None THEN {} ELSE PartsOf(T.of, v.val)
      [] T.con = "variant" -> PartsOf(T.alts[v.alt], v.val)
      [] T.con = "vector" -> UNION {PartsOf(T.of, v.items[i]) : i \in DOMAIN v.items}
      [] T.con = "tuple" -> UNION {PartsOf(T.elems[i], v.items[i]) : i \in DOMAIN v.items}
      [] T.con = "pair" -> PartsOf(T.first, v.items[1]) \cup PartsOf(T.second, v.items[2])
      [] T.con = "array" ->
           {<<T.shape, Leaf(T.shape.dtype, T.shape.extent, T.size)>>}
           \cup UNION {PartsOf(T.of, v.items[i]) : i \in DOMAIN v.items}
      [] T.con = "map" -> UNION {PartsOf(T.of, v.entries[k]) : k \in DOMAIN v.entries}
      [] T.con = "keyed_map" -> UNION {PartsOf(Entry(T), q) : q \in v.pairs}
      [] T.con = "entry" -> PartsOf(T.key, v[1]) \cup PartsOf(T.of, v[2])

MCParts == UNION {PartsOf(i[1], i[2]) : i \in MCInputs}

(* Objects that cannot be reached from the root are never looked at again. *)
Held == {Root} \cup {pending[i].grp : i \in DOMAIN pending}
Seen == <<[n \in UNION {Below(links, m) : m \in Held} |-> <<links[n], kind[n], data[n], tag[n]>>],
          Unused, pending, last>>
=============================================================================
