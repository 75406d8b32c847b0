------------------------------ MODULE MCValues ------------------------------
EXTENDS Values

CONSTANTS a, b, nul

Layouts(npy, width, extents, steps) ==
    {Array(npy, extent, strides, width) :
        extent \in extents, strides \in UNION {[1..n -> steps] : n \in 1..3}}

OfOneRank(arrays) == {arr \in arrays : Len(arr.shape) = Len(arr.strides)}

Extents == {<<0>>, <<1>>, <<3>>, <<1, 2>>, <<2, 2>>, <<2, 3>>, <<3, 0>>}

(* Every layout of doubles with strides up to 6, few of the other types. *)
Doubles ==
    OfOneRank(Layouts("DOUBLE", 1, Extents, 0..6))
    \cup OfOneRank(Layouts("DOUBLE", 1, {<<2, 1, 2>>, <<2, 3, 2>>}, {1, 2, 4, 6}))
Complexes == OfOneRank(Layouts("CDOUBLE", 2, {<<0>>, <<3>>, <<2, 2>>, <<2, 0>>}, {2, 4, 6}))
Plain == {NewArray(npy, extent) :
             npy \in {row[2] : row \in ToSet(h5_py_type_table)}, extent \in {<<>>, <<0>>, <<3>>, <<2, 3>>}}
Bytes == {Array("STRING", <<2>>, <<5>>, 5), Array("HALF", <<2>>, <<1>>, 1)}

MCPyObjects ==
    Doubles \cup Complexes \cup Plain \cup Bytes
    \cup {[py |-> "npscalar", npy |-> npy, width |-> IF npy \in ComplexTypes THEN 2 ELSE 1] :
             npy \in {row[2] : row \in ToSet(h5_py_type_table)}}
    \cup {[py |-> kind] : kind \in {"float", "bool", "int", "bigint", "complex", "other"}}
    \cup {[py |-> "str", val |-> s] : s \in {<<>>, <<a, b>>}}

MCScalars == {"bool", "schar", "int", "long", "float", "double", "cfloat", "cdouble", "dcplx"}

MCVariants ==
    {<<"int", "double", "string">>, <<"double", "cdouble">>, <<"cdouble", "double">>, <<"long", "llong">>}

MCTexts == {<<>>, <<a>>, <<a, nul, b>>}
MCTextLists == {<<>>, <<<<>>>>, <<<<a>>, <<>>, <<b, a>>>>, <<<<a, nul, b>>, <<b>>>>}
MCTextTables ==
    {<<>>, <<<<>>, <<>>>>, <<<<<<a>>>>, <<<<b, a>>, <<b>>, <<a>>>>>>,
     <<<<<<a>>, <<a, b>>>>, <<<<nul, a>>, <<>>>>, <<<<>>, <<b>>>>>>}

MCSlabs ==
    {Everything,
     Slab(<<0>>, <<2>>, <<2>>, <<1>>), Slab(<<1>>, <<1>>, <<2>>, <<1>>), Slab(<<0>>, <<1>>, <<2>>, <<2>>),
     Slab(<<2>>, <<2>>, <<2>>, <<1>>),
     Slab(<<0, 1>>, <<1, 1>>, <<2, 1>>, <<1, 1>>), Slab(<<0, 0>>, <<1, 2>>, <<2, 2>>, <<1, 1>>),
     Slab(<<1, 0>>, <<1, 1>>, <<1, 1>>, <<1, 3>>), Slab(<<0, 0>>, <<1, 1>>, <<1, 0>>, <<1, 1>>),
     Slab(<<0, 0>>, <<1, 3>>, <<1, 1>>, <<2, 2>>)}

Views ==
    {Array("DOUBLE", <<2>>, <<3>>, 1), Array("DOUBLE", <<2, 2>>, <<2, 1>>, 1), Array("DOUBLE", <<2, 2>>, <<6, 2>>, 1),
     Array("DOUBLE", <<1, 3>>, <<3, 1>>, 1), Array("DOUBLE", <<2>>, <<0>>, 1), NewArray("INT", <<2>>),
     Array("DOUBLE", <<0>>, <<1>>, 1)}

MCSlices == Views \X MCSlabs

MCTargets == Views \cup {Array("DOUBLE", <<2, 3>>, <<6, 2>>, 1), Array("INT", <<3>>, <<2>>, 1), NewArray("DOUBLE", <<3, 2>>),
                         Array("FLOAT", <<2, 2, 2>>, <<12, 4, 1>>, 1), Array("DOUBLE", <<2, 3>>, <<1, 2>>, 1)}

Pairs(extent) ==
    Dataset(hid_t_of.dcplx, extent, [i \in 1..Product(extent) |-> <<2 * i - 2, 2 * i - 1>>], FALSE, <<>>)

MCForeignObjects ==
    <<OldComplex(0, 1), Pairs(<<>>), Pairs(<<0>>), Pairs(<<3>>), Pairs(<<2, 1>>), Nothing,
     Dataset(Float(2), <<3>>, <<0, 1, 2>>, FALSE, <<>>), Dataset(Float(2), <<>>, <<0>>, FALSE, <<>>),
     Dataset(String(3), <<>>, <<<<a, nul, nul>>>>, FALSE, <<>>),
     Dataset(String(3), <<2, 1, 1>>, <<<<a, b, nul>>, <<b, nul, nul>>>>, FALSE, <<>>)>>

=============================================================================
