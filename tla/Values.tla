------------------------------- MODULE Values -------------------------------
(***************************************************************************)
(* One key of a group and one attribute, which Python, C++ and other       *)
(* programs write in turn: h5_write_bare, HDFArchive, h5_write, write_slice *)
(* and write_attribute.  What each reader gets is a function of the state, *)
(* and the properties are about it.                                        *)
(***************************************************************************)
EXTENDS PyValues

CONSTANTS PyObjects,    \* what Python programs store
          Scalars,      \* C++ types of the numbers that are written
          Lengths,      \* lengths of the vectors that are written
          Texts,        \* strings
          TextLists,    \* std::vector<std::string>
          TextTables,   \* std::vector<std::vector<std::string>>
          Variants,     \* lists of the alternatives of std::variant
          Slices,       \* pairs <<array, slab>> given to write_slice
          Targets,      \* arrays that are read into
          ForeignObjects,  \* what other programs leave under the key, a list
          MaxCalls      \* bound: number of calls

VARIABLES obj,          \* the object under the key
          attr,         \* the attribute
          made,         \* the call that made it
          last,         \* the last call, and how it ended
          calls         \* number of calls so far

vars == <<obj, attr, made, last, calls>>

Init ==
    /\ obj = Nothing
    /\ attr = Nothing
    /\ made = [op |-> "none"]
    /\ last = [op |-> "none"]
    /\ calls = 0

(* The numbers of an array are copied to new memory in C order. *)
Copied(ob) == [ob EXCEPT !.strides = CStrides(ob.shape, ob.width)]

Counted == calls < MaxCalls /\ calls' = calls + 1

Stores(r, call) ==
    /\ Counted
    /\ obj' = r.obj
    /\ last' = [call EXCEPT !.ended = r.ended]
    /\ UNCHANGED <<attr, made>>

WriteBare(ob) ==
    Stores(h5_write_bare(obj, ob), [op |-> "bare", ob |-> ob, ended |-> "not yet"])

(* HDFArchive stores arrays by way of a copy. *)
SetItem(ob) ==
    /\ ob.py = "array"
    /\ Stores(h5_write_bare(obj, Copied(ob)), [op |-> "bare", ob |-> Copied(ob), ended |-> "not yet"])

WriteScalar(T) ==
    Stores(write_scalar(T), [op |-> "scalar", type |-> T, ended |-> "not yet"])

WriteVector(T, n) ==
    Stores(write(array_view_from_vector(T, n), TRUE), [op |-> "vector", type |-> T, ended |-> "not yet"])

WriteText(s) ==
    Stores(Returned(write_string(s)), [op |-> "text", val |-> s, ended |-> "not yet"])

WriteTextList(v) ==
    Stores(Returned(write_char_buf(to_char_buf(v))), [op |-> "list", val |-> v, ended |-> "not yet"])

WriteTextTable(v) ==
    Stores(Returned(write_char_buf(table_to_char_buf(v))), [op |-> "table", val |-> v, ended |-> "not yet"])

(* Slabs are of the rank of the dataset. *)
WriteSlice(arr, sl) ==
    /\ obj.is = "dataset" => empty(sl) \/ Len(obj.lengths) = Len(sl.count)
    /\ Stores(write_slice(obj, make_av_from_npy(arr), sl),
              [op |-> "slice", arr |-> arr, slab |-> sl, ended |-> "not yet"])

WriteForeign(o) ==
    Stores(Returned(o), [op |-> "foreign", ended |-> "not yet"])

MakesAttribute(r, call) ==
    /\ Counted
    /\ attr' = r.obj
    /\ last' = [call EXCEPT !.ended = r.ended]
    /\ made' = IF r.ended = "returned" THEN call ELSE made
    /\ UNCHANGED obj

WriteAttribute(T) ==
    MakesAttribute(write_scalar_attribute(attr, T), [op |-> "attribute", type |-> T, ended |-> "not yet"])

WriteVariantAttribute(alternatives, i, s) ==
    /\ i \in DOMAIN alternatives
    /\ MakesAttribute(write_variant_attribute(attr, alternatives, i, s),
                      [op |-> "variant attribute", alternatives |-> alternatives, index |-> i, val |-> s,
                       ended |-> "not yet"])

WriteTextAttribute(s) ==
    MakesAttribute(write_string_attribute(attr, s), [op |-> "text attribute", val |-> s, ended |-> "not yet"])

WriteListAttribute(v) ==
    MakesAttribute(write_list_attribute(attr, v), [op |-> "list attribute", val |-> v, ended |-> "not yet"])

WriteTableAttribute(v) ==
    MakesAttribute(write_table_attribute(attr, v), [op |-> "table attribute", val |-> v, ended |-> "not yet"])

Next ==
    \/ \E ob \in PyObjects : WriteBare(ob)
    \/ \E ob \in PyObjects : SetItem(ob)
    \/ \E T \in Scalars : WriteScalar(T)
    \/ \E T \in Scalars \ {"bool"}, n \in Lengths : WriteVector(T, n)
    \/ \E s \in Texts : WriteText(s)
    \/ \E v \in TextLists : WriteTextList(v)
    \/ \E v \in TextTables : WriteTextTable(v)
    \/ \E s \in Slices : WriteSlice(s[1], s[2])
    \/ \E i \in DOMAIN ForeignObjects : WriteForeign(ForeignObjects[i])
    \/ \E T \in Scalars \ {"dcplx"} : WriteAttribute(T)
    \/ \E s \in Texts : WriteTextAttribute(s)
    \/ \E v \in TextLists : WriteListAttribute(v)
    \/ \E v \in TextTables : WriteTableAttribute(v)
    \/ \E alternatives \in Variants, i \in 1..3, s \in Texts : WriteVariantAttribute(alternatives, i, s)

Spec == Init /\ [][Next]_vars

-----------------------------------------------------------------------------

WellFormed(d) ==
    /\ Len(d.items) = Product(d.lengths)
    /\ d.chunk # <<>> => Len(d.chunk) = Len(d.lengths)
    /\ d.cplx => d.lengths # <<>> /\ Last(d.lengths) = 2

TypeOK ==
    /\ obj.is \in {"nothing", "dataset", "subgroup"}
    /\ obj.is = "dataset" => WellFormed(obj)
    /\ attr # Nothing => WellFormed(attr)

Wrote(op) == last.op = op /\ last.ended = "returned"

InCOrder(arr) == Product(arr.shape) # 0 => arr.strides = CStrides(arr.shape, arr.width)

(* What an array in Python can be without losing something: complex arrays *)
(* in C order, and no byte strings.                                        *)
Sound(arr) == arr.npy # "STRING" /\ (arr.npy \in ComplexTypes => InCOrder(arr))

(* A parent shape and strides found for a numpy array, whatever its        *)
(* layout, either make HDF5 refuse the selection or select the elements of *)
(* the array, all of them and in C order (array_interface.cpp:61-98).      *)
ArraysExact ==
    Wrote("bare") /\ last.ob.py = "array" =>
        (Sound(last.ob) => obj.items = Elements(last.ob))

(* An array that is read into holds the dataset's elements in C order, and *)
(* no other cell of its memory is touched (array_interface.cpp:211-256).   *)
PlacedExactly ==
    obj.is = "dataset" =>
        \A arr \in Targets :
            LET m == read(obj, make_av_from_npy(arr), Everything)
            IN  m # Failed /\ arr.npy \notin ComplexTypes =>
                    /\ DOMAIN m.cells = ToSet(Elements(arr))
                    /\ \A k \in DOMAIN Elements(arr) : m.cells[Elements(arr)[k]] = obj.items[k]

(* Types whose arrays or numbers h5_read_bare gives back. *)
ReadableArrays == {row[2] : row \in ToSet(h5_py_type_table)} \ {"STRING", "BYTE", "LONGLONG", "ULONGLONG"}
ReadableNumbers == ReadableArrays \ {"UBYTE"}

(* What an object stored by Python comes back as: a number of numpy, or an *)
(* array of rank 0, as a number of Python.                                 *)
Kind(npy) ==
    CASE npy = "BOOL" -> "bool"
      [] npy \in {"FLOAT", "DOUBLE", "LONGDOUBLE"} -> "float"
      [] npy \in ComplexTypes -> "complex"
      [] OTHER -> "int"

Parts(kind) == [c \in (IF kind = "complex" THEN 0..1 ELSE {0}) |-> c]

ComesBack(ob) ==
    CASE ob.py \in DOMAIN CTypeOf -> [py |-> ob.py, cells |-> Parts(ob.py)]
      [] ob.py = "str" -> [py |-> "str", val |-> CString(ob.val)]
      [] ob.py = "npscalar" \/ (ob.py = "array" /\ ob.shape = <<>>) ->
           [py |-> Kind(ob.npy), cells |-> Parts(Kind(ob.npy))]
      [] ob.py = "array" /\ ob.shape # <<>> ->
           [py |-> "array", npy |-> ob.npy, shape |-> ob.shape, items |-> Elements(ob)]

(* What Python stores without an error is what Python reads, of the types  *)
(* that can be read at all and the layouts that are written exactly        *)
(* (h5py_io.cpp:146-245).                                                  *)
PyRoundTrip ==
    Wrote("bare") =>
        LET ob == last.ob
        IN  \/ ob.py = "npscalar" /\ ob.npy \notin ReadableNumbers
            \/ ob.py = "array" /\ ob.npy \notin (IF ob.shape = <<>> THEN ReadableNumbers ELSE ReadableArrays)
            \/ ob.py = "array" /\ ~Sound(ob)
            \/ h5_read_bare(obj) = ComesBack(ob)

(* A complex array that is stored without an error is stored as it is, of  *)
(* whatever layout: "numpy arrays are supported" (h5py_io.hpp:25).         *)
ComplexArraysExact ==
    Wrote("bare") /\ last.ob.py = "array" =>
        (last.ob.npy \in ComplexTypes => obj.items = Elements(last.ob))

(* No chunk is larger than HDF5 allows, and none is empty, whatever the    *)
(* extents multiply up to (array_interface.cpp:125-141).                   *)
ChunkFits ==
    obj.is = "dataset" /\ obj.chunk # <<>> =>
        /\ \A u \in DOMAIN obj.chunk : obj.chunk[u] >= 1
        /\ obj.ty.size * Product(obj.chunk) <= MaxChunk

(* A complex number is found in each of the three forms it was ever        *)
(* written in: two numbers, a pair, a subgroup (scalar.hpp:85-114); arrays *)
(* of pairs become complex arrays (array_interface.cpp:227-235).           *)
ComplexEveryWay ==
    /\ \/ obj.is = "subgroup"
       \/ (obj.is = "dataset" /\ obj.lengths = <<>> /\ obj.ty = hid_t_of.dcplx)
       \/ (last.op = "scalar" /\ last.type \in is_complex)
       \/ (Wrote("bare") /\ last.ob.py = "complex")
       => h5_read_scalar("cdouble", obj) = Memory(Parts("complex"))
    /\ obj.is = "dataset" /\ obj.lengths # <<>> /\ obj.ty = hid_t_of.dcplx
       => h5_read_bare(obj) = [py |-> "array", npy |-> "CDOUBLE", shape |-> obj.lengths,
                               items |-> [k \in 1..(2 * Len(obj.items)) |-> k - 1]]

(* A vector of numbers is read by its own type as it was written, whether  *)
(* complex numbers are parts or pairs, and by no type of another class.    *)
VectorsExact ==
    Wrote("vector") =>
        \A T \in Scalars :
            LET m == h5_read_vector(T, obj)
            IN  IF T \in is_complex /\ last.type = "dcplx"
                  THEN m = Memory([c \in 0..(2 * Len(obj.items) - 1) |-> obj.items[1 + (c \div 2)][1 + (c % 2)]])
                ELSE IF hid_t_of[T].class = obj.ty.class /\ (T \in is_complex <=> last.type \in is_complex)
                  THEN T = "dcplx" \/ m = Memory([c \in 0..(Len(obj.items) - 1) |-> c])
                ELSE m = Failed

(* A table of strings with the short rows filled up. *)
Rectangular(table) ==
    LET width == Largest({0} \cup {Len(row) : row \in ToSet(table)})
        entry(row, j) == IF j <= Len(row) THEN CString(row[j]) ELSE <<>>
    IN  [i \in DOMAIN table |-> [j \in 1..width |-> entry(table[i], j)]]

(* Lists and tables of strings come back, to C++ and to Python, with every *)
(* string up to its first NUL, and short rows of a table filled up with    *)
(* empty strings (vector.cpp:33-108).                                      *)
TextsRoundTrip ==
    /\ Wrote("list") =>
         LET expected == [i \in DOMAIN last.val |-> CString(last.val[i])]
         IN  /\ from_char_buf(read_char_buf(obj)) = expected
             /\ h5_read_bare(obj) = [py |-> "list", val |-> expected]
    /\ Wrote("table") => h5_read_bare(obj) = [py |-> "table", val |-> Rectangular(last.val)]

(* Whatever is tried on an attribute afterwards, it reads as what the call *)
(* that made it wrote, and numbers only by views of their own type and     *)
(* rank (array_interface.cpp:197-279, string.cpp:102-139, 250-285); the    *)
(* reader of a string ends the process rather than take a number for text, *)
(* and raises for what is not of rank 0.  A variant comes back as the      *)
(* alternative it held, unless one before it has the same datatype: then   *)
(* as that one or not at all (variant.hpp:114-124).                        *)
AttributeExact ==
    /\ made.op = "attribute" =>
         \A T \in Scalars :
             h5_read_attribute(T, attr) =
                 IF (T \in is_complex <=> made.type \in is_complex) /\ hid_t_of[T] = hid_t_of[made.type]
                   THEN Memory(Parts(IF T \in is_complex THEN "complex" ELSE "real"))
                   ELSE Failed
    /\ made.op = "attribute" =>
         read_string_attribute(attr) = IF made.type \in is_complex THEN Failed ELSE Terminated
    /\ made.op = "text attribute" => read_string_attribute(attr) = [is |-> "string", val |-> CString(made.val)]
    /\ made.op = "list attribute" =>
         /\ read_string_attribute(attr) = Failed
         /\ read_list_attribute(attr) = [i \in DOMAIN made.val |-> CString(made.val[i])]
    /\ made.op = "table attribute" => read_table_attribute(attr) = Rectangular(made.val)
    /\ made.op = "variant attribute" =>
         LET T == made.alternatives[made.index]
             m == read_variant_attribute(made.alternatives, attr)
             hiding == {j \in 1..(made.index - 1) : hid_t_of[made.alternatives[j]] = hid_t_of[T]}
         IN  IF hiding # {} THEN m = Failed \/ m.index \in hiding
             ELSE m = Alternative(made.index,
                        IF T = Text THEN [is |-> "string", val |-> CString(made.val)]
                        ELSE Memory(Parts(IF T \in is_complex THEN "complex" ELSE "real")))
    /\ made.op = "none" => read_string_attribute(attr).val = <<>>

(* The elements of a dataset that a slab holds, by their indices. *)
Holds(sl, extent, i) ==
    \A u \in DOMAIN extent :
        \E n \in 0..(sl.count[u] - 1), b \in 0..(sl.block[u] - 1) :
            IndexOf(extent, i)[u] = sl.offset[u] + n * sl.stride[u] + b

(* write_slice either throws and changes nothing, or changes the elements  *)
(* that its slab holds and no other; reading the slab gives the array      *)
(* (array_interface.cpp:164-195).                                          *)
SliceLocal ==
    [][last'.op = "slice" =>
         LET sl == last'.slab
             arr == last'.arr
         IN  IF last'.ended = "thrown" \/ empty(sl) THEN obj' = obj
             ELSE /\ \A i \in DOMAIN obj.items :
                        Holds(sl, obj.lengths, i - 1) \/ obj'.items[i] = obj.items[i]
                  /\ LET m == read(obj', make_av_from_npy(arr), sl)
                     IN  \A c \in ToSet(Elements(arr)) : m.cells[c] = c
                  /\ [obj' EXCEPT !.items = obj.items] = obj]_vars
=============================================================================
