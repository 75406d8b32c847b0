------------------------------ MODULE PyValues ------------------------------
(***************************************************************************)
(* Python and numpy values as datasets (python/h5/h5py_io.cpp), on top of  *)
(* h5_write and h5_read of numbers (c++/h5/scalar.hpp, stl/vector.hpp).    *)
(*                                                                         *)
(* A numpy array is its type, its shape, and its strides counted in        *)
(* numbers: an element of a complex array, or of an array of byte strings, *)
(* is several of them in a row, its width.                                 *)
(***************************************************************************)
EXTENDS Strings

Memory(cells) == [is |-> "memory", cells |-> cells]

-----------------------------------------------------------------------------
(* Numbers in C++. *)

(* A complex number as a subgroup of its parts, as it once was. *)
OldComplex(re, im) == [is |-> "subgroup", r |-> re, i |-> im]

(* Seeded fault: pairs are not looked for. *)
h5_read_scalar_nopair(T, o) ==
    IF T \in is_complex /\ o.is = "subgroup" THEN Memory([c \in 0..1 |-> IF c = 0 THEN o.r ELSE o.i])
    ELSE read(o, [array_view_from_scalar(T) EXCEPT !.cplx = FALSE], Everything)

(* Complex numbers are found in a subgroup, in a pair and in an array. *)
h5_read_scalar(T, o) ==
    CASE T \in is_complex /\ o.is = "subgroup" ->
           Memory([c \in 0..1 |-> IF c = 0 THEN o.r ELSE o.i])
      [] T \in is_complex /\ o.is = "dataset" /\ hdf5_type_equal(o.ty, hid_t_of.dcplx) ->
           read(o, array_view_from_scalar("dcplx"), Everything)
      [] OTHER -> read(o, array_view_from_scalar(T), Everything)

(* Seeded fault: a vector is read from a dataset of any rank. *)
h5_read_vector_anyrank(T, o) ==
    IF o.is # "dataset" THEN Failed
    ELSE read(o, array_view_from_vector(T, o.lengths[1]), Everything)

(* A vector gets the length of the dataset; complex ones have rank 2. *)
h5_read_vector(T, o) ==
    IF o.is # "dataset" THEN Failed
    ELSE IF T \in is_complex /\ hdf5_type_equal(o.ty, hid_t_of.dcplx)
           THEN IF Len(o.lengths) # 1 THEN Failed
                ELSE read(o, array_view_from_vector("dcplx", o.lengths[1]), Everything)
         ELSE IF Len(o.lengths) # (IF T \in is_complex THEN 2 ELSE 1) THEN Failed
                ELSE read(o, array_view_from_vector(T, o.lengths[1]), Everything)

-----------------------------------------------------------------------------
(* Attributes of any type, and std::variant. *)

Text == "string"

write_scalar_attribute(old, T) == write_attribute(old, array_view_from_scalar(T))

read_scalar_attribute(T, a) == read_attribute(a, array_view_from_scalar(T))

(* h5_read_attribute<T>: the overload for T. *)
h5_read_attribute(T, a) ==
    IF T = Text THEN read_string_attribute(a) ELSE read_scalar_attribute(T, a)

get_hdf5_attribute_type(a) == a.ty

Alternative(i, m) == [is |-> "alternative", index |-> i, value |-> m]

(* A variant is written as the alternative it holds; s is the text of it.  *)
write_variant_attribute(old, alternatives, i, s) ==
    IF alternatives[i] = Text THEN write_string_attribute(old, s)
    ELSE write_scalar_attribute(old, alternatives[i])

(* The first alternative with the datatype of the attribute is tried.      *)
read_variant_attribute(alternatives, a) ==
    LET fits == {i \in DOMAIN alternatives :
                    hdf5_type_equal(hid_t_of[alternatives[i]], get_hdf5_attribute_type(a))}
        i == CHOOSE i \in fits : \A j \in fits : i <= j
    IN  IF a = Nothing \/ fits = {} THEN Failed
        ELSE IF h5_read_attribute(alternatives[i], a) = Failed THEN Failed
        ELSE Alternative(i, h5_read_attribute(alternatives[i], a))

-----------------------------------------------------------------------------
(* Types. *)

(* The first row that fits is taken. *)
h5_py_type_table ==
    << <<"char", "STRING">>, <<"schar", "BYTE">>, <<"uchar", "UBYTE">>, <<"bool", "BOOL">>,
       <<"short", "SHORT">>, <<"ushort", "USHORT">>, <<"int", "INT">>, <<"uint", "UINT">>,
       <<"long", "LONG">>, <<"ulong", "ULONG">>, <<"llong", "LONGLONG">>, <<"ullong", "ULONGLONG">>,
       <<"float", "FLOAT">>, <<"double", "DOUBLE">>, <<"ldouble", "LONGDOUBLE">>,
       <<"cfloat", "CFLOAT">>, <<"cdouble", "CDOUBLE">>, <<"cldouble", "CLONGDOUBLE">> >>

Unsupported == "unsupported"

WithParts == [FLOAT |-> "CFLOAT", DOUBLE |-> "CDOUBLE", LONGDOUBLE |-> "CLONGDOUBLE"]

(* Seeded fault: every floating-point type is taken for double. *)
h5_to_npy_double(t, cplx) ==
    IF t.class = "float" THEN IF cplx THEN "CDOUBLE" ELSE "DOUBLE"
    ELSE LET n == SelectInSeq(h5_py_type_table, LAMBDA row : hdf5_type_equal(hid_t_of[row[1]], t))
         IN  IF n = 0 THEN Unsupported ELSE h5_py_type_table[n][2]

h5_to_npy(t, cplx) ==
    LET n == SelectInSeq(h5_py_type_table, LAMBDA row : hdf5_type_equal(hid_t_of[row[1]], t))
        npy == h5_py_type_table[n][2]
    IN  CASE n = 0 -> Unsupported
          [] n # 0 /\ cplx /\ npy \in DOMAIN WithParts -> WithParts[npy]
          [] OTHER -> npy

Supported(npy) == npy \in {row[2] : row \in ToSet(h5_py_type_table)}

npy_to_h5(npy) ==
    hid_t_of[h5_py_type_table[SelectInSeq(h5_py_type_table, LAMBDA row : row[2] = npy)][1]]

ComplexTypes == {"CFLOAT", "CDOUBLE", "CLONGDOUBLE"}

-----------------------------------------------------------------------------
(* numpy arrays. *)

Array(npy, extent, strides, width) ==
    [py |-> "array", npy |-> npy, shape |-> extent, strides |-> strides, width |-> width]

CStrides(extent, width) == [u \in DOMAIN extent |-> Pitch(extent, u) * width]

(* A new array of its own memory, in C order. *)
NewArray(npy, extent) ==
    LET width == IF npy \in ComplexTypes THEN 2 ELSE 1
    IN  Array(npy, extent, CStrides(extent, width), width)

(* The numbers of an array in C order, by their addresses. *)
Elements(arr) ==
    LET number(k) == Dot(IndexOf(arr.shape, k \div arr.width), arr.strides) + (k % arr.width)
    IN  [k \in 1..(Product(arr.shape) * arr.width) |-> number(k - 1)]

(* Shape and strides as they are handed on: the trailing stride is left 0. *)
av_shape(arr) == IF arr.npy \in ComplexTypes THEN Append(arr.shape, 2) ELSE arr.shape
av_strides(arr) == IF arr.npy \in ComplexTypes THEN Append(arr.strides, 0) ELSE arr.strides

(* Of the parent's shape, the trailing dimension is not taken over. *)
make_av_from_npy(arr) ==
    LET rank == Len(arr.shape)
        v == ArrayView(npy_to_h5(arr.npy), rank, arr.npy \in ComplexTypes)
        found == get_parent_shape_and_h5_strides(av_strides(arr), av_shape(arr))
        filled(s, t) == [u \in DOMAIN s |-> IF u <= rank THEN t[u] ELSE s[u]]
    IN  [v EXCEPT !.parent_shape = filled(@, found.parent_shape),
                  !.slab.stride = filled(@, found.strides),
                  !.slab.count = filled(@, arr.shape)]

-----------------------------------------------------------------------------
(* h5_write_bare: what becomes of the object old under the key. *)

Died(o) == [ended |-> "died", obj |-> o]

write_array(old, arr) ==
    CASE ~Supported(arr.npy) -> Thrown(old)
      [] Supported(arr.npy) /\ DividesByZero(av_strides(arr), av_shape(arr)) -> Died(old)
      [] OTHER -> write(make_av_from_npy(arr), TRUE)

write_scalar(T) == write(array_view_from_scalar(T), FALSE)

CTypeOf == [float |-> "double", bool |-> "bool", int |-> "long", complex |-> "cdouble"]

(* An int beyond 64 bits is written as -1 before its error is raised. *)
h5_write_bare(old, ob) ==
    CASE ob.py = "array" -> write_array(old, ob)
      [] ob.py = "npscalar" -> write_array(old, Array(ob.npy, <<>>, <<>>, ob.width))
      [] ob.py \in DOMAIN CTypeOf -> write_scalar(CTypeOf[ob.py])
      [] ob.py = "bigint" -> Thrown([write_scalar("long").obj EXCEPT !.items = <<-1>>])
      [] ob.py = "str" -> Returned(write_string(ob.val))
      [] ob.py = "other" -> Thrown(old)

-----------------------------------------------------------------------------
(* h5_read_bare *)

Raised == [py |-> "exception"]

PyNumber(kind, m) == IF m = Failed THEN Raised ELSE [py |-> kind, cells |-> m.cells]

(* The integers of one byte are not in the list. *)
IntTypes == {"short", "int", "long", "llong", "ushort", "uint", "ulong", "ullong"}

h5_read_any_int(d) ==
    IF d.ty \notin {hid_t_of[T] : T \in IntTypes} THEN Raised
    ELSE PyNumber("int", h5_read_scalar(CHOOSE T \in IntTypes : hid_t_of[T] = d.ty, d))

read_bare_scalar(d) ==
    CASE d.ty.class = "float" -> PyNumber("float", h5_read_scalar("double", d))
      [] d.ty.class = "integer" -> h5_read_any_int(d)
      [] d.ty = hid_t_of.bool -> PyNumber("bool", h5_read_scalar("bool", d))
      [] d.ty.class = "string" -> [py |-> "str", val |-> read_string(d).val]
      [] d.ty = hid_t_of.dcplx -> PyNumber("complex", h5_read_scalar("dcplx", d))
      [] OTHER -> Raised

read_bare_strings(d) ==
    CASE Len(d.lengths) = 1 -> [py |-> "list", val |-> from_char_buf(read_char_buf(d))]
      [] Len(d.lengths) = 2 -> [py |-> "table", val |-> table_from_char_buf(read_char_buf(d))]
      [] OTHER -> Raised

read_bare_array(d) ==
    LET npy == IF d.ty = hid_t_of.dcplx THEN "CDOUBLE" ELSE h5_to_npy(d.ty, d.cplx)
        arr == NewArray(npy, IF d.cplx THEN Front(d.lengths) ELSE d.lengths)
        m == read(d, make_av_from_npy(arr), Everything)
    IN  IF npy = Unsupported THEN Raised
        ELSE IF m = Failed THEN Raised
        ELSE [py |-> "array", npy |-> npy, shape |-> arr.shape,
              items |-> [k \in 1..Cardinality(DOMAIN m.cells) |-> m.cells[k - 1]]]

h5_read_bare(d) ==
    CASE d.is # "dataset" -> Raised
      [] d.is = "dataset" /\ d.lengths = <<>> -> read_bare_scalar(d)
      [] d.is = "dataset" /\ Len(d.lengths) = 1 /\ d.cplx -> PyNumber("complex", h5_read_scalar("cdouble", d))
      [] d.is = "dataset" /\ d.lengths # <<>> /\ d.ty.class = "string" -> read_bare_strings(d)
      [] OTHER -> read_bare_array(d)
=============================================================================
