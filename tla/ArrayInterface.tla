--------------------------- MODULE ArrayInterface ---------------------------
(***************************************************************************)
(* h5::array_interface (c++/h5/array_interface.{hpp,cpp}): views on        *)
(* strided arrays in memory, and the datasets they are written to and read *)
(* from.                                                                   *)
(*                                                                         *)
(* A number is known by the address it was written from, counted in        *)
(* elements from the start of the view, so a dataset says which elements   *)
(* of memory went where.  The numbers are small enough to survive every    *)
(* conversion between the types of one class.  Strides are not negative.   *)
(***************************************************************************)
EXTENDS Datatypes, SequencesExt

CONSTANTS MaxChunk,     \* most bytes of a chunk; 2^32 - 1 in the code
          Fill          \* what an element reads as when its write failed

ASSUME ChunkAssumption == MaxChunk \in Nat

Product(s) == FoldLeft(LAMBDA p, x : p * x, 1, s)

(* Number of elements that one step in dimension u passes over. *)
Pitch(extent, u) == Product(SubSeq(extent, u + 1, Len(extent)))

(* The index of element i, from 0, of an array in C order. *)
IndexOf(extent, i) ==
    [u \in DOMAIN extent |-> (i \div Pitch(extent, u)) % extent[u]]

Dot(s, t) == SumFunction([u \in DOMAIN s |-> s[u] * t[u]])

-----------------------------------------------------------------------------
(* Hyperslabs. *)

Slab(offset, stride, count, block) ==
    [offset |-> offset, stride |-> stride, count |-> count, block |-> block]

(* Seeded fault: the trailing dimension is as empty as the others. *)
HyperslabEmpty(rank, cplx) ==
    LET dims == 1..(IF cplx THEN rank + 1 ELSE rank)
        all(x) == [u \in dims |-> x]
    IN  Slab(all(0), all(1), all(0), all(1))

(* A rank beyond the array's is the trailing dimension of the two parts of *)
(* complex numbers.                                                        *)
Hyperslab(rank, cplx) ==
    LET dims == 1..(IF cplx THEN rank + 1 ELSE rank)
        all(x) == [u \in dims |-> x]
    IN  Slab(all(0), all(1), [u \in dims |-> IF u > rank THEN 2 ELSE 0], all(1))

Everything == Hyperslab(0, FALSE)

empty(sl) == sl.count = <<>>
shape(sl) == [u \in DOMAIN sl.count |-> sl.count[u] * sl.block[u]]
size(sl) == Product(shape(sl))

(* Seeded fault: blocks follow one another. *)
PositionDense(sl, u, j) == sl.offset[u] + j

(* Where a slab finds the j-th of its elements in dimension u. *)
Position(sl, u, j) ==
    sl.offset[u] + (j \div sl.block[u]) * sl.stride[u] + (j % sl.block[u])

(* H5Sselect_hyperslab accepts the slab. *)
Selectable(sl) ==
    \A u \in DOMAIN sl.count :
        /\ sl.stride[u] > 0
        /\ sl.count[u] > 1 => sl.stride[u] >= sl.block[u]

(* H5Dwrite and H5Dread want the selection inside the extent. *)
Within(sl, extent) ==
    size(sl) # 0 =>
        \A u \in DOMAIN sl.count : Position(sl, u, shape(sl)[u] - 1) < extent[u]

(* The addresses a slab selects in an array in C order, in their order. *)
Selected(sl, extent) ==
    LET pitch == [u \in DOMAIN extent |-> Pitch(extent, u)]
        place(i) == [u \in DOMAIN extent |-> Position(sl, u, IndexOf(shape(sl), i)[u])]
    IN  [i \in 1..size(sl) |-> Dot(place(i - 1), pitch)]

-----------------------------------------------------------------------------
(* Views. *)

ArrayView(ty, rank, cplx) ==
    LET slab == Hyperslab(rank, cplx)
    IN  [ty |-> ty, slab |-> slab, cplx |-> cplx,
         parent_shape |-> [u \in DOMAIN slab.count |-> IF u > rank THEN 2 ELSE 0]]

view_rank(v) == Len(v.slab.count)

(* A scalar has rank 0, or 1 if it is complex; a vector one more. *)
array_view_from_scalar(T) == ArrayView(hid_t_of[T], 0, T \in is_complex)

array_view_from_vector(T, n) ==
    LET v == ArrayView(hid_t_of[T], 1, T \in is_complex)
    IN  [v EXCEPT !.slab.count[1] = n, !.parent_shape[1] = n]

(* The memory dataspace of a view; a scalar has one element. *)
MemoryOk(v) == view_rank(v) = 0 \/ Selectable(v.slab)
MemoryWithin(v) == view_rank(v) = 0 \/ Within(v.slab, v.parent_shape)
Cells(v) == IF view_rank(v) = 0 THEN <<0>> ELSE Selected(v.slab, v.parent_shape)

(* What is in those cells: of a pair, its two numbers. *)
Numbers(v) ==
    IF v.ty # hid_t_of.dcplx THEN Cells(v)
    ELSE [i \in DOMAIN Cells(v) |-> <<2 * Cells(v)[i], 2 * Cells(v)[i] + 1>>]

(* Greatest common divisor of some numbers, 0 if all of them are. *)
Gcd(s) ==
    LET divides(d) == \A i \in DOMAIN s : s[i] % d = 0
        common == {d \in 1..FoldLeft(+, 0, s) : divides(d)}
    IN  IF common = {} THEN 0 ELSE CHOOSE d \in common : \A e \in common : e <= d

(* The division below is by the greatest common divisor of the strides     *)
(* that are left: undefined, and fatal in practice, when all are zero.     *)
DividesByZero(np_strides, view_shape) ==
    /\ Product(view_shape) # 0
    /\ Len(np_strides) > 1 /\ np_strides[1] = 0

(* Seeded fault: the strides before u need not be multiples. *)
divisor_own(strides, u) ==
    IF strides[u] = 0 THEN 1 ELSE strides[u]

(* The size of dimension u + 1 of the parent, which divides the strides of *)
(* the dimensions up to u.                                                 *)
divisor(strides, u) == Gcd(SubSeq(strides, 1, u))

(* left[u] is h5_strides before the division for dimension u - 1. *)
get_parent_shape_and_h5_strides(np_strides, view_shape) ==
    LET rank == Len(np_strides)
        left[u \in 1..rank] ==
            IF u = rank THEN np_strides
            ELSE [v \in 1..rank |-> IF v > u THEN left[u + 1][v]
                                    ELSE left[u + 1][v] \div divisor(left[u + 1], u)]
    IN  CASE rank = 0 -> [parent_shape |-> <<>>, strides |-> <<>>]
          [] rank > 0 /\ Product(view_shape) = 0 ->
               [parent_shape |-> [u \in 1..rank |-> 0], strides |-> [u \in 1..rank |-> 1]]
          [] OTHER ->
               [parent_shape |-> [u \in 1..rank |->
                    IF u = 1 THEN view_shape[1] * left[1][1] ELSE divisor(left[u], u - 1)],
                strides |-> left[1]]

-----------------------------------------------------------------------------
(* Datasets. *)

Dataset(ty, lengths, items, cplx, chunk) ==
    [is |-> "dataset", ty |-> ty, lengths |-> lengths, items |-> items, cplx |-> cplx, chunk |-> chunk]

Nothing == [is |-> "nothing"]

Returned(o) == [ended |-> "returned", obj |-> o]
Thrown(o) == [ended |-> "thrown", obj |-> o]

(* Seeded fault: the size of the element is left out. *)
room_elements(ty, chunk, i) == MaxChunk \div Pitch(chunk, i)

(* The most that dimension i of a chunk may be, after those that follow. *)
room(ty, chunk, i) == MaxChunk \div (ty.size * Pitch(chunk, i))

ChunkDims(ty, lengths) ==
    LET n == Len(lengths)
        clamp(x, hi) == IF x < 1 THEN 1 ELSE IF x > hi THEN hi ELSE x
        dims[i \in 1..n] ==       \* after the step for dimension i
            LET later == IF i = n THEN [u \in 1..n |-> 1] ELSE dims[i + 1]
            IN  [later EXCEPT ![i] = clamp(lengths[i], room(ty, later, i))]
    IN  IF n = 0 THEN <<>> ELSE dims[1]

(* write: the old object goes first, whatever happens then. *)
write(v, compress) ==
    LET lengths == shape(v.slab)
        made(items, marked) ==
            Dataset(v.ty, lengths, items, marked, IF compress THEN ChunkDims(v.ty, lengths) ELSE <<>>)
        blank == made([i \in 1..Product(lengths) |-> Fill], FALSE)
    IN  IF ~MemoryOk(v) \/ ~MemoryWithin(v) THEN Thrown(blank)
        ELSE Returned(made(Numbers(v), v.cplx))

(* Seeded fault: the file's dataspace is selected in the order of memory. *)
Overwritten_contiguous(d, v, sl) ==
    [d EXCEPT !.items = [i \in DOMAIN @ |-> IF i <= size(sl) THEN Numbers(v)[i] ELSE @[i]]]

(* The elements of the view, in order, at the places the slab selects. *)
Overwritten(d, v, sl) ==
    LET place == Selected(sl, d.lengths)
        at(i) == CHOOSE j \in DOMAIN place : place[j] = i - 1
    IN  [d EXCEPT !.items = [i \in DOMAIN @ |->
            IF i - 1 \in {place[j] : j \in DOMAIN place} THEN Numbers(v)[at(i)] ELSE @[i]]]

write_slice(d, v, sl) ==
    CASE empty(sl) -> Returned(d)
      [] ~empty(sl) /\ d.is # "dataset" -> Thrown(d)
      [] ~empty(sl) /\ d.is = "dataset" ->
           IF /\ size(v.slab) = size(sl) /\ hdf5_type_equal(v.ty, d.ty)
              /\ Selectable(sl) /\ Within(sl, d.lengths) /\ MemoryOk(v) /\ MemoryWithin(v)
             THEN Returned(Overwritten(d, v, sl))
             ELSE Thrown(d)

(* A file may hold complex numbers as pairs: the view is then of pairs. *)
Retyped(v, d) ==
    IF v.cplx /\ hdf5_type_equal(d.ty, hid_t_of.dcplx)
      THEN [ty |-> hid_t_of.dcplx, cplx |-> FALSE, parent_shape |-> Front(v.parent_shape),
            slab |-> Slab(Front(v.slab.offset), Front(v.slab.stride),
                          Front(v.slab.count), Front(v.slab.block))]
      ELSE v

Failed == [is |-> "thrown"]

(* Numbers of another type of the same class are converted, after a        *)
(* warning: but a type without a name ends in an exception.                *)
Convertible(from, to) ==
    /\ from.class = to.class
    /\ hdf5_type_equal(to, from) \/ (has_name(to) /\ has_name(from))

(* read: what ends up at which address.  A pair takes two cells. *)
read(d, view, sl) ==
    LET v == Retyped(view, d)
        items == IF empty(sl) THEN d.items ELSE [i \in 1..size(sl) |-> d.items[Selected(sl, d.lengths)[i] + 1]]
        cell(a) == CHOOSE i \in DOMAIN items : Cells(v)[i] = a
        addresses == {Cells(v)[i] : i \in DOMAIN items}
    IN  IF \/ d.is # "dataset"
           \/ ~empty(sl) /\ ~(Selectable(sl) /\ Within(sl, d.lengths))
           \/ ~Convertible(d.ty, v.ty)
           \/ Len(items) # size(v.slab)
           \/ ~MemoryOk(v) \/ ~MemoryWithin(v)
          THEN Failed
          ELSE [is |-> "memory",
                cells |-> IF v.ty = hid_t_of.dcplx
                            THEN [c \in {2 * a + p : a \in addresses, p \in 0..1} |->
                                     items[cell(c \div 2)][1 + (c % 2)]]
                            ELSE [a \in addresses |-> items[cell(a)]]]

-----------------------------------------------------------------------------
(* Attributes: their dataspace is that of the parent array, and they are   *)
(* written and read without a selection.                                   *)

write_attribute(old, v) ==
    IF old # Nothing \/ ~MemoryOk(v) THEN Thrown(old)
    ELSE Returned(Dataset(v.ty, v.parent_shape, [i \in 1..Product(v.parent_shape) |-> i - 1], FALSE, <<>>))

(* Seeded fault: the ranks are not compared. *)
read_attribute_anyrank(a, v) ==
    IF a = Nothing \/ a.ty # v.ty THEN Failed
    ELSE [is |-> "memory", cells |-> [c \in 0..(Len(a.items) - 1) |-> a.items[c + 1]]]

(* Of the same rank and of the same type. *)
read_attribute(a, v) ==
    IF a = Nothing \/ Len(a.lengths) # view_rank(v) \/ a.ty # v.ty THEN Failed
    ELSE [is |-> "memory", cells |-> [c \in 0..(Len(a.items) - 1) |-> a.items[c + 1]]]
=============================================================================
