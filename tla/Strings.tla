------------------------------ MODULE Strings ------------------------------
(***************************************************************************)
(* Strings and vectors of strings as datasets (c++/h5/stl/string.cpp,      *)
(* c++/h5/stl/vector.cpp).  A string is a sequence of characters, of which *)
(* only NUL matters: it ends a C string and pads a string of fixed size.   *)
(***************************************************************************)
EXTENDS ArrayInterface

CONSTANT NUL

(* What strcpy and H5Dwrite see of a string: c_str() up to the first NUL. *)
CString(s) ==
    LET n == SelectInSeq(s, LAMBDA c : c = NUL)
    IN  IF n = 0 THEN s ELSE SubSeq(s, 1, n - 1)

(* A single string has variable size, and no trace of its NULs. *)
write_string(s) == Dataset(String(Variable), <<>>, <<CString(s)>>, FALSE, <<>>)

(* H5_ASSERT is not an exception: std::terminate ends the process, in every *)
(* build.                                                                  *)
Terminated == [is |-> "terminated"]

(* Strings of fixed size, by other programs, may end in NULs.  The rank is *)
(* checked by an exception, the class by an assertion.                     *)
read_string(d) ==
    CASE d.is # "dataset" \/ (d.is = "dataset" /\ d.lengths # <<>>) -> Failed
      [] d.is = "dataset" /\ d.lengths = <<>> /\ d.ty.class # "string" -> Terminated
      [] OTHER -> [is |-> "string", val |-> CString(d.items[1])]

-----------------------------------------------------------------------------
(* char_buf: slots of one size, filled up with NULs, and their dimensions. *)

Slot(x, n) == CString(x) \o [i \in 1..(n - Len(CString(x))) |-> NUL]

Largest(numbers) == CHOOSE m \in numbers : \A n \in numbers : n <= m

CharBuf(lengths, buffer) == [lengths |-> lengths, buffer |-> buffer]

(* The size of the slots is the datatype, the rest the dataspace. *)
dtype(cb) == String(Last(cb.lengths))
dspace(cb) == Front(cb.lengths)

(* Room for the longest string and a NUL. *)
SlotSize(strings) == Largest({1} \cup {Len(x) + 1 : x \in strings})

to_char_buf(v) ==
    LET n == SlotSize(ToSet(v))
    IN  CharBuf(<<Len(v), n>>, [i \in DOMAIN v |-> Slot(v[i], n)])

(* Shorter rows are filled up with empty slots. *)
table_to_char_buf(v) ==
    LET lv == Largest({0} \cup {Len(row) : row \in ToSet(v)})
        n == SlotSize(UNION {ToSet(row) : row \in ToSet(v)})
        slot(i, j) == IF j <= Len(v[i]) THEN Slot(v[i][j], n) ELSE Slot(<<>>, n)
    IN  CharBuf(<<Len(v), lv, n>>,
                [k \in 1..(Len(v) * lv) |-> slot(1 + ((k - 1) \div lv), 1 + ((k - 1) % lv))])

Trimmed(x) == SelectSeq(x, LAMBDA c : c # NUL)

from_char_buf(cb) == [i \in 1..cb.lengths[1] |-> Trimmed(cb.buffer[i])]

(* Seeded fault: rows are taken apart with the number of rows. *)
table_by_rows(cb) ==
    [i \in 1..cb.lengths[1] |->
        [j \in 1..cb.lengths[2] |-> Trimmed(cb.buffer[(i - 1) * cb.lengths[1] + j])]]

table_from_char_buf(cb) ==
    [i \in 1..cb.lengths[1] |->
        [j \in 1..cb.lengths[2] |-> Trimmed(cb.buffer[(i - 1) * cb.lengths[2] + j])]]

write_char_buf(cb) == Dataset(dtype(cb), dspace(cb), cb.buffer, FALSE, <<>>)

(* The class is checked by an assertion, and no rank is. *)
read_char_buf(d) ==
    CASE d.is # "dataset" -> Failed
      [] d.is = "dataset" /\ d.ty.class # "string" -> Terminated
      [] OTHER -> CharBuf(Append(d.lengths, d.ty.size), d.items)

-----------------------------------------------------------------------------
(* Attributes of strings.  One that is missing reads as the empty string,  *)
(* except for a char_buf; none is written over.                            *)

write_string_attribute(old, s) ==
    IF old # Nothing THEN Thrown(old) ELSE Returned(write_string(s))

read_string_attribute(a) ==
    IF a = Nothing THEN [is |-> "string", val |-> <<>>] ELSE read_string(a)

write_char_buf_attribute(old, cb) ==
    IF old # Nothing THEN Thrown(old) ELSE Returned(write_char_buf(cb))

read_char_buf_attribute(a) == read_char_buf(a)

(* Vectors and tables of strings go by way of a char_buf. *)
write_list_attribute(old, v) == write_char_buf_attribute(old, to_char_buf(v))
write_table_attribute(old, v) == write_char_buf_attribute(old, table_to_char_buf(v))

read_list_attribute(a) ==
    LET cb == read_char_buf_attribute(a) IN IF cb \in {Failed, Terminated} THEN cb ELSE from_char_buf(cb)

read_table_attribute(a) ==
    LET cb == read_char_buf_attribute(a)
    IN  IF cb \in {Failed, Terminated} THEN cb ELSE table_from_char_buf(cb)

(* h5_write_attribute_to_key passes the characters where HDF5 expects the  *)
(* address of a pointer to them: the attribute is made, and what goes into *)
(* it is undefined, if the program survives.                               *)
write_attribute_to_key(old, s, found) ==
    IF old # Nothing THEN Thrown(old) ELSE Returned(write_string(found))
=============================================================================
