----------------------------- MODULE Datatypes -----------------------------
(***************************************************************************)
(* HDF5 datatypes and the C++ types they stand for (c++/h5/object.cpp), on *)
(* a machine where char is signed and long has 64 bits.                    *)
(***************************************************************************)
EXTENDS Integers

(* Size of a string whose length is not fixed. *)
Variable == 0

Signed(n) == [class |-> "integer", size |-> n, signed |-> TRUE]
Unsigned(n) == [class |-> "integer", size |-> n, signed |-> FALSE]
Float(n) == [class |-> "float", size |-> n]
String(n) == [class |-> "string", size |-> n]

(* The HDF5 datatype of a C++ type.  A complex number has the datatype of  *)
(* its parts: that there are two of them is up to the dataspace.           *)
hid_t_of ==
    [char |-> Signed(1), schar |-> Signed(1), uchar |-> Unsigned(1),
     short |-> Signed(2), ushort |-> Unsigned(2), int |-> Signed(4), uint |-> Unsigned(4),
     long |-> Signed(8), ulong |-> Unsigned(8), llong |-> Signed(8), ullong |-> Unsigned(8),
     float |-> Float(4), double |-> Float(8), ldouble |-> Float(16),
     cfloat |-> Float(4), cdouble |-> Float(8), cldouble |-> Float(16),
     string |-> String(Variable),
     dcplx |-> [class |-> "compound", size |-> 16],
     bool |-> [class |-> "enum", size |-> 1]]

is_complex == {"cfloat", "cdouble", "cldouble"}

(* Seeded fault: only the classes are compared. *)
same_class(a, b) == a.class = b.class

(* Strings only need to be strings, whatever their size. *)
hdf5_type_equal(a, b) == IF a.class = "string" THEN b.class = "string" ELSE a = b

(* The types that have a name to be printed in messages.                   *)
h5_name_table ==
    {"char", "schar", "uchar", "bool", "short", "ushort", "int", "uint", "long", "ulong",
     "llong", "ullong", "float", "double", "ldouble", "cfloat", "cdouble", "cldouble",
     "string", "dcplx"}

(* get_name_of_h5_type returns; it throws for any other type. *)
has_name(ty) == \E T \in h5_name_table : hdf5_type_equal(ty, hid_t_of[T])
=============================================================================
