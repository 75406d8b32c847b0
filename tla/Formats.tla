------------------------------ MODULE Formats ------------------------------
(***************************************************************************)
(* Format tags: the attributes that name the class of a stored object      *)
(* (c++/h5/format.{hpp,cpp}), and the registry in which a Python process   *)
(* finds the class (python/h5/formats.py, archive.py).                     *)
(*                                                                         *)
(* The file outlives the process: an object may be read by a process that  *)
(* has registered other classes than the one that stored it.  A tag is a   *)
(* sequence of syllables, so that a pattern matches the tags it begins.    *)
(*                                                                         *)
(* There are two objects in the file, one of them in the group of the      *)
(* other.                                                                  *)
(***************************************************************************)
EXTENDS Strings

CONSTANTS Tags,         \* formats of this version and of older ones
          ClassOf,      \* the class that each of them stands for
          Builtin,      \* formats that h5 itself registers
          Patterns,     \* what clients register for old formats
          BuiltinPatterns,
          Notes,        \* other texts written to attributes
          MaxPatterns   \* bound: length of the list of patterns

(* Texts have no NULs, every format stands for a class, and a text that is *)
(* no format is none.                                                      *)
ASSUME TagAssumption ==
    /\ DOMAIN ClassOf = Tags /\ Builtin \subseteq Tags
    /\ <<>> \notin Tags /\ Notes \cap Tags = {}
    /\ \A s \in Tags \cup Notes : CString(s) = s

(* A pattern is for older formats of the class it names, and matches none  *)
(* of the other texts; it gives fields a format or says nothing of them.   *)
ASSUME PatternAssumption ==
    /\ BuiltinPatterns \in Seq(ToSet(BuiltinPatterns))
    /\ \A p \in Patterns \cup ToSet(BuiltinPatterns) :
          /\ \A f \in Tags : IsPrefix(p.regex, f) => ClassOf[f] = ClassOf[p.clsname]
          /\ \A s \in Notes : ~IsPrefix(p.regex, s)
          /\ p.hints.child \in Tags \cup {<<>>}

VARIABLES registry,     \* _formats_dict: formats that the process has registered
          compat,       \* _formats_backward_compat
          exists,       \* objects in the file
          attrs,        \* their attributes
          stored        \* the class each object was stored as

vars == <<registry, compat, exists, attrs, stored>>

Objects == {"parent", "child"}
AttrNames == {"Format", "TRIQS_HDF5_data_scheme"}

Bare == [n \in AttrNames |-> Nothing]
NoClass == "none"

(* The class of an object that nobody can tell any more. *)
Undefined == "undefined"

StandsFor(f, class) == class = Undefined \/ ClassOf[f] = class

Init ==
    /\ registry = Builtin
    /\ compat = BuiltinPatterns
    /\ exists = {}
    /\ attrs = [o \in Objects |-> Bare]
    /\ stored = [o \in Objects |-> NoClass]

-----------------------------------------------------------------------------
(* Tags. *)

Text(a) == read_string_attribute(a).val

(* Seeded fault: the old name is not looked for. *)
read_hdf5_format_new(o) == Text(attrs[o]["Format"])

(* Files of older versions have the tag under another name. *)
read_hdf5_format(o) ==
    IF Text(attrs[o]["Format"]) # <<>> THEN Text(attrs[o]["Format"])
    ELSE Text(attrs[o]["TRIQS_HDF5_data_scheme"])

(* The same through the group and the key, as archives do. *)
read_hdf5_format_from_key(o) ==
    IF Text(attrs[o]["Format"]) # <<>> THEN Text(attrs[o]["Format"])
    ELSE Text(attrs[o]["TRIQS_HDF5_data_scheme"])

(* assert_hdf5_format passes. *)
assert_hdf5_format(o, expected, ignore_if_absent) ==
    \/ read_hdf5_format(o) = expected
    \/ ignore_if_absent /\ read_hdf5_format(o) = <<>>

-----------------------------------------------------------------------------
(* The registry.  A pattern names the format of the class it stands for    *)
(* and the formats that some of its fields have.                           *)

NoHint == [child |-> <<>>]
KeyError == [is |-> "KeyError"]
TypeError == [is |-> "TypeError"]
FormatInfo(f, hints) == [is |-> "info", class |-> ClassOf[f], backward_compat |-> hints]

Matching(f) == {i \in DOMAIN compat : IsPrefix(compat[i].regex, f)}

(* Seeded fault: patterns come first. *)
get_format_info_compat(f) ==
    IF Cardinality(Matching(f)) > 1 THEN TypeError
    ELSE IF f \in registry THEN FormatInfo(f, NoHint)
    ELSE KeyError

(* Seeded fault: the first pattern is taken. *)
get_format_info_first(f) ==
    LET i == CHOOSE i \in DOMAIN compat : \A j \in DOMAIN compat : i <= j
    IN  CASE f \in registry -> FormatInfo(f, NoHint)
          [] f \notin registry /\ Matching(f) = {} -> KeyError
          [] OTHER -> FormatInfo(compat[i].clsname, compat[i].hints)

(* An ambiguous format raises TypeError from the formatting of its message.*)
get_format_info(f) ==
    LET i == CHOOSE i \in Matching(f) : TRUE
    IN  CASE f \in registry -> FormatInfo(f, NoHint)
          [] f \notin registry /\ Cardinality(Matching(f)) > 1 -> TypeError
          [] f \notin registry /\ Cardinality(Matching(f)) = 1 /\ compat[i].clsname \in registry ->
               FormatInfo(compat[i].clsname, compat[i].hints)
          [] OTHER -> KeyError

(* What __getitem1__ makes of an object, given a format for it or none: a  *)
(* plain group, an instance of a class, or an exception.                   *)
Reconstruct(o, hint) ==
    LET format == IF hint # <<>> THEN hint ELSE read_hdf5_format_from_key(o)
        info == get_format_info(format)
    IN  CASE format = <<>> \/ info = KeyError -> "group"
          [] format # <<>> /\ info = TypeError -> "raises"
          [] OTHER -> info.class

(* The format that reading the parent gives for the child. *)
HintForChild ==
    LET info == get_format_info(read_hdf5_format_from_key("parent"))
    IN  IF info.is = "info" THEN info.backward_compat.child ELSE <<>>

-----------------------------------------------------------------------------

Register(f) ==
    /\ f \notin registry
    /\ registry' = registry \cup {f}
    /\ UNCHANGED <<compat, exists, attrs, stored>>

RegisterCompat(p) ==
    /\ Len(compat) < MaxPatterns
    /\ compat' = Append(compat, p)
    /\ UNCHANGED <<registry, exists, attrs, stored>>

(* A new process, which has registered nothing yet. *)
Restart ==
    /\ registry' = Builtin
    /\ compat' = BuiltinPatterns
    /\ UNCHANGED <<exists, attrs, stored>>

(* Seeded fault: a group is not needed. *)
FitsAnywhere(o) == o \in Objects

(* The child is stored through the group that is its parent. *)
Fits(o) == o = "child" => "parent" \in exists

(* What goes when an object is replaced. *)
Gone(o) == IF o = "parent" THEN Objects ELSE {o}

(* What was there goes, with everything that is in it. *)
Replace(o, attributes, class) ==
    /\ Fits(o)
    /\ exists' = (exists \ Gone(o)) \cup {o}
    /\ attrs' = [p \in Objects |-> IF p = o THEN attributes ELSE IF p \in Gone(o) THEN Bare ELSE attrs[p]]
    /\ stored' = [p \in Objects |-> IF p = o THEN class ELSE IF p \in Gone(o) THEN NoClass ELSE stored[p]]
    /\ UNCHANGED <<registry, compat>>

With(name, f) == [Bare EXCEPT ![name] = write_string(f)]

(* An object whose format is unknown is left without one. *)
Tag(f) == IF get_format_info(f).is = "info" THEN With("Format", f) ELSE Bare

(* An object of a Python class. *)
Store(o, f) ==
    Replace(o, Tag(f), IF Tag(f) = Bare THEN NoClass ELSE ClassOf[f])

(* A C++ object, or one by a program with another registry. *)
StoreElsewhere(o, f) ==
    Replace(o, With("Format", f), ClassOf[f])

(* A version that used the old name, or that tagged no fields. *)
StoreOld(o, f) ==
    \/ Replace(o, With("TRIQS_HDF5_data_scheme", f), ClassOf[f])
    \/ Replace(o, Bare, ClassOf[f])

(* Seeded fault: an attribute that exists is written over. *)
SetTextOver(o, name, s) == [attrs EXCEPT ![o][name] = write_string(s)]

(* An attribute that exists stays. *)
SetText(o, name, s) == [attrs EXCEPT ![o][name] = write_string_attribute(@, s).obj]

(* write_hdf5_format, write_attribute of a group.  Clients only write the  *)
(* tag that fits.                                                          *)
WriteAttribute(o, name, s) ==
    /\ o \in exists
    /\ s \in Tags => StandsFor(s, stored[o])
    /\ attrs' = SetText(o, name, s)
    /\ UNCHANGED <<registry, compat, exists, stored>>

(* The same under a key: any text may be found there afterwards, another   *)
(* object's tag included.                                                  *)
WriteAttributeToKey(o, name, s) ==
    /\ o \in exists
    /\ \E found \in Tags \cup Notes \cup {<<>>} :
          attrs' = [attrs EXCEPT ![o][name] = write_attribute_to_key(@, s, found).obj]
    /\ stored' = IF attrs[o][name] = Nothing THEN [stored EXCEPT ![o] = Undefined] ELSE stored
    /\ UNCHANGED <<registry, compat, exists>>

Next ==
    \/ \E f \in Tags : Register(f)
    \/ \E p \in Patterns : RegisterCompat(p)
    \/ Restart
    \/ \E o \in Objects, f \in Tags : Store(o, f)
    \/ \E o \in Objects, f \in Tags : StoreElsewhere(o, f)
    \/ \E o \in Objects, f \in Tags : StoreOld(o, f)
    \/ \E o \in Objects, s \in Tags \cup Notes : WriteAttribute(o, "Format", s)
    \/ \E o \in Objects, s \in Builtin : WriteAttributeToKey(o, "Format", s)

Spec == Init /\ [][Next]_vars

-----------------------------------------------------------------------------

TypeOK ==
    /\ Builtin \subseteq registry /\ registry \subseteq Tags
    /\ exists \subseteq Objects
    /\ "child" \in exists => "parent" \in exists
    /\ \A o \in Objects \ exists : attrs[o] = Bare /\ stored[o] = NoClass

(* The fields are what a pattern says of them. *)
HintFits == HintForChild # <<>> => stored["child"] = ClassOf[HintForChild]

(* Whatever a process has registered, in whatever order, and whichever     *)
(* version or language stored the object: it is read as the class it was   *)
(* stored as, as a plain group, or not at all, and never as another class  *)
(* (formats.py:70-100, archive.py:240-262).  There is nothing to say of an *)
(* object tagged by h5_write_attribute_to_key.                             *)
NeverMisread ==
    LET known == {o \in exists : stored[o] # Undefined}
        right(o) == {stored[o], "group", "raises"}
    IN  /\ \A o \in known : Reconstruct(o, <<>>) \in right(o)
        /\ "child" \in known /\ HintFits => Reconstruct("child", HintForChild) \in right("child")

(* What a process can read it goes on to read as the same class, whatever  *)
(* it registers later.  Only a format that was found by a pattern may      *)
(* become ambiguous by another, and then the read raises (formats.py:93).  *)
ReadableStays ==
    [][\A o \in exists :
          /\ <<registry, compat>>' # <<registry, compat>>
          /\ registry \subseteq registry' /\ Len(compat) <= Len(compat')
          /\ Reconstruct(o, <<>>) \notin {"group", "raises"}
          => \/ Reconstruct(o, <<>>)' = Reconstruct(o, <<>>)
             \/ /\ Reconstruct(o, <<>>)' = "raises"
                /\ read_hdf5_format_from_key(o) \notin registry']_vars

(* A tag, once written, stays until the object is replaced, so a second    *)
(* write_hdf5_format can not change what the object is (string.cpp:108).   *)
TagOnce ==
    [][\A o \in exists, n \in AttrNames :
          attrs[o][n] # Nothing /\ attrs'[o][n] # attrs[o][n] =>
              \E p \in Objects, f \in Tags :
                  o \in Gone(p) /\ (Store(p, f) \/ StoreElsewhere(p, f) \/ StoreOld(p, f))]_vars

(* assert_hdf5_format in C++ accepts no object of another class, and what  *)
(* it accepts Python reads as the same format, tags of old versions        *)
(* included (format.cpp:28-56).                                            *)
AssertAgrees ==
    \A o \in exists, f \in Tags :
        /\ assert_hdf5_format(o, f, FALSE) => StandsFor(f, stored[o])
        /\ assert_hdf5_format(o, f, FALSE) <=> read_hdf5_format_from_key(o) = f
=============================================================================
