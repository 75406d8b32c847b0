--------------------------- MODULE FormatsProofs ---------------------------
(***************************************************************************)
(* What a stored format is read as, proved for any formats, classes,       *)
(* patterns and texts that the assumptions of Formats allow.               *)
(*                                                                         *)
(* The inductive invariant says of the file that a tag found on an object  *)
(* stands for the class it was stored as, if that is defined (AttrsOK),    *)
(* and of the process                                                      *)
(* that what it registered after the builtin patterns is appended to them  *)
(* (CompatOK).                                                             *)
(***************************************************************************)
EXTENDS Formats, FiniteSetTheorems, TLAPS

Texts == Tags \cup Notes \cup {<<>>}

Attributes == {Nothing} \cup {write_string(s) : s \in Texts}

(* The attributes of an object of class c. *)
Right(a, c) ==
    /\ a \in [AttrNames -> Attributes]
    /\ \A n \in AttrNames : Text(a[n]) \in Tags => StandsFor(Text(a[n]), c)

AllPatterns == Patterns \cup ToSet(BuiltinPatterns)

CompatOK ==
    /\ compat \in Seq(AllPatterns)
    /\ Len(BuiltinPatterns) <= Len(compat)
    /\ \A i \in 1..Len(BuiltinPatterns) : compat[i] = BuiltinPatterns[i]

AttrsOK ==
    /\ DOMAIN attrs = Objects /\ DOMAIN stored = Objects
    /\ \A o \in Objects : Right(attrs[o], stored[o])

Inv == TypeOK /\ CompatOK /\ AttrsOK

-----------------------------------------------------------------------------
(* Texts. *)

(* The empty text has no NUL to be cut at. *)
LEMMA EmptyText == CString(<<>>) = <<>>
  BY DEF CString, SelectInSeq

(* A text stays what it is when it is written and read.                    *)
LEMMA CleanText ==
    ASSUME NEW s \in Texts
    PROVE  CString(s) = s
  BY EmptyText, TagAssumption DEF Texts

(* A missing attribute reads as the empty text. *)
LEMMA NoText == Text(Nothing) = <<>>
  BY DEF Text, read_string_attribute

(* What write_string stores is read back. *)
LEMMA WrittenText ==
    ASSUME NEW s \in Texts
    PROVE  write_string(s) # Nothing /\ Text(write_string(s)) = s
  <1> DEFINE d == write_string(s)
  <1>1. /\ d.is = "dataset" /\ d.ty = String(Variable) /\ d.lengths = <<>>
        /\ d.items = <<CString(s)>>
    BY DEF write_string, Dataset
  <1>2. d.ty.class = "string"
    BY <1>1 DEF String
  <1>3. d # Nothing
    BY <1>1 DEF Nothing
  <1> HIDE DEF d
  <1>4. read_string(d) = [is |-> "string", val |-> CString(d.items[1])]
    BY <1>1, <1>2 DEF read_string
  <1>5. d.items[1] = s
    BY <1>1, CleanText
  <1>6. Text(d) = s
    BY <1>3, <1>4, <1>5, CleanText DEF Text, read_string_attribute
  <1> QED
    BY <1>3, <1>6 DEF d

(* An attribute reads as one of the texts. *)
LEMMA TextType ==
    ASSUME NEW a \in Attributes
    PROVE  Text(a) \in Texts
  BY NoText, WrittenText DEF Attributes, Texts

(* Both readers take the first of the two attributes that has a text.      *)
LEMMA FormatText ==
    ASSUME AttrsOK, NEW o \in Objects
    PROVE  LET t == read_hdf5_format_from_key(o)
           IN  /\ t = read_hdf5_format(o)
               /\ t \in Texts
               /\ t \in Tags => StandsFor(t, stored[o])
  <1>1. /\ "Format" \in AttrNames /\ "TRIQS_HDF5_data_scheme" \in AttrNames
    BY DEF AttrNames
  <1>2. Right(attrs[o], stored[o])
    BY DEF AttrsOK
  <1>3. ASSUME NEW n \in AttrNames
        PROVE  /\ Text(attrs[o][n]) \in Texts
               /\ Text(attrs[o][n]) \in Tags => StandsFor(Text(attrs[o][n]), stored[o])
    <2>1. attrs[o][n] \in Attributes
      BY <1>2 DEF Right
    <2> QED
      BY <1>2, <2>1, TextType DEF Right
  <1>4. \/ read_hdf5_format_from_key(o) = Text(attrs[o]["Format"])
        \/ read_hdf5_format_from_key(o) = Text(attrs[o]["TRIQS_HDF5_data_scheme"])
    BY DEF read_hdf5_format_from_key
  <1>5. read_hdf5_format_from_key(o) = read_hdf5_format(o)
    BY DEF read_hdf5_format_from_key, read_hdf5_format
  <1> QED
    BY <1>1, <1>3, <1>4, <1>5

-----------------------------------------------------------------------------
(* The registry reg and the patterns com of a process, before or after a   *)
(* step.                                                                   *)

MatchingAt(com, f) == {i \in DOMAIN com : IsPrefix(com[i].regex, f)}

InfoAt(reg, com, f) ==
    LET i == CHOOSE i \in MatchingAt(com, f) : TRUE
    IN  IF f \in reg THEN FormatInfo(f, NoHint)
        ELSE IF Cardinality(MatchingAt(com, f)) > 1 THEN TypeError
        ELSE IF Cardinality(MatchingAt(com, f)) = 1 /\ com[i].clsname \in reg
               THEN FormatInfo(com[i].clsname, com[i].hints)
        ELSE KeyError

ReadingAt(reg, com, t) ==
    IF t = <<>> \/ InfoAt(reg, com, t) = KeyError THEN "group"
    ELSE IF InfoAt(reg, com, t) = TypeError THEN "raises"
    ELSE InfoAt(reg, com, t).class

(* get_format_info looks at nothing else. *)
LEMMA InfoIs ==
    ASSUME NEW f
    PROVE  /\ get_format_info(f) = InfoAt(registry, compat, f)
           /\ get_format_info(f)' = InfoAt(registry', compat', f)
  <1>1. ASSUME NEW reg, NEW n, NEW p, NEW yes, NEW hit, n = 1 => ~(n > 1)
        PROVE  (CASE f \in reg -> yes
                  [] f \notin reg /\ n > 1 -> TypeError
                  [] f \notin reg /\ n = 1 /\ p \in reg -> hit
                  [] OTHER -> KeyError)
               = IF f \in reg THEN yes
                 ELSE IF n > 1 THEN TypeError
                 ELSE IF n = 1 /\ p \in reg THEN hit ELSE KeyError
    <2>1. CASE f \in reg
      BY <2>1, Zenon
    <2>2. CASE f \notin reg /\ n > 1
      BY <1>1, <2>2, Zenon
    <2>3. CASE f \notin reg /\ ~(n > 1) /\ n = 1 /\ p \in reg
      BY <2>3, Zenon
    <2>4. CASE f \notin reg /\ ~(n > 1) /\ ~(n = 1 /\ p \in reg)
      BY <2>4, Zenon
    <2> QED
      BY <2>1, <2>2, <2>3, <2>4, Zenon
  <1>2. \A n : n = 1 => ~(n > 1)
    OBVIOUS
  <1> DEFINE i == CHOOSE i \in MatchingAt(compat, f) : TRUE
             j == CHOOSE j \in MatchingAt(compat', f) : TRUE
             n == Cardinality(MatchingAt(compat, f))
             m == Cardinality(MatchingAt(compat', f))
  <1>3. get_format_info(f) =
            CASE f \in registry -> FormatInfo(f, NoHint)
              [] f \notin registry /\ n > 1 -> TypeError
              [] f \notin registry /\ n = 1 /\ compat[i].clsname \in registry ->
                   FormatInfo(compat[i].clsname, compat[i].hints)
              [] OTHER -> KeyError
    BY Zenon DEF get_format_info, Matching, MatchingAt
  <1>4. get_format_info(f)' =
            CASE f \in registry' -> FormatInfo(f, NoHint)
              [] f \notin registry' /\ m > 1 -> TypeError
              [] f \notin registry' /\ m = 1 /\ compat'[j].clsname \in registry' ->
                   FormatInfo(compat'[j].clsname, compat'[j].hints)
              [] OTHER -> KeyError
    BY Zenon DEF get_format_info, Matching, MatchingAt
  <1>5. InfoAt(registry, compat, f) =
            IF f \in registry THEN FormatInfo(f, NoHint)
            ELSE IF n > 1 THEN TypeError
            ELSE IF n = 1 /\ compat[i].clsname \in registry
                   THEN FormatInfo(compat[i].clsname, compat[i].hints)
            ELSE KeyError
    BY Zenon DEF InfoAt
  <1>6. InfoAt(registry', compat', f) =
            IF f \in registry' THEN FormatInfo(f, NoHint)
            ELSE IF m > 1 THEN TypeError
            ELSE IF m = 1 /\ compat'[j].clsname \in registry'
                   THEN FormatInfo(compat'[j].clsname, compat'[j].hints)
            ELSE KeyError
    BY Zenon DEF InfoAt
  <1> HIDE DEF i, j, n, m
  <1>7. get_format_info(f) = InfoAt(registry, compat, f)
    BY <1>1, <1>2, <1>3, <1>5, Zenon
  <1>8. get_format_info(f)' = InfoAt(registry', compat', f)
    BY <1>1, <1>2, <1>4, <1>6, Zenon
  <1> QED
    BY <1>7, <1>8

(* The answers tell themselves apart. *)
LEMMA InfoKinds ==
    ASSUME NEW f, NEW h
    PROVE  /\ KeyError # TypeError
           /\ FormatInfo(f, h).is = "info" /\ KeyError.is # "info" /\ TypeError.is # "info"
           /\ FormatInfo(f, h) # KeyError /\ FormatInfo(f, h) # TypeError
           /\ FormatInfo(f, h).class = ClassOf[f]
           /\ FormatInfo(f, h).backward_compat = h
  <1>1. KeyError.is = "KeyError" /\ TypeError.is = "TypeError"
    BY DEF KeyError, TypeError
  <1>2. /\ FormatInfo(f, h).is = "info" /\ FormatInfo(f, h).class = ClassOf[f]
        /\ FormatInfo(f, h).backward_compat = h
    BY DEF FormatInfo
  <1> QED
    BY <1>1, <1>2

(* What Python makes of an object depends on the one text it goes by.      *)
LEMMA ReconstructIs ==
    ASSUME NEW o, NEW hint
    PROVE  /\ Reconstruct(o, hint) = ReadingAt(registry, compat,
                   IF hint # <<>> THEN hint ELSE read_hdf5_format_from_key(o))
           /\ Reconstruct(o, hint)' = ReadingAt(registry', compat',
                   IF hint # <<>> THEN hint ELSE read_hdf5_format_from_key(o)')
  <1>1. ASSUME NEW t, NEW info, info = KeyError => info # TypeError
        PROVE  (CASE t = <<>> \/ info = KeyError -> "group"
                  [] t # <<>> /\ info = TypeError -> "raises"
                  [] OTHER -> info.class)
               = IF t = <<>> \/ info = KeyError THEN "group"
                 ELSE IF info = TypeError THEN "raises" ELSE info.class
    BY <1>1, Zenon
  <1>2. KeyError # TypeError
    BY InfoKinds
  <1> DEFINE t == IF hint # <<>> THEN hint ELSE read_hdf5_format_from_key(o)
             u == IF hint # <<>> THEN hint ELSE read_hdf5_format_from_key(o)'
  <1>3. /\ Reconstruct(o, hint) = (CASE t = <<>> \/ get_format_info(t) = KeyError -> "group"
                  [] t # <<>> /\ get_format_info(t) = TypeError -> "raises"
                  [] OTHER -> get_format_info(t).class)
        /\ get_format_info(t) = InfoAt(registry, compat, t)
    BY InfoIs, Zenon DEF Reconstruct
  <1>4. /\ Reconstruct(o, hint)' = (CASE u = <<>> \/ InfoAt(registry', compat', u) = KeyError -> "group"
                  [] u # <<>> /\ InfoAt(registry', compat', u) = TypeError -> "raises"
                  [] OTHER -> InfoAt(registry', compat', u).class)
    BY InfoIs, Zenon DEF Reconstruct
  <1> HIDE DEF t, u
  <1>5. Reconstruct(o, hint) = ReadingAt(registry, compat, t)
    BY <1>1, <1>2, <1>3, Zenon DEF ReadingAt
  <1>6. Reconstruct(o, hint)' = ReadingAt(registry', compat', u)
    BY <1>1, <1>2, <1>4, Zenon DEF ReadingAt
  <1> QED
    BY <1>5, <1>6 DEF t, u

(* A list of patterns is finite. *)
LEMMA MatchingFinite ==
    ASSUME NEW com \in Seq(AllPatterns), NEW f
    PROVE  IsFiniteSet(MatchingAt(com, f))
  <1>1. DOMAIN com = 1..Len(com) /\ Len(com) \in Nat
    OBVIOUS
  <1>2. IsFiniteSet(1..Len(com))
    BY <1>1, FS_Interval
  <1>3. MatchingAt(com, f) \subseteq 1..Len(com)
    BY <1>1 DEF MatchingAt
  <1> QED
    BY <1>2, <1>3, FS_Subset

(* What get_format_info can answer: nothing, or the class of the format    *)
(* itself or of the one pattern that matches it.                           *)
LEMMA InfoCases ==
    ASSUME NEW reg, NEW com \in Seq(AllPatterns), NEW f
    PROVE  \/ InfoAt(reg, com, f) = KeyError
           \/ InfoAt(reg, com, f) = TypeError
           \/ f \in reg /\ InfoAt(reg, com, f) = FormatInfo(f, NoHint)
           \/ /\ f \notin reg
              /\ \E i \in MatchingAt(com, f) :
                    /\ MatchingAt(com, f) = {i} /\ com[i].clsname \in reg
                    /\ InfoAt(reg, com, f) = FormatInfo(com[i].clsname, com[i].hints)
  <1>1. IsFiniteSet(MatchingAt(com, f))
    BY MatchingFinite
  <1>2. CASE f \in reg
    BY <1>2 DEF InfoAt
  <1>3. CASE f \notin reg /\ Cardinality(MatchingAt(com, f)) > 1
    BY <1>3 DEF InfoAt
  <1>4. CASE f \notin reg /\ Cardinality(MatchingAt(com, f)) = 1
    <2>1. PICK i : MatchingAt(com, f) = {i}
      BY <1>1, <1>4, FS_Singleton
    <2>2. (CHOOSE j \in MatchingAt(com, f) : TRUE) = i
      BY <2>1
    <2>3. ~(Cardinality(MatchingAt(com, f)) > 1)
      BY <1>4
    <2>4. CASE com[i].clsname \in reg
      <3>1. InfoAt(reg, com, f) = FormatInfo(com[i].clsname, com[i].hints)
        BY <1>4, <2>2, <2>3, <2>4 DEF InfoAt
      <3> QED
        BY <1>4, <2>1, <2>4, <3>1
    <2>5. CASE com[i].clsname \notin reg
      BY <1>4, <2>2, <2>3, <2>5 DEF InfoAt
    <2> QED
      BY <2>4, <2>5
  <1>5. CASE f \notin reg /\ ~(Cardinality(MatchingAt(com, f)) > 1) /\ Cardinality(MatchingAt(com, f)) # 1
    BY <1>5 DEF InfoAt
  <1> QED
    BY <1>2, <1>3, <1>4, <1>5

(* A pattern that matches a text says the right class, and that the text   *)
(* is a format.                                                            *)
LEMMA MatchRight ==
    ASSUME NEW com \in Seq(AllPatterns), NEW f \in Texts, f # <<>>, NEW i \in MatchingAt(com, f)
    PROVE  f \in Tags /\ ClassOf[f] = ClassOf[com[i].clsname]
  <1>1. i \in DOMAIN com /\ IsPrefix(com[i].regex, f)
    BY DEF MatchingAt
  <1>2. com[i] \in Patterns \cup ToSet(BuiltinPatterns)
    BY <1>1 DEF AllPatterns
  <1> DEFINE p == com[i]
  <1> HIDE DEF p
  <1>3. /\ \A g \in Tags : IsPrefix(p.regex, g) => ClassOf[g] = ClassOf[p.clsname]
        /\ \A s \in Notes : ~IsPrefix(p.regex, s)
    BY <1>2, PatternAssumption DEF p
  <1>4. f \in Tags
    BY <1>1, <1>3 DEF Texts, p
  <1> QED
    BY <1>1, <1>3, <1>4 DEF p

(* A text is read as the class it stands for, or as no class.              *)
LEMMA ReadsRight ==
    ASSUME NEW reg, NEW com \in Seq(AllPatterns), NEW t \in Texts, NEW c,
           t \in Tags => ClassOf[t] = c, reg \subseteq Tags
    PROVE  ReadingAt(reg, com, t) \in {c, "group", "raises"}
  <1>1. CASE t = <<>> \/ InfoAt(reg, com, t) = KeyError \/ InfoAt(reg, com, t) = TypeError
    BY <1>1 DEF ReadingAt
  <1>2. CASE /\ t # <<>> /\ t \in reg /\ InfoAt(reg, com, t) = FormatInfo(t, NoHint)
    <2>1. InfoAt(reg, com, t).class = c
      BY <1>2, InfoKinds
    <2> QED
      BY <2>1 DEF ReadingAt
  <1>3. CASE /\ t # <<>>
             /\ \E i \in MatchingAt(com, t) :
                    InfoAt(reg, com, t) = FormatInfo(com[i].clsname, com[i].hints)
    <2>1. PICK i \in MatchingAt(com, t) :
            InfoAt(reg, com, t) = FormatInfo(com[i].clsname, com[i].hints)
      BY <1>3
    <2>2. t \in Tags /\ ClassOf[t] = ClassOf[com[i].clsname]
      BY <1>3, MatchRight
    <2>3. InfoAt(reg, com, t).class = c
      BY <2>1, <2>2, InfoKinds
    <2> QED
      BY <2>3 DEF ReadingAt
  <1> QED
    BY <1>1, <1>2, <1>3, InfoCases

-----------------------------------------------------------------------------
(* The invariants that the runs check. *)

(* What reading the parent says of the child is a format, or nothing. *)
LEMMA HintType ==
    ASSUME Inv
    PROVE  HintForChild \in Tags \cup {<<>>}
  <1> DEFINE f == read_hdf5_format_from_key("parent")
  <1>1. "parent" \in Objects
    BY DEF Objects
  <1>2. compat \in Seq(AllPatterns)
    BY DEF Inv, CompatOK
  <1> HIDE DEF f
  <1>3. get_format_info(f) = InfoAt(registry, compat, f)
    BY InfoIs
  <1>4. CASE get_format_info(f).is # "info"
    BY <1>4 DEF HintForChild, f
  <1>5. CASE get_format_info(f) = FormatInfo(f, NoHint)
    <2>1. get_format_info(f).backward_compat.child = <<>>
      BY <1>5, InfoKinds DEF NoHint
    <2> QED
      BY <2>1 DEF HintForChild, f
  <1>6. ASSUME NEW i \in MatchingAt(compat, f),
               get_format_info(f) = FormatInfo(compat[i].clsname, compat[i].hints)
        PROVE  HintForChild \in Tags \cup {<<>>}
    <2>1. get_format_info(f).backward_compat = compat[i].hints
      BY <1>6, InfoKinds
    <2>2. compat[i] \in Patterns \cup ToSet(BuiltinPatterns)
      BY <1>2, <1>6 DEF AllPatterns, MatchingAt
    <2>3. compat[i].hints.child \in Tags \cup {<<>>}
      BY <2>2, PatternAssumption
    <2> QED
      BY <2>1, <2>3 DEF HintForChild, f
  <1> QED
    BY <1>2, <1>3, <1>4, <1>5, <1>6, InfoCases, InfoKinds

(* By the invariant nothing is misread. *)
LEMMA InvReads ==
    ASSUME Inv
    PROVE  NeverMisread
  <1>1. registry \subseteq Tags /\ exists \subseteq Objects /\ compat \in Seq(AllPatterns)
    BY DEF Inv, TypeOK, CompatOK
  <1>2. ASSUME NEW o \in exists, stored[o] # Undefined
        PROVE  Reconstruct(o, <<>>) \in {stored[o], "group", "raises"}
    <2> DEFINE t == read_hdf5_format_from_key(o)
    <2>1. t \in Texts /\ (t \in Tags => ClassOf[t] = stored[o])
      BY <1>1, <1>2, FormatText DEF Inv, StandsFor
    <2>2. Reconstruct(o, <<>>) = ReadingAt(registry, compat, t)
      BY ReconstructIs
    <2> HIDE DEF t
    <2> QED
      BY <1>1, <2>1, <2>2, ReadsRight
  <1>3. ASSUME "child" \in exists, stored["child"] # Undefined, HintFits
        PROVE  Reconstruct("child", HintForChild) \in {stored["child"], "group", "raises"}
    <2> DEFINE h == HintForChild
    <2>1. CASE h = <<>>
      BY <1>2, <1>3, <2>1
    <2>2. CASE h # <<>>
      <3>1. h \in Tags /\ ClassOf[h] = stored["child"]
        BY <1>3, <2>2, HintType DEF HintFits
      <3>2. Reconstruct("child", h) = ReadingAt(registry, compat, h)
        BY <2>2, ReconstructIs
      <3> HIDE DEF h
      <3>3. h \in Texts
        BY <3>1 DEF Texts
      <3>4. Reconstruct("child", h) \in {stored["child"], "group", "raises"}
        BY <1>1, <3>1, <3>2, <3>3, ReadsRight
      <3> QED
        BY <3>4 DEF h
    <2> QED
      BY <2>1, <2>2
  <1> QED
    BY <1>2, <1>3 DEF NeverMisread

(* By the invariant the two languages agree. *)
LEMMA InvAsserts ==
    ASSUME Inv
    PROVE  AssertAgrees
  <1> SUFFICES ASSUME NEW o \in exists, NEW f \in Tags
               PROVE  /\ assert_hdf5_format(o, f, FALSE) => StandsFor(f, stored[o])
                      /\ assert_hdf5_format(o, f, FALSE) <=> read_hdf5_format_from_key(o) = f
    BY DEF AssertAgrees
  <1>1. o \in Objects
    BY DEF Inv, TypeOK
  <1>2. LET t == read_hdf5_format_from_key(o)
        IN  t = read_hdf5_format(o) /\ (t \in Tags => StandsFor(t, stored[o]))
    BY <1>1, FormatText DEF Inv
  <1>3. assert_hdf5_format(o, f, FALSE) <=> read_hdf5_format(o) = f
    BY DEF assert_hdf5_format
  <1> QED
    BY <1>2, <1>3

-----------------------------------------------------------------------------
(* The invariant is inductive. *)

(* The attributes with which an object begins. *)
LEMMA BareRight ==
    ASSUME NEW c
    PROVE  Bare \in [AttrNames -> Attributes] /\ Right(Bare, c)
  <1>1. Text(Nothing) \notin Tags /\ Nothing \in Attributes
    BY NoText, TagAssumption DEF Attributes
  <1> QED
    BY <1>1 DEF Bare, Right

(* An object that gets its tag has the class of that tag. *)
LEMMA WithRight ==
    ASSUME NEW n \in AttrNames, NEW f \in Tags
    PROVE  Right(With(n, f), ClassOf[f])
  <1> DEFINE d == write_string(f)
  <1>1. d \in Attributes /\ Text(d) = f
    BY WrittenText DEF Attributes, Texts
  <1>2. With(n, f) = [Bare EXCEPT ![n] = d]
    BY DEF With
  <1>3. \A k \in AttrNames : With(n, f)[k] = IF k = n THEN d ELSE Bare[k]
    BY <1>2, BareRight
  <1>4. With(n, f) \in [AttrNames -> Attributes]
    BY <1>1, <1>2, BareRight
  <1> HIDE DEF d
  <1> QED
    BY <1>1, <1>3, <1>4, BareRight DEF Right, StandsFor

(* What a writer of attributes leaves. *)
LEMMA WrittenAttribute ==
    ASSUME NEW a, NEW s, NEW found
    PROVE  /\ write_string_attribute(a, s).obj = IF a = Nothing THEN write_string(s) ELSE a
           /\ write_attribute_to_key(a, s, found).obj = IF a = Nothing THEN write_string(found) ELSE a
  BY DEF write_string_attribute, write_attribute_to_key, Thrown, Returned

(* An empty file and a fresh process satisfy the invariant. *)
LEMMA InvInit ==
    ASSUME Init
    PROVE  Inv
  <1>1. TypeOK
    BY TagAssumption DEF Init, TypeOK
  <1>2. CompatOK
    <2>1. BuiltinPatterns \in Seq(ToSet(BuiltinPatterns))
      BY PatternAssumption
    <2>2. BuiltinPatterns \in Seq(AllPatterns)
      BY <2>1 DEF AllPatterns
    <2> QED
      BY <2>2 DEF Init, CompatOK
  <1>3. AttrsOK
    BY BareRight DEF Init, AttrsOK
  <1> QED
    BY <1>1, <1>2, <1>3 DEF Inv

(* An object with attributes that fit its class takes the place of another *)
LEMMA InvReplace ==
    ASSUME Inv, NEW o \in Objects, NEW a, NEW c, Right(a, c), Replace(o, a, c)
    PROVE  Inv'
  <1>1. TypeOK'
    <2>1. exists' \subseteq Objects
      BY DEF Inv, TypeOK, Replace
    <2>2. "child" \in exists' => "parent" \in exists'
      BY DEF Inv, TypeOK, Replace, Fits, Gone, Objects
    <2>3. \A p \in Objects \ exists' : attrs'[p] = Bare /\ stored'[p] = NoClass
      BY DEF Inv, TypeOK, Replace
    <2>4. registry' = registry
      BY DEF Replace
    <2> QED
      BY <2>1, <2>2, <2>3, <2>4 DEF Inv, TypeOK
  <1>2. CompatOK'
    BY DEF Inv, CompatOK, Replace
  <1>3. AttrsOK'
    <2>1. DOMAIN attrs' = Objects /\ DOMAIN stored' = Objects
      BY DEF Replace
    <2>2. ASSUME NEW p \in Objects PROVE Right(attrs'[p], stored'[p])
      <3>1. CASE p = o
        BY <3>1 DEF Replace
      <3>2. CASE p # o /\ p \in Gone(o)
        BY <3>2, BareRight DEF Replace
      <3>3. CASE p # o /\ p \notin Gone(o)
        BY <3>3 DEF Replace, Inv, AttrsOK
      <3> QED
        BY <3>1, <3>2, <3>3
    <2> QED
      BY <2>1, <2>2 DEF AttrsOK
  <1> QED
    BY <1>1, <1>2, <1>3 DEF Inv

(* The steps that change objects, all of them by Replace or by writing an  *)
(* attribute that was missing.                                             *)
Replaced(o, f) == Store(o, f) \/ StoreElsewhere(o, f) \/ StoreOld(o, f)

Written(o, n, s) ==
    /\ attrs' = [attrs EXCEPT ![o][n] = IF @ = Nothing THEN write_string(s) ELSE @]
    /\ stored' \in {stored, [stored EXCEPT ![o] = Undefined]}
    /\ UNCHANGED <<registry, compat, exists>>

(* One attribute of one object that is there is written. *)
LEMMA InvAttribute ==
    ASSUME Inv, NEW o \in exists, NEW n \in AttrNames, NEW s \in Texts,
           s \in Tags => StandsFor(s, stored'[o]), Written(o, n, s)
    PROVE  Inv'
  <1> DEFINE d == write_string(s)
             a == attrs[o]
  <1>1. d \in Attributes /\ Text(d) = s
    BY WrittenText DEF Attributes
  <1>2. o \in Objects /\ Right(a, stored[o])
    BY DEF Inv, TypeOK, AttrsOK
  <1>3. attrs' = [attrs EXCEPT ![o] = [a EXCEPT ![n] = IF a[n] = Nothing THEN d ELSE a[n]]]
    BY DEF Written
  <1>7. /\ DOMAIN stored' = Objects /\ stored'[o] \in {stored[o], Undefined}
        /\ \A p \in Objects \ {o} : stored'[p] = stored[p]
    BY <1>2 DEF Written, Inv, AttrsOK
  <1> HIDE DEF d
  <1>4. Right([a EXCEPT ![n] = IF a[n] = Nothing THEN d ELSE a[n]], stored'[o])
    BY <1>1, <1>2, <1>7 DEF Right, StandsFor
  <1> DEFINE b == [a EXCEPT ![n] = IF a[n] = Nothing THEN d ELSE a[n]]
  <1> HIDE DEF a, b
  <1>5. AttrsOK'
    BY <1>2, <1>3, <1>4, <1>7 DEF Inv, AttrsOK, b
  <1>6. TypeOK'
    BY <1>2, <1>3, <1>7 DEF Inv, TypeOK, AttrsOK, b, Written
  <1>8. CompatOK'
    BY DEF Inv, CompatOK, Written
  <1> QED
    BY <1>5, <1>6, <1>8 DEF Inv

(* Whichever way an object is stored, its tag fits its class.              *)
LEMMA ReplacedIs ==
    ASSUME NEW o \in Objects, NEW f \in Tags, Replaced(o, f)
    PROVE  \E a, c : Right(a, c) /\ Replace(o, a, c)
  <1>1. "Format" \in AttrNames /\ "TRIQS_HDF5_data_scheme" \in AttrNames
    BY DEF AttrNames
  <1>2. CASE Store(o, f)
    <2>1. CASE Tag(f) = Bare
      BY <1>2, <2>1, BareRight DEF Store
    <2>2. CASE Tag(f) # Bare
      BY <1>1, <1>2, <2>2, WithRight DEF Store, Tag
    <2> QED
      BY <2>1, <2>2
  <1>3. CASE StoreElsewhere(o, f)
    BY <1>1, <1>3, WithRight DEF StoreElsewhere
  <1>4. CASE StoreOld(o, f)
    BY <1>1, <1>4, WithRight, BareRight DEF StoreOld
  <1> QED
    BY <1>2, <1>3, <1>4 DEF Replaced

(* write_attribute as one of the steps that write. *)
LEMMA WriteAttributeIs ==
    ASSUME Inv, NEW o \in Objects, NEW n \in AttrNames, NEW s \in Tags \cup Notes,
           WriteAttribute(o, n, s)
    PROVE  Written(o, n, s) /\ o \in exists /\ (s \in Tags => StandsFor(s, stored'[o]))
  <1>1. attrs[o][n] = Nothing \/ attrs[o][n] # Nothing
    OBVIOUS
  <1>2. write_string_attribute(attrs[o][n], s).obj
            = IF attrs[o][n] = Nothing THEN write_string(s) ELSE attrs[o][n]
    BY WrittenAttribute
  <1>3. attrs' = [attrs EXCEPT ![o][n] = IF @ = Nothing THEN write_string(s) ELSE @]
    BY <1>2, Zenon DEF WriteAttribute, SetText
  <1> QED
    BY <1>3, TagAssumption DEF WriteAttribute, Written

(* So is write_attribute_to_key, whatever it finds for a text. *)
LEMMA WriteToKeyIs ==
    ASSUME Inv, NEW o \in Objects, NEW n \in AttrNames, NEW s,
           WriteAttributeToKey(o, n, s)
    PROVE  /\ o \in exists
           /\ \E t \in Texts : Written(o, n, t) /\ (t \in Tags => StandsFor(t, stored'[o]))
  <1>1. PICK found \in Texts :
            attrs' = [attrs EXCEPT ![o][n] = write_attribute_to_key(@, s, found).obj]
    BY DEF WriteAttributeToKey, Texts
  <1>2. write_attribute_to_key(attrs[o][n], s, found).obj
            = IF attrs[o][n] = Nothing THEN write_string(found) ELSE attrs[o][n]
    BY WrittenAttribute
  <1>3. attrs' = [attrs EXCEPT ![o][n] = IF @ = Nothing THEN write_string(found) ELSE @]
    BY <1>1, <1>2, Zenon
  <1>4. /\ o \in exists /\ UNCHANGED <<registry, compat, exists>>
        /\ stored' = IF attrs[o][n] = Nothing THEN [stored EXCEPT ![o] = Undefined] ELSE stored
    BY DEF WriteAttributeToKey
  <1>5. DOMAIN stored = Objects
    BY DEF Inv, AttrsOK
  <1>6. CASE attrs[o][n] = Nothing
    <2>1. stored' = [stored EXCEPT ![o] = Undefined] /\ stored'[o] = Undefined
      BY <1>4, <1>5, <1>6
    <2>2. Written(o, n, found) /\ StandsFor(found, stored'[o])
      BY <1>3, <1>4, <2>1 DEF Written, StandsFor
    <2> QED
      BY <1>4, <2>2
  <1>7. CASE attrs[o][n] # Nothing
    <2> DEFINE d == write_string(<<>>)
    <2>1. [attrs EXCEPT ![o][n] = IF @ = Nothing THEN d ELSE @] = attrs'
      <3> HIDE DEF d
      <3> QED
        BY <1>3, <1>7
    <2>2. stored' = stored
      BY <1>4, <1>7
    <2>3. Written(o, n, <<>>)
      BY <1>4, <2>1, <2>2 DEF Written
    <2>4. <<>> \in Texts /\ <<>> \notin Tags
      BY TagAssumption DEF Texts
    <2> QED
      BY <1>4, <2>3, <2>4
  <1> QED
    BY <1>6, <1>7

(* What a step can be. *)
LEMMA Steps ==
    ASSUME Inv, [Next]_vars
    PROVE  \/ \E f \in Tags : Register(f)
           \/ \E p \in Patterns : RegisterCompat(p)
           \/ Restart
           \/ \E o \in Objects, f \in Tags : Replaced(o, f)
           \/ \E o \in exists, n \in AttrNames, s \in Texts :
                 Written(o, n, s) /\ (s \in Tags => StandsFor(s, stored'[o]))
           \/ UNCHANGED vars
  <1> DEFINE Wrote == \E o \in exists, n \in AttrNames, s \in Texts :
                 Written(o, n, s) /\ (s \in Tags => StandsFor(s, stored'[o]))
  <1>1. "Format" \in AttrNames
    BY DEF AttrNames
  <1>2. ASSUME NEW o \in Objects, NEW n \in AttrNames, NEW s \in Tags \cup Notes,
               WriteAttribute(o, n, s)
        PROVE  Wrote
    BY <1>2, WriteAttributeIs DEF Texts
  <1>3. ASSUME NEW o \in Objects, NEW s \in Builtin, WriteAttributeToKey(o, "Format", s)
        PROVE  Wrote
    <2>1. o \in exists
      BY <1>1, <1>3, WriteToKeyIs
    <2>2. PICK t \in Texts : Written(o, "Format", t) /\ (t \in Tags => StandsFor(t, stored'[o]))
      BY <1>1, <1>3, WriteToKeyIs
    <2> QED
      BY <1>1, <2>1, <2>2
  <1> HIDE DEF Wrote
  <1>4. CASE \E o \in Objects, f \in Tags : Store(o, f) \/ StoreElsewhere(o, f) \/ StoreOld(o, f)
    BY <1>4 DEF Replaced
  <1>5. CASE \/ \E o \in Objects, s \in Tags \cup Notes : WriteAttribute(o, "Format", s)
             \/ \E o \in Objects, s \in Builtin : WriteAttributeToKey(o, "Format", s)
    <2>1. Wrote
      BY <1>1, <1>2, <1>3, <1>5
    <2> QED
      BY <2>1 DEF Wrote
  <1> QED
    BY <1>4, <1>5 DEF Next

(* Every step keeps the invariant. *)
LEMMA InvStep ==
    ASSUME Inv, [Next]_vars
    PROVE  Inv'
  <1>1. ASSUME NEW f \in Tags, Register(f) PROVE Inv'
    BY <1>1 DEF Register, Inv, TypeOK, CompatOK, AttrsOK
  <1>2. ASSUME NEW p \in Patterns, RegisterCompat(p) PROVE Inv'
    <2>1. compat \in Seq(AllPatterns) /\ p \in AllPatterns /\ compat' = Append(compat, p)
      BY <1>2 DEF RegisterCompat, Inv, CompatOK, AllPatterns
    <2>2. /\ compat' \in Seq(AllPatterns) /\ Len(compat') = Len(compat) + 1
          /\ \A i \in 1..Len(compat) : compat'[i] = compat[i]
          /\ Len(compat) \in Nat
      BY <2>1
    <2>3. Len(BuiltinPatterns) \in Nat
      BY PatternAssumption
    <2>4. CompatOK'
      BY <2>2, <2>3 DEF Inv, CompatOK
    <2>5. TypeOK' /\ AttrsOK'
      BY <1>2 DEF RegisterCompat, Inv, TypeOK, AttrsOK
    <2> QED
      BY <2>4, <2>5 DEF Inv
  <1>3. CASE Restart
    <2>1. BuiltinPatterns \in Seq(AllPatterns)
      BY PatternAssumption DEF AllPatterns
    <2>2. CompatOK'
      BY <1>3, <2>1 DEF Restart, CompatOK
    <2>3. TypeOK' /\ AttrsOK'
      BY <1>3, TagAssumption DEF Restart, Inv, TypeOK, AttrsOK
    <2> QED
      BY <2>2, <2>3 DEF Inv
  <1>4. ASSUME NEW o \in Objects, NEW f \in Tags, Replaced(o, f) PROVE Inv'
    BY <1>4, ReplacedIs, InvReplace
  <1>5. ASSUME NEW o \in exists, NEW n \in AttrNames, NEW s \in Texts, Written(o, n, s),
               s \in Tags => StandsFor(s, stored'[o])
        PROVE  Inv'
    BY <1>5, InvAttribute
  <1>6. CASE UNCHANGED vars
    BY <1>6 DEF vars, Inv, TypeOK, CompatOK, AttrsOK
  <1> QED
    BY <1>1, <1>2, <1>3, <1>4, <1>5, <1>6, Steps

(* The invariant holds of every behaviour. *)
LEMMA Invariance == Spec => []Inv
  <1>1. Init => Inv
    BY InvInit
  <1>2. Inv /\ [Next]_vars => Inv'
    BY InvStep
  <1> QED
    BY <1>1, <1>2, PTL DEF Spec

-----------------------------------------------------------------------------
(* Types, and that the child is gone with its parent (group.cpp 83-107).   *)
THEOREM Typing == Spec => []TypeOK
  <1>1. Inv => TypeOK
    BY DEF Inv
  <1> QED
    BY <1>1, Invariance, PTL

(* Nothing is read as a class it was not stored as, for whatever formats   *)
(* and patterns processes register and forget, in whatever order           *)
(* (formats.py 70-100, archive.py 240-262).                                *)
THEOREM Faithful == Spec => []NeverMisread
  <1>1. Inv => NeverMisread
    BY InvReads
  <1> QED
    BY <1>1, Invariance, PTL

(* The assertion of C++ and the reader of Python go by the same text, and  *)
(* it is of the class that the object was stored as, if that is defined    *)
(* (format.cpp 28-56).                                                     *)
THEOREM Languages == Spec => []AssertAgrees
  <1>1. Inv => AssertAgrees
    BY InvAsserts
  <1> QED
    BY <1>1, Invariance, PTL

(* Of a process that has more formats and one more pattern, what was read  *)
(* as a class is read as that class, unless a second pattern matches it.   *)
LEMMA Grows ==
    ASSUME NEW reg, NEW more, reg \subseteq more,
           NEW com \in Seq(AllPatterns), NEW longer \in Seq(AllPatterns),
           Len(com) <= Len(longer), \A i \in 1..Len(com) : longer[i] = com[i],
           NEW t \in Texts, ReadingAt(reg, com, t) \notin {"group", "raises"}
    PROVE  \/ ReadingAt(more, longer, t) = ReadingAt(reg, com, t)
           \/ ReadingAt(more, longer, t) = "raises" /\ t \notin more
  <1>1. t # <<>> /\ InfoAt(reg, com, t) # KeyError /\ InfoAt(reg, com, t) # TypeError
    BY InfoKinds DEF ReadingAt
  <1>2. ReadingAt(reg, com, t) = InfoAt(reg, com, t).class
    BY <1>1 DEF ReadingAt
  <1>3. CASE t \in reg
    <2>1. InfoAt(reg, com, t) = FormatInfo(t, NoHint) /\ InfoAt(more, longer, t) = FormatInfo(t, NoHint)
      BY <1>3 DEF InfoAt
    <2> QED
      BY <1>1, <2>1, Zenon DEF ReadingAt
  <1>4. CASE t \notin reg
    <2>1. PICK i \in MatchingAt(com, t) :
            /\ com[i].clsname \in reg
            /\ InfoAt(reg, com, t) = FormatInfo(com[i].clsname, com[i].hints)
      BY <1>1, <1>4, InfoCases
    <2>2. ReadingAt(reg, com, t) = ClassOf[com[i].clsname]
      BY <1>2, <2>1, InfoKinds
    <2>3. CASE t \in more
      <3>1. InfoAt(more, longer, t) = FormatInfo(t, NoHint)
        BY <2>3 DEF InfoAt
      <3>2. ReadingAt(more, longer, t) = ClassOf[t]
        BY <1>1, <3>1, InfoKinds DEF ReadingAt
      <3>3. ClassOf[t] = ClassOf[com[i].clsname]
        BY <1>1, <2>1, MatchRight
      <3> QED
        BY <2>2, <3>2, <3>3
    <2>4. CASE t \notin more
      <3> DEFINE S == MatchingAt(longer, t)
                 n == Cardinality(S)
      <3>1. i \in 1..Len(com) /\ IsPrefix(com[i].regex, t)
        BY <2>1 DEF MatchingAt
      <3>2. i \in S /\ longer[i] = com[i]
        BY <3>1 DEF MatchingAt
      <3>3. IsFiniteSet(S) /\ n \in Nat /\ n # 0
        BY <3>2, MatchingFinite, FS_CardinalityType, FS_EmptySet
      <3>4. CASE n > 1
        <4>1. InfoAt(more, longer, t) = TypeError
          BY <2>4, <3>4 DEF InfoAt
        <4> QED
          BY <1>1, <2>4, <4>1, InfoKinds DEF ReadingAt
      <3>5. CASE ~(n > 1)
        <4>1. n = 1
          BY <3>3, <3>5
        <4>2. S = {i}
          BY <3>2, <3>3, <4>1, FS_Singleton
        <4>3. (CHOOSE j \in S : TRUE) = i
          BY <4>2
        <4>4. InfoAt(more, longer, t) = FormatInfo(com[i].clsname, com[i].hints)
          BY <2>1, <2>4, <3>2, <3>5, <4>1, <4>3 DEF InfoAt
        <4>5. ReadingAt(more, longer, t) = ClassOf[com[i].clsname]
          BY <1>1, <4>4, InfoKinds DEF ReadingAt
        <4> QED
          BY <2>2, <4>5
      <3> QED
        BY <3>4, <3>5
    <2> QED
      BY <2>3, <2>4
  <1> QED
    BY <1>3, <1>4

(* What a process can read it goes on to read as the same class; only a    *)
(* format found by a pattern may become ambiguous (formats.py 93).         *)
THEOREM Readable == Spec => ReadableStays
  <1> DEFINE More ==
        /\ <<registry, compat>>' # <<registry, compat>>
        /\ registry \subseteq registry' /\ Len(compat) <= Len(compat')
  <1>1. ASSUME Inv, [Next]_vars, NEW o \in exists, More, Reconstruct(o, <<>>) \notin {"group", "raises"}
        PROVE  \/ Reconstruct(o, <<>>)' = Reconstruct(o, <<>>)
               \/ /\ Reconstruct(o, <<>>)' = "raises"
                  /\ read_hdf5_format_from_key(o) \notin registry'
    <2> DEFINE t == read_hdf5_format_from_key(o)
    <2>1. \/ \E f \in Tags : Register(f)
          \/ \E p \in Patterns : RegisterCompat(p)
      <3>1. ~(UNCHANGED <<registry, compat>>)
        BY <1>1
      <3>2. ~Restart
        <4> SUFFICES ASSUME Restart PROVE FALSE
          OBVIOUS
        <4>1. registry' = registry
          BY <1>1 DEF Restart, Inv, TypeOK
        <4>2. compat \in Seq(AllPatterns) /\ compat' \in Seq(AllPatterns)
          BY <1>1, InvStep DEF Inv, CompatOK
        <4>3. Len(compat) = Len(compat') /\ \A i \in 1..Len(compat) : compat[i] = compat'[i]
          BY <1>1, <4>2 DEF Restart, Inv, CompatOK
        <4>4. compat' = compat
          BY <4>2, <4>3
        <4> QED
          BY <1>1, <4>1, <4>4
      <3>3. ASSUME NEW p \in Objects, NEW f \in Tags PROVE ~Replaced(p, f)
        BY <3>1 DEF Replaced, Store, StoreElsewhere, StoreOld, Replace
      <3> QED
        BY <1>1, <3>1, <3>2, <3>3, Steps DEF Written, vars
    <2>2. attrs' = attrs /\ registry \subseteq registry'
      BY <1>1, <2>1 DEF Register, RegisterCompat
    <2>3. /\ compat \in Seq(AllPatterns) /\ compat' \in Seq(AllPatterns)
          /\ Len(compat) <= Len(compat') /\ \A i \in 1..Len(compat) : compat'[i] = compat[i]
      <3>1. compat \in Seq(AllPatterns) /\ compat' \in Seq(AllPatterns)
        BY <1>1, InvStep DEF Inv, CompatOK
      <3> QED
        BY <2>1, <3>1 DEF Register, RegisterCompat
    <2>4. read_hdf5_format_from_key(o)' = t
      BY <2>2 DEF read_hdf5_format_from_key
    <2>5. t \in Texts
      BY <1>1, FormatText DEF Inv, TypeOK
    <2>6. /\ Reconstruct(o, <<>>) = ReadingAt(registry, compat, t)
          /\ Reconstruct(o, <<>>)' = ReadingAt(registry', compat', t)
      BY <2>4, ReconstructIs
    <2> HIDE DEF t
    <2>7. \/ Reconstruct(o, <<>>)' = Reconstruct(o, <<>>)
          \/ Reconstruct(o, <<>>)' = "raises" /\ t \notin registry'
      BY <1>1, <2>2, <2>3, <2>5, <2>6, Grows
    <2> QED
      BY <2>7 DEF t
  <1>2. Inv /\ [Next]_vars =>
          [\A o \in exists :
              /\ <<registry, compat>>' # <<registry, compat>>
              /\ registry \subseteq registry' /\ Len(compat) <= Len(compat')
              /\ Reconstruct(o, <<>>) \notin {"group", "raises"}
              => \/ Reconstruct(o, <<>>)' = Reconstruct(o, <<>>)
                 \/ /\ Reconstruct(o, <<>>)' = "raises"
                    /\ read_hdf5_format_from_key(o) \notin registry']_vars
    BY <1>1
  <1> QED
    BY <1>2, Invariance, PTL DEF Spec, ReadableStays

(* Neither write_hdf5_format nor another attribute writer changes a tag    *)
(* that is there: only a new object in its place does (string.cpp 108).    *)
THEOREM TagsStay == Spec => TagOnce
  <1>1. ASSUME Inv, [Next]_vars, NEW o \in exists, NEW n \in AttrNames,
               attrs[o][n] # Nothing, attrs'[o][n] # attrs[o][n]
        PROVE  \E p \in Objects, f \in Tags :
                  o \in Gone(p) /\ (Store(p, f) \/ StoreElsewhere(p, f) \/ StoreOld(p, f))
    <2>1. /\ o \in Objects /\ DOMAIN attrs = Objects
          /\ \A p \in Objects : attrs[p] \in [AttrNames -> Attributes]
      BY <1>1 DEF Inv, TypeOK, AttrsOK, Right
    <2>2. attrs' # attrs
      BY <1>1
    <2>3. ASSUME NEW p \in exists, NEW k \in AttrNames, NEW s \in Texts PROVE ~Written(p, k, s)
      <3> SUFFICES ASSUME Written(p, k, s) PROVE FALSE
        OBVIOUS
      <3> DEFINE d == write_string(s)
      <3>1. attrs' = [attrs EXCEPT ![p][k] = IF @ = Nothing THEN d ELSE @]
        BY DEF Written
      <3> HIDE DEF d
      <3>2. CASE p = o /\ k = n
        BY <1>1, <2>1, <3>1, <3>2
      <3>3. CASE p # o \/ k # n
        BY <1>1, <2>1, <3>1, <3>3
      <3> QED
        BY <3>2, <3>3
    <2>4. PICK p \in Objects, f \in Tags : Replaced(p, f)
      BY <1>1, <2>2, <2>3, Steps DEF Register, RegisterCompat, Restart, vars
    <2>5. o \in Gone(p)
      BY <1>1, <2>1, <2>4 DEF Replaced, Store, StoreElsewhere, StoreOld, Replace, Gone
    <2> QED
      BY <2>4, <2>5 DEF Replaced
  <1>2. Inv /\ [Next]_vars =>
          [\A o \in exists, n \in AttrNames :
              attrs[o][n] # Nothing /\ attrs'[o][n] # attrs[o][n] =>
                  \E p \in Objects, f \in Tags :
                      o \in Gone(p) /\ (Store(p, f) \/ StoreElsewhere(p, f) \/ StoreOld(p, f))]_vars
    BY <1>1
  <1> QED
    BY <1>2, Invariance, PTL DEF Spec, TagOnce
=============================================================================
