------------------------- MODULE ContainersProofs -------------------------
(***************************************************************************)
(* h5_write of a container, proved for any types and values.               *)
(*                                                                         *)
(* However deep a value is and wherever its writing throws, only the link  *)
(* under the name of the outermost call changes among what was in the file *)
(* before.  The inductive invariant says where the calls that are still to *)
(* come write to: under the name of the outermost call, or in a group that *)
(* has been made since it began (Owned).                                   *)
(*                                                                         *)
(* What h5_read gives afterwards is the value, or part of it if an         *)
(* exception ended the writing, and no element of what was there before.   *)
(* The invariant knows the calls that the h5_write consists of and which   *)
(* of them has made each new object (History); what each call has written  *)
(* is followed from the datasets up, by induction on the list of types.    *)
(***************************************************************************)
EXTENDS ContainerPromises, GroupOpsProofs

Calls == {Call(p[1], g, k, p[2]) : p \in Parts, g \in Nodes, k \in Names}

CallsIn(n) == {c \in Calls : c.grp = n}

PendingOK == pending \in Seq(Calls)

LastOK == "ended" \in DOMAIN last

(* The part of TypeOK that is about the file. *)
FileOK ==
    /\ links \in Tables
    /\ kind \in [Nodes -> {"none", "group", "data"}]
    /\ DOMAIN data = Nodes
    /\ \A n \in Nodes : kind[n] = "data" <=> data[n] # Blank
    /\ tag \in [Nodes -> {"List", "Tuple", "Dict", Untagged}]
    /\ \A n \in Nodes : tag[n] # Untagged => kind[n] = "group"

Owned ==
    pending # <<>> =>
        /\ last.old \subseteq {n \in Nodes : kind[n] # "none"}
        /\ \A i \in DOMAIN pending : pending[i].grp \in last.old =>
              pending[i].grp = last.call.grp /\ pending[i].key = last.call.key

Inv == TypeOK /\ FileOK /\ PendingOK /\ LastOK /\ Owned

(* What a step with calls to come does to the file: it sets the link of    *)
(* the next call, and leaves the objects that there are as they are.       *)
Step ==
    /\ links' = links \/ \E l \in Links : links' = SetLink(links, Top.grp, Top.key, l)
    /\ \A n \in Nodes : kind[n] # "none" =>
          kind'[n] = kind[n] /\ data'[n] = data[n] /\ tag'[n] = tag[n]

-----------------------------------------------------------------------------
(* Calls. *)

(* What a call consists of. *)
LEMMA CallFields ==
    ASSUME NEW T, NEW g, NEW k, NEW v
    PROVE  LET c == Call(T, g, k, v)
           IN  c.type = T /\ c.grp = g /\ c.key = k /\ c.val = v
  BY DEF Call

(* A call for a part of a value. *)
LEMMA PartCall ==
    ASSUME NEW T, NEW v, <<T, v>> \in Parts, NEW g \in Nodes, NEW k \in Names
    PROVE  Call(T, g, k, v) \in CallsIn(g)
  <1> DEFINE p == <<T, v>>
  <1>1. p[1] = T /\ p[2] = v /\ p \in Parts
    OBVIOUS
  <1> HIDE DEF p
  <1>2. Call(p[1], g, k, p[2]) \in Calls
    BY <1>1 DEF Calls
  <1> QED
    BY <1>1, <1>2, CallFields DEF CallsIn

(* What a call is made of. *)
LEMMA CallParts ==
    ASSUME NEW c \in Calls
    PROVE  /\ c.grp \in Nodes /\ c.key \in Names
           /\ <<c.type, c.val>> \in Parts
           /\ c = Call(c.type, c.grp, c.key, c.val)
  <1>1. PICK p \in Parts, g \in Nodes, k \in Names : c = Call(p[1], g, k, p[2])
    BY DEF Calls
  <1>2. p = <<p[1], p[2]>>
    BY PartsAssumption
  <1> QED
    BY <1>1, <1>2, CallFields

(* Every part has its type. *)
LEMMA PartTyped ==
    ASSUME NEW T, NEW v, <<T, v>> \in Parts
    PROVE  Typed(T, v)
  <1> DEFINE p == <<T, v>>
  <1>1. p[1] = T /\ p[2] = v /\ p \in Parts
    OBVIOUS
  <1> HIDE DEF p
  <1> QED
    BY <1>1, PartsAssumption

(* A type of the list is a template applied to others of the list. *)
LEMMA TypeMade ==
    ASSUME NEW T \in Types
    PROVE  \E S \in SUBSET Types : MadeOf(T, S)
  <1>1. PICK i \in DOMAIN TypeList : T = TypeList[i]
    BY DEF Types, ToSet
  <1>2. DOMAIN TypeList = 1..Len(TypeList) /\ Len(TypeList) \in Nat
    BY TypesAssumption
  <1> DEFINE S == {TypeList[j] : j \in 1..(i - 1)}
  <1>3. S \subseteq Types
    BY <1>2 DEF Types, ToSet
  <1>4. MadeOf(T, S)
    BY <1>1, TypesAssumption
  <1> QED
    BY <1>3, <1>4

(* What a part is of, unless it is an element of a map with other keys. *)
LEMMA PartTypes ==
    ASSUME NEW T, NEW v, <<T, v>> \in Parts
    PROVE  IF T.con = "entry"
             THEN \E U \in Types : U.con = "keyed_map" /\ T = Entry(U)
             ELSE T \in Types
  <1> DEFINE p == <<T, v>>
  <1>1. p[1] = T /\ p \in Parts
    OBVIOUS
  <1> HIDE DEF p
  <1>2. T \in Types \/ \E U \in Types : U.con = "keyed_map" /\ T = Entry(U)
    BY <1>1, PartsAssumption
  <1>3. \A U : Entry(U).con = "entry"
    BY DEF Entry
  <1>4. ASSUME T \in Types PROVE T.con # "entry"
    <2>1. PICK S \in SUBSET Types : MadeOf(T, S)
      BY <1>4, TypeMade
    <2> QED
      BY <2>1 DEF MadeOf
  <1> QED
    BY <1>2, <1>3, <1>4

(* The i-th element of a list goes under the i-th name. *)
LEMMA Listed ==
    ASSUME NEW m \in Nat, m <= Len(Index), NEW n \in Nodes, NEW types, NEW vals,
           \A i \in 1..m : <<types[i], vals[i]>> \in Parts
    PROVE  \A i \in 1..m : Call(types[i], n, Index[i], vals[i]) \in CallsIn(n)
  <1> SUFFICES ASSUME NEW i \in 1..m
               PROVE  Call(types[i], n, Index[i], vals[i]) \in CallsIn(n)
    OBVIOUS
  <1>1. Index[i] \in Names
    BY NamesAssumption
  <1> QED
    BY <1>1, PartCall

(* The members of a finite set in some order. *)
LEMMA SetToSeqIs ==
    ASSUME NEW S, IsFiniteSet(S)
    PROVE  /\ SetToSeq(S) \in Seq(S) /\ Len(SetToSeq(S)) = Cardinality(S)
           /\ DOMAIN SetToSeq(S) = 1..Cardinality(S) /\ Cardinality(S) \in Nat
  <1>1. Cardinality(S) \in Nat /\ ExistsBijection(1..Cardinality(S), S)
    BY FS_CardinalityType
  <1>2. PICK f : f \in Bijection(1..Cardinality(S), S)
    BY <1>1 DEF ExistsBijection
  <1>3. f \in [1..Cardinality(S) -> S] /\ IsInjective(f)
    BY <1>2, Zenon DEF Bijection, Injection, IsInjective
  <1>4. SetToSeq(S) \in [1..Cardinality(S) -> S]
    BY <1>3, Zenon DEF SetToSeq
  <1> QED
    BY <1>1, <1>4

(* Each member of a finite set is once in its sequence. *)
LEMMA SetToSeqOnce ==
    ASSUME NEW S, IsFiniteSet(S)
    PROVE  /\ \A i \in 1..Cardinality(S) : SetToSeq(S)[i] \in S
           /\ \A i, j \in 1..Cardinality(S) : SetToSeq(S)[i] = SetToSeq(S)[j] => i = j
           /\ \A x \in S : \E i \in 1..Cardinality(S) : SetToSeq(S)[i] = x
  <1> DEFINE m == Cardinality(S)
             f == SetToSeq(S)
  <1>1. m \in Nat /\ ExistsBijection(1..m, S)
    BY FS_CardinalityType
  <1>2. PICK b : b \in Bijection(1..m, S)
    BY <1>1 DEF ExistsBijection
  <1>3. b \in [1..m -> S] /\ IsInjective(b)
    BY <1>2, Zenon DEF Bijection, Injection, IsInjective
  <1>4. f \in [1..m -> S] /\ IsInjective(f)
    BY <1>3, Zenon DEF SetToSeq
  <1> HIDE DEF f, m
  <1>5. f \in Injection(1..m, S)
    BY <1>4 DEF Injection, IsInjective
  <1>6. IsFiniteSet(1..m) /\ Cardinality(1..m) = m
    BY <1>1, FS_Interval
  <1>7. f \in Surjection(1..m, S)
    BY <1>5, <1>6, FS_Injection DEF m
  <1> QED
    BY <1>4, <1>7 DEF Surjection, IsInjective, f, m

(* A container is filled by calls in its own group. *)
LEMMA ElementCalls ==
    ASSUME NEW T, NEW v, <<T, v>> \in Parts, IsGroup(T), NEW n \in Nodes
    PROVE  Elements(T, v, n) \in Seq(CallsIn(n))
  <1> DEFINE part(t, w) == <<t, w>> \in Parts
             listed == v = List(v.items) /\ v.items \in Seq(ToSet(v.items)) /\ Len(v.items) <= Len(Index)
  <1>1. ASSUME listed, NEW t, \A i \in DOMAIN v.items : part(t, v.items[i])
        PROVE  [i \in DOMAIN v.items |-> Call(t, n, Index[i], v.items[i])] \in Seq(CallsIn(n))
    <2>1. DOMAIN v.items = 1..Len(v.items) /\ Len(v.items) \in Nat /\ Len(v.items) <= Len(Index)
      BY <1>1
    <2>2. \A i \in 1..Len(v.items) : Index[i] \in Names
      BY <2>1, NamesAssumption
    <2>3. \A i \in 1..Len(v.items) : Call(t, n, Index[i], v.items[i]) \in CallsIn(n)
      BY <1>1, <2>1, <2>2, PartCall
    <2> QED
      BY <2>1, <2>3
  <1>2. CASE T.con = "vector" /\ listed /\ \A i \in DOMAIN v.items : part(T.of, v.items[i])
    BY <1>1, <1>2 DEF Elements, VectorElements
  <1>3. CASE /\ T.con = "tuple" /\ listed /\ Len(v.items) = Len(T.elems)
             /\ \A i \in DOMAIN v.items : part(T.elems[i], v.items[i])
    <2>1. DOMAIN v.items = 1..Len(v.items) /\ Len(v.items) \in Nat /\ Len(v.items) <= Len(Index)
      BY <1>3
    <2>2. \A i \in 1..Len(v.items) : Call(T.elems[i], n, Index[i], v.items[i]) \in CallsIn(n)
      BY <1>3, <2>1, Listed
    <2>3. TupleElements(T, v, n) \in Seq(CallsIn(n))
      BY <2>1, <2>2 DEF TupleElements
    <2> QED
      BY <1>3, <2>3 DEF Elements
  <1>4. CASE /\ T.con = "pair" /\ v = List(<<v.items[1], v.items[2]>>)
             /\ part(T.first, v.items[1]) /\ part(T.second, v.items[2])
    <2>0. Len(Index) >= 2
      <3>1. PICK S \in SUBSET Types : MadeOf(T, S)
        BY <1>4, PartTypes, TypeMade
      <3> QED
        BY <1>4, <3>1 DEF MadeOf
    <2>1. Index[1] \in Names /\ Index[2] \in Names
      BY <2>0, NamesAssumption
    <2>2. PairElements(T, v, n) \in Seq(CallsIn(n))
      BY <1>4, <2>1, PartCall DEF PairElements
    <2> QED
      BY <1>4, <2>2 DEF Elements
  <1>5. CASE /\ T.con = "array" /\ listed /\ Len(v.items) = T.size
             /\ part(T.shape, Leaf(T.shape.dtype, T.shape.extent, T.size))
             /\ \A i \in DOMAIN v.items : part(T.of, v.items[i])
    <2>1. VectorElements(T, v, n) \in Seq(CallsIn(n))
      BY <1>1, <1>5 DEF VectorElements
    <2>2. Call(T.shape, n, ShapeName, Leaf(T.shape.dtype, T.shape.extent, T.size)) \in CallsIn(n)
      BY <1>5, PartCall, NamesAssumption
    <2>3. ArrayElements(T, v, n) \in Seq(CallsIn(n))
      BY <2>1, <2>2 DEF ArrayElements
    <2> QED
      BY <1>5, <2>3 DEF Elements
  <1>6. CASE /\ T.con = "map" /\ v = Dict([k \in DOMAIN v.entries |-> v.entries[k]])
             /\ IsFiniteSet(DOMAIN v.entries) /\ DOMAIN v.entries \subseteq Names
             /\ \A k \in DOMAIN v.entries : part(T.of, v.entries[k])
    <2> DEFINE order == SetToSeq(DOMAIN v.entries)
    <2>1. order \in Seq(DOMAIN v.entries)
      BY <1>6, SetToSeqIs
    <2>2. MapElements(T, v, n) = [i \in DOMAIN order |-> Call(T.of, n, order[i], v.entries[order[i]])]
      BY DEF MapElements
    <2> HIDE DEF order
    <2>3. DOMAIN order = 1..Len(order) /\ Len(order) \in Nat
      BY <2>1
    <2>4. ASSUME NEW i \in DOMAIN order
          PROVE  Call(T.of, n, order[i], v.entries[order[i]]) \in CallsIn(n)
      <3>1. order[i] \in DOMAIN v.entries
        BY <2>1, <2>3
      <3> QED
        BY <1>6, <3>1, PartCall
    <2>5. MapElements(T, v, n) \in Seq(CallsIn(n))
      BY <2>2, <2>3, <2>4
    <2> QED
      BY <1>6, <2>5 DEF Elements
  <1>7. CASE /\ T.con = "keyed_map" /\ v = Pairs(v.pairs)
             /\ IsFiniteSet(v.pairs) /\ Cardinality(v.pairs) <= Len(Index)
             /\ \A q \in v.pairs : part(Entry(T), q)
    <2> DEFINE order == SetToSeq(v.pairs)
    <2>1. order \in Seq(v.pairs) /\ DOMAIN order = 1..Len(order)
          /\ Len(order) \in Nat /\ Len(order) <= Len(Index)
      BY <1>7, SetToSeqIs
    <2>2. PairsElements(T, v, n) = [i \in DOMAIN order |-> Call(Entry(T), n, Index[i], order[i])]
      BY DEF PairsElements
    <2> HIDE DEF order
    <2>3. ASSUME NEW i \in DOMAIN order
          PROVE  Call(Entry(T), n, Index[i], order[i]) \in CallsIn(n)
      <3>1. order[i] \in v.pairs /\ Index[i] \in Names
        BY <2>1, NamesAssumption
      <3> QED
        BY <1>7, <3>1, PartCall
    <2>4. PairsElements(T, v, n) \in Seq(CallsIn(n))
      BY <2>1, <2>2, <2>3
    <2> QED
      BY <1>7, <2>4 DEF Elements
  <1>8. CASE T.con = "entry" /\ v = <<v[1], v[2]>> /\ part(T.key, v[1]) /\ part(T.of, v[2])
    <2>1. EntryElements(T, v, n) \in Seq(CallsIn(n))
      BY <1>8, PartCall, NamesAssumption DEF EntryElements
    <2> QED
      BY <1>8, <2>1 DEF Elements
  <1>9. Typed(T, v) /\ T.con # "leaf" /\ T.con # "optional" /\ T.con # "variant"
    BY PartTyped DEF IsGroup
  <1> QED
    BY <1>2, <1>3, <1>4, <1>5, <1>6, <1>7, <1>8, <1>9, Zenon DEF Typed

(* The value in an optional or a variant goes under the same name. *)
LEMMA UnwrappedCalls ==
    ASSUME NEW c \in Calls, c.type.con \in {"optional", "variant"}
    PROVE  /\ Unwrapped(c) \in Seq(Calls)
           /\ \A i \in DOMAIN Unwrapped(c) : Unwrapped(c)[i].grp = c.grp /\ Unwrapped(c)[i].key = c.key
  <1> DEFINE T == c.type
             v == c.val
             as(t) == Call(t, c.grp, c.key, v.val)
  <1>1. /\ c.grp \in Nodes /\ c.key \in Names /\ <<T, v>> \in Parts
        /\ c = Call(T, c.grp, c.key, v)
    BY CallParts
  <1>2. ASSUME NEW t, <<t, v.val>> \in Parts
        PROVE  as(t) \in Calls /\ as(t).grp = c.grp /\ as(t).key = c.key
    BY <1>1, <1>2, PartCall, CallFields DEF CallsIn
  <1>3. CASE T.con = "optional" /\ v = None
    <2>1. Unwrapped(c) = <<>>
      BY <1>3 DEF Unwrapped
    <2> QED
      BY <2>1
  <1>4. CASE T.con = "optional" /\ v # None /\ <<T.of, v.val>> \in Parts
    <2>1. Unwrapped(c) = <<as(T.of)>>
      BY <1>4 DEF Unwrapped
    <2> QED
      BY <1>2, <1>4, <2>1
  <1>5. CASE T.con = "variant" /\ <<T.alts[v.alt], v.val>> \in Parts
    <2>1. Unwrapped(c) = <<as(T.alts[v.alt])>>
      BY <1>5 DEF Unwrapped
    <2> QED
      BY <1>2, <1>5, <2>1
  <1> QED
    BY <1>1, <1>3, <1>4, <1>5, PartTyped DEF Typed

-----------------------------------------------------------------------------
(* Steps: which link changes, which object is made, and what is still to   *)
(* come.                                                                   *)

(* A list of calls followed by what is left of another. *)
LEMMA Queue ==
    ASSUME NEW p \in Seq(Calls), p # <<>>, NEW s \in Seq(Calls)
    PROVE  /\ Head(p) \in Calls /\ Head(p) = p[1] /\ 1 \in DOMAIN p
           /\ Tail(p) \in Seq(Calls)
           /\ s \o Tail(p) \in Seq(Calls)
           /\ \A i \in DOMAIN (s \o Tail(p)) :
                 \/ \E j \in DOMAIN s : (s \o Tail(p))[i] = s[j]
                 \/ \E j \in DOMAIN p : (s \o Tail(p))[i] = p[j]
  <1>1. Len(p) \in Nat /\ Len(p) >= 1 /\ Len(s) \in Nat
    OBVIOUS
  <1>2. /\ Tail(p) \in Seq(Calls) /\ Len(Tail(p)) = Len(p) - 1
        /\ \A i \in 1..(Len(p) - 1) : Tail(p)[i] = p[i + 1]
    BY <1>1
  <1> DEFINE t == Tail(p)
  <1> HIDE DEF t
  <1>3. /\ s \o t \in Seq(Calls) /\ Len(s \o t) = Len(s) + Len(t)
        /\ \A i \in 1..Len(s \o t) : (s \o t)[i] = IF i <= Len(s) THEN s[i] ELSE t[i - Len(s)]
    BY <1>1, <1>2 DEF t
  <1>4. ASSUME NEW i \in DOMAIN (s \o t)
        PROVE  \/ \E j \in DOMAIN s : (s \o t)[i] = s[j]
               \/ \E j \in DOMAIN p : (s \o t)[i] = p[j]
    <2>1. i \in 1..(Len(s) + Len(p) - 1) /\ i \in Nat
      BY <1>1, <1>2, <1>3 DEF t
    <2>2. CASE i <= Len(s)
      BY <1>3, <2>1, <2>2
    <2>3. CASE i > Len(s)
      <3>1. i - Len(s) \in 1..(Len(p) - 1) /\ (s \o t)[i] = t[i - Len(s)]
        BY <1>1, <1>3, <2>1, <2>3
      <3>2. (s \o t)[i] = p[i - Len(s) + 1] /\ i - Len(s) + 1 \in 1..Len(p)
        BY <1>1, <1>2, <3>1 DEF t
      <3> QED
        BY <3>2
    <2> QED
      BY <1>1, <2>1, <2>2, <2>3
  <1> QED
    BY <1>1, <1>2, <1>3, <1>4 DEF t

(* The next call writes a typed value in a group. *)
LEMMA NextCall ==
    ASSUME Inv, pending # <<>>
    PROVE  /\ Top \in Calls /\ Top.grp \in Nodes /\ Top.key \in Names
           /\ <<Top.type, Top.val>> \in Parts /\ Typed(Top.type, Top.val)
           /\ kind[Top.grp] = "group"
           /\ \E i \in DOMAIN pending : Top = pending[i]
  <1>1. pending \in Seq(Calls)
    BY DEF Inv, PendingOK
  <1>2. <<>> \in Seq(Calls)
    OBVIOUS
  <1>3. Top \in Calls /\ Top = pending[1] /\ 1 \in DOMAIN pending
    BY <1>1, <1>2, Queue DEF Top
  <1>4. Top.grp \in Nodes /\ Top.key \in Names /\ <<Top.type, Top.val>> \in Parts
    BY <1>3, CallParts
  <1>5. kind[Top.grp] = "group"
    BY <1>3 DEF Inv, TypeOK
  <1> QED
    BY <1>3, <1>4, <1>5, PartTyped

(* The calls s take the place of the next call. *)
LEMMA AfterReturn ==
    ASSUME Inv, pending # <<>>, FileOK', Step, NEW s \in Seq(Calls), Return(s \o Tail(pending)),
           \A i \in DOMAIN s :
               /\ kind'[s[i].grp] = "group"
               /\ s[i].grp \in last.old => s[i].grp = Top.grp /\ s[i].key = Top.key
    PROVE  Inv'
  <1> DEFINE q == s \o Tail(pending)
  <1>1. pending \in Seq(Calls)
    BY DEF Inv, PendingOK
  <1>2. /\ q \in Seq(Calls) /\ pending' = q
        /\ \A i \in DOMAIN q :
              \/ \E j \in DOMAIN s : q[i] = s[j]
              \/ \E j \in DOMAIN pending : q[i] = pending[j]
    <2>1. pending' = q
      BY DEF Return
    <2> HIDE DEF q
    <2>2. ASSUME NEW p \in Seq(Calls), p # <<>>, q = s \o Tail(p)
          PROVE  /\ q \in Seq(Calls)
                 /\ \A i \in DOMAIN q :
                       \/ \E j \in DOMAIN s : q[i] = s[j]
                       \/ \E j \in DOMAIN p : q[i] = p[j]
      BY <2>2, Queue, Zenon
    <2>3. q = s \o Tail(pending)
      BY DEF q
    <2> QED
      BY <1>1, <2>1, <2>2, <2>3
  <1> HIDE DEF q
  <1>3. ASSUME NEW n \in Nodes, kind[n] # "none" PROVE kind'[n] = kind[n]
    BY <1>3 DEF Step
  <1>4. ASSUME NEW i \in DOMAIN q PROVE kind'[q[i].grp] = "group"
    <2>1. CASE \E j \in DOMAIN s : q[i] = s[j]
      BY <2>1
    <2>2. ASSUME NEW j \in DOMAIN pending, q[i] = pending[j] PROVE kind'[q[i].grp] = "group"
      <3>0. \A m \in DOMAIN pending : kind[pending[m].grp] = "group"
        BY DEF Inv, TypeOK
      <3>1. kind[q[i].grp] = "group" /\ pending[j] \in Calls
        BY <1>1, <2>2, <3>0
      <3>2. q[i].grp \in Nodes
        BY <2>2, <3>1, CallParts
      <3> QED
        BY <1>3, <3>1, <3>2
    <2> QED
      BY <1>2, <2>1, <2>2
  <1>5. q # <<>> <=> last'.ended = "not yet"
    <2>1. last.ended = "not yet"
      BY DEF Inv, TypeOK
    <2>2. CASE q = <<>>
      BY <2>2 DEF Return, q, Inv, LastOK
    <2>3. CASE q # <<>>
      BY <2>1, <2>3 DEF Return, q
    <2> QED
      BY <2>2, <2>3
  <1>6. TypeOK'
    BY <1>2, <1>4, <1>5 DEF TypeOK, FileOK, Tables
  <1>7. PendingOK'
    BY <1>2 DEF PendingOK
  <1>8. LastOK'
    BY DEF Return, Inv, LastOK
  <1>9. Owned'
    <2> SUFFICES ASSUME q # <<>>
                 PROVE  /\ last'.old \subseteq {n \in Nodes : kind'[n] # "none"}
                        /\ \A i \in DOMAIN q : q[i].grp \in last'.old =>
                              q[i].grp = last'.call.grp /\ q[i].key = last'.call.key
      BY <1>2 DEF Owned
    <2>1. last' = last
      BY DEF Return, q
    <2>2. last.old \subseteq {n \in Nodes : kind[n] # "none"}
      BY DEF Inv, Owned
    <2>3. \A j \in DOMAIN pending : pending[j].grp \in last.old =>
             pending[j].grp = last.call.grp /\ pending[j].key = last.call.key
      BY DEF Inv, Owned
    <2>4. PICK j \in DOMAIN pending : Top = pending[j]
      BY NextCall
    <2>5. ASSUME NEW i \in DOMAIN q, q[i].grp \in last.old
          PROVE  q[i].grp = last.call.grp /\ q[i].key = last.call.key
      BY <1>2, <2>3, <2>4, <2>5
    <2> QED
      BY <1>3, <2>1, <2>2, <2>5
  <1> QED
    BY <1>6, <1>7, <1>8, <1>9 DEF Inv

(* The calls to come are given up. *)
LEMMA AfterUnwind ==
    ASSUME Inv, pending # <<>>, FileOK', Unwind
    PROVE  Inv'
  <1>1. pending' = <<>> /\ last'.ended = "thrown" /\ "ended" \in DOMAIN last'
    BY DEF Unwind, Inv, LastOK
  <1>2. TypeOK'
    BY <1>1 DEF TypeOK, FileOK, Tables
  <1>3. PendingOK'
    BY <1>1 DEF PendingOK
  <1>4. LastOK' /\ Owned'
    BY <1>1 DEF LastOK, Owned
  <1> QED
    BY <1>2, <1>3, <1>4 DEF Inv

(* A new dataset under the name of the next call. *)
LEMMA NewDataset ==
    ASSUME Inv, pending # <<>>, NEW n \in Unused, NEW x, x # Blank,
           links' = create_dataset(links, Top.grp, Top.key, n, TRUE).links,
           NewObject(n, "data"), data' = [data EXCEPT ![n] = x], tag' = tag
    PROVE  FileOK' /\ Step
  <1>1. n \in Nodes /\ kind[n] = "none"
    BY DEF Unused
  <1>2. links \in Tables
    BY DEF Inv, FileOK
  <1>3. links' = SetLink(links, Top.grp, Top.key, Hard(n)) /\ Hard(n) \in Links
    BY <1>1, <1>2, NextCall, CreateDatasetResult, SomeLinks DEF Creates
  <1>4. links' \in Tables
    BY <1>2, <1>3, NextCall, SetLinkTyping
  <1>5. FileOK'
    BY <1>1, <1>4 DEF Inv, FileOK, NewObject
  <1>6. Step
    BY <1>1, <1>3 DEF Step, Inv, FileOK, NewObject
  <1> QED
    BY <1>5, <1>6

(* A new group under the name of the next call, with a tag or without.     *)
LEMMA NewGroup ==
    ASSUME Inv, pending # <<>>, NEW n \in Unused,
           links' = MakeGroup(links, Top.grp, Top.key, n),
           NewObject(n, "group"), data' = data,
           NEW f \in {"List", "Tuple", "Dict", Untagged},
           tag' = tag \/ tag' = [tag EXCEPT ![n] = f]
    PROVE  FileOK' /\ Step
  <1>1. n \in Nodes /\ kind[n] = "none"
    BY DEF Unused
  <1>2. links \in Tables
    BY DEF Inv, FileOK
  <1>3. links' = SetLink(links, Top.grp, Top.key, Hard(n)) /\ Hard(n) \in Links
    <2> DEFINE r == create_group(links, Top.grp, Top.key, n, TRUE, TRUE)
    <2>1. Creates(r, links, Top.grp, Top.key, Hard(n), TRUE) /\ r.ok
      BY <1>1, <1>2, NextCall, CreateGroupResult
    <2>2. links' = r.links
      BY DEF MakeGroup
    <2> HIDE DEF r
    <2> QED
      BY <1>1, <2>1, <2>2, SomeLinks DEF Creates
  <1>4. links' \in Tables
    BY <1>2, <1>3, NextCall, SetLinkTyping
  <1>5. FileOK'
    BY <1>1, <1>4 DEF Inv, FileOK, NewObject
  <1>6. Step
    BY <1>1, <1>3 DEF Step, Inv, FileOK, NewObject
  <1> QED
    BY <1>5, <1>6

(* Nothing happens to the file. *)
LEMMA SameFile ==
    ASSUME Inv, UNCHANGED file
    PROVE  FileOK' /\ Step
  BY DEF Inv, FileOK, file, Step

(* A client begins to write. *)
LEMMA StepWrite ==
    ASSUME Inv, NEW g \in Nodes, NEW k \in Keys, NEW i \in Inputs, Write(g, k, i[1], i[2])
    PROVE  Inv'
  <1> DEFINE c == Call(i[1], g, k, i[2])
  <1>1. FileOK'
    BY SameFile DEF Write
  <1>2. k \in Names /\ <<i[1], i[2]>> \in Parts
    BY NamesAssumption, PartsAssumption
  <1>3. c \in Calls /\ c.grp = g /\ c.key = k
    BY <1>2, PartCall, CallFields DEF CallsIn
  <1>4. pending' = <<c>> /\ kind' = kind /\ kind[g] = "group"
    BY DEF Write, file
  <1>5. last' = [ended |-> "not yet", number |-> last.number + 1, call |-> c, link |-> links[g][k],
                 read |-> Read(i[1], g, k), old |-> Nodes \ Unused]
    BY DEF Write
  <1> HIDE DEF c
  <1>6. /\ "ended" \in DOMAIN last' /\ last'.ended = "not yet"
        /\ last'.call = c /\ last'.old = Nodes \ Unused
    BY <1>5
  <1>a. DOMAIN <<c>> = {1} /\ <<c>>[1] = c /\ <<c>> # <<>> /\ <<c>> \in Seq(Calls)
    BY <1>3
  <1>7. TypeOK'
    <2>1. \A j \in DOMAIN pending' : kind'[pending'[j].grp] = "group"
      BY <1>3, <1>4, <1>a
    <2> QED
      BY <1>1, <1>4, <1>6, <1>a, <2>1 DEF TypeOK, FileOK, Tables
  <1>8. PendingOK'
    BY <1>4, <1>a DEF PendingOK
  <1>9. Owned'
    <2>1. \A j \in DOMAIN pending' : pending'[j].grp = c.grp /\ pending'[j].key = c.key
      BY <1>4, <1>a
    <2>2. last'.old \subseteq {n \in Nodes : kind'[n] # "none"}
      BY <1>4, <1>6 DEF Unused
    <2> QED
      BY <1>6, <2>1, <2>2 DEF Owned
  <1> QED
    BY <1>1, <1>6, <1>7, <1>8, <1>9 DEF Inv, LastOK

(* An optional or a variant hands over its value. *)
LEMMA StepUnwrap ==
    ASSUME Inv, Unwrap
    PROVE  Inv' /\ Step
  <1>1. FileOK' /\ Step /\ kind' = kind
    BY SameFile DEF Unwrap, file
  <1>2. pending # <<>> /\ Top.type.con \in {"optional", "variant"}
    BY DEF Unwrap
  <1> DEFINE s == Unwrapped(Top)
  <1>3. s \in Seq(Calls) /\ \A i \in DOMAIN s : s[i].grp = Top.grp /\ s[i].key = Top.key
    BY <1>2, NextCall, UnwrappedCalls
  <1>4. Return(s \o Tail(pending))
    BY DEF Unwrap
  <1>5. kind'[Top.grp] = "group"
    BY <1>1, <1>2, NextCall
  <1> HIDE DEF s
  <1> QED
    BY <1>1, <1>2, <1>3, <1>4, <1>5, AfterReturn

(* A dataset is written. *)
LEMMA StepWriteLeaf ==
    ASSUME Inv, WriteLeaf
    PROVE  Inv' /\ Step
  <1>1. PICK n \in Unused :
            /\ pending # <<>> /\ Top.type.con = "leaf"
            /\ links' = create_dataset(links, Top.grp, Top.key, n, TRUE).links
            /\ NewObject(n, "data") /\ data' = [data EXCEPT ![n] = Top.val] /\ tag' = tag
            /\ Return(Tail(pending))
    BY DEF WriteLeaf
  <1>2. Top.val # Blank
    BY <1>1, NextCall DEF Typed, Leaf, Blank
  <1>3. FileOK' /\ Step
    BY <1>1, <1>2, NewDataset
  <1>4. pending \in Seq(Calls)
    BY DEF Inv, PendingOK
  <1>5. Tail(pending) = <<>> \o Tail(pending) /\ <<>> \in Seq(Calls) /\ DOMAIN <<>> = {}
    BY <1>1, <1>4
  <1>6. Return(<<>> \o Tail(pending))
    BY <1>1, <1>5
  <1>7. \A i \in DOMAIN <<>> : kind'[<<>>[i].grp] = "group"
            /\ (<<>>[i].grp \in last.old => <<>>[i].grp = Top.grp /\ <<>>[i].key = Top.key)
    OBVIOUS
  <1> QED
    BY <1>1, <1>3, <1>5, <1>6, <1>7, AfterReturn

(* The Format of a group that is written is one of three, or none. *)
LEMMA FormatType ==
    ASSUME NEW T, NEW v, Typed(T, v), IsGroup(T)
    PROVE  FormatOf(T) \in {"List", "Tuple", "Dict", Untagged}
  <1>1. CASE T.con = "vector"
    BY <1>1 DEF FormatOf, FormatOfVector
  <1>2. CASE T.con = "pair"
    BY <1>2 DEF FormatOf, FormatOfPair
  <1>3. CASE T.con = "tuple"
    BY <1>3 DEF FormatOf, FormatOfTuple
  <1>4. CASE T.con \in {"map", "keyed_map"}
    BY <1>4 DEF FormatOf, FormatOfMap
  <1>5. CASE T.con \in {"array", "entry"}
    BY <1>5 DEF FormatOf
  <1>6. T.con \in {"vector", "pair", "tuple", "map", "keyed_map", "array", "entry"}
    BY Zenon DEF Typed, IsGroup
  <1> QED
    BY <1>1, <1>2, <1>3, <1>4, <1>5, <1>6

(* A group is written, and its elements come next. *)
LEMMA StepWriteGroup ==
    ASSUME Inv, WriteGroup
    PROVE  Inv' /\ Step
  <1>1. PICK n \in Unused :
            /\ pending # <<>> /\ IsGroup(Top.type)
            /\ links' = MakeGroup(links, Top.grp, Top.key, n)
            /\ NewObject(n, "group") /\ data' = data
            /\ tag' = [tag EXCEPT ![n] = FormatOf(Top.type)]
            /\ Return(Elements(Top.type, Top.val, n) \o Tail(pending))
    BY DEF WriteGroup
  <1>2. n \in Nodes /\ kind[n] = "none"
    BY DEF Unused
  <1>3. FormatOf(Top.type) \in {"List", "Tuple", "Dict", Untagged}
    BY <1>1, NextCall, FormatType
  <1>4. FileOK' /\ Step
    BY <1>1, <1>3, NewGroup
  <1> DEFINE s == Elements(Top.type, Top.val, n)
  <1>5. s \in Seq(CallsIn(n))
    BY <1>1, <1>2, NextCall, ElementCalls
  <1>6. Return(s \o Tail(pending))
    BY <1>1
  <1> HIDE DEF s
  <1>7. s \in Seq(Calls) /\ \A i \in DOMAIN s : s[i].grp = n
    BY <1>5 DEF CallsIn
  <1>8. kind'[n] = "group"
    BY <1>1, <1>2 DEF NewObject, Inv, FileOK
  <1>9. n \notin last.old
    BY <1>1, <1>2 DEF Inv, Owned
  <1> QED
    BY <1>1, <1>4, <1>6, <1>7, <1>8, <1>9, AfterReturn

(* An exception, before, in or after what HDF5 does. *)
LEMMA StepFail ==
    ASSUME Inv, Fail \/ FailUnlinked \/ FailTorn
    PROVE  Inv' /\ Step
  <1>1. pending # <<>> /\ Unwind
    BY DEF Fail, FailUnlinked, FailTorn
  <1>2. ASSUME Fail PROVE FileOK' /\ Step
    BY <1>2, SameFile DEF Fail
  <1>3. ASSUME FailUnlinked PROVE FileOK' /\ Step
    <2>1. links \in Tables
      BY DEF Inv, FileOK
    <2>2. links' = links \/ links' = SetLink(links, Top.grp, Top.key, NoLink)
      BY <1>1, <1>3, <2>1, NextCall, UnlinkResult DEF FailUnlinked
    <2>3. links' \in Tables /\ NoLink \in Links
      BY <1>1, <2>1, <2>2, NextCall, SetLinkTyping, SomeLinks
    <2>4. FileOK'
      BY <1>3, <2>3 DEF FailUnlinked, Inv, FileOK
    <2>5. Step
      BY <1>3, <2>2, <2>3 DEF FailUnlinked, Step
    <2> QED
      BY <2>4, <2>5
  <1>4. ASSUME FailTorn PROVE FileOK' /\ Step
    <2>1. PICK n \in Unused :
            /\ \/ /\ links' = create_dataset(links, Top.grp, Top.key, n, TRUE).links
                  /\ NewObject(n, "data")
                  /\ \E x \in {Fill, Top.val.leaf} :
                        data' = [data EXCEPT ![n] = Leaf(Top.type.dtype, Top.type.extent, x)]
               \/ /\ links' = MakeGroup(links, Top.grp, Top.key, n)
                  /\ NewObject(n, "group")
                  /\ data' = data
            /\ tag' = tag
      BY <1>4 DEF FailTorn
    <2>2. \A t, e, x : Leaf(t, e, x) # Blank
      BY DEF Leaf, Blank
    <2>3. ASSUME links' = create_dataset(links, Top.grp, Top.key, n, TRUE).links, NewObject(n, "data"),
                 NEW x, data' = [data EXCEPT ![n] = Leaf(Top.type.dtype, Top.type.extent, x)]
          PROVE  FileOK' /\ Step
      BY <1>1, <2>1, <2>2, <2>3, NewDataset
    <2>4. ASSUME links' = MakeGroup(links, Top.grp, Top.key, n), NewObject(n, "group"), data' = data
          PROVE  FileOK' /\ Step
      BY <1>1, <2>1, <2>4, NewGroup
    <2> QED
      BY <2>1, <2>3, <2>4
  <1>5. FileOK' /\ Step
    BY <1>2, <1>3, <1>4
  <1> QED
    BY <1>1, <1>5, AfterUnwind

(* While calls are under way, every step is one of theirs. *)
LEMMA InvStep ==
    ASSUME Inv, [Next]_vars
    PROVE  Inv' /\ (pending # <<>> => Step)
  <1>1. ASSUME NEW g \in Nodes, NEW k \in Keys, NEW i \in Inputs, Write(g, k, i[1], i[2])
        PROVE  Inv' /\ pending = <<>>
    BY <1>1, StepWrite DEF Write
  <1>2. CASE UNCHANGED vars
    <2>1. Inv'
      BY <1>2 DEF vars, Inv, TypeOK, FileOK, PendingOK, LastOK, Owned
    <2>2. Step
      BY <1>2 DEF vars, Step
    <2> QED
      BY <2>1, <2>2
  <1> QED
    BY <1>1, <1>2, StepUnwrap, StepWriteLeaf, StepWriteGroup, StepFail DEF Next

(* An empty file satisfies the invariant. *)
LEMMA InvInit ==
    ASSUME Init
    PROVE  Inv
  <1>1. EmptyGroup \in [Names -> Links] /\ Root \in Nodes
    BY SomeLinks, RootIsNode DEF EmptyGroup
  <1>2. FileOK
    BY <1>1 DEF Init, FileOK, Tables
  <1>3. pending = <<>> /\ "ended" \in DOMAIN last /\ last.ended = "never"
    BY DEF Init, NoCall
  <1>4. TypeOK
    BY <1>2, <1>3 DEF TypeOK, FileOK, Tables
  <1> QED
    BY <1>2, <1>3, <1>4 DEF Inv, PendingOK, LastOK, Owned

(* The invariant holds of every behaviour. *)
LEMMA Invariance == Spec => []Inv
  <1>1. Init => Inv
    BY InvInit
  <1>2. Inv /\ [Next]_vars => Inv'
    BY InvStep
  <1> QED
    BY <1>1, <1>2, PTL DEF Spec

-----------------------------------------------------------------------------
(* Types, for any containers; the groups that calls still write to are     *)
(* there (stl/*.hpp).                                                      *)
THEOREM Typing == Spec => []TypeOK
  <1>1. Inv => TypeOK
    BY DEF Inv
  <1> QED
    BY <1>1, Invariance, PTL

(* Whatever is written and wherever that ends, no object changes that was  *)
(* in the file before, and no link but the one under the name of the       *)
(* outermost call (group.cpp 109-158, stl/vector.hpp 139-146).             *)
THEOREM OldStays == Spec => Untouched
  <1>1. ASSUME Inv, [Next]_vars, pending # <<>>, NEW n \in last.old
        PROVE  /\ kind'[n] = kind[n] /\ data'[n] = data[n] /\ tag'[n] = tag[n]
               /\ \A k \in Names :
                    n # last.call.grp \/ k # last.call.key => links'[n][k] = links[n][k]
    <2>1. n \in Nodes /\ kind[n] # "none"
      BY <1>1 DEF Inv, Owned
    <2>2. Step
      BY <1>1, InvStep
    <2>3. ASSUME NEW k \in Names, n # last.call.grp \/ k # last.call.key
          PROVE  links'[n][k] = links[n][k]
      <3>1. links \in Tables
        BY <1>1 DEF Inv, FileOK
      <3>2. Top.grp \in Nodes /\ Top.key \in Names
        BY <1>1, NextCall
      <3>3. Top.grp \in last.old => Top.grp = last.call.grp /\ Top.key = last.call.key
        BY <1>1, NextCall DEF Inv, Owned
      <3>4. n # Top.grp \/ k # Top.key
        BY <1>1, <2>3, <3>3
      <3> QED
        BY <2>1, <2>2, <3>1, <3>2, <3>4, SetLinkValue DEF Step
    <2> QED
      BY <2>1, <2>2, <2>3 DEF Step
  <1>2. Inv /\ [Next]_vars =>
          [pending # <<>> =>
             \A n \in last.old :
                /\ kind'[n] = kind[n] /\ data'[n] = data[n] /\ tag'[n] = tag[n]
                /\ \A k \in Names :
                     n # last.call.grp \/ k # last.call.key => links'[n][k] = links[n][k]]_vars
    BY <1>1
  <1> QED
    BY <1>2, Invariance, PTL DEF Spec, Untouched

-----------------------------------------------------------------------------
(* Recursion on types: each type is made of types that come before it.     *)

Before(n) == {TypeList[j] : j \in 1..n}

(* What passes from the types that a type is made of to the type itself    *)
(* holds of all.                                                           *)
LEMMA TypeInduction ==
    ASSUME NEW Q, \A T \in Types, S \in SUBSET Q : MadeOf(T, S) => T \in Q
    PROVE  Types \subseteq Q
  <1> DEFINE R == {n \in Nat : n <= Len(TypeList) => Before(n) \subseteq Q}
  <1>1. Len(TypeList) \in Nat /\ DOMAIN TypeList = 1..Len(TypeList)
    BY TypesAssumption
  <1>2. 0 \in R
    BY DEF Before
  <1>3. ASSUME NEW n \in Nat, n < Len(TypeList), n \in R
        PROVE  n + 1 \in R
    <2>1. Before(n) \in SUBSET Q
      BY <1>1, <1>3
    <2>2. n + 1 \in DOMAIN TypeList /\ (n + 1) - 1 = n
      BY <1>1, <1>3
    <2>3. TypeList[n + 1] \in Types /\ MadeOf(TypeList[n + 1], Before(n))
      BY <2>2, TypesAssumption DEF Before, Types, ToSet
    <2>4. TypeList[n + 1] \in Q
      BY <2>1, <2>3
    <2>5. Before(n + 1) \subseteq Before(n) \cup {TypeList[n + 1]}
      BY <1>3 DEF Before
    <2> QED
      BY <1>3, <2>1, <2>4, <2>5
  <1> HIDE DEF R
  <1>4. 0..Len(TypeList) \subseteq R
    BY <1>1, <1>2, <1>3, UpTo
  <1>5. Before(Len(TypeList)) \subseteq Q
    BY <1>1, <1>4 DEF R
  <1> QED
    BY <1>1, <1>5 DEF Before, Types, ToSet

(* Two functions give the same for the types in S. *)
Agree(S, f, e) == \A t \in S, h \in Nodes, j \in Names : f[t][h][j] = e[t][h][j]

(* A group has finitely many keys. *)
LEMMA KeysFinite ==
    ASSUME NEW l, NEW g
    PROVE  /\ keys(l, g) \subseteq Names /\ IsFiniteSet(keys(l, g))
           /\ Cardinality(keys(l, g)) \in Nat
  <1>1. keys(l, g) \subseteq Names
    BY DEF keys
  <1>2. IsFiniteSet(keys(l, g))
    BY <1>1, LinkNamesAssumption, FS_Subset
  <1> QED
    BY <1>1, <1>2, FS_CardinalityType

(* Collect looks at its elements only. *)
LEMMA CollectSame ==
    ASSUME NEW s, NEW r, s = r
    PROVE  Collect(s) = Collect(r)
  BY DEF Collect

(* The first read that gives no value. *)
LEMMA FirstEndingEnds ==
    ASSUME NEW n \in Nat, NEW s, DOMAIN s = 1..n, \E i \in 1..n : s[i] \in Ends
    PROVE  FirstEnding(s) \in Ends
  <1> DEFINE E == {i \in 1..n : s[i] \in Ends}
  <1>1. PICK l \in E : \A i \in E : l <= i
    <2>1. E \subseteq Nat /\ E # {}
      OBVIOUS
    <2> HIDE DEF E
    <2> QED
      BY <2>1, Least
  <1>2. l \in 1..n /\ s[l] \in Ends /\ \A i \in 1..n : s[i] \in Ends => l <= i
    BY <1>1
  <1>3. l \in DOMAIN s /\ s[l] \in Ends /\ \A j \in 1..(l - 1) : s[j] \notin Ends
    BY <1>2
  <1> QED
    BY <1>3 DEF FirstEnding

(* What ends the read of a list is what the read of one element ended in. *)
LEMMA CollectEnds ==
    ASSUME NEW n \in Nat, NEW s, DOMAIN s = 1..n, \E i \in 1..n : s[i] \in Ends
    PROVE  Collect(s) \in Ends
  BY FirstEndingEnds DEF Collect

(* So it is in a map. *)
LEMMA EndingByNameEnds ==
    ASSUME NEW K, IsFiniteSet(K), NEW r, DOMAIN r = K, NEW k \in K, r[k] \in Ends
    PROVE  EndingByName(r) \in Ends
  <1> DEFINE order == SetToSeq(K)
             s == [i \in DOMAIN order |-> r[order[i]]]
  <1>1. DOMAIN order = 1..Cardinality(K) /\ Cardinality(K) \in Nat
    BY SetToSeqIs
  <1>2. PICK i \in 1..Cardinality(K) : order[i] = k
    BY SetToSeqOnce
  <1>3. EndingByName(r) = FirstEnding(s)
    BY DEF EndingByName
  <1>4. DOMAIN s = 1..Cardinality(K) /\ s[i] = r[k]
    BY <1>1, <1>2
  <1> HIDE DEF s
  <1> QED
    BY <1>1, <1>2, <1>3, <1>4, FirstEndingEnds

(* Reading in a group needs the types that the type is made of. *)
LEMMA ReadGroupLocal ==
    ASSUME NEW S, NEW t, MadeOf(t, S), IsGroup(t), NEW g \in Nodes,
           NEW f, NEW e, Agree(S, f, e)
    PROVE  ReadGroup(t, g, f) = ReadGroup(t, g, e)
  <1>n. Len(Index) \in Nat /\ \A i \in 1..Len(Index) : Index[i] \in Names
    BY NamesAssumption
  <1>1. CASE t.con = "vector"
    <2>1. ASSUME ~(Length(g) > Len(Index))
          PROVE  [i \in 1..Length(g) |-> f[t.of][g][Index[i]]] = [i \in 1..Length(g) |-> e[t.of][g][Index[i]]]
      <3>1. Length(g) \in Nat
        BY KeysFinite DEF Length
      <3>2. \A i \in 1..Length(g) : Index[i] \in Names
        BY <1>n, <2>1, <3>1
      <3>3. t.of \in S
        BY <1>1 DEF MadeOf
      <3> QED
        BY <3>2, <3>3 DEF Agree
    <2>2. ReadVector(t, g, f) = ReadVector(t, g, e)
      BY <2>1, CollectSame DEF ReadVector
    <2> QED
      BY <1>1, <2>2 DEF ReadGroup
  <1>2. CASE t.con = "tuple"
    <2>1. t.elems \in Seq(S) /\ Len(t.elems) <= Len(Index)
      BY <1>2 DEF MadeOf
    <2>2. \A i \in DOMAIN t.elems : t.elems[i] \in S /\ Index[i] \in Names
      BY <1>n, <2>1
    <2>3. [i \in DOMAIN t.elems |-> f[t.elems[i]][g][Index[i]]] = [i \in DOMAIN t.elems |-> e[t.elems[i]][g][Index[i]]]
      BY <2>2 DEF Agree
    <2>4. ReadTuple(t, g, f) = ReadTuple(t, g, e)
      BY <2>3, CollectSame DEF ReadTuple
    <2> QED
      BY <1>2, <2>4 DEF ReadGroup
  <1>3. CASE t.con = "pair"
    <2>1. t.first \in S /\ t.second \in S /\ Index[1] \in Names /\ Index[2] \in Names
      BY <1>n, <1>3 DEF MadeOf
    <2>2. ReadPair(t, g, f) = ReadPair(t, g, e)
      BY <2>1 DEF ReadPair, Agree
    <2> QED
      BY <1>3, <2>2 DEF ReadGroup
  <1>4. CASE t.con = "array"
    <2>1. t.size \in 0..Len(Index) /\ t.of \in S /\ t.shape \in S
      BY <1>4 DEF MadeOf
    <2>2. \A i \in 1..t.size : Index[i] \in Names
      BY <1>n, <2>1
    <2>3. [i \in 1..t.size |-> f[t.of][g][Index[i]]] = [i \in 1..t.size |-> e[t.of][g][Index[i]]]
      BY <2>1, <2>2 DEF Agree
    <2>4. f[t.shape][g][ShapeName] = e[t.shape][g][ShapeName]
      BY <2>1, NamesAssumption DEF Agree
    <2>5. ReadArray(t, g, f) = ReadArray(t, g, e)
      BY <2>3, <2>4, CollectSame DEF ReadArray
    <2> QED
      BY <1>4, <2>5 DEF ReadGroup
  <1>5. CASE t.con = "map"
    <2>1. t.of \in S
      BY <1>5 DEF MadeOf
    <2>2. \A k \in keys(links, g) : f[t.of][g][k] = e[t.of][g][k]
      BY <2>1, KeysFinite DEF Agree
    <2>3. [k \in keys(links, g) |-> f[t.of][g][k]] = [k \in keys(links, g) |-> e[t.of][g][k]]
      BY <2>2
    <2>4. ReadMap(t, g, f) = ReadMap(t, g, e)
      BY <2>3 DEF ReadMap
    <2> QED
      BY <1>5, <2>4 DEF ReadGroup
  <1>6. CASE t.con = "keyed_map"
    <2>1. t.key \in S /\ t.of \in S
      BY <1>6 DEF MadeOf
    <2> DEFINE open(k) == Resolve(links, g, k)
               partf(u, k, name) == IF has_subgroup(links, kind, g, k) THEN f[u][open(k)][name] ELSE Throw
               parte(u, k, name) == IF has_subgroup(links, kind, g, k) THEN e[u][open(k)][name] ELSE Throw
    <2>2. ASSUME NEW k \in keys(links, g)
          PROVE  /\ partf(t.key, k, KeyName) = parte(t.key, k, KeyName)
                 /\ partf(t.of, k, ValName) = parte(t.of, k, ValName)
      <3>1. has_subgroup(links, kind, g, k) => open(k) \in Nodes
        BY DEF has_subgroup
      <3> QED
        BY <2>1, <3>1, NamesAssumption DEF Agree
    <2> DEFINE xf == [k \in keys(links, g) |-> partf(t.key, k, KeyName)]
               yf == [k \in keys(links, g) |-> partf(t.of, k, ValName)]
               xe == [k \in keys(links, g) |-> parte(t.key, k, KeyName)]
               ye == [k \in keys(links, g) |-> parte(t.of, k, ValName)]
               pairs(x, y) ==
                  IF \E k \in keys(links, g) : {x[k], y[k]} \cap Ends # {}
                    THEN EndingByName([k \in keys(links, g) |-> IF x[k] \in Ends THEN x[k] ELSE y[k]])
                    ELSE Pairs({<<x[k], y[k]>> : k \in keys(links, g)})
    <2>3. ReadPairs(t, g, f) = pairs(xf, yf) /\ ReadPairs(t, g, e) = pairs(xe, ye)
      BY Zenon DEF ReadPairs
    <2> HIDE DEF partf, parte
    <2>4. xf = xe /\ yf = ye
      BY <2>2
    <2> HIDE DEF xf, yf, xe, ye, pairs
    <2>5. ReadPairs(t, g, f) = ReadPairs(t, g, e)
      BY <2>3, <2>4
    <2> QED
      BY <1>6, <2>5 DEF ReadGroup
  <1> QED
    BY <1>1, <1>2, <1>3, <1>4, <1>5, <1>6 DEF MadeOf, IsGroup

(* So does reading under a name. *)
LEMMA ReadByLocal ==
    ASSUME NEW S, NEW t, MadeOf(t, S), NEW g \in Nodes, NEW k \in Names,
           NEW f, NEW e, Agree(S, f, e)
    PROVE  ReadBy(t, g, k, f) = ReadBy(t, g, k, e)
  <1>1. CASE t.con = "leaf"
    BY <1>1 DEF ReadBy
  <1>2. CASE t.con = "optional"
    <2>1. f[t.of][g][k] = e[t.of][g][k]
      BY <1>2 DEF MadeOf, Agree
    <2> QED
      BY <1>2, <2>1 DEF ReadBy, ReadOptional
  <1>3. CASE t.con = "variant"
    <2> DEFINE fits == {i \in DOMAIN t.alts : t.alts[i].dtype = data[Resolve(links, g, k)].dtype}
               i == CHOOSE i \in fits : \A j \in fits : i <= j
    <2>1. t.alts \in Seq({U \in S : U.con = "leaf"})
      BY <1>3 DEF MadeOf
    <2>2. ASSUME fits # {} PROVE i \in fits
      <3>1. DOMAIN t.alts \subseteq Nat
        BY <2>1
      <3>2. fits \subseteq Nat
        BY <3>1
      <3> HIDE DEF fits
      <3>3. \E m \in fits : \A j \in fits : m <= j
        BY <2>2, <3>2, Least
      <3> QED
        BY <3>3
    <2>3. ASSUME fits # {} PROVE f[t.alts[i]][g][k] = e[t.alts[i]][g][k]
      <3>1. i \in DOMAIN t.alts
        BY <2>2, <2>3
      <3> HIDE DEF i
      <3>2. t.alts[i] \in S
        BY <2>1, <3>1
      <3> QED
        BY <3>2 DEF Agree
    <2>4. ReadVariant(t, g, k, f) =
            IF ~has_dataset(links, kind, g, k) \/ fits = {} THEN Throw
            ELSE IF f[t.alts[i]][g][k] \in Ends THEN f[t.alts[i]][g][k] ELSE Alt(i, f[t.alts[i]][g][k])
      BY DEF ReadVariant
    <2>5. ReadVariant(t, g, k, e) =
            IF ~has_dataset(links, kind, g, k) \/ fits = {} THEN Throw
            ELSE IF e[t.alts[i]][g][k] \in Ends THEN e[t.alts[i]][g][k] ELSE Alt(i, e[t.alts[i]][g][k])
      BY DEF ReadVariant
    <2> HIDE DEF fits, i
    <2>6. ReadVariant(t, g, k, f) = ReadVariant(t, g, k, e)
      BY <2>3, <2>4, <2>5
    <2> QED
      BY <1>3, <2>6 DEF ReadBy
  <1>4. CASE IsGroup(t)
    <2>1. ASSUME has_subgroup(links, kind, g, k)
          PROVE  ReadGroup(t, Resolve(links, g, k), f) = ReadGroup(t, Resolve(links, g, k), e)
      <3>1. Resolve(links, g, k) \in Nodes
        BY <2>1 DEF has_subgroup
      <3> QED
        BY <1>4, <3>1, ReadGroupLocal
    <2>2. t.con # "leaf" /\ t.con # "optional" /\ t.con # "variant"
      BY <1>4 DEF IsGroup
    <2> QED
      BY <1>4, <2>1, <2>2 DEF ReadBy
  <1> QED
    BY <1>1, <1>2, <1>3, <1>4 DEF IsGroup

(* More types to make a type of. *)
LEMMA MadeOfMore ==
    ASSUME NEW S, NEW R, S \subseteq R, NEW t, MadeOf(t, S)
    PROVE  MadeOf(t, R)
  <1>1. ASSUME t.con = "variant", t.alts \in Seq({U \in S : U.con = "leaf"})
        PROVE  t.alts \in Seq({U \in R : U.con = "leaf"})
    <2>1. {U \in S : U.con = "leaf"} \subseteq {U \in R : U.con = "leaf"}
      OBVIOUS
    <2> QED
      BY <1>1, <2>1
  <1>2. ASSUME t.con = "tuple", t.elems \in Seq(S)
        PROVE  t.elems \in Seq(R)
    BY <1>2
  <1> QED
    BY <1>1, <1>2 DEF MadeOf

(* f reads the types in S. *)
ReadsOn(S, f) == f = [t \in S |-> [h \in Nodes |-> [j \in Names |-> ReadBy(t, h, j, f)]]]

(* What it gives. *)
LEMMA ReadsOnStep ==
    ASSUME NEW S, NEW f, ReadsOn(S, f), NEW t \in S, NEW g \in Nodes, NEW k \in Names
    PROVE  f[t][g][k] = ReadBy(t, g, k, f)
  BY DEF ReadsOn

(* There is such a function for the first n types. *)
LEMMA ReadExists == \E f : ReadsOn(Types, f)
  <1> DEFINE R == {n \in Nat : n <= Len(TypeList) => \E f : ReadsOn(Before(n), f)}
  <1>1. Len(TypeList) \in Nat /\ DOMAIN TypeList = 1..Len(TypeList)
    BY TypesAssumption
  <1>2. 0 \in R
    <2> DEFINE f == [t \in {} |-> t]
    <2>1. Before(0) = {}
      BY DEF Before
    <2>2. ReadsOn(Before(0), f)
      BY <2>1 DEF ReadsOn
    <2> QED
      BY <2>2
  <1>3. ASSUME NEW n \in Nat, n < Len(TypeList), n \in R
        PROVE  n + 1 \in R
    <2> DEFINE S == Before(n)
               T == TypeList[n + 1]
    <2>1. PICK f : ReadsOn(S, f)
      BY <1>1, <1>3
    <2> DEFINE e == [t \in Before(n + 1) |-> [h \in Nodes |-> [j \in Names |-> ReadBy(t, h, j, f)]]]
    <2>2. Before(n + 1) = S \cup {T}
      BY <1>3 DEF Before
    <2>3. \A t \in S, h \in Nodes, j \in Names : f[t][h][j] = ReadBy(t, h, j, f)
      BY <2>1, ReadsOnStep
    <2>4. \A t \in Before(n + 1), h \in Nodes, j \in Names : e[t][h][j] = ReadBy(t, h, j, f)
      OBVIOUS
    <2>5. Agree(S, f, e)
      BY <2>2, <2>3, <2>4 DEF Agree
    <2>6. \A t \in Before(n + 1) : MadeOf(t, S)
      <3>1. ASSUME NEW i \in 1..(n + 1) PROVE MadeOf(TypeList[i], S)
        <4>1. i \in DOMAIN TypeList
          BY <1>1, <1>3, <3>1
        <4>2. MadeOf(TypeList[i], Before(i - 1))
          BY <4>1, TypesAssumption DEF Before
        <4>3. Before(i - 1) \subseteq S
          BY <1>3 DEF Before
        <4> HIDE DEF S
        <4> QED
          BY <4>2, <4>3, MadeOfMore
      <3> QED
        BY <3>1 DEF Before
    <2>7. ASSUME NEW t \in Before(n + 1), NEW h \in Nodes, NEW j \in Names
          PROVE  ReadBy(t, h, j, f) = ReadBy(t, h, j, e)
      BY <2>5, <2>6, <2>7, ReadByLocal
    <2>8. e = [t \in Before(n + 1) |-> [h \in Nodes |-> [j \in Names |-> ReadBy(t, h, j, e)]]]
      BY <2>7
    <2> HIDE DEF e
    <2>9. ReadsOn(Before(n + 1), e)
      BY <2>8 DEF ReadsOn
    <2> QED
      BY <2>9
  <1> HIDE DEF R
  <1>4. 0..Len(TypeList) \subseteq R
    BY <1>1, <1>2, <1>3, UpTo
  <1>5. \E f : ReadsOn(Before(Len(TypeList)), f)
    BY <1>1, <1>4 DEF R
  <1>6. Before(Len(TypeList)) = Types
    BY <1>1 DEF Before, Types, ToSet
  <1> QED
    BY <1>5, <1>6

(* Reading is this function. *)
LEMMA ReadUnfolds ==
    \E f : \A T \in Types, g \in Nodes, k \in Names :
       Read(T, g, k) = f[T][g][k] /\ Read(T, g, k) = ReadBy(T, g, k, f)
  <1> DEFINE P(f) == f = [t \in Types |-> [h \in Nodes |-> [j \in Names |-> ReadBy(t, h, j, f)]]]
             f == CHOOSE f : P(f)
  <1>1. P(f)
    <2>1. \E e : P(e)
      BY ReadExists DEF ReadsOn
    <2> HIDE DEF P
    <2> QED
      BY <2>1
  <1>2. \A T, g, k : Read(T, g, k) = f[T][g][k]
    BY DEF Read
  <1> HIDE DEF f
  <1>3. \A T \in Types, g \in Nodes, k \in Names : f[T][g][k] = ReadBy(T, g, k, f)
    BY <1>1
  <1> QED
    BY <1>2, <1>3

-----------------------------------------------------------------------------
(* Recursion on values: the elements of a value are values of the types    *)
(* that its type is made of.                                               *)

(* w is an element of type t. *)
Element(S, t, w) == t \in S /\ <<t, w>> \in Parts

(* A list of elements with names for all of them. *)
ListOK(v) ==
    /\ v = List(v.items) /\ v.items = [i \in 1..Len(v.items) |-> v.items[i]]
    /\ Len(v.items) \in Nat /\ Len(v.items) <= Len(Index)
    /\ DOMAIN v.items = 1..Len(v.items)

(* What a value of each kind consists of. *)
ShapeOK(S, T, v) ==
    /\ T.con = "leaf" => v = Leaf(T.dtype, T.extent, v.leaf)
    /\ T.con = "optional" => v = None \/ (v = Some(v.val) /\ Element(S, T.of, v.val))
    /\ T.con = "variant" =>
          /\ v = Alt(v.alt, v.val) /\ v.alt \in DOMAIN T.alts /\ DOMAIN T.alts = 1..Len(T.alts)
          /\ Len(T.alts) \in Nat /\ \A i \in DOMAIN T.alts : T.alts[i] \in S /\ T.alts[i].con = "leaf"
          /\ Element(S, T.alts[v.alt], v.val)
    /\ T.con = "vector" => ListOK(v) /\ \A i \in DOMAIN v.items : Element(S, T.of, v.items[i])
    /\ T.con = "tuple" =>
          /\ ListOK(v) /\ Len(v.items) = Len(T.elems) /\ DOMAIN T.elems = 1..Len(T.elems)
          /\ \A i \in DOMAIN v.items : Element(S, T.elems[i], v.items[i])
    /\ T.con = "pair" =>
          /\ v = List(<<v.items[1], v.items[2]>>) /\ Len(Index) >= 2
          /\ Element(S, T.first, v.items[1]) /\ Element(S, T.second, v.items[2])
    /\ T.con = "array" =>
          /\ ListOK(v) /\ Len(v.items) = T.size /\ T.shape.con = "leaf"
          /\ Element(S, T.shape, Leaf(T.shape.dtype, T.shape.extent, T.size))
          /\ \A i \in DOMAIN v.items : Element(S, T.of, v.items[i])
    /\ T.con = "map" =>
          /\ v = Dict(v.entries) /\ v.entries = [k \in DOMAIN v.entries |-> v.entries[k]]
          /\ IsFiniteSet(DOMAIN v.entries) /\ DOMAIN v.entries \subseteq Names
          /\ \A k \in DOMAIN v.entries : Element(S, T.of, v.entries[k])
    /\ T.con = "keyed_map" =>
          /\ v = Pairs(v.pairs)
          /\ IsFiniteSet(v.pairs) /\ Cardinality(v.pairs) <= Len(Index)
          /\ \A q \in v.pairs :
                /\ <<Entry(T), q>> \in Parts /\ q = <<q[1], q[2]>>
                /\ Element(S, T.key, q[1]) /\ Element(S, T.of, q[2])

(* The lists of values. *)
LEMMA ListedOK ==
    ASSUME NEW v, v = List(v.items), v.items \in Seq(ToSet(v.items)), Len(v.items) <= Len(Index)
    PROVE  ListOK(v)
  BY DEF ListOK

(* The fields of the constructors. *)
LEMMA ValueFields ==
    /\ \A s : List(s).items = s /\ List(s).is = "list"
    /\ \A f : Dict(f).entries = f /\ Dict(f).is = "dict"
    /\ \A s : Pairs(s).pairs = s /\ Pairs(s).is = "pairs"
    /\ \A x : Some(x).val = x /\ Some(x).is = "some"
    /\ \A i, x : Alt(i, x).alt = i /\ Alt(i, x).val = x /\ Alt(i, x).is = "alt"
    /\ \A d, e, x : Leaf(d, e, x).dtype = d /\ Leaf(d, e, x).extent = e
                    /\ Leaf(d, e, x).leaf = x /\ Leaf(d, e, x).is = "leaf"
    /\ None.is = "none" /\ Throw.is = "throw" /\ Terminate.is = "terminate" /\ NotThere.is = "false" /\ Blank.is = "blank"
  BY DEF List, Dict, Pairs, Some, Alt, Leaf, None, Throw, Terminate, NotThere, Blank

(* The parts of an entry are values. *)
LEMMA EntryParts ==
    ASSUME NEW T, NEW q, <<Entry(T), q>> \in Parts
    PROVE  q = <<q[1], q[2]>> /\ <<T.key, q[1]>> \in Parts /\ <<T.of, q[2]>> \in Parts
  <1>1. Entry(T).con = "entry" /\ Entry(T).key = T.key /\ Entry(T).of = T.of
    BY DEF Entry
  <1>2. Typed(Entry(T), q)
    BY PartTyped
  <1> QED
    BY <1>1, <1>2 DEF Typed

(* Every part has the shape of its type. *)
LEMMA PartShape ==
    ASSUME NEW S, NEW T, NEW v, <<T, v>> \in Parts, MadeOf(T, S)
    PROVE  ShapeOK(S, T, v)
  <1> DEFINE part(t, w) == <<t, w>> \in Parts
             listed == v = List(v.items) /\ v.items \in Seq(ToSet(v.items)) /\ Len(v.items) <= Len(Index)
  <1>t. Typed(T, v)
    BY PartTyped
  <1>1. CASE T.con = "leaf"
    BY <1>1, <1>t DEF Typed, ShapeOK
  <1>2. CASE T.con = "optional"
    BY <1>2, <1>t DEF Typed, ShapeOK, Element, MadeOf
  <1>3. CASE T.con = "variant"
    <2>1. T.alts \in Seq({U \in S : U.con = "leaf"})
      BY <1>3 DEF MadeOf
    <2>2. v = Alt(v.alt, v.val) /\ v.alt \in DOMAIN T.alts /\ part(T.alts[v.alt], v.val)
      BY <1>3, <1>t DEF Typed
    <2> QED
      BY <1>3, <2>1, <2>2 DEF ShapeOK, Element
  <1>4. CASE T.con = "vector"
    <2>1. listed /\ \A i \in DOMAIN v.items : part(T.of, v.items[i])
      BY <1>4, <1>t DEF Typed
    <2>2. ListOK(v) /\ T.of \in S
      BY <1>4, <2>1, ListedOK DEF MadeOf
    <2> QED
      BY <1>4, <2>1, <2>2 DEF ShapeOK, Element
  <1>5. CASE T.con = "tuple"
    <2>1. listed /\ Len(v.items) = Len(T.elems) /\ \A i \in DOMAIN v.items : part(T.elems[i], v.items[i])
      BY <1>5, <1>t DEF Typed
    <2>2. ListOK(v) /\ T.elems \in Seq(S)
      BY <1>5, <2>1, ListedOK DEF MadeOf
    <2>3. DOMAIN T.elems = 1..Len(T.elems) /\ \A i \in DOMAIN T.elems : T.elems[i] \in S
      BY <2>2
    <2>4. DOMAIN v.items = DOMAIN T.elems
      BY <2>1, <2>2, <2>3 DEF ListOK
    <2> QED
      BY <1>5, <2>1, <2>2, <2>3, <2>4 DEF ShapeOK, Element
  <1>6. CASE T.con = "pair"
    BY <1>6, <1>t DEF Typed, ShapeOK, Element, MadeOf
  <1>7. CASE T.con = "array"
    <2>1. /\ listed /\ Len(v.items) = T.size
          /\ part(T.shape, Leaf(T.shape.dtype, T.shape.extent, T.size))
          /\ \A i \in DOMAIN v.items : part(T.of, v.items[i])
      BY <1>7, <1>t DEF Typed
    <2>2. ListOK(v) /\ T.of \in S /\ T.shape \in S /\ T.shape.con = "leaf"
      BY <1>7, <2>1, ListedOK DEF MadeOf
    <2> QED
      BY <1>7, <2>1, <2>2 DEF ShapeOK, Element
  <1>8. CASE T.con = "map"
    <2>1. /\ v = Dict([k \in DOMAIN v.entries |-> v.entries[k]])
          /\ IsFiniteSet(DOMAIN v.entries) /\ DOMAIN v.entries \subseteq Names
          /\ \A k \in DOMAIN v.entries : part(T.of, v.entries[k])
      BY <1>8, <1>t DEF Typed
    <2>2. v.entries = [k \in DOMAIN v.entries |-> v.entries[k]]
      BY <2>1, ValueFields
    <2>3. v = Dict(v.entries) /\ T.of \in S
      BY <1>8, <2>1, <2>2 DEF MadeOf
    <2> QED
      BY <1>8, <2>1, <2>2, <2>3 DEF ShapeOK, Element
  <1>9. CASE T.con = "keyed_map"
    <2>1. /\ v = Pairs(v.pairs) /\ IsFiniteSet(v.pairs) /\ Cardinality(v.pairs) <= Len(Index)
          /\ \A q \in v.pairs : part(Entry(T), q)
      BY <1>9, <1>t DEF Typed
    <2>2. T.key \in S /\ T.of \in S
      BY <1>9 DEF MadeOf
    <2>3. \A q \in v.pairs : q = <<q[1], q[2]>> /\ <<T.key, q[1]>> \in Parts /\ <<T.of, q[2]>> \in Parts
      BY <2>1, EntryParts
    <2> QED
      BY <1>9, <2>1, <2>2, <2>3 DEF ShapeOK, Element
  <1> QED
    BY <1>1, <1>2, <1>3, <1>4, <1>5, <1>6, <1>7, <1>8, <1>9 DEF MadeOf

-----------------------------------------------------------------------------
(* What Storable and Remains say of a value depends on its elements only.  *)

(* Two functions give the same for all values of types in S. *)
AgreeOn(S, f, e) == \A t, w : Element(S, t, w) => f[<<t, w>>] = e[<<t, w>>]

(* Whether a value is storable depends on its elements. *)
LEMMA StorableLocal ==
    ASSUME NEW S, NEW T, NEW v, <<T, v>> \in Parts, MadeOf(T, S), NEW a,
           NEW f, NEW e, AgreeOn(S, f, e)
    PROVE  StorableBy(T, v, a, f) = StorableBy(T, v, a, e)
  <1>0. ShapeOK(S, T, v)
    BY PartShape
  <1>1. CASE T.con = "leaf"
    BY <1>1 DEF StorableBy
  <1>2. CASE T.con = "optional"
    <2>1. v # None => f[<<T.of, v.val>>] = e[<<T.of, v.val>>]
      BY <1>0, <1>2 DEF ShapeOK, AgreeOn
    <2> QED
      BY <1>2, <2>1 DEF StorableBy
  <1>3. CASE T.con = "variant"
    BY <1>3 DEF StorableBy
  <1>4. CASE T.con = "vector"
    <2>1. \A i \in DOMAIN v.items : f[<<T.of, v.items[i]>>] = e[<<T.of, v.items[i]>>]
      BY <1>0, <1>4 DEF ShapeOK, AgreeOn
    <2> QED
      BY <1>4, <2>1 DEF StorableBy
  <1>5. CASE T.con = "tuple"
    <2>1. \A i \in DOMAIN v.items : f[<<T.elems[i], v.items[i]>>] = e[<<T.elems[i], v.items[i]>>]
      BY <1>0, <1>5 DEF ShapeOK, AgreeOn
    <2> QED
      BY <1>5, <2>1 DEF StorableBy
  <1>6. CASE T.con = "pair"
    <2>1. /\ f[<<T.first, v.items[1]>>] = e[<<T.first, v.items[1]>>]
          /\ f[<<T.second, v.items[2]>>] = e[<<T.second, v.items[2]>>]
      BY <1>0, <1>6 DEF ShapeOK, AgreeOn
    <2> QED
      BY <1>6, <2>1 DEF StorableBy
  <1>7. CASE T.con = "array"
    <2>1. \A i \in DOMAIN v.items : f[<<T.of, v.items[i]>>] = e[<<T.of, v.items[i]>>]
      BY <1>0, <1>7 DEF ShapeOK, AgreeOn
    <2> QED
      BY <1>7, <2>1 DEF StorableBy
  <1>8. CASE T.con = "map"
    <2>1. \A k \in DOMAIN v.entries : f[<<T.of, v.entries[k]>>] = e[<<T.of, v.entries[k]>>]
      BY <1>0, <1>8 DEF ShapeOK, AgreeOn
    <2> QED
      BY <1>8, <2>1 DEF StorableBy
  <1>9. CASE T.con = "keyed_map"
    <2>0. \A q \in v.pairs : Element(S, T.key, q[1]) /\ Element(S, T.of, q[2])
      BY <1>0, <1>9 DEF ShapeOK
    <2>1. \A q \in v.pairs : /\ f[<<T.key, q[1]>>] = e[<<T.key, q[1]>>]
                             /\ f[<<T.of, q[2]>>] = e[<<T.of, q[2]>>]
      BY <2>0 DEF AgreeOn
    <2> QED
      BY <1>9, <2>1 DEF StorableBy
  <1> QED
    BY <1>1, <1>2, <1>3, <1>4, <1>5, <1>6, <1>7, <1>8, <1>9 DEF MadeOf

(* The lists of RemainsBy. *)
Lists(v, m, elem, left) == {List(s) : s \in Picks([i \in 1..m |-> left[<<elem[i], v.items[i]>>]])}

(* Lists of the same elements. *)
LEMMA ListsLocal ==
    ASSUME NEW v, NEW m, NEW elem, NEW f, NEW e,
           \A i \in 1..m : f[<<elem[i], v.items[i]>>] = e[<<elem[i], v.items[i]>>]
    PROVE  Lists(v, m, elem, f) = Lists(v, m, elem, e)
  <1>1. [i \in 1..m |-> f[<<elem[i], v.items[i]>>]] = [i \in 1..m |-> e[<<elem[i], v.items[i]>>]]
    OBVIOUS
  <1> QED
    BY <1>1 DEF Lists

(* What may be left of a value depends on its elements. *)
LEMMA RemainsLocal ==
    ASSUME NEW S, NEW T, NEW v, <<T, v>> \in Parts, MadeOf(T, S),
           NEW f, NEW e, AgreeOn(S, f, e)
    PROVE  RemainsBy(T, v, f) = RemainsBy(T, v, e)
  <1>0. ShapeOK(S, T, v)
    BY PartShape
  <1>1. CASE T.con = "leaf"
    BY <1>1 DEF RemainsBy
  <1>2. CASE T.con = "optional"
    <2>1. v # None => f[<<T.of, v.val>>] = e[<<T.of, v.val>>]
      BY <1>0, <1>2 DEF ShapeOK, AgreeOn
    <2> QED
      BY <1>2, <2>1 DEF RemainsBy
  <1>3. CASE T.con = "variant"
    <2>1. f[<<T.alts[v.alt], v.val>>] = e[<<T.alts[v.alt], v.val>>]
      BY <1>0, <1>3 DEF ShapeOK, AgreeOn
    <2> QED
      BY <1>3, <2>1 DEF RemainsBy
  <1>4. CASE T.con = "vector"
    <2>1. \A i \in DOMAIN v.items : f[<<T.of, v.items[i]>>] = e[<<T.of, v.items[i]>>]
      BY <1>0, <1>4 DEF ShapeOK, AgreeOn
    <2>2. Len(v.items) \in Nat /\ DOMAIN v.items = 1..Len(v.items)
      BY <1>0, <1>4 DEF ShapeOK, ListOK
    <2>3. ASSUME NEW m \in 0..Len(v.items)
          PROVE  Lists(v, m, [i \in 1..m |-> T.of], f) = Lists(v, m, [i \in 1..m |-> T.of], e)
      <3> DEFINE elem == [i \in 1..m |-> T.of]
      <3>1. \A i \in 1..m : elem[i] = T.of /\ i \in DOMAIN v.items
        BY <2>2
      <3> HIDE DEF elem
      <3>2. \A i \in 1..m : f[<<elem[i], v.items[i]>>] = e[<<elem[i], v.items[i]>>]
        BY <2>1, <3>1
      <3>3. Lists(v, m, elem, f) = Lists(v, m, elem, e)
        BY <3>2, ListsLocal
      <3> QED
        BY <3>3 DEF elem
    <2>4. RemainsBy(T, v, f) = UNION {Lists(v, m, [i \in 1..m |-> T.of], f) : m \in 0..Len(v.items)}
      BY <1>4 DEF RemainsBy, Lists
    <2>5. RemainsBy(T, v, e) = UNION {Lists(v, m, [i \in 1..m |-> T.of], e) : m \in 0..Len(v.items)}
      BY <1>4 DEF RemainsBy, Lists
    <2> QED
      BY <2>3, <2>4, <2>5
  <1>5. CASE T.con = "tuple"
    <2>1. \A i \in 1..Len(v.items) : f[<<T.elems[i], v.items[i]>>] = e[<<T.elems[i], v.items[i]>>]
      BY <1>0, <1>5 DEF ShapeOK, AgreeOn, ListOK
    <2>2. Lists(v, Len(v.items), T.elems, f) = Lists(v, Len(v.items), T.elems, e)
      BY <2>1, ListsLocal
    <2> QED
      BY <1>5, <2>2 DEF RemainsBy, Lists
  <1>6. CASE T.con = "pair"
    <2> DEFINE elem == <<T.first, T.second>>
    <2>1. elem[1] = T.first /\ elem[2] = T.second
      OBVIOUS
    <2> HIDE DEF elem
    <2>2. \A i \in 1..2 : f[<<elem[i], v.items[i]>>] = e[<<elem[i], v.items[i]>>]
      <3>1. 1..2 = {1, 2}
        OBVIOUS
      <3> QED
        BY <1>0, <1>6, <2>1, <3>1 DEF ShapeOK, AgreeOn
    <2>3. Lists(v, 2, elem, f) = Lists(v, 2, elem, e)
      BY <2>2, ListsLocal
    <2> QED
      BY <1>6, <2>3 DEF RemainsBy, Lists, elem
  <1>7. CASE T.con = "array"
    <2> DEFINE elem == [i \in DOMAIN v.items |-> T.of]
    <2>1. \A i \in 1..Len(v.items) : elem[i] = T.of /\ i \in DOMAIN v.items
      BY <1>0, <1>7 DEF ShapeOK, ListOK
    <2> HIDE DEF elem
    <2>2. \A i \in 1..Len(v.items) : f[<<elem[i], v.items[i]>>] = e[<<elem[i], v.items[i]>>]
      BY <1>0, <1>7, <2>1 DEF ShapeOK, AgreeOn
    <2>3. Lists(v, Len(v.items), elem, f) = Lists(v, Len(v.items), elem, e)
      BY <2>2, ListsLocal
    <2> QED
      BY <1>7, <2>3 DEF RemainsBy, Lists, elem
  <1>8. CASE T.con = "map"
    <2>1. \A k \in DOMAIN v.entries : f[<<T.of, v.entries[k]>>] = e[<<T.of, v.entries[k]>>]
      BY <1>0, <1>8 DEF ShapeOK, AgreeOn
    <2>2. ASSUME NEW K \in SUBSET DOMAIN v.entries
          PROVE  [k \in K |-> f[<<T.of, v.entries[k]>>]] = [k \in K |-> e[<<T.of, v.entries[k]>>]]
      BY <2>1
    <2> DEFINE some(h) == {Picks([k \in K |-> h[<<T.of, v.entries[k]>>]]) : K \in SUBSET DOMAIN v.entries}
    <2>3. some(f) = some(e)
      BY <2>2
    <2>4. \A h : RemainsBy(T, v, h) = {Dict(r) : r \in UNION some(h)}
      BY <1>8 DEF RemainsBy
    <2> HIDE DEF some
    <2> QED
      BY <2>3, <2>4
  <1>9. CASE T.con = "keyed_map"
    <2>0. \A q \in v.pairs : Element(S, T.key, q[1]) /\ Element(S, T.of, q[2])
      BY <1>0, <1>9 DEF ShapeOK
    <2>1. \A q \in v.pairs : /\ f[<<T.key, q[1]>>] = e[<<T.key, q[1]>>]
                             /\ f[<<T.of, q[2]>>] = e[<<T.of, q[2]>>]
      BY <2>0 DEF AgreeOn
    <2> DEFINE some(h) == {h[<<T.key, q[1]>>] \X h[<<T.of, q[2]>>] : q \in v.pairs}
    <2>3. some(f) = some(e)
      BY <2>1
    <2>4. \A h : RemainsBy(T, v, h) = {Pairs(P) : P \in SUBSET UNION some(h)}
      BY <1>9 DEF RemainsBy
    <2> HIDE DEF some
    <2> QED
      BY <2>3, <2>4
  <1> QED
    BY <1>1, <1>2, <1>3, <1>4, <1>5, <1>6, <1>7, <1>8, <1>9 DEF MadeOf

(* The values of types in S. *)
OfTypes(S) == {p \in Readable : p[1] \in S}

(* Such a value is a part, and a pair.                                     *)
LEMMA OfTypesParts ==
    ASSUME NEW S, NEW p \in OfTypes(S)
    PROVE  p = <<p[1], p[2]>> /\ <<p[1], p[2]>> \in Parts /\ p[1] \in S
  <1>1. p \in Parts /\ p[1] \in S
    BY DEF OfTypes, Readable
  <1>2. p = <<p[1], p[2]>>
    BY <1>1, PartsAssumption
  <1> QED
    BY <1>1, <1>2

(* An element of a value made of types in S.                               *)
LEMMA ElementOfTypes ==
    ASSUME NEW S \in SUBSET Types, NEW t, NEW w, Element(S, t, w)
    PROVE  <<t, w>> \in OfTypes(S)
  BY DEF OfTypes, Readable, Element

(* The first n types are types, made of earlier ones. *)
LEMMA BeforeMade ==
    ASSUME NEW n \in Nat, n < Len(TypeList)
    PROVE  /\ Before(n) \in SUBSET Types /\ Before(n + 1) \in SUBSET Types
           /\ Before(n + 1) = Before(n) \cup {TypeList[n + 1]}
           /\ \A t \in Before(n + 1) : MadeOf(t, Before(n))
  <1>1. Len(TypeList) \in Nat /\ DOMAIN TypeList = 1..Len(TypeList)
    BY TypesAssumption
  <1>2. Before(n) \in SUBSET Types /\ Before(n + 1) \in SUBSET Types
    BY <1>1 DEF Before, Types, ToSet
  <1>3. Before(n + 1) = Before(n) \cup {TypeList[n + 1]}
    BY DEF Before
  <1>4. ASSUME NEW i \in 1..(n + 1) PROVE MadeOf(TypeList[i], Before(n))
    <2>1. i \in DOMAIN TypeList
      BY <1>1, <1>4
    <2>2. MadeOf(TypeList[i], Before(i - 1))
      BY <2>1, TypesAssumption DEF Before
    <2>3. Before(i - 1) \subseteq Before(n)
      BY DEF Before
    <2> QED
      BY <2>2, <2>3, MadeOfMore
  <1> QED
    BY <1>2, <1>3, <1>4 DEF Before

(* f says which values of types in S are storable. *)
StoresOn(S, f) == f = [p \in OfTypes(S) |-> [a \in BOOLEAN |-> StorableBy(p[1], p[2], a, f)]]

(* What such a function says of one value.                                 *)
LEMMA StoresOnStep ==
    ASSUME NEW S, NEW f, StoresOn(S, f), NEW p \in OfTypes(S)
    PROVE  f[p] = [a \in BOOLEAN |-> StorableBy(p[1], p[2], a, f)]
  BY DEF StoresOn

(* There is one for all types: each type depends on earlier ones only.     *)
LEMMA StorableExists == \E f : StoresOn(Types, f)
  <1> DEFINE R == {n \in Nat : n <= Len(TypeList) => \E f : StoresOn(Before(n), f)}
  <1>1. Len(TypeList) \in Nat /\ DOMAIN TypeList = 1..Len(TypeList)
    BY TypesAssumption
  <1>2. 0 \in R
    <2> DEFINE f == [t \in {} |-> t]
    <2>1. OfTypes(Before(0)) = {}
      BY DEF Before, OfTypes
    <2>2. StoresOn(Before(0), f)
      BY <2>1 DEF StoresOn
    <2> QED
      BY <2>2
  <1>3. ASSUME NEW n \in Nat, n < Len(TypeList), n \in R
        PROVE  n + 1 \in R
    <2> DEFINE S == Before(n)
               P == OfTypes(Before(n + 1))
    <2>1. PICK f : StoresOn(S, f)
      BY <1>1, <1>3
    <2> DEFINE e == [p \in P |-> [a \in BOOLEAN |-> StorableBy(p[1], p[2], a, f)]]
    <2>2. S \in SUBSET Types /\ OfTypes(S) \subseteq P /\ \A t \in Before(n + 1) : MadeOf(t, S)
      BY <1>3, BeforeMade DEF OfTypes
    <2>3. \A p \in OfTypes(S) : f[p] = [a \in BOOLEAN |-> StorableBy(p[1], p[2], a, f)]
      BY <2>1, StoresOnStep
    <2>4. \A p \in P : e[p] = [a \in BOOLEAN |-> StorableBy(p[1], p[2], a, f)]
      OBVIOUS
    <2>5. AgreeOn(S, f, e)
      <3> HIDE DEF e, P, S
      <3> QED
        BY <2>2, <2>3, <2>4, ElementOfTypes DEF AgreeOn
    <2>6. ASSUME NEW p \in P, NEW a
          PROVE  StorableBy(p[1], p[2], a, f) = StorableBy(p[1], p[2], a, e)
      <3>1. MadeOf(p[1], S) /\ <<p[1], p[2]>> \in Parts
        BY <2>2, <2>6, OfTypesParts
      <3> HIDE DEF e, P, S
      <3> QED
        BY <2>5, <3>1, StorableLocal
    <2>7. e = [p \in P |-> [a \in BOOLEAN |-> StorableBy(p[1], p[2], a, e)]]
      BY <2>6
    <2> HIDE DEF e
    <2>8. StoresOn(Before(n + 1), e)
      BY <2>7 DEF StoresOn
    <2> QED
      BY <2>8
  <1> HIDE DEF R
  <1>4. 0..Len(TypeList) \subseteq R
    BY <1>1, <1>2, <1>3, UpTo
  <1>5. \E f : StoresOn(Before(Len(TypeList)), f)
    BY <1>1, <1>4 DEF R
  <1>6. Before(Len(TypeList)) = Types
    BY <1>1 DEF Before, Types, ToSet
  <1> QED
    BY <1>5, <1>6

(* All readable parts are values of the types. *)
LEMMA OfAllTypes == OfTypes(Types) = Readable
  BY DEF OfTypes, Readable

(* Storable is this function. *)
LEMMA StorableUnfolds ==
    ASSUME NEW T \in Types, NEW v, <<T, v>> \in Parts, NEW a \in BOOLEAN
    PROVE  Storable[<<T, v>>][a] = StorableBy(T, v, a, Storable)
  <1> DEFINE P(f) == f = [p \in Readable |-> [b \in BOOLEAN |-> StorableBy(p[1], p[2], b, f)]]
             f == CHOOSE f : P(f)
             p == <<T, v>>
  <1>1. P(f)
    <2>1. \E e : P(e)
      BY StorableExists, OfAllTypes DEF StoresOn
    <2> HIDE DEF P
    <2> QED
      BY <2>1
  <1>2. Storable = f
    BY DEF Storable
  <1>3. p \in Readable /\ p[1] = T /\ p[2] = v
    BY DEF Readable
  <1> HIDE DEF f, p
  <1>4. f[p][a] = StorableBy(p[1], p[2], a, f)
    BY <1>1, <1>3
  <1> QED
    BY <1>2, <1>3, <1>4 DEF p

(* f says what may be left of the values of types in S. *)
RemainsOn(S, f) == f = [p \in OfTypes(S) |-> RemainsBy(p[1], p[2], f)]

(* What such a function says of one value.                                 *)
LEMMA RemainsOnStep ==
    ASSUME NEW S, NEW f, RemainsOn(S, f), NEW p \in OfTypes(S)
    PROVE  f[p] = RemainsBy(p[1], p[2], f)
  BY DEF RemainsOn

(* There is one for all types: each type depends on earlier ones only.     *)
LEMMA RemainsExists == \E f : RemainsOn(Types, f)
  <1> DEFINE R == {n \in Nat : n <= Len(TypeList) => \E f : RemainsOn(Before(n), f)}
  <1>1. Len(TypeList) \in Nat /\ DOMAIN TypeList = 1..Len(TypeList)
    BY TypesAssumption
  <1>2. 0 \in R
    <2> DEFINE f == [t \in {} |-> t]
    <2>1. OfTypes(Before(0)) = {}
      BY DEF Before, OfTypes
    <2>2. RemainsOn(Before(0), f)
      BY <2>1 DEF RemainsOn
    <2> QED
      BY <2>2
  <1>3. ASSUME NEW n \in Nat, n < Len(TypeList), n \in R
        PROVE  n + 1 \in R
    <2> DEFINE S == Before(n)
               P == OfTypes(Before(n + 1))
    <2>1. PICK f : RemainsOn(S, f)
      BY <1>1, <1>3
    <2> DEFINE e == [p \in P |-> RemainsBy(p[1], p[2], f)]
    <2>2. S \in SUBSET Types /\ OfTypes(S) \subseteq P /\ \A t \in Before(n + 1) : MadeOf(t, S)
      BY <1>3, BeforeMade DEF OfTypes
    <2>3. \A p \in OfTypes(S) : f[p] = RemainsBy(p[1], p[2], f)
      BY <2>1, RemainsOnStep
    <2>4. \A p \in P : e[p] = RemainsBy(p[1], p[2], f)
      OBVIOUS
    <2>5. AgreeOn(S, f, e)
      <3> HIDE DEF e, P, S
      <3> QED
        BY <2>2, <2>3, <2>4, ElementOfTypes DEF AgreeOn
    <2>6. ASSUME NEW p \in P
          PROVE  RemainsBy(p[1], p[2], f) = RemainsBy(p[1], p[2], e)
      <3>1. MadeOf(p[1], S) /\ <<p[1], p[2]>> \in Parts
        BY <2>2, <2>6, OfTypesParts
      <3> HIDE DEF e, P, S
      <3> QED
        BY <2>5, <3>1, RemainsLocal
    <2>7. e = [p \in P |-> RemainsBy(p[1], p[2], e)]
      BY <2>6
    <2> HIDE DEF e
    <2>8. RemainsOn(Before(n + 1), e)
      BY <2>7 DEF RemainsOn
    <2> QED
      BY <2>8
  <1> HIDE DEF R
  <1>4. 0..Len(TypeList) \subseteq R
    BY <1>1, <1>2, <1>3, UpTo
  <1>5. \E f : RemainsOn(Before(Len(TypeList)), f)
    BY <1>1, <1>4 DEF R
  <1>6. Before(Len(TypeList)) = Types
    BY <1>1 DEF Before, Types, ToSet
  <1> QED
    BY <1>5, <1>6

(* Remains is this function. *)
LEMMA RemainsUnfolds ==
    ASSUME NEW T \in Types, NEW v, <<T, v>> \in Parts
    PROVE  Remains[<<T, v>>] = RemainsBy(T, v, Remains)
  <1> DEFINE P(f) == f = [p \in Readable |-> RemainsBy(p[1], p[2], f)]
             f == CHOOSE f : P(f)
             p == <<T, v>>
  <1>1. P(f)
    <2>1. \E e : P(e)
      BY RemainsExists, OfAllTypes DEF RemainsOn
    <2> HIDE DEF P
    <2> QED
      BY <2>1
  <1>2. Remains = f
    BY DEF Remains
  <1>3. p \in Readable /\ p[1] = T /\ p[2] = v
    BY DEF Readable
  <1> HIDE DEF f, p
  <1>4. f[p] = RemainsBy(p[1], p[2], f)
    BY <1>1, <1>3
  <1> QED
    BY <1>2, <1>3, <1>4 DEF p

-----------------------------------------------------------------------------
(* Names: each element of a container has one of its own.                  *)

(* The first m names of elements. *)
Indices(m) == {Index[i] : i \in 1..m}

(* There are m of them. *)
LEMMA IndicesCount ==
    ASSUME NEW m \in Nat, m <= Len(Index)
    PROVE  /\ Indices(m) \subseteq Names /\ IsFiniteSet(Indices(m)) /\ Cardinality(Indices(m)) = m
           /\ \A i, j \in 1..m : Index[i] = Index[j] => i = j
  <1>1. Len(Index) \in Nat /\ DOMAIN Index = 1..Len(Index) /\ \A i \in 1..Len(Index) : Index[i] \in Names
    BY NamesAssumption
  <1>2. \A i, j \in 1..m : Index[i] = Index[j] => i = j
    BY <1>1, NamesAssumption DEF IsInjective
  <1>3. Indices(m) \subseteq Names
    BY <1>1 DEF Indices
  <1> DEFINE f == [i \in 1..m |-> Index[i]]
  <1>4. f \in Surjection(1..m, Indices(m)) /\ f \in Injection(1..m, Indices(m))
    BY <1>2 DEF Indices, Surjection, Injection, IsInjective
  <1> HIDE DEF f
  <1>5. IsFiniteSet(1..m) /\ Cardinality(1..m) = m
    BY FS_Interval
  <1>6. IsFiniteSet(Indices(m)) /\ Cardinality(Indices(m)) = m
    BY <1>4, <1>5, FS_Surjection
  <1> QED
    BY <1>2, <1>3, <1>6

(* The calls that fill a group. *)
Filling(T, v, n) == ToSet(Elements(T, v, n))

Order(S) == SetToSeq(S)

(* What each container is filled with. *)
LEMMA FillingVector ==
    ASSUME NEW S, NEW T, NEW v, NEW n, ShapeOK(S, T, v), T.con = "vector"
    PROVE  /\ Filling(T, v, n) = {Call(T.of, n, Index[i], v.items[i]) : i \in 1..Len(v.items)}
           /\ \A i, j \in DOMAIN Elements(T, v, n) :
                 Elements(T, v, n)[i].key = Elements(T, v, n)[j].key => i = j
  <1>1. Elements(T, v, n) = [i \in DOMAIN v.items |-> Call(T.of, n, Index[i], v.items[i])]
    BY DEF Elements, VectorElements
  <1>2. Len(v.items) \in Nat /\ Len(v.items) <= Len(Index) /\ DOMAIN v.items = 1..Len(v.items)
    BY DEF ShapeOK, ListOK
  <1>3. \A i, j \in DOMAIN v.items : Index[i] = Index[j] => i = j
    BY <1>2, IndicesCount
  <1> QED
    BY <1>1, <1>2, <1>3, CallFields DEF Filling, ToSet

(* A tuple is filled with its elements, each of its own type.              *)
LEMMA FillingTuple ==
    ASSUME NEW S, NEW T, NEW v, NEW n, ShapeOK(S, T, v), T.con = "tuple"
    PROVE  /\ Filling(T, v, n) = {Call(T.elems[i], n, Index[i], v.items[i]) : i \in 1..Len(v.items)}
           /\ \A i, j \in DOMAIN Elements(T, v, n) :
                 Elements(T, v, n)[i].key = Elements(T, v, n)[j].key => i = j
  <1>1. Elements(T, v, n) = [i \in DOMAIN v.items |-> Call(T.elems[i], n, Index[i], v.items[i])]
    BY DEF Elements, TupleElements
  <1>2. Len(v.items) \in Nat /\ Len(v.items) <= Len(Index) /\ DOMAIN v.items = 1..Len(v.items)
    BY DEF ShapeOK, ListOK
  <1>3. \A i, j \in DOMAIN v.items : Index[i] = Index[j] => i = j
    BY <1>2, IndicesCount
  <1> QED
    BY <1>1, <1>2, <1>3, CallFields DEF Filling, ToSet

(* A pair is filled with two elements.                                     *)
LEMMA FillingPair ==
    ASSUME NEW S, NEW T, NEW v, NEW n, ShapeOK(S, T, v), T.con = "pair"
    PROVE  /\ Filling(T, v, n) = {Call(T.first, n, Index[1], v.items[1]), Call(T.second, n, Index[2], v.items[2])}
           /\ \A i, j \in DOMAIN Elements(T, v, n) :
                 Elements(T, v, n)[i].key = Elements(T, v, n)[j].key => i = j
  <1> DEFINE a == Call(T.first, n, Index[1], v.items[1])
             b == Call(T.second, n, Index[2], v.items[2])
  <1>1. Elements(T, v, n) = <<a, b>>
    BY DEF Elements, PairElements
  <1>2. Len(Index) >= 2 /\ Len(Index) \in Nat
    BY NamesAssumption DEF ShapeOK
  <1>3. Index[1] # Index[2]
    BY <1>2, IndicesCount
  <1>4. a.key = Index[1] /\ b.key = Index[2]
    BY CallFields
  <1> HIDE DEF a, b
  <1>5. DOMAIN <<a, b>> = {1, 2} /\ <<a, b>>[1] = a /\ <<a, b>>[2] = b
    OBVIOUS
  <1> QED
    BY <1>1, <1>3, <1>4, <1>5 DEF Filling, ToSet, a, b

(* An array is filled with its length and its elements.                    *)
LEMMA FillingArray ==
    ASSUME NEW S, NEW T, NEW v, NEW n, ShapeOK(S, T, v), T.con = "array"
    PROVE  /\ Filling(T, v, n) =
                {Call(T.shape, n, ShapeName, Leaf(T.shape.dtype, T.shape.extent, T.size))}
                \cup {Call(T.of, n, Index[i], v.items[i]) : i \in 1..Len(v.items)}
           /\ \A i, j \in DOMAIN Elements(T, v, n) :
                 Elements(T, v, n)[i].key = Elements(T, v, n)[j].key => i = j
  <1> DEFINE a == Call(T.shape, n, ShapeName, Leaf(T.shape.dtype, T.shape.extent, T.size))
             s == [i \in DOMAIN v.items |-> Call(T.of, n, Index[i], v.items[i])]
             m == Len(v.items)
  <1>1. Elements(T, v, n) = <<a>> \o s
    BY DEF Elements, ArrayElements, VectorElements
  <1>2. m \in Nat /\ m <= Len(Index) /\ DOMAIN v.items = 1..m
    BY DEF ShapeOK, ListOK
  <1>3. \A i, j \in 1..m : Index[i] = Index[j] => i = j
    BY <1>2, IndicesCount
  <1>4. a.key = ShapeName /\ \A i \in 1..m : s[i].key = Index[i] /\ Index[i] # ShapeName
    <2>1. DOMAIN Index = 1..Len(Index) /\ Len(Index) \in Nat
      BY NamesAssumption
    <2>2. \A i \in 1..m : Index[i] # ShapeName
      BY <1>2, <2>1, NamesAssumption DEF ToSet
    <2> QED
      BY <1>2, <2>2, CallFields
  <1>5. DOMAIN s = 1..m /\ Len(s) = m /\ \A i \in 1..m : s[i] = Call(T.of, n, Index[i], v.items[i])
    BY <1>2
  <1> HIDE DEF a, s, m
  <1> DEFINE e == <<a>> \o s
  <1>6. DOMAIN e = 1..(m + 1) /\ e[1] = a /\ \A i \in 2..(m + 1) : e[i] = s[i - 1]
    BY <1>2, <1>5
  <1> HIDE DEF e
  <1>7. ToSet(e) = {a} \cup {s[i] : i \in 1..m}
    <2>1. \A i \in 1..m : e[i + 1] = s[i] /\ i + 1 \in 1..(m + 1) /\ (i + 1) - 1 = i
      BY <1>2, <1>6
    <2>2. \A i \in 2..(m + 1) : i - 1 \in 1..m
      BY <1>2
    <2>3. \A i \in 1..(m + 1) : i = 1 \/ i \in 2..(m + 1)
      BY <1>2
    <2>4. 1 \in 1..(m + 1)
      BY <1>2
    <2> QED
      BY <1>6, <2>1, <2>2, <2>3, <2>4 DEF ToSet
  <1>8. \A i, j \in 1..(m + 1) : e[i].key = e[j].key => i = j
    <2> SUFFICES ASSUME NEW i \in 1..(m + 1), NEW j \in 1..(m + 1), e[i].key = e[j].key
                 PROVE  i = j
      OBVIOUS
    <2>1. \A x \in 1..(m + 1) : x # 1 => x \in 2..(m + 1) /\ x - 1 \in 1..m
      BY <1>2
    <2> QED
      BY <1>2, <1>3, <1>4, <1>6, <2>1
  <1>9. {s[i] : i \in 1..m} = {Call(T.of, n, Index[i], v.items[i]) : i \in 1..m}
    BY <1>5
  <1>10. Elements(T, v, n) = e
    BY <1>1 DEF e, a, s
  <1>11. Filling(T, v, n) = {a} \cup {Call(T.of, n, Index[i], v.items[i]) : i \in 1..m}
    BY <1>7, <1>9, <1>10 DEF Filling
  <1>12. DOMAIN Elements(T, v, n) = 1..(m + 1)
    BY <1>6, <1>10
  <1> QED
    BY <1>8, <1>10, <1>11, <1>12 DEF a, m

(* A map is filled with its entries, each under its key.                   *)
LEMMA FillingMap ==
    ASSUME NEW S, NEW T, NEW v, NEW n, ShapeOK(S, T, v), T.con = "map"
    PROVE  /\ Filling(T, v, n) = {Call(T.of, n, k, v.entries[k]) : k \in DOMAIN v.entries}
           /\ \A i, j \in DOMAIN Elements(T, v, n) :
                 Elements(T, v, n)[i].key = Elements(T, v, n)[j].key => i = j
  <1> DEFINE K == DOMAIN v.entries
             order == SetToSeq(K)
             m == Cardinality(K)
  <1>1. Elements(T, v, n) = [i \in DOMAIN order |-> Call(T.of, n, order[i], v.entries[order[i]])]
    BY DEF Elements, MapElements
  <1>2. IsFiniteSet(K)
    BY DEF ShapeOK
  <1>3. DOMAIN order = 1..m
    BY <1>2, SetToSeqIs
  <1>4. /\ \A i \in 1..m : order[i] \in K
        /\ \A i, j \in 1..m : order[i] = order[j] => i = j
        /\ \A x \in K : \E i \in 1..m : order[i] = x
    BY <1>2, SetToSeqOnce
  <1> HIDE DEF order, m, K
  <1>5. {Call(T.of, n, order[i], v.entries[order[i]]) : i \in 1..m} = {Call(T.of, n, k, v.entries[k]) : k \in K}
    BY <1>4
  <1> QED
    BY <1>1, <1>3, <1>4, <1>5, CallFields DEF Filling, ToSet, K

(* A map with other keys is filled with a group for each entry.            *)
LEMMA FillingPairs ==
    ASSUME NEW S, NEW T, NEW v, NEW n, ShapeOK(S, T, v), T.con = "keyed_map"
    PROVE  /\ Filling(T, v, n) =
                {Call(Entry(T), n, Index[i], Order(v.pairs)[i]) : i \in 1..Cardinality(v.pairs)}
           /\ \A i, j \in DOMAIN Elements(T, v, n) :
                 Elements(T, v, n)[i].key = Elements(T, v, n)[j].key => i = j
  <1> DEFINE order == SetToSeq(v.pairs)
             m == Cardinality(v.pairs)
  <1>1. Elements(T, v, n) = [i \in DOMAIN order |-> Call(Entry(T), n, Index[i], order[i])]
    BY DEF Elements, PairsElements
  <1>2. IsFiniteSet(v.pairs) /\ m <= Len(Index)
    BY DEF ShapeOK
  <1>3. DOMAIN order = 1..m /\ m \in Nat
    BY <1>2, SetToSeqIs
  <1>4. \A i, j \in 1..m : Index[i] = Index[j] => i = j
    BY <1>2, <1>3, IndicesCount
  <1> HIDE DEF order, m
  <1> QED
    BY <1>1, <1>3, <1>4, CallFields DEF Filling, ToSet, Order, order, m

(* The group of an entry is filled with a key and a value.                 *)
LEMMA FillingEntry ==
    ASSUME NEW T, NEW v, NEW n, T.con = "entry"
    PROVE  /\ Filling(T, v, n) = {Call(T.key, n, KeyName, v[1]), Call(T.of, n, ValName, v[2])}
           /\ \A i, j \in DOMAIN Elements(T, v, n) :
                 Elements(T, v, n)[i].key = Elements(T, v, n)[j].key => i = j
  <1> DEFINE a == Call(T.key, n, KeyName, v[1])
             b == Call(T.of, n, ValName, v[2])
  <1>1. Elements(T, v, n) = <<a, b>>
    BY DEF Elements, EntryElements
  <1>4. a.key = KeyName /\ b.key = ValName /\ KeyName # ValName
    BY CallFields, NamesAssumption
  <1> HIDE DEF a, b
  <1>5. DOMAIN <<a, b>> = {1, 2} /\ <<a, b>>[1] = a /\ <<a, b>>[2] = b
    OBVIOUS
  <1> QED
    BY <1>1, <1>4, <1>5 DEF Filling, ToSet, a, b

(* The elements of a container go under different names of its group. *)
LEMMA ElementKeys ==
    ASSUME NEW T, NEW v, <<T, v>> \in Parts, IsGroup(T), NEW n \in Nodes
    PROVE  /\ Elements(T, v, n) \in Seq(CallsIn(n))
           /\ \A i, j \in DOMAIN Elements(T, v, n) :
                 Elements(T, v, n)[i].key = Elements(T, v, n)[j].key => i = j
  <1>1. Elements(T, v, n) \in Seq(CallsIn(n))
    BY ElementCalls
  <1>2. CASE T.con = "entry"
    BY <1>1, <1>2, FillingEntry
  <1>3. CASE T.con # "entry"
    <2>1. PICK S \in SUBSET Types : MadeOf(T, S)
      BY <1>3, PartTypes, TypeMade
    <2>2. ShapeOK(S, T, v)
      BY <2>1, PartShape
    <2>3. T.con \in {"vector", "tuple", "pair", "array", "map", "keyed_map"}
      BY <2>1 DEF MadeOf, IsGroup
    <2> DEFINE E == Elements(T, v, n)
               once == \A i, j \in DOMAIN E : E[i].key = E[j].key => i = j
    <2>4. ASSUME T.con = "vector" PROVE once
      BY <2>2, <2>4, FillingVector, Zenon
    <2>5. ASSUME T.con = "tuple" PROVE once
      BY <2>2, <2>5, FillingTuple, Zenon
    <2>6. ASSUME T.con = "pair" PROVE once
      BY <2>2, <2>6, FillingPair, Zenon
    <2>7. ASSUME T.con = "array" PROVE once
      BY <2>2, <2>7, FillingArray, Zenon
    <2>8. ASSUME T.con = "map" PROVE once
      BY <2>2, <2>8, FillingMap, Zenon
    <2>9. ASSUME T.con = "keyed_map" PROVE once
      BY <2>2, <2>9, FillingPairs, Zenon
    <2> HIDE DEF once
    <2>10. once
      BY <2>3, <2>4, <2>5, <2>6, <2>7, <2>8, <2>9
    <2> QED
      BY <1>1, <2>10 DEF once
  <1> QED
    BY <1>2, <1>3

-----------------------------------------------------------------------------
(* What an h5_write has done so far.  C holds the calls that it consists   *)
(* of, with those that are not made yet, and o says which call has made    *)
(* each new object.                                                        *)

(* The objects that are new. *)
Made == {n \in Nodes : kind[n] # "none"} \ last.old

Wraps(c) == c.type.con \in {"optional", "variant"}

Vacant(c) == c.type.con = "optional" /\ c.val = None

(* The call that an optional or a variant comes down to. *)
Inner(c) == Call(IF c.type.con = "optional" THEN c.type.of ELSE c.type.alts[c.val.alt], c.grp, c.key, c.val.val)

Same(c, d) == c.grp = d.grp /\ c.key = d.key

Under(c) == links[c.grp][c.key]

Outer == last.call

(* A dataset may not have been filled. *)
Torn(v) == {v, [v EXCEPT !.leaf = Fill]}

FillingOf(c, n) == IF IsGroup(c.type) THEN Filling(c.type, c.val, n) ELSE {}

(* A new object was made by a call for it.  What a new group holds has     *)
(* been put there for one of its elements, whose calls are known.          *)
ObjectOK(C, o, m) ==
    /\ o[m] \in C /\ ~Wraps(o[m])
    /\ o[m].type.con = "leaf" => kind[m] = "data" /\ data[m] \in Torn(o[m].val)
    /\ IsGroup(o[m].type) => kind[m] = "group" /\ FillingOf(o[m], m) \subseteq C
    /\ \A k \in Names : links[m][k] # NoLink =>
          /\ \E j \in Made : links[m][k] = Hard(j)
          /\ \E e \in FillingOf(o[m], m) : e.key = k

(* What is new under the name of a call was made by it, or by the call     *)
(* that it came down to.  In a new group it is the name of an element.     *)
CallOK(C, o, c) ==
    /\ \A m \in Made : Under(c) = Hard(m) =>
          IF Wraps(c) THEN ~Vacant(c) /\ Inner(c) \in C ELSE o[m] = c
    /\ c.grp \in Made => \E e \in FillingOf(o[c.grp], c.grp) : e.key = c.key

(* The outermost name holds what it held before, or nothing, or a new      *)
(* object; in the first case nothing that it leads to has changed.         *)
OuterOK ==
    /\ last.old \subseteq {n \in Nodes : kind[n] # "none"} /\ Outer.grp \in last.old
    /\ \A m \in Nodes : last.link = Hard(m) => m \in last.old
    /\ Under(Outer) = last.link => ReadBack = last.read
    /\ \/ Made = {} /\ Under(Outer) \in {last.link, NoLink}
       \/ \E m \in Made : Under(Outer) = Hard(m)

LastFields == {"ended", "call", "link", "read", "old"} \subseteq DOMAIN last

Shape(C, o) ==
    /\ LastFields /\ OuterOK
    /\ C \in SUBSET Calls /\ Outer \in C /\ Outer.type \in Types
    /\ \A c \in C : kind[c.grp] = "group" /\ CallOK(C, o, c)
    /\ \A m \in Made : ObjectOK(C, o, m)

(* No two calls to come write under the same name, nothing new is there,   *)
(* and other calls for that name have come down to them.                   *)
Queued(C) ==
    \A i \in DOMAIN pending :
       /\ pending[i] \in C
       /\ \A j \in DOMAIN pending : Same(pending[i], pending[j]) => i = j
       /\ \A c \in C : Same(c, pending[i]) =>
             c = pending[i] \/ (Wraps(c) /\ ~Vacant(c) /\ Inner(c) \in C)
       /\ \A m \in Made : Under(pending[i]) # Hard(m)

(* A call that is done has left something, or came down to another. *)
Settled(C, c) ==
    IF Wraps(c) THEN Vacant(c) \/ Inner(c) \in C ELSE \E m \in Made : Under(c) = Hard(m)

(* Without an exception every call is done or to come. *)
Complete(C, o) ==
    /\ \A c \in C : (\E i \in DOMAIN pending : c = pending[i]) \/ Settled(C, c)
    /\ \A m \in Made : o[m].type.con = "leaf" => data[m] = o[m].val
    /\ Under(Outer) = last.link \/ \E m \in Made : Under(Outer) = Hard(m)

(* Links lead to objects, and what is not an object yet has none. *)
Sound ==
    /\ \A n \in Nodes : kind[n] = "none" => links[n] = EmptyGroup
    /\ \A n, m \in Nodes, k \in Names : links[n][k] = Hard(m) => kind[m] # "none"

History ==
    last.ended # "never" =>
       \E C, o : Shape(C, o) /\ Queued(C) /\ (last.ended # "thrown" => Complete(C, o))

(* The outermost call stays the same. *)
SameOuter ==
    /\ {"ended", "call", "link", "read", "old"} \subseteq DOMAIN last'
    /\ last'.call = last.call /\ last'.link = last.link
    /\ last'.read = last.read /\ last'.old = last.old

(* The call c makes the object n. *)
Making(c, n) ==
    /\ pending # <<>> /\ c = Top /\ ~Wraps(c) /\ n \in Unused
    /\ links' = SetLink(links, c.grp, c.key, Hard(n))
    /\ kind' = [kind EXCEPT ![n] = IF c.type.con = "leaf" THEN "data" ELSE "group"]
    /\ \A m \in Nodes : m # n => data'[m] = data[m]
    /\ c.type.con = "leaf" => data'[n] \in Torn(c.val)

(* What has changed then. *)
LEMMA MakingFacts ==
    ASSUME Inv, Sound, NEW C, NEW o, Shape(C, o), Queued(C), SameOuter,
           NEW c, NEW n, Making(c, n)
    PROVE  /\ c \in C /\ c.grp \in Nodes /\ c.key \in Names /\ c.grp # n /\ kind[c.grp] = "group"
           /\ n \in Nodes /\ n \notin last.old /\ kind[n] = "none"
           /\ Made' = Made \cup {n} /\ n \notin Made
           /\ kind'[n] = IF c.type.con = "leaf" THEN "data" ELSE "group"
           /\ \A m \in Nodes : m # n => kind'[m] = kind[m]
           /\ links'[c.grp][c.key] = Hard(n)
           /\ \A m \in Nodes, k \in Names : m # c.grp \/ k # c.key => links'[m][k] = links[m][k]
           /\ \A k \in Names : links'[n][k] = NoLink
           /\ \A m \in Nodes, k \in Names : links[m][k] # Hard(n)
           /\ \A d \in C : d \in Calls /\ d.grp \in Nodes /\ d.key \in Names /\ d.grp # n
           /\ \E i \in DOMAIN pending : c = pending[i]
  <1>1. c \in Calls /\ c.grp \in Nodes /\ c.key \in Names /\ kind[c.grp] = "group"
        /\ \E i \in DOMAIN pending : c = pending[i]
    BY NextCall DEF Making
  <1>2. n \in Nodes /\ kind[n] = "none" /\ c.grp # n
    BY <1>1 DEF Making, Unused
  <1>3. c \in C
    BY <1>1 DEF Queued
  <1>4. links \in Tables /\ kind \in [Nodes -> {"none", "group", "data"}]
    BY DEF Inv, FileOK
  <1>5. /\ links'[c.grp][c.key] = Hard(n)
        /\ \A m \in Nodes, k \in Names : m # c.grp \/ k # c.key => links'[m][k] = links[m][k]
    BY <1>1, <1>4, SetLinkValue DEF Making
  <1>6. /\ kind'[n] = IF c.type.con = "leaf" THEN "data" ELSE "group"
        /\ \A m \in Nodes : m # n => kind'[m] = kind[m]
    BY <1>2, <1>4 DEF Making
  <1>7. n \notin last.old
    BY <1>2 DEF Shape, OuterOK
  <1>8. Made' = Made \cup {n} /\ n \notin Made
    BY <1>2, <1>6, <1>7 DEF Made, SameOuter
  <1>9. \A k \in Names : links'[n][k] = NoLink
    BY <1>2, <1>5 DEF Sound, EmptyGroup
  <1>10. \A m \in Nodes, k \in Names : links[m][k] # Hard(n)
    BY <1>2 DEF Sound
  <1>11. \A d \in C : d \in Calls /\ d.grp \in Nodes /\ d.key \in Names /\ d.grp # n
    <2> SUFFICES ASSUME NEW d \in C PROVE d \in Calls /\ d.grp \in Nodes /\ d.key \in Names /\ d.grp # n
      OBVIOUS
    <2>1. d \in Calls /\ kind[d.grp] = "group"
      BY DEF Shape
    <2> QED
      BY <1>2, <2>1, CallParts
  <1> QED
    BY <1>1, <1>2, <1>3, <1>5, <1>6, <1>7, <1>8, <1>9, <1>10, <1>11

(* The objects, afterwards: o says that c made n, and the calls that fill  *)
(* it are known.                                                           *)
LEMMA MakingShape ==
    ASSUME Inv, Sound, NEW C, NEW o, Shape(C, o), Queued(C), SameOuter,
           NEW c, NEW n, Making(c, n),
           NEW D, D = C \cup FillingOf(c, n),
           NEW p, p = [m \in Nodes |-> IF m = n THEN c ELSE o[m]]
    PROVE  Shape(D, p)'
  <1>m. /\ c \in C /\ c.grp \in Nodes /\ c.key \in Names /\ c.grp # n /\ kind[c.grp] = "group"
        /\ n \in Nodes /\ n \notin last.old /\ kind[n] = "none"
        /\ Made' = Made \cup {n} /\ n \notin Made
        /\ kind'[n] = IF c.type.con = "leaf" THEN "data" ELSE "group"
        /\ \A m \in Nodes : m # n => kind'[m] = kind[m]
        /\ links'[c.grp][c.key] = Hard(n)
        /\ \A m \in Nodes, k \in Names : m # c.grp \/ k # c.key => links'[m][k] = links[m][k]
        /\ \A k \in Names : links'[n][k] = NoLink
        /\ \A m \in Nodes, k \in Names : links[m][k] # Hard(n)
        /\ \A d \in C : d \in Calls /\ d.grp \in Nodes /\ d.key \in Names /\ d.grp # n
        /\ \E i \in DOMAIN pending : c = pending[i]
    BY MakingFacts
  <1>c. c.type.con = "leaf" \/ IsGroup(c.type)
    BY DEF Making, Wraps, IsGroup
  <1>l. \A e \in FillingOf(c, n) : e \in Calls /\ e.grp = n /\ e.key \in Names
    <2> SUFFICES ASSUME NEW e \in FillingOf(c, n) PROVE e \in Calls /\ e.grp = n
      BY CallParts
    <2>1. IsGroup(c.type) /\ e \in ToSet(Elements(c.type, c.val, n))
      BY DEF FillingOf, Filling
    <2>2. <<c.type, c.val>> \in Parts
      BY <1>m, CallParts
    <2>3. Elements(c.type, c.val, n) \in Seq(CallsIn(n))
      BY <1>m, <2>1, <2>2, ElementCalls
    <2> HIDE DEF Elements
    <2>4. e \in CallsIn(n)
      BY <2>1, <2>3 DEF ToSet
    <2> QED
      BY <2>4 DEF CallsIn
  <1>s. Made \subseteq Nodes
    BY DEF Made
  <1>h. \A a, b : Hard(a) = Hard(b) => a = b
    BY DEF Hard
  <1>n. \A a : Hard(a) # NoLink
    BY DEF Hard, NoLink
  <1>1. OuterOK'
    <2>1. last'.old \subseteq {m \in Nodes : kind'[m] # "none"} /\ Outer'.grp \in last'.old
      BY <1>m DEF Shape, OuterOK, SameOuter, Outer
    <2>2. \A m \in Nodes : last'.link = Hard(m) => m \in last'.old
      BY DEF Shape, OuterOK, SameOuter
    <2>3. last.call.grp \in Nodes /\ last.call.key \in Names
      BY <1>m DEF Shape, Outer
    <2>4. \E m \in Made' : links'[last.call.grp][last.call.key] = Hard(m)
      <3>1. CASE Same(c, last.call)
        BY <1>m, <3>1 DEF Same
      <3>2. CASE ~Same(c, last.call)
        <4>1. c.grp \notin last.old
          BY <1>m, <3>2 DEF Same, Inv, Owned, Making
        <4>2. c.grp \in Made
          BY <1>m, <4>1 DEF Made
        <4>3. PICK m \in Made : Under(Outer) = Hard(m)
          BY <4>2 DEF Shape, OuterOK
        <4>4. links'[last.call.grp][last.call.key] = Hard(m)
          BY <1>m, <2>3, <3>2, <4>3 DEF Same, Under, Outer
        <4> QED
          BY <1>m, <4>4
      <3> QED
        BY <3>1, <3>2
    <2>5. links'[last.call.grp][last.call.key] # last.link
      <3>1. PICK m \in Made' : links'[last.call.grp][last.call.key] = Hard(m)
        BY <2>4
      <3>2. m \in Nodes /\ m \notin last.old
        BY <1>m, <3>1 DEF Made
      <3> QED
        BY <3>1, <3>2 DEF Shape, OuterOK
    <2> QED
      BY <2>1, <2>2, <2>4, <2>5 DEF OuterOK, Outer, Under, SameOuter
  <1>2. D \in SUBSET Calls /\ Outer' \in D /\ Outer'.type \in Types /\ LastFields'
    BY <1>m, <1>l DEF Shape, SameOuter, Outer, LastFields
  <1>3. ASSUME NEW d \in D
        PROVE  kind'[d.grp] = "group" /\ CallOK(D, p, d)'
    <2>1. CASE d \in FillingOf(c, n)
      <3>1. d.grp = n /\ d.key \in Names /\ IsGroup(c.type)
        BY <1>l, <2>1 DEF FillingOf
      <3>2. kind'[d.grp] = "group"
        BY <1>m, <3>1 DEF IsGroup
      <3>3. links'[d.grp][d.key] = NoLink
        BY <1>m, <3>1
      <3>4. p[n] = c
        BY <1>m
      <3>5. \E e \in FillingOf(p[d.grp], d.grp) : e.key = d.key
        BY <2>1, <3>1, <3>4
      <3> QED
        BY <1>n, <3>2, <3>3, <3>5 DEF CallOK, Under
    <2>2. CASE d \in C
      <3>1. kind'[d.grp] = "group"
        BY <1>m, <2>2 DEF Shape
      <3>2. ASSUME NEW m \in Made', links'[d.grp][d.key] = Hard(m)
            PROVE  IF Wraps(d) THEN ~Vacant(d) /\ Inner(d) \in D ELSE p[m] = d
        <4>1. CASE Same(d, c)
          <5>1. m = n /\ p[n] = c
            BY <1>h, <1>m, <3>2, <4>1 DEF Same
          <5>2. d = c \/ (Wraps(d) /\ ~Vacant(d) /\ Inner(d) \in C)
            BY <1>m, <2>2, <4>1 DEF Queued
          <5>3. ~Wraps(c)
            BY DEF Making
          <5> QED
            BY <5>1, <5>2, <5>3
        <4>2. CASE ~Same(d, c)
          <5>1. links[d.grp][d.key] = Hard(m)
            BY <1>m, <2>2, <3>2, <4>2 DEF Same
          <5>2. m # n /\ m \in Made
            BY <1>m, <2>2, <3>2, <5>1
          <5>3. CallOK(C, o, d)
            BY <2>2 DEF Shape
          <5>4. IF Wraps(d) THEN ~Vacant(d) /\ Inner(d) \in C ELSE o[m] = d
            BY <5>1, <5>2, <5>3 DEF CallOK, Under
          <5>5. p[m] = o[m]
            BY <1>s, <5>2
          <5> QED
            BY <5>4, <5>5
        <4> QED
          BY <4>1, <4>2
      <3>3. ASSUME d.grp \in Made'
            PROVE  \E e \in FillingOf(p[d.grp], d.grp) : e.key = d.key
        <4>1. d.grp \in Made /\ d.grp \in Nodes /\ d.grp # n
          BY <1>m, <2>2, <3>3
        <4>2. p[d.grp] = o[d.grp]
          BY <4>1
        <4> QED
          BY <2>2, <4>1, <4>2 DEF Shape, CallOK
      <3> QED
        BY <3>1, <3>2, <3>3 DEF CallOK, Under
    <2> QED
      BY <2>1, <2>2
  <1>4. ASSUME NEW m \in Made'
        PROVE  ObjectOK(D, p, m)'
    <2>1. CASE m = n
      <3>1. p[n] = c /\ c \in D /\ ~Wraps(c)
        BY <1>m DEF Making
      <3>2. c.type.con = "leaf" => kind'[n] = "data" /\ data'[n] \in Torn(c.val)
        BY <1>m DEF Making
      <3>3. IsGroup(c.type) => kind'[n] = "group" /\ FillingOf(c, n) \subseteq D
        BY <1>m DEF IsGroup
      <3> QED
        BY <1>m, <2>1, <3>1, <3>2, <3>3 DEF ObjectOK
    <2>2. CASE m # n
      <3>1. m \in Made /\ m \in Nodes /\ p[m] = o[m] /\ ObjectOK(C, o, m)
        BY <1>m, <1>s, <2>2 DEF Shape
      <3>2. kind'[m] = kind[m] /\ data'[m] = data[m]
        BY <1>m, <2>2, <3>1 DEF Making
      <3>3. ASSUME NEW k \in Names, links'[m][k] # NoLink
            PROVE  /\ \E j \in Made' : links'[m][k] = Hard(j)
                   /\ \E e \in FillingOf(o[m], m) : e.key = k
        <4>1. CASE m = c.grp /\ k = c.key
          <5>1. links'[m][k] = Hard(n) /\ n \in Made'
            BY <1>m, <4>1
          <5>2. \E e \in FillingOf(o[m], m) : e.key = k
            BY <1>m, <3>1, <4>1 DEF Shape, CallOK
          <5> QED
            BY <5>1, <5>2
        <4>2. CASE m # c.grp \/ k # c.key
          <5>1. links'[m][k] = links[m][k]
            BY <1>m, <3>1, <4>2
          <5> QED
            BY <1>m, <3>1, <3>3, <5>1 DEF ObjectOK
        <4> QED
          BY <4>1, <4>2
      <3> QED
        BY <3>1, <3>2, <3>3 DEF ObjectOK
    <2> QED
      BY <2>1, <2>2
  <1> QED
    BY <1>1, <1>2, <1>3, <1>4 DEF Shape

-----------------------------------------------------------------------------
(* Steps that make an object.                                              *)

(* Where the calls of a queue come from. *)
LEMMA QueueIndex ==
    ASSUME NEW w \in Seq(Calls), w # <<>>, NEW s \in Seq(Calls), NEW q, q = s \o Tail(w)
    PROVE  /\ Head(w) = w[1] /\ 1 \in DOMAIN w
           /\ \A i \in DOMAIN q :
                 \/ i \in DOMAIN s /\ q[i] = s[i]
                 \/ \E j \in DOMAIN w : j # 1 /\ j = i + 1 - Len(s) /\ q[i] = w[j]
           /\ \A i \in DOMAIN s : i \in DOMAIN q /\ q[i] = s[i]
           /\ \A j \in DOMAIN w : j # 1 => j + Len(s) - 1 \in DOMAIN q /\ q[j + Len(s) - 1] = w[j]
  <1>1. /\ Tail(w) \in Seq(Calls) /\ Len(Tail(w)) = Len(w) - 1 /\ Len(w) \in Nat /\ Len(w) >= 1
        /\ \A i \in 1..(Len(w) - 1) : Tail(w)[i] = w[i + 1]
    OBVIOUS
  <1>2. /\ q \in Seq(Calls) /\ Len(q) = Len(s) + Len(w) - 1 /\ Len(s) \in Nat
        /\ \A i \in 1..Len(q) : q[i] = IF i <= Len(s) THEN s[i] ELSE Tail(w)[i - Len(s)]
    BY <1>1
  <1>3. DOMAIN w = 1..Len(w) /\ DOMAIN s = 1..Len(s) /\ DOMAIN q = 1..Len(q)
    BY <1>2
  <1>4. Head(w) = w[1]
    OBVIOUS
  <1>5. ASSUME NEW i \in DOMAIN q
        PROVE  \/ i \in DOMAIN s /\ q[i] = s[i]
               \/ \E j \in DOMAIN w : j # 1 /\ j = i + 1 - Len(s) /\ q[i] = w[j]
    <2>1. CASE i <= Len(s)
      BY <1>2, <1>3, <2>1
    <2>2. CASE i > Len(s)
      <3>1. i - Len(s) \in 1..(Len(w) - 1) /\ i + 1 - Len(s) \in 1..Len(w) /\ i + 1 - Len(s) # 1
        BY <1>1, <1>2, <1>3, <2>2
      <3>2. q[i] = w[i + 1 - Len(s)]
        BY <1>1, <1>2, <1>3, <2>2, <3>1
      <3> QED
        BY <1>3, <3>1, <3>2
    <2> QED
      BY <1>2, <1>3, <2>1, <2>2
  <1>6. ASSUME NEW i \in DOMAIN s PROVE i \in DOMAIN q /\ q[i] = s[i]
    BY <1>1, <1>2, <1>3
  <1>7. ASSUME NEW j \in DOMAIN w, j # 1
        PROVE  j + Len(s) - 1 \in DOMAIN q /\ q[j + Len(s) - 1] = w[j]
    <2>1. j + Len(s) - 1 \in DOMAIN q /\ j - 1 \in 1..(Len(w) - 1)
      BY <1>1, <1>2, <1>3, <1>7
    <2>2. q[j + Len(s) - 1] = w[j]
      BY <1>1, <1>2, <1>3, <1>7, <2>1
    <2> QED
      BY <2>1, <2>2
  <1>8. 1 \in DOMAIN w
    BY <1>1, <1>3
  <1> QED
    BY <1>4, <1>5, <1>6, <1>7, <1>8, Zenon

(* Which calls are still in the queue then. *)
LEMMA QueueLater ==
    ASSUME Inv, pending # <<>>, NEW s \in Seq(Calls)
    PROVE  /\ Head(pending) = pending[1] /\ 1 \in DOMAIN pending
           /\ \A i \in DOMAIN s : i \in DOMAIN (s \o Tail(pending)) /\ (s \o Tail(pending))[i] = s[i]
           /\ \A j \in DOMAIN pending : j # 1 =>
                 \E i \in DOMAIN (s \o Tail(pending)) : (s \o Tail(pending))[i] = pending[j]
           /\ \A i \in DOMAIN (s \o Tail(pending)) :
                 \/ i \in DOMAIN s /\ (s \o Tail(pending))[i] = s[i]
                 \/ \E j \in DOMAIN pending :
                       j # 1 /\ j = i + 1 - Len(s) /\ (s \o Tail(pending))[i] = pending[j]
           /\ DOMAIN (s \o Tail(pending)) \subseteq Nat /\ Len(s) \in Nat
  <1>1. pending \in Seq(Calls)
    BY DEF Inv, PendingOK
  <1> DEFINE q == s \o Tail(pending)
  <1>2. q = s \o Tail(pending)
    OBVIOUS
  <1> HIDE DEF q
  <1>3. Head(pending) = pending[1] /\ 1 \in DOMAIN pending
    BY <1>1, <1>2, QueueIndex
  <1>4. \A i \in DOMAIN s : i \in DOMAIN q /\ q[i] = s[i]
    BY <1>1, <1>2, QueueIndex
  <1>5. \A j \in DOMAIN pending : j # 1 => j + Len(s) - 1 \in DOMAIN q /\ q[j + Len(s) - 1] = pending[j]
    BY <1>1, <1>2, QueueIndex
  <1>6. \A i \in DOMAIN q :
           \/ i \in DOMAIN s /\ q[i] = s[i]
           \/ \E j \in DOMAIN pending : j # 1 /\ j = i + 1 - Len(s) /\ q[i] = pending[j]
    BY <1>1, <1>2, QueueIndex
  <1>7. DOMAIN q \subseteq Nat /\ Len(s) \in Nat
    <2>1. Tail(pending) \in Seq(Calls)
      BY <1>1
    <2> QED
      BY <1>2, <2>1
  <1>8. \A j \in DOMAIN pending : j # 1 => \E i \in DOMAIN q : q[i] = pending[j]
    BY <1>5
  <1> QED
    BY <1>2, <1>3, <1>4, <1>6, <1>7, <1>8

(* The calls that fill what a call makes, in their order. *)
FillingCalls(c, n) == IF IsGroup(c.type) THEN Elements(c.type, c.val, n) ELSE <<>>

(* They are for different names of the new object. *)
LEMMA FillingCallsOnce ==
    ASSUME NEW c \in Calls, NEW n \in Nodes
    PROVE  /\ FillingCalls(c, n) \in Seq(Calls)
           /\ FillingOf(c, n) = {FillingCalls(c, n)[i] : i \in DOMAIN FillingCalls(c, n)}
           /\ \A i \in DOMAIN FillingCalls(c, n) : FillingCalls(c, n)[i].grp = n
           /\ \A i, j \in DOMAIN FillingCalls(c, n) :
                 FillingCalls(c, n)[i].key = FillingCalls(c, n)[j].key => i = j
  <1>1. <<c.type, c.val>> \in Parts
    BY CallParts
  <1>2. CASE IsGroup(c.type)
    <2> DEFINE s == Elements(c.type, c.val, n)
    <2>1. s \in Seq(CallsIn(n)) /\ \A i, j \in DOMAIN s : s[i].key = s[j].key => i = j
      BY <1>1, <1>2, ElementKeys
    <2>2. FillingCalls(c, n) = s /\ FillingOf(c, n) = ToSet(s)
      BY <1>2 DEF FillingCalls, FillingOf, Filling
    <2> HIDE DEF s
    <2>3. CallsIn(n) \subseteq Calls
      BY DEF CallsIn
    <2>4. s \in Seq(Calls) /\ \A i \in DOMAIN s : s[i] \in CallsIn(n)
      BY <2>1, <2>3
    <2>5. ToSet(s) = {s[i] : i \in DOMAIN s}
      BY DEF ToSet
    <2> QED
      BY <2>1, <2>2, <2>4, <2>5 DEF CallsIn
  <1>3. CASE ~IsGroup(c.type)
    <2>1. FillingCalls(c, n) = <<>> /\ FillingOf(c, n) = {}
      BY <1>3 DEF FillingCalls, FillingOf
    <2>2. <<>> \in Seq(Calls) /\ DOMAIN <<>> = {}
      OBVIOUS
    <2> QED
      BY <2>1, <2>2
  <1> QED
    BY <1>2, <1>3

(* The calls to come, after c has made n: none of them is in another's     *)
(* way.                                                                    *)
LEMMA MakingQueued ==
    ASSUME Inv, Sound, NEW C, NEW o, Shape(C, o), Queued(C), SameOuter,
           NEW c, NEW n, Making(c, n), pending' = FillingCalls(c, n) \o Tail(pending),
           NEW D, D = C \cup FillingOf(c, n)
    PROVE  Queued(D)'
  <1>m. /\ c \in C /\ c.grp \in Nodes /\ c.key \in Names /\ c.grp # n /\ kind[c.grp] = "group"
        /\ n \in Nodes /\ n \notin last.old /\ kind[n] = "none"
        /\ Made' = Made \cup {n} /\ n \notin Made
        /\ links'[c.grp][c.key] = Hard(n)
        /\ \A m \in Nodes, k \in Names : m # c.grp \/ k # c.key => links'[m][k] = links[m][k]
        /\ \A k \in Names : links'[n][k] = NoLink
        /\ \A m \in Nodes, k \in Names : links[m][k] # Hard(n)
        /\ \A d \in C : d \in Calls /\ d.grp \in Nodes /\ d.key \in Names /\ d.grp # n
    BY MakingFacts
  <1> DEFINE s == FillingCalls(c, n)
  <1>s. /\ s \in Seq(Calls) /\ FillingOf(c, n) = {s[i] : i \in DOMAIN s}
        /\ \A i \in DOMAIN s : s[i].grp = n
        /\ \A i, j \in DOMAIN s : s[i].key = s[j].key => i = j
    BY <1>m, FillingCallsOnce
  <1> HIDE DEF s
  <1>k. \A i \in DOMAIN s : s[i].key \in Names
    <2>1. \A i \in DOMAIN s : s[i] \in Calls
      BY <1>s
    <2> QED
      BY <2>1, CallParts
  <1>p. pending \in Seq(Calls) /\ pending # <<>> /\ c = Head(pending)
    BY DEF Inv, PendingOK, Making, Top
  <1> DEFINE q == s \o Tail(pending)
  <1>q. pending' = q
    BY DEF s
  <1>i. /\ Head(pending) = pending[1] /\ 1 \in DOMAIN pending
        /\ \A i \in DOMAIN q :
              \/ i \in DOMAIN s /\ q[i] = s[i]
              \/ \E j \in DOMAIN pending : j # 1 /\ j = i + 1 - Len(s) /\ q[i] = pending[j]
    BY <1>s, <1>p, QueueIndex
  <1>t. q \in Seq(Calls) /\ DOMAIN q \subseteq Nat /\ Len(s) \in Nat
    <2>1. Tail(pending) \in Seq(Calls)
      BY <1>p
    <2> QED
      BY <1>s, <2>1
  <1> HIDE DEF q
  <1>h. \A a, b : Hard(a) = Hard(b) => a = b
    BY DEF Hard
  <1>n. \A a : Hard(a) # NoLink
    BY DEF Hard, NoLink
  <1>u. \A j \in DOMAIN pending : j # 1 => pending[j] \in C /\ ~Same(pending[j], c)
    BY <1>i, <1>p DEF Queued, Same
  <1> SUFFICES ASSUME NEW i \in DOMAIN q
               PROVE  /\ q[i] \in D
                      /\ \A j \in DOMAIN q : Same(q[i], q[j]) => i = j
                      /\ \A d \in D : Same(d, q[i]) =>
                            d = q[i] \/ (Wraps(d) /\ ~Vacant(d) /\ Inner(d) \in D)
                      /\ \A m \in Made' : links'[q[i].grp][q[i].key] # Hard(m)
    BY <1>q DEF Queued, Under
  <1>1. CASE i \in DOMAIN s /\ q[i] = s[i]
    <2>1. q[i] \in D /\ q[i].grp = n
      BY <1>1, <1>s
    <2>2. ASSUME NEW j \in DOMAIN q, Same(q[i], q[j]) PROVE i = j
      <3>1. q[j].grp = n /\ q[i].key = q[j].key
        BY <2>1, <2>2 DEF Same
      <3>2. CASE j \in DOMAIN s /\ q[j] = s[j]
        BY <1>1, <1>s, <3>1, <3>2
      <3>3. ASSUME NEW k \in DOMAIN pending, k # 1, q[j] = pending[k] PROVE FALSE
        BY <1>m, <1>u, <3>1, <3>3
      <3> QED
        BY <1>i, <3>2, <3>3
    <2>3. ASSUME NEW d \in D, Same(d, q[i]) PROVE d = q[i]
      <3>1. d.grp = n /\ d.key = q[i].key
        BY <2>1, <2>3 DEF Same
      <3>2. d \in FillingOf(c, n)
        BY <1>m, <3>1
      <3>3. PICK j \in DOMAIN s : d = s[j]
        BY <1>s, <3>2
      <3> QED
        BY <1>1, <1>s, <3>1, <3>3
    <2>4. links'[q[i].grp][q[i].key] = NoLink
      BY <1>1, <1>k, <1>m, <2>1
    <2> QED
      BY <1>n, <2>1, <2>2, <2>3, <2>4
  <1>2. ASSUME NEW k \in DOMAIN pending, k # 1, k = i + 1 - Len(s), q[i] = pending[k]
        PROVE  /\ q[i] \in D
               /\ \A j \in DOMAIN q : Same(q[i], q[j]) => i = j
               /\ \A d \in D : Same(d, q[i]) =>
                     d = q[i] \/ (Wraps(d) /\ ~Vacant(d) /\ Inner(d) \in D)
               /\ \A m \in Made' : links'[q[i].grp][q[i].key] # Hard(m)
    <2>1. q[i] \in C /\ q[i] \in D /\ q[i].grp # n /\ ~Same(q[i], c)
      BY <1>2, <1>u, <1>m
    <2>2. ASSUME NEW j \in DOMAIN q, Same(q[i], q[j]) PROVE i = j
      <3>1. q[j].grp # n
        BY <2>1, <2>2 DEF Same
      <3>2. PICK l \in DOMAIN pending : l # 1 /\ l = j + 1 - Len(s) /\ q[j] = pending[l]
        BY <1>i, <1>s, <3>1
      <3>3. Same(pending[k], pending[l])
        BY <1>2, <2>2, <3>2
      <3>4. k = l
        BY <3>3 DEF Queued
      <3> QED
        BY <1>2, <1>t, <3>2, <3>4
    <2>3. ASSUME NEW d \in D, Same(d, q[i])
          PROVE  d = q[i] \/ (Wraps(d) /\ ~Vacant(d) /\ Inner(d) \in D)
      <3>1. d.grp # n
        BY <2>1, <2>3 DEF Same
      <3>2. d \in C
        BY <1>s, <3>1
      <3> QED
        BY <1>2, <2>3, <3>2 DEF Queued
    <2>4. ASSUME NEW m \in Made', links'[q[i].grp][q[i].key] = Hard(m) PROVE FALSE
      <3>1. links[q[i].grp][q[i].key] = Hard(m)
        BY <1>m, <2>1, <2>4 DEF Same
      <3>2. m \in Made
        BY <1>m, <2>1, <2>4, <3>1
      <3> QED
        BY <1>2, <3>1, <3>2 DEF Queued, Under
    <2> QED
      BY <2>1, <2>2, <2>3, <2>4
  <1> QED
    BY <1>i, <1>1, <1>2

(* Then c is done, and the calls for what n holds are to come. *)
LEMMA MakingComplete ==
    ASSUME Inv, Sound, NEW C, NEW o, Shape(C, o), Queued(C), Complete(C, o), SameOuter,
           NEW c, NEW n, Making(c, n), pending' = FillingCalls(c, n) \o Tail(pending),
           c.type.con = "leaf" => data'[n] = c.val,
           NEW D, D = C \cup FillingOf(c, n),
           NEW p, p = [m \in Nodes |-> IF m = n THEN c ELSE o[m]]
    PROVE  Complete(D, p)'
  <1>m. /\ c \in C /\ c.grp \in Nodes /\ c.key \in Names
        /\ n \in Nodes
        /\ Made' = Made \cup {n} /\ n \notin Made
        /\ links'[c.grp][c.key] = Hard(n)
        /\ \A m \in Nodes, k \in Names : m # c.grp \/ k # c.key => links'[m][k] = links[m][k]
        /\ \A d \in C : d \in Calls /\ d.grp \in Nodes /\ d.key \in Names /\ d.grp # n
    BY MakingFacts
  <1> DEFINE s == FillingCalls(c, n)
  <1>s. s \in Seq(Calls) /\ FillingOf(c, n) = {s[i] : i \in DOMAIN s}
    BY <1>m, FillingCallsOnce
  <1> HIDE DEF s
  <1>p. pending \in Seq(Calls) /\ pending # <<>> /\ c = Head(pending) /\ ~Wraps(c)
    BY DEF Inv, PendingOK, Making, Top
  <1> DEFINE q == s \o Tail(pending)
  <1>q. pending' = q
    BY DEF s
  <1>i. /\ Head(pending) = pending[1] /\ 1 \in DOMAIN pending
        /\ \A i \in DOMAIN s : i \in DOMAIN q /\ q[i] = s[i]
        /\ \A j \in DOMAIN pending : j # 1 => \E i \in DOMAIN q : q[i] = pending[j]
    <2>1. Inv /\ pending # <<>>
      BY DEF Making
    <2> QED
      BY <1>s, <2>1, QueueLater, Zenon
  <1> HIDE DEF q
  <1>1. ASSUME NEW d \in D
        PROVE  (\E i \in DOMAIN q : d = q[i]) \/ Settled(D, d)'
    <2>1. CASE d \in FillingOf(c, n)
      BY <1>i, <1>s, <2>1
    <2>2. ASSUME d \in C, NEW j \in DOMAIN pending, d = pending[j]
          PROVE  (\E i \in DOMAIN q : d = q[i]) \/ Settled(D, d)'
      <3>1. CASE j # 1
        BY <1>i, <2>2, <3>1
      <3>2. CASE j = 1
        <4>1. d = c
          BY <1>i, <1>p, <2>2, <3>2
        <4> QED
          BY <1>m, <1>p, <4>1 DEF Settled, Under
      <3> QED
        BY <3>1, <3>2
    <2>3. ASSUME d \in C, Settled(C, d)
          PROVE  Settled(D, d)'
      <3>1. CASE Wraps(d)
        BY <2>3, <3>1 DEF Settled
      <3>2. CASE ~Wraps(d)
        <4>1. PICK m \in Made : links[d.grp][d.key] = Hard(m)
          BY <2>3, <3>2 DEF Settled, Under
        <4>2. links'[d.grp][d.key] = Hard(n) \/ links'[d.grp][d.key] = Hard(m)
          BY <1>m, <2>3, <4>1
        <4>3. \E l \in Made' : links'[d.grp][d.key] = Hard(l)
          BY <1>m, <4>1, <4>2
        <4> QED
          BY <3>2, <4>3 DEF Settled, Under
      <3> QED
        BY <3>1, <3>2
    <2> QED
      BY <2>1, <2>2, <2>3 DEF Complete
  <1>2. ASSUME NEW m \in Made', p[m].type.con = "leaf"
        PROVE  data'[m] = p[m].val
    <2>1. CASE m = n
      BY <1>m, <1>2, <2>1
    <2>2. CASE m # n
      <3>1. m \in Made /\ m \in Nodes
        BY <1>m, <2>2 DEF Made
      <3>2. p[m] = o[m] /\ data'[m] = data[m]
        BY <2>2, <3>1 DEF Making
      <3> QED
        BY <1>2, <3>1, <3>2 DEF Complete
    <2> QED
      BY <2>1, <2>2
  <1>3. \E m \in Made' : links'[last'.call.grp][last'.call.key] = Hard(m)
    <2>1. Shape(D, p)'
      BY MakingShape
    <2>2. OuterOK'
      BY <2>1 DEF Shape
    <2> QED
      BY <1>m, <2>2 DEF OuterOK, Under, Outer
  <1>4. \A d \in D : (\E i \in DOMAIN pending' : d = pending'[i]) \/ Settled(D, d)'
    BY <1>q, <1>1
  <1>5. \A m \in Made' : p[m].type.con = "leaf" => data'[m] = p[m].val
    BY <1>2
  <1>6. links'[last'.call.grp][last'.call.key] = last'.link
        \/ \E m \in Made' : links'[last'.call.grp][last'.call.key] = Hard(m)
    BY <1>3
  <1> QED
    BY <1>4, <1>5, <1>6, Zenon DEF Complete, Under, Outer

(* What a call that ends does to the record of the outermost one. *)
LEMMA OuterStays ==
    ASSUME Inv, pending # <<>>, LastFields, (\E calls : Return(calls)) \/ Unwind
    PROVE  /\ SameOuter /\ last.ended = "not yet"
           /\ Unwind => last'.ended = "thrown"
           /\ ~Unwind => last'.ended # "thrown"
  <1>1. last.ended = "not yet"
    BY DEF Inv, TypeOK
  <1>2. CASE Unwind
    BY <1>1, <1>2 DEF Unwind, LastFields, SameOuter
  <1>3. ASSUME NEW calls, Return(calls) PROVE SameOuter /\ last'.ended # "thrown"
    BY <1>1, <1>3 DEF Return, LastFields, SameOuter
  <1> QED
    BY <1>1, <1>2, <1>3

(* A new object is linked. *)
LEMMA SoundMaking ==
    ASSUME Inv, Sound, pending # <<>>, NEW n \in Unused,
           links' = SetLink(links, Top.grp, Top.key, Hard(n)),
           NEW what, what # "none", NewObject(n, what)
    PROVE  Sound'
  <1>1. links \in Tables /\ kind \in [Nodes -> {"none", "group", "data"}]
    BY DEF Inv, FileOK
  <1>2. Top.grp \in Nodes /\ Top.key \in Names /\ kind[Top.grp] = "group"
    BY NextCall
  <1>3. n \in Nodes /\ kind[n] = "none" /\ kind'[n] = what /\ \A m \in Nodes : m # n => kind'[m] = kind[m]
    BY <1>1 DEF Unused, NewObject
  <1>4. /\ links'[Top.grp][Top.key] = Hard(n)
        /\ \A m \in Nodes, k \in Names : m # Top.grp \/ k # Top.key => links'[m][k] = links[m][k]
        /\ links' \in Tables
    <2>1. Hard(n) \in Links
      BY <1>3, SomeLinks
    <2>2. links' \in Tables
      BY <1>1, <1>2, <2>1, SetLinkTyping
    <2> QED
      BY <1>1, <1>2, <2>2, SetLinkValue
  <1>5. ASSUME NEW m \in Nodes, kind'[m] = "none" PROVE links'[m] = EmptyGroup
    <2>1. m # n /\ kind[m] = "none" /\ m # Top.grp
      BY <1>2, <1>3, <1>5
    <2>2. links[m] = EmptyGroup
      BY <2>1 DEF Sound
    <2>3. links'[m] \in [Names -> Links] /\ links[m] \in [Names -> Links]
      BY <1>1, <1>4 DEF Tables
    <2> QED
      BY <1>4, <2>1, <2>2, <2>3
  <1>6. ASSUME NEW m \in Nodes, NEW j \in Nodes, NEW k \in Names, links'[m][k] = Hard(j)
        PROVE  kind'[j] # "none"
    <2>1. CASE m = Top.grp /\ k = Top.key
      <3>1. j = n
        BY <1>4, <1>6, <2>1 DEF Hard
      <3> QED
        BY <1>3, <3>1
    <2>2. CASE m # Top.grp \/ k # Top.key
      <3>1. kind[j] # "none"
        BY <1>4, <1>6, <2>2 DEF Sound
      <3> QED
        BY <1>3, <3>1
    <2> QED
      BY <2>1, <2>2
  <1> QED
    BY <1>5, <1>6 DEF Sound

(* A call makes its object, and ends well or not. *)
LEMMA MakingHistory ==
    ASSUME Inv, Sound, History, NEW n \in Unused, Making(Top, n),
           \/ /\ Return(FillingCalls(Top, n) \o Tail(pending))
              /\ Top.type.con = "leaf" => data'[n] = Top.val
           \/ Unwind
    PROVE  History'
  <1>0. pending # <<>> /\ last.ended = "not yet"
    BY DEF Making, Inv, TypeOK
  <1>1. PICK C, o : Shape(C, o) /\ Queued(C) /\ Complete(C, o)
    BY <1>0 DEF History
  <1>2. SameOuter /\ (Unwind => last'.ended = "thrown")
    BY <1>0, <1>1, OuterStays DEF Shape
  <1>3. PICK c : c = Top
    OBVIOUS
  <1>4. Making(c, n)
    BY <1>3 DEF Making
  <1> DEFINE D == C \cup FillingOf(c, n)
             p == [m \in Nodes |-> IF m = n THEN c ELSE o[m]]
  <1>d. D = C \cup FillingOf(c, n) /\ p = [m \in Nodes |-> IF m = n THEN c ELSE o[m]]
    OBVIOUS
  <1> HIDE DEF D, p
  <1>5. Shape(D, p)'
    BY <1>1, <1>2, <1>4, <1>d, MakingShape
  <1>6. CASE Unwind
    <2>1. Queued(D)'
      BY <1>6 DEF Unwind, Queued
    <2> QED
      BY <1>2, <1>5, <1>6, <2>1 DEF History
  <1>7. ASSUME Return(FillingCalls(Top, n) \o Tail(pending)), Top.type.con = "leaf" => data'[n] = Top.val
        PROVE  History'
    <2>1. pending' = FillingCalls(c, n) \o Tail(pending) /\ (c.type.con = "leaf" => data'[n] = c.val)
      BY <1>3, <1>7 DEF Return
    <2>2. Queued(D)'
      BY <1>1, <1>2, <1>4, <1>d, <2>1, MakingQueued
    <2>3. Complete(D, p)'
      BY <1>1, <1>2, <1>4, <1>d, <2>1, MakingComplete
    <2> QED
      BY <1>5, <2>2, <2>3 DEF History
  <1> QED
    BY <1>6, <1>7

(* An unchanged file reads as before. *)
LEMMA SameRead ==
    ASSUME UNCHANGED file, NEW T, NEW g, NEW k
    PROVE  Read(T, g, k)' = Read(T, g, k)
  BY DEF file, Read, ReadBy, ReadLeaf, ReadOptional, ReadVariant, ReadGroup, ReadVector, ReadTuple,
         ReadArray, ReadPair, ReadMap, ReadPairs, Length

(* So does what the outermost call wrote. *)
LEMMA SameReadBack ==
    ASSUME UNCHANGED file, SameOuter
    PROVE  ReadBack' = ReadBack
  <1>1. PICK T, g, k : T = last.call.type /\ g = last.call.grp /\ k = last.call.key
    OBVIOUS
  <1>2. Read(T, g, k)' = Read(T, g, k)
    BY SameRead
  <1>3. T = last'.call.type /\ g = last'.call.grp /\ k = last'.call.key
    BY <1>1 DEF SameOuter
  <1>4. ReadBack = Read(T, g, k)
    BY <1>1 DEF ReadBack
  <1>5. ReadBack' = Read(T, g, k)'
    BY <1>3 DEF ReadBack
  <1> QED
    BY <1>2, <1>4, <1>5

(* More calls known, and the same file. *)
LEMMA SameShape ==
    ASSUME Inv, NEW C, NEW o, Shape(C, o), UNCHANGED file, SameOuter,
           NEW D, C \subseteq D, D \in SUBSET Calls,
           \A d \in D \ C : kind[d.grp] = "group" /\ CallOK(D, o, d)
    PROVE  Shape(D, o)' /\ Made' = Made /\ Outer' = Outer
  <1>1. Made' = Made /\ Outer' = Outer /\ UNCHANGED <<links, kind, data>>
    BY DEF Made, SameOuter, Outer, file
  <1>2. OuterOK' /\ LastFields'
    <2>1. ReadBack' = ReadBack
      BY SameReadBack
    <2> QED
      BY <1>1, <2>1 DEF Shape, OuterOK, SameOuter, LastFields, Under, Outer
  <1>3. ASSUME NEW d \in D PROVE kind'[d.grp] = "group" /\ CallOK(D, o, d)'
    <2>1. kind[d.grp] = "group" /\ CallOK(D, o, d)
      BY DEF Shape, CallOK
    <2> QED
      BY <1>1, <2>1 DEF CallOK, Under
  <1>4. ASSUME NEW m \in Made' PROVE ObjectOK(D, o, m)'
    <2>1. m \in Made /\ ObjectOK(C, o, m)
      BY <1>1 DEF Shape
    <2> QED
      BY <1>1, <2>1 DEF ObjectOK
  <1>5. Outer' \in D /\ Outer'.type \in Types
    BY <1>1 DEF Shape
  <1> QED
    BY <1>1, <1>2, <1>3, <1>4, <1>5 DEF Shape

(* The call that an optional or a variant comes down to is a call, and is  *)
(* what Unwrapped lists.                                                   *)
LEMMA InnerCall ==
    ASSUME NEW c \in Calls, Wraps(c)
    PROVE  /\ Vacant(c) => Unwrapped(c) = <<>>
           /\ ~Vacant(c) => /\ Inner(c) \in Calls /\ Unwrapped(c) = <<Inner(c)>>
                            /\ Inner(c).grp = c.grp /\ Inner(c).key = c.key
  <1>1. Unwrapped(c) \in Seq(Calls)
    BY UnwrappedCalls DEF Wraps
  <1>2. ASSUME c.type.con = "optional"
        PROVE  Unwrapped(c) = IF Vacant(c) THEN <<>> ELSE <<Inner(c)>>
    BY <1>2 DEF Unwrapped, Vacant, Inner
  <1>3. ASSUME c.type.con = "variant"
        PROVE  Unwrapped(c) = <<Inner(c)>> /\ ~Vacant(c)
    BY <1>3 DEF Unwrapped, Vacant, Inner
  <1>4. Inner(c).grp = c.grp /\ Inner(c).key = c.key
    BY CallFields DEF Inner
  <1>5. Unwrapped(c) = IF Vacant(c) THEN <<>> ELSE <<Inner(c)>>
    BY <1>2, <1>3 DEF Wraps
  <1>6. ASSUME ~Vacant(c) PROVE Inner(c) \in Calls
    <2>1. <<Inner(c)>> \in Seq(Calls)
      BY <1>1, <1>5, <1>6
    <2> QED
      BY <2>1
  <1> QED
    BY <1>4, <1>5, <1>6

(* An optional or a variant comes down to its value. *)
LEMMA UnwrapHistory ==
    ASSUME Inv, Sound, History, Unwrap
    PROVE  History'
  <1>0. pending # <<>> /\ last.ended = "not yet" /\ UNCHANGED file
        /\ Return(Unwrapped(Top) \o Tail(pending))
    BY DEF Unwrap, Inv, TypeOK
  <1>1. PICK C, o : Shape(C, o) /\ Queued(C) /\ Complete(C, o)
    BY <1>0 DEF History
  <1>3. SameOuter
    BY <1>0, <1>1, OuterStays DEF Shape
  <1>4. PICK c : c = Top
    OBVIOUS
  <1>5. c \in Calls /\ Wraps(c) /\ c.grp \in Nodes /\ kind[c.grp] = "group"
    BY <1>0, <1>4, NextCall DEF Wraps, Unwrap
  <1> DEFINE s == Unwrapped(c)
             D == C \cup {s[i] : i \in DOMAIN s}
             q == s \o Tail(pending)
  <1>s. s \in Seq(Calls) /\ (Vacant(c) => s = <<>>)
        /\ (~Vacant(c) => /\ Inner(c) \in Calls /\ s = <<Inner(c)>>
                          /\ Inner(c).grp = c.grp /\ Inner(c).key = c.key)
    <2>1. s \in Seq(Calls)
      BY <1>5, UnwrappedCalls DEF Wraps
    <2> QED
      BY <1>5, <2>1, InnerCall
  <1>q. pending' = q
    BY <1>0, <1>4 DEF Return
  <1> HIDE DEF s
  <1>6. pending \in Seq(Calls) /\ c = Head(pending)
    BY <1>4 DEF Top, Inv, PendingOK
  <1>7. /\ Head(pending) = pending[1] /\ 1 \in DOMAIN pending
        /\ \A i \in DOMAIN q :
              \/ i \in DOMAIN s /\ q[i] = s[i]
              \/ \E j \in DOMAIN pending : j # 1 /\ j = i + 1 - Len(s) /\ q[i] = pending[j]
    BY <1>s, <1>0, QueueLater, Zenon
  <1>8. /\ \A i \in DOMAIN s : i \in DOMAIN q /\ q[i] = s[i]
        /\ \A j \in DOMAIN pending : j # 1 => \E i \in DOMAIN q : q[i] = pending[j]
    BY <1>s, <1>0, QueueLater, Zenon
  <1>t. DOMAIN q \subseteq Nat /\ Len(s) \in Nat
    BY <1>s, <1>0, QueueLater, Zenon
  <1>9. \A d \in D : d \in C \/ (d = Inner(c) /\ d \in Calls /\ ~Vacant(c) /\ Same(d, c) /\ s = <<d>>)
    BY <1>s DEF Same
  <1>10. c \in C /\ C \subseteq D /\ (~Vacant(c) => Inner(c) \in D)
    <2>1. c \in C
      BY <1>6, <1>7, <1>1 DEF Queued
    <2>2. ASSUME ~Vacant(c) PROVE Inner(c) \in D
      <3>1. s = <<Inner(c)>>
        BY <1>s, <2>2
      <3>2. 1 \in DOMAIN s /\ s[1] = Inner(c)
        BY <3>1
      <3> QED
        BY <3>2
    <2> QED
      BY <2>1, <2>2
  <1> HIDE DEF D, q
  <1>11. \A m \in Made : Under(c) # Hard(m)
    BY <1>1, <1>6, <1>7 DEF Queued
  <1>12. Shape(D, o)' /\ Made' = Made /\ Outer' = Outer
    <2>1. C \subseteq D /\ D \in SUBSET Calls
      BY <1>1, <1>9, <1>10 DEF Shape
    <2>2. ASSUME NEW d \in D \ C PROVE kind[d.grp] = "group" /\ CallOK(D, o, d)
      <3>1. Same(d, c)
        BY <1>9, <2>2
      <3>2. CallOK(C, o, c)
        BY <1>1, <1>10 DEF Shape
      <3> QED
        BY <1>5, <1>11, <3>1, <3>2 DEF CallOK, Under, Same
    <2> QED
      BY <1>0, <1>1, <1>3, <2>1, <2>2, SameShape
  <1>13. Queued(D)'
    <2> SUFFICES ASSUME NEW i \in DOMAIN q
                 PROVE  /\ q[i] \in D
                        /\ \A j \in DOMAIN q : Same(q[i], q[j]) => i = j
                        /\ \A d \in D : Same(d, q[i]) =>
                              d = q[i] \/ (Wraps(d) /\ ~Vacant(d) /\ Inner(d) \in D)
                        /\ \A m \in Made : links[q[i].grp][q[i].key] # Hard(m)
      BY <1>0, <1>12, <1>q DEF Queued, Under, file
    <2>s. ASSUME NEW j \in DOMAIN s
          PROVE  j = 1 /\ ~Vacant(c) /\ s[j] = Inner(c) /\ Same(s[j], c)
      BY <1>s DEF Same
    <2>t. \A j \in DOMAIN pending : j # 1 => pending[j] \in C /\ ~Same(pending[j], c)
      BY <1>1, <1>6, <1>7 DEF Queued, Same
    <2>1. CASE i \in DOMAIN s /\ q[i] = s[i]
      <3>1. ~Vacant(c) /\ q[i] = Inner(c) /\ Same(q[i], c) /\ i = 1
        BY <2>1, <2>s
      <3>2. ASSUME NEW j \in DOMAIN q, Same(q[i], q[j]) PROVE i = j
        <4>1. Same(q[j], c)
          BY <3>1, <3>2 DEF Same
        <4>2. CASE j \in DOMAIN s /\ q[j] = s[j]
          BY <2>s, <3>1, <4>2
        <4>3. ASSUME NEW k \in DOMAIN pending, k # 1, q[j] = pending[k] PROVE FALSE
          BY <2>t, <4>1, <4>3
        <4> QED
          BY <1>7, <4>2, <4>3
      <3>3. ASSUME NEW d \in D, Same(d, q[i])
            PROVE  d = q[i] \/ (Wraps(d) /\ ~Vacant(d) /\ Inner(d) \in D)
        <4>1. CASE d \in C
          <5>1. Same(d, c)
            BY <3>1, <3>3 DEF Same
          <5>2. d = c \/ (Wraps(d) /\ ~Vacant(d) /\ Inner(d) \in C)
            BY <1>1, <1>6, <1>7, <4>1, <5>1 DEF Queued
          <5> QED
            BY <1>5, <1>10, <3>1, <5>2
        <4>2. CASE d = Inner(c)
          BY <3>1, <4>2
        <4> QED
          BY <1>9, <4>1, <4>2
      <3>4. \A m \in Made : links[q[i].grp][q[i].key] # Hard(m)
        BY <1>11, <3>1 DEF Same, Under
      <3>5. q[i] \in D
        BY <1>10, <3>1
      <3> QED
        BY <3>2, <3>3, <3>4, <3>5
    <2>2. ASSUME NEW k \in DOMAIN pending, k # 1, k = i + 1 - Len(s), q[i] = pending[k]
          PROVE  /\ q[i] \in D
                 /\ \A j \in DOMAIN q : Same(q[i], q[j]) => i = j
                 /\ \A d \in D : Same(d, q[i]) =>
                       d = q[i] \/ (Wraps(d) /\ ~Vacant(d) /\ Inner(d) \in D)
                 /\ \A m \in Made : links[q[i].grp][q[i].key] # Hard(m)
      <3>1. q[i] \in C /\ q[i] \in D /\ ~Same(q[i], c)
        BY <1>10, <2>2, <2>t
      <3>2. ASSUME NEW j \in DOMAIN q, Same(q[i], q[j]) PROVE i = j
        <4>1. ~Same(q[j], c)
          BY <3>1, <3>2 DEF Same
        <4>2. PICK l \in DOMAIN pending : l # 1 /\ l = j + 1 - Len(s) /\ q[j] = pending[l]
          BY <1>7, <2>s, <4>1
        <4>3. Same(pending[k], pending[l])
          BY <2>2, <3>2, <4>2
        <4>4. k = l
          BY <1>1, <4>3 DEF Queued
        <4> QED
          BY <1>t, <2>2, <4>2, <4>4
      <3>3. ASSUME NEW d \in D, Same(d, q[i])
            PROVE  d = q[i] \/ (Wraps(d) /\ ~Vacant(d) /\ Inner(d) \in D)
        <4>1. ~Same(d, c)
          BY <3>1, <3>3 DEF Same
        <4>2. d \in C
          BY <1>9, <4>1
        <4> QED
          BY <1>1, <1>10, <2>2, <3>3, <4>2 DEF Queued
      <3>4. \A m \in Made : links[q[i].grp][q[i].key] # Hard(m)
        BY <1>1, <2>2 DEF Queued, Under
      <3> QED
        BY <3>1, <3>2, <3>3, <3>4
    <2> QED
      BY <1>7, <2>1, <2>2
  <1>14. Complete(D, o)'
    <2>1. ASSUME NEW d \in D
          PROVE  (\E i \in DOMAIN q : d = q[i]) \/ Settled(D, d)'
      <3>1. CASE d \notin C
        <4>1. s = <<d>>
          BY <1>9, <3>1
        <4>2. 1 \in DOMAIN s /\ s[1] = d
          BY <4>1
        <4> QED
          BY <1>8, <4>2
      <3>2. ASSUME NEW j \in DOMAIN pending, d = pending[j]
            PROVE  (\E i \in DOMAIN q : d = q[i]) \/ Settled(D, d)'
        <4>1. CASE j # 1
          BY <1>8, <3>2, <4>1
        <4>2. CASE j = 1
          BY <1>5, <1>6, <1>7, <1>10, <3>2, <4>2 DEF Settled
        <4> QED
          BY <4>1, <4>2
      <3>3. ASSUME Settled(C, d) PROVE Settled(D, d)'
        BY <1>0, <1>10, <1>12, <3>3 DEF Settled, Under, file
      <3> QED
        BY <1>1, <3>1, <3>2, <3>3 DEF Complete
    <2>2. \A d \in D : (\E i \in DOMAIN pending' : d = pending'[i]) \/ Settled(D, d)'
      BY <1>q, <2>1
    <2>3. \A m \in Made' : o[m].type.con = "leaf" => data'[m] = o[m].val
      BY <1>0, <1>1, <1>12 DEF Complete, file
    <2>4. links'[last'.call.grp][last'.call.key] = last'.link
          \/ \E m \in Made' : links'[last'.call.grp][last'.call.key] = Hard(m)
      BY <1>0, <1>1, <1>3, <1>12 DEF Complete, file, Under, Outer, SameOuter
    <2> QED
      BY <2>2, <2>3, <2>4, Zenon DEF Complete, Under, Outer
  <1> QED
    BY <1>12, <1>13, <1>14 DEF History

-----------------------------------------------------------------------------
(* Every step.                                                             *)

(* The file is as it was. *)
LEMMA SameSound ==
    ASSUME Sound, UNCHANGED file
    PROVE  Sound'
  BY DEF Sound, file

(* An exception before anything is touched. *)
LEMMA FailHistory ==
    ASSUME Inv, History, Fail
    PROVE  History'
  <1>0. pending # <<>> /\ last.ended = "not yet" /\ UNCHANGED file /\ Unwind
    BY DEF Fail, Inv, TypeOK
  <1>1. PICK C, o : Shape(C, o)
    BY <1>0 DEF History
  <1>2. SameOuter /\ last'.ended = "thrown"
    BY <1>0, <1>1, OuterStays DEF Shape
  <1>3. Shape(C, o)'
    <2>1. C \subseteq C /\ C \in SUBSET Calls
      BY <1>1 DEF Shape
    <2> QED
      BY <1>0, <1>1, <1>2, <2>1, SameShape
  <1>4. Queued(C)'
    <2>0. pending' = <<>>
      BY <1>0 DEF Unwind
    <2>1. DOMAIN pending' = {}
      BY <2>0
    <2> QED
      BY <2>1 DEF Queued
  <1> QED
    BY <1>2, <1>3, <1>4 DEF History

(* Links go: what they led to stays. *)
LEMMA SoundUnlinked ==
    ASSUME Inv, Sound, pending # <<>>, kind' = kind,
           links' = links \/ links' = SetLink(links, Top.grp, Top.key, NoLink)
    PROVE  Sound'
  <1>1. links \in Tables /\ Top.grp \in Nodes /\ Top.key \in Names /\ kind[Top.grp] = "group"
    BY NextCall DEF Inv, FileOK
  <1>2. \A m \in Nodes, k \in Names : links'[m][k] = links[m][k] \/ links'[m][k] = NoLink
    BY <1>1, SetLinkValue
  <1>3. ASSUME NEW m \in Nodes, kind'[m] = "none" PROVE links'[m] = EmptyGroup
    <2>1. links[m] = EmptyGroup
      BY <1>3 DEF Sound
    <2>2. links' \in Tables
      BY <1>1, SetLinkTyping, SomeLinks
    <2>3. links'[m] \in [Names -> Links]
      BY <2>2 DEF Tables
    <2>4. \A k \in Names : links'[m][k] = NoLink
      BY <1>2, <2>1 DEF EmptyGroup
    <2> QED
      BY <2>3, <2>4 DEF EmptyGroup
  <1>4. ASSUME NEW m \in Nodes, NEW j \in Nodes, NEW k \in Names, links'[m][k] = Hard(j)
        PROVE  kind'[j] # "none"
    <2>1. links[m][k] = Hard(j)
      BY <1>2, <1>4 DEF Hard, NoLink
    <2> QED
      BY <2>1 DEF Sound
  <1> QED
    BY <1>3, <1>4 DEF Sound

(* The old link is gone and nothing new is there.  In a new group there is *)
(* no link to lose.                                                        *)
LEMMA UnlinkedHistory ==
    ASSUME Inv, History, FailUnlinked
    PROVE  History' /\ (links' = links \/ links' = SetLink(links, Top.grp, Top.key, NoLink))
  <1>0. /\ pending # <<>> /\ last.ended = "not yet" /\ Unwind /\ kind' = kind /\ data' = data /\ tag' = tag
        /\ links' = unlink(links, Top.grp, Top.key, FALSE).links
    BY DEF FailUnlinked, Inv, TypeOK
  <1>1. PICK C, o : Shape(C, o) /\ Queued(C)
    BY <1>0 DEF History
  <1>2. SameOuter /\ last'.ended = "thrown"
    BY <1>0, <1>1, OuterStays DEF Shape
  <1>3. PICK c : c = Top
    OBVIOUS
  <1>4. /\ c \in Calls /\ c.grp \in Nodes /\ c.key \in Names /\ kind[c.grp] = "group"
        /\ \E i \in DOMAIN pending : c = pending[i]
        /\ links \in Tables
    BY <1>0, <1>3, NextCall DEF Inv, FileOK
  <1>5. c \in C /\ \A m \in Made : Under(c) # Hard(m)
    BY <1>1, <1>4 DEF Queued
  <1>6. links' = links \/ (Under(c) # NoLink /\ links' = SetLink(links, c.grp, c.key, NoLink))
    <2>1. has_key(links, c.grp, c.key) => Under(c) # NoLink
      BY DEF has_key, Lexists, NoLink, Under
    <2> QED
      BY <1>0, <1>3, <2>1 DEF unlink, Returns
  <1>7. Queued(C)'
    <2>0. pending' = <<>>
      BY <1>0 DEF Unwind
    <2>1. DOMAIN pending' = {}
      BY <2>0
    <2> QED
      BY <2>1 DEF Queued
  <1>8. CASE links' = links
    <2>1. UNCHANGED file
      BY <1>0, <1>8 DEF file
    <2>2. C \subseteq C /\ C \in SUBSET Calls
      BY <1>1 DEF Shape
    <2>3. Shape(C, o)'
      BY <1>1, <1>2, <2>1, <2>2, SameShape
    <2> QED
      BY <1>2, <1>7, <1>8, <2>3 DEF History
  <1>9. ASSUME Under(c) # NoLink, links' = SetLink(links, c.grp, c.key, NoLink)
        PROVE  History'
    <2>1. /\ links'[c.grp][c.key] = NoLink
          /\ \A m \in Nodes, k \in Names : m # c.grp \/ k # c.key => links'[m][k] = links[m][k]
      BY <1>4, <1>9, SetLinkValue
    <2>2. c.grp \notin Made
      BY <1>4, <1>5, <1>9, <1>1 DEF Shape, ObjectOK, Under
    <2>3. c.grp \in last.old
      BY <1>4, <2>2 DEF Made
    <2>4. c.grp = last.call.grp /\ c.key = last.call.key
      BY <1>0, <1>4, <2>3 DEF Inv, Owned
    <2>5. Under(Outer) = Under(c)
      BY <2>4 DEF Under, Outer
    <2>6. Made = {} /\ last.link # NoLink
      BY <1>1, <1>5, <1>9, <2>5 DEF Shape, OuterOK
    <2>7. Made' = {}
      BY <1>0, <1>2, <2>6 DEF Made, SameOuter
    <2>8. Under(Outer)' = NoLink
      BY <1>2, <2>1, <2>4 DEF Under, Outer, SameOuter
    <2>9. OuterOK'
      <3>1. last'.old \subseteq {m \in Nodes : kind'[m] # "none"} /\ Outer'.grp \in last'.old
        BY <1>0, <1>1, <1>2 DEF Shape, OuterOK, SameOuter, Outer
      <3>2. \A m \in Nodes : last'.link = Hard(m) => m \in last'.old
        BY <1>1, <1>2 DEF Shape, OuterOK, SameOuter
      <3>3. Under(Outer)' # last'.link
        BY <1>2, <2>6, <2>8 DEF SameOuter
      <3> QED
        BY <2>7, <2>8, <3>1, <3>2, <3>3 DEF OuterOK
    <2>10. ASSUME NEW d \in C PROVE kind'[d.grp] = "group" /\ CallOK(C, o, d)'
      BY <1>0, <1>1, <2>7 DEF Shape, CallOK
    <2>11. LastFields' /\ Outer' \in C /\ Outer'.type \in Types /\ C \in SUBSET Calls
      BY <1>1, <1>2 DEF Shape, LastFields, SameOuter, Outer
    <2>12. Shape(C, o)'
      BY <2>7, <2>9, <2>10, <2>11 DEF Shape
    <2> QED
      BY <1>2, <1>7, <2>12 DEF History
  <1> QED
    BY <1>3, <1>6, <1>8, <1>9

(* What WriteLeaf and FailTorn do with a dataset. *)
LEMMA MakesDataset ==
    ASSUME Inv, pending # <<>>, NEW n \in Unused, Top.type.con = "leaf",
           links' = create_dataset(links, Top.grp, Top.key, n, TRUE).links, NewObject(n, "data"),
           NEW x, x \in Torn(Top.val), data' = [data EXCEPT ![n] = x]
    PROVE  /\ Making(Top, n) /\ data'[n] = x
           /\ links' = SetLink(links, Top.grp, Top.key, Hard(n))
  <1>1. n \in Nodes /\ links \in Tables /\ DOMAIN data = Nodes
    BY DEF Unused, Inv, FileOK
  <1>2. links' = SetLink(links, Top.grp, Top.key, Hard(n))
    BY <1>1, NextCall, CreateDatasetResult DEF Creates
  <1>3. data'[n] = x /\ \A m \in Nodes : m # n => data'[m] = data[m]
    BY <1>1
  <1>4. ~Wraps(Top)
    BY DEF Wraps
  <1> QED
    BY <1>2, <1>3, <1>4 DEF Making, NewObject

(* What WriteGroup and FailTorn do with a group. *)
LEMMA MakesGroup ==
    ASSUME Inv, pending # <<>>, NEW n \in Unused, IsGroup(Top.type),
           links' = MakeGroup(links, Top.grp, Top.key, n), NewObject(n, "group"), data' = data
    PROVE  /\ Making(Top, n)
           /\ links' = SetLink(links, Top.grp, Top.key, Hard(n))
  <1>1. n \in Nodes /\ links \in Tables
    BY DEF Unused, Inv, FileOK
  <1>2. TRUE \in BOOLEAN
    OBVIOUS
  <1>3. /\ Creates(create_group(links, Top.grp, Top.key, n, TRUE, TRUE), links, Top.grp, Top.key, Hard(n), TRUE)
        /\ create_group(links, Top.grp, Top.key, n, TRUE, TRUE).ok
    BY <1>1, <1>2, NextCall, CreateGroupResult
  <1>4. links' = SetLink(links, Top.grp, Top.key, Hard(n))
    BY <1>3 DEF Creates, MakeGroup
  <1>5. ~Wraps(Top) /\ Top.type.con # "leaf"
    BY DEF Wraps, IsGroup
  <1> QED
    BY <1>4, <1>5 DEF Making, NewObject

(* A dataset that is made and filled.                                      *)
LEMMA LeafHistory ==
    ASSUME Inv, Sound, History, WriteLeaf
    PROVE  Sound' /\ History'
  <1>1. PICK n \in Unused :
          /\ pending # <<>> /\ Top.type.con = "leaf"
          /\ links' = create_dataset(links, Top.grp, Top.key, n, TRUE).links
          /\ NewObject(n, "data")
          /\ data' = [data EXCEPT ![n] = Top.val]
          /\ Return(Tail(pending))
    BY DEF WriteLeaf
  <1>2. Top.val \in Torn(Top.val)
    BY DEF Torn
  <1>3. /\ Making(Top, n) /\ data'[n] = Top.val
        /\ links' = SetLink(links, Top.grp, Top.key, Hard(n))
    BY <1>1, <1>2, MakesDataset
  <1>4. Return(FillingCalls(Top, n) \o Tail(pending))
    <2>1. FillingCalls(Top, n) = <<>>
      BY <1>1 DEF FillingCalls, IsGroup
    <2>2. pending \in Seq(Calls)
      BY DEF Inv, PendingOK
    <2>3. Tail(pending) \in Seq(Calls)
      BY <1>1, <2>2
    <2>4. <<>> \o Tail(pending) = Tail(pending)
      BY <2>3
    <2> QED
      BY <1>1, <2>1, <2>4
  <1>5. Sound'
    BY <1>1, <1>3, SoundMaking
  <1>6. History'
    BY <1>3, <1>4, MakingHistory
  <1> QED
    BY <1>5, <1>6

(* A group that is made, with its elements to come.                        *)
LEMMA GroupHistory ==
    ASSUME Inv, Sound, History, WriteGroup
    PROVE  Sound' /\ History'
  <1>1. PICK n \in Unused :
          /\ pending # <<>> /\ IsGroup(Top.type)
          /\ links' = MakeGroup(links, Top.grp, Top.key, n)
          /\ NewObject(n, "group") /\ data' = data
          /\ Return(Elements(Top.type, Top.val, n) \o Tail(pending))
    BY DEF WriteGroup
  <1>2. Making(Top, n) /\ links' = SetLink(links, Top.grp, Top.key, Hard(n))
    BY <1>1, MakesGroup
  <1>3. Return(FillingCalls(Top, n) \o Tail(pending)) /\ Top.type.con # "leaf"
    BY <1>1 DEF FillingCalls, IsGroup
  <1>4. Sound'
    BY <1>1, <1>2, SoundMaking
  <1>5. History'
    BY <1>2, <1>3, MakingHistory
  <1> QED
    BY <1>4, <1>5

(* A dataset or a group that is made before an exception.                  *)
LEMMA TornHistory ==
    ASSUME Inv, Sound, History, FailTorn
    PROVE  Sound' /\ History'
  <1>1. PICK n \in Unused :
          /\ pending # <<>> /\ Unwind
          /\ \/ /\ Top.type.con = "leaf"
                /\ links' = create_dataset(links, Top.grp, Top.key, n, TRUE).links
                /\ NewObject(n, "data")
                /\ \E x \in {Fill, Top.val.leaf} :
                      data' = [data EXCEPT ![n] = Leaf(Top.type.dtype, Top.type.extent, x)]
             \/ /\ IsGroup(Top.type)
                /\ links' = MakeGroup(links, Top.grp, Top.key, n)
                /\ NewObject(n, "group") /\ data' = data
    BY DEF FailTorn
  <1>2. ASSUME Making(Top, n), links' = SetLink(links, Top.grp, Top.key, Hard(n)),
               NEW what, what # "none", NewObject(n, what)
        PROVE  Sound' /\ History'
    <2>1. Sound'
      BY <1>1, <1>2, SoundMaking
    <2>2. History'
      BY <1>1, <1>2, MakingHistory
    <2> QED
      BY <2>1, <2>2
  <1>3. ASSUME Top.type.con = "leaf",
               links' = create_dataset(links, Top.grp, Top.key, n, TRUE).links, NewObject(n, "data"),
               NEW x \in {Fill, Top.val.leaf},
               data' = [data EXCEPT ![n] = Leaf(Top.type.dtype, Top.type.extent, x)]
        PROVE  Sound' /\ History'
    <2>1. Top.val = Leaf(Top.type.dtype, Top.type.extent, Top.val.leaf)
      BY <1>1, <1>3, NextCall DEF Typed, IsGroup
    <2>2. Leaf(Top.type.dtype, Top.type.extent, x) \in Torn(Top.val)
      <3>1. CASE x = Top.val.leaf
        BY <2>1, <3>1 DEF Torn
      <3>2. CASE x = Fill
        <4>1. [Leaf(Top.type.dtype, Top.type.extent, Top.val.leaf) EXCEPT !.leaf = Fill]
              = Leaf(Top.type.dtype, Top.type.extent, Fill)
          BY DEF Leaf
        <4> QED
          BY <2>1, <3>2, <4>1 DEF Torn
      <3> QED
        BY <1>3, <3>1, <3>2
    <2>3. Making(Top, n) /\ links' = SetLink(links, Top.grp, Top.key, Hard(n))
      BY <1>1, <1>3, <2>2, MakesDataset
    <2> QED
      BY <1>2, <1>3, <2>3
  <1>4. ASSUME IsGroup(Top.type), links' = MakeGroup(links, Top.grp, Top.key, n),
               NewObject(n, "group"), data' = data
        PROVE  Sound' /\ History'
    <2>1. Making(Top, n) /\ links' = SetLink(links, Top.grp, Top.key, Hard(n))
      BY <1>1, <1>4, MakesGroup
    <2> QED
      BY <1>2, <1>4, <2>1
  <1> QED
    BY <1>1, <1>3, <1>4

(* A client's call begins: nothing is new, and what is under its name is   *)
(* what will be remembered.                                                *)
LEMMA WriteHistory ==
    ASSUME Inv, Sound, NEW g \in Nodes, NEW k \in Keys, NEW i \in Inputs, Write(g, k, i[1], i[2])
    PROVE  Sound' /\ History'
  <1>1. PICK T, v : T = i[1] /\ v = i[2]
    OBVIOUS
  <1>2. <<T, v>> \in Parts /\ k \in Names /\ i = <<T, v>> /\ T \in Types
    BY <1>1, PartsAssumption, NamesAssumption
  <1>3. PICK c : c = Call(T, g, k, v)
    OBVIOUS
  <1>4. c \in Calls /\ c.type = T /\ c.grp = g /\ c.key = k /\ c.val = v
    <2>1. c \in CallsIn(g)
      BY <1>2, <1>3, PartCall
    <2> QED
      BY <1>3, <2>1, CallFields DEF CallsIn
  <1>5. /\ kind[g] = "group" /\ pending' = <<c>> /\ UNCHANGED file
        /\ last' = [ended |-> "not yet", number |-> last.number + 1, call |-> c, link |-> links[g][k],
                    read |-> Read(T, g, k), old |-> Nodes \ Unused]
    BY <1>1, <1>3 DEF Write
  <1>6. /\ last'.ended = "not yet" /\ last'.call = c /\ last'.link = links[g][k]
        /\ last'.read = Read(T, g, k) /\ last'.old = Nodes \ Unused /\ LastFields'
    BY <1>5 DEF LastFields
  <1>7. Sound'
    BY <1>5, SameSound
  <1>8. last'.old = {n \in Nodes : kind[n] # "none"} /\ Made' = {}
    BY <1>5, <1>6 DEF Unused, Made, file
  <1>9. ReadBack' = last'.read
    <2>1. ReadBack' = Read(T, g, k)'
      BY <1>4, <1>6 DEF ReadBack
    <2>2. Read(T, g, k)' = Read(T, g, k)
      BY <1>5, SameRead
    <2> QED
      BY <1>6, <2>1, <2>2
  <1>10. OuterOK'
    <2>1. last'.old \subseteq {n \in Nodes : kind'[n] # "none"} /\ last'.call.grp \in last'.old
      BY <1>4, <1>5, <1>6, <1>8 DEF file
    <2>2. \A m \in Nodes : last'.link = Hard(m) => m \in last'.old
      BY <1>2, <1>6, <1>8 DEF Sound
    <2>3. Under(Outer)' = last'.link
      BY <1>4, <1>5, <1>6 DEF Under, Outer, file
    <2> QED
      BY <1>8, <1>9, <2>1, <2>2, <2>3 DEF OuterOK, Outer
  <1>11. PICK C, o : C = {c} /\ o = 0
    OBVIOUS
  <1>12. Shape(C, o)'
    <2>1. kind'[c.grp] = "group" /\ CallOK(C, o, c)'
      BY <1>4, <1>5, <1>8 DEF CallOK, file
    <2> QED
      BY <1>2, <1>4, <1>6, <1>8, <1>10, <1>11, <2>1 DEF Shape, Outer
  <1>13. DOMAIN pending' = {1} /\ pending'[1] = c
    <2>1. pending' = <<c>>
      BY <1>5
    <2> QED
      BY <2>1
  <1>14. Queued(C)'
    BY <1>8, <1>11, <1>13 DEF Queued
  <1>15. Complete(C, o)'
    <2>1. \A d \in C : \E j \in DOMAIN pending' : d = pending'[j]
      BY <1>11, <1>13
    <2>2. Under(Outer)' = last'.link
      BY <1>4, <1>5, <1>6 DEF Under, Outer, file
    <2> QED
      BY <1>8, <2>1, <2>2 DEF Complete
  <1> QED
    BY <1>7, <1>12, <1>14, <1>15 DEF History

Inv2 == Inv /\ Sound /\ History

(* Every step keeps it.                                                    *)
LEMMA Inv2Step ==
    ASSUME Inv2, [Next]_vars
    PROVE  Inv2'
  <1>1. Inv'
    BY InvStep DEF Inv2
  <1>2. ASSUME NEW g \in Nodes, NEW k \in Keys, NEW i \in Inputs, Write(g, k, i[1], i[2])
        PROVE  Sound' /\ History'
    BY <1>2, WriteHistory DEF Inv2
  <1>3. ASSUME Unwrap PROVE Sound' /\ History'
    <2>1. UNCHANGED file
      BY <1>3 DEF Unwrap
    <2> QED
      BY <1>3, <2>1, SameSound, UnwrapHistory DEF Inv2
  <1>4. ASSUME Fail PROVE Sound' /\ History'
    <2>1. UNCHANGED file
      BY <1>4 DEF Fail
    <2> QED
      BY <1>4, <2>1, SameSound, FailHistory DEF Inv2
  <1>5. ASSUME FailUnlinked PROVE Sound' /\ History'
    <2>1. pending # <<>> /\ kind' = kind
      BY <1>5 DEF FailUnlinked
    <2> QED
      BY <1>5, <2>1, SoundUnlinked, UnlinkedHistory DEF Inv2
  <1>6. CASE UNCHANGED vars
    <2>1. UNCHANGED file /\ pending' = pending /\ last' = last
      BY <1>6 DEF vars, file
    <2>2. Sound'
      BY <2>1, SameSound DEF Inv2
    <2>3. ASSUME last.ended # "never" PROVE History'
      <3>1. PICK C, o : Shape(C, o) /\ Queued(C) /\ (last.ended # "thrown" => Complete(C, o))
        BY <2>3 DEF Inv2, History
      <3>2. SameOuter
        BY <2>1, <3>1 DEF SameOuter, Shape, LastFields
      <3>3. Shape(C, o)' /\ Made' = Made /\ Outer' = Outer
        <4>1. C \subseteq C /\ C \in SUBSET Calls
          BY <3>1 DEF Shape
        <4> QED
          BY <2>1, <3>1, <3>2, <4>1, SameShape DEF Inv2
      <3>4. Queued(C)'
        BY <2>1, <3>1, <3>3 DEF Queued, Under, file
      <3>5. last.ended # "thrown" => Complete(C, o)'
        BY <2>1, <3>1, <3>3 DEF Complete, Settled, Under, file
      <3> QED
        BY <2>1, <3>3, <3>4, <3>5 DEF History
    <2>4. ASSUME last.ended = "never" PROVE History'
      BY <2>1, <2>4 DEF History
    <2> QED
      BY <1>1, <2>2, <2>3, <2>4 DEF Inv2
  <1> QED
    BY <1>1, <1>2, <1>3, <1>4, <1>5, <1>6, LeafHistory, GroupHistory, TornHistory DEF Next, Inv2

(* It holds before the first h5_write.                                     *)
LEMMA Inv2Init ==
    ASSUME Init
    PROVE  Inv2
  <1>1. Inv
    BY InvInit
  <1>2. Sound
    BY DEF Init, Sound, EmptyGroup, Hard, NoLink
  <1>3. History
    BY DEF Init, History, NoCall
  <1> QED
    BY <1>1, <1>2, <1>3 DEF Inv2

(* In every state it is known which calls have made what is new.           *)
LEMMA HistoryKept == Spec => []Inv2
  BY Inv2Init, Inv2Step, PTL DEF Spec

(* A hard link leads to its object, nothing leads nowhere. *)
LEMMA ResolveHard ==
    ASSUME NEW l, NEW g, NEW k
    PROVE  /\ \A m : l[g][k] = Hard(m) => Lexists(l, g, k) /\ Resolve(l, g, k) = m
           /\ l[g][k] = NoLink => ~Lexists(l, g, k)
  <1>1. ASSUME NEW m, l[g][k] = Hard(m) PROVE Lexists(l, g, k) /\ Resolve(l, g, k) = m
    <2>1. l[g][k].type = "hard" /\ l[g][k].node = m
      BY <1>1 DEF Hard
    <2> QED
      BY <2>1 DEF Lexists, Resolve
  <1>2. ASSUME l[g][k] = NoLink PROVE ~Lexists(l, g, k)
    BY <1>2 DEF Lexists, NoLink
  <1> QED
    BY <1>1, <1>2

-----------------------------------------------------------------------------
(* Part of the new value. *)

(* f is what h5_read gives. *)
Reads(f) ==
    \A T \in Types, g \in Nodes, k \in Names :
       Read(T, g, k) = f[T][g][k] /\ Read(T, g, k) = ReadBy(T, g, k, f)

(* Under the name of c there is nothing, or something new. *)
Found(c) == Under(c) = NoLink \/ \E m \in Made : Under(c) = Hard(m)

PartRead(f, c) ==
    \/ f[c.type][c.grp][c.key] \in Ends
    \/ f[c.type][c.grp][c.key] \in Remains[<<c.type, c.val>>]

PartsRead(f, C, S) == \A d \in C : d.type \in S /\ Found(d) => PartRead(f, d)

(* What h5_read does for each kind of type. *)
LEMMA ReadIs ==
    ASSUME NEW f, Reads(f), NEW T \in Types, NEW g \in Nodes, NEW k \in Names
    PROVE  /\ T.con = "leaf" => f[T][g][k] = ReadLeaf(T, g, k)
           /\ T.con = "optional" => f[T][g][k] = ReadOptional(T, g, k, f)
           /\ T.con = "variant" => f[T][g][k] = ReadVariant(T, g, k, f)
           /\ IsGroup(T) => f[T][g][k] = IF has_subgroup(links, kind, g, k)
                                           THEN ReadGroup(T, Resolve(links, g, k), f) ELSE Throw
  <1>1. f[T][g][k] = ReadBy(T, g, k, f)
    BY DEF Reads
  <1>2. ASSUME T.con = "leaf" PROVE ReadBy(T, g, k, f) = ReadLeaf(T, g, k)
    BY <1>2 DEF ReadBy, IsGroup
  <1>3. ASSUME T.con = "optional" PROVE ReadBy(T, g, k, f) = ReadOptional(T, g, k, f)
    BY <1>3 DEF ReadBy, IsGroup
  <1>4. ASSUME T.con = "variant" PROVE ReadBy(T, g, k, f) = ReadVariant(T, g, k, f)
    BY <1>4 DEF ReadBy, IsGroup
  <1>5. ASSUME IsGroup(T)
        PROVE  ReadBy(T, g, k, f) = IF has_subgroup(links, kind, g, k)
                                      THEN ReadGroup(T, Resolve(links, g, k), f) ELSE Throw
    <2>1. T.con # "leaf" /\ T.con # "optional" /\ T.con # "variant"
      BY <1>5 DEF IsGroup
    <2> QED
      BY <1>5, <2>1 DEF ReadBy
  <1> QED
    BY <1>1, <1>2, <1>3, <1>4, <1>5

(* The keys and values that a map with other keys is read from. *)
KeyReads(T, m, f) ==
    [k \in keys(links, m) |->
        IF has_subgroup(links, kind, m, k) THEN f[T.key][Resolve(links, m, k)][KeyName] ELSE Throw]

ValReads(T, m, f) ==
    [k \in keys(links, m) |->
        IF has_subgroup(links, kind, m, k) THEN f[T.of][Resolve(links, m, k)][ValName] ELSE Throw]

(* r is what the keys and values a and b of the names K make a map. *)
PairsOf(r, K, a, b) ==
    \/ r \in Ends /\ \E k \in K : a[k] \in Ends \/ b[k] \in Ends
    \/ /\ \A k \in K : a[k] \notin Ends /\ b[k] \notin Ends
       /\ r = Pairs({<<a[k], b[k]>> : k \in K})

LEMMA ReadPairsIs ==
    ASSUME NEW T, NEW m, NEW f
    PROVE  PairsOf(ReadPairs(T, m, f), keys(links, m), KeyReads(T, m, f), ValReads(T, m, f))
  <1> DEFINE K == keys(links, m)
             a == KeyReads(T, m, f)
             b == ValReads(T, m, f)
             z == [k \in K |-> IF a[k] \in Ends THEN a[k] ELSE b[k]]
  <1>1. ReadPairs(T, m, f) = IF \E k \in K : {a[k], b[k]} \cap Ends # {}
                               THEN EndingByName(z) ELSE Pairs({<<a[k], b[k]>> : k \in K})
    BY Zenon DEF ReadPairs, KeyReads, ValReads
  <1>2. IsFiniteSet(K)
    BY KeysFinite
  <1> HIDE DEF K, a, b
  <1>3. ASSUME NEW k \in K, {a[k], b[k]} \cap Ends # {} PROVE EndingByName(z) \in Ends
    <2>1. DOMAIN z = K /\ z[k] \in Ends
      BY <1>3
    <2> HIDE DEF z
    <2> QED
      BY <1>2, <2>1, EndingByNameEnds
  <1> QED
    BY <1>1, <1>3 DEF PairsOf, K, a, b

(* What may remain of a dataset. *)
LEMMA RemainsLeaf ==
    ASSUME NEW T \in Types, NEW v, <<T, v>> \in Parts, T.con = "leaf"
    PROVE  Remains[<<T, v>>] = Torn(v)
  <1>1. Remains[<<T, v>>] = RemainsBy(T, v, Remains)
    BY RemainsUnfolds
  <1> QED
    BY <1>1 DEF RemainsBy, Torn

(* What may remain of an optional. *)
LEMMA RemainsOptional ==
    ASSUME NEW T \in Types, NEW v, <<T, v>> \in Parts, T.con = "optional"
    PROVE  Remains[<<T, v>>] =
              {None} \cup IF v = None THEN {} ELSE {Some(r) : r \in Remains[<<T.of, v.val>>]}
  <1>1. Remains[<<T, v>>] = RemainsBy(T, v, Remains)
    BY RemainsUnfolds
  <1> QED
    BY <1>1 DEF RemainsBy

(* What may remain of a variant. *)
LEMMA RemainsVariant ==
    ASSUME NEW T \in Types, NEW v, <<T, v>> \in Parts, T.con = "variant"
    PROVE  Remains[<<T, v>>] =
              {Alt(i, r) : i \in {i \in 1..v.alt : StoredAlike(T.alts[i], T.alts[v.alt])},
                           r \in Remains[<<T.alts[v.alt], v.val>>]}
  <1>1. Remains[<<T, v>>] = RemainsBy(T, v, Remains)
    BY RemainsUnfolds
  <1> QED
    BY <1>1 DEF RemainsBy

(* What may remain of a vector. *)
LEMMA RemainsVector ==
    ASSUME NEW T \in Types, NEW v, <<T, v>> \in Parts, T.con = "vector"
    PROVE  Remains[<<T, v>>] =
              UNION {Lists(v, m, [i \in 1..m |-> T.of], Remains) : m \in 0..Len(v.items)}
  <1>1. Remains[<<T, v>>] = RemainsBy(T, v, Remains)
    BY RemainsUnfolds
  <1> QED
    BY <1>1 DEF RemainsBy, Lists

(* What may remain of a tuple. *)
LEMMA RemainsTuple ==
    ASSUME NEW T \in Types, NEW v, <<T, v>> \in Parts, T.con = "tuple"
    PROVE  Remains[<<T, v>>] = Lists(v, Len(v.items), T.elems, Remains)
  <1>1. Remains[<<T, v>>] = RemainsBy(T, v, Remains)
    BY RemainsUnfolds
  <1> QED
    BY <1>1 DEF RemainsBy, Lists

(* What may remain of a pair. *)
LEMMA RemainsPair ==
    ASSUME NEW T \in Types, NEW v, <<T, v>> \in Parts, T.con = "pair"
    PROVE  Remains[<<T, v>>] = Lists(v, 2, <<T.first, T.second>>, Remains)
  <1>1. Remains[<<T, v>>] = RemainsBy(T, v, Remains)
    BY RemainsUnfolds
  <1> QED
    BY <1>1 DEF RemainsBy, Lists

(* What may remain of an array. *)
LEMMA RemainsArray ==
    ASSUME NEW T \in Types, NEW v, <<T, v>> \in Parts, T.con = "array"
    PROVE  Remains[<<T, v>>] = Lists(v, Len(v.items), [i \in DOMAIN v.items |-> T.of], Remains)
  <1>1. Remains[<<T, v>>] = RemainsBy(T, v, Remains)
    BY RemainsUnfolds
  <1> QED
    BY <1>1 DEF RemainsBy, Lists

(* What may remain of a map. *)
LEMMA RemainsMap ==
    ASSUME NEW T \in Types, NEW v, <<T, v>> \in Parts, T.con = "map",
           NEW L \in SUBSET DOMAIN v.entries,
           NEW R, R = [k \in L |-> R[k]], \A k \in L : R[k] = Remains[<<T.of, v.entries[k]>>],
           NEW g \in Picks(R)
    PROVE  Dict(g) \in Remains[<<T, v>>]
  <1>1. Remains[<<T, v>>] = RemainsBy(T, v, Remains)
    BY RemainsUnfolds
  <1>2. RemainsBy(T, v, Remains) =
           {Dict(f) : f \in UNION {Picks([k \in K |-> Remains[<<T.of, v.entries[k]>>]]) :
                                      K \in SUBSET DOMAIN v.entries}}
    BY DEF RemainsBy
  <1>3. R = [k \in L |-> Remains[<<T.of, v.entries[k]>>]]
    OBVIOUS
  <1>4. g \in UNION {Picks([k \in K |-> Remains[<<T.of, v.entries[k]>>]]) : K \in SUBSET DOMAIN v.entries}
    BY <1>3
  <1> QED
    BY <1>1, <1>2, <1>4

(* What may remain of a map with other keys. *)
LEMMA RemainsPairs ==
    ASSUME NEW T \in Types, NEW v, <<T, v>> \in Parts, T.con = "keyed_map"
    PROVE  Remains[<<T, v>>] =
              {Pairs(P) : P \in SUBSET UNION {Remains[<<T.key, q[1]>>] \X Remains[<<T.of, q[2]>>] :
                                                 q \in v.pairs}}
  <1>1. Remains[<<T, v>>] = RemainsBy(T, v, Remains)
    BY RemainsUnfolds
  <1> QED
    BY <1>1 DEF RemainsBy

(* One of these calls. *)
LEMMA ElementRead ==
    ASSUME NEW C, NEW S, NEW f, PartsRead(f, C, S), NEW t \in S, NEW g, NEW k, NEW w,
           Call(t, g, k, w) \in C, Found(Call(t, g, k, w))
    PROVE  f[t][g][k] \in Ends \/ f[t][g][k] \in Remains[<<t, w>>]
  <1> DEFINE c == Call(t, g, k, w)
  <1>1. c.type = t /\ c.grp = g /\ c.key = k /\ c.val = w
    BY CallFields
  <1> HIDE DEF c
  <1>2. PartRead(f, c)
    BY <1>1 DEF PartsRead, c
  <1> QED
    BY <1>1, <1>2 DEF PartRead

(* A group that is new holds some of the elements, each under its name. *)
LEMMA NewGroupHolds ==
    ASSUME Inv, NEW C, NEW o, Shape(C, o), NEW c \in C, IsGroup(c.type),
           NEW m \in Made, Under(c) = Hard(m)
    PROVE  /\ has_subgroup(links, kind, c.grp, c.key) /\ Resolve(links, c.grp, c.key) = m /\ m \in Nodes
           /\ Filling(c.type, c.val, m) \subseteq C
           /\ \A e \in Filling(c.type, c.val, m) : e.grp = m /\ e.key \in Names /\ Found(e)
           /\ \A k \in keys(links, m) :
                 /\ \E e \in Filling(c.type, c.val, m) : e.key = k
                 /\ \E j \in Made : links[m][k] = Hard(j)
  <1>1. ~Wraps(c) /\ c.type.con # "leaf"
    BY DEF Wraps, IsGroup
  <1>2. o[m] = c /\ ObjectOK(C, o, m) /\ c \in Calls /\ m \in Nodes
    BY <1>1 DEF Shape, CallOK, Made
  <1>3. kind[m] = "group" /\ Filling(c.type, c.val, m) \subseteq C
    BY <1>2 DEF ObjectOK, FillingOf
  <1>4. Lexists(links, c.grp, c.key) /\ Resolve(links, c.grp, c.key) = m
    BY ResolveHard DEF Under
  <1>5. \A e \in Filling(c.type, c.val, m) : e.grp = m /\ e \in Calls
    <2>1. Filling(c.type, c.val, m) = FillingOf(c, m)
      BY DEF FillingOf
    <2> QED
      BY <1>2, <2>1, FillingCallsOnce
  <1>6. ASSUME NEW e \in Filling(c.type, c.val, m) PROVE e.key \in Names /\ Found(e)
    <2>1. e.grp = m /\ e.key \in Names
      BY <1>5, CallParts
    <2> QED
      BY <1>2, <2>1 DEF ObjectOK, Found, Under
  <1>7. ASSUME NEW k \in keys(links, m)
        PROVE  /\ \E e \in Filling(c.type, c.val, m) : e.key = k
               /\ \E j \in Made : links[m][k] = Hard(j)
    <2>1. k \in Names /\ links[m][k] # NoLink
      BY ResolveHard DEF keys
    <2> QED
      BY <1>2, <2>1 DEF ObjectOK, FillingOf
  <1> QED
    BY <1>2, <1>3, <1>4, <1>5, <1>6, <1>7 DEF has_key, has_subgroup

(* A dataset. *)
LEMMA PartLeaf ==
    ASSUME Inv, NEW C, NEW o, Shape(C, o), NEW c \in C, c.type.con = "leaf", c.type \in Types, Found(c),
           NEW f, Reads(f)
    PROVE  PartRead(f, c)
  <1>1. c \in Calls /\ c.grp \in Nodes /\ c.key \in Names /\ <<c.type, c.val>> \in Parts
    BY CallParts DEF Shape
  <1>2. f[c.type][c.grp][c.key] = ReadLeaf(c.type, c.grp, c.key)
    BY <1>1, ReadIs
  <1>3. Remains[<<c.type, c.val>>] = Torn(c.val)
    BY <1>1, RemainsLeaf
  <1>4. CASE Under(c) = NoLink
    <2>1. ~has_dataset(links, kind, c.grp, c.key)
      BY <1>4, ResolveHard DEF has_dataset, has_key, Under
    <2> QED
      BY <1>2, <2>1 DEF ReadLeaf, PartRead, Ends
  <1>5. ASSUME NEW m \in Made, Under(c) = Hard(m) PROVE PartRead(f, c)
    <2>1. o[m] = c /\ ObjectOK(C, o, m)
      BY <1>5 DEF Shape, CallOK, Wraps
    <2>2. data[m] \in Torn(c.val)
      BY <2>1 DEF ObjectOK
    <2>3. Resolve(links, c.grp, c.key) = m
      BY <1>5, ResolveHard DEF Under
    <2>4. ReadLeaf(c.type, c.grp, c.key) \in Ends \cup {data[m]}
      BY <2>3 DEF ReadLeaf, Ends
    <2> QED
      BY <1>2, <1>3, <2>2, <2>4 DEF PartRead
  <1> QED
    BY <1>4, <1>5 DEF Found

(* What is read of a call that came down to another. *)
LEMMA InnerRead ==
    ASSUME Inv, NEW C, NEW o, Shape(C, o), NEW c \in C, Wraps(c),
           NEW m \in Made, Under(c) = Hard(m), NEW S, NEW f, PartsRead(f, C, S),
           Inner(c).type \in S
    PROVE  ~Vacant(c) /\ Inner(c) \in C /\ Under(Inner(c)) = Hard(m)
           /\ LET d == Inner(c)
              IN  f[d.type][c.grp][c.key] \in Ends \/ f[d.type][c.grp][c.key] \in Remains[<<d.type, c.val.val>>]
  <1>1. ~Vacant(c) /\ Inner(c) \in C
    BY DEF Shape, CallOK
  <1>2. Inner(c).grp = c.grp /\ Inner(c).key = c.key /\ Inner(c).val = c.val.val
    BY CallFields DEF Inner
  <1>3. Found(Inner(c)) /\ Under(Inner(c)) = Hard(m)
    BY <1>2 DEF Found, Under
  <1>4. PartRead(f, Inner(c))
    BY <1>1, <1>3 DEF PartsRead
  <1> QED
    BY <1>1, <1>2, <1>3, <1>4 DEF PartRead

(* An optional: the link tells nothing from a value.                       *)
LEMMA PartOptional ==
    ASSUME Inv, NEW C, NEW o, Shape(C, o), NEW c \in C, c.type.con = "optional", c.type \in Types, Found(c),
           NEW S, MadeOf(c.type, S), NEW f, Reads(f), PartsRead(f, C, S)
    PROVE  PartRead(f, c)
  <1>1. c \in Calls /\ c.grp \in Nodes /\ c.key \in Names /\ <<c.type, c.val>> \in Parts
    BY CallParts DEF Shape
  <1>2. f[c.type][c.grp][c.key] = ReadOptional(c.type, c.grp, c.key, f)
    BY <1>1, ReadIs
  <1>3. Remains[<<c.type, c.val>>] =
           {None} \cup IF c.val = None THEN {} ELSE {Some(r) : r \in Remains[<<c.type.of, c.val.val>>]}
    BY <1>1, RemainsOptional
  <1>4. CASE Under(c) = NoLink
    <2>1. ~has_key(links, c.grp, c.key)
      BY <1>4, ResolveHard DEF has_key, Under
    <2> QED
      BY <1>2, <1>3, <2>1 DEF ReadOptional, PartRead
  <1>5. ASSUME NEW m \in Made, Under(c) = Hard(m) PROVE PartRead(f, c)
    <2>1. Wraps(c) /\ Inner(c).type = c.type.of /\ c.type.of \in S
      BY CallFields DEF Wraps, Inner, MadeOf
    <2>2. ~Vacant(c) /\ (f[c.type.of][c.grp][c.key] \in Ends
                         \/ f[c.type.of][c.grp][c.key] \in Remains[<<c.type.of, c.val.val>>])
      BY <1>5, <2>1, InnerRead
    <2>3. c.val # None
      BY <2>2 DEF Vacant
    <2>4. f[c.type][c.grp][c.key] \in Ends \cup {None, Some(f[c.type.of][c.grp][c.key])}
          /\ (f[c.type.of][c.grp][c.key] \in Ends => f[c.type][c.grp][c.key] \in Ends \cup {None})
      BY <1>2 DEF ReadOptional
    <2> QED
      BY <1>3, <2>2, <2>3, <2>4 DEF PartRead
  <1> QED
    BY <1>4, <1>5 DEF Found

(* A value of a dataset's type. *)
LEMMA LeafValue ==
    ASSUME NEW T, NEW v, <<T, v>> \in Parts, T.con = "leaf"
    PROVE  v = Leaf(T.dtype, T.extent, v.leaf)
  <1>1. Typed(T, v)
    BY PartTyped
  <1> QED
    BY <1>1 DEF Typed

(* A variant: the alternative that is tried is stored like its own, or its *)
(* dataset does not fit and h5_read throws.                                *)
LEMMA PartVariant ==
    ASSUME Inv, NEW C, NEW o, Shape(C, o), NEW c \in C, c.type.con = "variant", c.type \in Types, Found(c),
           NEW S \in SUBSET Types, MadeOf(c.type, S), NEW f, Reads(f), PartsRead(f, C, S)
    PROVE  PartRead(f, c)
  <1> DEFINE T == c.type
             v == c.val
             g == c.grp
             k == c.key
  <1>1. c \in Calls /\ g \in Nodes /\ k \in Names /\ <<T, v>> \in Parts
    BY CallParts DEF Shape
  <1>2. f[T][g][k] = ReadVariant(T, g, k, f)
    BY <1>1, ReadIs
  <1>3. Remains[<<T, v>>] = {Alt(i, r) : i \in {i \in 1..v.alt : StoredAlike(T.alts[i], T.alts[v.alt])},
                                         r \in Remains[<<T.alts[v.alt], v.val>>]}
    BY <1>1, RemainsVariant
  <1>4. /\ v.alt \in DOMAIN T.alts /\ DOMAIN T.alts = 1..Len(T.alts) /\ Len(T.alts) \in Nat
        /\ \A i \in DOMAIN T.alts : T.alts[i] \in S /\ T.alts[i].con = "leaf"
        /\ <<T.alts[v.alt], v.val>> \in Parts
    <2>1. ShapeOK(S, T, v)
      BY <1>1, PartShape
    <2> HIDE DEF T, v
    <2> QED
      BY <2>1 DEF ShapeOK, Element, T
  <1>5. CASE Under(c) = NoLink
    <2>1. ~has_dataset(links, kind, g, k)
      BY <1>5, ResolveHard DEF has_dataset, has_key, Under
    <2> QED
      BY <1>2, <2>1 DEF ReadVariant, PartRead, Ends
  <1>6. ASSUME NEW m \in Made, Under(c) = Hard(m) PROVE PartRead(f, c)
    <2>1. Wraps(c) /\ Inner(c).type = T.alts[v.alt] /\ T.alts[v.alt] \in S /\ Inner(c).val = v.val
      BY <1>4, CallFields DEF Wraps, Inner
    <2>2. Inner(c) \in C /\ Under(Inner(c)) = Hard(m)
      BY <1>6, <2>1, InnerRead
    <2>3. o[m] = Inner(c) /\ ObjectOK(C, o, m)
      BY <1>4, <2>1, <2>2 DEF Shape, CallOK, Wraps
    <2>4. data[m] \in Torn(v.val)
      BY <1>4, <2>1, <2>3 DEF ObjectOK
    <2>5. v.val = Leaf(T.alts[v.alt].dtype, T.alts[v.alt].extent, v.val.leaf)
      BY <1>4, LeafValue
    <2>6. data[m].dtype = T.alts[v.alt].dtype /\ data[m].extent = T.alts[v.alt].extent
      <3>1. [Leaf(T.alts[v.alt].dtype, T.alts[v.alt].extent, v.val.leaf) EXCEPT !.leaf = Fill]
            = Leaf(T.alts[v.alt].dtype, T.alts[v.alt].extent, Fill)
        BY DEF Leaf
      <3>2. \E x : data[m] = Leaf(T.alts[v.alt].dtype, T.alts[v.alt].extent, x)
        BY <2>4, <2>5, <3>1 DEF Torn
      <3> QED
        BY <3>2, ValueFields
    <2>7. Remains[<<T.alts[v.alt], v.val>>] = Torn(v.val)
      BY <1>4, RemainsLeaf
    <2> DEFINE fits == {i \in DOMAIN T.alts : T.alts[i].dtype = data[m].dtype}
               i == CHOOSE i \in fits : \A j \in fits : i <= j
    <2>8. i \in fits /\ i <= v.alt
      <3>1. v.alt \in fits /\ fits \subseteq Nat
        BY <1>4, <2>6
      <3>2. \E j \in fits : \A l \in fits : j <= l
        BY <3>1, Least
      <3> HIDE DEF fits
      <3>3. i \in fits /\ \A j \in fits : i <= j
        BY <3>2
      <3> QED
        BY <3>1, <3>3
    <2>9. Resolve(links, g, k) = m
      BY <1>6, ResolveHard DEF Under
    <2>10. f[T][g][k] \in Ends
           \/ (f[T.alts[i]][g][k] \notin Ends /\ f[T][g][k] = Alt(i, f[T.alts[i]][g][k]))
      BY <1>2, <2>9 DEF ReadVariant, Ends
    <2> HIDE DEF i
    <2>11. i \in 1..v.alt /\ T.alts[i].dtype = data[m].dtype /\ T.alts[i] \in Types /\ T.alts[i].con = "leaf"
      <3>1. i \in DOMAIN T.alts /\ T.alts[i].dtype = data[m].dtype
        BY <2>8
      <3> QED
        BY <1>4, <2>8, <3>1
    <2>12. f[T.alts[i]][g][k] = ReadLeaf(T.alts[i], g, k)
      BY <1>1, <2>11, ReadIs
    <2>13. f[T.alts[i]][g][k] \notin Ends =>
              f[T.alts[i]][g][k] = data[m] /\ data[m].extent = T.alts[i].extent
      BY <2>9, <2>12 DEF ReadLeaf, Ends
    <2>14. ASSUME f[T.alts[i]][g][k] \notin Ends PROVE Alt(i, f[T.alts[i]][g][k]) \in Remains[<<T, v>>]
      <3>1. StoredAlike(T.alts[i], T.alts[v.alt]) /\ f[T.alts[i]][g][k] \in Remains[<<T.alts[v.alt], v.val>>]
        BY <2>4, <2>6, <2>7, <2>11, <2>13, <2>14 DEF StoredAlike
      <3> QED
        BY <1>3, <2>11, <3>1
    <2> QED
      BY <2>10, <2>14 DEF PartRead
  <1> QED
    BY <1>5, <1>6 DEF Found

(* A list that is read element by element. *)
LEMMA CollectIn ==
    ASSUME NEW n \in Nat, NEW s, s = [i \in 1..n |-> s[i]], NEW v, NEW elem, NEW left,
           \A i \in 1..n : s[i] \in Ends \/ s[i] \in left[<<elem[i], v.items[i]>>]
    PROVE  Collect(s) \in Ends \/ Collect(s) \in Lists(v, n, elem, left)
  <1>1. CASE \E i \in DOMAIN s : s[i] \in Ends
    BY <1>1, CollectEnds
  <1>2. ASSUME \A i \in 1..n : s[i] \notin Ends
        PROVE  Collect(s) \in Lists(v, n, elem, left)
    <2> DEFINE R == [i \in 1..n |-> left[<<elem[i], v.items[i]>>]]
    <2>1. DOMAIN R = 1..n /\ \A i \in 1..n : R[i] = left[<<elem[i], v.items[i]>>]
      OBVIOUS
    <2>2. Lists(v, n, elem, left) = {List(r) : r \in Picks(R)}
      BY DEF Lists
    <2> HIDE DEF R
    <2>3. \A i \in 1..n : s[i] \in R[i] /\ s[i] \in UNION Range(R)
      BY <1>2, <2>1 DEF Range
    <2>4. s \in Picks(R)
      <3>1. s \in [1..n -> UNION Range(R)]
        BY <2>3
      <3> QED
        BY <2>1, <2>3, <3>1 DEF Picks
    <2>5. DOMAIN s = 1..n
      OBVIOUS
    <2>6. Collect(s) = List(s)
      BY <1>2, <2>5 DEF Collect
    <2> QED
      BY <2>2, <2>4, <2>6
  <1>3. DOMAIN s = 1..n
    OBVIOUS
  <1> QED
    BY <1>1, <1>2, <1>3

(* What can be read of a group is what its objects give. *)
LEMMA GroupRead ==
    ASSUME Inv, NEW C, NEW o, Shape(C, o), NEW c \in C, IsGroup(c.type), c.type \in Types, Found(c),
           NEW f, Reads(f)
    PROVE  \/ f[c.type][c.grp][c.key] \in Ends
           \/ \E m \in Made : Under(c) = Hard(m) /\ f[c.type][c.grp][c.key] = ReadGroup(c.type, m, f)
  <1>1. c \in Calls /\ c.grp \in Nodes /\ c.key \in Names
    BY CallParts DEF Shape
  <1>2. f[c.type][c.grp][c.key] = IF has_subgroup(links, kind, c.grp, c.key)
                                    THEN ReadGroup(c.type, Resolve(links, c.grp, c.key), f) ELSE Throw
    BY <1>1, ReadIs
  <1>3. CASE Under(c) = NoLink
    <2>1. ~has_subgroup(links, kind, c.grp, c.key)
      BY <1>3, ResolveHard DEF has_subgroup, has_key, Under
    <2> QED
      BY <1>2, <2>1 DEF Ends
  <1>4. ASSUME NEW m \in Made, Under(c) = Hard(m)
        PROVE  f[c.type][c.grp][c.key] \in Ends \/ f[c.type][c.grp][c.key] = ReadGroup(c.type, m, f)
    <2>1. Resolve(links, c.grp, c.key) = m
      BY <1>4, ResolveHard DEF Under
    <2> QED
      BY <1>2, <2>1 DEF Ends
  <1> QED
    BY <1>3, <1>4 DEF Found

(* A vector may be short. *)
LEMMA PartVector ==
    ASSUME Inv, NEW C, NEW o, Shape(C, o), NEW c \in C, NEW T \in Types, NEW v, c.type = T, c.val = v,
           T.con = "vector", NEW S, MadeOf(T, S), NEW f, PartsRead(f, C, S),
           NEW m \in Made, Under(c) = Hard(m)
    PROVE  ReadVector(T, m, f) \in Ends \/ ReadVector(T, m, f) \in Remains[<<T, v>>]
  <1>1. <<T, v>> \in Parts /\ IsGroup(T)
    BY CallParts DEF Shape, IsGroup
  <1>2. ShapeOK(S, T, v)
    BY <1>1, PartShape
  <1>3. Len(v.items) \in Nat /\ Len(v.items) <= Len(Index) /\ DOMAIN v.items = 1..Len(v.items)
        /\ \A i \in DOMAIN v.items : T.of \in S
    BY <1>2 DEF ShapeOK, ListOK, Element
  <1>4. Filling(T, v, m) = {Call(T.of, m, Index[i], v.items[i]) : i \in 1..Len(v.items)}
    BY <1>2, FillingVector
  <1>5. /\ Filling(T, v, m) \subseteq C
        /\ \A e \in Filling(T, v, m) : Found(e)
        /\ \A k \in keys(links, m) : \E e \in Filling(T, v, m) : e.key = k
    BY <1>1, NewGroupHolds
  <1> DEFINE n == Length(m)
  <1>6. n \in Nat /\ n <= Len(v.items)
    <2>1. keys(links, m) \subseteq Indices(Len(v.items))
      BY <1>4, <1>5, CallFields DEF Indices
    <2>2. IsFiniteSet(Indices(Len(v.items))) /\ Cardinality(Indices(Len(v.items))) = Len(v.items)
      BY <1>3, IndicesCount
    <2>3. Cardinality(keys(links, m)) <= Cardinality(Indices(Len(v.items)))
      BY <2>1, <2>2, FS_Subset
    <2> QED
      BY <2>2, <2>3, KeysFinite DEF Length
  <1>7. ~(n > Len(Index))
    <2>1. Len(Index) \in Nat
      BY NamesAssumption
    <2> QED
      BY <1>3, <1>6, <2>1
  <1> HIDE DEF n
  <1> DEFINE elem == [i \in 1..n |-> T.of]
  <1>8. ReadVector(T, m, f) = Collect([i \in 1..n |-> f[T.of][m][Index[i]]])
    BY <1>7 DEF ReadVector, n
  <1>9. [i \in 1..n |-> f[T.of][m][Index[i]]] = [i \in 1..n |-> f[elem[i]][m][Index[i]]]
    OBVIOUS
  <1>10. \A i \in 1..n : /\ elem[i] \in S
                         /\ Call(elem[i], m, Index[i], v.items[i]) \in C
                         /\ Found(Call(elem[i], m, Index[i], v.items[i]))
    <2> SUFFICES ASSUME NEW i \in 1..n
                 PROVE  /\ T.of \in S
                        /\ Call(T.of, m, Index[i], v.items[i]) \in C
                        /\ Found(Call(T.of, m, Index[i], v.items[i]))
      OBVIOUS
    <2>1. i \in 1..Len(v.items)
      BY <1>3, <1>6
    <2>2. Call(T.of, m, Index[i], v.items[i]) \in Filling(T, v, m)
      BY <1>4, <2>1
    <2> QED
      BY <1>3, <1>5, <2>1, <2>2
  <1>11. Lists(v, n, elem, Remains) \subseteq Remains[<<T, v>>]
    <2>1. Remains[<<T, v>>] = UNION {Lists(v, l, [i \in 1..l |-> T.of], Remains) : l \in 0..Len(v.items)}
      BY <1>1, RemainsVector
    <2>2. n \in 0..Len(v.items)
      BY <1>3, <1>6
    <2> QED
      BY <2>1, <2>2
  <1> HIDE DEF elem
  <1> DEFINE s == [i \in 1..n |-> f[elem[i]][m][Index[i]]]
  <1>s. s = [i \in 1..n |-> s[i]] /\ \A i \in 1..n : s[i] = f[elem[i]][m][Index[i]]
    OBVIOUS
  <1> HIDE DEF s
  <1>r. ASSUME NEW i \in 1..n PROVE s[i] \in Ends \/ s[i] \in Remains[<<elem[i], v.items[i]>>]
    <2>1. f[elem[i]][m][Index[i]] \in Ends \/ f[elem[i]][m][Index[i]] \in Remains[<<elem[i], v.items[i]>>]
      BY <1>10, ElementRead
    <2> QED
      BY <1>s, <2>1
  <1>12. Collect(s) \in Ends \/ Collect(s) \in Lists(v, n, elem, Remains)
    BY <1>6, <1>r, <1>s, CollectIn
  <1> USE DEF s
  <1> QED
    BY <1>8, <1>9, <1>11, <1>12

(* A tuple has all of its elements, or cannot be read. *)
LEMMA PartTuple ==
    ASSUME Inv, NEW C, NEW o, Shape(C, o), NEW c \in C, NEW T \in Types, NEW v, c.type = T, c.val = v,
           T.con = "tuple", NEW S, MadeOf(T, S), NEW f, PartsRead(f, C, S),
           NEW m \in Made, Under(c) = Hard(m)
    PROVE  ReadTuple(T, m, f) \in Ends \/ ReadTuple(T, m, f) \in Remains[<<T, v>>]
  <1>1. <<T, v>> \in Parts /\ IsGroup(T)
    BY CallParts DEF Shape, IsGroup
  <1>2. ShapeOK(S, T, v)
    BY <1>1, PartShape
  <1> DEFINE n == Len(v.items)
             elem == T.elems
  <1>3. n \in Nat /\ DOMAIN elem = 1..n /\ \A i \in 1..n : elem[i] \in S
    BY <1>2 DEF ShapeOK, ListOK, Element
  <1>4. Filling(T, v, m) = {Call(elem[i], m, Index[i], v.items[i]) : i \in 1..n}
    BY <1>2, FillingTuple
  <1>5. Filling(T, v, m) \subseteq C /\ \A e \in Filling(T, v, m) : Found(e)
    BY <1>1, NewGroupHolds
  <1>6. Remains[<<T, v>>] = Lists(v, n, elem, Remains)
    BY <1>1, RemainsTuple
  <1>7. ReadTuple(T, m, f) \in Ends \cup {Collect([i \in 1..n |-> f[elem[i]][m][Index[i]]])}
    BY <1>3 DEF ReadTuple, Ends
  <1> HIDE DEF n, elem
  <1>8. \A i \in 1..n : /\ elem[i] \in S
                        /\ Call(elem[i], m, Index[i], v.items[i]) \in C
                        /\ Found(Call(elem[i], m, Index[i], v.items[i]))
    BY <1>3, <1>4, <1>5
  <1> DEFINE s == [i \in 1..n |-> f[elem[i]][m][Index[i]]]
  <1>s. s = [i \in 1..n |-> s[i]] /\ \A i \in 1..n : s[i] = f[elem[i]][m][Index[i]]
    OBVIOUS
  <1> HIDE DEF s
  <1>r. ASSUME NEW i \in 1..n PROVE s[i] \in Ends \/ s[i] \in Remains[<<elem[i], v.items[i]>>]
    <2>1. f[elem[i]][m][Index[i]] \in Ends \/ f[elem[i]][m][Index[i]] \in Remains[<<elem[i], v.items[i]>>]
      BY <1>8, ElementRead
    <2> QED
      BY <1>s, <2>1
  <1>9. Collect(s) \in Ends \/ Collect(s) \in Lists(v, n, elem, Remains)
    BY <1>3, <1>r, <1>s, CollectIn
  <1> USE DEF s
  <1> QED
    BY <1>6, <1>7, <1>9

(* A pair has both of its elements, or cannot be read.                     *)
LEMMA PartPair ==
    ASSUME Inv, NEW C, NEW o, Shape(C, o), NEW c \in C, NEW T \in Types, NEW v, c.type = T, c.val = v,
           T.con = "pair", NEW S, MadeOf(T, S), NEW f, PartsRead(f, C, S),
           NEW m \in Made, Under(c) = Hard(m)
    PROVE  ReadPair(T, m, f) \in Ends \/ ReadPair(T, m, f) \in Remains[<<T, v>>]
  <1>1. <<T, v>> \in Parts /\ IsGroup(T)
    BY CallParts DEF Shape, IsGroup
  <1>2. ShapeOK(S, T, v)
    BY <1>1, PartShape
  <1> DEFINE elem == <<T.first, T.second>>
  <1>3. elem[1] = T.first /\ elem[2] = T.second /\ 1..2 = {1, 2}
    OBVIOUS
  <1>4. Filling(T, v, m) = {Call(T.first, m, Index[1], v.items[1]), Call(T.second, m, Index[2], v.items[2])}
    BY <1>2, FillingPair
  <1>5. Filling(T, v, m) \subseteq C /\ \A e \in Filling(T, v, m) : Found(e)
    BY <1>1, NewGroupHolds
  <1>6. Remains[<<T, v>>] = Lists(v, 2, elem, Remains)
    BY <1>1, RemainsPair
  <1>7. ReadPair(T, m, f) \in Ends \cup {Collect(<<f[T.first][m][Index[1]], f[T.second][m][Index[2]]>>)}
    BY DEF ReadPair, Ends
  <1>8. T.first \in S /\ T.second \in S
    BY <1>2 DEF ShapeOK, Element
  <1> HIDE DEF elem
  <1>9. \A i \in 1..2 : /\ elem[i] \in S
                        /\ Call(elem[i], m, Index[i], v.items[i]) \in C
                        /\ Found(Call(elem[i], m, Index[i], v.items[i]))
    BY <1>3, <1>4, <1>5, <1>8
  <1> DEFINE s == [i \in 1..2 |-> f[elem[i]][m][Index[i]]]
  <1>10. s = <<f[T.first][m][Index[1]], f[T.second][m][Index[2]]>>
    BY <1>3
  <1>s. s = [i \in 1..2 |-> s[i]] /\ \A i \in 1..2 : s[i] = f[elem[i]][m][Index[i]]
    OBVIOUS
  <1> HIDE DEF s
  <1>r. ASSUME NEW i \in 1..2 PROVE s[i] \in Ends \/ s[i] \in Remains[<<elem[i], v.items[i]>>]
    <2>1. f[elem[i]][m][Index[i]] \in Ends \/ f[elem[i]][m][Index[i]] \in Remains[<<elem[i], v.items[i]>>]
      BY <1>9, ElementRead
    <2> QED
      BY <1>s, <2>1
  <1>11. Collect(s) \in Ends \/ Collect(s) \in Lists(v, 2, elem, Remains)
    <2>1. 2 \in Nat
      OBVIOUS
    <2> QED
      BY <1>r, <1>s, <2>1, CollectIn
  <1> QED
    BY <1>6, <1>7, <1>10, <1>11

(* An array has all of its elements, or cannot be read.                    *)
LEMMA PartArray ==
    ASSUME Inv, NEW C, NEW o, Shape(C, o), NEW c \in C, NEW T \in Types, NEW v, c.type = T, c.val = v,
           T.con = "array", NEW S, MadeOf(T, S), NEW f, PartsRead(f, C, S),
           NEW m \in Made, Under(c) = Hard(m)
    PROVE  ReadArray(T, m, f) \in Ends \/ ReadArray(T, m, f) \in Remains[<<T, v>>]
  <1>1. <<T, v>> \in Parts /\ IsGroup(T)
    BY CallParts DEF Shape, IsGroup
  <1>2. ShapeOK(S, T, v)
    BY <1>1, PartShape
  <1> DEFINE n == Len(v.items)
             elem == [i \in DOMAIN v.items |-> T.of]
  <1>3. n \in Nat /\ DOMAIN v.items = 1..n /\ T.size = n /\ \A i \in 1..n : T.of \in S
    BY <1>2 DEF ShapeOK, ListOK, Element
  <1>4. \A i \in 1..n : Call(T.of, m, Index[i], v.items[i]) \in Filling(T, v, m)
    <2>1. Filling(T, v, m) = {Call(T.shape, m, ShapeName, Leaf(T.shape.dtype, T.shape.extent, T.size))}
                             \cup {Call(T.of, m, Index[i], v.items[i]) : i \in 1..Len(v.items)}
      BY <1>2, FillingArray
    <2> QED
      BY <2>1
  <1>5. Filling(T, v, m) \subseteq C /\ \A e \in Filling(T, v, m) : Found(e)
    BY <1>1, NewGroupHolds
  <1>6. Remains[<<T, v>>] = Lists(v, n, elem, Remains)
    BY <1>1, RemainsArray
  <1>7. ReadArray(T, m, f) \in Ends \cup {Collect([i \in 1..n |-> f[T.of][m][Index[i]]])}
    BY <1>3 DEF ReadArray, Ends
  <1>8. \A i \in 1..n : elem[i] = T.of
    BY <1>3
  <1> HIDE DEF n, elem
  <1>9. \A i \in 1..n : /\ elem[i] \in S
                        /\ Call(elem[i], m, Index[i], v.items[i]) \in C
                        /\ Found(Call(elem[i], m, Index[i], v.items[i]))
    BY <1>3, <1>4, <1>5, <1>8
  <1>10. [i \in 1..n |-> f[T.of][m][Index[i]]] = [i \in 1..n |-> f[elem[i]][m][Index[i]]]
    BY <1>8
  <1> DEFINE s == [i \in 1..n |-> f[elem[i]][m][Index[i]]]
  <1>s. s = [i \in 1..n |-> s[i]] /\ \A i \in 1..n : s[i] = f[elem[i]][m][Index[i]]
    OBVIOUS
  <1> HIDE DEF s
  <1>r. ASSUME NEW i \in 1..n PROVE s[i] \in Ends \/ s[i] \in Remains[<<elem[i], v.items[i]>>]
    <2>1. f[elem[i]][m][Index[i]] \in Ends \/ f[elem[i]][m][Index[i]] \in Remains[<<elem[i], v.items[i]>>]
      BY <1>9, ElementRead
    <2> QED
      BY <1>s, <2>1
  <1>11. Collect(s) \in Ends \/ Collect(s) \in Lists(v, n, elem, Remains)
    BY <1>3, <1>r, <1>s, CollectIn
  <1> USE DEF s
  <1> QED
    BY <1>6, <1>7, <1>10, <1>11

(* One element of each set. *)
LEMMA PickIn ==
    ASSUME NEW K, NEW R, R = [k \in K |-> R[k]], NEW r, r = [k \in K |-> r[k]],
           \A k \in K : r[k] \in R[k]
    PROVE  r \in Picks(R)
  <1>1. DOMAIN R = K
    OBVIOUS
  <1>2. \A k \in K : r[k] \in UNION Range(R)
    BY <1>1 DEF Range
  <1>3. r \in [K -> UNION Range(R)]
    BY <1>2
  <1> QED
    BY <1>1, <1>3 DEF Picks

(* A map may lack entries. *)
LEMMA PartMap ==
    ASSUME Inv, NEW C, NEW o, Shape(C, o), NEW c \in C, NEW T \in Types, NEW v, c.type = T, c.val = v,
           T.con = "map", NEW S, MadeOf(T, S), NEW f, PartsRead(f, C, S),
           NEW m \in Made, Under(c) = Hard(m)
    PROVE  ReadMap(T, m, f) \in Ends \/ ReadMap(T, m, f) \in Remains[<<T, v>>]
  <1>1. <<T, v>> \in Parts /\ IsGroup(T)
    BY CallParts DEF Shape, IsGroup
  <1>2. ShapeOK(S, T, v)
    BY <1>1, PartShape
  <1>3. \A k \in DOMAIN v.entries : T.of \in S
    BY <1>2 DEF ShapeOK, Element
  <1>4. Filling(T, v, m) = {Call(T.of, m, k, v.entries[k]) : k \in DOMAIN v.entries}
    BY <1>2, FillingMap
  <1>5. /\ Filling(T, v, m) \subseteq C
        /\ \A e \in Filling(T, v, m) : Found(e)
        /\ \A k \in keys(links, m) : \E e \in Filling(T, v, m) : e.key = k
    BY <1>1, NewGroupHolds
  <1> DEFINE K == keys(links, m)
  <1>6. K \subseteq DOMAIN v.entries
    BY <1>4, <1>5, CallFields
  <1> DEFINE r == [k \in K |-> f[T.of][m][k]]
             R == [k \in K |-> Remains[<<T.of, v.entries[k]>>]]
  <1>7. ReadMap(T, m, f) = IF \E k \in K : r[k] \in Ends THEN EndingByName(r) ELSE Dict(r)
    BY DEF ReadMap
  <1>8. ASSUME NEW k \in K PROVE r[k] \in Ends \/ r[k] \in R[k]
    <2>1. Call(T.of, m, k, v.entries[k]) \in C /\ Found(Call(T.of, m, k, v.entries[k])) /\ T.of \in S
      BY <1>3, <1>4, <1>5, <1>6
    <2>2. f[T.of][m][k] \in Ends \/ f[T.of][m][k] \in Remains[<<T.of, v.entries[k]>>]
      BY <2>1, ElementRead
    <2> QED
      BY <2>2
  <1>11. /\ R = [k \in K |-> R[k]] /\ r = [k \in K |-> r[k]]
         /\ \A k \in K : R[k] = Remains[<<T.of, v.entries[k]>>]
    OBVIOUS
  <1>k. IsFiniteSet(K)
    BY KeysFinite
  <1> HIDE DEF r, R, K
  <1>e. ASSUME NEW k \in K, r[k] \in Ends PROVE EndingByName(r) \in Ends
    BY <1>11, <1>k, <1>e, EndingByNameEnds
  <1>12. ASSUME \A k \in K : r[k] \notin Ends PROVE Dict(r) \in Remains[<<T, v>>]
    <2>1. r \in Picks(R)
      BY <1>8, <1>11, <1>12, PickIn
    <2> QED
      BY <1>1, <1>6, <1>11, <2>1, RemainsMap
  <1> QED
    BY <1>7, <1>e, <1>12

(* The key and the value of an entry that is there. *)
LEMMA EntryRead ==
    ASSUME Inv, NEW C, NEW o, Shape(C, o), NEW T, NEW q, NEW m, NEW k,
           Call(Entry(T), m, k, q) \in C, NEW j \in Made, links[m][k] = Hard(j),
           NEW S, T.key \in S, T.of \in S, NEW f, PartsRead(f, C, S)
    PROVE  /\ has_subgroup(links, kind, m, k) /\ Resolve(links, m, k) = j
           /\ f[T.key][j][KeyName] \in Ends \/ f[T.key][j][KeyName] \in Remains[<<T.key, q[1]>>]
           /\ f[T.of][j][ValName] \in Ends \/ f[T.of][j][ValName] \in Remains[<<T.of, q[2]>>]
  <1> DEFINE e == Call(Entry(T), m, k, q)
  <1>1. e \in C /\ e.type = Entry(T) /\ e.grp = m /\ e.key = k /\ e.val = q
    BY CallFields
  <1> HIDE DEF e
  <1>2. IsGroup(Entry(T)) /\ Entry(T).con = "entry" /\ Entry(T).key = T.key /\ Entry(T).of = T.of
    BY DEF Entry, IsGroup
  <1>3. Under(e) = Hard(j)
    BY <1>1 DEF Under
  <1>4. /\ has_subgroup(links, kind, m, k) /\ Resolve(links, m, k) = j
        /\ Filling(Entry(T), q, j) \subseteq C
        /\ \A d \in Filling(Entry(T), q, j) : Found(d)
    BY <1>1, <1>2, <1>3, NewGroupHolds
  <1>5. Filling(Entry(T), q, j) = {Call(T.key, j, KeyName, q[1]), Call(T.of, j, ValName, q[2])}
    BY <1>2, FillingEntry
  <1>6. f[T.key][j][KeyName] \in Ends \/ f[T.key][j][KeyName] \in Remains[<<T.key, q[1]>>]
    BY <1>4, <1>5, ElementRead
  <1>7. f[T.of][j][ValName] \in Ends \/ f[T.of][j][ValName] \in Remains[<<T.of, q[2]>>]
    BY <1>4, <1>5, ElementRead
  <1> QED
    BY <1>4, <1>6, <1>7

(* An entry that is there is whole, or h5_read throws. *)
LEMMA PartPairs ==
    ASSUME Inv, NEW C, NEW o, Shape(C, o), NEW c \in C, NEW T \in Types, NEW v, c.type = T, c.val = v,
           T.con = "keyed_map", NEW S, MadeOf(T, S), NEW f, PartsRead(f, C, S),
           NEW m \in Made, Under(c) = Hard(m)
    PROVE  ReadPairs(T, m, f) \in Ends \/ ReadPairs(T, m, f) \in Remains[<<T, v>>]
  <1>1. <<T, v>> \in Parts /\ IsGroup(T)
    BY CallParts DEF Shape, IsGroup
  <1>2. ShapeOK(S, T, v) /\ T.key \in S /\ T.of \in S
    BY <1>1, PartShape DEF MadeOf
  <1>3. IsFiniteSet(v.pairs)
    BY <1>2 DEF ShapeOK
  <1>4. Filling(T, v, m) = {Call(Entry(T), m, Index[i], Order(v.pairs)[i]) : i \in 1..Cardinality(v.pairs)}
    BY <1>2, FillingPairs
  <1>5. /\ Filling(T, v, m) \subseteq C
        /\ \A k \in keys(links, m) :
              /\ \E e \in Filling(T, v, m) : e.key = k
              /\ \E j \in Made : links[m][k] = Hard(j)
    BY <1>1, NewGroupHolds
  <1> DEFINE K == keys(links, m)
             a == KeyReads(T, m, f)
             b == ValReads(T, m, f)
             U == UNION {Remains[<<T.key, q[1]>>] \X Remains[<<T.of, q[2]>>] : q \in v.pairs}
  <1>6. \/ ReadPairs(T, m, f) \in Ends
        \/ /\ \A k \in K : a[k] \notin Ends /\ b[k] \notin Ends
           /\ ReadPairs(T, m, f) = Pairs({<<a[k], b[k]>> : k \in K})
    BY ReadPairsIs DEF PairsOf
  <1>7. ASSUME NEW k \in K
        PROVE  \E q \in v.pairs : /\ a[k] \in Ends \/ a[k] \in Remains[<<T.key, q[1]>>]
                                  /\ b[k] \in Ends \/ b[k] \in Remains[<<T.of, q[2]>>]
    <2>1. PICK e \in Filling(T, v, m) : e.key = k
      BY <1>5
    <2>2. PICK i \in 1..Cardinality(v.pairs) : e = Call(Entry(T), m, Index[i], Order(v.pairs)[i])
      BY <1>4
    <2>3. PICK j \in Made : links[m][k] = Hard(j)
      BY <1>5
    <2>4. PICK q : q = Order(v.pairs)[i]
      OBVIOUS
    <2>5. q \in v.pairs
      BY <1>3, <2>4, SetToSeqOnce DEF Order
    <2>6. Call(Entry(T), m, k, q) \in C
      <3>1. Index[i] = k
        BY <2>1, <2>2, CallFields
      <3> QED
        BY <1>5, <2>2, <2>4, <3>1
    <2>7. /\ has_subgroup(links, kind, m, k) /\ Resolve(links, m, k) = j
          /\ f[T.key][j][KeyName] \in Ends \/ f[T.key][j][KeyName] \in Remains[<<T.key, q[1]>>]
          /\ f[T.of][j][ValName] \in Ends \/ f[T.of][j][ValName] \in Remains[<<T.of, q[2]>>]
      BY <1>2, <2>3, <2>6, EntryRead
    <2> QED
      BY <2>5, <2>7 DEF KeyReads, ValReads
  <1>8. Remains[<<T, v>>] = {Pairs(P) : P \in SUBSET U}
    BY <1>1, RemainsPairs
  <1> HIDE DEF a, b, K
  <1>9. ASSUME \A k \in K : a[k] \notin Ends /\ b[k] \notin Ends PROVE {<<a[k], b[k]>> : k \in K} \in SUBSET U
    <2> SUFFICES ASSUME NEW k \in K PROVE <<a[k], b[k]>> \in U
      OBVIOUS
    <2>1. a[k] \notin Ends /\ b[k] \notin Ends
      BY <1>9
    <2>2. PICK q \in v.pairs : a[k] \in Remains[<<T.key, q[1]>>] /\ b[k] \in Remains[<<T.of, q[2]>>]
      BY <1>7, <2>1
    <2>3. <<a[k], b[k]>> \in Remains[<<T.key, q[1]>>] \X Remains[<<T.of, q[2]>>]
      BY <2>2
    <2> QED
      BY <2>3
  <1> HIDE DEF U
  <1> QED
    BY <1>6, <1>8, <1>9

(* Whatever part has been written of a value, it is read as such or not at *)
(* all: from the types that a type is made of to the type itself.          *)
LEMMA PartStep ==
    ASSUME Inv, NEW C, NEW o, Shape(C, o), NEW c \in C, NEW T \in Types, c.type = T, Found(c),
           NEW S \in SUBSET Types, MadeOf(T, S), NEW f, Reads(f), PartsRead(f, C, S)
    PROVE  PartRead(f, c)
  <1>1. PICK v : c.val = v
    OBVIOUS
  <1>2. ASSUME T.con = "leaf" PROVE PartRead(f, c)
    BY <1>2, PartLeaf
  <1>3. ASSUME T.con = "optional" PROVE PartRead(f, c)
    BY <1>3, PartOptional
  <1>4. ASSUME T.con = "variant" PROVE PartRead(f, c)
    BY <1>4, PartVariant
  <1>5. ASSUME IsGroup(T) PROVE PartRead(f, c)
    <2> SUFFICES ASSUME NEW m \in Made, Under(c) = Hard(m)
                 PROVE  ReadGroup(T, m, f) \in Ends \/ ReadGroup(T, m, f) \in Remains[<<T, v>>]
      BY <1>1, <1>5, GroupRead DEF PartRead
    <2>1. ASSUME T.con = "vector" PROVE ReadGroup(T, m, f) = ReadVector(T, m, f)
      BY <2>1 DEF ReadGroup
    <2>2. ASSUME T.con = "tuple" PROVE ReadGroup(T, m, f) = ReadTuple(T, m, f)
      BY <2>2 DEF ReadGroup
    <2>3. ASSUME T.con = "pair" PROVE ReadGroup(T, m, f) = ReadPair(T, m, f)
      BY <2>3 DEF ReadGroup
    <2>4. ASSUME T.con = "array" PROVE ReadGroup(T, m, f) = ReadArray(T, m, f)
      BY <2>4 DEF ReadGroup
    <2>5. ASSUME T.con = "map" PROVE ReadGroup(T, m, f) = ReadMap(T, m, f)
      BY <2>5 DEF ReadGroup
    <2>6. ASSUME T.con = "keyed_map" PROVE ReadGroup(T, m, f) = ReadPairs(T, m, f)
      BY <2>6 DEF ReadGroup
    <2>7. T.con \in {"vector", "tuple", "pair", "array", "map", "keyed_map"}
      BY <1>5 DEF MadeOf, IsGroup
    <2>8. CASE T.con = "vector"
      BY <1>1, <2>1, <2>8, PartVector
    <2>9. CASE T.con = "tuple"
      BY <1>1, <2>2, <2>9, PartTuple
    <2>10. CASE T.con = "pair"
      BY <1>1, <2>3, <2>10, PartPair
    <2>11. CASE T.con = "array"
      BY <1>1, <2>4, <2>11, PartArray
    <2>12. CASE T.con = "map"
      BY <1>1, <2>5, <2>12, PartMap
    <2>13. CASE T.con = "keyed_map"
      BY <1>1, <2>6, <2>13, PartPairs
    <2> QED
      BY <2>7, <2>8, <2>9, <2>10, <2>11, <2>12, <2>13
  <1> QED
    BY <1>2, <1>3, <1>4, <1>5 DEF IsGroup

(* This goes for the calls of every type.                                  *)
LEMMA ReadsPart ==
    ASSUME Inv, NEW C, NEW o, Shape(C, o), NEW f, Reads(f)
    PROVE  PartsRead(f, C, Types)
  <1> DEFINE Q == {T \in Types : \A c \in C : c.type = T /\ Found(c) => PartRead(f, c)}
  <1>1. ASSUME NEW T \in Types, NEW S \in SUBSET Q, MadeOf(T, S)
        PROVE  T \in Q
    <2>1. PartsRead(f, C, S)
      BY DEF PartsRead
    <2>2. S \in SUBSET Types
      OBVIOUS
    <2>3. \A c \in C : c.type = T /\ Found(c) => PartRead(f, c)
      BY <1>1, <2>1, <2>2, PartStep
    <2> QED
      BY <2>3
  <1>2. Q = {T \in Types : \A c \in C : c.type = T /\ Found(c) => PartRead(f, c)}
    OBVIOUS
  <1> HIDE DEF Q
  <1>3. Types \subseteq Q
    BY <1>1, TypeInduction
  <1> QED
    BY <1>2, <1>3 DEF PartsRead

(* The type of the outermost call is one that can be read. *)
LEMMA OuterType ==
    ASSUME Inv, NEW C, NEW o, Shape(C, o)
    PROVE  /\ Outer \in C /\ Outer.type \in Types /\ Outer.grp \in Nodes /\ Outer.key \in Names
           /\ Written = <<Outer.type, Outer.val>> /\ Written \in Parts
  <1>1. Outer \in Calls /\ Outer \in C /\ Outer.type \in Types
    BY DEF Shape
  <1>2. <<Outer.type, Outer.val>> \in Parts /\ Outer.grp \in Nodes /\ Outer.key \in Names
    BY <1>1, CallParts
  <1> QED
    BY <1>1, <1>2 DEF Written, Outer

(* However h5_write ended, what h5_read gives of the outermost value. *)
LEMMA PartReadBack ==
    ASSUME Inv, NEW C, NEW o, Shape(C, o)
    PROVE  \/ ReadBack \in Ends
           \/ ReadBack \in Remains[Written]
           \/ ReadBack = last.read /\ Under(Outer) = last.link
  <1>1. /\ Outer \in C /\ Outer.type \in Types /\ Outer.grp \in Nodes /\ Outer.key \in Names
        /\ Written = <<Outer.type, Outer.val>>
    BY OuterType
  <1>2. PICK f : Reads(f)
    BY ReadUnfolds DEF Reads
  <1>3. ReadBack = f[Outer.type][Outer.grp][Outer.key]
    BY <1>1, <1>2 DEF Reads, ReadBack, Outer
  <1>4. CASE Under(Outer) = last.link
    BY <1>4 DEF Shape, OuterOK
  <1>5. CASE Found(Outer)
    <2>1. PartsRead(f, C, Types)
      BY <1>2, ReadsPart
    <2>2. PartRead(f, Outer)
      BY <1>1, <1>5, <2>1 DEF PartsRead
    <2> QED
      BY <1>1, <1>3, <2>2 DEF PartRead
  <1>6. Under(Outer) = last.link \/ Found(Outer)
    BY DEF Shape, OuterOK, Found
  <1> QED
    BY <1>4, <1>5, <1>6

(* However h5_write ended, h5_read never gives a mixture of old and new.   *)
THEOREM NoMixture == Spec => []PartOnly
  <1>1. Inv2 => PartOnly
    <2> SUFFICES ASSUME Inv, History, last.ended \in {"returned", "thrown"}
                 PROVE  \/ ReadBack \in Ends
                        \/ ReadBack \in Remains[Written]
                        \/ /\ ReadBack = last.read
                           /\ links[last.call.grp][last.call.key] = last.link
      BY DEF Inv2, PartOnly
    <2>1. PICK C, o : Shape(C, o)
      BY DEF History
    <2> QED
      BY <2>1, PartReadBack DEF Under, Outer
  <1> QED
    BY <1>1, HistoryKept, PTL

-----------------------------------------------------------------------------
(* All of the new value. *)

(* No value is what stands for its absence. *)
LEMMA NoValueThrows ==
    ASSUME NEW T \in Types, NEW v, <<T, v>> \in Parts
    PROVE  v \notin Ends /\ (v = None => T.con = "optional")
  <1>1. PICK S \in SUBSET Types : MadeOf(T, S)
    BY TypeMade
  <1>2. ShapeOK(S, T, v)
    BY <1>1, PartShape
  <1>3. /\ v.is \in {"throw", "terminate"} => v # None /\ ~\E s : v = List(s) \/ v = Dict(s) \/ v = Pairs(s) \/ v = Some(s)
        /\ v.is \in {"throw", "terminate"} => ~\E i, s, e : v = Alt(i, s) \/ v = Leaf(i, s, e)
        /\ v.is = "none" => ~\E s : v = List(s) \/ v = Dict(s) \/ v = Pairs(s) \/ v = Some(s)
        /\ v.is = "none" => ~\E i, s, e : v = Alt(i, s) \/ v = Leaf(i, s, e)
        /\ v \in Ends => v.is \in {"throw", "terminate"}
        /\ v = None => v.is = "none"
    BY ValueFields DEF Ends
  <1>4. T.con \in {"leaf", "variant"} => \E i, s, e : v = Alt(i, s) \/ v = Leaf(i, s, e)
    BY <1>2 DEF ShapeOK
  <1>5. T.con \in {"vector", "tuple", "pair", "array", "map", "keyed_map"} =>
           \E s : v = List(s) \/ v = Dict(s) \/ v = Pairs(s) \/ v = Some(s)
    <2>1. T.con \in {"vector", "tuple", "array"} => ListOK(v)
      BY <1>2 DEF ShapeOK
    <2>2. ListOK(v) => \E s : v = List(s)
      BY DEF ListOK
    <2>3. T.con = "pair" => \E s : v = List(s)
      BY <1>2 DEF ShapeOK
    <2>4. T.con = "map" => \E s : v = Dict(s)
      BY <1>2 DEF ShapeOK
    <2>5. T.con = "keyed_map" => \E s : v = Pairs(s)
      BY <1>2 DEF ShapeOK
    <2> QED
      BY <2>1, <2>2, <2>3, <2>4, <2>5
  <1>6. T.con = "optional" => v = None \/ \E s : v = Some(s)
    BY <1>2 DEF ShapeOK
  <1>7. T.con \in {"leaf", "variant", "vector", "tuple", "pair", "array", "map", "keyed_map", "optional"}
    BY <1>1 DEF MadeOf
  <1> QED
    BY <1>3, <1>4, <1>5, <1>6, <1>7

(* When a value of each kind can be read back. *)
LEMMA StorableOptional ==
    ASSUME NEW T \in Types, NEW v, <<T, v>> \in Parts, NEW a \in BOOLEAN, Storable[<<T, v>>][a],
           T.con = "optional"
    PROVE  IF v = None THEN a ELSE Storable[<<T.of, v.val>>][FALSE]
  <1>1. StorableBy(T, v, a, Storable)
    BY StorableUnfolds
  <1> QED
    BY <1>1 DEF StorableBy

(* Of a variant: no earlier alternative has the datatype of its own.       *)
LEMMA StorableVariant ==
    ASSUME NEW T \in Types, NEW v, <<T, v>> \in Parts, NEW a \in BOOLEAN, Storable[<<T, v>>][a],
           T.con = "variant"
    PROVE  \A i \in 1..(v.alt - 1) : T.alts[i].dtype # T.alts[v.alt].dtype
  <1>1. StorableBy(T, v, a, Storable)
    BY StorableUnfolds
  <1> QED
    BY <1>1 DEF StorableBy

(* Of a vector: none of the elements may be missing.                       *)
LEMMA StorableVector ==
    ASSUME NEW T \in Types, NEW v, <<T, v>> \in Parts, NEW a \in BOOLEAN, Storable[<<T, v>>][a],
           T.con = "vector"
    PROVE  \A i \in DOMAIN v.items : Storable[<<T.of, v.items[i]>>][FALSE]
  <1>1. StorableBy(T, v, a, Storable)
    BY StorableUnfolds
  <1> QED
    BY <1>1 DEF StorableBy

(* Of a tuple: none of the elements may be missing.                        *)
LEMMA StorableTuple ==
    ASSUME NEW T \in Types, NEW v, <<T, v>> \in Parts, NEW a \in BOOLEAN, Storable[<<T, v>>][a],
           T.con = "tuple"
    PROVE  \A i \in DOMAIN v.items : Storable[<<T.elems[i], v.items[i]>>][FALSE]
  <1>1. StorableBy(T, v, a, Storable)
    BY StorableUnfolds
  <1> QED
    BY <1>1 DEF StorableBy

(* Of a pair: neither of the elements may be missing.                      *)
LEMMA StorablePair ==
    ASSUME NEW T \in Types, NEW v, <<T, v>> \in Parts, NEW a \in BOOLEAN, Storable[<<T, v>>][a],
           T.con = "pair"
    PROVE  Storable[<<T.first, v.items[1]>>][FALSE] /\ Storable[<<T.second, v.items[2]>>][FALSE]
  <1>1. StorableBy(T, v, a, Storable)
    BY StorableUnfolds
  <1> QED
    BY <1>1 DEF StorableBy

(* Of an array, whose length is stored: elements may be missing.           *)
LEMMA StorableArray ==
    ASSUME NEW T \in Types, NEW v, <<T, v>> \in Parts, NEW a \in BOOLEAN, Storable[<<T, v>>][a],
           T.con = "array"
    PROVE  \A i \in DOMAIN v.items : Storable[<<T.of, v.items[i]>>][TRUE]
  <1>1. StorableBy(T, v, a, Storable)
    BY StorableUnfolds
  <1> QED
    BY <1>1 DEF StorableBy

(* Of a map: none of the values may be missing.                            *)
LEMMA StorableMap ==
    ASSUME NEW T \in Types, NEW v, <<T, v>> \in Parts, NEW a \in BOOLEAN, Storable[<<T, v>>][a],
           T.con = "map"
    PROVE  \A k \in DOMAIN v.entries : Storable[<<T.of, v.entries[k]>>][FALSE]
  <1>1. StorableBy(T, v, a, Storable)
    BY StorableUnfolds
  <1> QED
    BY <1>1 DEF StorableBy

(* Of a map with other keys: values may be missing, keys may not.          *)
LEMMA StorablePairs ==
    ASSUME NEW T \in Types, NEW v, <<T, v>> \in Parts, NEW a \in BOOLEAN, Storable[<<T, v>>][a],
           T.con = "keyed_map"
    PROVE  \A q \in v.pairs : Storable[<<T.key, q[1]>>][FALSE] /\ Storable[<<T.of, q[2]>>][TRUE]
  <1>1. StorableBy(T, v, a, Storable)
    BY StorableUnfolds
  <1> QED
    BY <1>1 DEF StorableBy

(* Only where nothing is read as such is an optional without a value read  *)
(* back.                                                                   *)
LEMMA NoneAbsent ==
    ASSUME NEW T \in Types, <<T, None>> \in Parts, NEW a \in BOOLEAN, Storable[<<T, None>>][a]
    PROVE  a
  <1>1. T.con = "optional"
    BY NoValueThrows
  <1> QED
    BY <1>1, StorableOptional

(* What a call wrote is there. *)
Stored(c) == \E m \in Made : Under(c) = Hard(m)

(* The file after an h5_write that returned. *)
Done(C, o) == Shape(C, o) /\ Complete(C, o) /\ pending = <<>>

WholeRead(f, c) ==
    \A a \in BOOLEAN : Storable[<<c.type, c.val>>][a] /\ (a => Found(c)) =>
       f[c.type][c.grp][c.key] = c.val /\ (c.val # None => Stored(c))

WholesRead(f, C, S) == \A d \in C : d.type \in S => WholeRead(f, d)

(* The elements of a container: where nothing may be missing, and where    *)
(* something may.                                                          *)
ElementsStored(C, S, f) ==
    \A d \in C : d.type \in S /\ Storable[<<d.type, d.val>>][FALSE] =>
       f[d.type][d.grp][d.key] = d.val /\ d.val \notin Ends /\ links[d.grp][d.key] # NoLink

ElementsFound(C, S, f) ==
    \A d \in C : d.type \in S /\ Storable[<<d.type, d.val>>][TRUE] /\ Found(d) =>
       f[d.type][d.grp][d.key] = d.val /\ d.val \notin Ends

(* Both are so where every call for a type in S is read whole.             *)
LEMMA ElementsWhole ==
    ASSUME Inv, NEW C, NEW o, Shape(C, o), NEW S \in SUBSET Types, NEW f, WholesRead(f, C, S)
    PROVE  ElementsStored(C, S, f) /\ ElementsFound(C, S, f)
  <1>1. ASSUME NEW d \in C, d.type \in S
        PROVE  \A a \in BOOLEAN :
                  Storable[<<d.type, d.val>>][a] /\ (a => Found(d)) =>
                     /\ f[d.type][d.grp][d.key] = d.val /\ d.val \notin Ends
                     /\ ~a => links[d.grp][d.key] # NoLink
    <2> SUFFICES ASSUME NEW a \in BOOLEAN, Storable[<<d.type, d.val>>][a], a => Found(d)
                 PROVE  /\ f[d.type][d.grp][d.key] = d.val /\ d.val \notin Ends
                        /\ ~a => links[d.grp][d.key] # NoLink
      OBVIOUS
    <2>1. f[d.type][d.grp][d.key] = d.val /\ (d.val # None => Stored(d))
      BY <1>1 DEF WholesRead, WholeRead
    <2>2. <<d.type, d.val>> \in Parts /\ d.type \in Types
      BY <1>1, CallParts DEF Shape
    <2>3. d.val \notin Ends
      BY <2>2, NoValueThrows
    <2>4. ASSUME ~a PROVE links[d.grp][d.key] # NoLink
      <3>1. d.val # None
        BY <2>2, <2>4, NoneAbsent
      <3>2. \E m \in Made : links[d.grp][d.key] = Hard(m)
        BY <2>1, <3>1 DEF Stored, Under
      <3>3. \A m : Hard(m) # NoLink
        BY DEF Hard, NoLink
      <3> QED
        BY <3>2, <3>3
    <2> QED
      BY <2>1, <2>3, <2>4
  <1>2. ASSUME NEW d \in C, d.type \in S
        PROVE  /\ Storable[<<d.type, d.val>>][FALSE] =>
                     f[d.type][d.grp][d.key] = d.val /\ d.val \notin Ends /\ links[d.grp][d.key] # NoLink
               /\ Storable[<<d.type, d.val>>][TRUE] /\ Found(d) =>
                     f[d.type][d.grp][d.key] = d.val /\ d.val \notin Ends
    <2>1. FALSE \in BOOLEAN /\ TRUE \in BOOLEAN
      OBVIOUS
    <2> QED
      BY <1>1, <1>2, <2>1
  <1> QED
    BY <1>2 DEF ElementsStored, ElementsFound

(* A call that is not an optional's or a variant's is done. *)
LEMMA DoneStored ==
    ASSUME Inv, NEW C, NEW o, Done(C, o), NEW c \in C, ~Wraps(c)
    PROVE  \E m \in Made : Under(c) = Hard(m) /\ o[m] = c /\ ObjectOK(C, o, m)
  <1>1. DOMAIN pending = {}
    BY DEF Done
  <1>2. Settled(C, c)
    BY <1>1 DEF Done, Complete
  <1>3. PICK m \in Made : Under(c) = Hard(m)
    BY <1>2 DEF Settled
  <1>4. o[m] = c
    BY <1>3 DEF Done, Shape, CallOK
  <1> QED
    BY <1>3, <1>4 DEF Done, Shape

(* A dataset. *)
LEMMA WholeLeaf ==
    ASSUME Inv, NEW C, NEW o, Done(C, o), NEW c \in C, c.type.con = "leaf", c.type \in Types,
           NEW f, Reads(f)
    PROVE  f[c.type][c.grp][c.key] = c.val /\ Stored(c)
  <1>1. c \in Calls /\ c.grp \in Nodes /\ c.key \in Names /\ <<c.type, c.val>> \in Parts
    BY CallParts DEF Done, Shape
  <1>2. f[c.type][c.grp][c.key] = ReadLeaf(c.type, c.grp, c.key)
    BY <1>1, ReadIs
  <1>3. PICK m \in Made : Under(c) = Hard(m) /\ o[m] = c /\ ObjectOK(C, o, m)
    BY DoneStored DEF Wraps
  <1>4. kind[m] = "data" /\ data[m] = c.val /\ m \in Nodes
    BY <1>3 DEF ObjectOK, Done, Complete, Made
  <1>5. Lexists(links, c.grp, c.key) /\ Resolve(links, c.grp, c.key) = m
    BY <1>3, ResolveHard DEF Under
  <1>6. has_dataset(links, kind, c.grp, c.key)
    BY <1>4, <1>5 DEF has_dataset, has_key
  <1>7. c.val = Leaf(c.type.dtype, c.type.extent, c.val.leaf)
    BY <1>1, LeafValue
  <1>8. c.val.dtype = c.type.dtype /\ c.val.extent = c.type.extent
    BY <1>7, ValueFields
  <1>9. ReadLeaf(c.type, c.grp, c.key) = c.val
    BY <1>4, <1>5, <1>6, <1>8 DEF ReadLeaf
  <1> QED
    BY <1>2, <1>3, <1>9 DEF Stored

(* A call that came down to another, and what holds of that one. *)
LEMMA DoneInner ==
    ASSUME Inv, NEW C, NEW o, Done(C, o), NEW c \in C, Wraps(c), ~Vacant(c)
    PROVE  /\ Inner(c) \in C /\ Inner(c).grp = c.grp /\ Inner(c).key = c.key /\ Inner(c).val = c.val.val
           /\ Stored(Inner(c)) <=> Stored(c)
  <1>1. DOMAIN pending = {}
    BY DEF Done
  <1>2. Settled(C, c)
    BY <1>1 DEF Done, Complete
  <1>3. Inner(c) \in C
    BY <1>2 DEF Settled
  <1>4. Inner(c).grp = c.grp /\ Inner(c).key = c.key /\ Inner(c).val = c.val.val
    BY CallFields DEF Inner
  <1> QED
    BY <1>3, <1>4 DEF Stored, Under

(* An optional: without a value, where nothing is found, or with one.      *)
LEMMA WholeOptional ==
    ASSUME Inv, NEW C, NEW o, Done(C, o), NEW c \in C, NEW T \in Types, NEW v, c.type = T, c.val = v,
           T.con = "optional", NEW S \in SUBSET Types, MadeOf(T, S), NEW f, Reads(f), WholesRead(f, C, S)
    PROVE  WholeRead(f, c)
  <1>1. c \in Calls /\ c.grp \in Nodes /\ c.key \in Names /\ <<T, v>> \in Parts
    BY CallParts DEF Done, Shape
  <1>2. f[T][c.grp][c.key] = ReadOptional(T, c.grp, c.key, f)
    BY <1>1, ReadIs
  <1>3. ShapeOK(S, T, v)
    BY <1>1, PartShape
  <1>4. Wraps(c)
    BY DEF Wraps
  <1> SUFFICES ASSUME NEW a \in BOOLEAN, Storable[<<T, v>>][a], a => Found(c)
               PROVE  f[T][c.grp][c.key] = v /\ (v # None => Stored(c))
    BY DEF WholeRead
  <1>5. CASE v = None
    <2>1. Found(c)
      BY <1>1, <1>5, NoneAbsent
    <2>2. ~Stored(c)
      BY <1>4, <1>5 DEF Stored, Done, Shape, CallOK, Vacant
    <2>3. Under(c) = NoLink
      BY <2>1, <2>2 DEF Found, Stored
    <2>4. ~has_key(links, c.grp, c.key)
      BY <2>3, ResolveHard DEF has_key, Under
    <2> QED
      BY <1>2, <1>5, <2>4 DEF ReadOptional
  <1>6. CASE v # None
    <2>1. Storable[<<T.of, v.val>>][FALSE]
      BY <1>1, <1>6, StorableOptional
    <2>2. v = Some(v.val) /\ T.of \in S /\ <<T.of, v.val>> \in Parts
      BY <1>3, <1>6 DEF ShapeOK, Element
    <2>3. ~Vacant(c) /\ Inner(c).type = T.of
      BY <1>6, CallFields DEF Vacant, Inner
    <2>4. /\ Inner(c) \in C /\ Inner(c).grp = c.grp /\ Inner(c).key = c.key /\ Inner(c).val = v.val
          /\ Stored(Inner(c)) <=> Stored(c)
      BY <1>4, <2>3, DoneInner
    <2>5. WholeRead(f, Inner(c))
      BY <2>2, <2>3, <2>4 DEF WholesRead
    <2>6. f[T.of][c.grp][c.key] = v.val /\ (v.val # None => Stored(c))
      BY <2>1, <2>3, <2>4, <2>5 DEF WholeRead
    <2>7. v.val # None /\ v.val \notin Ends
      BY <2>1, <2>2, NoneAbsent, NoValueThrows
    <2>8. Stored(c) /\ has_key(links, c.grp, c.key)
      BY <2>6, <2>7, ResolveHard DEF has_key, Under, Stored
    <2> QED
      BY <1>2, <2>2, <2>6, <2>7, <2>8 DEF ReadOptional
  <1> QED
    BY <1>5, <1>6

(* A variant that no earlier alternative hides. *)
LEMMA WholeVariant ==
    ASSUME Inv, NEW C, NEW o, Done(C, o), NEW c \in C, NEW T \in Types, NEW v, c.type = T, c.val = v,
           T.con = "variant", NEW S \in SUBSET Types, MadeOf(T, S), NEW f, Reads(f)
    PROVE  WholeRead(f, c)
  <1> DEFINE g == c.grp
             k == c.key
  <1>1. c \in Calls /\ g \in Nodes /\ k \in Names /\ <<T, v>> \in Parts
    BY CallParts DEF Done, Shape
  <1>2. f[T][g][k] = ReadVariant(T, g, k, f)
    BY <1>1, ReadIs
  <1>3. ShapeOK(S, T, v)
    BY <1>1, PartShape
  <1>4. /\ v.alt \in DOMAIN T.alts /\ DOMAIN T.alts = 1..Len(T.alts) /\ Len(T.alts) \in Nat
        /\ \A i \in DOMAIN T.alts : T.alts[i] \in S /\ T.alts[i].con = "leaf"
        /\ <<T.alts[v.alt], v.val>> \in Parts /\ v = Alt(v.alt, v.val)
    BY <1>3 DEF ShapeOK, Element
  <1>5. Wraps(c) /\ ~Vacant(c) /\ Inner(c).type = T.alts[v.alt]
    BY CallFields DEF Wraps, Vacant, Inner
  <1>6. /\ Inner(c) \in C /\ Inner(c).grp = g /\ Inner(c).key = k /\ Inner(c).val = v.val
        /\ Stored(Inner(c)) <=> Stored(c)
    BY <1>5, DoneInner
  <1>7. f[T.alts[v.alt]][g][k] = v.val /\ Stored(c)
    <2>1. Inner(c).type.con = "leaf" /\ Inner(c).type \in Types
      BY <1>4, <1>5
    <2> QED
      BY <1>5, <1>6, <2>1, WholeLeaf
  <1> SUFFICES ASSUME NEW a \in BOOLEAN, Storable[<<T, v>>][a]
               PROVE  f[T][g][k] = v
    BY <1>7 DEF WholeRead
  <1>8. \A i \in 1..(v.alt - 1) : T.alts[i].dtype # T.alts[v.alt].dtype
    BY <1>1, StorableVariant
  <1>9. PICK m \in Made : /\ Under(Inner(c)) = Hard(m) /\ o[m] = Inner(c) /\ ObjectOK(C, o, m)
    <2>1. ~Wraps(Inner(c))
      BY <1>4, <1>5 DEF Wraps
    <2> QED
      BY <1>6, <2>1, DoneStored
  <1>10. kind[m] = "data" /\ data[m] = v.val /\ m \in Nodes
    BY <1>4, <1>5, <1>6, <1>9 DEF ObjectOK, Done, Complete, Made
  <1>11. Lexists(links, g, k) /\ Resolve(links, g, k) = m
    BY <1>6, <1>9, ResolveHard DEF Under
  <1>12. has_dataset(links, kind, g, k)
    BY <1>10, <1>11 DEF has_dataset, has_key
  <1>13. v.val.dtype = T.alts[v.alt].dtype
    <2>1. v.val = Leaf(T.alts[v.alt].dtype, T.alts[v.alt].extent, v.val.leaf)
      BY <1>4, LeafValue
    <2> QED
      BY <2>1, ValueFields
  <1> DEFINE fits == {i \in DOMAIN T.alts : T.alts[i].dtype = data[m].dtype}
             i == CHOOSE i \in fits : \A j \in fits : i <= j
  <1>14. i = v.alt /\ fits # {}
    <2>1. v.alt \in fits /\ \A j \in fits : v.alt <= j
      BY <1>4, <1>8, <1>10, <1>13
    <2>2. \A x \in fits : (\A j \in fits : x <= j) => x = v.alt
      <3>1. \A x \in fits : x \in Nat
        BY <1>4
      <3> HIDE DEF fits
      <3> SUFFICES ASSUME NEW x \in fits, \A j \in fits : x <= j PROVE x = v.alt
        OBVIOUS
      <3>2. PICK n : n = v.alt
        OBVIOUS
      <3>3. n \in fits /\ x <= n /\ n <= x
        BY <2>1, <3>2
      <3>4. n \in Nat /\ x \in Nat
        BY <3>1, <3>3
      <3> QED
        BY <3>2, <3>3, <3>4
    <2> HIDE DEF fits
    <2> QED
      BY <2>1, <2>2
  <1>15. f[T][g][k] = IF f[T.alts[i]][g][k] \in Ends THEN f[T.alts[i]][g][k] ELSE Alt(i, f[T.alts[i]][g][k])
    BY <1>2, <1>11, <1>12, <1>14 DEF ReadVariant
  <1>16. v.val \notin Ends
    BY <1>4, NoValueThrows
  <1> HIDE DEF i, fits
  <1> QED
    BY <1>4, <1>7, <1>14, <1>15, <1>16

(* A list whose elements are all read. *)
LEMMA CollectWhole ==
    ASSUME NEW s, \A i \in DOMAIN s : s[i] \notin Ends
    PROVE  Collect(s) = List(s)
  BY DEF Collect

(* Every link in a group that is new leads to an object. *)
LEMMA NewNames ==
    ASSUME Inv, NEW C, NEW o, Shape(C, o), NEW m \in Made, NEW K \in SUBSET Names,
           keys(links, m) \subseteq K, \A k \in K : links[m][k] # NoLink
    PROVE  keys(links, m) = K
  <1> SUFFICES ASSUME NEW k \in K PROVE k \in keys(links, m)
    OBVIOUS
  <1>1. ObjectOK(C, o, m)
    BY DEF Shape
  <1>2. \E j \in Made : links[m][k] = Hard(j)
    BY <1>1 DEF ObjectOK
  <1> QED
    BY <1>2, ResolveHard DEF keys

(* A group that is there is read from its objects. *)
LEMMA GroupWhole ==
    ASSUME Inv, NEW C, NEW o, Done(C, o), NEW c \in C, IsGroup(c.type), c.type \in Types,
           NEW f, Reads(f)
    PROVE  \E m \in Made : Under(c) = Hard(m) /\ f[c.type][c.grp][c.key] = ReadGroup(c.type, m, f)
  <1>1. c \in Calls /\ c.grp \in Nodes /\ c.key \in Names
    BY CallParts DEF Done, Shape
  <1>2. f[c.type][c.grp][c.key] = IF has_subgroup(links, kind, c.grp, c.key)
                                    THEN ReadGroup(c.type, Resolve(links, c.grp, c.key), f) ELSE Throw
    BY <1>1, ReadIs
  <1>3. ~Wraps(c)
    BY DEF Wraps, IsGroup
  <1>4. PICK m \in Made : Under(c) = Hard(m)
    BY <1>3, DoneStored
  <1>5. has_subgroup(links, kind, c.grp, c.key) /\ Resolve(links, c.grp, c.key) = m
    BY <1>4, NewGroupHolds DEF Done
  <1> QED
    BY <1>2, <1>4, <1>5

(* The length of a vector is the number of its elements. *)
LEMMA WholeVector ==
    ASSUME Inv, NEW C, NEW o, Done(C, o), NEW c \in C, NEW T \in Types, NEW v, c.type = T, c.val = v,
           T.con = "vector", NEW S \in SUBSET Types, MadeOf(T, S), NEW f, WholesRead(f, C, S),
           NEW a \in BOOLEAN, Storable[<<T, v>>][a], NEW m \in Made, Under(c) = Hard(m)
    PROVE  ReadVector(T, m, f) = v
  <1>0. Shape(C, o)
    BY DEF Done
  <1>e. ElementsStored(C, S, f) /\ ElementsFound(C, S, f)
    BY <1>0, ElementsWhole
  <1>1. <<T, v>> \in Parts /\ IsGroup(T)
    BY <1>0, CallParts DEF Shape, IsGroup
  <1>2. ShapeOK(S, T, v)
    BY <1>1, PartShape
  <1> DEFINE n == Len(v.items)
  <1>3. /\ n \in Nat /\ n <= Len(Index) /\ DOMAIN v.items = 1..n
        /\ \A i \in 1..n : T.of \in S
        /\ v = List(v.items) /\ v.items = [i \in 1..n |-> v.items[i]]
    BY <1>2 DEF ShapeOK, ListOK, Element
  <1>4. Filling(T, v, m) = {Call(T.of, m, Index[i], v.items[i]) : i \in 1..n}
    BY <1>2, FillingVector
  <1>5. /\ Filling(T, v, m) \subseteq C
        /\ \A k \in keys(links, m) : \E e \in Filling(T, v, m) : e.key = k
    BY <1>0, <1>1, NewGroupHolds
  <1>6. \A i \in 1..n : Storable[<<T.of, v.items[i]>>][FALSE]
    <2>1. \A i \in DOMAIN v.items : Storable[<<T.of, v.items[i]>>][FALSE]
      BY <1>1, StorableVector
    <2> QED
      BY <1>3, <2>1
  <1> HIDE DEF n
  <1>7. ASSUME NEW i \in 1..n
        PROVE  /\ f[T.of][m][Index[i]] = v.items[i] /\ v.items[i] \notin Ends
               /\ links[m][Index[i]] # NoLink
    <2> DEFINE d == Call(T.of, m, Index[i], v.items[i])
    <2>1. d \in C /\ T.of \in S
      BY <1>3, <1>4, <1>5
    <2>2. d.type = T.of /\ d.grp = m /\ d.key = Index[i] /\ d.val = v.items[i]
      BY CallFields
    <2> HIDE DEF d
    <2>3. f[d.type][d.grp][d.key] = d.val /\ d.val \notin Ends /\ links[d.grp][d.key] # NoLink
      BY <1>e, <1>6, <2>1, <2>2 DEF ElementsStored
    <2> QED
      BY <2>2, <2>3
  <1>8. /\ Indices(n) \in SUBSET Names /\ Cardinality(Indices(n)) = n
        /\ keys(links, m) \subseteq Indices(n) /\ \A k \in Indices(n) : links[m][k] # NoLink
    <2>1. Indices(n) \in SUBSET Names /\ Cardinality(Indices(n)) = n
      BY <1>3, IndicesCount
    <2>2. keys(links, m) \subseteq Indices(n)
      BY <1>4, <1>5, CallFields DEF Indices
    <2>3. \A k \in Indices(n) : links[m][k] # NoLink
      BY <1>7 DEF Indices
    <2> QED
      BY <2>1, <2>2, <2>3
  <1>9. Length(m) = n
    BY <1>0, <1>8, NewNames DEF Length
  <1>10. ~(n > Len(Index))
    <2>1. Len(Index) \in Nat
      BY NamesAssumption
    <2>2. n \in Nat /\ n <= Len(Index)
      BY <1>3
    <2> QED
      BY <2>1, <2>2
  <1> DEFINE s == [i \in 1..n |-> f[T.of][m][Index[i]]]
  <1>11. ReadVector(T, m, f) = Collect(s)
    BY <1>9, <1>10 DEF ReadVector
  <1>12. s = [i \in 1..n |-> s[i]] /\ \A i \in 1..n : s[i] = v.items[i] /\ v.items[i] \notin Ends
    BY <1>7
  <1> HIDE DEF s
  <1>13. Collect(s) = List(v.items)
    <2>1. DOMAIN s = 1..n
      BY <1>12
    <2>2. Collect(s) = List(s)
      BY <1>12, <2>1, CollectWhole
    <2>3. s = v.items
      BY <1>3, <1>12
    <2> QED
      BY <2>2, <2>3
  <1> QED
    BY <1>3, <1>11, <1>13

(* A tuple has as many objects as elements. *)
LEMMA WholeTuple ==
    ASSUME Inv, NEW C, NEW o, Done(C, o), NEW c \in C, NEW T \in Types, NEW v, c.type = T, c.val = v,
           T.con = "tuple", NEW S \in SUBSET Types, MadeOf(T, S), NEW f, WholesRead(f, C, S),
           NEW a \in BOOLEAN, Storable[<<T, v>>][a], NEW m \in Made, Under(c) = Hard(m)
    PROVE  ReadTuple(T, m, f) = v
  <1>0. Shape(C, o)
    BY DEF Done
  <1>e. ElementsStored(C, S, f) /\ ElementsFound(C, S, f)
    BY <1>0, ElementsWhole
  <1>1. <<T, v>> \in Parts /\ IsGroup(T)
    BY <1>0, CallParts DEF Shape, IsGroup
  <1>2. ShapeOK(S, T, v)
    BY <1>1, PartShape
  <1> DEFINE n == Len(v.items)
  <1>3. /\ n \in Nat /\ n <= Len(Index) /\ DOMAIN v.items = 1..n
        /\ Len(T.elems) = n /\ DOMAIN T.elems = 1..n /\ \A i \in 1..n : T.elems[i] \in S
        /\ v = List(v.items) /\ v.items = [i \in 1..n |-> v.items[i]]
    BY <1>2 DEF ShapeOK, ListOK, Element
  <1>4. Filling(T, v, m) = {Call(T.elems[i], m, Index[i], v.items[i]) : i \in 1..n}
    BY <1>2, FillingTuple
  <1>5. /\ Filling(T, v, m) \subseteq C
        /\ \A k \in keys(links, m) : \E e \in Filling(T, v, m) : e.key = k
    BY <1>0, <1>1, NewGroupHolds
  <1>6. \A i \in 1..n : Storable[<<T.elems[i], v.items[i]>>][FALSE]
    <2>1. \A i \in DOMAIN v.items : Storable[<<T.elems[i], v.items[i]>>][FALSE]
      BY <1>1, StorableTuple
    <2> QED
      BY <1>3, <2>1
  <1> HIDE DEF n
  <1>7. ASSUME NEW i \in 1..n
        PROVE  /\ f[T.elems[i]][m][Index[i]] = v.items[i] /\ v.items[i] \notin Ends
               /\ links[m][Index[i]] # NoLink
    <2> DEFINE d == Call(T.elems[i], m, Index[i], v.items[i])
    <2>1. d \in C /\ T.elems[i] \in S
      BY <1>3, <1>4, <1>5
    <2>2. d.type = T.elems[i] /\ d.grp = m /\ d.key = Index[i] /\ d.val = v.items[i]
      BY CallFields
    <2> HIDE DEF d
    <2>3. f[d.type][d.grp][d.key] = d.val /\ d.val \notin Ends /\ links[d.grp][d.key] # NoLink
      BY <1>e, <1>6, <2>1, <2>2 DEF ElementsStored
    <2> QED
      BY <2>2, <2>3
  <1>8. /\ Indices(n) \in SUBSET Names /\ Cardinality(Indices(n)) = n
        /\ keys(links, m) \subseteq Indices(n) /\ \A k \in Indices(n) : links[m][k] # NoLink
    <2>1. Indices(n) \in SUBSET Names /\ Cardinality(Indices(n)) = n
      BY <1>3, IndicesCount
    <2>2. keys(links, m) \subseteq Indices(n)
      BY <1>4, <1>5, CallFields DEF Indices
    <2>3. \A k \in Indices(n) : links[m][k] # NoLink
      BY <1>7 DEF Indices
    <2> QED
      BY <2>1, <2>2, <2>3
  <1>9. Cardinality(keys(links, m)) = n
    BY <1>0, <1>8, NewNames
  <1> DEFINE s == [i \in 1..n |-> f[T.elems[i]][m][Index[i]]]
  <1>10. ReadTuple(T, m, f) = Collect(s)
    BY <1>3, <1>9 DEF ReadTuple
  <1>11. s = [i \in 1..n |-> s[i]] /\ \A i \in 1..n : s[i] = v.items[i] /\ v.items[i] \notin Ends
    BY <1>7
  <1> HIDE DEF s
  <1>12. Collect(s) = List(v.items)
    <2>1. DOMAIN s = 1..n
      BY <1>11
    <2>2. Collect(s) = List(s)
      BY <1>11, <2>1, CollectWhole
    <2>3. s = v.items
      BY <1>3, <1>11
    <2> QED
      BY <2>2, <2>3
  <1> QED
    BY <1>3, <1>10, <1>12

(* A pair has two objects. *)
LEMMA WholePair ==
    ASSUME Inv, NEW C, NEW o, Done(C, o), NEW c \in C, NEW T \in Types, NEW v, c.type = T, c.val = v,
           T.con = "pair", NEW S \in SUBSET Types, MadeOf(T, S), NEW f, WholesRead(f, C, S),
           NEW a \in BOOLEAN, Storable[<<T, v>>][a], NEW m \in Made, Under(c) = Hard(m)
    PROVE  ReadPair(T, m, f) = v
  <1>0. Shape(C, o)
    BY DEF Done
  <1>e. ElementsStored(C, S, f) /\ ElementsFound(C, S, f)
    BY <1>0, ElementsWhole
  <1>1. <<T, v>> \in Parts /\ IsGroup(T)
    BY <1>0, CallParts DEF Shape, IsGroup
  <1>2. ShapeOK(S, T, v)
    BY <1>1, PartShape
  <1>3. /\ v = List(<<v.items[1], v.items[2]>>) /\ 2 <= Len(Index)
        /\ T.first \in S /\ T.second \in S
    BY <1>2, NamesAssumption DEF ShapeOK, Element
  <1>4. Filling(T, v, m) = {Call(T.first, m, Index[1], v.items[1]), Call(T.second, m, Index[2], v.items[2])}
    BY <1>2, FillingPair
  <1>5. /\ Filling(T, v, m) \subseteq C
        /\ \A k \in keys(links, m) : \E e \in Filling(T, v, m) : e.key = k
    BY <1>0, <1>1, NewGroupHolds
  <1>6. Storable[<<T.first, v.items[1]>>][FALSE] /\ Storable[<<T.second, v.items[2]>>][FALSE]
    BY <1>1, StorablePair
  <1>7. /\ f[T.first][m][Index[1]] = v.items[1] /\ v.items[1] \notin Ends /\ links[m][Index[1]] # NoLink
    <2> DEFINE d == Call(T.first, m, Index[1], v.items[1])
    <2>1. d \in C
      BY <1>4, <1>5
    <2>2. d.type = T.first /\ d.grp = m /\ d.key = Index[1] /\ d.val = v.items[1]
      BY CallFields
    <2> HIDE DEF d
    <2>3. f[d.type][d.grp][d.key] = d.val /\ d.val \notin Ends /\ links[d.grp][d.key] # NoLink
      BY <1>e, <1>3, <1>6, <2>1, <2>2 DEF ElementsStored
    <2> QED
      BY <2>2, <2>3
  <1>8. /\ f[T.second][m][Index[2]] = v.items[2] /\ v.items[2] \notin Ends /\ links[m][Index[2]] # NoLink
    <2> DEFINE d == Call(T.second, m, Index[2], v.items[2])
    <2>1. d \in C
      BY <1>4, <1>5
    <2>2. d.type = T.second /\ d.grp = m /\ d.key = Index[2] /\ d.val = v.items[2]
      BY CallFields
    <2> HIDE DEF d
    <2>3. f[d.type][d.grp][d.key] = d.val /\ d.val \notin Ends /\ links[d.grp][d.key] # NoLink
      BY <1>e, <1>3, <1>6, <2>1, <2>2 DEF ElementsStored
    <2> QED
      BY <2>2, <2>3
  <1>9. Indices(2) = {Index[1], Index[2]} /\ Indices(2) \in SUBSET Names /\ Cardinality(Indices(2)) = 2
    <2>1. 2 \in Nat /\ 1..2 = {1, 2}
      OBVIOUS
    <2>2. Indices(2) = {Index[1], Index[2]}
      BY <2>1 DEF Indices
    <2> QED
      BY <1>3, <2>1, <2>2, IndicesCount
  <1>10. keys(links, m) \subseteq Indices(2) /\ \A k \in Indices(2) : links[m][k] # NoLink
    BY <1>4, <1>5, <1>7, <1>8, <1>9, CallFields
  <1>11. Cardinality(keys(links, m)) = 2
    BY <1>0, <1>9, <1>10, NewNames
  <1>12. ReadPair(T, m, f) = Collect(<<v.items[1], v.items[2]>>)
    BY <1>7, <1>8, <1>11 DEF ReadPair
  <1>13. DOMAIN <<v.items[1], v.items[2]>> = {1, 2}
    OBVIOUS
  <1>14. Collect(<<v.items[1], v.items[2]>>) = List(<<v.items[1], v.items[2]>>)
    BY <1>7, <1>8, <1>13 DEF Collect
  <1> QED
    BY <1>3, <1>12, <1>14

(* The length of an array is stored with it. *)
LEMMA WholeArray ==
    ASSUME Inv, NEW C, NEW o, Done(C, o), NEW c \in C, NEW T \in Types, NEW v, c.type = T, c.val = v,
           T.con = "array", NEW S \in SUBSET Types, MadeOf(T, S), NEW f, Reads(f), WholesRead(f, C, S),
           NEW a \in BOOLEAN, Storable[<<T, v>>][a], NEW m \in Made, Under(c) = Hard(m)
    PROVE  ReadArray(T, m, f) = v
  <1>0. Shape(C, o)
    BY DEF Done
  <1>e. ElementsStored(C, S, f) /\ ElementsFound(C, S, f)
    BY <1>0, ElementsWhole
  <1>1. <<T, v>> \in Parts /\ IsGroup(T)
    BY <1>0, CallParts DEF Shape, IsGroup
  <1>2. ShapeOK(S, T, v)
    BY <1>1, PartShape
  <1> DEFINE n == Len(v.items)
             d == Call(T.shape, m, ShapeName, Leaf(T.shape.dtype, T.shape.extent, T.size))
  <1>3. /\ n \in Nat /\ DOMAIN v.items = 1..n /\ T.size = n
        /\ T.shape \in Types /\ T.shape.con = "leaf" /\ \A i \in 1..n : T.of \in S
        /\ v = List(v.items) /\ v.items = [i \in 1..n |-> v.items[i]]
    BY <1>2 DEF ShapeOK, ListOK, Element
  <1>4. Filling(T, v, m) = {d} \cup {Call(T.of, m, Index[i], v.items[i]) : i \in 1..n}
    BY <1>2, FillingArray
  <1>5. Filling(T, v, m) \subseteq C /\ \A e \in Filling(T, v, m) : Found(e)
    BY <1>0, <1>1, NewGroupHolds
  <1>6. \A i \in 1..n : Storable[<<T.of, v.items[i]>>][TRUE]
    <2>1. \A i \in DOMAIN v.items : Storable[<<T.of, v.items[i]>>][TRUE]
      BY <1>1, StorableArray
    <2> QED
      BY <1>3, <2>1
  <1>7. /\ d.type = T.shape /\ d.grp = m /\ d.key = ShapeName
        /\ d.val = Leaf(T.shape.dtype, T.shape.extent, T.size)
    BY CallFields
  <1> HIDE DEF n, d
  <1>8. d \in C
    BY <1>4, <1>5
  <1>9. f[T.shape][m][ShapeName] = Leaf(T.shape.dtype, T.shape.extent, T.size)
    <2>1. d.type.con = "leaf" /\ d.type \in Types
      BY <1>3, <1>7
    <2>2. f[d.type][d.grp][d.key] = d.val
      BY <1>8, <2>1, WholeLeaf
    <2> QED
      BY <1>7, <2>2
  <1>10. ASSUME NEW i \in 1..n
         PROVE  f[T.of][m][Index[i]] = v.items[i] /\ v.items[i] \notin Ends
    <2> DEFINE e == Call(T.of, m, Index[i], v.items[i])
    <2>1. e \in C /\ T.of \in S /\ Found(e)
      BY <1>3, <1>4, <1>5
    <2>2. e.type = T.of /\ e.grp = m /\ e.key = Index[i] /\ e.val = v.items[i]
      BY CallFields
    <2> HIDE DEF e
    <2>3. f[e.type][e.grp][e.key] = e.val /\ e.val \notin Ends
      BY <1>e, <1>6, <2>1, <2>2 DEF ElementsFound
    <2> QED
      BY <2>2, <2>3
  <1> DEFINE s == [i \in 1..n |-> f[T.of][m][Index[i]]]
  <1>11. ReadArray(T, m, f) = Collect(s)
    <2>1. /\ Leaf(T.shape.dtype, T.shape.extent, T.size).leaf = T.size
          /\ Leaf(T.shape.dtype, T.shape.extent, T.size) \notin Ends
      BY DEF Leaf, Ends, Throw, Terminate
    <2> QED
      BY <1>3, <1>9, <2>1 DEF ReadArray
  <1>12. s = [i \in 1..n |-> s[i]] /\ \A i \in 1..n : s[i] = v.items[i] /\ v.items[i] \notin Ends
    BY <1>10
  <1> HIDE DEF s
  <1>13. Collect(s) = List(v.items)
    <2>1. DOMAIN s = 1..n
      BY <1>12
    <2>2. Collect(s) = List(s)
      BY <1>12, <2>1, CollectWhole
    <2>3. s = v.items
      BY <1>3, <1>12
    <2> QED
      BY <2>2, <2>3
  <1> QED
    BY <1>3, <1>11, <1>13

(* A map has all of its entries and no others. *)
LEMMA WholeMap ==
    ASSUME Inv, NEW C, NEW o, Done(C, o), NEW c \in C, NEW T \in Types, NEW v, c.type = T, c.val = v,
           T.con = "map", NEW S \in SUBSET Types, MadeOf(T, S), NEW f, WholesRead(f, C, S),
           NEW a \in BOOLEAN, Storable[<<T, v>>][a], NEW m \in Made, Under(c) = Hard(m)
    PROVE  ReadMap(T, m, f) = v
  <1>0. Shape(C, o)
    BY DEF Done
  <1>e. ElementsStored(C, S, f)
    BY <1>0, ElementsWhole
  <1>1. <<T, v>> \in Parts /\ IsGroup(T)
    BY <1>0, CallParts DEF Shape, IsGroup
  <1>2. ShapeOK(S, T, v)
    BY <1>1, PartShape
  <1> DEFINE K == DOMAIN v.entries
  <1>3. /\ K \subseteq Names /\ \A k \in K : T.of \in S
        /\ v = Dict(v.entries) /\ v.entries = [k \in K |-> v.entries[k]]
    BY <1>2 DEF ShapeOK, Element
  <1>4. Filling(T, v, m) = {Call(T.of, m, k, v.entries[k]) : k \in K}
    BY <1>2, FillingMap
  <1>5. /\ Filling(T, v, m) \subseteq C
        /\ \A k \in keys(links, m) : \E e \in Filling(T, v, m) : e.key = k
    BY <1>0, <1>1, NewGroupHolds
  <1>6. \A k \in K : Storable[<<T.of, v.entries[k]>>][FALSE]
    BY <1>1, StorableMap
  <1> HIDE DEF K
  <1>7. ASSUME NEW k \in K
        PROVE  f[T.of][m][k] = v.entries[k] /\ v.entries[k] \notin Ends /\ links[m][k] # NoLink
    <2> DEFINE d == Call(T.of, m, k, v.entries[k])
    <2>1. d \in C /\ T.of \in S
      BY <1>3, <1>4, <1>5
    <2>2. d.type = T.of /\ d.grp = m /\ d.key = k /\ d.val = v.entries[k]
      BY CallFields
    <2> HIDE DEF d
    <2>3. f[d.type][d.grp][d.key] = d.val /\ d.val \notin Ends /\ links[d.grp][d.key] # NoLink
      BY <1>e, <1>6, <2>1, <2>2 DEF ElementsStored
    <2> QED
      BY <2>2, <2>3
  <1>8. keys(links, m) = K
    <2>1. keys(links, m) \subseteq K
      BY <1>4, <1>5, CallFields
    <2> QED
      BY <1>0, <1>3, <1>7, <2>1, NewNames
  <1>9. ReadMap(T, m, f) = Dict([k \in K |-> f[T.of][m][k]])
    BY <1>7, <1>8 DEF ReadMap
  <1>10. [k \in K |-> f[T.of][m][k]] = v.entries
    BY <1>3, <1>7
  <1> QED
    BY <1>3, <1>9, <1>10

(* An entry of a map with other keys, and when it can be read back. *)
EntryStored(T, f, e) ==
    LET j == Resolve(links, e.grp, e.key)
    IN  /\ has_subgroup(links, kind, e.grp, e.key) /\ links[e.grp][e.key] # NoLink
        /\ f[T.key][j][KeyName] = e.val[1] /\ e.val[1] \notin Ends
        /\ f[T.of][j][ValName] = e.val[2] /\ e.val[2] \notin Ends

EntryStorable(T, q) == Storable[<<T.key, q[1]>>][FALSE] /\ Storable[<<T.of, q[2]>>][TRUE]

(* An entry whose group is filled can be read back.                        *)
LEMMA EntryWhole ==
    ASSUME Inv, NEW C, NEW o, Done(C, o), NEW T, NEW S, T.key \in S, T.of \in S, NEW f,
           ElementsStored(C, S, f), ElementsFound(C, S, f),
           NEW e \in C, e.type = Entry(T), EntryStorable(T, e.val)
    PROVE  EntryStored(T, f, e)
  <1>0. Shape(C, o)
    BY DEF Done
  <1>1. PICK q, m, k : e.grp = m /\ e.key = k /\ e.val = q
    OBVIOUS
  <1>2. /\ IsGroup(Entry(T)) /\ Entry(T).con = "entry"
        /\ Entry(T).key = T.key /\ Entry(T).of = T.of /\ ~Wraps(e)
    BY <1>1 DEF Entry, IsGroup, Wraps
  <1>3. PICK j \in Made : Under(e) = Hard(j)
    BY <1>1, <1>2, DoneStored
  <1>4. /\ has_subgroup(links, kind, m, k) /\ Resolve(links, m, k) = j
        /\ Filling(Entry(T), q, j) \subseteq C
        /\ \A d \in Filling(Entry(T), q, j) : Found(d)
    BY <1>0, <1>1, <1>2, <1>3, NewGroupHolds
  <1>5. links[m][k] # NoLink
    BY <1>1, <1>3 DEF Under, Hard, NoLink
  <1> DEFINE x == Call(T.key, j, KeyName, q[1])
             y == Call(T.of, j, ValName, q[2])
  <1>6. Filling(Entry(T), q, j) = {x, y}
    BY <1>2, FillingEntry
  <1>7. /\ x.type = T.key /\ x.grp = j /\ x.key = KeyName /\ x.val = q[1]
        /\ y.type = T.of /\ y.grp = j /\ y.key = ValName /\ y.val = q[2]
    BY CallFields
  <1> HIDE DEF x, y
  <1>8. x \in C /\ y \in C /\ Found(y)
    BY <1>4, <1>6
  <1>9. f[x.type][x.grp][x.key] = x.val /\ x.val \notin Ends
    BY <1>1, <1>7, <1>8 DEF ElementsStored, EntryStorable
  <1>10. f[y.type][y.grp][y.key] = y.val /\ y.val \notin Ends
    BY <1>1, <1>7, <1>8 DEF ElementsFound, EntryStorable
  <1> QED
    BY <1>1, <1>4, <1>5, <1>7, <1>9, <1>10 DEF EntryStored

(* A map with other keys has all of its entries and no others. *)
LEMMA WholePairs ==
    ASSUME Inv, NEW C, NEW o, Done(C, o), NEW c \in C, NEW T \in Types, NEW v, c.type = T, c.val = v,
           T.con = "keyed_map", NEW S \in SUBSET Types, MadeOf(T, S), NEW f, WholesRead(f, C, S),
           NEW a \in BOOLEAN, Storable[<<T, v>>][a], NEW m \in Made, Under(c) = Hard(m)
    PROVE  ReadPairs(T, m, f) = v
  <1>0. Shape(C, o)
    BY DEF Done
  <1>e. ElementsStored(C, S, f) /\ ElementsFound(C, S, f)
    BY <1>0, ElementsWhole
  <1>1. <<T, v>> \in Parts /\ IsGroup(T)
    BY <1>0, CallParts DEF Shape, IsGroup
  <1>2. ShapeOK(S, T, v) /\ T.key \in S /\ T.of \in S
    BY <1>1, PartShape DEF MadeOf
  <1> DEFINE n == Cardinality(v.pairs)
             q == Order(v.pairs)
  <1>3. /\ IsFiniteSet(v.pairs) /\ n \in Nat /\ n <= Len(Index) /\ v = Pairs(v.pairs)
        /\ \A p \in v.pairs : p = <<p[1], p[2]>>
    BY <1>2, FS_CardinalityType DEF ShapeOK
  <1>4. Filling(T, v, m) = {Call(Entry(T), m, Index[i], q[i]) : i \in 1..n}
    BY <1>2, FillingPairs
  <1>5. /\ Filling(T, v, m) \subseteq C
        /\ \A k \in keys(links, m) : \E e \in Filling(T, v, m) : e.key = k
    BY <1>0, <1>1, NewGroupHolds
  <1>6. \A p \in v.pairs : Storable[<<T.key, p[1]>>][FALSE] /\ Storable[<<T.of, p[2]>>][TRUE]
    BY <1>1, StorablePairs
  <1>7. (\A i \in 1..n : q[i] \in v.pairs) /\ (\A p \in v.pairs : \E i \in 1..n : q[i] = p)
    BY <1>3, SetToSeqOnce DEF Order
  <1> HIDE DEF n, q
  <1> DEFINE x == KeyReads(T, m, f)
             y == ValReads(T, m, f)
  <1>8. ASSUME NEW i \in 1..n
        PROVE  /\ x[Index[i]] = q[i][1] /\ y[Index[i]] = q[i][2]
               /\ q[i][1] \notin Ends /\ q[i][2] \notin Ends /\ links[m][Index[i]] # NoLink
    <2> DEFINE e == Call(Entry(T), m, Index[i], q[i])
    <2>1. e \in C
      BY <1>4, <1>5
    <2>2. e.type = Entry(T) /\ e.grp = m /\ e.key = Index[i] /\ e.val = q[i]
      BY CallFields
    <2> HIDE DEF e
    <2>3. EntryStorable(T, e.val)
      BY <1>6, <1>7, <2>2 DEF EntryStorable
    <2>4. EntryStored(T, f, e)
      BY <1>2, <1>e, <2>1, <2>2, <2>3, EntryWhole
    <2>5. Index[i] \in keys(links, m)
      <3>1. Index[i] \in Names
        BY <1>3, NamesAssumption
      <3> QED
        BY <2>2, <2>4, <3>1 DEF EntryStored, has_subgroup, has_key, keys
    <2> QED
      BY <2>2, <2>4, <2>5 DEF EntryStored, KeyReads, ValReads
  <1>9. \/ \E k \in keys(links, m) : x[k] \in Ends \/ y[k] \in Ends
        \/ ReadPairs(T, m, f) = Pairs({<<x[k], y[k]>> : k \in keys(links, m)})
    BY ReadPairsIs DEF PairsOf
  <1> HIDE DEF x, y
  <1>10. keys(links, m) = Indices(n)
    <2>1. Indices(n) \in SUBSET Names
      BY <1>3, IndicesCount
    <2>2. keys(links, m) \subseteq Indices(n)
      BY <1>4, <1>5, CallFields DEF Indices
    <2>3. \A k \in Indices(n) : links[m][k] # NoLink
      BY <1>8 DEF Indices
    <2> QED
      BY <1>0, <2>1, <2>2, <2>3, NewNames
  <1>11. \A k \in Indices(n) : x[k] \notin Ends /\ y[k] \notin Ends
    BY <1>8 DEF Indices
  <1>12. {<<x[k], y[k]>> : k \in Indices(n)} = v.pairs
    <2>1. \A i \in 1..n : <<x[Index[i]], y[Index[i]]>> = q[i]
      BY <1>3, <1>7, <1>8
    <2>2. ASSUME NEW k \in Indices(n) PROVE <<x[k], y[k]>> \in v.pairs
      BY <1>7, <2>1, <2>2 DEF Indices
    <2>3. ASSUME NEW p \in v.pairs PROVE \E k \in Indices(n) : <<x[k], y[k]>> = p
      BY <1>7, <2>1 DEF Indices
    <2> QED
      BY <2>2, <2>3
  <1>13. \A k \in keys(links, m) : x[k] \notin Ends /\ y[k] \notin Ends
    BY <1>10, <1>11
  <1>14. ReadPairs(T, m, f) = Pairs(v.pairs)
    BY <1>9, <1>10, <1>12, <1>13
  <1> QED
    BY <1>3, <1>14

(* What has been written whole is read as such: from the types that a type *)
(* is made of to the type itself.                                          *)
LEMMA WholeStep ==
    ASSUME Inv, NEW C, NEW o, Done(C, o), NEW c \in C, NEW T \in Types, c.type = T,
           NEW S \in SUBSET Types, MadeOf(T, S), NEW f, Reads(f), WholesRead(f, C, S)
    PROVE  WholeRead(f, c)
  <1>1. PICK v : c.val = v
    OBVIOUS
  <1>2. ASSUME T.con = "leaf" PROVE WholeRead(f, c)
    BY <1>2, WholeLeaf DEF WholeRead
  <1>3. ASSUME T.con = "optional" PROVE WholeRead(f, c)
    BY <1>1, <1>3, WholeOptional
  <1>4. ASSUME T.con = "variant" PROVE WholeRead(f, c)
    BY <1>1, <1>4, WholeVariant
  <1>5. ASSUME IsGroup(T) PROVE WholeRead(f, c)
    <2>1. PICK m \in Made : Under(c) = Hard(m) /\ f[c.type][c.grp][c.key] = ReadGroup(T, m, f)
      BY <1>5, GroupWhole
    <2> SUFFICES ASSUME NEW a \in BOOLEAN, Storable[<<T, v>>][a]
                 PROVE  ReadGroup(T, m, f) = v
      BY <1>1, <2>1 DEF WholeRead, Stored
    <2>2. T.con \in {"vector", "tuple", "pair", "array", "map", "keyed_map"}
      BY <1>5 DEF MadeOf, IsGroup
    <2>3. ASSUME T.con = "vector" PROVE ReadGroup(T, m, f) = v
      <3>1. ReadGroup(T, m, f) = ReadVector(T, m, f)
        BY <2>3 DEF ReadGroup
      <3> QED
        BY <1>1, <2>1, <2>3, <3>1, WholeVector
    <2>4. ASSUME T.con = "tuple" PROVE ReadGroup(T, m, f) = v
      <3>1. ReadGroup(T, m, f) = ReadTuple(T, m, f)
        BY <2>4 DEF ReadGroup
      <3> QED
        BY <1>1, <2>1, <2>4, <3>1, WholeTuple
    <2>5. ASSUME T.con = "pair" PROVE ReadGroup(T, m, f) = v
      <3>1. ReadGroup(T, m, f) = ReadPair(T, m, f)
        BY <2>5 DEF ReadGroup
      <3> QED
        BY <1>1, <2>1, <2>5, <3>1, WholePair
    <2>6. ASSUME T.con = "array" PROVE ReadGroup(T, m, f) = v
      <3>1. ReadGroup(T, m, f) = ReadArray(T, m, f)
        BY <2>6 DEF ReadGroup
      <3> QED
        BY <1>1, <2>1, <2>6, <3>1, WholeArray
    <2>7. ASSUME T.con = "map" PROVE ReadGroup(T, m, f) = v
      <3>1. ReadGroup(T, m, f) = ReadMap(T, m, f)
        BY <2>7 DEF ReadGroup
      <3> QED
        BY <1>1, <2>1, <2>7, <3>1, WholeMap
    <2>8. ASSUME T.con = "keyed_map" PROVE ReadGroup(T, m, f) = v
      <3>1. ReadGroup(T, m, f) = ReadPairs(T, m, f)
        BY <2>8 DEF ReadGroup
      <3> QED
        BY <1>1, <2>1, <2>8, <3>1, WholePairs
    <2> QED
      BY <2>2, <2>3, <2>4, <2>5, <2>6, <2>7, <2>8
  <1> QED
    BY <1>2, <1>3, <1>4, <1>5 DEF IsGroup

(* All calls of an h5_write that returned. *)
LEMMA ReadsWhole ==
    ASSUME Inv, NEW C, NEW o, Done(C, o), NEW f, Reads(f)
    PROVE  WholesRead(f, C, Types)
  <1> DEFINE Q == {T \in Types : \A c \in C : c.type = T => WholeRead(f, c)}
  <1>1. ASSUME NEW T \in Types, NEW S \in SUBSET Q, MadeOf(T, S)
        PROVE  T \in Q
    <2>1. WholesRead(f, C, S)
      BY DEF WholesRead
    <2>2. S \in SUBSET Types
      OBVIOUS
    <2>3. \A c \in C : c.type = T => WholeRead(f, c)
      BY <1>1, <2>1, <2>2, WholeStep
    <2> QED
      BY <2>3
  <1>2. Q = {T \in Types : \A c \in C : c.type = T => WholeRead(f, c)}
    OBVIOUS
  <1> HIDE DEF Q
  <1>3. Types \subseteq Q
    BY <1>1, TypeInduction
  <1> QED
    BY <1>2, <1>3 DEF WholesRead

(* The outermost value is read back. *)
LEMMA WholeReadBack ==
    ASSUME Inv, NEW C, NEW o, Done(C, o), NEW a \in BOOLEAN, a = (last.link = NoLink),
           Storable[Written][a]
    PROVE  /\ ReadBack = last.call.val
           /\ try_read(last.call.type, last.call.grp, last.call.key) =
                 IF last.call.val = None THEN NotThere ELSE last.call.val
  <1>0. Shape(C, o) /\ Complete(C, o)
    BY DEF Done
  <1>1. /\ Outer \in C /\ Outer.type \in Types /\ Outer.grp \in Nodes /\ Outer.key \in Names
        /\ Written = <<Outer.type, Outer.val>> /\ Written \in Parts
    BY <1>0, OuterType
  <1>2. PICK f : Reads(f)
    BY ReadUnfolds DEF Reads
  <1>3. ReadBack = f[Outer.type][Outer.grp][Outer.key]
    BY <1>1, <1>2 DEF Reads, ReadBack, Outer
  <1>4. WholeRead(f, Outer)
    BY <1>1, <1>2, ReadsWhole DEF WholesRead
  <1>5. a => Found(Outer)
    BY <1>0 DEF Shape, OuterOK, Found
  <1>6. ReadBack = Outer.val /\ (Outer.val # None => Stored(Outer))
    BY <1>1, <1>3, <1>4, <1>5 DEF WholeRead
  <1> DEFINE r == try_read(Outer.type, Outer.grp, Outer.key)
  <1>7. r = IF has_key(links, Outer.grp, Outer.key) THEN ReadBack ELSE NotThere
    BY DEF try_read, ReadBack, Outer
  <1>8. ASSUME Outer.val # None PROVE has_key(links, Outer.grp, Outer.key)
    <2>1. \E m \in Made : links[Outer.grp][Outer.key] = Hard(m)
      BY <1>6, <1>8 DEF Stored, Under
    <2> QED
      BY <2>1, ResolveHard DEF has_key
  <1>9. ASSUME Outer.val = None PROVE ~has_key(links, Outer.grp, Outer.key)
    <2>1. a
      BY <1>1, <1>9, NoneAbsent
    <2>2. Outer.type.con = "optional"
      BY <1>1, <1>9, NoValueThrows
    <2>3. Wraps(Outer) /\ Vacant(Outer)
      BY <1>9, <2>2 DEF Wraps, Vacant
    <2>4. \A m \in Made : Under(Outer) # Hard(m)
      BY <1>0, <1>1, <2>3 DEF Shape, CallOK
    <2>5. Under(Outer) = NoLink
      BY <1>5, <2>1, <2>4 DEF Found
    <2> QED
      BY <2>5, ResolveHard DEF has_key, Under
  <1>10. r = IF Outer.val = None THEN NotThere ELSE Outer.val
    BY <1>6, <1>7, <1>8, <1>9
  <1> QED
    BY <1>6, <1>10 DEF Outer

(* An h5_write that returned has stored its value, as whole as its type    *)
(* allows: h5_read and try_read give it back.                              *)
THEOREM RoundTrips == Spec => []RoundTrip
  <1>1. Inv2 => RoundTrip
    <2> SUFFICES ASSUME Inv, History, last.ended = "returned", Storable[Written][last.link = NoLink]
                 PROVE  /\ ReadBack = last.call.val
                        /\ try_read(last.call.type, last.call.grp, last.call.key) =
                              IF last.call.val = None THEN NotThere ELSE last.call.val
      BY DEF Inv2, RoundTrip
    <2>1. PICK C, o : Shape(C, o) /\ Complete(C, o)
      BY DEF History
    <2>2. pending = <<>>
      BY DEF Inv, TypeOK
    <2>3. Done(C, o)
      BY <2>1, <2>2 DEF Done
    <2> DEFINE a == (last.link = NoLink)
    <2>4. a \in BOOLEAN /\ Storable[Written][a]
      OBVIOUS
    <2> HIDE DEF a
    <2> QED
      BY <2>3, <2>4, WholeReadBack DEF a
  <1> QED
    BY <1>1, HistoryKept, PTL
=============================================================================
