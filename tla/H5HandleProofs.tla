--------------------------- MODULE H5HandleProofs ---------------------------
(***************************************************************************)
(* Proofs about H5Handle for every set of identifiers and every finite set *)
(* of variables: the type invariant, the reference count of an identifier  *)
(* is the number of its owners, and the wrapper implements Ownership.      *)
(***************************************************************************)
EXTENDS H5Handle, FiniteSetTheorems, TLAPS

(* How many variables hold i. *)
Count(h, i) == Cardinality(Holders(h, i))

Held == [Objs -> Ids \cup {NoId, BadId}]

(* h and g differ at most at o, seen through the number of holders. *)
MovedAt(h, g, o, i) ==
    /\ Count(h, i) \in Nat
    /\ Count(g, i) \in Nat
    /\ h[o] # i /\ g[o] # i => Count(g, i) = Count(h, i)
    /\ h[o] = i /\ g[o] = i => Count(g, i) = Count(h, i)
    /\ h[o] # i /\ g[o] = i => Count(g, i) = Count(h, i) + 1
    /\ h[o] = i /\ g[o] # i => Count(h, i) = Count(g, i) + 1

Moved(h, g, o) == \A i : MovedAt(h, g, o, i)

-----------------------------------------------------------------------------

(* The number of holders is a natural number, positive when there is one. *)
LEMMA CountType ==
    ASSUME NEW h, NEW i
    PROVE  /\ Count(h, i) \in Nat
           /\ \A o \in Objs : h[o] = i => Count(h, i) > 0
<1>1. IsFiniteSet(Holders(h, i))
  BY ObjsAssumption, FS_Subset DEF Holders
<1>2. Count(h, i) \in Nat
  BY <1>1, FS_CardinalityType DEF Count
<1>3. ASSUME NEW o \in Objs, h[o] = i
      PROVE  Count(h, i) > 0
  <2>1. Holders(h, i) # {}
    BY <1>3 DEF Holders
  <2>2. Count(h, i) # 0
    BY <1>1, <2>1, FS_EmptySet DEF Count
  <2> QED
    BY <1>2, <2>2
<1> QED
  BY <1>2, <1>3

(* What one assignment to a variable o does to the number of holders. *)
LEMMA CountUpdate ==
    ASSUME NEW h \in Held, NEW g \in Held, NEW o \in Objs,
           \A p \in Objs \ {o} : g[p] = h[p]
    PROVE  Moved(h, g, o)
<1> SUFFICES ASSUME NEW i
             PROVE  MovedAt(h, g, o, i)
  BY DEF Moved
<1>0. Count(h, i) \in Nat /\ Count(g, i) \in Nat
  BY CountType
<1>1. IsFiniteSet(Holders(h, i)) /\ Cardinality(Holders(h, i)) \in Nat
  BY ObjsAssumption, FS_Subset, FS_CardinalityType DEF Holders
<1>2. o \in Holders(h, i) <=> h[o] = i
  BY DEF Holders
<1>3. CASE g[o] = i
  <2>1. Holders(g, i) = Holders(h, i) \cup {o}
    BY <1>3 DEF Holders, Held
  <2> QED
    BY <1>0, <1>1, <1>2, <1>3, <2>1, FS_AddElement DEF Count, MovedAt
<1>4. CASE g[o] # i
  <2>1. Holders(g, i) = Holders(h, i) \ {o}
    BY <1>4 DEF Holders, Held
  <2>2. Count(g, i) = IF o \in Holders(h, i) THEN Count(h, i) - 1 ELSE Count(h, i)
    BY <1>1, <2>1, FS_RemoveElement DEF Count
  <2> QED
    BY <1>0, <1>2, <1>4, <2>2 DEF MovedAt
<1> QED
  BY <1>3, <1>4

(* What xdecref and xincref do to the reference count of each identifier. *)
LEMMA XdecrefAt ==
    ASSUME NEW c \in [Ids -> Nat], NEW x
    PROVE  /\ Xdecref(c, x) \in [Ids -> Nat]
           /\ \A j \in Ids : Xdecref(c, x)[j] = IF j = x /\ c[j] > 0 THEN c[j] - 1 ELSE c[j]
  BY DEF Xdecref, Valid

(* H5Iinc_ref adds one to the count of a valid identifier. *)
LEMMA XincrefAt ==
    ASSUME NEW c \in [Ids -> Nat], NEW x
    PROVE  /\ Xincref(c, x) \in [Ids -> Nat]
           /\ \A j \in Ids : Xincref(c, x)[j] = IF j = x /\ c[j] > 0 THEN c[j] + 1 ELSE c[j]
  BY DEF Xincref, Valid

-----------------------------------------------------------------------------

(* Identifiers that were never issued have no reference yet. *)
Fresh == \A i \in Ids \ issued : ref[i] = 0

IInv == TypeOK /\ Counted /\ Fresh

(* The program begins in the invariant. *)
LEMMA InitIInv == Init => IInv
<1> SUFFICES ASSUME Init
             PROVE  IInv
  OBVIOUS
<1>1. TypeOK /\ Fresh
  BY DEF Init, TypeOK, Fresh
<1>2. ASSUME NEW i \in Ids
      PROVE  Count(held, i) = 0
  <2>1. Holders(held, i) = {}
    BY IdsAssumption DEF Init, Holders
  <2> QED
    BY <2>1, FS_EmptySet DEF Count
<1>3. Counted
  BY <1>2 DEF Init, Counted, Shares, Count
<1> QED
  BY <1>1, <1>3 DEF IInv

(* The ownership count written with Count. *)
LEMMA CountedIff == Counted <=> \A i \in Ids : ref[i] = Count(held, i) + raw[i] + lost[i]
  BY DEF Counted, Shares, Count

(* An identifier that some variable holds is still open. *)
LEMMA HeldOpen ==
    ASSUME IInv, NEW o \in Objs, held[o] \in Ids
    PROVE  ref[held[o]] > 0
  BY CountType, CountedIff DEF IInv, TypeOK

(* One step of the wrapper preserves the invariant, action by action. *)
LEMMA NextIInv == IInv /\ [Next]_vars => IInv'
<1> SUFFICES ASSUME IInv, [Next]_vars
             PROVE  IInv'
  OBVIOUS
<1>c. \A i \in Ids : ref[i] = Count(held, i) + raw[i] + lost[i]
  BY CountedIff DEF IInv
<1>n. \A i \in Ids : Count(held, i) \in Nat /\ raw[i] \in Nat /\ lost[i] \in Nat /\ ref[i] \in Nat
  BY CountType DEF IInv, TypeOK
<1>r. ref \in [Ids -> Nat]
  BY DEF IInv, TypeOK
<1>h. held \in Held
  BY DEF IInv, TypeOK, Held
<1> DEFINE Sum == \A i \in Ids : ref'[i] = Count(held', i) + raw'[i] + lost'[i]
<1>s. Sum => Counted'
  BY DEF Counted, Shares, Count
<1>1. ASSUME NEW i \in Ids, LibraryOpen(i)
      PROVE  IInv'
  <2>1. TypeOK' /\ Fresh'
    BY <1>1 DEF LibraryOpen, IInv, TypeOK, Fresh
  <2>2. ref[i] = 0
    BY <1>1 DEF LibraryOpen, IInv, Fresh
  <2>3. Count(held, i) = 0 /\ raw[i] = 0 /\ lost[i] = 0
    BY <2>2, <1>c, <1>n
  <2>4. Sum
    BY <1>1, <2>3, <1>c, <1>n DEF LibraryOpen, IInv, TypeOK
  <2> QED
    BY <2>1, <2>4, <1>s DEF IInv
<1>2. ASSUME NEW i \in Ids, LibraryClose(i)
      PROVE  IInv'
  <2>1. ref[i] > 0
    BY <1>2, <1>c, <1>n DEF LibraryClose
  <2>2. ref' = [ref EXCEPT ![i] = @ - 1]
    BY <1>2, <2>1 DEF LibraryClose, Xdecref, Valid
  <2>3. TypeOK' /\ Fresh'
    BY <1>2, <2>1, <2>2 DEF LibraryClose, IInv, TypeOK, Fresh
  <2>4. Sum
    BY <1>2, <2>2, <1>c, <1>n DEF LibraryClose, IInv, TypeOK
  <2> QED
    BY <2>3, <2>4, <1>s DEF IInv
<1>3. ASSUME NEW o \in Objs, NEW i \in Ids, Steal(o, i)
      PROVE  IInv'
  <2>1. held' \in Held /\ held'[o] = i /\ \A q \in Objs \ {o} : held'[q] = held[q]
    BY <1>3, <1>h DEF Steal, Held
  <2>2. Moved(held, held', o)
    BY <2>1, <1>h, CountUpdate
  <2>3. ref' \in [Ids -> Nat] /\ \A j \in Ids : ref'[j] = ref[j]
    BY <1>3, <1>r DEF Steal
  <2>4. raw' \in [Ids -> Nat] /\ lost' \in [Ids -> Nat] /\ issued' \subseteq Ids
    BY <1>3 DEF Steal, IInv, TypeOK
  <2>5. \A j \in Ids : raw'[j] = (IF j = i THEN raw[j] - 1 ELSE raw[j]) /\ lost'[j] = lost[j]
    BY <1>3 DEF Steal, IInv, TypeOK
  <2>6. Fresh'
    BY <1>3, <2>3 DEF Steal, IInv, Fresh
  <2>8. ASSUME NEW j \in Ids
        PROVE  ref'[j] = Count(held', j) + raw'[j] + lost'[j]
    <3>1. MovedAt(held, held', o, j)
      BY <2>2 DEF Moved
    <3>2. ref[j] = Count(held, j) + raw[j] + lost[j]
      BY <1>c
    <3> QED
      BY <1>3, <2>1, <2>3, <2>5, <3>1, <3>2, <1>n, IdsAssumption DEF Steal, MovedAt
  <2>9. Sum
    BY <2>8
  <2> QED
    BY <2>1, <2>3, <2>4, <2>6, <2>9, <1>s DEF IInv, TypeOK, Held
<1>4. ASSUME NEW o \in Objs, StealFailure(o)
      PROVE  IInv'
  <2>1. held' \in Held /\ held'[o] = BadId /\ \A q \in Objs \ {o} : held'[q] = held[q]
    BY <1>4, <1>h DEF StealFailure, Held
  <2>2. Moved(held, held', o)
    BY <2>1, <1>h, CountUpdate
  <2>3. ref' \in [Ids -> Nat] /\ \A j \in Ids : ref'[j] = ref[j]
    BY <1>4, <1>r DEF StealFailure
  <2>4. raw' \in [Ids -> Nat] /\ lost' \in [Ids -> Nat] /\ issued' \subseteq Ids
    BY <1>4 DEF StealFailure, IInv, TypeOK
  <2>5. \A j \in Ids : raw'[j] = raw[j] /\ lost'[j] = lost[j]
    BY <1>4 DEF StealFailure, IInv, TypeOK
  <2>6. Fresh'
    BY <1>4, <2>3 DEF StealFailure, IInv, Fresh
  <2>8. ASSUME NEW j \in Ids
        PROVE  ref'[j] = Count(held', j) + raw'[j] + lost'[j]
    <3>1. MovedAt(held, held', o, j)
      BY <2>2 DEF Moved
    <3>2. ref[j] = Count(held, j) + raw[j] + lost[j]
      BY <1>c
    <3> QED
      BY <1>4, <2>1, <2>3, <2>5, <3>1, <3>2, <1>n, IdsAssumption DEF StealFailure, MovedAt
  <2>9. Sum
    BY <2>8
  <2> QED
    BY <2>1, <2>3, <2>4, <2>6, <2>9, <1>s DEF IInv, TypeOK, Held
<1>5. ASSUME NEW o \in Objs, NEW i \in Ids, FromBorrowed(o, i)
      PROVE  IInv'
  <2>1. held' \in Held /\ held'[o] = i /\ \A q \in Objs \ {o} : held'[q] = held[q]
    BY <1>5, <1>h DEF FromBorrowed, Held
  <2>2. Moved(held, held', o)
    BY <2>1, <1>h, CountUpdate
  <2>3. ref' \in [Ids -> Nat] /\ \A j \in Ids : ref'[j] = IF j = i THEN ref[j] + 1 ELSE ref[j]
    BY <1>5, <1>r, XincrefAt DEF FromBorrowed, Valid
  <2>4. raw' \in [Ids -> Nat] /\ lost' \in [Ids -> Nat] /\ issued' \subseteq Ids
    BY <1>5 DEF FromBorrowed, IInv, TypeOK
  <2>5. \A j \in Ids : raw'[j] = raw[j] /\ lost'[j] = lost[j]
    BY <1>5 DEF FromBorrowed, IInv, TypeOK
  <2>6. Fresh'
    BY <1>5, <2>3, <1>r DEF FromBorrowed, Valid, IInv, Fresh
  <2>8. ASSUME NEW j \in Ids
        PROVE  ref'[j] = Count(held', j) + raw'[j] + lost'[j]
    <3>1. MovedAt(held, held', o, j)
      BY <2>2 DEF Moved
    <3>2. ref[j] = Count(held, j) + raw[j] + lost[j]
      BY <1>c
    <3> QED
      BY <1>5, <2>1, <2>3, <2>5, <3>1, <3>2, <1>n, IdsAssumption DEF FromBorrowed, MovedAt
  <2>9. Sum
    BY <2>8
  <2> QED
    BY <2>1, <2>3, <2>4, <2>6, <2>9, <1>s DEF IInv, TypeOK, Held
<1>6. ASSUME NEW o \in Objs, NEW i \in Ids, BoolType(o, i)
      PROVE  IInv'
  <2>1. held' \in Held /\ held'[o] = i /\ \A q \in Objs \ {o} : held'[q] = held[q]
    BY <1>6, <1>h DEF BoolType, Held
  <2>2. Moved(held, held', o)
    BY <2>1, <1>h, CountUpdate
  <2>3. ref' \in [Ids -> Nat] /\ \A j \in Ids : ref'[j] = IF j = i THEN 2 ELSE ref[j]
    <3> DEFINE r1 == [ref EXCEPT ![i] = 1]
    <3>1. r1 \in [Ids -> Nat] /\ \A j \in Ids : r1[j] = IF j = i THEN 1 ELSE ref[j]
      BY <1>r
    <3>2. ref' = Xincref(r1, i)
      BY <1>6 DEF BoolType
    <3> HIDE DEF r1
    <3> QED
      BY <3>1, <3>2, <1>r, XincrefAt
  <2>4. raw' \in [Ids -> Nat] /\ lost' \in [Ids -> Nat] /\ issued' \subseteq Ids
    BY <1>6 DEF BoolType, IInv, TypeOK
  <2>5. \A j \in Ids : raw'[j] = raw[j] /\ lost'[j] = IF j = i THEN lost[j] + 1 ELSE lost[j]
    BY <1>6 DEF BoolType, IInv, TypeOK
  <2>6. Fresh'
    BY <1>6, <2>3 DEF BoolType, IInv, Fresh
  <2>7. Count(held, i) = 0 /\ raw[i] = 0 /\ lost[i] = 0
    BY <1>6, <1>c, <1>n DEF BoolType, IInv, Fresh
  <2>8. ASSUME NEW j \in Ids
        PROVE  ref'[j] = Count(held', j) + raw'[j] + lost'[j]
    <3>1. MovedAt(held, held', o, j)
      BY <2>2 DEF Moved
    <3>2. ref[j] = Count(held, j) + raw[j] + lost[j]
      BY <1>c
    <3>3. CASE j = i
      <4>1. held[o] # j /\ held'[o] = j
        BY <1>6, <2>1, <3>3, IdsAssumption DEF BoolType
      <4>2. ref'[j] = 2 /\ raw'[j] = 0 /\ lost'[j] = 1
        BY <2>3, <2>5, <2>7, <3>3
      <4> QED
        BY <2>7, <3>1, <3>3, <4>1, <4>2 DEF MovedAt
    <3>4. CASE j # i
      BY <1>6, <2>1, <2>3, <2>5, <3>1, <3>2, <3>4, IdsAssumption DEF BoolType, MovedAt
    <3> QED
      BY <3>3, <3>4
  <2>9. Sum
    BY <2>8
  <2> QED
    BY <2>1, <2>3, <2>4, <2>6, <2>9, <1>s DEF IInv, TypeOK, Held
<1>7. ASSUME NEW o \in Objs, NEW p \in Objs, CopyConstruct(o, p)
      PROVE  IInv'
  <2>1. held' \in Held /\ held'[o] = held[p] /\ \A q \in Objs \ {o} : held'[q] = held[q]
    BY <1>7, <1>h DEF CopyConstruct, Held
  <2>2. Moved(held, held', o)
    BY <2>1, <1>h, CountUpdate
  <2>3. ref' \in [Ids -> Nat] /\ \A j \in Ids : ref'[j] = IF j = held[p] THEN ref[j] + 1 ELSE ref[j]
    BY <1>7, <1>r, XincrefAt, HeldOpen DEF CopyConstruct
  <2>4. raw' \in [Ids -> Nat] /\ lost' \in [Ids -> Nat] /\ issued' \subseteq Ids
    BY <1>7 DEF CopyConstruct, IInv, TypeOK
  <2>5. \A j \in Ids : raw'[j] = raw[j] /\ lost'[j] = lost[j]
    BY <1>7 DEF CopyConstruct, IInv, TypeOK
  <2>6. Fresh'
    BY <1>7, <2>3, HeldOpen DEF CopyConstruct, IInv, Fresh
  <2>8. ASSUME NEW j \in Ids
        PROVE  ref'[j] = Count(held', j) + raw'[j] + lost'[j]
    <3>1. MovedAt(held, held', o, j)
      BY <2>2 DEF Moved
    <3>2. ref[j] = Count(held, j) + raw[j] + lost[j]
      BY <1>c
    <3> QED
      BY <1>7, <2>1, <2>3, <2>5, <3>1, <3>2, <1>n, IdsAssumption DEF CopyConstruct, MovedAt
  <2>9. Sum
    BY <2>8
  <2> QED
    BY <2>1, <2>3, <2>4, <2>6, <2>9, <1>s DEF IInv, TypeOK, Held
<1>9. ASSUME NEW o \in Objs, NEW p \in Objs, CopyAssign(o, p)
      PROVE  IInv'
  <2>1. held' \in Held /\ held'[o] = held[p] /\ \A q \in Objs \ {o} : held'[q] = held[q]
    BY <1>9, <1>h DEF CopyAssign, Held
  <2>2. Moved(held, held', o)
    BY <2>1, <1>h, CountUpdate
  <2> DEFINE r1 == Xincref(ref, held[p])
  <2>a. r1 \in [Ids -> Nat] /\ \A j \in Ids : r1[j] = IF j = held[p] THEN ref[j] + 1 ELSE ref[j]
    BY <1>r, XincrefAt, HeldOpen
  <2>b. \A j \in Ids : j = held[o] => r1[j] > 0
    BY <2>a, <1>r, HeldOpen
  <2>3. ref' \in [Ids -> Nat] /\ \A j \in Ids : ref'[j] = IF j = held[o] THEN r1[j] - 1 ELSE r1[j]
    BY <1>9, <2>a, <2>b, XdecrefAt DEF CopyAssign
  <2>4. raw' \in [Ids -> Nat] /\ lost' \in [Ids -> Nat] /\ issued' \subseteq Ids
    BY <1>9 DEF CopyAssign, IInv, TypeOK
  <2>5. \A j \in Ids : raw'[j] = raw[j] /\ lost'[j] = lost[j]
    BY <1>9 DEF CopyAssign, IInv, TypeOK
  <2>6. Fresh'
    BY <1>9, <2>3, <2>a, <1>r, HeldOpen DEF CopyAssign, IInv, Fresh
  <2>8. ASSUME NEW j \in Ids
        PROVE  ref'[j] = Count(held', j) + raw'[j] + lost'[j]
    <3>1. MovedAt(held, held', o, j)
      BY <2>2 DEF Moved
    <3>2. ref[j] = Count(held, j) + raw[j] + lost[j]
      BY <1>c
    <3> QED
      BY <1>9, <2>1, <2>3, <2>5, <3>1, <3>2, <1>n, <2>a, IdsAssumption DEF CopyAssign, MovedAt
  <2>9. Sum
    BY <2>8
  <2> QED
    BY <2>1, <2>3, <2>4, <2>6, <2>9, <1>s DEF IInv, TypeOK, Held
<1>8. ASSUME NEW o \in Objs, NEW p \in Objs, MoveConstruct(o, p)
      PROVE  IInv'
  <2> DEFINE h1 == [held EXCEPT ![o] = held[p]]
  <2>1. h1 \in Held /\ h1[o] = held[p] /\ h1[p] = held[p] /\ \A q \in Objs \ {o} : h1[q] = held[q]
    BY <1>h DEF Held
  <2>2. held' \in Held /\ held'[p] = NoId /\ \A q \in Objs \ {p} : held'[q] = h1[q]
    BY <1>8, <1>h DEF MoveConstruct, Held
  <2>3. Moved(held, h1, o) /\ Moved(h1, held', p)
    BY <2>1, <2>2, <1>h, CountUpdate
  <2> HIDE DEF h1
  <2>4. ref' \in [Ids -> Nat] /\ \A j \in Ids : ref'[j] = ref[j]
    BY <1>8, <1>r DEF MoveConstruct
  <2>5. raw' = raw /\ lost' = lost /\ issued' = issued
    BY <1>8 DEF MoveConstruct
  <2>6. TypeOK' /\ Fresh'
    BY <2>2, <2>4, <2>5, HeldOpen DEF IInv, TypeOK, Fresh, Held
  <2>7. ASSUME NEW j \in Ids
        PROVE  Count(held', j) = Count(held, j)
    <3>1. MovedAt(held, h1, o, j) /\ MovedAt(h1, held', p, j)
      BY <2>3 DEF Moved
    <3> QED
      BY <1>8, <2>1, <2>2, <3>1, IdsAssumption DEF MovedAt, MoveConstruct
  <2>8. Sum
    BY <2>4, <2>5, <2>7, <1>c, <1>n
  <2> QED
    BY <2>6, <2>8, <1>s DEF IInv
<1>10. ASSUME NEW o \in Objs, NEW p \in Objs, MoveAssign(o, p)
      PROVE  IInv'
  <2> DEFINE h1 == [held EXCEPT ![o] = held[p]]
  <2>1. h1 \in Held /\ h1[o] = held[p] /\ h1[p] = held[p] /\ \A q \in Objs \ {o} : h1[q] = held[q]
    BY <1>h DEF Held
  <2>2. held' \in Held /\ held'[p] = NoId /\ \A q \in Objs \ {p} : held'[q] = h1[q]
    BY <1>10, <1>h DEF MoveAssign, Held
  <2>3. Moved(held, h1, o) /\ Moved(h1, held', p)
    BY <2>1, <2>2, <1>h, CountUpdate
  <2> HIDE DEF h1
  <2>4. ref' \in [Ids -> Nat] /\ \A j \in Ids : ref'[j] = IF j = held[o] THEN ref[j] - 1 ELSE ref[j]
    BY <1>10, <1>r, XdecrefAt, HeldOpen DEF MoveAssign
  <2>5. raw' = raw /\ lost' = lost /\ issued' = issued
    BY <1>10 DEF MoveAssign
  <2>6. TypeOK' /\ Fresh'
    BY <2>2, <2>4, <2>5, HeldOpen DEF IInv, TypeOK, Fresh, Held
  <2>7. ASSUME NEW j \in Ids
        PROVE  Count(held', j) = IF j = held[o] THEN Count(held, j) - 1 ELSE Count(held, j)
    <3>1. MovedAt(held, h1, o, j) /\ MovedAt(h1, held', p, j)
      BY <2>3 DEF Moved
    <3> QED
      BY <1>10, <2>1, <2>2, <3>1, IdsAssumption DEF MovedAt, MoveAssign
  <2>8. Sum
    BY <2>4, <2>5, <2>7, <1>c, <1>n
  <2> QED
    BY <2>6, <2>8, <1>s DEF IInv
<1>11. ASSUME NEW o \in Objs, Close(o)
      PROVE  IInv'
  <2>1. held' \in Held /\ held'[o] = NoId /\ \A q \in Objs \ {o} : held'[q] = held[q]
    BY <1>11, <1>h DEF Close, Held
  <2>2. Moved(held, held', o)
    BY <2>1, <1>h, CountUpdate
  <2>3. ref' \in [Ids -> Nat] /\ \A j \in Ids : ref'[j] = IF j = held[o] THEN ref[j] - 1 ELSE ref[j]
    BY <1>11, <1>r, XdecrefAt, HeldOpen DEF Close
  <2>4. raw' \in [Ids -> Nat] /\ lost' \in [Ids -> Nat] /\ issued' \subseteq Ids
    BY <1>11 DEF Close, IInv, TypeOK
  <2>5. \A j \in Ids : raw'[j] = raw[j] /\ lost'[j] = lost[j]
    BY <1>11 DEF Close, IInv, TypeOK
  <2>6. Fresh'
    BY <1>11, <2>3, HeldOpen DEF Close, IInv, Fresh
  <2>8. ASSUME NEW j \in Ids
        PROVE  ref'[j] = Count(held', j) + raw'[j] + lost'[j]
    <3>1. MovedAt(held, held', o, j)
      BY <2>2 DEF Moved
    <3>2. ref[j] = Count(held, j) + raw[j] + lost[j]
      BY <1>c
    <3> QED
      BY <1>11, <2>1, <2>3, <2>5, <3>1, <3>2, <1>n, IdsAssumption DEF Close, MovedAt
  <2>9. Sum
    BY <2>8
  <2> QED
    BY <2>1, <2>3, <2>4, <2>6, <2>9, <1>s DEF IInv, TypeOK, Held
<1>12. ASSUME NEW i \in Ids, AttributeType(i)
       PROVE  IInv'
  <2>1. TypeOK' /\ Fresh'
    BY <1>12 DEF AttributeType, IInv, TypeOK, Fresh
  <2>2. ref[i] = 0
    BY <1>12 DEF AttributeType, IInv, Fresh
  <2>3. Count(held, i) = 0 /\ raw[i] = 0 /\ lost[i] = 0
    BY <2>2, <1>c, <1>n
  <2>4. Sum
    BY <1>12, <2>3, <1>c, <1>n DEF AttributeType, IInv, TypeOK
  <2> QED
    BY <2>1, <2>4, <1>s DEF IInv
<1>13. CASE UNCHANGED vars
  BY <1>13 DEF vars, IInv, TypeOK, Counted, Shares, Fresh, Holders
<1> QED
  BY <1>1, <1>2, <1>3, <1>4, <1>5, <1>6, <1>7, <1>8, <1>9, <1>10, <1>11, <1>12, <1>13 DEF Next

(* Every reachable state satisfies the invariant. *)
LEMMA Invariance == Spec => []IInv
  BY InitIInv, NextIInv, PTL DEF Spec

(* The variables keep their types: in particular no reference count and no *)
(* count of plain references ever falls below zero.                        *)
THEOREM Typing == Spec => []TypeOK
<1>1. IInv => TypeOK
  BY DEF IInv
<1> QED
  BY Invariance, <1>1, PTL

(* The library's reference count of an identifier is always the number of  *)
(* its owners (object.cpp 96-113).                                         *)
THEOREM Counting == Spec => []Counted
<1>1. IInv => Counted
  BY DEF IInv
<1> QED
  BY Invariance, <1>1, PTL

(***************************************************************************)
(* Refinement.                                                             *)
(***************************************************************************)

(* Nobody owns anything at first. *)
LEMMA InitRefines == Init => Abstract!Init
<1> SUFFICES ASSUME Init
             PROVE  Abstract!Init
  OBVIOUS
<1>1. \A i \in Ids : Shares[i] = 0
  BY InitIInv DEF IInv, Counted, Init
<1> QED
  BY <1>1 DEF Init, Abstract!Init, Shares, Open

(* Every step of the wrapper issues one identifier to its first owners, or *)
(* exchanges shares of open identifiers.                                   *)
LEMMA NextRefines == IInv /\ IInv' /\ [Next]_vars => [Abstract!Next]_(Abstract!vars)
<1> SUFFICES ASSUME IInv, IInv', [Next]_vars
             PROVE  [Abstract!Next]_(Abstract!vars)
  OBVIOUS
<1>1. /\ Shares = [i \in Ids |-> ref[i]]
      /\ Shares' = [i \in Ids |-> ref'[i]]
  BY DEF IInv, Counted, Shares
<1>2. ref \in [Ids -> Nat] /\ ref' \in [Ids -> Nat]
  BY DEF IInv, TypeOK
<1>3. Shares = ref /\ Shares' = ref'
  BY <1>1, <1>2
<1>4. ASSUME NEW i \in Ids, ref'[i] > 0, \A j \in Ids \ {i} : ref'[j] = ref[j]
      PROVE  Open' = Open \cup {i}
  BY <1>4, <1>2 DEF Open
<1>5. ASSUME issued' = issued, \A i \in Ids : ref[i] = 0 => ref'[i] = 0
      PROVE  Abstract!Exchange
  <2>1. \A i \in Ids \ Open : ref'[i] = ref[i]
    BY <1>5, <1>2 DEF Open
  <2>2. Open' = {i \in Open : ref'[i] > 0}
    BY <1>5, <1>2 DEF Open
  <2> QED
    BY <1>2, <1>3, <1>5, <2>1, <2>2 DEF Abstract!Exchange
<1>a. \A c \in [Ids -> Nat] : \A x : \A i \in Ids : c[i] = 0 => Xdecref(c, x)[i] = 0
  BY XdecrefAt
<1>b. \A c \in [Ids -> Nat] : \A x : \A i \in Ids : c[i] = 0 => Xincref(c, x)[i] = 0
  BY XincrefAt
<1>6. ASSUME NEW i \in Ids, LibraryOpen(i)
      PROVE  Abstract!Next
  <2>1. Abstract!Issue(i, 1)
    <3>1. i \notin issued /\ ref' = [ref EXCEPT ![i] = 1] /\ issued' = issued \cup {i}
      BY <1>6 DEF LibraryOpen
    <3>2. Open' = Open \cup {i}
      BY <1>2, <1>4, <3>1
    <3> QED
      BY <1>3, <3>1, <3>2 DEF Abstract!Issue
  <2> QED
    BY <2>1 DEF Abstract!Next
<1>7. ASSUME NEW o \in Objs, NEW i \in Ids, BoolType(o, i)
      PROVE  Abstract!Next
  <2> DEFINE r1 == [ref EXCEPT ![i] = 1]
  <2>1. r1 \in [Ids -> Nat] /\ \A j \in Ids : r1[j] = IF j = i THEN 1 ELSE ref[j]
    BY <1>2
  <2>2. ref' = Xincref(r1, i)
    BY <1>7 DEF BoolType
  <2> HIDE DEF r1
  <2>3. ref' = [ref EXCEPT ![i] = 2]
    BY <1>2, <2>1, <2>2, XincrefAt
  <2> QED
    <3>1. Abstract!Issue(i, 2)
      <4>1. i \notin issued /\ issued' = issued \cup {i}
        BY <1>7 DEF BoolType
      <4>2. Open' = Open \cup {i}
        BY <1>2, <1>4, <2>3
      <4> QED
        BY <1>3, <2>3, <4>1, <4>2 DEF Abstract!Issue
    <3> QED
      BY <3>1 DEF Abstract!Next
<1>8. ASSUME \/ \E i \in Ids : LibraryClose(i)
             \/ \E o \in Objs : StealFailure(o) \/ Close(o)
             \/ \E o \in Objs, i \in Ids : Steal(o, i) \/ FromBorrowed(o, i)
             \/ \E o, p \in Objs : CopyConstruct(o, p) \/ MoveConstruct(o, p)
             \/ \E o, p \in Objs : MoveAssign(o, p)
      PROVE  Abstract!Next
  <2>1. issued' = issued /\ \A i \in Ids : ref[i] = 0 => ref'[i] = 0
    BY <1>8, <1>2, <1>a, <1>b DEF LibraryClose, StealFailure, Close, Steal, FromBorrowed,
                                  CopyConstruct, MoveConstruct, MoveAssign
  <2> QED
    BY <1>5, <2>1 DEF Abstract!Next
<1>9. ASSUME NEW o \in Objs, NEW p \in Objs, CopyAssign(o, p)
      PROVE  Abstract!Next
  <2>1. Xincref(ref, held[p]) \in [Ids -> Nat]
    BY <1>2, XincrefAt
  <2>2. issued' = issued /\ \A i \in Ids : ref[i] = 0 => ref'[i] = 0
    BY <1>9, <1>2, <1>a, <1>b, <2>1 DEF CopyAssign
  <2> QED
    BY <1>5, <2>2 DEF Abstract!Next
<1>10. ASSUME NEW i \in Ids, AttributeType(i)
       PROVE  Abstract!Next
  <2>1. i \notin issued /\ ref' = [ref EXCEPT ![i] = 1] /\ issued' = issued \cup {i}
    BY <1>10 DEF AttributeType
  <2>2. Open' = Open \cup {i}
    BY <1>2, <1>4, <2>1
  <2>3. Abstract!Issue(i, 1)
    BY <1>3, <2>1, <2>2 DEF Abstract!Issue
  <2> QED
    BY <2>3 DEF Abstract!Next
<1>11. CASE UNCHANGED vars
  BY <1>11, <1>3 DEF vars, Abstract!vars, Open
<1> QED
  BY <1>6, <1>7, <1>8, <1>9, <1>10, <1>11 DEF Next

(* The wrapper implements Ownership: identifiers stay open exactly while   *)
(* somebody owns them (object.hpp 45-48).                                  *)
THEOREM Refinement == Spec => ImplementsOwnership
<1>1. Init => Abstract!Init
  BY InitRefines
<1>2. IInv /\ IInv' /\ [Next]_vars => [Abstract!Next]_(Abstract!vars)
  BY NextRefines
<1> QED
  BY <1>1, <1>2, Invariance, PTL DEF Spec, ImplementsOwnership, Abstract!Spec
=============================================================================
