---------------------------- MODULE ReadingProofs ---------------------------
(***************************************************************************)
(* What stored groups read as, for every number of objects, names and      *)
(* views and all the objects a client may store.                           *)
(*                                                                         *)
(* First, that the Format attribute is a commit mark (CommitMark).  A      *)
(* history variable, goal, says which object a group was made for.  The    *)
(* invariant CInv follows the recursion of __setitem__: in a group that is *)
(* being filled the entries are there but for those still to come, in one  *)
(* with a Format they all are, and an entry that is an object is a group   *)
(* with a Format itself.                                                   *)
(*                                                                         *)
(* Then, that a copy reads as its source did at the call (CopyFaithful).   *)
(* The invariant Copies says that what the source holds does not change,   *)
(* that the groups made since the call have copies of the entries of       *)
(* theirs but for those still to come, and that those were read from it.   *)
(*                                                                         *)
(* Both need that hard links lead to higher addresses, so that the value   *)
(* of a group is known from those of its entries by induction from the     *)
(* highest address down.                                                   *)
(***************************************************************************)
EXTENDS HDFArchiveProofs

(* A set of values in which entries of objects lie again. *)
Hereditary(S) ==
    \A y \in S : y.type = "object" =>
        /\ y = [type |-> "object", fmt |-> y.fmt, items |-> y.items]
        /\ y.items = [k \in DOMAIN y.items |-> y.items[k]]
        /\ DOMAIN y.items \subseteq Names
        /\ \A k \in DOMAIN y.items : y.items[k] \in S

(* A value whose objects, at any depth, are a Format and named entries. *)
WellFormed(x) == \E S : x \in S /\ Hereditary(S)

(* What an object is made of, and that its entries are well-formed. *)
LEMMA WellFormedParts ==
    ASSUME NEW x, WellFormed(x), x.type = "object"
    PROVE  /\ x = [type |-> "object", fmt |-> x.fmt, items |-> x.items]
           /\ x.items = [k \in DOMAIN x.items |-> x.items[k]]
           /\ DOMAIN x.items \subseteq Names
           /\ \A k \in DOMAIN x.items : WellFormed(x.items[k])
<1>1. PICK S : x \in S /\ Hereditary(S)
  BY DEF WellFormed
<1>2. /\ x = [type |-> "object", fmt |-> x.fmt, items |-> x.items]
      /\ x.items = [k \in DOMAIN x.items |-> x.items[k]]
      /\ DOMAIN x.items \subseteq Names
      /\ \A k \in DOMAIN x.items : x.items[k] \in S
  BY <1>1, Zenon DEF Hereditary
<1>3. \A k \in DOMAIN x.items : WellFormed(x.items[k])
  BY <1>1, <1>2, Zenon DEF WellFormed
<1> QED
  BY <1>2, <1>3

(* Everything but an object is well-formed. *)
LEMMA OtherWellFormed ==
    ASSUME NEW x, x.type # "object"
    PROVE  WellFormed(x)
<1>1. x \in {x} /\ Hereditary({x})
  BY DEF Hereditary
<1> QED
  BY <1>1, Zenon DEF WellFormed

(* Arrays and scalars are told from objects and exceptions. *)
LEMMA LeafTypes ==
    ASSUME NEW x
    PROVE  Leaf(x).type = "leaf" /\ Leaf(x).type # "object" /\ Leaf(x) # Unreadable
  BY DEF Leaf, Unreadable

(* The objects of the client are well-formed. *)
LEMMA ObjectsWellFormed ==
    ASSUME NEW x \in Objects
    PROVE  WellFormed(x) /\ x.type = "object" /\ x.fmt # Untagged
<1> DEFINE S == Objects \cup {Leaf(y) : y \in Leaves}
<1>1. ASSUME NEW y \in S, y.type = "object"
      PROVE  /\ y = [type |-> "object", fmt |-> y.fmt, items |-> y.items]
             /\ y.items = [k \in DOMAIN y.items |-> y.items[k]]
             /\ DOMAIN y.items \subseteq Names
             /\ \A k \in DOMAIN y.items : y.items[k] \in S
  <2>1. y \in Objects
    BY <1>1, LeafTypes
  <2>2. /\ y = [type |-> "object", fmt |-> y.fmt, items |-> y.items]
        /\ DOMAIN y.items \subseteq Names
        /\ y.items \in [DOMAIN y.items -> S]
    BY <2>1, ObjectsAssumption, Zenon
  <2> HIDE DEF S
  <2>3. \A k \in DOMAIN y.items : y.items[k] \in S
    BY <2>2
  <2>4. y.items = [k \in DOMAIN y.items |-> y.items[k]]
    BY <2>2
  <2> QED
    BY <2>2, <2>3, <2>4
<1>2. x \in S
  OBVIOUS
<1> HIDE DEF S
<1>3. Hereditary(S)
  BY <1>1, Zenon DEF Hereditary
<1>4. WellFormed(x)
  BY <1>2, <1>3, Zenon DEF WellFormed
<1>5. x = [type |-> "object", fmt |-> x.fmt, items |-> x.items] /\ x.fmt # Untagged
  BY ObjectsAssumption, Zenon
<1>6. x.type = "object"
  BY <1>5
<1> QED
  BY <1>4, <1>5, <1>6

-----------------------------------------------------------------------------
(* Reading a value.                                                        *)

(* What is in a file. *)
Contents(lnk, knd, dat, tg) == [links |-> lnk, kind |-> knd, data |-> dat, tag |-> tg]
Now == Contents(links, kind, data, tag)

(* The body of value in ValueOr, for a file F and what groups without a    *)
(* Format stand for.                                                       *)
ItemsIn(lnk, f, d, m) == [k \in keys(lnk, m) |-> f[d - 1][Resolve(lnk, m, k)]]

Evaluated(F, bare, f, d, m) ==
    IF F.kind[m] = "data" THEN Leaf(F.data[m])
    ELSE IF ~listable(F.links, m) \/ d = 0 THEN Unreadable
    ELSE IF F.tag[m] = Untagged /\ bare[m] # NoGoal THEN bare[m]
    ELSE IF \E k \in keys(F.links, m) : ItemsIn(F.links, f, d, m)[k] = Unreadable THEN Unreadable
    ELSE [type |-> "object", fmt |-> F.tag[m], items |-> ItemsIn(F.links, f, d, m)]

(* f is the function value of ValueOr, as far as depth m. *)
Evaluates(F, bare, f, m) ==
    f = [d \in 0..m |-> [n \in Nodes |-> Evaluated(F, bare, f, d, n)]]

(* What the recursion gives at each depth. *)
LEMMA EvaluatesStep ==
    ASSUME NEW F, NEW bare, NEW f, NEW m \in Nat, Evaluates(F, bare, f, m),
           NEW d \in 0..m, NEW n \in Nodes
    PROVE  f[d][n] = Evaluated(F, bare, f, d, n)
<1> DEFINE G(x, y) == Evaluated(F, bare, f, x, y)
<1>1. f = [x \in 0..m |-> [y \in Nodes |-> G(x, y)]]
  BY DEF Evaluates
<1> HIDE DEF G
<1>2. f[d][n] = G(d, n)
  BY <1>1
<1> QED
  BY <1>2 DEF G

(* At depth 0 nothing is asked of the function. *)
LEMMA EvaluatedAtZero ==
    ASSUME NEW F, NEW bare, NEW f, NEW n
    PROVE  Evaluated(F, bare, f, 0, n) = IF F.kind[n] = "data" THEN Leaf(F.data[n]) ELSE Unreadable
  BY DEF Evaluated

(* Below, only the function one depth less is. *)
LEMMA EvaluatedSame ==
    ASSUME NEW F, NEW bare, NEW f, NEW h, NEW d, NEW n, f[d - 1] = h[d - 1]
    PROVE  Evaluated(F, bare, f, d, n) = Evaluated(F, bare, h, d, n)
<1>1. ItemsIn(F.links, f, d, n) = ItemsIn(F.links, h, d, n)
  BY DEF ItemsIn
<1> QED
  BY <1>1, Zenon DEF Evaluated

(* The recursion of ValueOr defines a function. *)
LEMMA ValueExists ==
    ASSUME NEW F, NEW bare, NEW m \in Nat
    PROVE  \E f : Evaluates(F, bare, f, m)
<1> DEFINE S == {n \in Nat : \E f : Evaluates(F, bare, f, n)}
<1>1. 0 \in S
  <2> DEFINE none == [n \in Nodes |-> IF F.kind[n] = "data" THEN Leaf(F.data[n]) ELSE Unreadable]
             f == [d \in 0..0 |-> none]
  <2>1. ASSUME NEW d \in 0..0 PROVE [n \in Nodes |-> Evaluated(F, bare, f, d, n)] = none
    <3>1. d = 0
      OBVIOUS
    <3> HIDE DEF f
    <3> QED
      BY <3>1, EvaluatedAtZero
  <2> HIDE DEF none
  <2>2. f = [d \in 0..0 |-> none]
    OBVIOUS
  <2> HIDE DEF f
  <2>3. Evaluates(F, bare, f, 0)
    BY <2>1, <2>2 DEF Evaluates
  <2> QED
    BY <2>3
<1>2. ASSUME NEW n \in Nat, n < m, n \in S PROVE n + 1 \in S
  <2>1. PICK f : Evaluates(F, bare, f, n)
    BY <1>2
  <2> DEFINE last == [i \in Nodes |-> Evaluated(F, bare, [d \in {n} |-> f[n]], n + 1, i)]
             h == [d \in 0..(n + 1) |-> IF d <= n THEN f[d] ELSE last]
  <2>2. /\ \A d \in 0..n : h[d] = f[d]
        /\ h[n + 1] = last
    <3> HIDE DEF last
    <3>1. ~(n + 1 <= n) /\ n + 1 \in 0..(n + 1) /\ (\A d \in 0..n : d <= n /\ d \in 0..(n + 1))
      OBVIOUS
    <3> QED
      BY <3>1
  <2>3. h = [d \in 0..(n + 1) |-> h[d]]
    OBVIOUS
  <2> HIDE DEF h
  <2>4. ASSUME NEW d \in 0..(n + 1) PROVE h[d] = [i \in Nodes |-> Evaluated(F, bare, h, d, i)]
    <3>1. CASE d \in 0..n
      <4>1. d = 0 \/ h[d - 1] = f[d - 1]
        BY <2>2, <3>1
      <4>2. ASSUME NEW i \in Nodes
            PROVE  Evaluated(F, bare, h, d, i) = Evaluated(F, bare, f, d, i)
        <5>1. CASE d = 0
          BY <5>1, EvaluatedAtZero
        <5>2. CASE h[d - 1] = f[d - 1]
          BY <5>2, EvaluatedSame
        <5> QED
          BY <4>1, <5>1, <5>2
      <4>3. f[d] = [i \in Nodes |-> Evaluated(F, bare, f, d, i)]
        <5> DEFINE G(x) == [i \in Nodes |-> Evaluated(F, bare, f, x, i)]
        <5>1. f = [x \in 0..n |-> G(x)]
          BY <2>1 DEF Evaluates
        <5> HIDE DEF G
        <5>2. f[d] = G(d)
          BY <3>1, <5>1
        <5> QED
          BY <5>2 DEF G
      <4> QED
        BY <2>2, <3>1, <4>2, <4>3
    <3>2. CASE d = n + 1
      <4> DEFINE one == [x \in {n} |-> f[n]]
      <4>1. d - 1 = n /\ h[d - 1] = one[d - 1] /\ h[d] = last
        BY <2>2, <3>2
      <4>2. last = [i \in Nodes |-> Evaluated(F, bare, one, d, i)]
        BY <3>2
      <4> HIDE DEF one, last
      <4>3. \A i \in Nodes : Evaluated(F, bare, h, d, i) = Evaluated(F, bare, one, d, i)
        BY <4>1, EvaluatedSame
      <4> QED
        BY <4>1, <4>2, <4>3
    <3> QED
      BY <3>1, <3>2
  <2>5. Evaluates(F, bare, h, n + 1)
    BY <2>3, <2>4, Zenon DEF Evaluates
  <2> QED
    BY <2>5
<1>3. 0..m \subseteq S
  <2> HIDE DEF S
  <2> QED BY <1>1, <1>2, UpTo
<1> QED
  BY <1>3

(* Files that agree on a set of objects that no name leads out of: what    *)
(* they read as agrees as well, at every depth.                            *)
Enclosed(lnk, R) ==
    /\ R \subseteq Nodes
    /\ \A n \in R, k \in Names :
          Resolve(lnk, n, k) # NoNode => Resolve(lnk, n, k) \in R

SameOn(F, H, R) ==
    \A n \in R : /\ F.links[n] = H.links[n] /\ F.kind[n] = H.kind[n]
                 /\ F.data[n] = H.data[n] /\ F.tag[n] = H.tag[n]

(* What a name leads to is a matter of its group alone. *)
ResolveIn(row, k) ==
    LET follow[d \in 0..Cardinality(Names)] ==
          [j \in Names |->
             IF row[j].type = "hard" THEN row[j].node
             ELSE IF row[j].type = "none" \/ d = 0 THEN NoNode
             ELSE follow[d - 1][row[j].path]]
    IN  IF row[k].type = "hard" THEN row[k].node ELSE follow[Cardinality(Names)][k]

(* Groups with the same links have the same names, in whatever file.       *)
LEMMA SameRow ==
    ASSUME NEW t, NEW t2, NEW n, t[n] = t2[n]
    PROVE  /\ \A k : Resolve(t, n, k) = Resolve(t2, n, k)
           /\ keys(t, n) = keys(t2, n)
           /\ listable(t, n) <=> listable(t2, n)
<1>1. \A k : Resolve(t, n, k) = Resolve(t2, n, k)
  <2>1. ASSUME NEW u, NEW k PROVE Resolve(u, n, k) = ResolveIn(u[n], k)
    BY DEF Resolve, ResolveIn
  <2> QED
    BY <2>1
<1>2. keys(t, n) = keys(t2, n)
  BY DEF keys, Lexists
<1> QED
  BY <1>1, <1>2 DEF listable, Lexists

(* The functions agree at every depth. *)
LEMMA SameValues ==
    ASSUME NEW F, NEW H, NEW bare, NEW b2, NEW f, NEW h, NEW R,
           Enclosed(F.links, R), SameOn(F, H, R), \A n \in R : bare[n] = b2[n],
           Evaluates(F, bare, f, MaxNodes), Evaluates(H, b2, h, MaxNodes)
    PROVE  \A d \in 0..MaxNodes, n \in R : f[d][n] = h[d][n]
<1> DEFINE S == {d \in Nat : d <= MaxNodes => \A n \in R : f[d][n] = h[d][n]}
<1>1. MaxNodes \in Nat /\ R \subseteq Nodes
  BY MaxNodesAssumption DEF Enclosed
<1>2. ASSUME NEW d \in 0..MaxNodes, NEW n \in R
      PROVE  /\ f[d][n] = Evaluated(F, bare, f, d, n)
             /\ h[d][n] = Evaluated(H, b2, h, d, n)
  BY <1>1, EvaluatesStep
<1>3. ASSUME NEW n \in R
      PROVE  /\ F.kind[n] = H.kind[n] /\ F.data[n] = H.data[n] /\ F.tag[n] = H.tag[n]
             /\ \A k : Resolve(F.links, n, k) = Resolve(H.links, n, k)
             /\ keys(F.links, n) = keys(H.links, n)
             /\ listable(F.links, n) <=> listable(H.links, n)
             /\ bare[n] = b2[n]
  BY SameRow DEF SameOn
<1>4. 0 \in S
  <2>1. ASSUME NEW n \in R PROVE f[0][n] = h[0][n]
    BY <1>1, <1>2, <1>3, EvaluatedAtZero
  <2> QED
    BY <2>1
<1>5. ASSUME NEW d \in Nat, d < MaxNodes, d \in S PROVE d + 1 \in S
  <2> DEFINE e == d + 1
  <2>1. e \in 0..MaxNodes /\ e # 0 /\ e - 1 = d
    BY <1>1, <1>5
  <2>2. \A n \in R : f[d][n] = h[d][n]
    BY <1>1, <1>5
  <2> HIDE DEF e
  <2>3. ASSUME NEW n \in R PROVE f[e][n] = h[e][n]
    <3>1. CASE listable(F.links, n)
      <4>1. ASSUME NEW k \in keys(F.links, n)
            PROVE  f[e - 1][Resolve(F.links, n, k)] = h[e - 1][Resolve(H.links, n, k)]
        <5>1. k \in Names /\ Resolve(F.links, n, k) # NoNode
          BY <3>1, <4>1 DEF listable, keys
        <5>2. Resolve(F.links, n, k) \in R
          BY <5>1 DEF Enclosed
        <5> QED
          BY <1>3, <2>1, <2>2, <5>2
      <4>2. ItemsIn(F.links, f, e, n) = ItemsIn(H.links, h, e, n)
        BY <1>3, <4>1 DEF ItemsIn
      <4>3. Evaluated(F, bare, f, e, n) = Evaluated(H, b2, h, e, n)
        BY <1>3, <4>2, Zenon DEF Evaluated
      <4> QED
        BY <1>2, <2>1, <4>3
    <3>2. CASE ~listable(F.links, n)
      <4>1. Evaluated(F, bare, f, e, n) = Evaluated(H, b2, h, e, n)
        BY <1>3, <3>2, Zenon DEF Evaluated
      <4> QED
        BY <1>2, <2>1, <4>1
    <3> QED
      BY <3>1, <3>2
  <2> QED
    BY <2>3 DEF e
<1>6. 0..MaxNodes \subseteq S
  <2> HIDE DEF S
  <2> QED
    BY <1>1, <1>4, <1>5, UpTo
<1> QED
  BY <1>1, <1>6

(* What object n of file F reads as. *)
Reads(F, bare, n) == (CHOOSE f : Evaluates(F, bare, f, MaxNodes))[MaxNodes][n]

(* It is the value of that function at the greatest depth. *)
LEMMA ReadsUnfolds ==
    ASSUME NEW F, NEW bare
    PROVE  \E f : /\ Evaluates(F, bare, f, MaxNodes)
                  /\ \A n : Reads(F, bare, n) = f[MaxNodes][n]
<1> DEFINE f == CHOOSE f : Evaluates(F, bare, f, MaxNodes)
<1>1. Evaluates(F, bare, f, MaxNodes)
  BY MaxNodesAssumption, ValueExists
<1> QED
  BY <1>1, Zenon DEF Reads

(* Groups without a Format stand for a view, or are read like others.      *)
ViewsIn(lnk) == [m \in Nodes |-> ViewOf(OpenAt(lnk, m))]
NoViews == [m \in Nodes |-> NoGoal]

(* Value is that function at the greatest depth, ... *)
LEMMA ValueUnfolds ==
    ASSUME NEW lnk, NEW knd
    PROVE  \E f : /\ Evaluates(Contents(lnk, knd, data, tag), ViewsIn(lnk), f, MaxNodes)
                  /\ \A n : Value(lnk, knd, n) = f[MaxNodes][n]
<1> DEFINE F == Contents(lnk, knd, data, tag)
           body(f, d, m) ==
             IF knd[m] = "data" THEN Leaf(data[m])
             ELSE IF ~listable(lnk, m) \/ d = 0 THEN Unreadable
             ELSE IF tag[m] = Untagged /\ ViewOf(OpenAt(lnk, m)) # NoGoal THEN ViewOf(OpenAt(lnk, m))
             ELSE IF \E k \in keys(lnk, m) : ItemsIn(lnk, f, d, m)[k] = Unreadable THEN Unreadable
             ELSE [type |-> "object", fmt |-> tag[m], items |-> ItemsIn(lnk, f, d, m)]
           P(f) == f = [d \in 0..MaxNodes |-> [m \in Nodes |-> body(f, d, m)]]
<1>1. F.links = lnk /\ F.kind = knd /\ F.data = data /\ F.tag = tag
  BY DEF Contents
<1>2. \A m \in Nodes : ViewsIn(lnk)[m] = ViewOf(OpenAt(lnk, m))
  BY DEF ViewsIn
<1>3. \A n : Value(lnk, knd, n) = (CHOOSE f : P(f))[MaxNodes][n]
  BY Zenon DEF Value, ValueOr, ItemsIn
<1> HIDE DEF F
<1>4. ASSUME NEW f PROVE P(f) <=> Evaluates(F, ViewsIn(lnk), f, MaxNodes)
  <2>1. ASSUME NEW d, NEW m \in Nodes PROVE body(f, d, m) = Evaluated(F, ViewsIn(lnk), f, d, m)
    BY <1>1, <1>2, Zenon DEF Evaluated
  <2> HIDE DEF body
  <2>2. [d \in 0..MaxNodes |-> [m \in Nodes |-> body(f, d, m)]] =
        [d \in 0..MaxNodes |-> [m \in Nodes |-> Evaluated(F, ViewsIn(lnk), f, d, m)]]
    BY <2>1
  <2> QED
    BY <2>2, Zenon DEF Evaluates
<1> HIDE DEF P
<1>5. \E f : P(f)
  BY <1>4, MaxNodesAssumption, ValueExists
<1>6. P(CHOOSE f : P(f))
  BY <1>5
<1> QED
  BY <1>3, <1>4, <1>6 DEF F

(* ... and Deep is where no group stands for a view. *)
LEMMA DeepUnfolds ==
    ASSUME NEW lnk, NEW knd
    PROVE  \E f : /\ Evaluates(Contents(lnk, knd, data, tag), NoViews, f, MaxNodes)
                  /\ \A n : Deep(lnk, knd, n) = f[MaxNodes][n]
<1> DEFINE F == Contents(lnk, knd, data, tag)
           body(f, d, m) ==
             IF knd[m] = "data" THEN Leaf(data[m])
             ELSE IF ~listable(lnk, m) \/ d = 0 THEN Unreadable
             ELSE IF tag[m] = Untagged /\ NoGoal # NoGoal THEN NoGoal
             ELSE IF \E k \in keys(lnk, m) : ItemsIn(lnk, f, d, m)[k] = Unreadable THEN Unreadable
             ELSE [type |-> "object", fmt |-> tag[m], items |-> ItemsIn(lnk, f, d, m)]
           P(f) == f = [d \in 0..MaxNodes |-> [m \in Nodes |-> body(f, d, m)]]
<1>1. F.links = lnk /\ F.kind = knd /\ F.data = data /\ F.tag = tag
  BY DEF Contents
<1>2. \A m \in Nodes : NoViews[m] = NoGoal
  BY DEF NoViews
<1>3. \A n : Deep(lnk, knd, n) = (CHOOSE f : P(f))[MaxNodes][n]
  BY Zenon DEF Deep, ValueOr, ItemsIn
<1> HIDE DEF F
<1>4. ASSUME NEW f PROVE P(f) <=> Evaluates(F, NoViews, f, MaxNodes)
  <2>1. ASSUME NEW d, NEW m \in Nodes PROVE body(f, d, m) = Evaluated(F, NoViews, f, d, m)
    BY <1>1, <1>2, Zenon DEF Evaluated
  <2> HIDE DEF body
  <2>2. [d \in 0..MaxNodes |-> [m \in Nodes |-> body(f, d, m)]] =
        [d \in 0..MaxNodes |-> [m \in Nodes |-> Evaluated(F, NoViews, f, d, m)]]
    BY <2>1
  <2> QED
    BY <2>2, Zenon DEF Evaluates
<1> HIDE DEF P
<1>5. \E f : P(f)
  BY <1>4, MaxNodesAssumption, ValueExists
<1>6. P(CHOOSE f : P(f))
  BY <1>5
<1> QED
  BY <1>3, <1>4, <1>6 DEF F

(* The table of a file without cycles: hard links lead to higher addresses. *)
Rising(lnk) ==
    \A g \in Nodes, k \in Names : lnk[g][k].type = "hard" => g < lnk[g][k].node

(* Names lead to higher addresses, then. *)
LEMMA ResolveRises ==
    ASSUME NEW lnk \in Tables, Rising(lnk), NEW g \in Nodes, NEW k \in Names,
           Resolve(lnk, g, k) # NoNode
    PROVE  Resolve(lnk, g, k) \in Nodes /\ g < Resolve(lnk, g, k)
  BY ResolveLink, TablesHardInNodes DEF Rising, HardInNodes

(* All objects of a file are enclosed. *)
LEMMA NodesEnclosed ==
    ASSUME NEW lnk \in Tables
    PROVE  Enclosed(lnk, Nodes)
  BY ResolveTyped DEF Enclosed, Targets

(* Value and Deep of the objects of a file. *)
LEMMA ValueReads ==
    ASSUME NEW lnk \in Tables, NEW knd, NEW n \in Nodes
    PROVE  /\ Value(lnk, knd, n) = Reads(Contents(lnk, knd, data, tag), ViewsIn(lnk), n)
           /\ Deep(lnk, knd, n) = Reads(Contents(lnk, knd, data, tag), NoViews, n)
<1> DEFINE F == Contents(lnk, knd, data, tag)
<1>1. Enclosed(F.links, Nodes) /\ SameOn(F, F, Nodes)
  BY NodesEnclosed DEF SameOn, Contents
<1>2. /\ \E f : Evaluates(F, ViewsIn(lnk), f, MaxNodes) /\ \A i : Value(lnk, knd, i) = f[MaxNodes][i]
      /\ \E f : Evaluates(F, NoViews, f, MaxNodes) /\ \A i : Deep(lnk, knd, i) = f[MaxNodes][i]
  BY ValueUnfolds, DeepUnfolds
<1> HIDE DEF F
<1>3. MaxNodes \in 0..MaxNodes
  BY MaxNodesAssumption
<1>4. Value(lnk, knd, n) = Reads(F, ViewsIn(lnk), n)
  BY <1>1, <1>2, <1>3, ReadsUnfolds, SameValues
<1>5. Deep(lnk, knd, n) = Reads(F, NoViews, n)
  BY <1>1, <1>2, <1>3, ReadsUnfolds, SameValues
<1> QED
  BY <1>4, <1>5 DEF F

(* Files that agree on an enclosed set read the same there. *)
LEMMA ReadsSame ==
    ASSUME NEW F, NEW H, NEW bare, NEW b2, NEW R, NEW n \in R,
           Enclosed(F.links, R), SameOn(F, H, R), \A m \in R : bare[m] = b2[m]
    PROVE  Reads(F, bare, n) = Reads(H, b2, n)
<1>1. PICK f : Evaluates(F, bare, f, MaxNodes) /\ \A m : Reads(F, bare, m) = f[MaxNodes][m]
  BY ReadsUnfolds
<1>2. PICK h : Evaluates(H, b2, h, MaxNodes) /\ \A m : Reads(H, b2, m) = h[MaxNodes][m]
  BY ReadsUnfolds
<1>3. MaxNodes \in 0..MaxNodes
  BY MaxNodesAssumption
<1> QED
  BY <1>1, <1>2, <1>3, SameValues

(* In a file without cycles, depth is no matter: what an object reads as   *)
(* is known from what the objects its names lead to read as.               *)
ItemsRead(F, bare, n) == [k \in keys(F.links, n) |-> Reads(F, bare, Resolve(F.links, n, k))]

(* What a dataset, and what a group reads as. *)
LEMMA ReadsIs ==
    ASSUME NEW F, NEW bare, F.links \in Tables, Rising(F.links), NEW n \in Nodes
    PROVE  Reads(F, bare, n) =
             IF F.kind[n] = "data" THEN Leaf(F.data[n])
             ELSE IF ~listable(F.links, n) THEN Unreadable
             ELSE IF F.tag[n] = Untagged /\ bare[n] # NoGoal THEN bare[n]
             ELSE IF \E k \in keys(F.links, n) : ItemsRead(F, bare, n)[k] = Unreadable
               THEN Unreadable
             ELSE [type |-> "object", fmt |-> F.tag[n], items |-> ItemsRead(F, bare, n)]
<1>1. PICK f : Evaluates(F, bare, f, MaxNodes) /\ \A m : Reads(F, bare, m) = f[MaxNodes][m]
  BY ReadsUnfolds
<1>2. MaxNodes \in Nat /\ MaxNodes # 0 /\ Nodes \subseteq Nat /\ \A i \in Nodes : i < MaxNodes
  BY MaxNodesAssumption, NodeTypes DEF Nodes
<1>3. ASSUME NEW d \in 0..MaxNodes, NEW i \in Nodes
      PROVE  f[d][i] = Evaluated(F, bare, f, d, i)
  BY <1>1, <1>2, EvaluatesStep
<1> DEFINE Deeper(d) == \A i \in Nodes : MaxNodes <= i + d => f[d][i] = f[d + 1][i]
           S == {d \in Nat : d < MaxNodes => Deeper(d)}
<1>4. 0 \in S
  <2>1. \A i \in Nodes : ~(MaxNodes <= i + 0)
    BY <1>2
  <2> QED
    BY <2>1
<1>5. ASSUME NEW e \in Nat, e < MaxNodes, e + 1 < MaxNodes, Deeper(e) PROVE Deeper(e + 1)
  <2> DEFINE d == e + 1
             b == d + 1
  <2>1. /\ d \in 0..MaxNodes /\ d # 0 /\ d - 1 = e /\ b \in 0..MaxNodes /\ b # 0 /\ b - 1 = d
    BY <1>2, <1>5
  <2>2. ASSUME NEW i \in Nodes, MaxNodes <= i + d PROVE f[d][i] = f[b][i]
    <3> HIDE DEF Deeper, S
    <3>1. CASE listable(F.links, i)
      <4>1. ASSUME NEW k \in keys(F.links, i)
            PROVE  f[e][Resolve(F.links, i, k)] = f[d][Resolve(F.links, i, k)]
        <5> DEFINE r == Resolve(F.links, i, k)
        <5>1. k \in Names /\ r # NoNode
          BY <3>1, <4>1 DEF listable, keys
        <5>2. r \in Nodes /\ i < r
          BY <5>1, ResolveRises
        <5>3. r \in Nat /\ i \in Nat
          BY <1>2, <5>2
        <5> HIDE DEF r
        <5>4. MaxNodes <= r + e
          BY <1>2, <1>5, <2>2, <5>2, <5>3
        <5>5. f[e][r] = f[d][r]
          BY <1>5, <5>2, <5>4 DEF Deeper
        <5> QED
          BY <5>5 DEF r
      <4> HIDE DEF d, b
      <4>2. ItemsIn(F.links, f, d, i) = ItemsIn(F.links, f, b, i)
        BY <2>1, <4>1 DEF ItemsIn
      <4>3. Evaluated(F, bare, f, d, i) = Evaluated(F, bare, f, b, i)
        BY <2>1, <4>2, Zenon DEF Evaluated
      <4> QED
        BY <1>3, <2>1, <4>3
    <3>2. CASE ~listable(F.links, i)
      <4> HIDE DEF d, b
      <4>1. Evaluated(F, bare, f, d, i) = Evaluated(F, bare, f, b, i)
        BY <3>2, Zenon DEF Evaluated
      <4> QED
        BY <1>3, <2>1, <4>1
    <3> QED
      BY <3>1, <3>2
  <2> QED
    BY <2>2
<1>6. ASSUME NEW d \in Nat, d < MaxNodes, d \in S PROVE d + 1 \in S
  <2> HIDE DEF Deeper
  <2> QED
    BY <1>2, <1>5, <1>6
<1> HIDE DEF Deeper
<1>7. 0..MaxNodes \subseteq S
  <2> HIDE DEF S
  <2> QED
    BY <1>2, <1>4, <1>6, UpTo
<1> DEFINE last == MaxNodes - 1
<1>8. last \in Nat /\ last < MaxNodes /\ last + 1 = MaxNodes /\ MaxNodes - 1 = last
  BY <1>2
<1> HIDE DEF last
<1>9. Deeper(last)
  BY <1>7, <1>8
<1> HIDE DEF S
<1>10. ASSUME NEW i \in Nodes, n < i PROVE f[last][i] = f[MaxNodes][i]
  <2>1. i \in Nat /\ n \in Nat
    BY <1>2
  <2>2. MaxNodes <= i + last
    BY <1>2, <1>8, <1>10, <2>1
  <2> QED
    BY <1>8, <1>9, <2>2 DEF Deeper
<1>11. f[MaxNodes][n] = Evaluated(F, bare, f, MaxNodes, n)
  BY <1>2, <1>3
<1>12. CASE listable(F.links, n)
  <2>1. ASSUME NEW k \in keys(F.links, n)
        PROVE  f[MaxNodes - 1][Resolve(F.links, n, k)] = Reads(F, bare, Resolve(F.links, n, k))
    <3>1. k \in Names /\ Resolve(F.links, n, k) # NoNode
      BY <1>12, <2>1 DEF listable, keys
    <3>2. Resolve(F.links, n, k) \in Nodes /\ n < Resolve(F.links, n, k)
      BY <3>1, ResolveRises
    <3> QED
      BY <1>1, <1>8, <1>10, <3>2
  <2>2. ItemsIn(F.links, f, MaxNodes, n) = ItemsRead(F, bare, n)
    BY <2>1 DEF ItemsIn, ItemsRead
  <2> QED
    BY <1>1, <1>2, <1>11, <1>12, <2>2, Zenon DEF Evaluated
<1>13. CASE ~listable(F.links, n)
  BY <1>1, <1>11, <1>13, Zenon DEF Evaluated
<1> QED
  BY <1>12, <1>13, Zenon

(* When the value is an object: the group can be listed and has entries.   *)
LEMMA EvaluatedObject ==
    ASSUME NEW F, NEW lnk, NEW f, NEW d, NEW n \in Nodes,
           Evaluated(F, ViewsIn(lnk), f, d, n).type = "object"
    PROVE  /\ listable(F.links, n) /\ d # 0
           /\ Evaluated(F, ViewsIn(lnk), f, d, n) =
                [type |-> "object", fmt |-> F.tag[n], items |-> ItemsIn(F.links, f, d, n)]
<1> DEFINE y == Evaluated(F, ViewsIn(lnk), f, d, n)
<1>1. y # Leaf(F.data[n]) /\ y # Unreadable /\ y # ViewsIn(lnk)[n]
  BY DEF Leaf, Unreadable, ViewOf, ViewsIn
<1>2. F.kind[n] # "data" /\ listable(F.links, n) /\ d # 0
  BY <1>1, Zenon DEF Evaluated
<1>3. ~(F.tag[n] = Untagged /\ ViewsIn(lnk)[n] # NoGoal)
  BY <1>1, <1>2, Zenon DEF Evaluated
<1>4. ~ \E k \in keys(F.links, n) : ItemsIn(F.links, f, d, n)[k] = Unreadable
  BY <1>1, <1>2, <1>3, Zenon DEF Evaluated
<1>5. y = [type |-> "object", fmt |-> F.tag[n], items |-> ItemsIn(F.links, f, d, n)]
  BY <1>2, <1>3, <1>4, Zenon DEF Evaluated
<1> QED
  BY <1>2, <1>5

(* What is read from a file is well-formed. *)
LEMMA ValueWellFormed ==
    ASSUME NEW lnk \in Tables, NEW knd, NEW n \in Nodes
    PROVE  WellFormed(Value(lnk, knd, n))
<1> DEFINE F == Contents(lnk, knd, data, tag)
<1>f. F.links = lnk /\ F.tag = tag
  BY DEF Contents
<1>1. PICK f : /\ Evaluates(F, ViewsIn(lnk), f, MaxNodes)
               /\ \A i : Value(lnk, knd, i) = f[MaxNodes][i]
  BY ValueUnfolds
<1> HIDE DEF F
<1>2. MaxNodes \in Nat
  BY MaxNodesAssumption
<1> DEFINE S == {f[d][i] : d \in 0..MaxNodes, i \in Nodes}
<1>3. ASSUME NEW y \in S, y.type = "object"
      PROVE  /\ y = [type |-> "object", fmt |-> y.fmt, items |-> y.items]
             /\ y.items = [k \in DOMAIN y.items |-> y.items[k]]
             /\ DOMAIN y.items \subseteq Names
             /\ \A k \in DOMAIN y.items : y.items[k] \in S
  <2>1. PICK d \in 0..MaxNodes, i \in Nodes : y = f[d][i]
    OBVIOUS
  <2>2. y = Evaluated(F, ViewsIn(lnk), f, d, i)
    BY <1>1, <1>2, <2>1, EvaluatesStep
  <2> DEFINE items == ItemsIn(lnk, f, d, i)
  <2>4. /\ listable(lnk, i) /\ d # 0
        /\ y = [type |-> "object", fmt |-> tag[i], items |-> items]
    BY <1>3, <1>f, <2>2, EvaluatedObject
  <2>5. /\ DOMAIN items = keys(lnk, i)
        /\ \A k \in keys(lnk, i) : items[k] = f[d - 1][Resolve(lnk, i, k)]
        /\ items = [k \in DOMAIN items |-> items[k]]
    BY DEF ItemsIn
  <2>6. ASSUME NEW k \in keys(lnk, i) PROVE items[k] \in S
    <3>1. k \in Names /\ Resolve(lnk, i, k) # NoNode
      BY <2>4, <2>6 DEF listable, keys
    <3>2. Resolve(lnk, i, k) \in Nodes
      BY <3>1, ResolveTyped DEF Targets
    <3>3. d - 1 \in 0..MaxNodes
      BY <1>2, <2>4
    <3> HIDE DEF items
    <3> QED
      BY <2>5, <3>2, <3>3
  <2>7. keys(lnk, i) \subseteq Names
    BY DEF keys
  <2> HIDE DEF items, S
  <2>8. y.type = "object" /\ y.fmt = tag[i] /\ y.items = items
    BY <2>4
  <2> QED
    BY <2>4, <2>5, <2>6, <2>7, <2>8
<1>4. MaxNodes \in 0..MaxNodes
  BY <1>2
<1>5. Value(lnk, knd, n) \in S
  BY <1>1, <1>4
<1> HIDE DEF S
<1>6. Hereditary(S)
  BY <1>3, Zenon DEF Hereditary
<1> QED
  BY <1>5, <1>6, Zenon DEF WellFormed

(* So are the entries of a view. *)
LEMMA ItemsWellFormed ==
    ASSUME NEW lnk \in Tables, NEW knd, NEW w,
           NEW k \in DOMAIN Items(lnk, knd, w)
    PROVE  WellFormed(Items(lnk, knd, w)[k])
<1>1. k \in Names /\ Items(lnk, knd, w)[k] = Read(lnk, knd, w, k)
  BY DEF Items
<1>2. CASE Read(lnk, knd, w, k) = Unreadable
  BY <1>1, <1>2, OtherWellFormed DEF Unreadable
<1>3. CASE Read(lnk, knd, w, k) # Unreadable
  <2>1. /\ Resolve(lnk, w.grp, k) \in Nodes
        /\ Read(lnk, knd, w, k) = Value(lnk, knd, Resolve(lnk, w.grp, k))
    BY <1>3 DEF Read, has_subgroup, has_dataset
  <2> QED
    BY <1>1, <2>1, ValueWellFormed
<1> QED
  BY <1>2, <1>3
-----------------------------------------------------------------------------
(* The inductive invariant.                                                *)

(* Groups with a Format, and groups that are being filled. *)
Tagged(tg) == {c \in Nodes : tg[c] # Untagged}
Groups(s) == {s[i].sub.grp : i \in 1..Len(s)}

(* Entry k of group n is x: a dataset that holds it, or a group in ok that *)
(* was made for it.                                                        *)
Made(t, knd, dat, gl, ok, n, k, x) ==
    \E c \in Nodes :
        /\ t[n][k] = Hard(c)
        /\ n < c
        /\ \/ x \in Plain /\ knd[c] = "data" /\ x = Leaf(dat[c])
           \/ x.type = "object" /\ gl[c] = x /\ c \in ok

(* Group n has the entries of its object but for those in rest. *)
Holds(t, knd, dat, gl, ok, n, rest) ==
    \A k \in Names :
        IF k \in DOMAIN gl[n].items \ rest
          THEN Made(t, knd, dat, gl, ok, n, k, gl[n].items[k])
          ELSE t[n][k].type = "none"

(* Frame f fills a group without a Format, and if that is made for an      *)
(* object, with what is left of it.                                        *)
Filling(t, knd, dat, gl, tg, ok, f) ==
    /\ tg[f.sub.grp] = Untagged
    /\ \A k \in DOMAIN f.todo : WellFormed(f.todo[k])
    /\ gl[f.sub.grp] # NoGoal =>
         /\ f.fmt = gl[f.sub.grp].fmt
         /\ \A k \in DOMAIN f.todo :
              k \in DOMAIN gl[f.sub.grp].items /\ f.todo[k] = gl[f.sub.grp].items[k]
         /\ Holds(t, knd, dat, gl, ok, f.sub.grp, DOMAIN f.todo)

(* Addresses are given out in order. *)
Dense == \A i, j \in Nodes : kind[i] = "none" /\ i < j => kind[j] = "none"

Fresh ==
    \A n \in Nodes : kind[n] = "none" =>
        tag[n] = Untagged /\ \A k \in Names : links[n][k].type = "none"

Goals ==
    /\ DOMAIN goal = Nodes
    /\ \A n \in Nodes : goal[n] # NoGoal =>
         /\ kind[n] = "group"
         /\ WellFormed(goal[n]) /\ goal[n].type = "object" /\ goal[n].fmt # Untagged
         /\ tag[n] = Untagged => n \in Groups(stack)

(* A group with a Format has all the entries of its object. *)
Whole ==
    \A n \in Nodes : goal[n] # NoGoal /\ tag[n] # Untagged =>
        /\ tag[n] = goal[n].fmt
        /\ Holds(links, kind, data, goal, Tagged(tag), n, {})

Fillings ==
    \A i \in 1..Len(stack) :
        Filling(links, kind, data, goal, tag, Tagged(tag) \cup Groups(stack), stack[i])

(* Inner groups lie at higher addresses. *)
Inwards == \A i, j \in 1..Len(stack) : i < j => stack[j].sub.grp < stack[i].sub.grp

CInv == Dense /\ Fresh /\ Goals /\ Whole /\ Fillings /\ Inwards
-----------------------------------------------------------------------------
(* What a step leaves of the groups it does not fill.                      *)

(* The goals gl2 are those of gl where there still are any, and then those *)
(* of the entries in ok are too; but for those of a new group n.           *)
Carried(t, gl, gl2, ok, n) ==
    \A i \in Nodes : i # n /\ gl2[i] # NoGoal =>
        /\ gl2[i] = gl[i]
        /\ \A k \in Names, c \in ok : t[i][k] = Hard(c) /\ gl[c].type = "object" => gl2[c] = gl[c]

(* Table t2 is t but for the links of g. *)
OthersStay(t, t2, g) == \A h \in Nodes, k \in Names : h # g => t2[h][k] = t[h][k]

(* An entry stays made. *)
LEMMA MadeStays ==
    ASSUME NEW t, NEW knd, NEW dat, NEW gl, NEW ok,
           NEW t2, NEW knd2, NEW dat2, NEW gl2, NEW ok2,
           NEW n \in Nodes, NEW k \in Names, NEW x,
           Made(t, knd, dat, gl, ok, n, k, x),
           t2[n][k] = t[n][k], Grows(knd, dat, knd2, dat2), ok \subseteq ok2,
           \A c \in ok : t[n][k] = Hard(c) /\ gl[c].type = "object" => gl2[c] = gl[c]
    PROVE  Made(t2, knd2, dat2, gl2, ok2, n, k, x)
<1>1. PICK c \in Nodes :
        /\ t[n][k] = Hard(c)
        /\ n < c
        /\ \/ x \in Plain /\ knd[c] = "data" /\ x = Leaf(dat[c])
           \/ x.type = "object" /\ gl[c] = x /\ c \in ok
  BY DEF Made
<1>2. \/ x \in Plain /\ knd2[c] = "data" /\ x = Leaf(dat2[c])
      \/ x.type = "object" /\ gl2[c] = x /\ c \in ok2
  <2>1. CASE x \in Plain /\ knd[c] = "data" /\ x = Leaf(dat[c])
    BY <2>1 DEF Grows
  <2>2. CASE x.type = "object" /\ gl[c] = x /\ c \in ok
    BY <1>1, <2>2
  <2> QED
    BY <1>1, <2>1, <2>2
<1>3. t2[n][k] = Hard(c)
  BY <1>1
<1> QED
  BY <1>1, <1>2, <1>3, Zenon DEF Made

(* A group other than g, the one that is changed, keeps its entries. *)
LEMMA HoldsStays ==
    ASSUME NEW t, NEW knd, NEW dat, NEW gl, NEW ok,
           NEW t2, NEW knd2, NEW dat2, NEW gl2, NEW ok2, NEW g, NEW new,
           OthersStay(t, t2, g), Grows(knd, dat, knd2, dat2), ok \subseteq ok2,
           Carried(t, gl, gl2, ok, new),
           NEW n \in Nodes, n # g, n # new, gl2[n] # NoGoal,
           NEW rest, Holds(t, knd, dat, gl, ok, n, rest)
    PROVE  gl2[n] = gl[n] /\ Holds(t2, knd2, dat2, gl2, ok2, n, rest)
<1>1. gl2[n] = gl[n]
  BY DEF Carried
<1>2. ASSUME NEW k \in Names, k \in DOMAIN gl[n].items \ rest
      PROVE  Made(t2, knd2, dat2, gl2, ok2, n, k, gl[n].items[k])
  <2>1. Made(t, knd, dat, gl, ok, n, k, gl[n].items[k])
    BY <1>2 DEF Holds
  <2>2. t2[n][k] = t[n][k]
    BY DEF OthersStay
  <2>3. \A c \in ok : t[n][k] = Hard(c) /\ gl[c].type = "object" => gl2[c] = gl[c]
    BY DEF Carried
  <2> QED
    BY <2>1, <2>2, <2>3, MadeStays
<1>3. ASSUME NEW k \in Names, ~(k \in DOMAIN gl[n].items \ rest)
      PROVE  t2[n][k].type = "none"
  BY <1>3, Zenon DEF Holds, OthersStay
<1>4. Holds(t2, knd2, dat2, gl2, ok2, n, rest)
  BY <1>1, <1>2, <1>3, Zenon DEF Holds
<1> QED
  BY <1>1, <1>4

(* A complete group other than g stays complete. *)
LEMMA WholeStays ==
    ASSUME Whole, NEW t2, NEW knd2, NEW dat2, NEW gl2, NEW g, NEW new,
           OthersStay(links, t2, g), Grows(kind, data, knd2, dat2),
           Carried(links, goal, gl2, Tagged(tag), new),
           NEW n \in Nodes, n # g, n # new, gl2[n] # NoGoal, tag[n] # Untagged
    PROVE  tag[n] = gl2[n].fmt /\ Holds(t2, knd2, dat2, gl2, Tagged(tag), n, {})
<1>1. gl2[n] = goal[n]
  BY DEF Carried
<1>2. tag[n] = goal[n].fmt /\ Holds(links, kind, data, goal, Tagged(tag), n, {})
  BY <1>1 DEF Whole
<1>3. Holds(t2, knd2, dat2, gl2, Tagged(tag), n, {})
  BY <1>2, HoldsStays
<1> QED
  BY <1>1, <1>2, <1>3

(* A frame of another group than g goes on. *)
LEMMA FillingStays ==
    ASSUME NEW t, NEW knd, NEW dat, NEW gl, NEW ok, NEW tg,
           NEW t2, NEW knd2, NEW dat2, NEW gl2, NEW ok2, NEW g, NEW new,
           OthersStay(t, t2, g), Grows(knd, dat, knd2, dat2), ok \subseteq ok2,
           Carried(t, gl, gl2, ok, new),
           NEW f, NEW n \in Nodes, f.sub.grp = n, n # g, n # new,
           Filling(t, knd, dat, gl, tg, ok, f)
    PROVE  Filling(t2, knd2, dat2, gl2, tg, ok2, f)
<1>1. ASSUME gl2[n] # NoGoal
      PROVE  gl2[n] = gl[n] /\ Holds(t2, knd2, dat2, gl2, ok2, n, DOMAIN f.todo)
  <2>1. gl2[n] = gl[n]
    BY <1>1 DEF Carried
  <2>2. Holds(t, knd, dat, gl, ok, n, DOMAIN f.todo)
    BY <1>1, <2>1 DEF Filling
  <2> QED
    BY <1>1, <2>2, HoldsStays
<1> QED
  BY <1>1, Zenon DEF Filling

-----------------------------------------------------------------------------
(* Goals.                                                                  *)

(* What a hard link leads to is below whoever the link is below.           *)
LEMMA BelowChild ==
    ASSUME NEW t \in Tables, NEW n \in Nodes, NEW k \in Names, NEW c \in Nodes, t[n][k] = Hard(c)
    PROVE  Below(t, c) \subseteq Below(t, n)
<1>1. HardInNodes(t)
  BY TablesHardInNodes
<1>2. n \in Below(t, n)
  BY BelowItself
<1>3. t[n][k].type = "hard" /\ t[n][k].node = c
  BY SomeLinks
<1>4. c \in Below(t, n)
  BY <1>1, <1>2, <1>3, BelowClosed
<1>5. \A m \in Below(t, n), j \in Names : t[m][j].type = "hard" => t[m][j].node \in Below(t, n)
  BY <1>1, BelowClosed
<1> QED
  BY <1>4, <1>5, BelowWithin

(* A call that changes g leaves the goals of groups that do not hold g, at *)
(* any depth, and so those of their entries.                               *)
LEMMA SpoiltCarried ==
    ASSUME links \in Tables, NEW g \in Nodes
    PROVE  /\ DOMAIN Spoilt(g) = Nodes
           /\ Spoilt(g)[g] = NoGoal
           /\ \A i \in Nodes : goal[i] = NoGoal => Spoilt(g)[i] = NoGoal
           /\ Carried(links, goal, Spoilt(g), Nodes, NoNode)
<1>1. DOMAIN Spoilt(g) = Nodes
  BY DEF Spoilt
<1>2. \A i \in Nodes : Spoilt(g)[i] = IF g \in Below(links, i) THEN NoGoal ELSE goal[i]
  BY DEF Spoilt
<1>3. g \in Below(links, g)
  BY BelowItself
<1>4. ASSUME NEW i \in Nodes, Spoilt(g)[i] # NoGoal, NEW k \in Names, NEW c \in Nodes,
             links[i][k] = Hard(c)
      PROVE  Spoilt(g)[c] = goal[c]
  <2>1. g \notin Below(links, i)
    BY <1>2, <1>4
  <2>2. g \notin Below(links, c)
    BY <1>4, <2>1, BelowChild
  <2> QED
    BY <1>2, <2>2
<1>5. Carried(links, goal, Spoilt(g), Nodes, NoNode)
  <2> HIDE DEF Carried
  <2>1. \A i \in Nodes : Spoilt(g)[i] # NoGoal => Spoilt(g)[i] = goal[i]
    BY <1>2
  <2> QED
    BY <1>4, <2>1, Zenon DEF Carried
<1> QED
  BY <1>1, <1>2, <1>3, <1>5

(* Nothing changes. *)
LEMMA SameCarried ==
    ASSUME NEW t, NEW gl, NEW ok, NEW n
    PROVE  Carried(t, gl, gl, ok, n)
  BY DEF Carried

(* The same for fewer entries. *)
LEMMA FewerCarried ==
    ASSUME NEW t, NEW gl, NEW gl2, NEW ok, NEW ok2, ok2 \subseteq ok, NEW n,
           Carried(t, gl, gl2, ok, n)
    PROVE  Carried(t, gl, gl2, ok2, n)
  BY DEF Carried

(* A goal for a group that had none. *)
LEMMA NewCarried ==
    ASSUME NEW t, NEW gl, NEW gl2, NEW ok \in SUBSET Nodes, Carried(t, gl, gl2, ok, NoNode),
           DOMAIN gl2 = Nodes, NEW n \in Nodes, gl[n] = NoGoal, NEW x,
           NEW gl3, gl3 = [gl2 EXCEPT ![n] = x]
    PROVE  /\ Carried(t, gl, gl3, ok, n)
           /\ gl3[n] = x
           /\ \A i \in Nodes : i # n => gl3[i] = gl2[i]
           /\ DOMAIN gl3 = Nodes
<1>1. gl3[n] = x /\ (\A i \in Nodes : i # n => gl3[i] = gl2[i]) /\ DOMAIN gl3 = Nodes
  OBVIOUS
<1>2. ASSUME NEW i \in Nodes, i # n, gl3[i] # NoGoal
      PROVE  /\ gl3[i] = gl[i]
             /\ \A k \in Names, c \in ok : t[i][k] = Hard(c) /\ gl[c].type = "object" => gl3[c] = gl[c]
  <2>1. i # NoNode /\ gl2[i] # NoGoal /\ gl3[i] = gl2[i]
    BY <1>1, <1>2, NodeTypes
  <2>2. /\ gl2[i] = gl[i]
        /\ \A k \in Names, c \in ok : t[i][k] = Hard(c) /\ gl[c].type = "object" => gl2[c] = gl[c]
    BY <2>1, Zenon DEF Carried
  <2>3. ASSUME NEW c, gl[c].type = "object" PROVE c # n
    BY <2>3 DEF NoGoal
  <2>4. ASSUME NEW k \in Names, NEW c \in ok, t[i][k] = Hard(c), gl[c].type = "object"
        PROVE  gl3[c] = gl[c]
    <3>1. c # n /\ gl2[c] = gl[c]
      BY <2>2, <2>3, <2>4
    <3> QED
      BY <1>1, <3>1
  <2> QED
    BY <2>1, <2>2, <2>4
<1>3. Carried(t, gl, gl3, ok, n)
  BY <1>2, Zenon DEF Carried
<1> QED
  BY <1>1, <1>3
-----------------------------------------------------------------------------
(* The client's calls that store one thing, or none.                       *)

(* A new object at the next address. *)
LEMMA NewDense ==
    ASSUME IInv, Dense, NEW n \in Unused, IsNext(n), NEW what \in {"group", "data"}, NewObject(n, what)
    PROVE  /\ Dense'
           /\ kind'[n] = what
           /\ \A m \in Nodes : m # n => kind'[m] = kind[m]
           /\ \A m \in Nodes : kind[m] # "none" => kind'[m] = kind[m] /\ m < n
<1>1. n \in Nodes /\ kind[n] = "none" /\ Nodes \subseteq Nat
  BY NodeTypes DEF Unused
<1>2. kind'[n] = what /\ \A m \in Nodes : m # n => kind'[m] = kind[m]
  BY <1>1 DEF NewObject, IInv, TypeOK
<1>3. ASSUME NEW i \in Nodes, NEW j \in Nodes, kind'[i] = "none", i < j PROVE kind'[j] = "none"
  <2>1. i # n /\ kind[i] = "none"
    BY <1>2, <1>3
  <2>2. kind[j] = "none"
    BY <1>3, <2>1 DEF Dense
  <2>3. n <= i
    BY <2>1 DEF IsNext, Unused
  <2>4. j # n
    BY <1>1, <1>3, <2>3
  <2> QED
    BY <1>2, <2>2, <2>4
<1>4. ASSUME NEW m \in Nodes, kind[m] # "none" PROVE m < n
  <2>1. ~(n < m) /\ n # m
    BY <1>1, <1>4 DEF Dense
  <2>2. n \in Nat /\ m \in Nat
    BY <1>1
  <2> QED
    BY <2>1, <2>2
<1> QED
  BY <1>1, <1>2, <1>3, <1>4 DEF Dense

(* No recursion is under way. *)
LEMMA EmptyFillings ==
    ASSUME stack' = <<>>
    PROVE  Fillings' /\ Inwards'
  BY EmptyStack DEF Fillings, Inwards

(* The rows of unused addresses stay as they are. *)
LEMMA FreshStays ==
    ASSUME Fresh, \A m \in Nodes : kind[m] # "none" => kind'[m] # "none",
           NEW g \in Nodes, kind[g] # "none", OthersStay(links, links', g),
           \A m \in Nodes : kind'[m] = "none" => tag'[m] = tag[m]
    PROVE  Fresh'
<1> SUFFICES ASSUME NEW n \in Nodes, kind'[n] = "none"
             PROVE  tag'[n] = Untagged /\ \A k \in Names : links'[n][k].type = "none"
  BY DEF Fresh
<1>1. kind[n] = "none" /\ n # g
  OBVIOUS
<1>2. tag[n] = Untagged /\ \A k \in Names : links[n][k].type = "none"
  BY <1>1 DEF Fresh
<1> QED
  BY <1>1, <1>2 DEF OthersStay

(* Without a recursion, goals are of groups with a Format. *)
LEMMA IdleGoals ==
    ASSUME Goals, stack = <<>>
    PROVE  \A n \in Nodes : goal[n] # NoGoal => tag[n] # Untagged
<1>1. Groups(stack) = {}
  BY EmptyStack DEF Groups
<1> QED
  BY <1>1 DEF Goals

(* A call that changes one key of a group leaves complete what is still somebody's object. *)
LEMMA ClientCommit ==
    ASSUME IInv, CInv, NEW v \in Views, Ready(v), NEW k \in Names, NEW w2,
           Effect(links, view[v], links', w2, k), Touch(v),
           UNCHANGED <<tag, call, stack, protect>>,
           Grows(kind, data, kind', data'),
           \A m \in Nodes : kind[m] # "none" => kind'[m] = kind[m],
           Dense'
    PROVE  CInv'
<1> DEFINE g == view[v].grp
<1>1. /\ g \in Nodes /\ kind[g] = "group" /\ links \in Tables
      /\ stack = <<>> /\ stack' = <<>> /\ tag' = tag
      /\ goal' = Spoilt(g)
  BY ReadyView, IdleStack DEF Ready, Touch, ViewType
<1>2. OthersStay(links, links', g)
  BY DEF Effect, OthersStay
<1> HIDE DEF g
<1>3. /\ DOMAIN Spoilt(g) = Nodes
      /\ Spoilt(g)[g] = NoGoal
      /\ \A i \in Nodes : goal[i] = NoGoal => Spoilt(g)[i] = NoGoal
      /\ Carried(links, goal, Spoilt(g), Nodes, NoNode)
  BY <1>1, SpoiltCarried
<1>4. Fresh'
  BY <1>1, <1>2, FreshStays DEF CInv
<1>5. ASSUME NEW n \in Nodes, goal'[n] # NoGoal
      PROVE  goal'[n] = goal[n] /\ goal[n] # NoGoal /\ n # g /\ n # NoNode /\ tag[n] # Untagged
  <2>1. goal'[n] = goal[n] /\ n # g /\ n # NoNode
    BY <1>1, <1>3, <1>5, NodeTypes DEF Carried
  <2> QED
    BY <1>1, <1>5, <2>1, IdleGoals DEF CInv
<1>6. Goals'
  <2>1. ASSUME NEW n \in Nodes, goal'[n] # NoGoal
        PROVE  /\ kind'[n] = "group"
               /\ WellFormed(goal'[n]) /\ goal'[n].type = "object" /\ goal'[n].fmt # Untagged
               /\ tag'[n] # Untagged
    <3>1. goal'[n] = goal[n] /\ goal[n] # NoGoal /\ tag[n] # Untagged
      BY <1>5, <2>1
    <3>2. kind[n] = "group" /\ WellFormed(goal[n]) /\ goal[n].type = "object" /\ goal[n].fmt # Untagged
      BY <3>1 DEF CInv, Goals
    <3> QED
      BY <1>1, <3>1, <3>2
  <2> QED
    BY <1>1, <1>3, <2>1 DEF Goals
<1>7. Whole'
  <2>1. Carried(links, goal, goal', Tagged(tag), NoNode)
    BY <1>1, <1>3, FewerCarried DEF Tagged
  <2>2. ASSUME NEW n \in Nodes, goal'[n] # NoGoal
        PROVE  tag[n] = goal'[n].fmt /\ Holds(links', kind', data', goal', Tagged(tag), n, {})
    BY <1>2, <1>5, <2>1, <2>2, WholeStays DEF CInv
  <2> QED
    BY <1>1, <2>2 DEF Whole
<1> QED
  BY <1>1, <1>4, <1>6, <1>7, EmptyFillings DEF CInv

(* v[key] = an array or a scalar ... *)
LEMMA SetLeafCommit ==
    ASSUME IInv, CInv, NEW v \in Views, NEW k \in Names, NEW x \in Leaves \cup {Fill}, SetLeaf(v, k, x)
    PROVE  CInv'
<1>1. PICK n \in Unused :
        /\ Ready(v) /\ IsNext(n)
        /\ LET c == Clean(links, view[v], k)
           IN  /\ links' = LinkData(c.links, c.view, k, n)
               /\ view' = [view EXCEPT ![v] = Listed(c.view, k)]
        /\ NewObject(n, "data")
        /\ data' = [data EXCEPT ![n] = x]
        /\ Touch(v)
        /\ UNCHANGED <<tag, call, stack, protect>>
  BY DEF SetLeaf
<1> DEFINE c == Clean(links, view[v], k)
           w2 == Listed(c.view, k)
<1>2. n \in Nodes /\ Grows(kind, data, kind', data')
  BY <1>1, NewObjectGrows DEF IInv
<1>3. Effect(links, view[v], links', w2, k)
  BY <1>1, <1>2, ReadyView, LeafEffect DEF Ready
<1> HIDE DEF w2
<1>4. Dense' /\ \A m \in Nodes : kind[m] # "none" => kind'[m] = kind[m]
  BY <1>1, NewDense DEF CInv
<1> QED
  BY <1>1, <1>2, <1>3, <1>4, ClientCommit

(* ... whose write fails ... *)
LEMMA SetTornCommit ==
    ASSUME IInv, CInv, NEW v \in Views, NEW k \in Names, SetTorn(v, k)
    PROVE  CInv'
<1>1. PICK n \in Unused :
        /\ Ready(v) /\ IsNext(n)
        /\ LET c == Clean(links, view[v], k)
           IN  /\ links' = LinkData(c.links, c.view, k, n)
               /\ view' = [view EXCEPT ![v] = c.view]
        /\ NewObject(n, "data")
        /\ Touch(v)
        /\ UNCHANGED <<data, tag, call, stack, protect>>
  BY DEF SetTorn
<1> DEFINE w2 == Clean(links, view[v], k).view
<1>2. n \in Nodes /\ Grows(kind, data, kind', data')
  BY <1>1, NewObjectGrows DEF IInv
<1>3. Effect(links, view[v], links', w2, k)
  BY <1>1, <1>2, ReadyView, LeafEffect DEF Ready
<1> HIDE DEF w2
<1>4. Dense' /\ \A m \in Nodes : kind[m] # "none" => kind'[m] = kind[m]
  BY <1>1, NewDense DEF CInv
<1> QED
  BY <1>1, <1>2, <1>3, <1>4, ClientCommit

(* No object is made. *)
LEMMA SameDense ==
    ASSUME CInv, UNCHANGED <<kind, data>>
    PROVE  /\ Dense' /\ Grows(kind, data, kind', data')
           /\ \A m \in Nodes : kind[m] # "none" => kind'[m] = kind[m]
  BY DEF CInv, Dense, Grows

(* A call that only forgets a key: a rejected value, or del. *)
LEMMA CleanCommit ==
    ASSUME IInv, CInv, NEW v \in Views, NEW k \in Names, Ready(v), Touch(v),
           links' = Clean(links, view[v], k).links,
           UNCHANGED <<kind, data, tag, call, stack, protect>>
    PROVE  CInv'
<1> DEFINE w2 == Clean(links, view[v], k).view
<1>1. Effect(links, view[v], links', w2, k)
  BY ReadyView, CleanEffect DEF Ready
<1> HIDE DEF w2
<1> QED
  BY <1>1, SameDense, ClientCommit

(* A value that cannot be stored. *)
LEMMA SetRejectedCommit ==
    ASSUME IInv, CInv, NEW v \in Views, NEW k \in Names, SetRejected(v, k) PROVE CInv'
<1> DEFINE c == Clean(links, view[v], k)
<1>1. /\ Ready(v) /\ Touch(v)
      /\ links' = c.links \/ links' = unlink(c.links, view[v].grp, k, FALSE).links
      /\ UNCHANGED <<kind, data, tag, call, stack, protect>>
  BY DEF SetRejected
<1>2. CASE links' = c.links
  BY <1>1, <1>2, CleanCommit
<1>3. CASE links' = unlink(c.links, view[v].grp, k, FALSE).links
  <2>1. Effect(links, view[v], links', c.view, k)
    BY <1>1, <1>3, ReadyView, GoneEffect DEF Ready
  <2> HIDE DEF c
  <2> QED
    BY <1>1, <2>1, SameDense, ClientCommit
<1> QED
  BY <1>1, <1>2, <1>3

(* create_group or create_softlink that raises. *)
LEMMA CreateFailsCommit ==
    ASSUME IInv, CInv, NEW v \in Views, NEW k \in Names, CreateFails(v, k) PROVE CInv'
<1>1. /\ Ready(v) /\ Touch(v)
      /\ links' = unlink(links, view[v].grp, k, FALSE).links
      /\ UNCHANGED <<kind, data, tag, call, stack, protect>>
  BY DEF CreateFails
<1>2. Effect(links, view[v], links', view[v], k)
  BY <1>1, ReadyView, UnlinkEffect DEF Ready
<1> QED
  BY <1>1, <1>2, SameDense, ClientCommit

(* del v[key] *)
LEMMA DelItemCommit ==
    ASSUME IInv, CInv, NEW v \in Views, NEW k \in Names, DelItem(v, k) PROVE CInv'
  BY CleanCommit DEF DelItem

(* v.create_group(key) *)
LEMMA CreateGroupCommit ==
    ASSUME IInv, CInv, NEW v \in Views, NEW k \in Names, CreateGroup(v, k)
    PROVE  CInv'
<1>1. PICK n \in Unused :
        /\ Ready(v) /\ IsNext(n)
        /\ LET m == MakeGroup(links, view[v], k, n)
           IN  /\ links' = m.links
               /\ view' = [view EXCEPT ![v] = m.view]
        /\ NewObject(n, "group")
        /\ Touch(v)
        /\ UNCHANGED <<data, tag, call, stack, protect>>
  BY DEF CreateGroup
<1> DEFINE w2 == MakeGroup(links, view[v], k, n).view
<1>2. n \in Nodes /\ Grows(kind, data, kind', data')
  BY <1>1, NewObjectGrows DEF IInv
<1>3. Effect(links, view[v], links', w2, k)
  BY <1>1, <1>2, ReadyView, MakeEffect DEF Ready
<1> HIDE DEF w2
<1>4. Dense' /\ \A m \in Nodes : kind[m] # "none" => kind'[m] = kind[m]
  BY <1>1, NewDense DEF CInv
<1> QED
  BY <1>1, <1>2, <1>3, <1>4, ClientCommit

(* v.create_softlink(target_key, key) *)
LEMMA CreateSoftlinkCommit ==
    ASSUME IInv, CInv, NEW v \in Views, NEW j \in Names, NEW k \in Names, CreateSoftlink(v, j, k)
    PROVE  CInv'
<1>1. /\ Ready(v) /\ Touch(v)
      /\ create_softlink(links, view[v].grp, j, k, TRUE, TRUE).ok
      /\ links' = create_softlink(links, view[v].grp, j, k, TRUE, TRUE).links
      /\ UNCHANGED <<kind, data, tag, call, stack, protect>>
  BY DEF CreateSoftlink
<1>2. view[v] \in ViewType /\ links \in Tables /\ view[v].grp \in Nodes
  BY <1>1, ReadyView DEF Ready, ViewType
<1>3. Sets(links, links', view[v].grp, k, Soft(j))
  BY <1>1, <1>2, SoftlinkSets
<1>4. Effect(links, view[v], links', view[v], k)
  BY <1>2, <1>3 DEF Effect, Sets
<1> QED
  BY <1>1, <1>4, SameDense, ClientCommit

(* A call that only makes or drops a view. *)
LEMMA FileSame ==
    ASSUME CInv, UNCHANGED <<links, kind, data, tag, stack, goal>>
    PROVE  CInv'
  BY DEF CInv, Dense, Fresh, Goals, Whole, Fillings, Inwards
-----------------------------------------------------------------------------
(* The client's calls that begin a recursion.                              *)

(* The frame of a new, empty group. *)
LEMMA NewFilling ==
    ASSUME NEW m, NEW k \in Names, NEW n \in Nodes, NEW x,
           m.links \in Tables, m.links[m.view.grp][k] = Hard(n), WellFormed(x),
           \A j \in Names : m.links[n][j].type = "none",
           NEW knd, NEW dat, NEW gl, NEW tg, NEW ok, tg[n] = Untagged, gl[n] = GoalOf(x)
    PROVE  LET f == FrameFor(m, k, n, x)
           IN  f.sub.grp = n /\ Filling(m.links, knd, dat, gl, tg, ok, f)
<1> DEFINE f == FrameFor(m, k, n, x)
<1>1. f.sub.grp = n
  <2>1. f.sub = OpenAt(m.links, n)
    BY FrameSub
  <2> HIDE DEF f
  <2> QED
    BY <2>1 DEF OpenAt
<1>2. CASE x.type = "object"
  <2>1. f.todo = x.items /\ f.fmt = x.fmt
    BY <1>2 DEF FrameFor, Frame
  <2>2. DOMAIN x.items \subseteq Names /\ \A j \in DOMAIN x.items : WellFormed(x.items[j])
    BY <1>2, WellFormedParts
  <2>3. gl[n] # NoGoal => gl[n] = x
    BY DEF GoalOf
  <2> HIDE DEF f
  <2>4. ASSUME gl[n] # NoGoal PROVE Holds(m.links, knd, dat, gl, ok, n, DOMAIN f.todo)
    <3>1. DOMAIN gl[n].items \ DOMAIN f.todo = {}
      BY <2>1, <2>3, <2>4
    <3> QED
      BY <3>1 DEF Holds
  <2>5. Filling(m.links, knd, dat, gl, tg, ok, f)
    BY <1>1, <2>1, <2>2, <2>3, <2>4 DEF Filling
  <2> QED
    BY <1>1, <2>5 DEF f
<1>3. CASE x.type # "object"
  <2> DEFINE knd2 == [kind EXCEPT ![n] = "group"]
  <2>1. f.todo = Items(m.links, knd2, x)
    BY <1>3 DEF FrameFor, Frame
  <2>2. \A j \in DOMAIN f.todo : WellFormed(f.todo[j])
    <3> HIDE DEF knd2, f
    <3> QED
      BY <2>1, ItemsWellFormed
  <2>3. gl[n] = NoGoal
    BY <1>3 DEF GoalOf
  <2> HIDE DEF f
  <2>4. Filling(m.links, knd, dat, gl, tg, ok, f)
    BY <1>1, <2>2, <2>3 DEF Filling
  <2> QED
    BY <1>1, <2>4 DEF f
<1> QED
  BY <1>2, <1>3

(* What GoalOf leaves of a well-formed value. *)
LEMMA GoalOfTypes ==
    ASSUME NEW x, WellFormed(x), GoalOf(x) # NoGoal
    PROVE  GoalOf(x) = x /\ x.type = "object" /\ x.fmt # Untagged
  BY DEF GoalOf

(* v[key] = an object or a view: its group has a goal, and no entries yet. *)
LEMMA SetGroupCommit ==
    ASSUME IInv, CInv, NEW v \in Views, NEW k \in Names, NEW x, WellFormed(x), SetGroup(v, k, x)
    PROVE  CInv'
<1>1. PICK n \in Unused :
        /\ Ready(v) /\ IsNext(n)
        /\ LET c == Clean(links, view[v], k)
               m == MakeGroup(c.links, c.view, k, n)
           IN  /\ links' = m.links
               /\ view' = [view EXCEPT ![v] = m.view]
               /\ stack' = <<FrameFor(m, k, n, x)>>
        /\ NewObject(n, "group")
        /\ goal' = [Spoilt(view[v].grp) EXCEPT ![n] = GoalOf(x)]
        /\ UNCHANGED <<data, tag, protect>>
  BY DEF SetGroup
<1> DEFINE c == Clean(links, view[v], k)
           m == MakeGroup(c.links, c.view, k, n)
           f == FrameFor(m, k, n, x)
           g == view[v].grp
<1>2. n \in Nodes /\ kind[n] = "none" /\ Grows(kind, data, kind', data')
  BY <1>1, NewObjectGrows DEF IInv
<1>3. /\ g \in Nodes /\ kind[g] = "group" /\ links \in Tables /\ view[v] \in ViewType
      /\ stack = <<>> /\ tag' = tag
      /\ goal' = [Spoilt(g) EXCEPT ![n] = GoalOf(x)]
  BY <1>1, ReadyView, IdleStack DEF Ready, ViewType
<1>4. m.links[g][k] = Hard(n) /\ Effect(links, view[v], m.links, m.view, k)
  BY <1>1, <1>2, <1>3, GroupEffect
<1>5. links' = m.links /\ stack' = <<f>>
  BY <1>1
<1>6. m.view.grp = g /\ links' \in Tables /\ OthersStay(links, links', g)
  BY <1>4, <1>5 DEF Effect, OthersStay
<1> HIDE DEF c, m, g
<1>7. /\ Dense' /\ kind'[n] = "group"
      /\ \A i \in Nodes : kind[i] # "none" => kind'[i] = kind[i]
  BY <1>1, NewDense DEF CInv
<1>8. Fresh'
  BY <1>3, <1>6, <1>7, FreshStays DEF CInv
<1>9. tag[n] = Untagged /\ (\A j \in Names : links'[n][j].type = "none") /\ goal[n] = NoGoal
  <2>1. tag[n] = Untagged /\ (\A j \in Names : links[n][j].type = "none") /\ goal[n] = NoGoal
    BY <1>2 DEF CInv, Fresh, Goals
  <2> QED
    BY <1>2, <1>3, <1>6, <2>1 DEF OthersStay
<1>10. /\ DOMAIN Spoilt(g) = Nodes
       /\ Spoilt(g)[g] = NoGoal
       /\ \A i \in Nodes : goal[i] = NoGoal => Spoilt(g)[i] = NoGoal
       /\ Carried(links, goal, Spoilt(g), Nodes, NoNode)
       /\ Carried(links, goal, Spoilt(g), Tagged(tag), NoNode)
  BY <1>3, SpoiltCarried, FewerCarried DEF Tagged
<1>11. /\ Carried(links, goal, goal', Tagged(tag), n)
       /\ goal'[n] = GoalOf(x)
       /\ \A i \in Nodes : i # n => goal'[i] = Spoilt(g)[i]
       /\ DOMAIN goal' = Nodes
  <2>1. Tagged(tag) \in SUBSET Nodes
    BY DEF Tagged
  <2> DEFINE gl2 == Spoilt(g)
             ok == Tagged(tag)
             y == GoalOf(x)
  <2>2. /\ Carried(links, goal, gl2, ok, NoNode) /\ DOMAIN gl2 = Nodes /\ ok \in SUBSET Nodes
        /\ goal' = [gl2 EXCEPT ![n] = y]
    BY <1>3, <1>10, <2>1
  <2> HIDE DEF gl2, ok, y
  <2>3. /\ Carried(links, goal, goal', ok, n)
        /\ goal'[n] = y
        /\ \A i \in Nodes : i # n => goal'[i] = gl2[i]
        /\ DOMAIN goal' = Nodes
    BY <1>2, <1>9, <2>2, NewCarried
  <2> QED
    BY <2>3 DEF gl2, ok, y
<1>12. ASSUME NEW i \in Nodes, goal'[i] # NoGoal, i # n
       PROVE  goal'[i] = goal[i] /\ goal[i] # NoGoal /\ i # g /\ tag[i] # Untagged
  <2>1. goal'[i] = goal[i] /\ i # g
    BY <1>10, <1>11, <1>12 DEF Carried
  <2> QED
    BY <1>3, <1>12, <2>1, IdleGoals DEF CInv
<1>13. f.sub.grp = n /\ Filling(links', kind', data', goal', tag', Tagged(tag') \cup Groups(stack'), f)
  <2> DEFINE ok == Tagged(tag') \cup Groups(stack')
  <2>1. /\ m.links \in Tables /\ m.links[m.view.grp][k] = Hard(n)
        /\ \A j \in Names : m.links[n][j].type = "none"
        /\ tag'[n] = Untagged /\ goal'[n] = GoalOf(x)
    BY <1>3, <1>4, <1>5, <1>6, <1>9, <1>11
  <2> HIDE DEF ok
  <2>2. f.sub.grp = n /\ Filling(m.links, kind', data', goal', tag', ok, f)
    BY <1>2, <2>1, NewFilling
  <2> QED
    BY <1>5, <2>2 DEF ok
<1> HIDE DEF f
<1>14. Len(stack') = 1 /\ stack'[1] = f
  BY <1>5, OneFrame
<1>15. Fillings'
  BY <1>13, <1>14 DEF Fillings
<1>16. Inwards'
  BY <1>14 DEF Inwards
<1>17. Goals'
  <2>0. n \in Groups(stack')
    BY <1>13, <1>14 DEF Groups
  <2>1. ASSUME NEW i \in Nodes, goal'[i] # NoGoal
        PROVE  /\ kind'[i] = "group"
               /\ WellFormed(goal'[i]) /\ goal'[i].type = "object" /\ goal'[i].fmt # Untagged
               /\ tag'[i] = Untagged => i \in Groups(stack')
    <3>1. CASE i = n
      BY <1>7, <1>11, <2>0, <2>1, <3>1, GoalOfTypes
    <3>2. CASE i # n
      <4>1. goal'[i] = goal[i] /\ goal[i] # NoGoal /\ tag[i] # Untagged
        BY <1>12, <2>1, <3>2
      <4>2. /\ kind[i] = "group" /\ WellFormed(goal[i])
            /\ goal[i].type = "object" /\ goal[i].fmt # Untagged
        BY <4>1 DEF CInv, Goals
      <4> QED
        BY <1>3, <1>7, <4>1, <4>2
    <3> QED
      BY <3>1, <3>2
  <2> QED
    BY <1>11, <2>1 DEF Goals
<1>18. Whole'
  <2>1. ASSUME NEW i \in Nodes, goal'[i] # NoGoal, tag[i] # Untagged
        PROVE  tag[i] = goal'[i].fmt /\ Holds(links', kind', data', goal', Tagged(tag), i, {})
    <3>1. i # n /\ i # g
      BY <1>9, <1>12, <2>1
    <3> QED
      BY <1>2, <1>6, <1>11, <2>1, <3>1, WholeStays DEF CInv
  <2> QED
    BY <1>3, <2>1 DEF Whole
<1> QED
  BY <1>7, <1>8, <1>15, <1>16, <1>17, <1>18 DEF CInv

(* v[key] = w *)
LEMMA CopyViewCommit ==
    ASSUME IInv, CInv, NEW v \in Views, NEW w \in Views, NEW k \in Names, CopyView(v, k, w)
    PROVE  CInv'
<1>1. \A y : WellFormed(ViewOf(y))
  BY OtherWellFormed DEF ViewOf
<1> QED
  BY <1>1, SetGroupCommit DEF CopyView

(* v[key] = w[j] *)
LEMMA CopyEntryCommit ==
    ASSUME IInv, CInv, NEW v \in Views, NEW w \in Views, NEW j \in Names, NEW k \in Names,
           CopyEntry(v, k, w, j)
    PROVE  CInv'
<1> DEFINE n == Resolve(links, view[w].grp, j)
<1>1. CASE has_dataset(links, kind, view[w].grp, j) /\ SetLeaf(v, k, data[n])
  <2>1. n \in Nodes
    BY <1>1 DEF has_dataset
  <2> HIDE DEF n
  <2>2. data[n] \in Leaves \cup {Fill}
    BY <2>1 DEF IInv, TypeOK
  <2> QED
    BY <1>1, <2>2, SetLeafCommit
<1>2. CASE has_subgroup(links, kind, view[w].grp, j) /\ SetGroup(v, k, Value(links, kind, n))
  <2>1. n \in Nodes /\ links \in Tables
    BY <1>2 DEF has_subgroup, IInv, TypeOK, Tables
  <2> HIDE DEF n
  <2> QED
    BY <1>2, <2>1, ValueWellFormed, SetGroupCommit
<1> QED
  BY <1>1, <1>2 DEF CopyEntry
-----------------------------------------------------------------------------
(* The steps of the recursion.                                             *)

(* What the invariant says of the innermost frame, and of those around it. *)
LEMMA TopFilling ==
    ASSUME IInv, CInv, stack # <<>>
    PROVE  /\ Top.sub.grp \in Nodes /\ kind[Top.sub.grp] = "group" /\ tag[Top.sub.grp] = Untagged
           /\ Filling(links, kind, data, goal, tag, Tagged(tag) \cup Groups(stack), Top)
           /\ Groups(stack) \subseteq Nodes /\ Top.sub.grp \in Groups(stack)
           /\ \A c \in Groups(stack) : c <= Top.sub.grp
           /\ \A i \in 2..Len(stack) :
                /\ i \in 1..Len(stack) /\ stack[i].sub.grp \in Nodes
                /\ stack[i].sub.grp # Top.sub.grp /\ kind[stack[i].sub.grp] = "group"
<1>1. Len(stack) \in Nat /\ Len(stack) >= 1 /\ Top = stack[1] /\ 1 \in 1..Len(stack)
  BY TopFrame
<1>2. ASSUME NEW i \in 1..Len(stack)
      PROVE  stack[i].sub.grp \in Nodes /\ kind[stack[i].sub.grp] = "group"
  BY <1>2 DEF IInv, Frames, Owned, ViewType
<1>3. Filling(links, kind, data, goal, tag, Tagged(tag) \cup Groups(stack), Top)
  BY <1>1 DEF CInv, Fillings
<1>4. tag[Top.sub.grp] = Untagged
  BY <1>3 DEF Filling
<1>5. Groups(stack) \subseteq Nodes /\ Top.sub.grp \in Groups(stack)
  BY <1>1, <1>2 DEF Groups
<1>6. ASSUME NEW c \in Groups(stack) PROVE c <= Top.sub.grp
  <2>1. PICK i \in 1..Len(stack) : c = stack[i].sub.grp
    BY DEF Groups
  <2>2. c \in Nat /\ Top.sub.grp \in Nat
    BY <1>5, NodeTypes
  <2>3. CASE i = 1
    BY <1>1, <2>1, <2>2, <2>3
  <2>4. CASE i # 1
    <3>1. 1 < i
      BY <1>1, <2>4
    <3>2. c < Top.sub.grp
      BY <1>1, <2>1, <3>1 DEF CInv, Inwards
    <3> QED
      BY <2>2, <3>2
  <2> QED
    BY <2>3, <2>4
<1>7. ASSUME NEW i \in 2..Len(stack)
      PROVE  /\ i \in 1..Len(stack) /\ stack[i].sub.grp \in Nodes
             /\ stack[i].sub.grp # Top.sub.grp /\ kind[stack[i].sub.grp] = "group"
  <2>1. i \in 1..Len(stack) /\ i # 1
    BY <1>1
  <2> QED
    BY <1>1, <1>2, <2>1 DEF IInv, Frames
<1> QED
  BY <1>1, <1>2, <1>3, <1>4, <1>5, <1>6, <1>7

(* The groups of the frames when the innermost is replaced, joined by      *)
(* another or left.                                                        *)
LEMMA ReplacedGroups ==
    ASSUME NEW s, IsStack(s), s # <<>>, NEW f, NEW r, r = ReplaceTop(s, f),
           f.sub.grp = s[1].sub.grp
    PROVE  /\ Len(r) = Len(s)
           /\ \A i \in 1..Len(s) : r[i].sub.grp = s[i].sub.grp
           /\ Groups(r) = Groups(s)
<1>1. /\ Len(s) \in Nat /\ Len(r) = Len(s) /\ r[1] = f
      /\ \A i \in 2..Len(s) : r[i] = s[i]
  BY Replaced
<1>2. ASSUME NEW i \in 1..Len(s) PROVE r[i].sub.grp = s[i].sub.grp
  <2>1. i = 1 \/ i \in 2..Len(s)
    BY <1>1
  <2> QED
    BY <1>1, <2>1
<1> QED
  BY <1>1, <1>2 DEF Groups

(* ... when another frame is put on top ... *)
LEMMA PushedGroups ==
    ASSUME NEW s, IsStack(s), s # <<>>, NEW e, NEW f, NEW r, r = PushTop(s, e, f),
           f.sub.grp = s[1].sub.grp
    PROVE  /\ Len(r) = Len(s) + 1 /\ r[1] = e /\ r[2] = f
           /\ \A i \in 1..Len(s) : i + 1 \in 1..Len(r) /\ r[i + 1].sub.grp = s[i].sub.grp
           /\ \A i \in 2..Len(r) : i - 1 \in 1..Len(s) /\ r[i].sub.grp = s[i - 1].sub.grp
           /\ Groups(r) = Groups(s) \cup {e.sub.grp}
<1>1. /\ Len(s) \in Nat /\ Len(r) = Len(s) + 1 /\ r[1] = e /\ r[2] = f
      /\ \A i \in 3..(Len(s) + 1) : r[i] = s[i - 1]
  BY Pushed
<1>2. ASSUME NEW i \in 2..Len(r) PROVE i - 1 \in 1..Len(s) /\ r[i].sub.grp = s[i - 1].sub.grp
  <2>1. i - 1 \in 1..Len(s)
    BY <1>1
  <2>2. (i = 2 /\ i - 1 = 1) \/ i \in 3..(Len(s) + 1)
    BY <1>1
  <2> QED
    BY <1>1, <2>1, <2>2
<1>3. ASSUME NEW i \in 1..Len(s) PROVE i + 1 \in 1..Len(r) /\ r[i + 1].sub.grp = s[i].sub.grp
  <2>1. i + 1 \in 2..Len(r) /\ (i + 1) - 1 = i
    BY <1>1
  <2> QED
    BY <1>1, <1>2, <2>1
<1>4. Groups(r) \subseteq Groups(s) \cup {e.sub.grp}
  <2> SUFFICES ASSUME NEW i \in 1..Len(r) PROVE r[i].sub.grp \in Groups(s) \cup {e.sub.grp}
    BY DEF Groups
  <2>1. i = 1 \/ i \in 2..Len(r)
    BY <1>1
  <2> QED
    BY <1>1, <1>2, <2>1 DEF Groups
<1>5. Groups(s) \subseteq Groups(r)
  BY <1>3 DEF Groups
<1>6. e.sub.grp \in Groups(r)
  <2>1. 1 \in 1..Len(r)
    BY <1>1
  <2> QED
    BY <1>1, <2>1 DEF Groups
<1> QED
  BY <1>1, <1>2, <1>3, <1>4, <1>5, <1>6

(* ... and when the innermost is left. *)
LEMMA PoppedGroups ==
    ASSUME NEW s, IsStack(s), s # <<>>
    PROVE  /\ \A i \in 1..Len(Tail(s)) : i + 1 \in 2..Len(s) /\ Tail(s)[i] = s[i + 1]
           /\ Groups(s) = Groups(Tail(s)) \cup {s[1].sub.grp}
<1>1. /\ Len(s) \in Nat /\ Len(s) >= 1
      /\ Len(Tail(s)) = Len(s) - 1
      /\ \A i \in 1..(Len(s) - 1) : Tail(s)[i] = s[i + 1]
  BY Popped
<1>2. \A i \in 1..Len(Tail(s)) : i + 1 \in 2..Len(s) /\ i + 1 \in 1..Len(s) /\ Tail(s)[i] = s[i + 1]
  BY <1>1
<1>3. Groups(Tail(s)) \subseteq Groups(s)
  BY <1>2 DEF Groups
<1>4. s[1].sub.grp \in Groups(s)
  <2>1. 1 \in 1..Len(s)
    BY <1>1
  <2> QED
    BY <2>1 DEF Groups
<1>5. Groups(s) \subseteq Groups(Tail(s)) \cup {s[1].sub.grp}
  <2> SUFFICES ASSUME NEW i \in 1..Len(s), i # 1 PROVE s[i].sub.grp \in Groups(Tail(s))
    BY DEF Groups
  <2>1. i - 1 \in 1..Len(Tail(s)) /\ (i - 1) + 1 = i
    BY <1>1
  <2>2. Tail(s)[i - 1] = s[i]
    BY <1>2, <2>1
  <2> QED
    BY <2>1, <2>2 DEF Groups
<1> QED
  BY <1>2, <1>3, <1>4, <1>5

(* A step that changes the innermost group leaves the complete ones, and   *)
(* the unused addresses, alone.                                            *)
LEMMA RecursionWhole ==
    ASSUME IInv, CInv, stack # <<>>, NEW k \in Names, NEW w2,
           Effect(links, Top.sub, links', w2, k), tag' = tag,
           Grows(kind, data, kind', data'),
           \A m \in Nodes : kind[m] # "none" => kind'[m] = kind[m],
           NEW n, \A i \in Nodes : tag[i] # Untagged => i # n,
           Carried(links, goal, goal', Tagged(tag), n)
    PROVE  /\ OthersStay(links, links', Top.sub.grp)
           /\ Fresh' /\ Whole'
<1> DEFINE g == Top.sub.grp
<1>1. g \in Nodes /\ kind[g] = "group" /\ tag[g] = Untagged
  BY TopFilling
<1>2. OthersStay(links, links', g)
  BY DEF Effect, OthersStay
<1> HIDE DEF g
<1>3. Fresh'
  BY <1>1, <1>2, FreshStays DEF CInv
<1>4. ASSUME NEW i \in Nodes, goal'[i] # NoGoal, tag[i] # Untagged
      PROVE  tag[i] = goal'[i].fmt /\ Holds(links', kind', data', goal', Tagged(tag), i, {})
  <2>1. i # g /\ i # n
    BY <1>1, <1>4
  <2> QED
    BY <1>2, <1>4, <2>1, WholeStays DEF CInv
<1>5. Whole'
  BY <1>4 DEF Whole
<1> QED
  BY <1>2, <1>3, <1>5 DEF g

(* ... and the frames around the innermost. *)
LEMMA RecursionFillings ==
    ASSUME IInv, CInv, stack # <<>>,
           OthersStay(links, links', Top.sub.grp), tag' = tag,
           Grows(kind, data, kind', data'),
           NEW n, \A i \in 2..Len(stack) : stack[i].sub.grp # n,
           Carried(links, goal, goal', Tagged(tag) \cup Groups(stack), n),
           Groups(stack) \subseteq Groups(stack'),
           NEW i \in 2..Len(stack)
    PROVE  Filling(links', kind', data', goal', tag', Tagged(tag') \cup Groups(stack'), stack[i])
<1> DEFINE f == stack[i]
           h == f.sub.grp
           g == Top.sub.grp
           ok == Tagged(tag) \cup Groups(stack)
           ok2 == Tagged(tag') \cup Groups(stack')
<1>1. /\ i \in 1..Len(stack) /\ h \in Nodes /\ h # g /\ h # n
  BY TopFilling
<1>2. Filling(links, kind, data, goal, tag, ok, f)
  BY <1>1 DEF CInv, Fillings
<1>3. /\ ok \subseteq ok2 /\ OthersStay(links, links', g) /\ Carried(links, goal, goal', ok, n)
      /\ f.sub.grp = h
  OBVIOUS
<1> HIDE DEF f, g, h, ok, ok2
<1>4. Filling(links', kind', data', goal', tag, ok2, f)
  BY <1>1, <1>2, <1>3, FillingStays
<1> QED
  BY <1>4 DEF f, ok2

(* One entry more, k, of the group n that frame f fills has been made, and *)
(* f2 is what is left of f.                                                *)
Advanced(t, knd, dat, gl, ok, t2, knd2, dat2, gl2, ok2, new, n, k, f, f2) ==
    /\ n \in Nodes /\ n # new /\ k \in Names
    /\ \A j \in Names : j # k => t2[n][j] = t[n][j]
    /\ Grows(knd, dat, knd2, dat2) /\ ok \subseteq ok2
    /\ Carried(t, gl, gl2, ok, new)
    /\ f.sub.grp = n /\ k \in DOMAIN f.todo
    /\ gl2[n] # NoGoal => Made(t2, knd2, dat2, gl2, ok2, n, k, f.todo[k])
    /\ f2.sub.grp = n /\ f2.fmt = f.fmt
    /\ f2.todo = [j \in DOMAIN f.todo \ {k} |-> f.todo[j]]

(* Such a frame goes on filling its group. *)
LEMMA TopStep ==
    ASSUME NEW t, NEW knd, NEW dat, NEW gl, NEW ok, NEW tg,
           NEW t2, NEW knd2, NEW dat2, NEW gl2, NEW ok2, NEW new,
           NEW n, NEW k, NEW f, NEW f2,
           Filling(t, knd, dat, gl, tg, ok, f),
           Advanced(t, knd, dat, gl, ok, t2, knd2, dat2, gl2, ok2, new, n, k, f, f2)
    PROVE  Filling(t2, knd2, dat2, gl2, tg, ok2, f2)
<1>0. /\ n \in Nodes /\ n # new /\ k \in Names
      /\ \A j \in Names : j # k => t2[n][j] = t[n][j]
      /\ Grows(knd, dat, knd2, dat2) /\ ok \subseteq ok2
      /\ Carried(t, gl, gl2, ok, new)
      /\ f.sub.grp = n /\ k \in DOMAIN f.todo
      /\ gl2[n] # NoGoal => Made(t2, knd2, dat2, gl2, ok2, n, k, f.todo[k])
      /\ f2.sub.grp = n /\ f2.fmt = f.fmt
      /\ f2.todo = [j \in DOMAIN f.todo \ {k} |-> f.todo[j]]
  BY DEF Advanced
<1>1. DOMAIN f2.todo = DOMAIN f.todo \ {k} /\ \A j \in DOMAIN f2.todo : f2.todo[j] = f.todo[j]
  BY <1>0
<1>2. tg[n] = Untagged /\ \A j \in DOMAIN f2.todo : WellFormed(f2.todo[j])
  BY <1>0, <1>1 DEF Filling
<1>3. ASSUME gl2[n] # NoGoal
      PROVE  /\ f2.fmt = gl2[n].fmt
             /\ \A j \in DOMAIN f2.todo : j \in DOMAIN gl2[n].items /\ f2.todo[j] = gl2[n].items[j]
             /\ Holds(t2, knd2, dat2, gl2, ok2, n, DOMAIN f2.todo)
  <2>1. gl2[n] = gl[n] /\ gl[n] # NoGoal
    BY <1>0, <1>3 DEF Carried
  <2>2. /\ f.fmt = gl[n].fmt
        /\ \A j \in DOMAIN f.todo : j \in DOMAIN gl[n].items /\ f.todo[j] = gl[n].items[j]
        /\ Holds(t, knd, dat, gl, ok, n, DOMAIN f.todo)
    BY <1>0, <2>1 DEF Filling
  <2>3. ASSUME NEW j \in Names, j \in DOMAIN gl[n].items \ DOMAIN f2.todo
        PROVE  Made(t2, knd2, dat2, gl2, ok2, n, j, gl[n].items[j])
    <3>1. CASE j = k
      BY <1>0, <1>3, <2>2, <3>1
    <3>2. CASE j # k
      <4>1. j \in DOMAIN gl[n].items \ DOMAIN f.todo
        BY <1>1, <2>3, <3>2
      <4>2. Made(t, knd, dat, gl, ok, n, j, gl[n].items[j])
        BY <2>2, <4>1 DEF Holds
      <4>3. \A c \in ok : t[n][j] = Hard(c) /\ gl[c].type = "object" => gl2[c] = gl[c]
        BY <1>0, <1>3 DEF Carried
      <4>4. t2[n][j] = t[n][j]
        BY <1>0, <3>2
      <4> QED
        BY <1>0, <4>2, <4>3, <4>4, MadeStays
    <3> QED
      BY <3>1, <3>2
  <2>4. ASSUME NEW j \in Names, ~(j \in DOMAIN gl[n].items \ DOMAIN f2.todo)
        PROVE  t2[n][j].type = "none"
    <3>1. j # k /\ ~(j \in DOMAIN gl[n].items \ DOMAIN f.todo)
      BY <1>0, <1>1, <2>2, <2>4
    <3>2. t[n][j].type = "none"
      BY <2>2, <3>1 DEF Holds
    <3> QED
      BY <1>0, <3>1, <3>2
  <2>5. Holds(t2, knd2, dat2, gl2, ok2, n, DOMAIN f2.todo)
    BY <2>1, <2>3, <2>4, Zenon DEF Holds
  <2> QED
    BY <1>0, <1>1, <2>1, <2>2, <2>5
<1> QED
  BY <1>0, <1>2, <1>3, Zenon DEF Filling
-----------------------------------------------------------------------------
(* An array or a scalar becomes an entry of the innermost group. *)
LEMMA StoreLeafCommit ==
    ASSUME IInv, CInv, NEW k \in Names, StoreLeaf(k)
    PROVE  CInv'
<1>1. PICK n \in Unused :
        /\ stack # <<>> /\ IsNext(n) /\ k \in DOMAIN Top.todo /\ Top.todo[k] \in Plain
        /\ LET c == Clean(links, Top.sub, k)
           IN  /\ links' = LinkData(c.links, c.view, k, n)
               /\ stack' = <<Frame(Listed(c.view, k), Remaining(k), Top.fmt)>> \o Tail(stack)
        /\ NewObject(n, "data")
        /\ data' = [data EXCEPT ![n] = Top.todo[k].leaf]
        /\ UNCHANGED <<tag, view, call, protect, history>>
  BY DEF StoreLeaf, Storing
<1> DEFINE c == Clean(links, Top.sub, k)
           w2 == Listed(c.view, k)
           f == Frame(w2, Remaining(k), Top.fmt)
           g == Top.sub.grp
           x == Top.todo[k]
           ok == Tagged(tag) \cup Groups(stack)
           ok2 == Tagged(tag') \cup Groups(stack')
<1>2. x.leaf \in Leaves \cup {Fill} /\ x = Leaf(x.leaf)
  BY <1>1 DEF Plain, Leaf
<1>3. n \in Nodes /\ kind[n] = "none" /\ Grows(kind, data, kind', data')
  BY <1>1, <1>2, NewObjectGrows DEF IInv
<1>4. data'[n] = x.leaf
  BY <1>1, <1>3 DEF IInv, TypeOK
<1>5. links'[g][k] = Hard(n) /\ Effect(links, Top.sub, links', w2, k)
  BY <1>1, <1>3, TopFrame, LeafEffect
<1>6. /\ stack' = ReplaceTop(stack, f) /\ f.sub = w2 /\ f.fmt = Top.fmt
      /\ f.todo = [j \in DOMAIN Top.todo \ {k} |-> Top.todo[j]]
  BY <1>1 DEF Frame, Remaining, ReplaceTop
<1>7. tag' = tag /\ goal' = goal
  BY <1>1 DEF history
<1>8. IsStack(stack) /\ stack # <<>> /\ Top = stack[1]
  BY <1>1, TopFrame DEF IInv, Frames
<1>9. f.sub.grp = g /\ f.sub.grp = stack[1].sub.grp
  BY <1>5, <1>6, <1>8 DEF Effect
<1> HIDE DEF c, w2, f
<1>10. /\ Len(stack') = Len(stack)
       /\ \A i \in 1..Len(stack) : stack'[i].sub.grp = stack[i].sub.grp
       /\ Groups(stack') = Groups(stack)
  BY <1>6, <1>8, <1>9, ReplacedGroups
<1>11. /\ Len(stack) \in Nat /\ stack'[1] = f
       /\ \A i \in 2..Len(stack) : stack'[i] = stack[i]
  BY <1>6, <1>8, Replaced
<1>12. /\ Dense' /\ kind'[n] = "data"
       /\ \A i \in Nodes : kind[i] # "none" => kind'[i] = kind[i] /\ i < n
  BY <1>1, NewDense DEF CInv
<1>13. g \in Nodes /\ kind[g] = "group" /\ Filling(links, kind, data, goal, tag, ok, Top)
  BY <1>1, TopFilling
<1>14. OthersStay(links, links', g) /\ Fresh' /\ Whole'
  <2>1. \A i \in Nodes : tag[i] # Untagged => i # NoNode
    BY NodeTypes
  <2>2. Carried(links, goal, goal', Tagged(tag), NoNode)
    BY <1>7, SameCarried
  <2> QED
    BY <1>1, <1>3, <1>5, <1>7, <1>12, <2>1, <2>2, RecursionWhole
<1>15. Goals'
  BY <1>7, <1>10, <1>12 DEF CInv, Goals
<1>16. Inwards'
  BY <1>10 DEF CInv, Inwards
<1>17. ASSUME NEW i \in 2..Len(stack)
       PROVE  Filling(links', kind', data', goal', tag', ok2, stack[i])
  <2>1. \A j \in 2..Len(stack) : stack[j].sub.grp # NoNode
    BY <1>1, TopFilling, NodeTypes
  <2>2. Carried(links, goal, goal', ok, NoNode)
    BY <1>7, SameCarried
  <2> QED
    BY <1>1, <1>3, <1>7, <1>10, <1>14, <2>1, <2>2, RecursionFillings
<1>18. Filling(links', kind', data', goal', tag', ok2, f)
  <2>1. Made(links', kind', data', goal', ok2, g, k, x)
    <3>1. x \in Plain /\ kind'[n] = "data" /\ x = Leaf(data'[n])
      BY <1>1, <1>2, <1>4, <1>12
    <3>2. g < n
      BY <1>12, <1>13
    <3> HIDE DEF g, x, ok2
    <3> QED
      BY <1>3, <1>5, <3>1, <3>2, Zenon DEF Made
  <2>2. \A j \in Names : j # k => links'[g][j] = links[g][j]
    BY <1>5, <1>13 DEF Effect
  <2>3. ok \subseteq ok2 /\ Carried(links, goal, goal', ok, NoNode) /\ g # NoNode
    BY <1>7, <1>10, <1>13, SameCarried, NodeTypes
  <2>4. /\ Top.sub.grp = g /\ k \in DOMAIN Top.todo
        /\ Made(links', kind', data', goal', ok2, g, k, Top.todo[k])
    BY <1>1, <2>1
  <2> HIDE DEF g, x, ok, ok2
  <2>5. Advanced(links, kind, data, goal, ok, links', kind', data', goal', ok2, NoNode, g, k, Top, f)
    BY <1>3, <1>6, <1>9, <1>13, <2>2, <2>3, <2>4, Zenon DEF Advanced
  <2>6. Filling(links', kind', data', goal', tag, ok2, f)
    BY <1>13, <2>5, TopStep
  <2> QED
    BY <1>7, <2>6
<1>19. Fillings'
  <2> SUFFICES ASSUME NEW i \in 1..Len(stack')
               PROVE  Filling(links', kind', data', goal', tag', ok2, stack'[i])
    BY DEF Fillings
  <2>1. i = 1 \/ i \in 2..Len(stack)
    BY <1>10, <1>11
  <2> QED
    BY <1>11, <1>17, <1>18, <2>1
<1> QED
  BY <1>12, <1>14, <1>15, <1>16, <1>19 DEF CInv

(* The group of a nested object is made, and filled next. *)
LEMMA StoreGroupCommit ==
    ASSUME IInv, CInv, NEW k \in Names, StoreGroup(k)
    PROVE  CInv'
<1> DEFINE g == Top.sub.grp
           x == Top.todo[k]
           gl1 == IF GoalOf(x) = NoGoal THEN Spoilt(g) ELSE goal
<1>1. PICK n \in Unused :
        /\ stack # <<>> /\ IsNext(n) /\ k \in DOMAIN Top.todo
        /\ LET c == Clean(links, Top.sub, k)
               m == MakeGroup(c.links, c.view, k, n)
           IN  /\ links' = m.links
               /\ stack' = <<FrameFor(m, k, n, Top.todo[k]),
                             Frame(m.view, Remaining(k), Top.fmt)>> \o Tail(stack)
        /\ goal' = [gl1 EXCEPT ![n] = GoalOf(x)]
        /\ NewObject(n, "group")
        /\ UNCHANGED <<data, tag, view, call, protect, foreign>>
  BY DEF StoreGroup, Storing
<1> DEFINE c == Clean(links, Top.sub, k)
           m == MakeGroup(c.links, c.view, k, n)
           e == FrameFor(m, k, n, x)
           f == Frame(m.view, Remaining(k), Top.fmt)
           ok == Tagged(tag) \cup Groups(stack)
           ok2 == Tagged(tag') \cup Groups(stack')
<1>2. n \in Nodes /\ kind[n] = "none" /\ Grows(kind, data, kind', data')
  BY <1>1, NewObjectGrows DEF IInv
<1>3. m.links[g][k] = Hard(n) /\ Effect(links, Top.sub, m.links, m.view, k)
  BY <1>1, <1>2, TopFrame, GroupEffect
<1>4. /\ links' = m.links /\ stack' = PushTop(stack, e, f) /\ f.sub = m.view /\ f.fmt = Top.fmt
      /\ f.todo = [j \in DOMAIN Top.todo \ {k} |-> Top.todo[j]]
  BY <1>1 DEF Frame, Remaining, PushTop
<1>5. tag' = tag /\ goal' = [gl1 EXCEPT ![n] = GoalOf(x)]
  BY <1>1
<1>6. IsStack(stack) /\ stack # <<>> /\ Top = stack[1]
  BY <1>1, TopFrame DEF IInv, Frames
<1>7. m.view.grp = g /\ m.links \in Tables /\ f.sub.grp = g /\ f.sub.grp = stack[1].sub.grp
  BY <1>3, <1>4, <1>6 DEF Effect
<1>8. g \in Nodes /\ kind[g] = "group" /\ Filling(links, kind, data, goal, tag, ok, Top)
  BY <1>1, TopFilling
<1>9. WellFormed(x)
  BY <1>1, <1>8 DEF Filling
<1>10. links \in Tables
  BY DEF IInv, TypeOK, Tables
<1> HIDE DEF c, m, e, f, g, x
<1>11. tag[n] = Untagged /\ goal[n] = NoGoal /\ \A j \in Names : links[n][j].type = "none"
  BY <1>2 DEF CInv, Fresh, Goals
<1>12. /\ Dense' /\ kind'[n] = "group"
       /\ \A i \in Nodes : kind[i] # "none" => kind'[i] = kind[i] /\ i < n
  BY <1>1, NewDense DEF CInv
<1>13. g < n /\ g # n
  BY <1>2, <1>8, <1>12
<1>14. /\ DOMAIN gl1 = Nodes /\ Carried(links, goal, gl1, Nodes, NoNode)
       /\ \A i \in Nodes : goal[i] = NoGoal => gl1[i] = NoGoal
       /\ GoalOf(x) = NoGoal => gl1[g] = NoGoal
  <2>1. CASE GoalOf(x) = NoGoal
    <3>1. gl1 = Spoilt(g)
      BY <2>1
    <3> HIDE DEF gl1
    <3> QED
      BY <1>8, <1>10, <3>1, SpoiltCarried
  <2>2. CASE GoalOf(x) # NoGoal
    <3>1. gl1 = goal
      BY <2>2
    <3> HIDE DEF gl1
    <3> QED
      BY <2>2, <3>1, SameCarried DEF CInv, Goals
  <2> QED
    BY <2>1, <2>2
<1> HIDE DEF gl1
<1>15. /\ Carried(links, goal, goal', Nodes, n)
       /\ goal'[n] = GoalOf(x)
       /\ \A i \in Nodes : i # n => goal'[i] = gl1[i]
       /\ DOMAIN goal' = Nodes
  <2> DEFINE y == GoalOf(x)
             all == Nodes
  <2>1. /\ goal' = [gl1 EXCEPT ![n] = y] /\ all \in SUBSET Nodes
        /\ DOMAIN gl1 = Nodes /\ Carried(links, goal, gl1, all, NoNode)
    BY <1>5, <1>14
  <2> HIDE DEF y, all
  <2>2. /\ Carried(links, goal, goal', all, n)
        /\ goal'[n] = y
        /\ \A i \in Nodes : i # n => goal'[i] = gl1[i]
        /\ DOMAIN goal' = Nodes
    BY <1>2, <1>11, <2>1, NewCarried
  <2> QED
    BY <2>2 DEF y, all
<1>16. /\ Carried(links, goal, goal', Tagged(tag), n)
       /\ Carried(links, goal, goal', ok, n)
  <2>1. Tagged(tag) \subseteq Nodes /\ ok \subseteq Nodes
    BY <1>1, TopFilling DEF Tagged
  <2> HIDE DEF ok
  <2> QED
    BY <1>15, <2>1, FewerCarried
<1>17. OthersStay(links, links', g) /\ Fresh' /\ Whole'
  <2>1. \A i \in Nodes : tag[i] # Untagged => i # n
    BY <1>11
  <2>2. Effect(links, Top.sub, links', m.view, k)
    BY <1>3, <1>4
  <2>3. /\ OthersStay(links, links', Top.sub.grp)
        /\ Fresh' /\ Whole'
    BY <1>1, <1>2, <1>5, <1>12, <1>16, <2>1, <2>2, RecursionWhole
  <2> QED
    BY <2>3 DEF g
<1>18. e.sub.grp = n /\ Filling(links', kind', data', goal', tag', ok2, e)
  <2>1. \A j \in Names : m.links[n][j].type = "none"
    BY <1>2, <1>4, <1>11, <1>13, <1>17 DEF OthersStay
  <2>2. m.links[m.view.grp][k] = Hard(n) /\ tag'[n] = Untagged
    BY <1>3, <1>5, <1>7, <1>11
  <2> HIDE DEF ok2
  <2>3. e.sub.grp = n /\ Filling(m.links, kind', data', goal', tag', ok2, e)
    BY <1>2, <1>7, <1>9, <1>15, <2>1, <2>2, NewFilling DEF e
  <2> QED
    BY <1>4, <2>3
<1>19. /\ Len(stack') = Len(stack) + 1 /\ stack'[1] = e /\ stack'[2] = f
       /\ \A i \in 2..Len(stack') : i - 1 \in 1..Len(stack) /\ stack'[i].sub.grp = stack[i - 1].sub.grp
       /\ Groups(stack') = Groups(stack) \cup {n}
  BY <1>4, <1>6, <1>7, <1>18, PushedGroups
<1>20. /\ Len(stack) \in Nat
       /\ \A i \in 3..(Len(stack) + 1) : stack'[i] = stack[i - 1]
  BY <1>4, <1>6, Pushed
<1>21. ASSUME NEW i \in 2..Len(stack)
       PROVE  Filling(links', kind', data', goal', tag', ok2, stack[i])
  <2>1. \A j \in 2..Len(stack) : stack[j].sub.grp # n
    BY <1>1, <1>2, TopFilling
  <2>2. OthersStay(links, links', Top.sub.grp) /\ Groups(stack) \subseteq Groups(stack')
    BY <1>17, <1>19 DEF g
  <2> QED
    BY <1>1, <1>2, <1>5, <1>16, <2>1, <2>2, RecursionFillings
<1>22. Filling(links', kind', data', goal', tag', ok2, f)
  <2>1. ASSUME goal'[g] # NoGoal PROVE Made(links', kind', data', goal', ok2, g, k, x)
    <3>1. GoalOf(x) # NoGoal
      BY <1>8, <1>13, <1>14, <1>15, <2>1
    <3>2. x.type = "object" /\ goal'[n] = x
      BY <1>9, <1>15, <3>1, GoalOfTypes
    <3>3. n \in ok2
      BY <1>19
    <3>4. links'[g][k] = Hard(n)
      BY <1>3, <1>4
    <3> HIDE DEF ok2
    <3> QED
      BY <1>2, <1>13, <3>2, <3>3, <3>4, Zenon DEF Made
  <2>2. \A j \in Names : j # k => links'[g][j] = links[g][j]
    BY <1>3, <1>4, <1>8 DEF Effect, g
  <2>3. ok \subseteq ok2
    BY <1>5, <1>19
  <2>4. /\ Top.sub.grp = g /\ k \in DOMAIN Top.todo
        /\ goal'[g] # NoGoal => Made(links', kind', data', goal', ok2, g, k, Top.todo[k])
    BY <1>1, <2>1 DEF g, x
  <2> HIDE DEF ok, ok2
  <2>5. Advanced(links, kind, data, goal, ok, links', kind', data', goal', ok2, n, g, k, Top, f)
    BY <1>2, <1>4, <1>7, <1>8, <1>13, <1>16, <2>2, <2>3, <2>4, Zenon DEF Advanced
  <2>6. Filling(links', kind', data', goal', tag, ok2, f)
    BY <1>8, <2>5, TopStep
  <2> QED
    BY <1>5, <2>6
<1>23. Fillings'
  <2> SUFFICES ASSUME NEW i \in 1..Len(stack')
               PROVE  Filling(links', kind', data', goal', tag', ok2, stack'[i])
    BY DEF Fillings
  <2>1. i = 1 \/ i = 2 \/ (i \in 3..(Len(stack) + 1) /\ i - 1 \in 2..Len(stack))
    BY <1>19, <1>20
  <2> QED
    BY <1>18, <1>19, <1>20, <1>21, <1>22, <2>1
<1>24. Inwards'
  <2> SUFFICES ASSUME NEW i \in 1..Len(stack'), NEW j \in 1..Len(stack'), i < j
               PROVE  stack'[j].sub.grp < stack'[i].sub.grp
    BY DEF Inwards
  <2>1. j \in 2..Len(stack') /\ j - 1 \in 1..Len(stack)
    BY <1>19, <1>20
  <2>2. CASE i = 1
    <3>1. stack[j - 1].sub.grp \in Nodes /\ kind[stack[j - 1].sub.grp] = "group"
      BY <2>1 DEF IInv, Frames, Owned, ViewType
    <3> QED
      BY <1>12, <1>18, <1>19, <2>1, <2>2, <3>1
  <2>3. CASE i # 1
    <3>1. i \in 2..Len(stack') /\ i - 1 \in 1..Len(stack) /\ i - 1 < j - 1
      BY <1>19, <1>20, <2>1, <2>3
    <3>2. stack[j - 1].sub.grp < stack[i - 1].sub.grp
      BY <2>1, <3>1 DEF CInv, Inwards
    <3> QED
      BY <1>19, <2>1, <3>1, <3>2
  <2> QED
    BY <2>2, <2>3
<1>25. Goals'
  <2>1. ASSUME NEW i \in Nodes, goal'[i] # NoGoal
        PROVE  /\ kind'[i] = "group"
               /\ WellFormed(goal'[i]) /\ goal'[i].type = "object" /\ goal'[i].fmt # Untagged
               /\ tag'[i] = Untagged => i \in Groups(stack')
    <3>1. CASE i = n
      BY <1>9, <1>12, <1>15, <1>19, <2>1, <3>1, GoalOfTypes
    <3>2. CASE i # n
      <4>1. goal'[i] = goal[i]
        BY <1>15, <2>1, <3>2 DEF Carried
      <4>2. /\ kind[i] = "group" /\ WellFormed(goal[i]) /\ goal[i].type = "object"
            /\ goal[i].fmt # Untagged /\ (tag[i] = Untagged => i \in Groups(stack))
        BY <2>1, <4>1 DEF CInv, Goals
      <4> QED
        BY <1>5, <1>12, <1>19, <4>1, <4>2
    <3> QED
      BY <3>1, <3>2
  <2> QED
    BY <1>15, <2>1 DEF Goals
<1> QED
  BY <1>12, <1>17, <1>23, <1>24, <1>25 DEF CInv
-----------------------------------------------------------------------------
(* The ends of a recursion.                                                *)

(* Of the groups that count, only entries of n matter to it: they lie      *)
(* above n and have a goal.                                                *)
LEMMA HoldsOther ==
    ASSUME NEW t, NEW knd, NEW dat, NEW gl, NEW ok, NEW ok2, NEW n, NEW rest,
           Holds(t, knd, dat, gl, ok, n, rest),
           \A c \in ok : n < c /\ gl[c].type = "object" => c \in ok2
    PROVE  Holds(t, knd, dat, gl, ok2, n, rest)
<1>1. ASSUME NEW k \in Names, k \in DOMAIN gl[n].items \ rest
      PROVE  Made(t, knd, dat, gl, ok2, n, k, gl[n].items[k])
  <2>1. Made(t, knd, dat, gl, ok, n, k, gl[n].items[k])
    BY <1>1 DEF Holds
  <2>2. PICK c \in Nodes :
          /\ t[n][k] = Hard(c)
          /\ n < c
          /\ \/ gl[n].items[k] \in Plain /\ knd[c] = "data" /\ gl[n].items[k] = Leaf(dat[c])
             \/ gl[n].items[k].type = "object" /\ gl[c] = gl[n].items[k] /\ c \in ok
    BY <2>1, Zenon DEF Made
  <2>3. \/ gl[n].items[k] \in Plain /\ knd[c] = "data" /\ gl[n].items[k] = Leaf(dat[c])
        \/ gl[n].items[k].type = "object" /\ gl[c] = gl[n].items[k] /\ c \in ok2
    BY <2>2
  <2> QED
    BY <2>2, <2>3, Zenon DEF Made
<1>2. ASSUME NEW k \in Names, ~(k \in DOMAIN gl[n].items \ rest)
      PROVE  t[n][k].type = "none"
  BY <1>2, Zenon DEF Holds
<1> QED
  BY <1>1, <1>2, Zenon DEF Holds

(* The group of the innermost frame has all its entries and gets its       *)
(* Format, if it was made for an object.                                   *)
LEMMA FinishCommit ==
    ASSUME IInv, CInv, Finish
    PROVE  CInv'
<1> DEFINE g == Top.sub.grp
           s == Tail(stack)
           ok == Tagged(tag) \cup Groups(stack)
           ok2 == Tagged(tag') \cup Groups(s)
<1>1. /\ stack # <<>> /\ DOMAIN Top.todo = {}
      /\ tag' = [tag EXCEPT ![g] = Top.fmt] /\ stack' = s
      /\ UNCHANGED <<links, kind, data, goal>>
  BY DEF Finish, Storing, history
<1>2. /\ g \in Nodes /\ kind[g] = "group" /\ tag[g] = Untagged
      /\ Filling(links, kind, data, goal, tag, ok, Top)
      /\ \A c \in Groups(stack) : c <= g
  BY <1>1, TopFilling
<1>3. /\ \A i \in 1..Len(s) : i + 1 \in 2..Len(stack) /\ s[i] = stack[i + 1]
      /\ Groups(stack) = Groups(s) \cup {g}
  <2>1. IsStack(stack) /\ Top = stack[1]
    BY <1>1, TopFrame DEF IInv, Frames
  <2> QED
    BY <1>1, <2>1, PoppedGroups
<1>4. \A i \in 2..Len(stack) :
        /\ i \in 1..Len(stack) /\ stack[i].sub.grp \in Nodes /\ stack[i].sub.grp # g
  BY <1>1, TopFilling
<1>5. tag'[g] = Top.fmt /\ \A i \in Nodes : i # g => tag'[i] = tag[i]
  BY <1>1, <1>2 DEF IInv, TypeOK
<1>6. goal[g] # NoGoal =>
        /\ tag'[g] = goal[g].fmt /\ tag'[g] # Untagged
        /\ Holds(links, kind, data, goal, ok, g, {})
  <2>1. ASSUME goal[g] # NoGoal PROVE goal[g].fmt # Untagged
    BY <1>2, <2>1 DEF CInv, Goals
  <2>2. Top.sub.grp = g
    OBVIOUS
  <2> HIDE DEF g, ok
  <2>3. ASSUME goal[g] # NoGoal
        PROVE  Top.fmt = goal[g].fmt /\ Holds(links, kind, data, goal, ok, g, DOMAIN Top.todo)
    BY <1>2, <2>2, <2>3 DEF Filling
  <2> QED
    BY <1>1, <1>5, <2>1, <2>3
<1> HIDE DEF g, s
<1>7. Tagged(tag) \subseteq Tagged(tag')
  BY <1>2, <1>5 DEF Tagged
<1>8. \A c \in Nodes : goal[c].type = "object" => goal[c] # NoGoal
  BY DEF NoGoal
<1>9. Dense' /\ Fresh'
  <2>1. ASSUME NEW i \in Nodes, kind[i] = "none" PROVE tag'[i] = tag[i]
    BY <1>2, <1>5, <2>1
  <2> QED
    BY <1>1, <2>1 DEF CInv, Dense, Fresh
<1>10. Goals'
  <2>1. ASSUME NEW i \in Nodes, goal[i] # NoGoal, tag'[i] = Untagged PROVE i \in Groups(s)
    <3>1. i # g /\ tag[i] = Untagged
      BY <1>5, <1>6, <2>1
    <3>2. i \in Groups(stack)
      BY <2>1, <3>1 DEF CInv, Goals
    <3> QED
      BY <1>3, <3>1, <3>2
  <2> QED
    BY <1>1, <2>1 DEF CInv, Goals
<1>11. Whole'
  <2>1. ASSUME NEW i \in Nodes, goal[i] # NoGoal, tag'[i] # Untagged
        PROVE  tag'[i] = goal[i].fmt /\ Holds(links, kind, data, goal, Tagged(tag'), i, {})
    <3>1. CASE i = g
      <4>1. \A c \in ok : g < c /\ goal[c].type = "object" => c \in Tagged(tag')
        <5>1. ASSUME NEW c \in Groups(stack) PROVE ~(g < c)
          <6>1. c \in Nat /\ g \in Nat
            BY <1>1, <1>2, TopFilling, NodeTypes
          <6> QED
            BY <1>2, <6>1
        <5> QED
          BY <1>7, <5>1
      <4> HIDE DEF ok
      <4>2. Holds(links, kind, data, goal, Tagged(tag'), g, {})
        BY <1>6, <2>1, <3>1, <4>1, HoldsOther
      <4> QED
        BY <1>6, <2>1, <3>1, <4>2
    <3>2. CASE i # g
      <4>1. tag[i] = goal[i].fmt /\ Holds(links, kind, data, goal, Tagged(tag), i, {})
        BY <1>5, <2>1, <3>2 DEF CInv, Whole
      <4>2. Holds(links, kind, data, goal, Tagged(tag'), i, {})
        BY <1>7, <4>1, HoldsOther
      <4> QED
        BY <1>5, <3>2, <4>1, <4>2
    <3> QED
      BY <3>1, <3>2
  <2> QED
    BY <1>1, <2>1 DEF Whole
<1>12. Fillings'
  <2>1. ASSUME NEW i \in 1..Len(s)
        PROVE  Filling(links, kind, data, goal, tag', ok2, s[i])
    <3> DEFINE f == s[i]
               h == f.sub.grp
    <3>1. h \in Nodes /\ h # g /\ Filling(links, kind, data, goal, tag, ok, f)
      <4>1. f = stack[i + 1] /\ i + 1 \in 2..Len(stack)
        BY <1>3
      <4>2. i + 1 \in 1..Len(stack)
        BY <1>4, <4>1
      <4> QED
        BY <1>4, <4>1, <4>2 DEF CInv, Fillings
    <3>2. \A c \in ok : h < c /\ goal[c].type = "object" => c \in ok2
      <4>1. ASSUME goal[g].type = "object" PROVE g \in Tagged(tag')
        BY <1>2, <1>6, <1>8, <4>1 DEF Tagged
      <4> QED
        BY <1>3, <1>7, <4>1
    <3>3. f.sub.grp = h
      OBVIOUS
    <3> HIDE DEF f, h, ok, ok2
    <3>4. tag'[h] = Untagged /\ \A k \in DOMAIN f.todo : WellFormed(f.todo[k])
      BY <1>5, <3>1, <3>3 DEF Filling
    <3>5. ASSUME goal[h] # NoGoal
          PROVE  /\ f.fmt = goal[h].fmt
                 /\ \A k \in DOMAIN f.todo :
                      k \in DOMAIN goal[h].items /\ f.todo[k] = goal[h].items[k]
                 /\ Holds(links, kind, data, goal, ok, h, DOMAIN f.todo)
      BY <3>1, <3>3, <3>5 DEF Filling
    <3>6. ASSUME goal[h] # NoGoal
          PROVE  Holds(links, kind, data, goal, ok2, h, DOMAIN f.todo)
      BY <3>2, <3>5, <3>6, HoldsOther
    <3>7. Filling(links, kind, data, goal, tag', ok2, f)
      BY <3>3, <3>4, <3>5, <3>6, Zenon DEF Filling
    <3> QED
      BY <3>7 DEF f
  <2> QED
    BY <1>1, <2>1 DEF Fillings
<1>13. Inwards'
  <2> SUFFICES ASSUME NEW i \in 1..Len(s), NEW j \in 1..Len(s), i < j
               PROVE  s[j].sub.grp < s[i].sub.grp
    BY <1>1 DEF Inwards
  <2>1. i + 1 \in 1..Len(stack) /\ j + 1 \in 1..Len(stack) /\ i + 1 < j + 1
    BY <1>3, <1>4
  <2>2. stack[j + 1].sub.grp < stack[i + 1].sub.grp
    BY <2>1 DEF CInv, Inwards
  <2> QED
    BY <1>3, <2>2
<1> QED
  BY <1>9, <1>10, <1>11, <1>12, <1>13 DEF CInv

(* An exception leaves the groups with a Format, and nobody waits for the  *)
(* others.                                                                 *)
LEMMA AbandonCommit ==
    ASSUME IInv, CInv, stack # <<>>, Abandon, tag' = tag,
           OthersStay(links, links', Top.sub.grp), Dense', Grows(kind, data, kind', data'),
           \A m \in Nodes : kind[m] # "none" => kind'[m] = kind[m]
    PROVE  CInv'
<1> DEFINE g == Top.sub.grp
<1>1. /\ g \in Nodes /\ kind[g] = "group" /\ tag[g] = Untagged
      /\ OthersStay(links, links', g)
  BY TopFilling
<1> HIDE DEF g
<1>2. /\ stack' = <<>> /\ DOMAIN goal' = Nodes
      /\ \A i \in Nodes : goal'[i] = IF tag[i] = Untagged THEN NoGoal ELSE goal[i]
  BY DEF Abandon
<1>3. Fresh'
  BY <1>1, FreshStays DEF CInv
<1>4. ASSUME NEW i \in Nodes, goal'[i] # NoGoal
      PROVE  tag[i] # Untagged /\ goal'[i] = goal[i] /\ i # g /\ i # NoNode
  BY <1>1, <1>2, <1>4, NodeTypes
<1>5. Goals'
  <2>1. ASSUME NEW i \in Nodes, goal'[i] # NoGoal
        PROVE  /\ kind'[i] = "group"
               /\ WellFormed(goal'[i]) /\ goal'[i].type = "object" /\ goal'[i].fmt # Untagged
               /\ tag'[i] # Untagged
    <3>1. tag[i] # Untagged /\ goal'[i] = goal[i]
      BY <1>4, <2>1
    <3>2. kind[i] = "group" /\ WellFormed(goal[i]) /\ goal[i].type = "object" /\ goal[i].fmt # Untagged
      BY <2>1, <3>1 DEF CInv, Goals
    <3> QED
      BY <3>1, <3>2
  <2> QED
    BY <1>2, <2>1 DEF Goals
<1>6. Carried(links, goal, goal', Tagged(tag), NoNode)
  BY <1>2, <1>4 DEF Carried, Tagged
<1>7. Whole'
  <2>1. ASSUME NEW i \in Nodes, goal'[i] # NoGoal
        PROVE  tag[i] = goal'[i].fmt /\ Holds(links', kind', data', goal', Tagged(tag), i, {})
    BY <1>1, <1>4, <1>6, <2>1, WholeStays DEF CInv
  <2> QED
    BY <2>1 DEF Whole
<1> QED
  BY <1>2, <1>3, <1>5, <1>7, EmptyFillings DEF CInv

(* The call raises before the next entry is written ... *)
LEMMA RaiseCommit ==
    ASSUME IInv, CInv, Raise
    PROVE  CInv'
<1>1. stack # <<>> /\ Abandon /\ UNCHANGED <<links, kind, data, tag>>
  BY DEF Raise, file
<1>2. OthersStay(links, links', Top.sub.grp)
  BY <1>1 DEF OthersStay
<1> QED
  BY <1>1, <1>2, SameDense, AbandonCommit

(* ... or while it is, and leaves a dataset that was not filled.           *)
LEMMA RaiseTornCommit ==
    ASSUME IInv, CInv, NEW k \in Names, RaiseTorn(k)
    PROVE  CInv'
<1>1. PICK n \in Unused :
        /\ stack # <<>> /\ IsNext(n)
        /\ NewObject(n, "data")
        /\ Abandon /\ UNCHANGED <<data, tag>>
  BY DEF RaiseTorn, Storing
<1>2. PICK w2 : Effect(links, Top.sub, links', w2, k)
  BY RecursionEffect
<1>3. OthersStay(links, links', Top.sub.grp)
  BY <1>2 DEF Effect, OthersStay
<1>4. Grows(kind, data, kind', data')
  BY <1>1, NewObjectGrows DEF IInv
<1>5. Dense' /\ \A m \in Nodes : kind[m] # "none" => kind'[m] = kind[m]
  BY <1>1, NewDense DEF CInv
<1> QED
  BY <1>1, <1>3, <1>4, <1>5, AbandonCommit
-----------------------------------------------------------------------------
(* The theorem.                                                            *)

(* In a new file no group was made for anything. *)
LEMMA InitCommit == Init => CInv
<1> SUFFICES ASSUME Init PROVE CInv
  OBVIOUS
<1>1. stack = <<>> /\ Nodes \subseteq Nat /\ Root = 0
  BY NodeTypes DEF Init, Root
<1>2. /\ \A n \in Nodes : kind[n] = "none" <=> n # Root
      /\ \A n \in Nodes : tag[n] = Untagged /\ goal[n] = NoGoal
      /\ \A n \in Nodes, k \in Names : links[n][k].type = "none"
      /\ DOMAIN goal = Nodes
  BY DEF Init, EmptyGroup, NoLink
<1>3. Dense
  BY <1>1, <1>2 DEF Dense
<1>4. Fresh /\ Goals /\ Whole
  BY <1>2, Zenon DEF Fresh, Goals, Whole
<1>5. Fillings /\ Inwards
  BY <1>1, EmptyStack DEF Fillings, Inwards
<1> QED
  BY <1>3, <1>4, <1>5 DEF CInv

(* Every step of the archive preserves the invariant. *)
LEMMA NextCommit == ASSUME IInv, CInv, [Next]_vars PROVE CInv'
<1>1. ASSUME NEW v \in Views, OpenArchive(v) \/ Drop(v) PROVE CInv'
  BY <1>1, FileSame DEF OpenArchive, Drop, file, history
<1>2. ASSUME NEW v \in Views, NEW w \in Views, NEW k \in Names, GetRaw(v, k, w) PROVE CInv'
  BY <1>2, FileSame DEF GetRaw, file, history
<1>3. ASSUME NEW v \in Views, NEW k \in Names, NEW x \in Leaves, SetLeaf(v, k, x) PROVE CInv'
  BY <1>3, SetLeafCommit
<1>4. ASSUME NEW v \in Views, NEW k \in Names, SetRejected(v, k) \/ SetTorn(v, k) PROVE CInv'
  BY <1>4, SetRejectedCommit, SetTornCommit
<1>5. ASSUME NEW v \in Views, NEW k \in Names, NEW x \in Objects, SetGroup(v, k, x) PROVE CInv'
  BY <1>5, SetGroupCommit, ObjectsWellFormed
<1>6. ASSUME NEW v \in Views, NEW w \in Views, NEW k \in Names, CopyView(v, k, w) PROVE CInv'
  BY <1>6, CopyViewCommit
<1>7. ASSUME NEW v \in Views, NEW w \in Views, NEW j \in Names, NEW k \in Names, CopyEntry(v, k, w, j)
      PROVE  CInv'
  BY <1>7, CopyEntryCommit
<1>8. ASSUME NEW k \in Names, StoreLeaf(k) \/ StoreGroup(k) \/ RaiseTorn(k) PROVE CInv'
  BY <1>8, StoreLeafCommit, StoreGroupCommit, RaiseTornCommit
<1>9. CASE Finish
  BY <1>9, FinishCommit
<1>10. CASE Raise
  BY <1>10, RaiseCommit
<1>11. ASSUME NEW v \in Views, NEW k \in Names, DelItem(v, k) \/ CreateGroup(v, k) \/ CreateFails(v, k)
       PROVE  CInv'
  BY <1>11, DelItemCommit, CreateGroupCommit, CreateFailsCommit
<1>12. ASSUME NEW v \in Views, NEW s \in Aliases, CreateSoftlink(v, s[1], s[2]) PROVE CInv'
  BY <1>12, CreateSoftlinkCommit, AliasesAssumption
<1>13. CASE UNCHANGED vars
  BY <1>13, FileSame DEF vars
<1> QED
  BY <1>1, <1>2, <1>3, <1>4, <1>5, <1>6, <1>7, <1>8, <1>9, <1>10, <1>11, <1>12, <1>13 DEF Next

(* From the highest address down, a group with a Format reads as its goal. *)
LEMMA CommitFrom == ASSUME IInv, CInv PROVE CommitMark
<1>f. Now.links = links /\ Now.kind = kind /\ Now.data = data /\ Now.tag = tag
  BY DEF Now, Contents
<1>1. PICK f : /\ Evaluates(Now, ViewsIn(links), f, MaxNodes)
               /\ \A n : Value(links, kind, n) = f[MaxNodes][n]
  BY ValueUnfolds DEF Now
<1>2. MaxNodes \in Nat /\ Nodes \subseteq Nat /\ \A i \in Nodes : i < MaxNodes
  BY MaxNodesAssumption, NodeTypes DEF Nodes
<1> DEFINE Known(d) == \A i \in Nodes :
                MaxNodes <= i + d /\ tag[i] # Untagged /\ goal[i] # NoGoal => f[d][i] = goal[i]
           S == {d \in Nat : Known(d)}
<1>3. 0 \in S
  <2>1. \A i \in Nodes : ~(MaxNodes <= i + 0)
    BY <1>2
  <2> QED
    BY <2>1
<1>4. ASSUME NEW d \in Nat, d < MaxNodes, Known(d),
             NEW i \in Nodes, MaxNodes <= i + (d + 1), tag[i] # Untagged, goal[i] # NoGoal
      PROVE  f[d + 1][i] = goal[i]
  <2> HIDE DEF S
  <2> DEFINE x == goal[i]
             items == ItemsIn(links, f, d + 1, i)
  <2>1. d \in 0..MaxNodes /\ d + 1 \in 0..MaxNodes /\ d + 1 # 0 /\ (d + 1) - 1 = d
    BY <1>2, <1>4
  <2>2. /\ kind[i] = "group" /\ WellFormed(x) /\ x.type = "object"
        /\ tag[i] = x.fmt /\ Holds(links, kind, data, goal, Tagged(tag), i, {})
    BY <1>4 DEF CInv, Goals, Whole
  <2>3. /\ x = [type |-> "object", fmt |-> x.fmt, items |-> x.items]
        /\ x.items = [k \in DOMAIN x.items |-> x.items[k]]
        /\ DOMAIN x.items \subseteq Names
    BY <2>2, WellFormedParts
  <2>4. ASSUME NEW k \in DOMAIN x.items
        PROVE  /\ links[i][k].type # "none"
               /\ Resolve(links, i, k) \in Nodes
               /\ f[d][Resolve(links, i, k)] = x.items[k]
               /\ x.items[k] # Unreadable
    <3>1. Made(links, kind, data, goal, Tagged(tag), i, k, x.items[k])
      BY <2>2, <2>3 DEF Holds
    <3>2. PICK c \in Nodes :
            /\ links[i][k] = Hard(c)
            /\ i < c
            /\ \/ x.items[k] \in Plain /\ kind[c] = "data" /\ x.items[k] = Leaf(data[c])
               \/ x.items[k].type = "object" /\ goal[c] = x.items[k] /\ c \in Tagged(tag)
      BY <3>1, Zenon DEF Made
    <3>3. Resolve(links, i, k) = c /\ links[i][k].type # "none"
      BY <3>2, ResolveHard, LinkTypes
    <3>4. CASE kind[c] = "data" /\ x.items[k] = Leaf(data[c])
      <4>1. f[d][c] = Evaluated(Now, ViewsIn(links), f, d, c)
        BY <1>1, <1>2, <2>1, EvaluatesStep
      <4>2. f[d][c] = Leaf(data[c])
        BY <1>f, <3>4, <4>1, Zenon DEF Evaluated
      <4> QED
        BY <3>3, <3>4, <4>2, LeafTypes
    <3>5. CASE x.items[k].type = "object" /\ goal[c] = x.items[k] /\ c \in Tagged(tag)
      <4>1. goal[c] # NoGoal /\ x.items[k] # Unreadable /\ tag[c] # Untagged
        BY <3>5 DEF NoGoal, Unreadable, Tagged
      <4>2. MaxNodes <= c + d
        <5>1. c \in Nat /\ i \in Nat
          BY <1>2
        <5> QED
          BY <1>2, <1>4, <3>2, <5>1
      <4>3. f[d][c] = goal[c]
        BY <1>4, <4>1, <4>2
      <4> QED
        BY <3>3, <3>5, <4>1, <4>3
    <3> QED
      BY <3>2, <3>4, <3>5
  <2>5. \A k \in Names : k \notin DOMAIN x.items => links[i][k].type = "none"
    BY <2>2 DEF Holds
  <2>6. keys(links, i) = DOMAIN x.items
    BY <2>3, <2>4, <2>5 DEF keys, Lexists
  <2>7. listable(links, i)
    BY <2>4, <2>6, NodeTypes DEF listable, keys
  <2>8. items = x.items
    BY <2>1, <2>3, <2>4, <2>6 DEF ItemsIn
  <2>9. f[d + 1][i] = Evaluated(Now, ViewsIn(links), f, d + 1, i)
    BY <1>1, <1>2, <2>1, EvaluatesStep
  <2> HIDE DEF x
  <2>10. ~ \E k \in keys(links, i) : items[k] = Unreadable
    BY <2>4, <2>6, <2>8
  <2> DEFINE e == d + 1
  <2>11. /\ e # 0 /\ kind[i] # "data" /\ items = ItemsIn(links, f, e, i)
         /\ f[e][i] = Evaluated(Now, ViewsIn(links), f, e, i)
    BY <2>1, <2>2, <2>9
  <2> HIDE DEF e, items
  <2>12. f[e][i] = [type |-> "object", fmt |-> tag[i], items |-> items]
    BY <1>f, <1>4, <2>7, <2>10, <2>11, Zenon DEF Evaluated
  <2> QED
    BY <2>2, <2>3, <2>8, <2>12 DEF e, x
<1>5. ASSUME NEW d \in Nat, d < MaxNodes, d \in S PROVE d + 1 \in S
  BY <1>4, <1>5
<1> HIDE DEF Known
<1>6. 0..MaxNodes \subseteq S
  <2> HIDE DEF S
  <2> QED
    BY <1>2, <1>3, <1>5, UpTo
<1>7. Known(MaxNodes)
  BY <1>2, <1>6
<1>8. ASSUME NEW n \in Nodes, tag[n] # Untagged, goal[n] # NoGoal
      PROVE  f[MaxNodes][n] = goal[n]
  BY <1>2, <1>7, <1>8 DEF Known
<1> QED
  BY <1>1, <1>8, Zenon DEF CommitMark

(* A group with a Format reads back as the object that was stored in it,   *)
(* at any depth, through failed writes, exceptions, copies and any number  *)
(* of views, as long as no call changes something in it: __setitem__       *)
(* writes the Format last, and a group is never given one that still lacks *)
(* an entry (archive.py 176-182).                                          *)
THEOREM Commit == Spec => []CommitMark
<1>1. Init => IInv /\ CInv
  BY InitIInv, InitCommit
<1>2. IInv /\ CInv /\ [Next]_vars => (IInv /\ CInv)'
  BY NextIInv, NextCommit
<1>3. IInv /\ CInv => CommitMark
  BY CommitFrom
<1> QED
  BY <1>1, <1>2, <1>3, PTL DEF Spec
-----------------------------------------------------------------------------
(* Hard links lead to higher addresses that are used.                      *)

Upwards ==
    \A g \in Nodes, k \in Names : links[g][k].type = "hard" =>
        g < links[g][k].node /\ kind[links[g][k].node] # "none"

(* At most one link of a group changes; if it becomes a hard link, then to *)
(* the new object.                                                         *)
LEMMA LinkUpwards ==
    ASSUME IInv, CInv, Upwards, NEW g \in Nodes, kind[g] # "none", NEW k \in Names,
           \A h \in Nodes, j \in Names : h # g \/ j # k => links'[h][j] = links[h][j],
           \A m \in Nodes : kind[m] # "none" => kind'[m] # "none",
           \/ links'[g][k].type # "hard"
           \/ \E n \in Unused : IsNext(n) /\ links'[g][k] = Hard(n) /\ kind'[n] # "none"
    PROVE  Upwards'
<1>1. Nodes \subseteq Nat /\ \A n : Hard(n).type = "hard" /\ Hard(n).node = n
  BY NodeTypes, LinkTypes
<1>2. HardInNodes(links)
  BY TablesHardInNodes DEF IInv, TypeOK, Tables
<1>3. ASSUME NEW h \in Nodes, NEW j \in Names, links'[h][j].type = "hard"
      PROVE  h < links'[h][j].node /\ kind'[links'[h][j].node] # "none"
  <2>1. CASE h = g /\ j = k
    <3>1. PICK n \in Unused : IsNext(n) /\ links'[g][k] = Hard(n) /\ kind'[n] # "none"
      BY <1>3, <2>1
    <3>2. n \in Nodes /\ kind[n] = "none" /\ n # g
      BY <3>1 DEF Unused
    <3>3. ~(n < g)
      BY <3>2 DEF CInv, Dense
    <3>4. g < n
      BY <1>1, <3>2, <3>3
    <3> QED
      BY <1>1, <2>1, <3>1, <3>4
  <2>2. CASE ~(h = g /\ j = k)
    <3>1. links'[h][j] = links[h][j]
      BY <2>2
    <3> QED
      BY <1>2, <1>3, <3>1 DEF Upwards, HardInNodes
  <2> QED
    BY <2>1, <2>2
<1> QED
  BY <1>3 DEF Upwards

(* A step of a client's view, or of the innermost group. *)
LEMMA EffectUpwards ==
    ASSUME IInv, CInv, Upwards, NEW w, w.grp \in Nodes, kind[w.grp] # "none", NEW k \in Names, NEW w2,
           Effect(links, w, links', w2, k),
           \A m \in Nodes : kind[m] # "none" => kind'[m] # "none",
           \/ links' = links
           \/ links'[w.grp][k].type # "hard"
           \/ \E n \in Unused : IsNext(n) /\ links'[w.grp][k] = Hard(n) /\ kind'[n] # "none"
    PROVE  Upwards'
<1>1. CASE links' = links
  <2>1. HardInNodes(links)
    BY TablesHardInNodes DEF IInv, TypeOK, Tables
  <2> QED
    BY <1>1, <2>1 DEF Upwards, HardInNodes
<1>2. CASE links' # links
  <2>1. \A h \in Nodes, j \in Names : h # w.grp \/ j # k => links'[h][j] = links[h][j]
    BY DEF Effect
  <2> DEFINE g == w.grp
  <2>2. /\ g \in Nodes /\ kind[g] # "none"
        /\ \A h \in Nodes, j \in Names : h # g \/ j # k => links'[h][j] = links[h][j]
        /\ \/ links'[g][k].type # "hard"
           \/ \E n \in Unused : IsNext(n) /\ links'[g][k] = Hard(n) /\ kind'[n] # "none"
    BY <1>2, <2>1
  <2> HIDE DEF g
  <2> QED
    BY <2>2, LinkUpwards
<1> QED
  BY <1>1, <1>2

(* The calls of a client. *)
LEMMA ClientUpwards ==
    ASSUME IInv, CInv, Upwards, NEW v \in Views, NEW k \in Names,
           \/ \E x \in Leaves \cup {Fill} : SetLeaf(v, k, x)
           \/ SetTorn(v, k)
           \/ SetRejected(v, k)
           \/ DelItem(v, k)
           \/ CreateGroup(v, k)
           \/ CreateFails(v, k)
           \/ \E j \in Names : CreateSoftlink(v, j, k)
           \/ \E x : SetGroup(v, k, x)
    PROVE  Upwards'
<1> DEFINE w == view[v]
           c == Clean(links, w, k)
<1>1. IsOpen(v)
  BY DEF SetLeaf, SetTorn, SetRejected, DelItem, CreateGroup, CreateFails, CreateSoftlink, SetGroup, Ready
<1>2. w \in ViewType /\ links \in Tables /\ kind[w.grp] = "group" /\ w.grp \in Nodes
  BY <1>1, ReadyView DEF ViewType
<1>3. \A n : Hard(n).type = "hard"
  BY LinkTypes
<1>4. ASSUME NEW n \in Unused, IsNext(n), NewObject(n, "data") \/ NewObject(n, "group")
      PROVE  n \in Nodes /\ kind'[n] # "none" /\ \A m \in Nodes : kind[m] # "none" => kind'[m] # "none"
  BY <1>4, NewDense DEF CInv, Unused
<1>5. ASSUME NEW n \in Nodes, links' = LinkData(c.links, c.view, k, n)
      PROVE  links'[w.grp][k] = Hard(n) /\ \E w2 : Effect(links, w, links', w2, k)
  BY <1>2, <1>5, LeafEffect
<1>6. ASSUME NEW n \in Nodes, links' = MakeGroup(c.links, c.view, k, n).links
      PROVE  links'[w.grp][k] = Hard(n) /\ \E w2 : Effect(links, w, links', w2, k)
  BY <1>2, <1>6, GroupEffect
<1>7. ASSUME NEW n \in Nodes, links' = MakeGroup(links, w, k, n).links
      PROVE  links'[w.grp][k] = Hard(n) /\ \E w2 : Effect(links, w, links', w2, k)
  BY <1>2, <1>7, MakeEffect
<1>8. ASSUME links' = c.links
      PROVE  /\ links' = links \/ links'[w.grp][k].type = "none"
             /\ \E w2 : Effect(links, w, links', w2, k)
  BY <1>2, <1>8, CleanEffect
<1>9. ASSUME NEW n \in Unused, IsNext(n), NewObject(n, "data") \/ NewObject(n, "group"),
             links'[w.grp][k] = Hard(n), \E w2 : Effect(links, w, links', w2, k)
      PROVE  Upwards'
  <2> HIDE DEF w, c
  <2> QED
    BY <1>2, <1>4, <1>9, EffectUpwards
<1>10. CASE (\E x \in Leaves \cup {Fill} : SetLeaf(v, k, x)) \/ SetTorn(v, k)
  <2>1. PICK n \in Unused : /\ IsNext(n) /\ NewObject(n, "data")
                           /\ links' = LinkData(c.links, c.view, k, n)
    BY <1>10 DEF SetLeaf, SetTorn
  <2> HIDE DEF w, c
  <2> QED
    BY <1>4, <1>5, <1>9, <2>1
<1>11. CASE \E x : SetGroup(v, k, x)
  <2>1. PICK n \in Unused : /\ IsNext(n) /\ NewObject(n, "group")
                           /\ links' = MakeGroup(c.links, c.view, k, n).links
    BY <1>11 DEF SetGroup
  <2> HIDE DEF w, c
  <2> QED
    BY <1>4, <1>6, <1>9, <2>1
<1>12. CASE CreateGroup(v, k)
  <2>1. PICK n \in Unused : /\ IsNext(n) /\ NewObject(n, "group")
                           /\ links' = MakeGroup(links, w, k, n).links
    BY <1>12 DEF CreateGroup
  <2> HIDE DEF w, c
  <2> QED
    BY <1>4, <1>7, <1>9, <2>1
<1>13. CASE SetRejected(v, k) \/ DelItem(v, k) \/ CreateFails(v, k)
  <2>1. /\ kind' = kind
        /\ \/ links' = c.links
           \/ links' = unlink(c.links, w.grp, k, FALSE).links
           \/ links' = unlink(links, w.grp, k, FALSE).links
    BY <1>13 DEF SetRejected, DelItem, CreateFails
  <2>2. /\ links' = links \/ links'[w.grp][k].type = "none"
        /\ \E w2 : Effect(links, w, links', w2, k)
    <3>1. CASE links' = unlink(c.links, w.grp, k, FALSE).links
      BY <1>2, <3>1, GoneEffect
    <3>2. CASE links' = unlink(links, w.grp, k, FALSE).links
      BY <1>2, <3>2, UnlinkEffect
    <3> QED
      BY <1>8, <2>1, <3>1, <3>2
  <2> HIDE DEF w, c
  <2> QED
    BY <1>2, <2>1, <2>2, EffectUpwards
<1>14. CASE \E j \in Names : CreateSoftlink(v, j, k)
  <2>1. PICK j \in Names : /\ create_softlink(links, w.grp, j, k, TRUE, TRUE).ok
                           /\ links' = create_softlink(links, w.grp, j, k, TRUE, TRUE).links
                           /\ kind' = kind
    BY <1>14 DEF CreateSoftlink
  <2> HIDE DEF w
  <2>2. Sets(links, links', w.grp, k, Soft(j))
    BY <1>2, <2>1, SoftlinkSets
  <2>3. Soft(j).type # "hard"
    BY LinkTypes
  <2> DEFINE g == w.grp
  <2>4. g \in Nodes /\ kind[g] # "none" /\ links'[g][k].type # "hard"
        /\ \A h \in Nodes, i \in Names : h # g \/ i # k => links'[h][i] = links[h][i]
    BY <1>2, <2>2, <2>3 DEF Sets
  <2> HIDE DEF g
  <2> QED
    BY <2>1, <2>4, LinkUpwards
<1> QED
  BY <1>10, <1>11, <1>12, <1>13, <1>14

(* The steps of the recursion that make an object. *)
LEMMA RecursionUpwards ==
    ASSUME IInv, CInv, Upwards, NEW k \in Names, StoreLeaf(k) \/ StoreGroup(k) \/ RaiseTorn(k)
    PROVE  Upwards'
<1> DEFINE w == Top.sub
           c == Clean(links, w, k)
<1>1. stack # <<>>
  BY DEF StoreLeaf, StoreGroup, RaiseTorn, Storing
<1>2. w \in ViewType /\ links \in Tables /\ kind[w.grp] = "group" /\ w.grp \in Nodes
  BY <1>1, TopFrame DEF Owned, ViewType
<1>3. ASSUME NEW n \in Nodes, links' = LinkData(c.links, c.view, k, n)
      PROVE  links'[w.grp][k] = Hard(n) /\ \E w2 : Effect(links, w, links', w2, k)
  BY <1>2, <1>3, LeafEffect
<1>4. ASSUME NEW n \in Nodes, links' = MakeGroup(c.links, c.view, k, n).links
      PROVE  links'[w.grp][k] = Hard(n) /\ \E w2 : Effect(links, w, links', w2, k)
  BY <1>2, <1>4, GroupEffect
<1>5. PICK n \in Unused :
        /\ IsNext(n)
        /\ NewObject(n, "data") \/ NewObject(n, "group")
        /\ \/ links' = LinkData(c.links, c.view, k, n)
           \/ links' = MakeGroup(c.links, c.view, k, n).links
  BY DEF StoreLeaf, StoreGroup, RaiseTorn
<1> HIDE DEF w, c
<1>6. /\ IsNext(n) /\ n \in Nodes /\ kind'[n] # "none"
      /\ \A m \in Nodes : kind[m] # "none" => kind'[m] # "none"
  BY <1>5, NewDense DEF CInv, Unused
<1> QED
  BY <1>2, <1>3, <1>4, <1>5, <1>6, EffectUpwards

(* Every step of the archive keeps the file without cycles. *)
LEMMA NextUpwards == ASSUME IInv, CInv, Upwards, [Next]_vars PROVE Upwards'
<1>1. CASE links' = links /\ kind' = kind
  BY <1>1 DEF Upwards
<1>2. CASE \E v \in Views : OpenArchive(v) \/ Drop(v)
  BY <1>1, <1>2 DEF OpenArchive, Drop, file
<1>3. CASE \E v, w \in Views, k \in Names : GetRaw(v, k, w)
  BY <1>1, <1>3 DEF GetRaw, file
<1>4. CASE \E v \in Views, k \in Names, x \in Leaves : SetLeaf(v, k, x)
  BY <1>4, ClientUpwards
<1>5. CASE \E v \in Views, k \in Names : SetRejected(v, k) \/ SetTorn(v, k)
  BY <1>5, ClientUpwards
<1>6. CASE \E v \in Views, k \in Names, x \in Objects : SetGroup(v, k, x)
  BY <1>6, ClientUpwards
<1>7. CASE \E v, w \in Views, k \in Names : CopyView(v, k, w)
  BY <1>7, ClientUpwards DEF CopyView
<1>8. CASE \E v, w \in Views, j, k \in Names : CopyEntry(v, k, w, j)
  <2>1. PICK v \in Views, w \in Views, j \in Names, k \in Names : CopyEntry(v, k, w, j)
    BY <1>8
  <2> DEFINE n == Resolve(links, view[w].grp, j)
  <2>2. CASE has_dataset(links, kind, view[w].grp, j) /\ SetLeaf(v, k, data[n])
    <3>1. n \in Nodes
      BY <2>2 DEF has_dataset
    <3> HIDE DEF n
    <3>2. data[n] \in Leaves \cup {Fill}
      BY <3>1 DEF IInv, TypeOK
    <3> QED
      BY <2>2, <3>2, ClientUpwards
  <2>3. CASE \E x : SetGroup(v, k, x)
    BY <2>3, ClientUpwards
  <2> QED
    BY <2>1, <2>2, <2>3 DEF CopyEntry
<1>9. CASE \E k \in Names : StoreLeaf(k) \/ StoreGroup(k) \/ RaiseTorn(k)
  BY <1>9, RecursionUpwards
<1>10. CASE Finish \/ Raise
  BY <1>1, <1>10 DEF Finish, Raise, file
<1>11. CASE \E v \in Views, k \in Names : DelItem(v, k) \/ CreateGroup(v, k) \/ CreateFails(v, k)
  BY <1>11, ClientUpwards
<1>12. CASE \E v \in Views, s \in Aliases : CreateSoftlink(v, s[1], s[2])
  <2>1. \A s \in Aliases : s[1] \in Names /\ s[2] \in Names
    BY AliasesAssumption
  <2> QED
    BY <1>12, <2>1, ClientUpwards
<1>13. CASE UNCHANGED vars
  BY <1>1, <1>13 DEF vars
<1> QED
  BY <1>2, <1>3, <1>4, <1>5, <1>6, <1>7, <1>8, <1>9, <1>10, <1>11, <1>12, <1>13 DEF Next

(* There are no links in a new file. *)
LEMMA InitUpwards == Init => Upwards
<1> SUFFICES ASSUME Init PROVE Upwards
  OBVIOUS
<1>1. \A g \in Nodes, k \in Names : links[g][k].type = "none"
  BY DEF Init, EmptyGroup, NoLink
<1> QED
  BY <1>1 DEF Upwards
-----------------------------------------------------------------------------
(* A copy under way.                                                       *)

(* R are the objects below the source of a copy, src tells which group a   *)
(* new one copies, and first is the copy of the source itself; want is     *)
(* what that must read as.                                                 *)
ItemWanted(F, s, k) ==
    IF Resolve(F.links, s, k) = NoNode THEN Unreadable
    ELSE Reads(F, NoViews, Resolve(F.links, s, k))

Source(F, want, first, R, src) ==
    /\ Enclosed(F.links, R)
    /\ \A m \in R : m < first /\ F.kind[m] # "none"
    /\ first \in Nodes /\ src[first] \in R
    /\ want = [type |-> "object", fmt |-> Untagged, items |-> want.items]
    /\ want.items = [k \in DOMAIN want.items |-> ItemWanted(F, src[first], k)]
    /\ DOMAIN want.items \subseteq Names

(* Entry k of group c copies that of its source ... *)
CopiedAs(F, src, c, k) ==
    \E c2 \in Nodes :
        /\ F.links[c][k] = Hard(c2)
        /\ Resolve(F.links, src[c], k) # NoNode
        /\ LET s == Resolve(F.links, src[c], k)
           IN  \/ F.kind[s] = "data" /\ F.kind[c2] = "data" /\ F.data[c2] = F.data[s]
               \/ F.kind[s] = "group" /\ F.kind[c2] = "group" /\ src[c2] = s

(* ... as do those in K, and c has no others. *)
Copied(F, src, c, K) ==
    \A k \in Names : IF k \in K THEN CopiedAs(F, src, c, k) ELSE F.links[c][k].type = "none"

(* The entries that group c is to have. *)
Entries(F, want, first, src, c) ==
    IF c = first THEN DOMAIN want.items ELSE keys(F.links, src[c])

(* What is still to be stored in group c was read from its source. *)
Pending(F, want, first, R, src, c, fmt, todo) ==
    /\ first <= c
    /\ src[c] \in R /\ F.kind[src[c]] = "group"
    /\ c # first => fmt = F.tag[src[c]]
    /\ DOMAIN todo \subseteq Entries(F, want, first, src, c)
    /\ \A k \in DOMAIN todo : todo[k] # Unreadable =>
         /\ Resolve(F.links, src[c], k) # NoNode
         /\ todo[k] = Reads(F, ViewsIn(F.links), Resolve(F.links, src[c], k))

Partial(F, want, first, R, src, f) ==
    LET c == f.sub.grp
    IN  /\ Pending(F, want, first, R, src, c, f.fmt, f.todo)
        /\ Copied(F, src, c, Entries(F, want, first, src, c) \ DOMAIN f.todo)

Complete(F, R, src, c) ==
    /\ src[c] \in R /\ F.kind[src[c]] = "group"
    /\ F.tag[c] = F.tag[src[c]]
    /\ Copied(F, src, c, keys(F.links, src[c]))

(* The groups made since first are being filled, or complete. *)
Copying(F, want, first, s, R, src) ==
    /\ DOMAIN src = Nodes
    /\ Source(F, want, first, R, src)
    /\ s[Len(s)].sub.grp = first
    /\ \A i \in 1..Len(s) : Partial(F, want, first, R, src, s[i])
    /\ \A c \in Nodes : first < c /\ F.kind[c] = "group" /\ c \notin Groups(s) =>
                          Complete(F, R, src, c)

Copies ==
    call.type = "set" /\ call.want # NoGoal =>
        \E R, src : Copying(Now, call.want, call.first, stack, R, src)
-----------------------------------------------------------------------------
(* What a step leaves of a copy.                                           *)

(* File H is F but for what holds none of the source, new objects and      *)
(* links; src2 is src but for new groups.                                  *)
Moved(F, H, R, src, src2) ==
    /\ Enclosed(F.links, R) /\ SameOn(F, H, R)
    /\ \A c \in R : F.kind[c] # "none"
    /\ \A c \in Nodes : F.kind[c] # "none" =>
         H.kind[c] = F.kind[c] /\ H.data[c] = F.data[c] /\ src2[c] = src[c]
    /\ \A c \in Nodes, k \in Names : F.links[c][k].type = "hard" =>
         F.kind[F.links[c][k].node] # "none"

(* The views of groups of the source stay. *)
LEMMA ViewsStay ==
    ASSUME NEW F, NEW H, NEW R, Enclosed(F.links, R), SameOn(F, H, R), NEW m \in R
    PROVE  ViewsIn(F.links)[m] = ViewsIn(H.links)[m]
<1>1. keys(F.links, m) = keys(H.links, m) /\ m \in Nodes
  BY SameRow DEF SameOn, Enclosed
<1> QED
  BY <1>1 DEF ViewsIn, OpenAt

(* What the source holds stays. *)
LEMMA MovedSource ==
    ASSUME NEW F, NEW H, NEW R, NEW src, NEW src2, Moved(F, H, R, src, src2), NEW m \in R
    PROVE  /\ m \in Nodes /\ H.kind[m] = F.kind[m] /\ H.data[m] = F.data[m] /\ H.tag[m] = F.tag[m]
           /\ \A k : Resolve(H.links, m, k) = Resolve(F.links, m, k)
           /\ \A k \in Names : Resolve(F.links, m, k) # NoNode => Resolve(F.links, m, k) \in R
           /\ keys(H.links, m) = keys(F.links, m)
           /\ Reads(H, NoViews, m) = Reads(F, NoViews, m)
           /\ Reads(H, ViewsIn(H.links), m) = Reads(F, ViewsIn(F.links), m)
<1>1. Enclosed(F.links, R) /\ SameOn(F, H, R)
  BY DEF Moved
<1>2. m \in Nodes /\ \A k \in Names : Resolve(F.links, m, k) # NoNode => Resolve(F.links, m, k) \in R
  BY <1>1 DEF Enclosed
<1>3. /\ H.links[m] = F.links[m] /\ H.kind[m] = F.kind[m]
      /\ H.data[m] = F.data[m] /\ H.tag[m] = F.tag[m]
  BY <1>1 DEF SameOn
<1>4. /\ \A k : Resolve(H.links, m, k) = Resolve(F.links, m, k)
      /\ keys(H.links, m) = keys(F.links, m)
  BY <1>3, SameRow
<1>5. Reads(H, NoViews, m) = Reads(F, NoViews, m)
  BY <1>1, ReadsSame
<1>6. Reads(H, ViewsIn(H.links), m) = Reads(F, ViewsIn(F.links), m)
  <2> DEFINE a == ViewsIn(F.links)
             b == ViewsIn(H.links)
  <2>1. \A i \in R : a[i] = b[i]
    BY <1>1, ViewsStay
  <2> HIDE DEF a, b
  <2>2. Reads(H, b, m) = Reads(F, a, m)
    BY <1>1, <2>1, ReadsSame
  <2> QED
    BY <2>2 DEF a, b
<1> QED
  BY <1>2, <1>3, <1>4, <1>5, <1>6

(* So the copy is of the same source, and is to read the same. *)
LEMMA SourceStays ==
    ASSUME NEW F, NEW H, NEW R, NEW src, NEW src2, Moved(F, H, R, src, src2),
           NEW want, NEW first, Source(F, want, first, R, src), F.kind[first] # "none"
    PROVE  Source(H, want, first, R, src2)
<1>1. /\ first \in Nodes /\ src2[first] = src[first] /\ src[first] \in R
      /\ DOMAIN want.items \subseteq Names
  BY DEF Source, Moved
<1>2. Enclosed(H.links, R) /\ \A m \in R : m < first /\ H.kind[m] # "none"
  <2>1. R \subseteq Nodes /\ \A m \in R : m < first /\ F.kind[m] # "none"
    BY DEF Source, Enclosed
  <2> QED
    BY <2>1, MovedSource DEF Enclosed
<1>3. ASSUME NEW k \in DOMAIN want.items
      PROVE  ItemWanted(H, src2[first], k) = ItemWanted(F, src[first], k)
  <2> DEFINE r == Resolve(F.links, src[first], k)
  <2>1. Resolve(H.links, src2[first], k) = r /\ (r # NoNode => r \in R)
    <3>1. /\ \A j : Resolve(H.links, src[first], j) = Resolve(F.links, src[first], j)
          /\ \A j \in Names : Resolve(F.links, src[first], j) # NoNode =>
                            Resolve(F.links, src[first], j) \in R
      BY <1>1, MovedSource
    <3>2. k \in Names
      BY <1>1
    <3> QED
      BY <1>1, <3>1, <3>2
  <2>2. r # NoNode => Reads(H, NoViews, r) = Reads(F, NoViews, r)
    <3> HIDE DEF r
    <3> QED
      BY <2>1, MovedSource
  <2> QED
    BY <2>1, <2>2, Zenon DEF ItemWanted
<1> QED
  BY <1>1, <1>2, <1>3 DEF Source

(* Entries stay copied ... *)
LEMMA CopiedAsStays ==
    ASSUME NEW F, NEW H, NEW R, NEW src, NEW src2, Moved(F, H, R, src, src2),
           NEW c \in Nodes, F.kind[c] # "none", src[c] \in R,
           NEW k \in Names, H.links[c][k] = F.links[c][k], CopiedAs(F, src, c, k)
    PROVE  CopiedAs(H, src2, c, k)
<1> DEFINE s == Resolve(F.links, src[c], k)
<1>1. PICK c2 \in Nodes :
        /\ F.links[c][k] = Hard(c2)
        /\ s # NoNode
        /\ \/ F.kind[s] = "data" /\ F.kind[c2] = "data" /\ F.data[c2] = F.data[s]
           \/ F.kind[s] = "group" /\ F.kind[c2] = "group" /\ src[c2] = s
  BY DEF CopiedAs
<1>2. src2[c] = src[c] /\ Resolve(H.links, src2[c], k) = s /\ s \in R
  <2>1. src2[c] = src[c]
    BY DEF Moved
  <2> QED
    BY <1>1, <2>1, MovedSource
<1>3. H.kind[s] = F.kind[s] /\ H.data[s] = F.data[s]
  BY <1>2, MovedSource
<1>4. H.kind[c2] = F.kind[c2] /\ H.data[c2] = F.data[c2] /\ src2[c2] = src[c2]
  <2>1. F.links[c][k].type = "hard" /\ F.links[c][k].node = c2
    BY <1>1, LinkTypes
  <2> QED
    BY <2>1 DEF Moved
<1> HIDE DEF s
<1>5. /\ H.links[c][k] = Hard(c2)
      /\ Resolve(H.links, src2[c], k) = s /\ s # NoNode
      /\ \/ H.kind[s] = "data" /\ H.kind[c2] = "data" /\ H.data[c2] = H.data[s]
         \/ H.kind[s] = "group" /\ H.kind[c2] = "group" /\ src2[c2] = s
  BY <1>1, <1>2, <1>3, <1>4
<1> QED
  BY <1>5, Zenon DEF CopiedAs

(* ... in a group that is not changed, ... *)
LEMMA CopiedStays ==
    ASSUME NEW F, NEW H, NEW R, NEW src, NEW src2, Moved(F, H, R, src, src2),
           NEW c \in Nodes, F.kind[c] # "none", src[c] \in R,
           \A k \in Names : H.links[c][k] = F.links[c][k],
           NEW K, Copied(F, src, c, K)
    PROVE  Copied(H, src2, c, K)
<1>1. ASSUME NEW k \in Names, k \in K PROVE CopiedAs(H, src2, c, k)
  BY <1>1, CopiedAsStays DEF Copied
<1>2. ASSUME NEW k \in Names, k \notin K PROVE H.links[c][k].type = "none"
  BY <1>2 DEF Copied
<1> QED
  BY <1>1, <1>2 DEF Copied

(* ... and what is to come stays so. *)
LEMMA PendingStays ==
    ASSUME NEW F, NEW H, NEW R, NEW src, NEW src2, Moved(F, H, R, src, src2),
           NEW want, NEW first, NEW c \in Nodes, F.kind[c] # "none",
           Entries(F, want, first, src, c) \subseteq Names,
           NEW fmt, NEW todo, Pending(F, want, first, R, src, c, fmt, todo)
    PROVE  /\ Pending(H, want, first, R, src2, c, fmt, todo)
           /\ Entries(H, want, first, src2, c) = Entries(F, want, first, src, c)
<1>1. src2[c] = src[c] /\ src[c] \in R
  BY DEF Moved, Pending
<1>2. /\ H.kind[src[c]] = F.kind[src[c]] /\ H.tag[src[c]] = F.tag[src[c]]
      /\ \A k : Resolve(H.links, src[c], k) = Resolve(F.links, src[c], k)
      /\ \A k \in Names : Resolve(F.links, src[c], k) # NoNode => Resolve(F.links, src[c], k) \in R
      /\ keys(H.links, src[c]) = keys(F.links, src[c])
  BY <1>1, MovedSource
<1>3. Entries(H, want, first, src2, c) = Entries(F, want, first, src, c)
  BY <1>1, <1>2 DEF Entries
<1>4. ASSUME NEW k \in DOMAIN todo, todo[k] # Unreadable
      PROVE  /\ Resolve(H.links, src2[c], k) # NoNode
             /\ todo[k] = Reads(H, ViewsIn(H.links), Resolve(H.links, src2[c], k))
  <2> DEFINE r == Resolve(F.links, src[c], k)
  <2>1. k \in Names /\ r # NoNode /\ todo[k] = Reads(F, ViewsIn(F.links), r)
    BY <1>4 DEF Pending
  <2>2. r \in R /\ Resolve(H.links, src2[c], k) = r
    BY <1>1, <1>2, <2>1
  <2> HIDE DEF r
  <2>3. Reads(H, ViewsIn(H.links), r) = Reads(F, ViewsIn(F.links), r)
    BY <2>2, MovedSource
  <2> QED
    BY <2>1, <2>2, <2>3
<1>5. /\ first <= c /\ F.kind[src[c]] = "group" /\ (c # first => fmt = F.tag[src[c]])
      /\ DOMAIN todo \subseteq Entries(F, want, first, src, c)
  BY DEF Pending
<1>6. Pending(H, want, first, R, src2, c, fmt, todo)
  BY <1>1, <1>2, <1>3, <1>4, <1>5 DEF Pending
<1> QED
  BY <1>3, <1>6

(* The entries of groups are names. *)
LEMMA EntriesNames ==
    ASSUME NEW F, NEW want, NEW first, NEW R, NEW src, Source(F, want, first, R, src), NEW c
    PROVE  Entries(F, want, first, src, c) \subseteq Names
  BY DEF Entries, Source, keys

(* A frame of a group that is not changed goes on, ... *)
LEMMA PartialStays ==
    ASSUME NEW F, NEW H, NEW R, NEW src, NEW src2, Moved(F, H, R, src, src2),
           NEW want, NEW first, Source(F, want, first, R, src),
           NEW f, NEW c \in Nodes, f.sub.grp = c, F.kind[c] # "none",
           \A k \in Names : H.links[c][k] = F.links[c][k],
           Partial(F, want, first, R, src, f)
    PROVE  Partial(H, want, first, R, src2, f)
<1> DEFINE K == Entries(F, want, first, src, c) \ DOMAIN f.todo
<1>1. Pending(F, want, first, R, src, c, f.fmt, f.todo) /\ Copied(F, src, c, K)
  BY DEF Partial
<1>2. src[c] \in R
  BY <1>1 DEF Pending
<1>3. /\ Pending(H, want, first, R, src2, c, f.fmt, f.todo)
      /\ Entries(H, want, first, src2, c) = Entries(F, want, first, src, c)
  BY <1>1, EntriesNames, PendingStays
<1> HIDE DEF K
<1>4. Copied(H, src2, c, K)
  BY <1>1, <1>2, CopiedStays
<1> QED
  BY <1>3, <1>4 DEF Partial, K

(* ... that of the group c that got entry k with one entry less, ... *)
Gained(F, H, src2, c, k, f, f2) ==
    /\ c \in Nodes /\ f.sub.grp = c /\ F.kind[c] # "none"
    /\ k \in Names /\ k \in DOMAIN f.todo /\ CopiedAs(H, src2, c, k)
    /\ \A j \in Names : j # k => H.links[c][j] = F.links[c][j]
    /\ f2.sub.grp = c /\ f2.fmt = f.fmt
    /\ f2.todo = [j \in DOMAIN f.todo \ {k} |-> f.todo[j]]

(* That frame still lacks what it lacked, but for k. *)
LEMMA PartialAdvances ==
    ASSUME NEW F, NEW H, NEW R, NEW src, NEW src2, Moved(F, H, R, src, src2),
           NEW want, NEW first, Source(F, want, first, R, src),
           NEW f, Partial(F, want, first, R, src, f),
           NEW c, NEW k, NEW f2, Gained(F, H, src2, c, k, f, f2)
    PROVE  Partial(H, want, first, R, src2, f2)
<1> DEFINE K == Entries(F, want, first, src, c) \ DOMAIN f.todo
           K2 == Entries(H, want, first, src2, c) \ DOMAIN f2.todo
<1>0. /\ c \in Nodes /\ f.sub.grp = c /\ F.kind[c] # "none"
      /\ k \in Names /\ k \in DOMAIN f.todo /\ CopiedAs(H, src2, c, k)
      /\ \A j \in Names : j # k => H.links[c][j] = F.links[c][j]
      /\ f2.sub.grp = c /\ f2.fmt = f.fmt
      /\ f2.todo = [j \in DOMAIN f.todo \ {k} |-> f.todo[j]]
  BY DEF Gained
<1>1. Pending(F, want, first, R, src, c, f.fmt, f.todo) /\ Copied(F, src, c, K)
  BY <1>0 DEF Partial
<1>2. src[c] \in R /\ k \in Entries(F, want, first, src, c)
  BY <1>0, <1>1 DEF Pending
<1>3. /\ Pending(H, want, first, R, src2, c, f.fmt, f.todo)
      /\ Entries(H, want, first, src2, c) = Entries(F, want, first, src, c)
  BY <1>0, <1>1, EntriesNames, PendingStays
<1>4. DOMAIN f2.todo = DOMAIN f.todo \ {k} /\ \A j \in DOMAIN f2.todo : f2.todo[j] = f.todo[j]
  BY <1>0
<1>5. K2 = K \cup {k}
  BY <1>2, <1>3, <1>4
<1>6. Pending(H, want, first, R, src2, c, f2.fmt, f2.todo)
  BY <1>0, <1>3, <1>4 DEF Pending
<1> HIDE DEF K, K2
<1>7. ASSUME NEW j \in Names, j \in K2 PROVE CopiedAs(H, src2, c, j)
  <2>1. CASE j = k
    BY <1>0, <2>1
  <2>2. CASE j # k
    <3>1. j \in K
      BY <1>5, <1>7, <2>2
    <3> QED
      BY <1>0, <1>1, <1>2, <2>2, <3>1, CopiedAsStays DEF Copied
  <2> QED
    BY <2>1, <2>2
<1>8. ASSUME NEW j \in Names, j \notin K2 PROVE H.links[c][j].type = "none"
  <2>1. j # k /\ j \notin K
    BY <1>5, <1>8
  <2> QED
    BY <1>0, <1>1, <2>1 DEF Copied
<1>9. Copied(H, src2, c, K2)
  BY <1>7, <1>8 DEF Copied
<1> QED
  BY <1>0, <1>6, <1>9 DEF Partial, K2

(* ... and complete groups stay complete. *)
LEMMA CompleteStays ==
    ASSUME NEW F, NEW H, NEW R, NEW src, NEW src2, Moved(F, H, R, src, src2),
           NEW c \in Nodes, F.kind[c] # "none", H.tag[c] = F.tag[c],
           \A k \in Names : H.links[c][k] = F.links[c][k],
           Complete(F, R, src, c)
    PROVE  Complete(H, R, src2, c)
<1>1. src2[c] = src[c] /\ src[c] \in R
  BY DEF Moved, Complete
<1>2. /\ H.kind[src[c]] = F.kind[src[c]] /\ H.tag[src[c]] = F.tag[src[c]]
      /\ keys(H.links, src[c]) = keys(F.links, src[c])
  BY <1>1, MovedSource
<1> DEFINE K == keys(F.links, src[c])
<1>3. Copied(F, src, c, K)
  BY DEF Complete
<1> HIDE DEF K
<1>4. Copied(H, src2, c, K)
  BY <1>1, <1>3, CopiedStays
<1> QED
  BY <1>1, <1>2, <1>4 DEF Complete, K
-----------------------------------------------------------------------------
(* The frames of a copy.                                                   *)

(* Arrays and scalars, views and objects are told apart. *)
LEMMA ValueTypes ==
    ASSUME NEW w, NEW fmt, NEW items
    PROVE  /\ ViewOf(w).type = "view" /\ ViewOf(w).grp = w.grp /\ ViewOf(w).keys = w.keys
           /\ ViewOf(w) # NoGoal /\ ViewOf(w) # Unreadable /\ ViewOf(w) \notin Plain
           /\ [type |-> "object", fmt |-> fmt, items |-> items] # Unreadable
           /\ [type |-> "object", fmt |-> fmt, items |-> items] \notin Plain
  BY DEF ViewOf, NoGoal, Unreadable, Plain, Leaf

(* What an object of the source reads as that can be read: what a dataset  *)
(* holds, a view, or the object of a group with a Format.                  *)
LEMMA ReadableIs ==
    ASSUME NEW F, F.links \in Tables, Rising(F.links), NEW s \in Nodes, NEW x,
           F.kind[s] \in {"group", "data"}, x = Reads(F, ViewsIn(F.links), s), x # Unreadable
    PROVE  \/ F.kind[s] = "data" /\ x = Leaf(F.data[s])
           \/ F.kind[s] = "group" /\ F.tag[s] = Untagged /\ x = ViewOf(OpenAt(F.links, s))
           \/ /\ F.kind[s] = "group" /\ listable(F.links, s)
              /\ x = [type |-> "object", fmt |-> F.tag[s],
                      items |-> ItemsRead(F, ViewsIn(F.links), s)]
<1> DEFINE bare == ViewsIn(F.links)
           y == ViewOf(OpenAt(F.links, s))
           items == ItemsRead(F, bare, s)
<1>1. bare[s] = y
  BY DEF ViewsIn
<1>2. y # NoGoal
  BY ValueTypes
<1>3. x = Reads(F, bare, s)
  OBVIOUS
<1> HIDE DEF bare, y
<1>4. x = IF F.kind[s] = "data" THEN Leaf(F.data[s])
          ELSE IF ~listable(F.links, s) THEN Unreadable
          ELSE IF F.tag[s] = Untagged /\ bare[s] # NoGoal THEN bare[s]
          ELSE IF \E k \in keys(F.links, s) : items[k] = Unreadable THEN Unreadable
          ELSE [type |-> "object", fmt |-> F.tag[s], items |-> items]
  BY <1>3, ReadsIs
<1> HIDE DEF items
<1>5. CASE F.kind[s] = "data"
  BY <1>4, <1>5
<1>6. CASE F.kind[s] # "data" /\ F.tag[s] = Untagged
  <2>1. listable(F.links, s)
    BY <1>4, <1>6, Zenon
  <2>2. x = y
    BY <1>1, <1>2, <1>4, <1>6, <2>1, Zenon
  <2> QED
    BY <1>6, <2>2 DEF y
<1>7. CASE F.kind[s] # "data" /\ F.tag[s] # Untagged
  <2>1. listable(F.links, s)
    BY <1>4, <1>7, Zenon
  <2>2. ~ \E k \in keys(F.links, s) : items[k] = Unreadable
    BY <1>4, <1>7, <2>1, Zenon
  <2>3. x = [type |-> "object", fmt |-> F.tag[s], items |-> items]
    BY <1>4, <1>7, <2>1, <2>2, Zenon
  <2> QED
    BY <1>7, <2>1, <2>3 DEF items, bare
<1> QED
  BY <1>5, <1>6, <1>7

(* File H is this one with a new group n. *)
Grown(H, lnk, n) == H = Contents(lnk, [kind EXCEPT ![n] = "group"], data, tag)

(* The frame for a view x: its entries are read when the new group n is    *)
(* there, in file H.                                                       *)
LEMMA ViewFrame ==
    ASSUME NEW m, m.links \in Tables, NEW k, NEW n, NEW x, x.type = "view",
           NEW f, f = FrameFor(m, k, n, x),
           NEW H, Grown(H, m.links, n)
    PROVE  /\ f.fmt = Untagged
           /\ DOMAIN f.todo = {j \in Names : Contains(x, j)}
           /\ \A j \in DOMAIN f.todo : f.todo[j] # Unreadable =>
                /\ Resolve(H.links, x.grp, j) # NoNode
                /\ f.todo[j] = Reads(H, ViewsIn(H.links), Resolve(H.links, x.grp, j))
<1> DEFINE knd == [kind EXCEPT ![n] = "group"]
<1>1. f.fmt = Untagged /\ f.todo = Items(m.links, knd, x)
  BY DEF FrameFor, Frame
<1>2. H.links = m.links /\ H = Contents(m.links, knd, data, tag)
  BY DEF Grown, Contents
<1> HIDE DEF knd
<1>3. /\ DOMAIN f.todo = {j \in Names : Contains(x, j)}
      /\ \A j \in DOMAIN f.todo : f.todo[j] = Read(m.links, knd, x, j)
  BY <1>1 DEF Items
<1>4. ASSUME NEW j \in DOMAIN f.todo, f.todo[j] # Unreadable
      PROVE  /\ Resolve(H.links, x.grp, j) # NoNode
             /\ f.todo[j] = Reads(H, ViewsIn(H.links), Resolve(H.links, x.grp, j))
  <2> DEFINE r == Resolve(m.links, x.grp, j)
  <2>1. r \in Nodes /\ f.todo[j] = Value(m.links, knd, r)
    BY <1>3, <1>4 DEF Read, has_subgroup, has_dataset
  <2> HIDE DEF r
  <2>2. Value(m.links, knd, r) = Reads(H, ViewsIn(H.links), r)
    BY <1>2, <2>1, ValueReads
  <2> QED
    BY <1>2, <2>1, <2>2, NodeTypes DEF r
<1> QED
  BY <1>1, <1>3, <1>4

(* The frame of a nested group: its source s was read in file F, and in    *)
(* file H the new group n is there.                                        *)
LEMMA NestedFrame ==
    ASSUME NEW F, F.links \in Tables, Rising(F.links),
           NEW m, m.links \in Tables, NEW k, NEW n \in Nodes, NEW x,
           NEW f, f = FrameFor(m, k, n, x),
           NEW H, Grown(H, m.links, n),
           NEW R, NEW src, NEW src2, Moved(F, H, R, src, src2),
           NEW want, NEW first, first <= n, n # first,
           NEW s \in R, src2[n] = s, F.kind[s] = "group",
           x = Reads(F, ViewsIn(F.links), s), x # Unreadable
    PROVE  /\ Pending(H, want, first, R, src2, n, f.fmt, f.todo)
           /\ DOMAIN f.todo = Entries(H, want, first, src2, n)
<1>1. /\ s \in Nodes /\ H.kind[s] = "group" /\ H.tag[s] = F.tag[s]
      /\ \A j : Resolve(H.links, s, j) = Resolve(F.links, s, j)
      /\ \A j \in Names : Resolve(F.links, s, j) # NoNode => Resolve(F.links, s, j) \in R
      /\ keys(H.links, s) = keys(F.links, s)
  BY MovedSource
<1>2. Entries(H, want, first, src2, n) = keys(F.links, s) /\ keys(F.links, s) \subseteq Names
  BY <1>1 DEF Entries, keys
<1>3. /\ f.fmt = F.tag[s] /\ DOMAIN f.todo = keys(F.links, s)
      /\ \A j \in DOMAIN f.todo : f.todo[j] # Unreadable =>
           /\ Resolve(H.links, s, j) # NoNode
           /\ f.todo[j] = Reads(H, ViewsIn(H.links), Resolve(H.links, s, j))
  <2>1. CASE F.tag[s] = Untagged /\ x = ViewOf(OpenAt(F.links, s))
    <3>1. x.type = "view" /\ x.grp = s /\ x.keys = OpenAt(F.links, s).keys
      BY <2>1, ValueTypes DEF OpenAt
    <3>2. \A j \in Names : Contains(x, j) <=> j \in keys(F.links, s)
      BY <3>1 DEF Contains, OpenAt
    <3>3. /\ f.fmt = Untagged
          /\ DOMAIN f.todo = {j \in Names : Contains(x, j)}
          /\ \A j \in DOMAIN f.todo : f.todo[j] # Unreadable =>
               /\ Resolve(H.links, x.grp, j) # NoNode
               /\ f.todo[j] = Reads(H, ViewsIn(H.links), Resolve(H.links, x.grp, j))
      BY <3>1, ViewFrame
    <3> QED
      BY <1>2, <2>1, <3>1, <3>2, <3>3
  <2>2. CASE /\ listable(F.links, s)
             /\ x = [type |-> "object", fmt |-> F.tag[s],
                     items |-> ItemsRead(F, ViewsIn(F.links), s)]
    <3> DEFINE items == ItemsRead(F, ViewsIn(F.links), s)
    <3>1. f.fmt = F.tag[s] /\ f.todo = items
      BY <2>2 DEF FrameFor, Frame
    <3>2. /\ DOMAIN items = keys(F.links, s)
          /\ \A j \in keys(F.links, s) : items[j] = Reads(F, ViewsIn(F.links), Resolve(F.links, s, j))
      BY DEF ItemsRead
    <3> HIDE DEF items
    <3>3. ASSUME NEW j \in keys(F.links, s)
          PROVE  /\ Resolve(H.links, s, j) # NoNode
                 /\ items[j] = Reads(H, ViewsIn(H.links), Resolve(H.links, s, j))
      <4> DEFINE r == Resolve(F.links, s, j)
      <4>1. j \in Names /\ r # NoNode
        BY <2>2, <3>3 DEF listable, keys
      <4>2. r \in R /\ Resolve(H.links, s, j) = r /\ items[j] = Reads(F, ViewsIn(F.links), r)
        BY <1>1, <3>2, <4>1
      <4> HIDE DEF r
      <4>3. Reads(H, ViewsIn(H.links), r) = Reads(F, ViewsIn(F.links), r)
        BY <4>2, MovedSource
      <4> QED
        BY <4>1, <4>2, <4>3
    <3> QED
      BY <3>1, <3>2, <3>3
  <2>3. \/ F.tag[s] = Untagged /\ x = ViewOf(OpenAt(F.links, s))
        \/ /\ listable(F.links, s)
           /\ x = [type |-> "object", fmt |-> F.tag[s], items |-> ItemsRead(F, ViewsIn(F.links), s)]
    <3>1. F.kind[s] \in {"group", "data"} /\ F.kind[s] # "data"
      OBVIOUS
    <3> QED
      BY <1>1, <3>1, ReadableIs
  <2> QED
    BY <2>1, <2>2, <2>3
<1> QED
  BY <1>1, <1>2, <1>3 DEF Pending
-----------------------------------------------------------------------------
(* The steps of a copy.                                                    *)

Then == Contents(links', kind', data', tag')

(* A step that changes the links of g alone, outside the source, and no    *)
(* object that is there. *)
LEMMA StepMoves ==
    ASSUME links \in Tables, links' \in Tables, Upwards,
           NEW R, Enclosed(links, R), \A c \in R : kind[c] # "none" /\ tag'[c] = tag[c],
           NEW g, g \notin R, OthersStay(links, links', g),
           \A c \in Nodes : kind[c] # "none" => kind'[c] = kind[c] /\ data'[c] = data[c],
           NEW src, NEW src2, \A c \in Nodes : kind[c] # "none" => src2[c] = src[c]
    PROVE  Moved(Now, Then, R, src, src2)
<1> DEFINE F == Now
           H == Then
<1>1. /\ F.links = links /\ F.kind = kind /\ F.data = data /\ F.tag = tag
      /\ H.links = links' /\ H.kind = kind' /\ H.data = data' /\ H.tag = tag'
  BY DEF Now, Then, Contents
<1> HIDE DEF F, H
<1>2. R \subseteq Nodes
  BY DEF Enclosed
<1>3. ASSUME NEW c \in R PROVE links'[c] = links[c]
  <2>1. links[c] \in [Names -> Links] /\ links'[c] \in [Names -> Links]
    BY <1>2 DEF Tables
  <2>2. \A k \in Names : links'[c][k] = links[c][k]
    BY <1>2 DEF OthersStay
  <2> QED
    BY <2>1, <2>2
<1>4. SameOn(F, H, R)
  BY <1>1, <1>2, <1>3 DEF SameOn
<1>5. Moved(F, H, R, src, src2)
  BY <1>1, <1>4 DEF Moved, Upwards
<1> QED
  BY <1>5 DEF F, H

(* The copy of which the invariant speaks, and its innermost group. *)
LEMMA TopCopying ==
    ASSUME IInv, CInv, Upwards, stack # <<>>,
           NEW R, NEW src, Copying(Now, call.want, call.first, stack, R, src)
    PROVE  LET g == Top.sub.grp
           IN  /\ Source(Now, call.want, call.first, R, src)
               /\ Enclosed(links, R) /\ \A c \in R : c \in Nodes /\ kind[c] # "none" /\ c # g
               /\ call.first \in Nodes /\ kind[call.first] # "none"
               /\ Partial(Now, call.want, call.first, R, src, Top)
               /\ g \in Nodes /\ kind[g] = "group" /\ call.first <= g /\ src[g] \in R
               /\ Now.links \in Tables /\ Rising(Now.links)
               /\ \A k \in DOMAIN Top.todo : k \in Names
               /\ \A i \in 1..Len(stack) :
                    /\ stack[i].sub.grp \in Nodes /\ kind[stack[i].sub.grp] # "none"
                    /\ Partial(Now, call.want, call.first, R, src, stack[i])
                    /\ i # 1 => stack[i].sub.grp # g
<1> DEFINE g == Top.sub.grp
           F == Now
           first == call.first
           want == call.want
<1>1. F.links = links /\ F.kind = kind /\ F.data = data /\ F.tag = tag
  BY DEF Now, Contents
<1>2. Source(F, want, first, R, src) /\ stack[Len(stack)].sub.grp = first
  BY DEF Copying
<1>3. /\ Len(stack) \in Nat /\ Len(stack) >= 1 /\ Top = stack[1] /\ 1 \in 1..Len(stack)
      /\ Len(stack) \in 1..Len(stack)
      /\ links \in Tables
  BY TopFrame
<1>4. ASSUME NEW i \in 1..Len(stack)
      PROVE  /\ stack[i].sub.grp \in Nodes /\ kind[stack[i].sub.grp] = "group"
             /\ Partial(F, want, first, R, src, stack[i])
             /\ i # 1 => stack[i].sub.grp # g
  BY <1>3, <1>4 DEF IInv, Frames, Owned, ViewType, Copying
<1> HIDE DEF F
<1>5. g \in Nodes /\ kind[g] = "group" /\ Partial(F, want, first, R, src, Top)
  BY <1>3, <1>4
<1>6. Pending(F, want, first, R, src, g, Top.fmt, Top.todo)
  BY <1>5 DEF Partial
<1>7. /\ first <= g /\ src[g] \in R /\ DOMAIN Top.todo \subseteq Entries(F, want, first, src, g)
  BY <1>6 DEF Pending
<1>8. \A k \in DOMAIN Top.todo : k \in Names
  BY <1>2, <1>7, EntriesNames
<1>9. Enclosed(links, R) /\ first \in Nodes /\ \A c \in R : c < first /\ kind[c] # "none"
  BY <1>1, <1>2 DEF Source
<1>10. ASSUME NEW c \in R PROVE c \in Nodes /\ kind[c] # "none" /\ c # g
  <2>1. c \in Nodes /\ c < first
    BY <1>9 DEF Enclosed
  <2>2. c \in Nat /\ first \in Nat /\ g \in Nat
    BY <1>5, <1>9, <2>1, NodeTypes
  <2> QED
    BY <1>7, <1>9, <2>1, <2>2
<1>11. kind[first] # "none"
  BY <1>2, <1>3, <1>4
<1>12. Rising(F.links)
  BY <1>1 DEF Rising, Upwards
<1> QED
  BY <1>1, <1>2, <1>3, <1>4, <1>5, <1>7, <1>8, <1>9, <1>10, <1>11, <1>12 DEF F

(* An entry of the source that can be read. *)
LEMMA TopEntry ==
    ASSUME IInv, CInv, Upwards, stack # <<>>,
           NEW R, NEW src, Copying(Now, call.want, call.first, stack, R, src),
           NEW k \in DOMAIN Top.todo, NEW x, x = Top.todo[k], x # Unreadable,
           NEW s, s = Resolve(links, src[Top.sub.grp], k)
    PROVE  /\ k \in Names /\ s \in R /\ s # NoNode /\ s \in Nodes
           /\ x = Reads(Now, ViewsIn(Now.links), s)
           /\ x \in Plain => kind[s] = "data" /\ x = Leaf(data[s])
           /\ x \notin Plain => kind[s] = "group"
<1> DEFINE g == Top.sub.grp
           F == Now
<1>1. F.links = links /\ F.kind = kind /\ F.data = data /\ F.tag = tag
  BY DEF Now, Contents
<1>2. /\ Enclosed(links, R) /\ \A c \in R : c \in Nodes /\ kind[c] # "none"
      /\ src[g] \in R /\ links \in Tables /\ Rising(F.links) /\ k \in Names
      /\ Partial(F, call.want, call.first, R, src, Top)
  BY <1>1, TopCopying
<1> HIDE DEF F
<1>3. Pending(F, call.want, call.first, R, src, g, Top.fmt, Top.todo)
  BY <1>2 DEF Partial
<1>4. s # NoNode /\ x = Reads(F, ViewsIn(F.links), s)
  BY <1>1, <1>3 DEF Pending
<1>5. s \in R /\ s \in Nodes
  BY <1>2, <1>4 DEF Enclosed
<1>6. F.kind[s] \in {"group", "data"} /\ data[s] \in Leaves \cup {Fill}
  BY <1>1, <1>2, <1>5 DEF IInv, TypeOK
<1>7. \/ kind[s] = "data" /\ x = Leaf(data[s])
      \/ kind[s] = "group" /\ tag[s] = Untagged /\ x = ViewOf(OpenAt(links, s))
      \/ /\ kind[s] = "group" /\ listable(links, s)
         /\ x = [type |-> "object", fmt |-> tag[s], items |-> ItemsRead(F, ViewsIn(links), s)]
  BY <1>1, <1>2, <1>4, <1>5, <1>6, ReadableIs
<1>8. Leaf(data[s]) \in Plain
  BY <1>6 DEF Plain
<1>9. CASE kind[s] = "data" /\ x = Leaf(data[s])
  BY <1>2, <1>4, <1>5, <1>8, <1>9 DEF F
<1>10. CASE kind[s] = "group" /\ x = ViewOf(OpenAt(links, s))
  BY <1>2, <1>4, <1>5, <1>10, ValueTypes DEF F
<1>11. CASE /\ kind[s] = "group"
            /\ x = [type |-> "object", fmt |-> tag[s],
                    items |-> ItemsRead(F, ViewsIn(links), s)]
  BY <1>2, <1>4, <1>5, <1>11, ValueTypes DEF F
<1> QED
  BY <1>7, <1>9, <1>10, <1>11
-----------------------------------------------------------------------------
(* A dataset of the source is copied.                                      *)
LEMMA StoreLeafCopies ==
    ASSUME IInv, CInv, Upwards, NEW k \in Names, StoreLeaf(k),
           call.type = "set", call.want # NoGoal,
           NEW R, NEW src, Copying(Now, call.want, call.first, stack, R, src)
    PROVE  Copying(Then, call.want, call.first, stack', R, src)
<1>1. PICK n \in Unused :
        /\ stack # <<>> /\ IsNext(n) /\ k \in DOMAIN Top.todo /\ Top.todo[k] \in Plain
        /\ LET c == Clean(links, Top.sub, k)
           IN  /\ links' = LinkData(c.links, c.view, k, n)
               /\ stack' = <<Frame(Listed(c.view, k), Remaining(k), Top.fmt)>> \o Tail(stack)
        /\ NewObject(n, "data")
        /\ data' = [data EXCEPT ![n] = Top.todo[k].leaf]
        /\ UNCHANGED <<tag, view, call, protect, history>>
  BY DEF StoreLeaf, Storing
<1> DEFINE c == Clean(links, Top.sub, k)
           w2 == Listed(c.view, k)
           f == Frame(w2, Remaining(k), Top.fmt)
           g == Top.sub.grp
           x == Top.todo[k]
           s == Resolve(links, src[g], k)
           F == Now
           H == Then
           first == call.first
           want == call.want
<1>2. n \in Nodes /\ kind[n] = "none" /\ tag' = tag
      /\ \A i \in Nodes : i # n => kind'[i] = kind[i] /\ data'[i] = data[i]
  BY <1>1 DEF Unused, NewObject, IInv, TypeOK
<1>3. kind'[n] = "data" /\ data'[n] = x.leaf
  BY <1>1, <1>2 DEF NewObject, IInv, TypeOK
<1>4. links'[g][k] = Hard(n) /\ Effect(links, Top.sub, links', w2, k)
  BY <1>1, <1>2, TopFrame, LeafEffect
<1>5. /\ stack' = ReplaceTop(stack, f) /\ f.sub = w2 /\ f.fmt = Top.fmt
      /\ f.todo = [j \in DOMAIN Top.todo \ {k} |-> Top.todo[j]]
  BY <1>1 DEF Frame, Remaining, ReplaceTop
<1>6. IsStack(stack) /\ stack # <<>> /\ Top = stack[1] /\ Len(stack) \in 1..Len(stack)
  BY <1>1, TopFrame DEF IInv, Frames
<1>7. f.sub.grp = g /\ f.sub.grp = stack[1].sub.grp
  BY <1>4, <1>5, <1>6 DEF Effect
<1>8. /\ s \in R /\ s # NoNode /\ s \in Nodes /\ kind[s] = "data" /\ x = Leaf(data[s])
  BY <1>1, LeafTypes, TopEntry DEF Plain
<1>9. x.leaf = data[s]
  BY <1>8 DEF Leaf
<1> HIDE DEF c, w2, f, x
<1>10. /\ Len(stack') = Len(stack)
       /\ \A i \in 1..Len(stack) : stack'[i].sub.grp = stack[i].sub.grp
       /\ Groups(stack') = Groups(stack)
  BY <1>5, <1>6, <1>7, ReplacedGroups
<1>11. /\ Len(stack) \in Nat /\ stack'[1] = f
       /\ \A i \in 2..Len(stack) : stack'[i] = stack[i]
  BY <1>5, <1>6, Replaced
<1>12. /\ Source(F, want, first, R, src)
       /\ Enclosed(links, R) /\ \A i \in R : i \in Nodes /\ kind[i] # "none" /\ i # g
       /\ first \in Nodes /\ kind[first] # "none"
       /\ Partial(F, want, first, R, src, Top)
       /\ g \in Nodes /\ kind[g] = "group" /\ src[g] \in R
       /\ \A i \in 1..Len(stack) :
            /\ stack[i].sub.grp \in Nodes /\ kind[stack[i].sub.grp] # "none"
            /\ Partial(F, want, first, R, src, stack[i])
            /\ i # 1 => stack[i].sub.grp # g
  BY <1>1, TopCopying
<1>13. /\ links \in Tables /\ links' \in Tables /\ OthersStay(links, links', g)
       /\ \A j \in Names : j # k => links'[g][j] = links[g][j]
  BY <1>4, <1>12 DEF Effect, OthersStay, IInv, TypeOK, Tables
<1>14. Moved(F, H, R, src, src)
  BY <1>2, <1>12, <1>13, StepMoves
<1>15. /\ F.links = links /\ F.kind = kind /\ F.data = data /\ F.tag = tag
       /\ H.links = links' /\ H.kind = kind' /\ H.data = data' /\ H.tag = tag
  BY <1>2 DEF Now, Then, Contents
<1> HIDE DEF F, H
<1>16. Source(H, want, first, R, src)
  BY <1>12, <1>14, <1>15, SourceStays
<1>17. CopiedAs(H, src, g, k)
  <2>1. /\ Resolve(H.links, src[g], k) = s /\ H.kind[s] = "data" /\ H.data[s] = data[s]
    <3>1. \A j : Resolve(H.links, src[g], j) = Resolve(F.links, src[g], j)
      <4> DEFINE sg == src[g]
      <4>1. sg \in R
        BY <1>12
      <4> HIDE DEF sg
      <4>2. \A j : Resolve(H.links, sg, j) = Resolve(F.links, sg, j)
        BY <1>14, <4>1, MovedSource
      <4> QED
        BY <4>2 DEF sg
    <3> QED
      BY <1>2, <1>8, <1>15, <3>1
  <2>2. H.links[g][k] = Hard(n) /\ H.kind[n] = "data" /\ H.data[n] = data[s]
    BY <1>3, <1>4, <1>9, <1>15
  <2> HIDE DEF s
  <2> QED
    BY <1>2, <1>8, <2>1, <2>2 DEF CopiedAs
<1>18. Partial(H, want, first, R, src, f)
  <2>1. /\ \A j \in Names : j # k => H.links[g][j] = F.links[g][j]
        /\ g \in Nodes /\ Top.sub.grp = g /\ F.kind[g] # "none"
    BY <1>12, <1>13, <1>15
  <2> DEFINE t == Top
  <2>2. /\ t.sub.grp = g /\ k \in DOMAIN t.todo /\ f.sub.grp = g /\ f.fmt = t.fmt
        /\ f.todo = [j \in DOMAIN t.todo \ {k} |-> t.todo[j]]
        /\ Partial(F, want, first, R, src, t) /\ Source(F, want, first, R, src)
    BY <1>1, <1>5, <1>7, <1>12
  <2> HIDE DEF g, t, first, want
  <2>3. Gained(F, H, src, g, k, t, f)
    BY <1>17, <2>1, <2>2, Zenon DEF Gained
  <2> QED
    BY <1>14, <2>2, <2>3, PartialAdvances
<1>19. ASSUME NEW i \in 2..Len(stack) PROVE Partial(H, want, first, R, src, stack[i])
  <2> DEFINE e == stack[i]
             h == e.sub.grp
  <2>1. /\ h \in Nodes /\ F.kind[h] # "none" /\ h # g /\ Partial(F, want, first, R, src, e)
    <3>1. i \in 1..Len(stack) /\ i # 1
      BY <1>11
    <3> QED
      BY <1>12, <1>15, <3>1
  <2>2. \A j \in Names : H.links[h][j] = F.links[h][j]
    BY <1>13, <1>15, <2>1 DEF OthersStay
  <2>3. e.sub.grp = h
    OBVIOUS
  <2> HIDE DEF e, h
  <2>4. Partial(H, want, first, R, src, e)
    BY <1>12, <1>14, <2>1, <2>2, <2>3, PartialStays
  <2> QED
    BY <2>4 DEF e
<1>20. \A i \in 1..Len(stack') : Partial(H, want, first, R, src, stack'[i])
  <2>1. \A i \in 1..Len(stack') : i = 1 \/ i \in 2..Len(stack)
    BY <1>10, <1>11
  <2> QED
    BY <1>11, <1>18, <1>19, <2>1
<1>21. ASSUME NEW i \in Nodes, first < i, H.kind[i] = "group", i \notin Groups(stack')
       PROVE  Complete(H, R, src, i)
  <2>1. i # n /\ kind[i] = "group" /\ i \notin Groups(stack)
    BY <1>2, <1>3, <1>10, <1>15, <1>21
  <2>2. Complete(F, R, src, i) /\ i # g
    <3>1. g \in Groups(stack)
      BY <1>1, TopFilling
    <3> QED
      BY <1>15, <1>21, <2>1, <3>1 DEF Copying, F
  <2>3. \A j \in Names : H.links[i][j] = F.links[i][j]
    BY <1>13, <1>15, <2>2 DEF OthersStay
  <2> QED
    BY <1>14, <1>15, <2>1, <2>2, <2>3, CompleteStays
<1>22. stack'[Len(stack')].sub.grp = first /\ DOMAIN src = Nodes
  BY <1>6, <1>10 DEF Copying
<1> QED
  BY <1>16, <1>20, <1>21, <1>22 DEF Copying, H

(* A group of the source is begun.                                         *)
LEMMA StoreGroupCopies ==
    ASSUME IInv, CInv, Upwards, NEW k \in Names, StoreGroup(k),
           call.type = "set", call.want # NoGoal,
           NEW R, NEW src, Copying(Now, call.want, call.first, stack, R, src)
    PROVE  \E src2 : Copying(Then, call.want, call.first, stack', R, src2)
<1>1. PICK n \in Unused :
        /\ Storing /\ stack # <<>> /\ IsNext(n) /\ k \in DOMAIN Top.todo /\ Top.todo[k] \notin Plain
        /\ LET c == Clean(links, Top.sub, k)
               m == MakeGroup(c.links, c.view, k, n)
           IN  /\ links' = m.links
               /\ stack' = <<FrameFor(m, k, n, Top.todo[k]),
                             Frame(m.view, Remaining(k), Top.fmt)>> \o Tail(stack)
        /\ NewObject(n, "group")
        /\ UNCHANGED <<data, tag, view, call, protect, foreign>>
  BY DEF StoreGroup, Storing
<1> DEFINE c == Clean(links, Top.sub, k)
           m == MakeGroup(c.links, c.view, k, n)
           e == FrameFor(m, k, n, Top.todo[k])
           f == Frame(m.view, Remaining(k), Top.fmt)
           g == Top.sub.grp
           x == Top.todo[k]
           s == Resolve(links, src[g], k)
           src2 == [src EXCEPT ![n] = s]
           F == Now
           H == Then
           first == call.first
           want == call.want
<1>2. n \in Nodes /\ kind[n] = "none" /\ tag' = tag /\ data' = data
      /\ kind' = [kind EXCEPT ![n] = "group"] /\ kind'[n] = "group"
      /\ \A i \in Nodes : i # n => kind'[i] = kind[i]
  BY <1>1 DEF Unused, NewObject, IInv, TypeOK
<1>3. m.links[g][k] = Hard(n) /\ Effect(links, Top.sub, m.links, m.view, k)
  BY <1>1, <1>2, TopFrame, GroupEffect
<1>4. /\ links' = m.links /\ stack' = PushTop(stack, e, f) /\ f.sub = m.view /\ f.fmt = Top.fmt
      /\ f.todo = [j \in DOMAIN Top.todo \ {k} |-> Top.todo[j]]
  BY <1>1 DEF Frame, Remaining, PushTop
<1>5. IsStack(stack) /\ stack # <<>> /\ Top = stack[1] /\ Len(stack) \in 1..Len(stack)
  BY <1>1, TopFrame DEF IInv, Frames
<1>6. m.view.grp = g /\ m.links \in Tables /\ f.sub.grp = g /\ f.sub.grp = stack[1].sub.grp
  <2> HIDE DEF c, m, f
  <2> QED
    BY <1>3, <1>4, <1>5 DEF Effect
<1>7. e.sub.grp = n
  <2>1. e.sub = OpenAt(m.links, n)
    BY <1>3, <1>6, FrameSub
  <2> HIDE DEF e
  <2> QED
    BY <2>1 DEF OpenAt
<1>8. x # Unreadable
  BY <1>1 DEF Storing
<1>9. /\ s \in R /\ s # NoNode /\ s \in Nodes /\ kind[s] = "group"
      /\ x = Reads(F, ViewsIn(F.links), s)
  BY <1>1, <1>8, TopEntry
<1>10. e = FrameFor(m, k, n, x) /\ Grown(H, m.links, n)
  BY <1>2, <1>4 DEF Grown, Then
<1> HIDE DEF c, m, e, f, x
<1>11. /\ Len(stack') = Len(stack) + 1 /\ stack'[1] = e /\ stack'[2] = f
       /\ \A i \in 1..Len(stack) : i + 1 \in 1..Len(stack') /\ stack'[i + 1].sub.grp = stack[i].sub.grp
       /\ Groups(stack') = Groups(stack) \cup {n}
  BY <1>4, <1>5, <1>6, <1>7, PushedGroups
<1>12. /\ Len(stack) \in Nat
       /\ \A i \in 3..(Len(stack) + 1) : stack'[i] = stack[i - 1]
  BY <1>4, <1>5, Pushed
<1>13. /\ Source(F, want, first, R, src)
       /\ Enclosed(links, R) /\ \A i \in R : i \in Nodes /\ kind[i] # "none" /\ i # g
       /\ first \in Nodes /\ kind[first] # "none"
       /\ Partial(F, want, first, R, src, Top)
       /\ g \in Nodes /\ kind[g] = "group" /\ first <= g /\ src[g] \in R
       /\ F.links \in Tables /\ Rising(F.links)
       /\ \A i \in 1..Len(stack) :
            /\ stack[i].sub.grp \in Nodes /\ kind[stack[i].sub.grp] # "none"
            /\ Partial(F, want, first, R, src, stack[i])
            /\ i # 1 => stack[i].sub.grp # g
  BY <1>1, TopCopying
<1>14. /\ links \in Tables /\ links' \in Tables /\ OthersStay(links, links', g)
       /\ \A j \in Names : j # k => links'[g][j] = links[g][j]
  BY <1>3, <1>4, <1>13 DEF Effect, OthersStay, IInv, TypeOK, Tables
<1>15. /\ DOMAIN src2 = Nodes /\ src2[n] = s
       /\ \A i \in Nodes : i # n => src2[i] = src[i]
       /\ \A i \in Nodes : kind[i] # "none" => src2[i] = src[i]
  <2>1. DOMAIN src = Nodes
    BY DEF Copying
  <2> HIDE DEF s
  <2> QED
    BY <1>2, <2>1
<1> HIDE DEF src2
<1>16. Moved(F, H, R, src, src2)
  <2>1. \A i \in Nodes : kind[i] # "none" => kind'[i] = kind[i] /\ data'[i] = data[i]
    BY <1>2
  <2> QED
    BY <1>2, <1>13, <1>14, <1>15, <2>1, StepMoves
<1>17. /\ F.links = links /\ F.kind = kind /\ F.data = data /\ F.tag = tag
       /\ H.links = links' /\ H.kind = kind' /\ H.data = data /\ H.tag = tag
  BY <1>2 DEF Now, Then, Contents
<1> HIDE DEF F, H
<1>18. Source(H, want, first, R, src2)
  BY <1>13, <1>16, <1>17, SourceStays
<1>19. CopiedAs(H, src2, g, k)
  <2>1. Resolve(H.links, src2[g], k) = s /\ H.kind[s] = "group"
    <3>1. \A j : Resolve(H.links, src[g], j) = Resolve(F.links, src[g], j)
      <4> DEFINE sg == src[g]
      <4>1. sg \in R
        BY <1>13
      <4> HIDE DEF sg
      <4>2. \A j : Resolve(H.links, sg, j) = Resolve(F.links, sg, j)
        BY <1>16, <4>1, MovedSource
      <4> QED
        BY <4>2 DEF sg
    <3> QED
      BY <1>2, <1>9, <1>13, <1>15, <1>17, <3>1
  <2>2. H.links[g][k] = Hard(n) /\ H.kind[n] = "group"
    BY <1>2, <1>3, <1>4, <1>17
  <2> HIDE DEF s
  <2> QED
    BY <1>2, <1>9, <1>15, <2>1, <2>2 DEF CopiedAs
<1>20. Partial(H, want, first, R, src2, f)
  <2>1. /\ \A j \in Names : j # k => H.links[g][j] = F.links[g][j]
        /\ g \in Nodes /\ Top.sub.grp = g /\ F.kind[g] # "none"
    BY <1>13, <1>14, <1>17
  <2> DEFINE t == Top
  <2>2. /\ t.sub.grp = g /\ k \in DOMAIN t.todo /\ f.sub.grp = g /\ f.fmt = t.fmt
        /\ f.todo = [j \in DOMAIN t.todo \ {k} |-> t.todo[j]]
        /\ Partial(F, want, first, R, src, t) /\ Source(F, want, first, R, src)
    BY <1>1, <1>4, <1>6, <1>13
  <2> HIDE DEF g, t, first, want
  <2>3. Gained(F, H, src2, g, k, t, f)
    BY <1>19, <2>1, <2>2, Zenon DEF Gained
  <2> QED
    BY <1>16, <2>2, <2>3, PartialAdvances
<1>21. first <= n /\ n # first /\ g # n
  <2>1. \A i \in Nodes : kind[i] # "none" => i < n
    BY <1>1, NewDense DEF CInv
  <2>2. first \in Nat /\ n \in Nat /\ first < n
    BY <1>2, <1>13, <2>1, NodeTypes
  <2> QED
    BY <1>2, <1>13, <2>2
<1>22. Partial(H, want, first, R, src2, e)
  <2>1. /\ Pending(H, want, first, R, src2, n, e.fmt, e.todo)
        /\ DOMAIN e.todo = Entries(H, want, first, src2, n)
    <3>1. F.kind[s] = "group"
      BY <1>9, <1>17
    <3>2. first <= n /\ n # first /\ src2[n] = s /\ F.links \in Tables /\ Rising(F.links)
      BY <1>13, <1>15, <1>21
    <3> HIDE DEF s, first, want
    <3> QED
      BY <1>2, <1>6, <1>8, <1>9, <1>10, <1>16, <3>1, <3>2, NestedFrame
  <2>2. \A j \in Names : H.links[n][j].type = "none"
    BY <1>2, <1>14, <1>17, <1>21 DEF CInv, Fresh, OthersStay
  <2>3. Copied(H, src2, n, {})
    BY <2>2 DEF Copied
  <2>4. Entries(H, want, first, src2, n) \ DOMAIN e.todo = {}
    BY <2>1
  <2> QED
    BY <1>7, <2>1, <2>3, <2>4 DEF Partial
<1>23. ASSUME NEW i \in 2..Len(stack) PROVE Partial(H, want, first, R, src2, stack[i])
  <2> DEFINE d == stack[i]
             h == d.sub.grp
  <2>1. /\ h \in Nodes /\ F.kind[h] # "none" /\ h # g /\ Partial(F, want, first, R, src, d)
    <3>1. i \in 1..Len(stack) /\ i # 1
      BY <1>12
    <3> QED
      BY <1>13, <1>17, <3>1
  <2>2. \A j \in Names : H.links[h][j] = F.links[h][j]
    BY <1>14, <1>17, <2>1 DEF OthersStay
  <2>3. d.sub.grp = h
    OBVIOUS
  <2> HIDE DEF d, h
  <2>4. Partial(H, want, first, R, src2, d)
    BY <1>13, <1>16, <2>1, <2>2, <2>3, PartialStays
  <2> QED
    BY <2>4 DEF d
<1>24. \A i \in 1..Len(stack') : Partial(H, want, first, R, src2, stack'[i])
  <2>1. \A i \in 1..Len(stack') :
          i = 1 \/ i = 2 \/ (i \in 3..(Len(stack) + 1) /\ i - 1 \in 2..Len(stack))
    BY <1>11, <1>12
  <2> QED
    BY <1>11, <1>12, <1>20, <1>22, <1>23, <2>1
<1>25. ASSUME NEW i \in Nodes, first < i, H.kind[i] = "group", i \notin Groups(stack')
       PROVE  Complete(H, R, src2, i)
  <2>1. i # n /\ kind[i] = "group" /\ i \notin Groups(stack)
    BY <1>2, <1>11, <1>17, <1>25
  <2>2. Complete(F, R, src, i) /\ i # g
    <3>1. g \in Groups(stack)
      BY <1>1, TopFilling
    <3> QED
      BY <1>17, <1>25, <2>1, <3>1 DEF Copying, F
  <2>3. \A j \in Names : H.links[i][j] = F.links[i][j]
    BY <1>14, <1>17, <2>2 DEF OthersStay
  <2> QED
    BY <1>16, <1>17, <2>1, <2>2, <2>3, CompleteStays
<1>26. stack'[Len(stack')].sub.grp = first
  <2>1. stack[Len(stack)].sub.grp = first
    BY DEF Copying
  <2> QED
    BY <1>5, <1>11, <2>1
<1>27. Copying(H, want, first, stack', R, src2)
  BY <1>15, <1>18, <1>24, <1>25, <1>26 DEF Copying
<1> QED
  BY <1>27 DEF H
-----------------------------------------------------------------------------
(* v[key] = a view x: the copy begins. *)
LEMMA SetGroupCopies ==
    ASSUME IInv, CInv, Upwards, NEW v \in Views, NEW k \in Names, NEW x, SetGroup(v, k, x),
           x.type = "view" => x.grp \in Nodes /\ kind[x.grp] = "group"
    PROVE  Copies'
<1>1. PICK n \in Unused :
        /\ Ready(v) /\ IsNext(n)
        /\ LET c == Clean(links, view[v], k)
               m == MakeGroup(c.links, c.view, k, n)
           IN  /\ links' = m.links
               /\ stack' = <<FrameFor(m, k, n, x)>>
        /\ NewObject(n, "group")
        /\ call' = [type |-> "set", first |-> n, want |-> Wanted(v, x)]
        /\ UNCHANGED <<data, tag, protect>>
  BY DEF SetGroup
<1> DEFINE c == Clean(links, view[v], k)
           m == MakeGroup(c.links, c.view, k, n)
           f == FrameFor(m, k, n, x)
           g == view[v].grp
           want == Wanted(v, x)
<1> SUFFICES ASSUME want # NoGoal
             PROVE  \E R, src : Copying(Then, want, n, stack', R, src)
  BY <1>1 DEF Copies, Now, Then
<1> DEFINE F == Now
           H == Then
           s == x.grp
           R == Below(links, s)
           src == [i \in Nodes |-> s]
<1>2. n \in Nodes /\ kind[n] = "none" /\ tag' = tag /\ data' = data
      /\ kind' = [kind EXCEPT ![n] = "group"] /\ kind'[n] = "group"
      /\ \A i \in Nodes : i # n => kind'[i] = kind[i]
  BY <1>1 DEF Unused, NewObject, IInv, TypeOK
<1>3. /\ g \in Nodes /\ kind[g] = "group" /\ links \in Tables /\ view[v] \in ViewType
  BY <1>1, ReadyView DEF Ready, ViewType
<1>4. m.links[g][k] = Hard(n) /\ Effect(links, view[v], m.links, m.view, k)
  BY <1>1, <1>2, <1>3, GroupEffect
<1>5. links' = m.links /\ stack' = <<f>>
  BY <1>1
<1>6. m.view.grp = g /\ links' \in Tables /\ OthersStay(links, links', g)
  BY <1>4, <1>5 DEF Effect, OthersStay
<1>7. f.sub.grp = n
  <2>1. f.sub = OpenAt(m.links, n)
    BY <1>4, <1>6, FrameSub
  <2> HIDE DEF f
  <2> QED
    BY <2>1 DEF OpenAt
<1>8. Grown(H, m.links, n)
  BY <1>2, <1>5 DEF Grown, Then
<1>9. /\ F.links = links /\ F.kind = kind /\ F.data = data /\ F.tag = tag
      /\ H.links = links' /\ H.kind = kind' /\ H.data = data /\ H.tag = tag
  BY <1>2 DEF Now, Then, Contents
<1>10. /\ x.type = "view" /\ s \in Nodes /\ kind[s] = "group" /\ g \notin R
       /\ want = [type |-> "object", fmt |-> Untagged,
                  items |-> [j \in {j \in Names : Contains(x, j)} |->
                               IF Resolve(links, s, j) = NoNode THEN Unreadable
                               ELSE Deep(links, kind, Resolve(links, s, j))]]
  BY DEF Wanted
<1> HIDE DEF c, m, g, want, F, H, s, R
<1>11. HardInNodes(links)
  BY <1>3, TablesHardInNodes
<1>12. s \in R /\ R \subseteq Nodes
  BY <1>10, <1>11, BelowItself, BelowIsNodes DEF R
<1>13. Enclosed(links, R)
  <2> SUFFICES ASSUME NEW i \in R, NEW j \in Names, Resolve(links, i, j) # NoNode
               PROVE  Resolve(links, i, j) \in R
    BY <1>12 DEF Enclosed
  <2>1. PICK l \in Names : links[i][l].type = "hard" /\ links[i][l].node = Resolve(links, i, j)
    BY <1>3, <1>12, ResolveLink
  <2> QED
    BY <1>10, <1>11, <2>1, BelowClosed DEF R
<1>14. \A i \in R : kind[i] # "none"
  <2> DEFINE S == {i \in Nodes : kind[i] # "none"}
  <2>1. s \in S /\ \A i \in S, j \in Names : links[i][j].type = "hard" => links[i][j].node \in S
    BY <1>10, <1>11 DEF Upwards, HardInNodes
  <2> HIDE DEF S
  <2>2. R \subseteq S
    BY <2>1, BelowWithin DEF R
  <2> QED
    BY <2>2 DEF S
<1>15. ASSUME NEW i \in R PROVE i < n /\ i # n
  BY <1>1, <1>2, <1>12, <1>14, NewDense DEF CInv
<1>16. DOMAIN src = Nodes /\ src[n] = s
  BY <1>2
<1> HIDE DEF src
<1>17. Moved(F, H, R, src, src)
  <2>1. /\ \A i \in R : kind[i] # "none" /\ tag'[i] = tag[i]
        /\ \A i \in Nodes : kind[i] # "none" => kind'[i] = kind[i] /\ data'[i] = data[i]
    BY <1>2, <1>14
  <2> QED
    BY <1>3, <1>6, <1>10, <1>13, <2>1, StepMoves DEF F, H
<1>18. Source(H, want, n, R, src)
  <2> DEFINE items == want.items
             K == {j \in Names : Contains(x, j)}
  <2>1. /\ want = [type |-> "object", fmt |-> Untagged, items |-> want.items]
        /\ DOMAIN items = K
        /\ items = [j \in K |-> items[j]]
        /\ \A j \in K : items[j] = IF Resolve(links, s, j) = NoNode THEN Unreadable
                                   ELSE Deep(links, kind, Resolve(links, s, j))
    BY <1>10
  <2> HIDE DEF items, K
  <2>2. ASSUME NEW j \in K PROVE items[j] = ItemWanted(H, src[n], j)
    <3> DEFINE r == Resolve(links, s, j)
    <3>1. j \in Names
      BY DEF K
    <3>2. Resolve(H.links, s, j) = r /\ (r # NoNode => r \in R)
      <4>1. \A l : Resolve(H.links, s, l) = Resolve(F.links, s, l)
        BY <1>12, <1>17, MovedSource
      <4> QED
        BY <1>9, <1>12, <1>13, <3>1, <4>1 DEF Enclosed
    <3>3. items[j] = IF r = NoNode THEN Unreadable ELSE Deep(links, kind, r)
      BY <2>1
    <3> HIDE DEF r
    <3>4. ASSUME r # NoNode PROVE Deep(links, kind, r) = Reads(H, NoViews, r)
      <4>1. r \in R /\ r \in Nodes
        BY <1>12, <3>2, <3>4
      <4>2. Deep(links, kind, r) = Reads(F, NoViews, r)
        BY <1>3, <4>1, ValueReads DEF F, Now
      <4>3. Reads(H, NoViews, r) = Reads(F, NoViews, r)
        BY <1>17, <4>1, MovedSource
      <4> QED
        BY <4>2, <4>3
    <3>5. items[j] = IF Resolve(H.links, s, j) = NoNode THEN Unreadable
                     ELSE Reads(H, NoViews, Resolve(H.links, s, j))
      BY <3>2, <3>3, <3>4
    <3> QED
      BY <1>16, <3>5 DEF ItemWanted
  <2>3. /\ want.items = [j \in DOMAIN want.items |-> ItemWanted(H, src[n], j)]
        /\ DOMAIN want.items \subseteq Names
    BY <2>1, <2>2 DEF items, K
  <2>4. Enclosed(H.links, R) /\ \A i \in R : i < n /\ H.kind[i] # "none"
    <3>1. \A i \in R : H.kind[i] = F.kind[i]
      BY <1>17, MovedSource
    <3>2. ASSUME NEW i \in R, NEW j \in Names, Resolve(H.links, i, j) # NoNode
          PROVE  Resolve(H.links, i, j) \in R
      <4>1. /\ \A l : Resolve(H.links, i, l) = Resolve(F.links, i, l)
            /\ \A l \in Names : Resolve(F.links, i, l) # NoNode => Resolve(F.links, i, l) \in R
        BY <1>17, MovedSource
      <4> QED
        BY <3>2, <4>1
    <3> QED
      BY <1>9, <1>12, <1>14, <1>15, <3>1, <3>2 DEF Enclosed
  <2> QED
    BY <1>2, <1>12, <1>16, <2>1, <2>3, <2>4 DEF Source
<1>19. Partial(H, want, n, R, src, f)
  <2>1. /\ f.fmt = Untagged
        /\ DOMAIN f.todo = {j \in Names : Contains(x, j)}
        /\ \A j \in DOMAIN f.todo : f.todo[j] # Unreadable =>
             /\ Resolve(H.links, x.grp, j) # NoNode
             /\ f.todo[j] = Reads(H, ViewsIn(H.links), Resolve(H.links, x.grp, j))
    BY <1>5, <1>6, <1>8, <1>10, ViewFrame
  <2>2. DOMAIN f.todo = Entries(H, want, n, src, n)
    BY <1>10, <2>1 DEF Entries
  <2>3. H.kind[s] = "group"
    BY <1>9, <1>10, <1>12, <1>17, MovedSource
  <2>4. Pending(H, want, n, R, src, n, f.fmt, f.todo)
    <3>1. n <= n
      BY <1>2, NodeTypes
    <3> HIDE DEF f
    <3> QED
      BY <1>12, <1>16, <2>1, <2>2, <2>3, <3>1 DEF Pending, s
  <2>5. \A j \in Names : H.links[n][j].type = "none"
    <3>1. n # g
      BY <1>2, <1>3
    <3> QED
      BY <1>2, <1>6, <1>9, <3>1 DEF CInv, Fresh, OthersStay
  <2>6. Copied(H, src, n, {}) /\ Entries(H, want, n, src, n) \ DOMAIN f.todo = {}
    BY <2>2, <2>5 DEF Copied
  <2> HIDE DEF f
  <2> QED
    BY <1>7, <2>4, <2>6 DEF Partial
<1> HIDE DEF f
<1>20. Len(stack') = 1 /\ stack'[1] = f
  BY <1>5, OneFrame
<1>21. ASSUME NEW i \in Nodes, n < i PROVE H.kind[i] # "group"
  <2>1. kind[i] = "none" /\ i # n
    <3>1. n \in Nat /\ i \in Nat
      BY <1>2, NodeTypes
    <3>2. i # n
      BY <1>21, <3>1
    <3> QED
      BY <1>2, <1>21, <3>2 DEF CInv, Dense
  <2> QED
    BY <1>2, <1>9, <2>1
<1>22. Copying(H, want, n, stack', R, src)
  BY <1>7, <1>16, <1>18, <1>19, <1>20, <1>21 DEF Copying
<1> QED
  BY <1>22 DEF H

(* The innermost group is complete, and the recursion goes on around it.   *)
LEMMA FinishCopies ==
    ASSUME IInv, CInv, Upwards, Finish, stack' # <<>>,
           call.type = "set", call.want # NoGoal,
           NEW R, NEW src, Copying(Now, call.want, call.first, stack, R, src)
    PROVE  Copying(Then, call.want, call.first, stack', R, src)
<1> DEFINE g == Top.sub.grp
           t == Tail(stack)
           F == Now
           H == Then
           first == call.first
           want == call.want
<1>1. /\ stack # <<>> /\ DOMAIN Top.todo = {}
      /\ tag' = [tag EXCEPT ![g] = Top.fmt] /\ stack' = t
      /\ UNCHANGED <<links, kind, data>>
  BY DEF Finish, Storing
<1>2. /\ Source(F, want, first, R, src)
      /\ Enclosed(links, R) /\ \A i \in R : i \in Nodes /\ kind[i] # "none" /\ i # g
      /\ first \in Nodes /\ kind[first] # "none"
      /\ Partial(F, want, first, R, src, Top)
      /\ g \in Nodes /\ kind[g] = "group" /\ first <= g /\ src[g] \in R
      /\ \A i \in 1..Len(stack) :
           /\ stack[i].sub.grp \in Nodes /\ kind[stack[i].sub.grp] # "none"
           /\ Partial(F, want, first, R, src, stack[i])
           /\ i # 1 => stack[i].sub.grp # g
  BY <1>1, TopCopying
<1>3. tag'[g] = Top.fmt /\ \A i \in Nodes : i # g => tag'[i] = tag[i]
  BY <1>1, <1>2 DEF IInv, TypeOK
<1>4. IsStack(stack) /\ Top = stack[1]
  BY <1>1, TopFrame DEF IInv, Frames
<1>5. /\ Len(stack) \in Nat /\ Len(t) = Len(stack) - 1 /\ IsStack(t)
      /\ \A i \in 1..Len(t) : i + 1 \in 2..Len(stack) /\ t[i] = stack[i + 1]
      /\ Groups(stack) = Groups(t) \cup {g}
  BY <1>1, <1>4, Popped, PoppedGroups
<1>6. Len(t) >= 1 /\ Len(t) \in 1..Len(t)
  BY <1>1, <1>5, Popped
<1>7. Moved(F, H, R, src, src)
  <2>1. OthersStay(links, links', g) /\ links' \in Tables /\ links \in Tables
    BY <1>1, TopFrame DEF OthersStay
  <2> QED
    BY <1>1, <1>2, <1>3, <2>1, StepMoves
<1>8. /\ F.links = links /\ F.kind = kind /\ F.data = data /\ F.tag = tag
      /\ H.links = links /\ H.kind = kind /\ H.data = data /\ H.tag = tag'
  BY <1>1 DEF Now, Then, Contents
<1> HIDE DEF F, H, t
<1>9. Source(H, want, first, R, src)
  BY <1>2, <1>7, <1>8, SourceStays
<1>10. ASSUME NEW i \in 1..Len(t) PROVE Partial(H, want, first, R, src, t[i])
  <2> DEFINE d == t[i]
             h == d.sub.grp
  <2>1. h \in Nodes /\ F.kind[h] # "none" /\ Partial(F, want, first, R, src, d)
    <3>1. i + 1 \in 1..Len(stack)
      BY <1>5
    <3> QED
      BY <1>2, <1>5, <1>8, <3>1
  <2>2. \A j \in Names : H.links[h][j] = F.links[h][j]
    BY <1>8
  <2>3. d.sub.grp = h
    OBVIOUS
  <2> HIDE DEF d, h
  <2>4. Partial(H, want, first, R, src, d)
    BY <1>2, <1>7, <2>1, <2>2, <2>3, PartialStays
  <2> QED
    BY <2>4 DEF d
<1>11. t[Len(t)].sub.grp = first /\ first # g
  <2>1. stack[Len(stack)].sub.grp = first
    BY DEF Copying
  <2>2. Len(t) + 1 = Len(stack) /\ Len(stack) \in 1..Len(stack) /\ Len(stack) # 1
    BY <1>5, <1>6
  <2> QED
    BY <1>2, <1>5, <1>6, <2>1, <2>2
<1>12. Complete(H, R, src, g)
  <2> DEFINE y == Top
  <2>1. Pending(F, want, first, R, src, g, y.fmt, y.todo)
    BY <1>2 DEF Partial
  <2>2. y.fmt = F.tag[src[g]] /\ F.kind[src[g]] = "group"
    BY <1>11, <2>1 DEF Pending
  <2>3. Entries(F, want, first, src, g) \ DOMAIN y.todo = keys(F.links, src[g])
    BY <1>1, <1>11 DEF Entries
  <2>4. Copied(F, src, g, keys(F.links, src[g]))
    BY <1>2, <2>3 DEF Partial
  <2>5. src[g] \in Nodes /\ src[g] # g
    BY <1>2
  <2>6. Copied(H, src, g, keys(H.links, src[g]))
    BY <1>8, <2>4 DEF Copied, CopiedAs
  <2> QED
    BY <1>2, <1>3, <1>8, <2>2, <2>5, <2>6 DEF Complete
<1>13. ASSUME NEW i \in Nodes, first < i, H.kind[i] = "group", i \notin Groups(t)
       PROVE  Complete(H, R, src, i)
  <2>1. CASE i = g
    BY <1>12, <2>1
  <2>2. CASE i # g
    <3>1. i \notin Groups(stack) /\ kind[i] = "group"
      BY <1>5, <1>8, <1>13, <2>2
    <3>2. Complete(F, R, src, i)
      BY <1>8, <1>13, <3>1 DEF Copying, F
    <3>3. /\ \A j \in Names : H.links[i][j] = F.links[i][j]
          /\ H.tag[i] = F.tag[i] /\ F.kind[i] # "none"
      BY <1>3, <1>8, <2>2, <3>1
    <3> QED
      BY <1>7, <3>2, <3>3, CompleteStays
  <2> QED
    BY <2>1, <2>2
<1>14. Copying(H, want, first, t, R, src)
  BY <1>9, <1>10, <1>11, <1>13 DEF Copying
<1> QED
  BY <1>1, <1>14 DEF H
-----------------------------------------------------------------------------

(* Between calls nothing is copied. *)
LEMMA IdleCopies == ASSUME call' = Idle PROVE Copies'
  BY DEF Copies, Idle

(* v[key] = w *)
LEMMA CopyViewCopies ==
    ASSUME IInv, CInv, Upwards, NEW v \in Views, NEW w \in Views, NEW k \in Names, CopyView(v, k, w)
    PROVE  Copies'
<1> DEFINE c == Clean(links, view[v], k)
           m == MakeGroup(links, c.view, k, Root)
           y == IF v = w THEN m.view ELSE view[w]
<1>1. IsOpen(w) /\ SetGroup(v, k, ViewOf(y))
  BY DEF CopyView
<1>2. IsOpen(v)
  BY <1>1 DEF SetGroup, Ready
<1>3. /\ view[v] \in ViewType /\ kind[view[v].grp] = "group" /\ links \in Tables
      /\ view[w] \in ViewType /\ kind[view[w].grp] = "group"
  BY <1>1, <1>2, ReadyView
<1>4. Effect(links, view[v], c.links, c.view, k)
  BY <1>3, CleanEffect
<1> HIDE DEF c
<1>5. c.view \in ViewType /\ c.view.grp = view[v].grp
  BY <1>4 DEF Effect
<1>6. Effect(links, c.view, m.links, m.view, k)
  BY <1>3, <1>5, NodeTypes, MakeEffect
<1> HIDE DEF m
<1>7. m.view.grp = view[v].grp
  BY <1>5, <1>6 DEF Effect
<1>8. y.grp \in Nodes /\ kind[y.grp] = "group"
  BY <1>3, <1>7 DEF ViewType
<1> HIDE DEF y
<1>9. ViewOf(y).grp \in Nodes /\ kind[ViewOf(y).grp] = "group"
  BY <1>8, ValueTypes
<1> QED
  BY <1>1, <1>9, SetGroupCopies

(* v[key] = w[j] *)
LEMMA CopyEntryCopies ==
    ASSUME IInv, CInv, Upwards, NEW v \in Views, NEW w \in Views, NEW j \in Names, NEW k \in Names,
           CopyEntry(v, k, w, j)
    PROVE  Copies'
<1> DEFINE n == Resolve(links, view[w].grp, j)
           x == Value(links, kind, n)
           F == Now
<1>1. CASE SetLeaf(v, k, data[n])
  BY <1>1, IdleCopies DEF SetLeaf, Ready
<1>2. CASE has_subgroup(links, kind, view[w].grp, j) /\ x # Unreadable /\ SetGroup(v, k, x)
  <2>1. n \in Nodes /\ kind[n] = "group" /\ links \in Tables
    BY <1>2 DEF has_subgroup, IInv, TypeOK, Tables
  <2>2. F.links = links /\ F.kind = kind
    BY DEF Now, Contents
  <2> HIDE DEF n
  <2>3. x = Reads(F, ViewsIn(F.links), n)
    BY <2>1, <2>2, ValueReads DEF Now
  <2>4. Rising(F.links)
    BY <2>2 DEF Rising, Upwards
  <2> HIDE DEF x, F
  <2>5. \/ F.kind[n] = "data" /\ x = Leaf(F.data[n])
        \/ F.kind[n] = "group" /\ F.tag[n] = Untagged /\ x = ViewOf(OpenAt(F.links, n))
        \/ /\ F.kind[n] = "group" /\ listable(F.links, n)
           /\ x = [type |-> "object", fmt |-> F.tag[n],
                   items |-> ItemsRead(F, ViewsIn(F.links), n)]
    BY <1>2, <2>1, <2>2, <2>3, <2>4, ReadableIs
  <2>6. ASSUME x.type = "view" PROVE x.grp = n
    <3>1. x = ViewOf(OpenAt(F.links, n))
      BY <2>1, <2>2, <2>5, <2>6
    <3> QED
      BY <3>1, ValueTypes DEF OpenAt
  <2> QED
    BY <1>2, <2>1, <2>6, SetGroupCopies
<1> QED
  BY <1>1, <1>2 DEF CopyEntry

(* Every step of the archive preserves what is known of the copy. *)
LEMMA NextCopies == ASSUME IInv, CInv, Upwards, Copies, [Next]_vars PROVE Copies'
<1>1. CASE \E v \in Views : OpenArchive(v) \/ Drop(v)
  BY <1>1, IdleCopies DEF OpenArchive, Drop, Ready
<1>2. CASE \E v, w \in Views, k \in Names : GetRaw(v, k, w)
  BY <1>2, IdleCopies DEF GetRaw, Ready
<1>3. CASE \E v \in Views, k \in Names, x \in Leaves : SetLeaf(v, k, x)
  BY <1>3, IdleCopies DEF SetLeaf, Ready
<1>4. CASE \E v \in Views, k \in Names : SetRejected(v, k) \/ SetTorn(v, k)
  BY <1>4, IdleCopies DEF SetRejected, SetTorn, Ready
<1>5. ASSUME NEW v \in Views, NEW k \in Names, NEW x \in Objects, SetGroup(v, k, x) PROVE Copies'
  <2>1. x.type # "view"
    BY ObjectsWellFormed
  <2> QED
    BY <1>5, <2>1, SetGroupCopies
<1>6. CASE \E v, w \in Views, k \in Names : CopyView(v, k, w)
  BY <1>6, CopyViewCopies
<1>7. CASE \E v, w \in Views, j, k \in Names : CopyEntry(v, k, w, j)
  BY <1>7, CopyEntryCopies
<1>8. ASSUME NEW k \in Names, StoreLeaf(k) \/ StoreGroup(k) PROVE Copies'
  <2> SUFFICES ASSUME call.type = "set", call.want # NoGoal
               PROVE  \E R, src : Copying(Then, call.want, call.first, stack', R, src)
    BY <1>8 DEF Copies, Now, Then, StoreLeaf, StoreGroup
  <2>1. PICK R, src : Copying(Now, call.want, call.first, stack, R, src)
    BY DEF Copies
  <2> QED
    BY <1>8, <2>1, StoreLeafCopies, StoreGroupCopies
<1>9. CASE Finish
  <2>1. CASE stack' = <<>>
    <3>1. call' = Idle
      BY <1>9, <2>1 DEF Finish
    <3> QED
      BY <3>1, IdleCopies
  <2>2. CASE stack' # <<>>
    <3>1. call' = call
      BY <1>9, <2>2 DEF Finish
    <3> SUFFICES ASSUME call.type = "set", call.want # NoGoal
                 PROVE  \E R, src : Copying(Then, call.want, call.first, stack', R, src)
      BY <3>1 DEF Copies, Now, Then
    <3>2. PICK R, src : Copying(Now, call.want, call.first, stack, R, src)
      BY DEF Copies
    <3> QED
      BY <1>9, <2>2, <3>2, FinishCopies
  <2> QED
    BY <2>1, <2>2
<1>10. CASE Raise \/ \E k \in Names : RaiseTorn(k)
  BY <1>10, IdleCopies DEF Raise, RaiseTorn, Abandon
<1>11. CASE \E v \in Views, k \in Names : DelItem(v, k) \/ CreateGroup(v, k) \/ CreateFails(v, k)
  BY <1>11, IdleCopies DEF DelItem, CreateGroup, CreateFails, Ready
<1>12. CASE \E v \in Views, s \in Aliases : CreateSoftlink(v, s[1], s[2])
  BY <1>12, IdleCopies DEF CreateSoftlink, Ready
<1>13. CASE UNCHANGED vars
  BY <1>13 DEF Copies, vars, Now
<1> QED
  BY <1>1, <1>2, <1>3, <1>4, <1>5, <1>6, <1>7, <1>8, <1>9, <1>10, <1>11, <1>12, <1>13 DEF Next
-----------------------------------------------------------------------------
(* What a copy reads as.                                                   *)

(* A group that has copies of the entries in K reads as what those of its  *)
(* source do, if that is so of the groups among them.                      *)
LEMMA CopiedReads ==
    ASSUME NEW F, F.links \in Tables, Rising(F.links), NEW src,
           NEW c \in Nodes, F.kind[c] = "group", src[c] \in Nodes,
           NEW K, K \subseteq Names, Copied(F, src, c, K),
           \A c2 \in Nodes : c < c2 /\ F.kind[c2] = "group" =>
             /\ Reads(F, NoViews, c2) = Reads(F, NoViews, src[c2])
             /\ Reads(F, NoViews, c2) # Unreadable
    PROVE  /\ \A k \in K : /\ Resolve(F.links, src[c], k) # NoNode
                           /\ Reads(F, NoViews, Resolve(F.links, src[c], k)) # Unreadable
           /\ Reads(F, NoViews, c) =
                [type |-> "object", fmt |-> F.tag[c],
                 items |-> [k \in K |-> Reads(F, NoViews, Resolve(F.links, src[c], k))]]
<1>1. ASSUME NEW k \in K
      PROVE  /\ F.links[c][k].type # "none"
             /\ Resolve(F.links, c, k) \in Nodes
             /\ Resolve(F.links, src[c], k) # NoNode
             /\ Reads(F, NoViews, Resolve(F.links, c, k)) =
                Reads(F, NoViews, Resolve(F.links, src[c], k))
             /\ Reads(F, NoViews, Resolve(F.links, c, k)) # Unreadable
  <2> DEFINE s == Resolve(F.links, src[c], k)
  <2>1. k \in Names /\ CopiedAs(F, src, c, k)
    BY DEF Copied
  <2>2. PICK c2 \in Nodes :
          /\ F.links[c][k] = Hard(c2) /\ s # NoNode
          /\ \/ F.kind[s] = "data" /\ F.kind[c2] = "data" /\ F.data[c2] = F.data[s]
             \/ F.kind[s] = "group" /\ F.kind[c2] = "group" /\ src[c2] = s
    BY <2>1 DEF CopiedAs
  <2>3. F.links[c][k].type = "hard" /\ F.links[c][k].node = c2 /\ Resolve(F.links, c, k) = c2
    BY <2>1, <2>2, LinkTypes, ResolveHard
  <2>4. c < c2
    BY <2>1, <2>3 DEF Rising
  <2>5. s \in Nodes
    BY <2>1, <2>2, ResolveTyped DEF Targets
  <2> HIDE DEF s
  <2>6. Reads(F, NoViews, c2) = Reads(F, NoViews, s) /\ Reads(F, NoViews, c2) # Unreadable
    <3>1. CASE F.kind[s] = "data" /\ F.kind[c2] = "data" /\ F.data[c2] = F.data[s]
      <4>1. /\ Reads(F, NoViews, c2) = Leaf(F.data[c2])
            /\ Reads(F, NoViews, s) = Leaf(F.data[s])
        BY <2>5, <3>1, ReadsIs
      <4> QED
        BY <3>1, <4>1, LeafTypes
    <3>2. CASE F.kind[c2] = "group" /\ src[c2] = s
      BY <2>4, <3>2
    <3> QED
      BY <2>2, <3>1, <3>2
  <2> QED
    BY <2>2, <2>3, <2>6 DEF s
<1>2. keys(F.links, c) = K
  BY <1>1 DEF keys, Lexists, Copied
<1>3. listable(F.links, c)
  BY <1>1, <1>2, NodeTypes DEF listable, keys
<1> DEFINE items == ItemsRead(F, NoViews, c)
<1>4. items = [k \in K |-> Reads(F, NoViews, Resolve(F.links, src[c], k))]
  BY <1>1, <1>2 DEF ItemsRead
<1>5. \A k \in keys(F.links, c) : items[k] # Unreadable
  BY <1>1, <1>2, <1>4
<1>6. NoViews[c] = NoGoal
  BY DEF NoViews
<1>7. Reads(F, NoViews, c) =
        IF F.kind[c] = "data" THEN Leaf(F.data[c])
        ELSE IF ~listable(F.links, c) THEN Unreadable
        ELSE IF F.tag[c] = Untagged /\ NoViews[c] # NoGoal THEN NoViews[c]
        ELSE IF \E k \in keys(F.links, c) : items[k] = Unreadable THEN Unreadable
        ELSE [type |-> "object", fmt |-> F.tag[c], items |-> items]
  BY ReadsIs
<1> HIDE DEF items
<1>8. F.kind[c] # "data"
  OBVIOUS
<1>9. Reads(F, NoViews, c) = [type |-> "object", fmt |-> F.tag[c], items |-> items]
  BY <1>3, <1>5, <1>6, <1>7, <1>8, Zenon
<1> QED
  BY <1>1, <1>4, <1>9

(* A complete copy reads as its source: by induction from the highest      *)
(* address down.                                                           *)
LEMMA CompleteReads ==
    ASSUME NEW F, F.links \in Tables, Rising(F.links), NEW R, Enclosed(F.links, R),
           NEW src, NEW first,
           \A c \in Nodes : first < c /\ F.kind[c] = "group" => Complete(F, R, src, c),
           NEW c \in Nodes, first < c, F.kind[c] = "group", first \in Nat
    PROVE  /\ Reads(F, NoViews, c) = Reads(F, NoViews, src[c])
           /\ Reads(F, NoViews, c) # Unreadable
<1> DEFINE Known(d) == \A i \in Nodes : first < i /\ F.kind[i] = "group" /\ MaxNodes <= i + d =>
                          /\ Reads(F, NoViews, i) = Reads(F, NoViews, src[i])
                          /\ Reads(F, NoViews, i) # Unreadable
           S == {d \in Nat : Known(d)}
<1>1. MaxNodes \in Nat /\ Nodes \subseteq Nat /\ \A i \in Nodes : i < MaxNodes
  BY MaxNodesAssumption, NodeTypes DEF Nodes
<1>2. 0 \in S
  <2>1. \A i \in Nodes : ~(MaxNodes <= i + 0)
    BY <1>1
  <2> QED
    BY <2>1
<1>3. ASSUME NEW d \in Nat, d < MaxNodes, Known(d),
             NEW i \in Nodes, first < i, F.kind[i] = "group", MaxNodes <= i + (d + 1)
      PROVE  /\ Reads(F, NoViews, i) = Reads(F, NoViews, src[i])
             /\ Reads(F, NoViews, i) # Unreadable
  <2> HIDE DEF S
  <2> DEFINE s == src[i]
             K == keys(F.links, s)
             items == [k \in K |-> Reads(F, NoViews, Resolve(F.links, s, k))]
  <2>1. /\ s \in R /\ F.kind[s] = "group" /\ F.tag[i] = F.tag[s]
        /\ Copied(F, src, i, K)
    BY <1>3 DEF Complete
  <2>2. s \in Nodes /\ K \subseteq Names
    BY <2>1 DEF Enclosed, keys
  <2>3. \A j \in Nodes : i < j /\ F.kind[j] = "group" =>
          /\ Reads(F, NoViews, j) = Reads(F, NoViews, src[j])
          /\ Reads(F, NoViews, j) # Unreadable
    <3>1. ASSUME NEW j \in Nodes, i < j PROVE first < j /\ MaxNodes <= j + d
      <4>1. i \in Nat /\ j \in Nat
        BY <1>1
      <4> QED
        BY <1>1, <1>3, <3>1, <4>1
    <3> QED
      BY <1>3, <3>1
  <2> HIDE DEF K, Known
  <2>4. /\ \A k \in K : /\ Resolve(F.links, s, k) # NoNode
                        /\ Reads(F, NoViews, Resolve(F.links, s, k)) # Unreadable
        /\ Reads(F, NoViews, i) = [type |-> "object", fmt |-> F.tag[i], items |-> items]
    BY <1>3, <2>1, <2>2, <2>3, CopiedReads
  <2>5. listable(F.links, s) /\ F.kind[s] # "data" /\ NoViews[s] = NoGoal
    BY <2>1, <2>2, <2>4 DEF listable, K, keys, NoViews
  <2> HIDE DEF s
  <2>6. items = ItemsRead(F, NoViews, s)
    BY DEF ItemsRead, K
  <2>7. \A k \in K : items[k] # Unreadable
    BY <2>4
  <2> HIDE DEF items
  <2>8. Reads(F, NoViews, s) =
          IF F.kind[s] = "data" THEN Leaf(F.data[s])
          ELSE IF ~listable(F.links, s) THEN Unreadable
          ELSE IF F.tag[s] = Untagged /\ NoViews[s] # NoGoal THEN NoViews[s]
          ELSE IF \E k \in keys(F.links, s) : items[k] = Unreadable THEN Unreadable
          ELSE [type |-> "object", fmt |-> F.tag[s], items |-> items]
    BY <2>2, <2>6, ReadsIs
  <2>9. Reads(F, NoViews, s) = [type |-> "object", fmt |-> F.tag[s], items |-> items]
    BY <2>5, <2>7, <2>8, Zenon DEF K
  <2>10. Reads(F, NoViews, i) # Unreadable
    BY <2>4 DEF Unreadable
  <2> QED
    BY <2>1, <2>4, <2>9, <2>10 DEF s
<1>4. ASSUME NEW d \in Nat, d < MaxNodes, d \in S PROVE d + 1 \in S
  BY <1>3, <1>4
<1> HIDE DEF Known
<1>5. 0..MaxNodes \subseteq S
  <2> HIDE DEF S
  <2> QED
    BY <1>1, <1>2, <1>4, UpTo
<1>6. Known(MaxNodes)
  BY <1>1, <1>5
<1> QED
  BY <1>1, <1>6 DEF Known

(* When nothing is left to store the copy reads as was wanted. *)
LEMMA CopyDone == ASSUME IInv, CInv, Upwards, Copies PROVE CopyFaithful
<1> SUFFICES ASSUME Len(stack) = 1, DOMAIN Top.todo = {}, call.want # NoGoal
             PROVE  Deep(links, kind, call.first) = call.want
  BY DEF CopyFaithful
<1> DEFINE F == Now
           first == call.first
           want == call.want
           items == want.items
           K == DOMAIN items
<1>1. stack # <<>> /\ call.type = "set"
  <2>1. stack # <<>>
    BY EmptyStack
  <2> QED
    BY <2>1 DEF IInv, Calling
<1>2. PICK R, src : Copying(F, want, first, stack, R, src)
  BY <1>1 DEF Copies
<1>3. /\ Source(F, want, first, R, src)
      /\ Enclosed(links, R) /\ \A c \in R : c \in Nodes /\ kind[c] # "none"
      /\ first \in Nodes
      /\ Partial(F, want, first, R, src, Top)
      /\ F.links \in Tables /\ Rising(F.links)
  BY <1>1, <1>2, TopCopying
<1>4. F.links = links /\ F.kind = kind /\ F.data = data /\ F.tag = tag
  BY DEF Now, Contents
<1>5. Top.sub.grp = first /\ Groups(stack) = {first} /\ kind[first] = "group" /\ tag[first] = Untagged
  <2>1. Top = stack[1]
    BY <1>1, TopFrame
  <2>2. Top.sub.grp = first
    BY <1>2, <2>1 DEF Copying
  <2>3. Groups(stack) = {first}
    BY <2>1, <2>2 DEF Groups
  <2> QED
    BY <1>1, <2>2, <2>3, TopFilling
<1>6. ASSUME NEW c \in Nodes, first < c, F.kind[c] = "group" PROVE Complete(F, R, src, c)
  <2>1. c # first
    <3>1. first \in Nat
      BY <1>3, NodeTypes
    <3> QED
      BY <1>6, <3>1
  <2> QED
    BY <1>2, <1>5, <1>6, <2>1 DEF Copying
<1> HIDE DEF F
<1>7. /\ src[first] \in R /\ src[first] \in Nodes
      /\ want = [type |-> "object", fmt |-> Untagged, items |-> items]
      /\ items = [k \in K |-> ItemWanted(F, src[first], k)]
      /\ K \subseteq Names
  BY <1>3 DEF Source
<1>8. Copied(F, src, first, K)
  <2>1. Entries(F, want, first, src, first) \ DOMAIN Top.todo = K
    BY DEF Entries
  <2> QED
    BY <1>3, <1>5, <2>1 DEF Partial
<1>9. \A c \in Nodes : first < c /\ F.kind[c] = "group" =>
        /\ Reads(F, NoViews, c) = Reads(F, NoViews, src[c])
        /\ Reads(F, NoViews, c) # Unreadable
  <2>1. first \in Nat
    BY <1>3, NodeTypes
  <2> HIDE DEF first
  <2> QED
    BY <1>3, <1>4, <1>6, <2>1, CompleteReads
<1> HIDE DEF first, want, items, K
<1>10. /\ \A k \in K : /\ Resolve(F.links, src[first], k) # NoNode
                       /\ Reads(F, NoViews, Resolve(F.links, src[first], k)) # Unreadable
       /\ Reads(F, NoViews, first) =
            [type |-> "object", fmt |-> F.tag[first],
             items |-> [k \in K |-> Reads(F, NoViews, Resolve(F.links, src[first], k))]]
  <2>1. F.kind[first] = "group"
    BY <1>4, <1>5
  <2> QED
    BY <1>3, <1>7, <1>8, <1>9, <2>1, CopiedReads
<1>11. items = [k \in K |-> Reads(F, NoViews, Resolve(F.links, src[first], k))]
  BY <1>7, <1>10 DEF ItemWanted
<1>12. Reads(F, NoViews, first) = want
  BY <1>4, <1>5, <1>7, <1>10, <1>11
<1>13. Deep(links, kind, first) = Reads(F, NoViews, first)
  BY <1>3, <1>4, ValueReads DEF F, Now
<1> QED
  BY <1>12, <1>13 DEF first, want

(* In a new file nothing is copied. *)
LEMMA InitCopies == Init => Copies
  BY DEF Init, Copies, Idle

(* A copy made by archive[key] = view reads as its source did at the call, *)
(* at any depth and whatever was overwritten on the way, the source itself *)
(* included: __setitem__ takes the list of entries first and stores them   *)
(* one by one (archive.py 189-193), each in full before the next, and what *)
(* it stores it never changes again.                                       *)
THEOREM Copy == Spec => []CopyFaithful
<1>1. Init => IInv /\ CInv /\ Upwards /\ Copies
  BY InitIInv, InitCommit, InitUpwards, InitCopies
<1>2. IInv /\ CInv /\ Upwards /\ Copies /\ [Next]_vars => (IInv /\ CInv /\ Upwards /\ Copies)'
  BY NextIInv, NextCommit, NextUpwards, NextCopies
<1>3. IInv /\ CInv /\ Upwards /\ Copies => CopyFaithful
  BY CopyDone
<1> QED
  BY <1>1, <1>2, <1>3, PTL DEF Spec
=============================================================================
