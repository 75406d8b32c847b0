-------------------------- MODULE GroupOpsProofs ---------------------------
(***************************************************************************)
(* Facts about the link tables of LinkStore and the operations of GroupOps *)
(* on them, for any number of objects and names: what a chain of hard      *)
(* links reaches, and what an operation leaves of a table.                 *)
(*                                                                         *)
(* Below is a recursive function on 0..MaxNodes.  Its facts are proved by  *)
(* induction, as the absence of a least counterexample (Least).            *)
(***************************************************************************)
EXTENDS GroupOps, FiniteSetTheorems, WellFoundedInduction, TLAPS

LessOnNat == {ss \in Nat \X Nat : ss[1] < ss[2]}

(* Every set of natural numbers that is not empty has a least element.     *)
LEMMA Least ==
    ASSUME NEW S, S \subseteq Nat, S # {}
    PROVE  \E m \in S : \A n \in S : m <= n
  <1>1. IsWellFoundedOn(LessOnNat, Nat)
    BY NatLessThanWellFounded, Zenon DEF OpToRel, LessOnNat
  <1>2. PICK m \in S : \A n \in S : ~(<<n, m>> \in LessOnNat)
    BY <1>1, WFMin
  <1>3. \A n \in S : m <= n
    <2> SUFFICES ASSUME NEW n \in S PROVE m <= n
      OBVIOUS
    <2>1. ~(<<n, m>> \in LessOnNat)
      BY <1>2
    <2>2. m \in Nat /\ n \in Nat
      OBVIOUS
    <2>3. ~(n < m)
      BY <2>1, <2>2, SMT DEF LessOnNat
    <2> QED
      BY <2>2, <2>3
  <1> QED
    BY <1>3

(* Induction: what holds of 0, and of n + 1 when it holds of n, holds of   *)
(* every number up to m.                                                   *)
LEMMA UpTo ==
    ASSUME NEW m \in Nat, NEW S,
           0 \in S, \A n \in Nat : n < m /\ n \in S => n + 1 \in S
    PROVE  0..m \subseteq S
  <1> SUFFICES ASSUME NEW x \in 0..m, x \notin S PROVE FALSE
    OBVIOUS
  <1> DEFINE Bad == {n \in 0..m : n \notin S}
  <1>1. Bad \subseteq Nat /\ Bad # {}
    OBVIOUS
  <1>2. PICK n \in Bad : \A k \in Bad : n <= k
    BY <1>1, Least
  <1>3. n \in Nat /\ n # 0 /\ n <= m /\ n \notin S
    BY <1>1, <1>2
  <1>4. n - 1 \in Nat /\ n - 1 < m /\ (n - 1) + 1 = n /\ ~(n <= n - 1)
    BY <1>3
  <1>5. n - 1 \in S
    <2> SUFFICES ASSUME n - 1 \notin S PROVE FALSE
      OBVIOUS
    <2>1. n - 1 \in Bad
      BY <1>4
    <2> QED
      BY <2>1, <1>2, <1>4
  <1> QED
    BY <1>3, <1>4, <1>5

-----------------------------------------------------------------------------
(* What one more hard link leads to. *)
Children(links, A) ==
    {links[e[1]][e[2]].node : e \in {e \in A \X Names : links[e[1]][e[2]].type = "hard"}}

(* The body of reach in Below. *)
Reached(links, g, f, d) ==
    IF d = 0 THEN {g} ELSE f[d - 1] \cup Children(links, f[d - 1])

(* f is the function reach of Below, as far as m. *)
Reaches(links, g, f, m) == f = [d \in 0..m |-> Reached(links, g, f, d)]

(* One more link reaches one object further. *)
LEMMA ReachesStep ==
    ASSUME NEW links, NEW g, NEW f, NEW m \in Nat, Reaches(links, g, f, m),
           NEW d \in 0..m
    PROVE  f[d] = Reached(links, g, f, d)
  <1> DEFINE F(x) == Reached(links, g, f, x)
  <1>1. f = [x \in 0..m |-> F(x)]
    BY DEF Reaches
  <1> HIDE DEF F
  <1>2. f[d] = F(d)
    BY <1>1
  <1> QED
    BY <1>2 DEF F

(* The recursion of Below defines a function. *)
LEMMA ReachExists ==
    ASSUME NEW links, NEW g, NEW m \in Nat
    PROVE  \E f : Reaches(links, g, f, m)
  <1> DEFINE S == {n \in Nat : \E f : Reaches(links, g, f, n)}
  <1>1. 0 \in S
    <2> DEFINE f == [d \in 0..0 |-> {g}]
    <2>1. f = [d \in 0..0 |-> Reached(links, g, f, d)]
      BY DEF Reached
    <2> QED
      BY <2>1 DEF Reaches
  <1>2. ASSUME NEW n \in Nat, n < m, n \in S PROVE n + 1 \in S
    <2>1. PICK f : Reaches(links, g, f, n)
      BY <1>2
    <2> DEFINE h == [d \in 0..(n + 1) |->
                       IF d <= n THEN f[d] ELSE f[n] \cup Children(links, f[n])]
    <2>2. ASSUME NEW d \in 0..(n + 1)
          PROVE  h[d] = Reached(links, g, h, d)
      <3>1. CASE d = 0
        <4>1. 0 \in 0..n /\ h[d] = f[0]
          BY <3>1
        <4>2. f[0] = Reached(links, g, f, 0)
          BY <4>1, <2>1, ReachesStep
        <4> QED
          BY <3>1, <4>1, <4>2 DEF Reached
      <3>2. CASE d # 0 /\ d <= n
        <4>0. d \in 0..n
          BY <3>2
        <4>1. f[d] = f[d - 1] \cup Children(links, f[d - 1])
          <5>1. f[d] = Reached(links, g, f, d)
            BY <4>0, <2>1, ReachesStep
          <5> QED
            BY <5>1, <3>2 DEF Reached
        <4>2. h[d] = f[d] /\ h[d - 1] = f[d - 1]
          BY <3>2
        <4> HIDE DEF h
        <4> QED
          BY <3>2, <4>1, <4>2 DEF Reached
      <3>3. CASE d = n + 1
        <4>1. h[d] = f[n] \cup Children(links, f[n]) /\ h[d - 1] = f[n] /\ d # 0
          BY <3>3
        <4> HIDE DEF h
        <4> QED
          BY <4>1 DEF Reached
      <3> QED
        BY <3>1, <3>2, <3>3
    <2>3. h = [d \in 0..(n + 1) |-> h[d]]
      OBVIOUS
    <2> HIDE DEF h
    <2>4. Reaches(links, g, h, n + 1)
      BY <2>2, <2>3, Zenon DEF Reaches
    <2> QED
      BY <2>4
  <1>3. 0..m \subseteq S
    <2> HIDE DEF S
    <2> QED BY <1>1, <1>2, UpTo
  <1> QED
    BY <1>3

Chain(links, g, f) ==
    /\ f[0] = {g}
    /\ \A n \in Nat : n < MaxNodes => f[n + 1] = f[n] \cup Children(links, f[n])

(* Below is the last of the sets that grow by one link at a time.          *)
LEMMA BelowUnfolds ==
    ASSUME NEW links, NEW g
    PROVE  \E f : Chain(links, g, f) /\ Below(links, g) = f[MaxNodes]
  <1> DEFINE f == CHOOSE f : Reaches(links, g, f, MaxNodes)
  <1>1. MaxNodes \in Nat
    BY MaxNodesAssumption
  <1>2. Reaches(links, g, f, MaxNodes)
    BY <1>1, ReachExists
  <1>3. Below(links, g) = f[MaxNodes]
    BY DEF Below, Reaches, Reached, Children
  <1> HIDE DEF f
  <1>4. f[0] = {g}
    <2>1. 0 \in 0..MaxNodes
      BY <1>1
    <2>2. f[0] = Reached(links, g, f, 0)
      BY <1>1, <1>2, <2>1, ReachesStep
    <2> QED
      BY <2>2 DEF Reached
  <1>5. ASSUME NEW n \in Nat, n < MaxNodes
        PROVE  f[n + 1] = f[n] \cup Children(links, f[n])
    <2> DEFINE d == n + 1
    <2>1. d \in 0..MaxNodes /\ d # 0 /\ d - 1 = n
      BY <1>1, <1>5
    <2> HIDE DEF d
    <2>2. f[d] = Reached(links, g, f, d)
      BY <1>1, <1>2, <2>1, ReachesStep
    <2>3. f[d] = f[n] \cup Children(links, f[n])
      BY <2>1, <2>2 DEF Reached
    <2> QED
      BY <2>3 DEF d
  <1> QED
    BY <1>3, <1>4, <1>5, Zenon DEF Chain

(* A group is below itself. *)
LEMMA BelowItself ==
    ASSUME NEW links, NEW g
    PROVE  g \in Below(links, g)
  <1>1. PICK f : Chain(links, g, f) /\ Below(links, g) = f[MaxNodes]
    BY BelowUnfolds, Zenon
  <1>g. f[0] = {g}
    BY <1>1 DEF Chain
  <1> DEFINE S == {d \in Nat : d <= MaxNodes => g \in f[d]}
  <1>2. MaxNodes \in Nat
    BY MaxNodesAssumption
  <1>3. 0 \in S
    BY <1>g
  <1>4. ASSUME NEW n \in Nat, n < MaxNodes, n \in S PROVE n + 1 \in S
    <2>1. f[n + 1] = f[n] \cup Children(links, f[n])
      BY <1>1, <1>4, Zenon DEF Chain
    <2> QED
      BY <1>2, <1>4, <2>1
  <1>5. MaxNodes \in S
    <2> HIDE DEF S
    <2>1. 0..MaxNodes \subseteq S
      BY <1>2, <1>3, <1>4, UpTo
    <2> QED
      BY <1>2, <2>1
  <1> QED
    BY <1>1, <1>2, <1>5

(* Nothing is below g but what is in every set that has g in it and that   *)
(* hard links do not lead out of.                                          *)
LEMMA BelowWithin ==
    ASSUME NEW links, NEW g, NEW S, g \in S,
           \A n \in S, k \in Names :
              links[n][k].type = "hard" => links[n][k].node \in S
    PROVE  Below(links, g) \subseteq S
  <1>1. PICK f : Chain(links, g, f) /\ Below(links, g) = f[MaxNodes]
    BY BelowUnfolds, Zenon
  <1>g. f[0] = {g}
    BY <1>1 DEF Chain
  <1> DEFINE D == {d \in Nat : d <= MaxNodes => f[d] \subseteq S}
  <1>2. MaxNodes \in Nat
    BY MaxNodesAssumption
  <1>3. 0 \in D
    BY <1>g
  <1>4. ASSUME NEW n \in Nat, n < MaxNodes, n \in D PROVE n + 1 \in D
    <2>1. f[n + 1] = f[n] \cup Children(links, f[n])
      BY <1>1, <1>4, Zenon DEF Chain
    <2>2. f[n] \subseteq S
      BY <1>2, <1>4
    <2>3. Children(links, f[n]) \subseteq S
      BY <2>2 DEF Children
    <2> QED
      BY <2>1, <2>2, <2>3
  <1>5. MaxNodes \in D
    <2> HIDE DEF D
    <2>1. 0..MaxNodes \subseteq D
      BY <1>2, <1>3, <1>4, UpTo
    <2> QED
      BY <1>2, <2>1
  <1> QED
    BY <1>1, <1>2, <1>5

(* Hard links lead from objects to objects. *)
HardInNodes(links) ==
    \A n \in Nodes, k \in Names :
        links[n][k].type = "hard" => links[n][k].node \in Nodes

(* Everything below a group is an object. *)
LEMMA BelowIsNodes ==
    ASSUME NEW links, NEW g \in Nodes, HardInNodes(links)
    PROVE  Below(links, g) \subseteq Nodes
  BY BelowWithin DEF HardInNodes

(* A set that grows as long as hard links lead out of it runs out of       *)
(* objects after MaxNodes rounds: no hard link leads out of Below.         *)
LEMMA BelowClosed ==
    ASSUME NEW links, NEW g \in Nodes, HardInNodes(links),
           NEW n \in Below(links, g), NEW k \in Names, links[n][k].type = "hard"
    PROVE  links[n][k].node \in Below(links, g)
  <1>1. PICK f : Chain(links, g, f) /\ Below(links, g) = f[MaxNodes]
    BY BelowUnfolds, Zenon
  <1>g. f[0] = {g}
    BY <1>1 DEF Chain
  <1>2. MaxNodes \in Nat /\ MaxNodes # 0
    BY MaxNodesAssumption
  <1>3. IsFiniteSet(Nodes) /\ Cardinality(Nodes) = MaxNodes
    BY <1>2, FS_Interval DEF Nodes
  <1> DEFINE Closed(A) == Children(links, A) \subseteq A
             D == {d \in Nat : d <= MaxNodes =>
                     /\ f[d] \subseteq Nodes
                     /\ Closed(f[d]) \/ Cardinality(f[d]) >= d + 1}
  <1>4. 0 \in D
    <2>1. f[0] \subseteq Nodes /\ Cardinality(f[0]) = 1
      BY <1>g, FS_Singleton
    <2> QED
      BY <2>1
  <1>5. ASSUME NEW d \in Nat, d < MaxNodes, d \in D PROVE d + 1 \in D
    <2>1. f[d + 1] = f[d] \cup Children(links, f[d])
      BY <1>1, <1>5, Zenon DEF Chain
    <2>2. f[d] \subseteq Nodes
      BY <1>2, <1>5
    <2>3. f[d + 1] \subseteq Nodes
      BY <2>1, <2>2 DEF HardInNodes, Children
    <2>4. CASE Closed(f[d])
      <3>1. f[d + 1] = f[d]
        BY <2>1, <2>4
      <3> QED
        BY <2>3, <2>4, <3>1
    <2>5. CASE ~Closed(f[d])
      <3>1. Cardinality(f[d]) >= d + 1
        BY <1>2, <1>5, <2>5
      <3>2. f[d] \subseteq f[d + 1] /\ f[d] # f[d + 1]
        BY <2>1, <2>5
      <3>3. IsFiniteSet(f[d]) /\ IsFiniteSet(f[d + 1])
        BY <1>3, <2>2, <2>3, FS_Subset
      <3>4. Cardinality(f[d]) \in Nat /\ Cardinality(f[d + 1]) \in Nat
        BY <3>3, FS_CardinalityType
      <3>5. /\ Cardinality(f[d]) <= Cardinality(f[d + 1])
            /\ Cardinality(f[d]) # Cardinality(f[d + 1])
        BY <3>2, <3>3, FS_Subset
      <3>6. Cardinality(f[d + 1]) >= (d + 1) + 1
        BY <3>1, <3>4, <3>5
      <3> QED
        BY <2>3, <3>6
    <2> QED
      BY <2>4, <2>5
  <1>6. MaxNodes \in D
    <2> HIDE DEF D
    <2>1. 0..MaxNodes \subseteq D
      BY <1>2, <1>4, <1>5, UpTo
    <2> QED
      BY <1>2, <2>1
  <1>7. Closed(f[MaxNodes])
    <2>1. f[MaxNodes] \subseteq Nodes
      BY <1>2, <1>6
    <2>2. Cardinality(f[MaxNodes]) <= MaxNodes /\ Cardinality(f[MaxNodes]) \in Nat
      BY <1>3, <2>1, FS_Subset, FS_CardinalityType
    <2> HIDE DEF Closed
    <2>3. Closed(f[MaxNodes]) \/ Cardinality(f[MaxNodes]) >= MaxNodes + 1
      BY <1>2, <1>6
    <2> QED
      BY <1>2, <2>2, <2>3
  <1>8. links[n][k].node \in Children(links, f[MaxNodes])
    <2>1. <<n, k>> \in f[MaxNodes] \X Names
      BY <1>1
    <2> QED
      BY <2>1 DEF Children
  <1> QED
    BY <1>1, <1>7, <1>8

-----------------------------------------------------------------------------
(* The operations. *)

Tables == [Nodes -> [Names -> Links]]

(* There is room for the root. *)
LEMMA RootIsNode == Root \in Nodes
  BY MaxNodesAssumption DEF Root, Nodes

(* What cannot be opened is no object. *)
LEMMA NoNodeOutside == NoNode \notin Nodes
  BY MaxNodesAssumption DEF NoNode, Nodes

(* Every link says what it is. *)
LEMMA LinkCases ==
    ASSUME NEW l \in Links
    PROVE  /\ l.type \in {"none", "hard", "soft"}
           /\ l.type = "hard" => l.node \in Nodes /\ l = Hard(l.node)
           /\ l.type = "soft" => l.path \in Names
           /\ l.type = "none" => l = NoLink
  BY DEF Links, NoLink, Hard, Soft

(* In a typed table hard links lead to objects. *)
LEMMA TablesHardInNodes ==
    ASSUME NEW links \in Tables
    PROVE  HardInNodes(links)
  <1> SUFFICES ASSUME NEW n \in Nodes, NEW k \in Names, links[n][k].type = "hard"
               PROVE  links[n][k].node \in Nodes
    BY DEF HardInNodes
  <1>1. links[n][k] \in Links
    BY DEF Tables
  <1> QED
    BY <1>1, LinkCases

(* Setting a link keeps the table typed. *)
LEMMA SetLinkTyping ==
    ASSUME NEW links \in Tables, NEW g \in Nodes, NEW k \in Names, NEW l \in Links
    PROVE  SetLink(links, g, k, l) \in Tables
  BY DEF SetLink, Tables

(* The link that is set is that one, and no other changes. *)
LEMMA SetLinkValue ==
    ASSUME NEW links \in Tables, NEW g \in Nodes, NEW k \in Names, NEW l
    PROVE  /\ SetLink(links, g, k, l)[g][k] = l
           /\ \A m \in Nodes, j \in Names :
                 m # g \/ j # k => SetLink(links, g, k, l)[m][j] = links[m][j]
  BY DEF SetLink, Tables

(* Of two settings of one link the second counts. *)
LEMMA SetLinkTwice ==
    ASSUME NEW links \in Tables, NEW g \in Nodes, NEW k \in Names, NEW a, NEW b
    PROVE  SetLink(SetLink(links, g, k, a), g, k, b) = SetLink(links, g, k, b)
  BY DEF SetLink, Tables

(* The links that there are. *)
LEMMA SomeLinks ==
    /\ NoLink \in Links /\ NoLink.type = "none"
    /\ \A n \in Nodes : Hard(n) \in Links /\ Hard(n).type = "hard" /\ Hard(n).node = n
    /\ \A k \in Names : Soft(k) \in Links /\ Soft(k).type = "soft"
  BY DEF Links, NoLink, Hard, Soft

(* unlink takes the link away or leaves the table alone; it does the       *)
(* latter when it throws.                                                  *)
LEMMA UnlinkResult ==
    ASSUME NEW links \in Tables, NEW g \in Nodes, NEW k \in Names, NEW e \in BOOLEAN
    PROVE  LET r == unlink(links, g, k, e)
           IN  /\ r.ok \in BOOLEAN
               /\ ~r.ok => e /\ r.links = links
               /\ ~e => ~has_key(r.links, g, k)
               /\ \/ r.links = links
                  \/ r.links = SetLink(links, g, k, NoLink)
  <1>1. CASE has_key(links, g, k)
    <2>1. unlink(links, g, k, e) = [ok |-> TRUE, links |-> SetLink(links, g, k, NoLink)]
      BY <1>1 DEF unlink, Returns
    <2>2. ~has_key(SetLink(links, g, k, NoLink), g, k)
      BY SetLinkValue, SomeLinks DEF has_key, Lexists
    <2> QED
      BY <2>1, <2>2
  <1>2. CASE ~has_key(links, g, k) /\ e
    <2>1. unlink(links, g, k, e) = [ok |-> FALSE, links |-> links]
      BY <1>2 DEF unlink, Throws
    <2> QED
      BY <2>1, <1>2
  <1>3. CASE ~has_key(links, g, k) /\ ~e
    <2>1. unlink(links, g, k, e) = [ok |-> TRUE, links |-> links]
      BY <1>3 DEF unlink, Returns
    <2> QED
      BY <2>1, <1>3
  <1> QED
    BY <1>1, <1>2, <1>3

(* An operation that leaves the link l when it returns.  When it throws    *)
(* the table is as it was, or has lost the link that was in the way, which *)
(* only happens when the library is not able to create what is wanted.     *)
Creates(r, links, g, k, l, able) ==
    /\ r.ok \in BOOLEAN
    /\ r.ok => r.links = SetLink(links, g, k, l)
    /\ ~r.ok => r.links = links \/ r.links = SetLink(links, g, k, NoLink)
    /\ ~r.ok /\ able => r.links = links

(* What create makes of a table in which the name was perhaps unlinked.    *)
LEMMA CreateResult ==
    ASSUME NEW links \in Tables, NEW g \in Nodes, NEW k \in Names, NEW n \in Nodes,
           NEW left, left = links \/ left = SetLink(links, g, k, NoLink),
           NEW able \in BOOLEAN
    PROVE  LET r == create(left, g, k, n, able)
           IN  /\ r.ok \in BOOLEAN
               /\ r.ok => r.links = SetLink(links, g, k, Hard(n))
               /\ ~r.ok => r.links = left
               /\ r.ok <=> able /\ ~has_key(left, g, k)
  <1>1. SetLink(left, g, k, Hard(n)) = SetLink(links, g, k, Hard(n))
    BY SetLinkTwice
  <1>2. CASE ~able \/ Lexists(left, g, k)
    <2>1. create(left, g, k, n, able) = [ok |-> FALSE, links |-> left]
      BY <1>2 DEF create, Throws
    <2> QED
      BY <2>1, <1>2 DEF has_key
  <1>3. CASE able /\ ~Lexists(left, g, k)
    <2>1. create(left, g, k, n, able) = [ok |-> TRUE, links |-> SetLink(links, g, k, Hard(n))]
      BY <1>1, <1>3 DEF create, Returns
    <2> QED
      BY <2>1, <1>3 DEF has_key
  <1> QED
    BY <1>2, <1>3

(* create_group makes the link or throws; when it may unlink what is in    *)
(* the way and the library is able, it makes it.                           *)
LEMMA CreateGroupResult ==
    ASSUME NEW links \in Tables, NEW g \in Nodes, NEW k \in Names, NEW n \in Nodes,
           NEW d \in BOOLEAN, NEW able \in BOOLEAN
    PROVE  /\ Creates(create_group(links, g, k, n, d, able), links, g, k, Hard(n), able)
           /\ d /\ able => create_group(links, g, k, n, d, able).ok
  <1>1. CASE d
    <2> DEFINE left == unlink(links, g, k, FALSE).links
    <2>1. /\ left = links \/ left = SetLink(links, g, k, NoLink)
          /\ ~has_key(left, g, k)
      BY UnlinkResult
    <2>2. create_group(links, g, k, n, d, able) = create(left, g, k, n, able)
      BY <1>1 DEF create_group
    <2> HIDE DEF left
    <2> DEFINE r == create(left, g, k, n, able)
    <2>3. /\ r.ok \in BOOLEAN
          /\ r.ok => r.links = SetLink(links, g, k, Hard(n))
          /\ ~r.ok => r.links = left
          /\ r.ok <=> able /\ ~has_key(left, g, k)
      BY <2>1, CreateResult
    <2> HIDE DEF r
    <2>4. (able => r.ok) /\ Creates(r, links, g, k, Hard(n), able)
      BY <2>1, <2>3 DEF Creates
    <2> QED
      BY <2>2, <2>4 DEF r
  <1>2. CASE ~d
    <2>1. create_group(links, g, k, n, d, able) = create(links, g, k, n, able)
      BY <1>2 DEF create_group
    <2> DEFINE r == create(links, g, k, n, able)
    <2>2. /\ r.ok \in BOOLEAN
          /\ r.ok => r.links = SetLink(links, g, k, Hard(n))
          /\ ~r.ok => r.links = links
      BY CreateResult
    <2> HIDE DEF r
    <2>3. Creates(r, links, g, k, Hard(n), able)
      BY <2>2 DEF Creates
    <2> QED
      BY <1>2, <2>1, <2>3 DEF r
  <1> QED
    BY <1>1, <1>2

(* create_dataset always finds its name free, and takes it if it can. *)
LEMMA CreateDatasetResult ==
    ASSUME NEW links \in Tables, NEW g \in Nodes, NEW k \in Names, NEW n \in Nodes,
           NEW able \in BOOLEAN
    PROVE  /\ Creates(create_dataset(links, g, k, n, able), links, g, k, Hard(n), able)
           /\ create_dataset(links, g, k, n, able).ok <=> able
  <1> DEFINE left == unlink(links, g, k, FALSE).links
  <1>1. /\ left = links \/ left = SetLink(links, g, k, NoLink)
        /\ ~has_key(left, g, k)
    BY UnlinkResult
  <1>2. create_dataset(links, g, k, n, able) = create(left, g, k, n, able)
    BY DEF create_dataset
  <1> HIDE DEF left
  <1> DEFINE r == create(left, g, k, n, able)
  <1>3. /\ r.ok \in BOOLEAN
        /\ r.ok => r.links = SetLink(links, g, k, Hard(n))
        /\ ~r.ok => r.links = left
        /\ r.ok <=> able /\ ~has_key(left, g, k)
    BY <1>1, CreateResult
  <1> HIDE DEF r
  <1>4. (r.ok <=> able) /\ Creates(r, links, g, k, Hard(n), able)
    BY <1>1, <1>3 DEF Creates
  <1> QED
    BY <1>2, <1>4 DEF r

(* create_softlink looks before it unlinks: when it throws and the library *)
(* was able, the table is as it was.                                       *)
LEMMA CreateSoftlinkResult ==
    ASSUME NEW links \in Tables, NEW g \in Nodes, NEW t \in Names, NEW k \in Names,
           NEW d \in BOOLEAN, NEW able \in BOOLEAN
    PROVE  Creates(create_softlink(links, g, t, k, d, able), links, g, k, Soft(t), able)
  <1> DEFINE left == unlink(links, g, k, FALSE).links
  <1>1. left = links \/ left = SetLink(links, g, k, NoLink)
    BY UnlinkResult
  <1>2. \/ create_softlink(links, g, t, k, d, able) = [ok |-> FALSE, links |-> links]
        \/ able /\ create_softlink(links, g, t, k, d, able) =
                      [ok |-> TRUE, links |-> SetLink(left, g, k, Soft(t))]
        \/ ~able /\ create_softlink(links, g, t, k, d, able) = [ok |-> FALSE, links |-> left]
    BY DEF create_softlink, Returns, Throws
  <1> HIDE DEF left
  <1>3. SetLink(left, g, k, Soft(t)) = SetLink(links, g, k, Soft(t))
    BY <1>1, SetLinkTwice
  <1> DEFINE r == create_softlink(links, g, t, k, d, able)
  <1> HIDE DEF r
  <1> DEFINE Good == Creates(r, links, g, k, Soft(t), able)
  <1>4. ASSUME r = [ok |-> FALSE, links |-> links] PROVE Good
    BY <1>4 DEF Creates
  <1>5. ASSUME r = [ok |-> TRUE, links |-> SetLink(left, g, k, Soft(t))] PROVE Good
    BY <1>3, <1>5 DEF Creates
  <1>6. ASSUME ~able /\ r = [ok |-> FALSE, links |-> left] PROVE Good
    BY <1>1, <1>6 DEF Creates
  <1>7. Creates(r, links, g, k, Soft(t), able)
    BY <1>2, <1>4, <1>5, <1>6 DEF r
  <1> QED
    BY <1>7 DEF r


-----------------------------------------------------------------------------
(* Following a name: the body of follow in Resolve. *)
Followed(links, g, f, d) ==
    [j \in Names |->
        IF links[g][j].type = "hard" THEN links[g][j].node
        ELSE IF links[g][j].type = "none" \/ d = 0 THEN NoNode
        ELSE f[d - 1][links[g][j].path]]

(* f is the function follow of Resolve, as far as m. *)
Follows(links, g, f, m) == f = [d \in 0..m |-> Followed(links, g, f, d)]

(* What a name leads to, or nothing. *)
Targets == Nodes \cup {NoNode}

(* What following a chain of d soft links gives. *)
LEMMA FollowsStep ==
    ASSUME NEW links, NEW g, NEW f, NEW m \in Nat, Follows(links, g, f, m),
           NEW d \in 0..m
    PROVE  f[d] = Followed(links, g, f, d)
  <1> DEFINE F(x) == Followed(links, g, f, x)
  <1>1. f = [x \in 0..m |-> F(x)]
    BY DEF Follows
  <1> HIDE DEF F
  <1>2. f[d] = F(d)
    BY <1>1
  <1> QED
    BY <1>2 DEF F

(* The recursion of Resolve defines a function.                            *)
LEMMA FollowExists ==
    ASSUME NEW links, NEW g, NEW m \in Nat
    PROVE  \E f : Follows(links, g, f, m)
  <1> DEFINE S == {n \in Nat : \E f : Follows(links, g, f, n)}
  <1>1. 0 \in S
    <2> DEFINE f == [d \in 0..0 |-> [j \in Names |->
                       IF links[g][j].type = "hard" THEN links[g][j].node ELSE NoNode]]
    <2>1. ASSUME NEW d \in 0..0 PROVE f[d] = Followed(links, g, f, d)
      <3>1. d = 0
        OBVIOUS
      <3> QED
        BY <3>1 DEF Followed
    <2>2. f = [d \in 0..0 |-> f[d]]
      OBVIOUS
    <2> HIDE DEF f
    <2>4. Follows(links, g, f, 0)
      BY <2>1, <2>2, Zenon DEF Follows
    <2> QED
      BY <2>4
  <1>2. ASSUME NEW n \in Nat, n < m, n \in S PROVE n + 1 \in S
    <2>1. PICK f : Follows(links, g, f, n)
      BY <1>2
    <2> DEFINE last == [j \in Names |->
                          IF links[g][j].type = "hard" THEN links[g][j].node
                          ELSE IF links[g][j].type = "none" THEN NoNode
                          ELSE f[n][links[g][j].path]]
               h == [d \in 0..(n + 1) |-> IF d <= n THEN f[d] ELSE last]
    <2>4. /\ \A d \in 0..n : h[d] = f[d]
          /\ h[n + 1] = last
      <3> HIDE DEF last
      <3>1. ~(n + 1 <= n) /\ n + 1 \in 0..(n + 1) /\ (\A d \in 0..n : d <= n /\ d \in 0..(n + 1))
        OBVIOUS
      <3> QED
        BY <3>1
    <2>h. h = [d \in 0..(n + 1) |-> h[d]]
      OBVIOUS
    <2> HIDE DEF h
    <2>5. ASSUME NEW d \in 0..(n + 1) PROVE h[d] = Followed(links, g, h, d)
      <3>1. CASE d \in 0..n
        <4>1. d = 0 \/ (d - 1 \in 0..n /\ h[d - 1] = f[d - 1])
          BY <2>4, <3>1
        <4>2. Followed(links, g, h, d) = Followed(links, g, f, d)
          BY <4>1 DEF Followed
        <4>3. f[d] = Followed(links, g, f, d)
          BY <2>1, <3>1, FollowsStep
        <4> QED
          BY <2>4, <3>1, <4>2, <4>3
      <3>2. CASE d = n + 1
        <4>1. d # 0 /\ h[d - 1] = f[n] /\ h[d] = last
          BY <2>4, <3>2
        <4> QED
          BY <4>1 DEF Followed
      <3> QED
        BY <3>1, <3>2
    <2>6. Follows(links, g, h, n + 1)
      BY <2>5, <2>h, Zenon DEF Follows
    <2> QED
      BY <2>6
  <1>3. 0..m \subseteq S
    <2> HIDE DEF S
    <2> QED BY <1>1, <1>2, UpTo
  <1> QED
    BY <1>3

(* The objects that the hard links of a group lead to, or nothing. *)
Linked(links, g) ==
    {links[g][j].node : j \in {j \in Names : links[g][j].type = "hard"}} \cup {NoNode}

(* A name leads to one of them, however long the chain of soft links is.   *)
LEMMA ResolveLinked ==
    ASSUME NEW links \in Tables, NEW g \in Nodes, NEW k \in Names
    PROVE  Resolve(links, g, k) \in Linked(links, g)
  <1> DEFINE m == Cardinality(Names)
             f == CHOOSE f : Follows(links, g, f, m)
  <1>1. m \in Nat
    BY LinkNamesAssumption, FS_CardinalityType
  <1>2. Resolve(links, g, k) =
          IF links[g][k].type = "hard" THEN links[g][k].node ELSE f[m][k]
    BY DEF Resolve, Follows, Followed
  <1> HIDE DEF m
  <1>3. Follows(links, g, f, m)
    BY <1>1, FollowExists
  <1> HIDE DEF f
  <1>4. ASSUME NEW j \in Names
        PROVE  /\ links[g][j].type = "hard" => links[g][j].node \in Linked(links, g)
               /\ links[g][j].type = "soft" => links[g][j].path \in Names
               /\ links[g][j].type \in {"none", "hard", "soft"}
    <2>1. links[g][j] \in Links
      BY DEF Tables
    <2> QED
      BY <2>1, LinkCases DEF Linked
  <1> DEFINE S == {d \in Nat : d <= m => \A j \in Names : f[d][j] \in Linked(links, g)}
  <1>5. 0 \in S
    <2>1. f[0] = Followed(links, g, f, 0)
      BY <1>1, <1>3, FollowsStep
    <2> QED
      BY <1>4, <2>1 DEF Followed, Linked
  <1>6. ASSUME NEW n \in Nat, n < m, n \in S PROVE n + 1 \in S
    <2> DEFINE d == n + 1
    <2>1. d \in 0..m /\ d # 0 /\ d - 1 = n
      BY <1>1, <1>6
    <2> HIDE DEF d
    <2>2. f[d] = Followed(links, g, f, d)
      BY <1>1, <1>3, <2>1, FollowsStep
    <2>3. \A j \in Names : f[n][j] \in Linked(links, g)
      BY <1>1, <1>6
    <2>4. \A j \in Names : f[d][j] \in Linked(links, g)
      BY <1>4, <2>1, <2>2, <2>3 DEF Followed, Linked
    <2> QED
      BY <2>4 DEF d
  <1>7. m \in S
    <2> HIDE DEF S
    <2>1. 0..m \subseteq S
      BY <1>1, <1>5, <1>6, UpTo
    <2> QED
      BY <1>1, <2>1
  <1>8. f[m][k] \in Linked(links, g)
    BY <1>1, <1>7
  <1> QED
    BY <1>2, <1>4, <1>8

(* A name leads to what some hard link of its group leads to, or nowhere.  *)
LEMMA ResolveLink ==
    ASSUME NEW links \in Tables, NEW g \in Nodes, NEW k \in Names,
           Resolve(links, g, k) # NoNode
    PROVE  \E j \in Names : links[g][j].type = "hard" /\ links[g][j].node = Resolve(links, g, k)
  BY ResolveLinked DEF Linked

(* So it leads to an object or nowhere. *)
LEMMA ResolveTyped ==
    ASSUME NEW links \in Tables, NEW g \in Nodes, NEW k \in Names
    PROVE  Resolve(links, g, k) \in Targets
  <1>1. HardInNodes(links)
    BY TablesHardInNodes
  <1> QED
    BY <1>1, ResolveLink DEF HardInNodes, Targets
=============================================================================
