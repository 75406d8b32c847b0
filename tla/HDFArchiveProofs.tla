-------------------------- MODULE HDFArchiveProofs --------------------------
(***************************************************************************)
(* Proofs about HDFArchive for every number of objects, names and views:   *)
(* types, the agreement of every cache with its group, and that storing a  *)
(* nested value touches nothing outside the group it makes.                *)
(*                                                                         *)
(* What an operation does to a table is stated pointwise: which link it    *)
(* sets, and that every other link stays (Sets).                           *)
(***************************************************************************)
EXTENDS HDFArchive, GroupOpsProofs, SequenceTheorems, TLAPS

(* An open view. *)
ViewType == [grp : Nodes, keys : Keys]

(* Table t2 is t with link l at key k of g. *)
Sets(t, t2, g, k, l) ==
    /\ t2 \in Tables
    /\ t2[g][k] = l
    /\ \A h \in Nodes, j \in Names : h # g \/ j # k => t2[h][j] = t[h][j]

(* A link to a dataset that was never filled, and the agreement of view w  *)
(* with its group, in a file given by its table, kinds and data.  What is  *)
(* linked is listed in any case; the converse, and that a key is listed    *)
(* once, take clients that never link a key they list.                     *)
TornIn(t, knd, dat, g, k) ==
    t[g][k] \in {Hard(n) : n \in {n \in Nodes : dat[n] = Fill /\ knd[n] = "data"}}

AgreeAt(t, knd, dat, w, k) ==
    /\ MaxListed = 1 => w.keys[k] <= 1
    /\ MaxListed = 1 /\ w.keys[k] > 0 => t[w.grp][k].type # "none"
    /\ t[w.grp][k].type # "none" /\ ~TornIn(t, knd, dat, w.grp, k) => w.keys[k] > 0

Agree(t, knd, dat, w) == \A k \in Names : AgreeAt(t, knd, dat, w, k)

-----------------------------------------------------------------------------
(* The operations of a group. *)

(* The three kinds of link are told apart. *)
LEMMA LinkTypes ==
    /\ NoLink \in Links
    /\ \A n \in Nodes : Hard(n) \in Links
    /\ \A k \in Names : Soft(k) \in Links
    /\ \A n : Hard(n).type = "hard" /\ Hard(n).node = n
    /\ \A k : Soft(k).type = "soft"
    /\ NoLink.type = "none"
    /\ EmptyGroup \in [Names -> Links]
  BY DEF Links, NoLink, Hard, Soft, EmptyGroup

(* Nodes are numbered from 0, and NoNode is none of them. *)
LEMMA NodeTypes == NoNode \notin Nodes /\ Root \in Nodes /\ Nodes \subseteq Nat /\ NoNode \in Nat
  BY MaxNodesAssumption DEF Nodes, NoNode, Root

(* Setting a link. *)
LEMMA SetLinkSets ==
    ASSUME NEW t \in Tables, NEW g \in Nodes, NEW k \in Names, NEW l \in Links
    PROVE  Sets(t, SetLink(t, g, k, l), g, k, l)
  BY DEF Tables, Sets, SetLink

(* unlink leaves no link at k. *)
LEMMA UnlinkSets ==
    ASSUME NEW t \in Tables, NEW g \in Nodes, NEW k \in Names
    PROVE  /\ unlink(t, g, k, FALSE).links \in Tables
           /\ unlink(t, g, k, FALSE).links[g][k].type = "none"
           /\ \A h \in Nodes, j \in Names : h # g \/ j # k => unlink(t, g, k, FALSE).links[h][j] = t[h][j]
<1>1. CASE has_key(t, g, k)
  <2>1. unlink(t, g, k, FALSE).links = SetLink(t, g, k, NoLink)
    BY <1>1 DEF unlink, Returns
  <2>2. Sets(t, SetLink(t, g, k, NoLink), g, k, NoLink)
    BY SetLinkSets, LinkTypes
  <2> QED
    BY <2>1, <2>2, LinkTypes DEF Sets
<1>2. CASE ~has_key(t, g, k)
  <2>1. unlink(t, g, k, FALSE).links = t
    BY <1>2 DEF unlink, Returns, Throws
  <2> QED
    BY <1>2, <2>1 DEF has_key, Lexists
<1> QED
  BY <1>1, <1>2

(* Creating an object under k, after unlinking what was there. *)
LEMMA CreateSets ==
    ASSUME NEW t \in Tables, NEW g \in Nodes, NEW k \in Names, NEW n \in Nodes
    PROVE  /\ Sets(t, create_dataset(t, g, k, n, TRUE).links, g, k, Hard(n))
           /\ Sets(t, create_group(t, g, k, n, TRUE, TRUE).links, g, k, Hard(n))
<1> DEFINE u == unlink(t, g, k, FALSE).links
<1>1. /\ u \in Tables /\ u[g][k].type = "none"
      /\ \A h \in Nodes, j \in Names : h # g \/ j # k => u[h][j] = t[h][j]
  BY UnlinkSets
<1>2. create(u, g, k, n, TRUE).links = SetLink(u, g, k, Hard(n))
  BY <1>1 DEF create, Lexists, Returns
<1>3. /\ create_dataset(t, g, k, n, TRUE).links = SetLink(u, g, k, Hard(n))
      /\ create_group(t, g, k, n, TRUE, TRUE).links = SetLink(u, g, k, Hard(n))
  BY <1>2 DEF create_dataset, create_group
<1>4. Sets(u, SetLink(u, g, k, Hard(n)), g, k, Hard(n))
  BY <1>1, SetLinkSets, LinkTypes
<1> HIDE DEF u
<1>5. Sets(t, SetLink(u, g, k, Hard(n)), g, k, Hard(n))
  BY <1>1, <1>4 DEF Sets
<1> QED
  BY <1>3, <1>5

(* A soft link that was created. *)
LEMMA SoftlinkSets ==
    ASSUME NEW t \in Tables, NEW g \in Nodes, NEW j \in Names, NEW k \in Names,
           create_softlink(t, g, j, k, TRUE, TRUE).ok
    PROVE  Sets(t, create_softlink(t, g, j, k, TRUE, TRUE).links, g, k, Soft(j))
<1> DEFINE u == unlink(t, g, k, FALSE).links
<1>1. /\ u \in Tables
      /\ \A h \in Nodes, i \in Names : h # g \/ i # k => u[h][i] = t[h][i]
  BY UnlinkSets
<1>2. has_key(t, g, j)
  BY DEF create_softlink, Throws
<1>3. create_softlink(t, g, j, k, TRUE, TRUE).links = SetLink(u, g, k, Soft(j))
  BY <1>2 DEF create_softlink, Returns
<1>4. Sets(u, SetLink(u, g, k, Soft(j)), g, k, Soft(j))
  BY <1>1, SetLinkSets, LinkTypes
<1> HIDE DEF u
<1>5. Sets(t, SetLink(u, g, k, Soft(j)), g, k, Soft(j))
  BY <1>1, <1>4 DEF Sets
<1> QED
  BY <1>3, <1>5

(* A hard link leads to its object. *)
LEMMA ResolveHard ==
    ASSUME NEW t, NEW g, NEW k, NEW n, t[g][k] = Hard(n)
    PROVE  Resolve(t, g, k) = n
  BY LinkTypes DEF Resolve

-----------------------------------------------------------------------------
(* The steps of __setitem__ on a view w.                                   *)

(* Table and view change at key k of the group of w, and nowhere else.     *)
Effect(t, w, t2, w2, k) ==
    /\ t2 \in Tables /\ w2 \in ViewType /\ w2.grp = w.grp
    /\ \A h \in Nodes, j \in Names : h # w.grp \/ j # k => t2[h][j] = t[h][j]
    /\ \A j \in Names : j # k => w2.keys[j] = w.keys[j]

(* Datasets stay, and keep what they hold. *)
Grows(knd, dat, knd2, dat2) ==
    \A n \in Nodes : knd[n] = "data" => knd2[n] = "data" /\ dat2[n] = dat[n]

(* Keys are counted. *)
LEMMA KeyCounts ==
    ASSUME NEW w \in ViewType, NEW k \in Names
    PROVE  w.keys[k] \in Nat
  BY DEF ViewType, Keys

(* A view stays one when a key gets another count. *)
LEMMA KeyTypes ==
    ASSUME NEW w \in ViewType, NEW k \in Names, NEW c \in Nat
    PROVE  /\ [w EXCEPT !.keys[k] = c] \in ViewType
           /\ [w EXCEPT !.keys[k] = c].grp = w.grp
           /\ [w EXCEPT !.keys[k] = c].keys[k] = c
           /\ \A j \in Names : j # k => [w EXCEPT !.keys[k] = c].keys[j] = w.keys[j]
  BY DEF ViewType, Keys

(* _clean_key forgets one occurrence of a key that is listed, and its link.*)
LEMMA CleanEffect ==
    ASSUME NEW t \in Tables, NEW w \in ViewType, NEW k \in Names
    PROVE  LET c == Clean(t, w, k) IN
           /\ Effect(t, w, c.links, c.view, k)
           /\ w.keys[k] > 0 => c.links[w.grp][k].type = "none" /\ c.view.keys[k] = w.keys[k] - 1
           /\ ~ w.keys[k] > 0 => c.links = t /\ c.view = w
<1> DEFINE c == Clean(t, w, k)
<1>0. w.grp \in Nodes /\ w.keys[k] \in Nat
  BY KeyCounts DEF ViewType
<1>1. CASE w.keys[k] > 0
  <2> DEFINE less == [w EXCEPT !.keys[k] = w.keys[k] - 1]
  <2>1. c.links = unlink(t, w.grp, k, FALSE).links /\ c.view = less
    BY <1>1 DEF Clean, Contains
  <2>2. /\ less \in ViewType /\ less.grp = w.grp /\ less.keys[k] = w.keys[k] - 1
        /\ \A j \in Names : j # k => less.keys[j] = w.keys[j]
    <3>1. w.keys[k] - 1 \in Nat
      BY <1>0, <1>1
    <3> QED
      BY <3>1, KeyTypes
  <2>3. /\ unlink(t, w.grp, k, FALSE).links \in Tables
        /\ unlink(t, w.grp, k, FALSE).links[w.grp][k].type = "none"
        /\ \A h \in Nodes, j \in Names :
              h # w.grp \/ j # k => unlink(t, w.grp, k, FALSE).links[h][j] = t[h][j]
    BY <1>0, UnlinkSets
  <2> HIDE DEF c, less
  <2>4. Effect(t, w, c.links, c.view, k)
    BY <2>1, <2>2, <2>3 DEF Effect
  <2> QED
    BY <1>1, <2>1, <2>2, <2>3, <2>4 DEF c
<1>2. CASE ~ w.keys[k] > 0
  BY <1>2 DEF Clean, Contains, Effect
<1> QED
  BY <1>1, <1>2

(* A dataset under k: linked, and listed or not. *)
LEMMA LeafEffect ==
    ASSUME NEW t \in Tables, NEW w \in ViewType, NEW k \in Names, NEW n \in Nodes
    PROVE  LET c == Clean(t, w, k)
               t2 == LinkData(c.links, c.view, k, n) IN
           /\ t2[w.grp][k] = Hard(n)
           /\ Effect(t, w, t2, Listed(c.view, k), k)
           /\ Listed(c.view, k).keys[k] > 0
           /\ w.keys[k] <= 1 => Listed(c.view, k).keys[k] <= 1
           /\ Effect(t, w, t2, c.view, k)
           /\ w.keys[k] <= 1 => c.view.keys[k] = 0
<1> DEFINE c == Clean(t, w, k)
           t2 == LinkData(c.links, c.view, k, n)
           w2 == Listed(c.view, k)
<1>1. /\ Effect(t, w, c.links, c.view, k)
      /\ w.keys[k] > 0 => c.view.keys[k] = w.keys[k] - 1
      /\ ~ w.keys[k] > 0 => c.view = w
  BY CleanEffect
<1>2. w.keys[k] \in Nat /\ c.view \in ViewType /\ c.view.keys[k] \in Nat /\ c.view.grp = w.grp
  <2>1. w.keys[k] \in Nat
    BY KeyCounts
  <2>2. c.view \in ViewType /\ c.view.grp = w.grp
    BY <1>1 DEF Effect
  <2> QED
    BY <2>1, <2>2, KeyCounts
<1>3. c.links \in Tables /\ w.grp \in Nodes
  BY <1>1 DEF Effect, ViewType
<1> HIDE DEF c
<1>4. Sets(c.links, t2, w.grp, k, Hard(n))
  BY <1>2, <1>3, CreateSets DEF LinkData
<1> HIDE DEF t2
<1>5. Effect(t, w, t2, c.view, k)
  BY <1>1, <1>4 DEF Effect, Sets
<1>6. /\ w2 \in ViewType /\ w2.grp = w.grp /\ w2.keys[k] > 0
      /\ \A j \in Names : j # k => w2.keys[j] = c.view.keys[j]
      /\ c.view.keys[k] <= 1 => w2.keys[k] <= 1
  <2>1. CASE Contains(c.view, k)
    BY <1>2, <2>1 DEF Listed, Contains
  <2>2. CASE ~Contains(c.view, k)
    <3>0. PICK one \in Nat : one = 1
      OBVIOUS
    <3> DEFINE once == [c.view EXCEPT !.keys[k] = one]
    <3>1. w2 = once
      BY <2>2, <3>0 DEF Listed
    <3>2. /\ once \in ViewType /\ once.grp = c.view.grp /\ once.keys[k] = one
          /\ \A j \in Names : j # k => once.keys[j] = c.view.keys[j]
      BY <1>2, KeyTypes
    <3> HIDE DEF once, w2
    <3> QED
      BY <1>2, <3>0, <3>1, <3>2
  <2> QED
    BY <2>1, <2>2
<1> HIDE DEF w2
<1>7. Effect(t, w, t2, w2, k)
  BY <1>5, <1>6 DEF Effect
<1>8. w.keys[k] <= 1 => c.view.keys[k] = 0
  BY <1>1, <1>2
<1> QED
  BY <1>4, <1>5, <1>6, <1>7, <1>8 DEF Sets, c, t2, w2

(* A group under k, made by create_group: linked and listed once more. *)
LEMMA MakeEffect ==
    ASSUME NEW t \in Tables, NEW w \in ViewType, NEW k \in Names, NEW n \in Nodes
    PROVE  LET m == MakeGroup(t, w, k, n) IN
           /\ m.links[w.grp][k] = Hard(n)
           /\ Effect(t, w, m.links, m.view, k)
           /\ m.view.keys[k] = w.keys[k] + 1
<1> DEFINE w2 == [w EXCEPT !.keys[k] = w.keys[k] + 1]
           t2 == create_group(t, w.grp, k, n, TRUE, TRUE).links
<1>1. MakeGroup(t, w, k, n).links = t2 /\ MakeGroup(t, w, k, n).view = w2
  BY DEF MakeGroup
<1>2. Sets(t, t2, w.grp, k, Hard(n))
  BY CreateSets DEF ViewType
<1>3. /\ w2 \in ViewType /\ w2.grp = w.grp /\ w2.keys[k] = w.keys[k] + 1
      /\ \A j \in Names : j # k => w2.keys[j] = w.keys[j]
  <2>1. w.keys[k] + 1 \in Nat
    BY KeyCounts
  <2> QED
    BY <2>1, KeyTypes
<1> HIDE DEF t2, w2
<1>4. Effect(t, w, t2, w2, k)
  BY <1>2, <1>3 DEF Effect, Sets
<1> QED
  BY <1>1, <1>2, <1>3, <1>4 DEF Sets

(* A group under k, made by __setitem__: _clean_key first. *)
LEMMA GroupEffect ==
    ASSUME NEW t \in Tables, NEW w \in ViewType, NEW k \in Names, NEW n \in Nodes
    PROVE  LET c == Clean(t, w, k)
               m == MakeGroup(c.links, c.view, k, n) IN
           /\ m.links[w.grp][k] = Hard(n)
           /\ Effect(t, w, m.links, m.view, k)
           /\ m.view.keys[k] > 0
           /\ w.keys[k] <= 1 => m.view.keys[k] <= 1
<1> DEFINE c == Clean(t, w, k)
           m == MakeGroup(c.links, c.view, k, n)
<1>1. /\ Effect(t, w, c.links, c.view, k)
      /\ w.keys[k] > 0 => c.view.keys[k] = w.keys[k] - 1
      /\ ~ w.keys[k] > 0 => c.view = w
  BY CleanEffect
<1>2. /\ c.links \in Tables /\ c.view \in ViewType /\ c.view.grp = w.grp
  BY <1>1 DEF Effect
<1>3. w.keys[k] \in Nat /\ c.view.keys[k] \in Nat
  BY <1>2, KeyCounts
<1> HIDE DEF c
<1>4. /\ m.links[w.grp][k] = Hard(n)
      /\ Effect(c.links, c.view, m.links, m.view, k)
      /\ m.view.keys[k] = c.view.keys[k] + 1
  BY <1>2, MakeEffect
<1> HIDE DEF m
<1>5. Effect(t, w, m.links, m.view, k)
  BY <1>1, <1>2, <1>4 DEF Effect
<1>6. m.view.keys[k] > 0 /\ (w.keys[k] <= 1 => m.view.keys[k] <= 1)
  BY <1>1, <1>3, <1>4
<1> QED
  BY <1>4, <1>5, <1>6 DEF c, m

-----------------------------------------------------------------------------
(* Agreement of a view with its group.                                     *)

(* A view agrees after an effect on it if it agrees where the effect is. *)
LEMMA AgreeSelf ==
    ASSUME NEW t, NEW w \in ViewType, NEW t2, NEW w2, NEW k \in Names,
           NEW knd, NEW dat, NEW knd2, NEW dat2,
           Effect(t, w, t2, w2, k), Grows(knd, dat, knd2, dat2),
           Agree(t, knd, dat, w), AgreeAt(t2, knd2, dat2, w2, k)
    PROVE  Agree(t2, knd2, dat2, w2)
<1>1. SUFFICES ASSUME NEW j \in Names, j # k PROVE AgreeAt(t2, knd2, dat2, w2, j)
  BY DEF Agree
<1>2. w.grp \in Nodes /\ w2.grp = w.grp /\ w2.keys[j] = w.keys[j] /\ t2[w.grp][j] = t[w.grp][j]
  BY <1>1 DEF Effect, ViewType
<1>3. AgreeAt(t, knd, dat, w, j)
  BY DEF Agree
<1>4. TornIn(t, knd, dat, w.grp, j) => TornIn(t2, knd2, dat2, w.grp, j)
  BY <1>2 DEF TornIn, Grows
<1> QED
  BY <1>2, <1>3, <1>4 DEF AgreeAt

(* A view of another group still agrees after it. *)
LEMMA AgreeOther ==
    ASSUME NEW t, NEW w \in ViewType, NEW t2, NEW w2, NEW k \in Names,
           NEW knd, NEW dat, NEW knd2, NEW dat2,
           Effect(t, w, t2, w2, k), Grows(knd, dat, knd2, dat2),
           NEW u \in ViewType, u.grp # w.grp, Agree(t, knd, dat, u)
    PROVE  Agree(t2, knd2, dat2, u)
<1>1. SUFFICES ASSUME NEW j \in Names PROVE AgreeAt(t2, knd2, dat2, u, j)
  BY DEF Agree
<1>2. u.grp \in Nodes /\ t2[u.grp][j] = t[u.grp][j]
  BY DEF Effect, ViewType
<1>3. AgreeAt(t, knd, dat, u, j)
  BY DEF Agree
<1>4. TornIn(t, knd, dat, u.grp, j) => TornIn(t2, knd2, dat2, u.grp, j)
  BY <1>2 DEF TornIn, Grows
<1> QED
  BY <1>2, <1>3, <1>4 DEF AgreeAt

(* A new view agrees. *)
LEMMA OpenAgrees ==
    ASSUME NEW t, NEW g \in Nodes, NEW knd, NEW dat
    PROVE  /\ OpenAt(t, g) \in ViewType /\ OpenAt(t, g).grp = g
           /\ Agree(t, knd, dat, OpenAt(t, g))
<1>1. \A k \in Names : OpenAt(t, g).keys[k] = IF t[g][k].type # "none" THEN 1 ELSE 0
  BY DEF OpenAt, keys, Lexists
<1>2. OpenAt(t, g) \in ViewType /\ OpenAt(t, g).grp = g
  BY DEF OpenAt, ViewType, Keys
<1>3. ASSUME NEW k \in Names PROVE AgreeAt(t, knd, dat, OpenAt(t, g), k)
  BY <1>1, <1>2 DEF AgreeAt
<1> QED
  BY <1>2, <1>3 DEF Agree

-----------------------------------------------------------------------------
(* The inductive invariant.                                                *)

(* A finite sequence, of whatever frames. *)
IsStack(s) == \E S : s \in Seq(S)

(* A view of the recursion belongs to it alone: its group was made by the  *)
(* call under way, no client has a view of it, and it agrees with it.      *)
Owned(t, knd, dat, vw, first, w) ==
    /\ w \in ViewType
    /\ knd[w.grp] = "group"
    /\ w.grp >= first
    /\ \A v \in Views : vw[v].grp # w.grp
    /\ Agree(t, knd, dat, w)

Blank == \A n \in Nodes : kind[n] = "none" => data[n] = Fill

(* Everything below the first object of a call was there before it. *)
Calling ==
    stack # <<>> =>
        /\ call.type = "set" /\ call.first \in Nodes
        /\ \A m \in Nodes : m < call.first => kind[m] # "none"

Frames ==
    /\ IsStack(stack)
    /\ \A i \in 1..Len(stack) : Owned(links, kind, data, view, call.first, stack[i].sub)
    /\ \A i, j \in 1..Len(stack) : i # j => stack[i].sub.grp # stack[j].sub.grp

Agreement ==
    \A v \in Views : IsOpen(v) /\ v \notin foreign => Agree(links, kind, data, view[v])

RootStays == kind[Root] = "group"

IInv == TypeOK /\ RootStays /\ Blank /\ Calling /\ Frames /\ Agreement

-----------------------------------------------------------------------------
(* The stack.                                                              *)

(* The empty stack. *)
LEMMA EmptyStack ==
    /\ IsStack(<<>>)
    /\ Len(<<>>) = 0
<1>1. <<>> \in Seq({})
  OBVIOUS
<1> QED
  BY <1>1 DEF IsStack

(* The stack without its top ... *)
LEMMA Popped ==
    ASSUME NEW s, IsStack(s), s # <<>>
    PROVE  /\ IsStack(Tail(s))
           /\ Len(s) \in Nat /\ Len(s) >= 1 /\ Head(s) = s[1]
           /\ Len(Tail(s)) = Len(s) - 1
           /\ \A i \in 1..(Len(s) - 1) : Tail(s)[i] = s[i + 1]
<1>1. PICK S : s \in Seq(S)
  BY DEF IsStack
<1>2. Tail(s) \in Seq(S) /\ Len(Tail(s)) = Len(s) - 1 /\ Len(s) \in Nat /\ Len(s) >= 1 /\ Head(s) = s[1]
  BY <1>1
<1>3. \A i \in 1..(Len(s) - 1) : Tail(s)[i] = s[i + 1]
  BY <1>1
<1> QED
  BY <1>2, <1>3 DEF IsStack

(* The innermost frame is replaced by f, or by e on top of f. *)
ReplaceTop(s, f) == <<f>> \o Tail(s)
PushTop(s, e, f) == <<e, f>> \o Tail(s)

(* ... with another top ... *)
LEMMA Replaced ==
    ASSUME NEW s, IsStack(s), s # <<>>, NEW f, NEW r, r = ReplaceTop(s, f)
    PROVE  /\ IsStack(r)
           /\ r # <<>> /\ Len(s) \in Nat /\ Len(r) = Len(s) /\ r[1] = f
           /\ \A i \in 2..Len(s) : r[i] = s[i]
<1>1. PICK S : s \in Seq(S)
  BY DEF IsStack
<1> DEFINE T == S \cup {f}
<1>2. s \in Seq(T) /\ <<f>> \in Seq(T) /\ Len(<<f>>) = 1 /\ <<f>>[1] = f /\ Len(s) \in Nat /\ Len(s) >= 1
  BY <1>1
<1> HIDE DEF T
<1>3. Tail(s) \in Seq(T) /\ Len(Tail(s)) = Len(s) - 1
  BY <1>2
<1>4. r \in Seq(T) /\ Len(r) = Len(s)
  BY <1>2, <1>3, ConcatProperties DEF ReplaceTop
<1>5. r[1] = f
  BY <1>2, <1>3, ConcatProperties DEF ReplaceTop
<1>6. ASSUME NEW i \in 2..Len(s) PROVE r[i] = s[i]
  <2>1. i \in 1..(1 + Len(Tail(s))) /\ ~(i <= 1) /\ i - 1 \in 1..Len(Tail(s))
    BY <1>2, <1>3
  <2>2. r[i] = Tail(s)[i - 1]
    BY <1>2, <1>3, <2>1, ConcatProperties DEF ReplaceTop
  <2>3. Tail(s)[i - 1] = s[i]
    BY <1>2, <2>1
  <2> QED
    BY <2>2, <2>3
<1> QED
  BY <1>2, <1>4, <1>5, <1>6 DEF IsStack

(* ... and with one frame more. *)
LEMMA Pushed ==
    ASSUME NEW s, IsStack(s), s # <<>>, NEW e, NEW f, NEW r, r = PushTop(s, e, f)
    PROVE  /\ IsStack(r)
           /\ r # <<>> /\ Len(s) \in Nat /\ Len(r) = Len(s) + 1 /\ r[1] = e /\ r[2] = f
           /\ \A i \in 3..(Len(s) + 1) : r[i] = s[i - 1]
<1>1. PICK S : s \in Seq(S)
  BY DEF IsStack
<1> DEFINE T == S \cup {e, f}
<1>2. /\ s \in Seq(T) /\ <<e, f>> \in Seq(T) /\ Len(<<e, f>>) = 2
      /\ <<e, f>>[1] = e /\ <<e, f>>[2] = f /\ Len(s) \in Nat /\ Len(s) >= 1
  BY <1>1
<1> HIDE DEF T
<1>3. Tail(s) \in Seq(T) /\ Len(Tail(s)) = Len(s) - 1
  BY <1>2
<1>4. r \in Seq(T) /\ Len(r) = Len(s) + 1
  BY <1>2, <1>3, ConcatProperties DEF PushTop
<1>5. r[1] = e /\ r[2] = f
  BY <1>2, <1>3, ConcatProperties DEF PushTop
<1>6. ASSUME NEW i \in 3..(Len(s) + 1) PROVE r[i] = s[i - 1]
  <2>1. i \in 1..(2 + Len(Tail(s))) /\ ~(i <= 2) /\ i - 2 \in 1..Len(Tail(s))
    BY <1>2, <1>3
  <2>2. r[i] = Tail(s)[i - 2]
    BY <1>2, <1>3, <2>1, ConcatProperties DEF PushTop
  <2>3. Tail(s)[i - 2] = s[i - 1]
    BY <1>2, <2>1
  <2> QED
    BY <2>2, <2>3
<1> QED
  BY <1>2, <1>4, <1>5, <1>6 DEF IsStack

-----------------------------------------------------------------------------
(* What the client's calls and the recursion have in common.               *)

(* The next address is the lowest that is unused. *)
LEMMA Lowest ==
    ASSUME NEW n, IsNext(n), NEW i \in Nodes, i < n
    PROVE  kind[i] # "none"
<1>1. n \in Nat /\ i \in Nat
  BY NodeTypes DEF IsNext, Unused
<1>2. i \in Unused => n <= i
  BY DEF IsNext
<1>3. i \notin Unused
  BY <1>1, <1>2
<1> QED
  BY <1>3 DEF Unused

(* A new object at an unused address changes no other. *)
LEMMA NewObjectGrows ==
    ASSUME TypeOK, Blank, NEW n \in Unused,
           NewObject(n, "group") \/ NewObject(n, "data"),
           data' = data \/ \E x \in Leaves \cup {Fill} : data' = [data EXCEPT ![n] = x]
    PROVE  /\ n \in Nodes /\ kind[n] = "none" /\ kind'[n] # "none"
           /\ kind' \in [Nodes -> {"none", "group", "data"}]
           /\ data' \in [Nodes -> Leaves \cup {Fill}]
           /\ \A m \in Nodes : m # n => kind'[m] = kind[m] /\ data'[m] = data[m]
           /\ \A m \in Nodes : kind[m] = "group" => kind'[m] = "group"
           /\ Grows(kind, data, kind', data')
           /\ Blank'
<1>1. n \in Nodes /\ kind[n] = "none"
  BY DEF Unused
<1>2. /\ kind' \in [Nodes -> {"none", "group", "data"}] /\ kind'[n] # "none"
      /\ \A m \in Nodes : m # n => kind'[m] = kind[m]
  BY <1>1 DEF TypeOK, NewObject
<1>3. /\ data' \in [Nodes -> Leaves \cup {Fill}]
      /\ \A m \in Nodes : m # n => data'[m] = data[m]
  BY <1>1 DEF TypeOK
<1> QED
  BY <1>1, <1>2, <1>3 DEF Grows, Blank

(* A change through the client's view v keeps types and agreement. *)
LEMMA ClientStep ==
    ASSUME IInv, NEW v \in Views, IsOpen(v), NEW k \in Names, NEW w2,
           Effect(links, view[v], links', w2, k),
           view' = [view EXCEPT ![v] = w2],
           Estrange(v),
           Grows(kind, data, kind', data'),
           \A m \in Nodes : kind[m] = "group" => kind'[m] = "group",
           AgreeAt(links, kind, data, view[v], k) => AgreeAt(links', kind', data', w2, k)
    PROVE  /\ links' \in Tables
           /\ view' \in [Views -> [grp : Nodes \cup {NoNode}, keys : Keys]]
           /\ \A u \in Views : view'[u].grp = view[u].grp
           /\ \A u \in Views : IsOpen(u)' => kind'[view'[u].grp] = "group"
           /\ Agreement'
<1>1. links \in Tables /\ view \in [Views -> [grp : Nodes \cup {NoNode}, keys : Keys]]
  BY DEF IInv, TypeOK, Tables
<1>2. \A u \in Views : IsOpen(u) => view[u] \in ViewType /\ kind[view[u].grp] = "group"
  BY <1>1 DEF IInv, TypeOK, IsOpen, ViewType
<1>3. links' \in Tables /\ w2 \in ViewType /\ w2.grp = view[v].grp
  BY DEF Effect
<1>4. view' \in [Views -> [grp : Nodes \cup {NoNode}, keys : Keys]]
  BY <1>1, <1>3 DEF ViewType
<1>5. view'[v] = w2 /\ \A u \in Views : u # v => view'[u] = view[u]
  BY <1>1
<1>6. \A u \in Views : view'[u].grp = view[u].grp
  BY <1>3, <1>5
<1>7. \A u \in Views : IsOpen(u)' => IsOpen(u)
  BY <1>6 DEF IsOpen
<1>8. ASSUME NEW u \in Views, IsOpen(u)' PROVE kind'[view'[u].grp] = "group"
  BY <1>2, <1>6, <1>7, <1>8 DEF ViewType
<1>9. ASSUME NEW u \in Views, IsOpen(u)', u \notin foreign'
      PROVE  Agree(links', kind', data', view'[u])
  <2>1. /\ IsOpen(u) /\ u \notin foreign /\ view[u] \in ViewType /\ view[v] \in ViewType
        /\ Agree(links, kind, data, view[u])
    BY <1>2, <1>7, <1>9 DEF Estrange, IInv, Agreement
  <2>2. CASE u = v
    <3>1. AgreeAt(links', kind', data', w2, k)
      BY <1>9, <2>1, <2>2 DEF Agree
    <3>2. Agree(links', kind', data', w2)
      BY <2>1, <2>2, <3>1, AgreeSelf
    <3> QED
      BY <1>5, <2>2, <3>2
  <2>3. CASE u # v
    <3>1. view[u].grp # view[v].grp
      BY <1>9, <2>3 DEF Estrange
    <3>2. Agree(links', kind', data', view[u])
      BY <2>1, <3>1, AgreeOther
    <3> QED
      BY <1>5, <2>3, <3>2
  <2> QED
    BY <2>2, <2>3
<1> QED
  BY <1>3, <1>4, <1>6, <1>8, <1>9 DEF Agreement

(* A change through the innermost view of the recursion keeps types, the   *)
(* agreement of the clients' views and the views of the outer frames.      *)
LEMMA FrameStep ==
    ASSUME IInv, stack # <<>>, NEW k \in Names, NEW w2,
           Effect(links, Top.sub, links', w2, k),
           view' = view, foreign' = foreign,
           Grows(kind, data, kind', data'),
           \A m \in Nodes : kind[m] = "group" => kind'[m] = "group",
           AgreeAt(links, kind, data, Top.sub, k) => AgreeAt(links', kind', data', w2, k)
    PROVE  /\ links' \in Tables
           /\ \A u \in Views : IsOpen(u)' => kind'[view'[u].grp] = "group"
           /\ Agreement'
           /\ Owned(links', kind', data', view', call.first, w2)
           /\ \A i \in 2..Len(stack) : Owned(links', kind', data', view', call.first, stack[i].sub)
<1>1. Len(stack) \in Nat /\ Len(stack) >= 1 /\ Top = stack[1]
  BY Popped DEF IInv, Frames, Top
<1>2. Owned(links, kind, data, view, call.first, Top.sub)
  BY <1>1 DEF IInv, Frames
<1>3. links' \in Tables /\ w2 \in ViewType /\ w2.grp = Top.sub.grp
  BY DEF Effect
<1>4. \A u \in Views : IsOpen(u) => view[u] \in ViewType /\ kind[view[u].grp] = "group"
  BY DEF IInv, TypeOK, IsOpen, ViewType
<1>5. \A u \in Views : IsOpen(u)' => kind'[view'[u].grp] = "group"
  BY <1>4 DEF IsOpen, ViewType
<1>6. ASSUME NEW u \in Views, IsOpen(u)', u \notin foreign'
      PROVE  Agree(links', kind', data', view'[u])
  <2>1. Agree(links, kind, data, view[u]) /\ view[u] \in ViewType
    BY <1>4, <1>6 DEF IInv, Agreement, IsOpen
  <2>2. Top.sub \in ViewType /\ view[u].grp # Top.sub.grp
    BY <1>2 DEF Owned
  <2>3. Agree(links', kind', data', view[u])
    BY <2>1, <2>2, AgreeOther
  <2> QED
    BY <2>3
<1>7. Owned(links', kind', data', view', call.first, w2)
  <2>1. Top.sub \in ViewType /\ Agree(links, kind, data, Top.sub)
    BY <1>2 DEF Owned
  <2>2. AgreeAt(links', kind', data', w2, k)
    BY <2>1 DEF Agree
  <2>3. Agree(links', kind', data', w2)
    BY <2>1, <2>2, AgreeSelf
  <2> QED
    BY <1>2, <1>3, <2>3 DEF Owned, ViewType
<1>8. ASSUME NEW i \in 2..Len(stack)
      PROVE  Owned(links', kind', data', view', call.first, stack[i].sub)
  <2>1. i \in 1..Len(stack) /\ 1 \in 1..Len(stack) /\ i # 1
    BY <1>1
  <2>2. Owned(links, kind, data, view, call.first, stack[i].sub)
    BY <2>1 DEF IInv, Frames
  <2>3. stack[i].sub.grp # Top.sub.grp
    BY <1>1, <2>1 DEF IInv, Frames
  <2>4. /\ stack[i].sub \in ViewType /\ Top.sub \in ViewType
        /\ Agree(links, kind, data, stack[i].sub)
    BY <1>2, <2>2 DEF Owned
  <2>5. Agree(links', kind', data', stack[i].sub)
    BY <2>3, <2>4, AgreeOther
  <2> QED
    BY <2>2, <2>5 DEF Owned, ViewType
<1> QED
  BY <1>3, <1>5, <1>6, <1>7, <1>8 DEF Agreement

-----------------------------------------------------------------------------
(* Every action keeps the invariant.                                       *)

(* The archive begins in the invariant. *)
LEMMA InitIInv == Init => IInv
<1> SUFFICES ASSUME Init PROVE IInv
  OBVIOUS
<1>1. TypeOK
  <2>1. /\ links \in [Nodes -> [Names -> Links]] /\ kind \in [Nodes -> {"none", "group", "data"}]
        /\ data \in [Nodes -> Leaves \cup {Fill}] /\ tag \in [Nodes -> Registered \cup {Untagged}]
    BY LinkTypes DEF Init
  <2>2. view \in [Views -> [grp : Nodes \cup {NoNode}, keys : Keys]] /\ \A v \in Views : ~IsOpen(v)
    BY DEF Init, Closed, NoKeys, Keys, IsOpen
  <2> QED
    BY <2>1, <2>2 DEF Init, TypeOK
<1>2. RootStays /\ Blank /\ Calling
  BY NodeTypes DEF Init, RootStays, Blank, Calling
<1>3. Frames
  BY EmptyStack DEF Init, Frames
<1>4. Agreement
  BY DEF Init, Agreement, Closed, IsOpen
<1> QED
  BY <1>1, <1>2, <1>3, <1>4 DEF IInv

(* Without a recursion there is nothing to say of it. *)
LEMMA NoFrames == ASSUME stack' = <<>> PROVE Calling' /\ Frames'
<1>1. Calling'
  BY DEF Calling
<1>2. Frames'
  BY EmptyStack DEF Frames
<1> QED
  BY <1>1, <1>2

(* Between calls nothing is being filled. *)
LEMMA IdleStack == ASSUME IInv, call = Idle PROVE stack = <<>>
  BY DEF IInv, TypeOK

(* A view is made of a group that is there. *)
LEMMA OpenStep ==
    ASSUME IInv, call = Idle, NEW v \in Views, NEW g \in Nodes, kind[g] = "group",
           view' = [view EXCEPT ![v] = OpenAt(links, g)],
           UNCHANGED <<file, call, stack, protect, history>>
    PROVE  IInv'
<1>0. UNCHANGED <<links, kind, data, tag, call, stack, foreign>> /\ stack' = <<>>
  BY IdleStack DEF file, history
<1>1. /\ OpenAt(links, g) \in ViewType /\ OpenAt(links, g).grp = g
      /\ Agree(links, kind, data, OpenAt(links, g))
  BY OpenAgrees
<1>2. view' \in [Views -> [grp : Nodes \cup {NoNode}, keys : Keys]]
  BY <1>1 DEF IInv, TypeOK, ViewType
<1>3. view'[v] = OpenAt(links, g) /\ \A u \in Views : u # v => view'[u] = view[u]
  BY DEF IInv, TypeOK
<1>4. \A u \in Views : IsOpen(u)' => kind[view'[u].grp] = "group"
  BY <1>1, <1>3 DEF IInv, TypeOK, IsOpen
<1>5. TypeOK'
  BY <1>0, <1>2, <1>4 DEF IInv, TypeOK
<1>6. Agreement'
  BY <1>0, <1>1, <1>3 DEF IInv, Agreement, IsOpen
<1>7. RootStays' /\ Blank'
  BY <1>0 DEF IInv, RootStays, Blank
<1> QED
  BY <1>0, <1>5, <1>6, <1>7, NoFrames DEF IInv

(* HDFArchive(file) *)
LEMMA OpenArchiveInd ==
    ASSUME IInv, NEW v \in Views, OpenArchive(v) PROVE IInv'
<1>1. Root \in Nodes /\ kind[Root] = "group"
  BY NodeTypes DEF IInv, RootStays
<1> QED
  BY <1>1, OpenStep DEF OpenArchive

(* w = v.get_raw(key) *)
LEMMA GetRawInd ==
    ASSUME IInv, NEW v \in Views, NEW w \in Views, NEW k \in Names, GetRaw(v, k, w) PROVE IInv'
<1> DEFINE g == Resolve(links, view[v].grp, k)
<1>1. g \in Nodes /\ kind[g] = "group"
  BY DEF GetRaw, has_subgroup
<1>2. /\ call = Idle /\ view' = [view EXCEPT ![w] = OpenAt(links, g)]
      /\ UNCHANGED <<file, call, stack, protect, history>>
  BY DEF GetRaw, Ready
<1> HIDE DEF g
<1> QED
  BY <1>1, <1>2, OpenStep

(* The variable goes. *)
LEMMA DropInd ==
    ASSUME IInv, NEW v \in Views, Drop(v) PROVE IInv'
<1>0. UNCHANGED <<links, kind, data, tag, call, stack>> /\ stack' = <<>>
  BY IdleStack DEF Drop, Ready, file
<1>1. view' \in [Views -> [grp : Nodes \cup {NoNode}, keys : Keys]]
  BY DEF Drop, IInv, TypeOK, Closed, NoKeys, Keys
<1>2. view'[v] = Closed /\ \A u \in Views : u # v => view'[u] = view[u]
  BY DEF Drop, IInv, TypeOK
<1>3. TypeOK'
  BY <1>0, <1>1, <1>2 DEF IInv, TypeOK, IsOpen, Closed
<1>4. Agreement'
  BY <1>0, <1>2 DEF Drop, IInv, Agreement, IsOpen, Closed
<1>5. RootStays' /\ Blank'
  BY <1>0 DEF IInv, RootStays, Blank
<1> QED
  BY <1>0, <1>3, <1>4, <1>5, NoFrames DEF IInv

(* A call on view v that made no frame: its effect on the view, and on the *)
(* kinds and the data, decides. *)
LEMMA ClientInd ==
    ASSUME IInv, NEW v \in Views, Ready(v), NEW k \in Names, NEW w2,
           Effect(links, view[v], links', w2, k),
           view' = [view EXCEPT ![v] = w2],
           Touch(v),
           UNCHANGED <<tag, call, stack, protect>>,
           kind' \in [Nodes -> {"none", "group", "data"}],
           data' \in [Nodes -> Leaves \cup {Fill}],
           Grows(kind, data, kind', data'),
           \A m \in Nodes : kind[m] = "group" => kind'[m] = "group",
           Blank',
           AgreeAt(links, kind, data, view[v], k) => AgreeAt(links', kind', data', w2, k)
    PROVE  IInv'
<1>0. IsOpen(v) /\ Estrange(v) /\ stack = <<>> /\ stack' = <<>>
  BY IdleStack DEF Ready, Touch
<1>1. /\ links' \in Tables
      /\ view' \in [Views -> [grp : Nodes \cup {NoNode}, keys : Keys]]
      /\ \A u \in Views : IsOpen(u)' => kind'[view'[u].grp] = "group"
      /\ Agreement'
  BY <1>0, ClientStep
<1>2. TypeOK'
  BY <1>1 DEF IInv, TypeOK, Tables
<1>3. RootStays'
  BY NodeTypes DEF IInv, RootStays
<1> QED
  BY <1>0, <1>1, <1>2, <1>3, NoFrames DEF IInv

(* A view that is open. *)
LEMMA ReadyView ==
    ASSUME IInv, NEW v \in Views, IsOpen(v)
    PROVE  view[v] \in ViewType /\ links \in Tables /\ kind[view[v].grp] = "group"
  BY DEF IInv, TypeOK, IsOpen, ViewType, Tables

(* v[key] = an array or a scalar *)
LEMMA SetLeafInd ==
    ASSUME IInv, NEW v \in Views, NEW k \in Names, NEW x \in Leaves \cup {Fill}, SetLeaf(v, k, x)
    PROVE  IInv'
<1>1. PICK n \in Unused :
        /\ Ready(v)
        /\ LET c == Clean(links, view[v], k)
           IN  /\ links' = LinkData(c.links, c.view, k, n)
               /\ view' = [view EXCEPT ![v] = Listed(c.view, k)]
        /\ NewObject(n, "data")
        /\ data' = [data EXCEPT ![n] = x]
        /\ Touch(v)
        /\ UNCHANGED <<tag, call, stack, protect>>
  BY DEF SetLeaf
<1> DEFINE c == Clean(links, view[v], k)
           w2 == Listed(c.view, k)
<1>2. /\ n \in Nodes
      /\ kind' \in [Nodes -> {"none", "group", "data"}]
      /\ data' \in [Nodes -> Leaves \cup {Fill}]
      /\ \A m \in Nodes : kind[m] = "group" => kind'[m] = "group"
      /\ Grows(kind, data, kind', data')
      /\ Blank'
  BY <1>1, NewObjectGrows DEF IInv
<1>3. /\ links'[view[v].grp][k] = Hard(n)
      /\ Effect(links, view[v], links', w2, k)
      /\ w2.keys[k] > 0
      /\ view[v].keys[k] <= 1 => w2.keys[k] <= 1
  BY <1>1, <1>2, ReadyView, LeafEffect DEF Ready
<1>4. view' = [view EXCEPT ![v] = w2]
  BY <1>1
<1> HIDE DEF c, w2
<1>5. AgreeAt(links, kind, data, view[v], k) => AgreeAt(links', kind', data', w2, k)
  BY <1>3, LinkTypes DEF AgreeAt, Effect
<1> QED
  BY <1>1, <1>2, <1>3, <1>4, <1>5, ClientInd

(* A kept file keeps what the invariant says of kinds and data. *)
LEMMA SameObjects ==
    ASSUME IInv, UNCHANGED <<kind, data>>
    PROVE  /\ kind' \in [Nodes -> {"none", "group", "data"}]
           /\ data' \in [Nodes -> Leaves \cup {Fill}]
           /\ \A m \in Nodes : kind[m] = "group" => kind'[m] = "group"
           /\ Grows(kind, data, kind', data')
           /\ Blank'
  BY DEF IInv, TypeOK, Grows, Blank

(* _clean_key alone: a rejected value, or del. *)
LEMMA CleanInd ==
    ASSUME IInv, NEW v \in Views, NEW k \in Names,
           Ready(v), Touch(v),
           links' = Clean(links, view[v], k).links,
           view' = [view EXCEPT ![v] = Clean(links, view[v], k).view],
           UNCHANGED <<kind, data, tag, call, stack, protect>>
    PROVE  IInv'
<1> DEFINE w2 == Clean(links, view[v], k).view
<1>1. /\ Effect(links, view[v], links', w2, k)
      /\ view[v].keys[k] > 0 => links'[view[v].grp][k].type = "none" /\ w2.keys[k] = view[v].keys[k] - 1
      /\ ~ view[v].keys[k] > 0 => links' = links /\ w2 = view[v]
      /\ view[v].keys[k] \in Nat
  BY ReadyView, CleanEffect, KeyCounts DEF Ready
<1>2. view' = [view EXCEPT ![v] = w2]
  OBVIOUS
<1> HIDE DEF w2
<1>3. AgreeAt(links, kind, data, view[v], k) => AgreeAt(links', kind', data', w2, k)
  <2>1. CASE view[v].keys[k] > 0
    BY <1>1, <2>1 DEF AgreeAt, Effect
  <2>2. CASE ~ view[v].keys[k] > 0
    BY <1>1, <2>2 DEF AgreeAt
  <2> QED
    BY <2>1, <2>2
<1> QED
  BY <1>1, <1>2, <1>3, SameObjects, ClientInd

(* unlink alone. *)
LEMMA UnlinkEffect ==
    ASSUME NEW t \in Tables, NEW w \in ViewType, NEW k \in Names
    PROVE  /\ Effect(t, w, unlink(t, w.grp, k, FALSE).links, w, k)
           /\ unlink(t, w.grp, k, FALSE).links[w.grp][k].type = "none"
<1> DEFINE t2 == unlink(t, w.grp, k, FALSE).links
<1>1. w.grp \in Nodes
  BY DEF ViewType
<1>2. /\ t2 \in Tables /\ t2[w.grp][k].type = "none"
      /\ \A h \in Nodes, j \in Names : h # w.grp \/ j # k => t2[h][j] = t[h][j]
  BY <1>1, UnlinkSets
<1> HIDE DEF t2
<1>3. Effect(t, w, t2, w, k)
  BY <1>2 DEF Effect
<1> QED
  BY <1>2, <1>3 DEF t2

(* _clean_key and then unlink change the group of w and its list as far as *)
(* k goes, and leave no link there. *)
LEMMA GoneEffect ==
    ASSUME NEW t \in Tables, NEW w \in ViewType, NEW k \in Names
    PROVE  LET c == Clean(t, w, k)
               t2 == unlink(c.links, w.grp, k, FALSE).links IN
           /\ Effect(t, w, t2, c.view, k)
           /\ t2[w.grp][k].type = "none"
           /\ w.keys[k] <= 1 => c.view.keys[k] = 0
<1> DEFINE c == Clean(t, w, k)
           t2 == unlink(c.links, w.grp, k, FALSE).links
<1>1. /\ Effect(t, w, c.links, c.view, k)
      /\ w.keys[k] > 0 => c.view.keys[k] = w.keys[k] - 1
      /\ ~ w.keys[k] > 0 => c.view = w
      /\ w.keys[k] \in Nat
  BY CleanEffect, KeyCounts
<1>2. c.links \in Tables /\ w.grp \in Nodes
  BY <1>1 DEF Effect, ViewType
<1> HIDE DEF c
<1>3. /\ t2 \in Tables /\ t2[w.grp][k].type = "none"
      /\ \A h \in Nodes, j \in Names : h # w.grp \/ j # k => t2[h][j] = c.links[h][j]
  BY <1>2, UnlinkSets
<1> HIDE DEF t2
<1>4. Effect(t, w, t2, c.view, k)
  BY <1>1, <1>3 DEF Effect
<1>5. w.keys[k] <= 1 => c.view.keys[k] = 0
  BY <1>1
<1> QED
  BY <1>3, <1>4, <1>5 DEF c, t2

(* A value that cannot be stored. *)
LEMMA SetRejectedInd ==
    ASSUME IInv, NEW v \in Views, NEW k \in Names, SetRejected(v, k) PROVE IInv'
<1> DEFINE c == Clean(links, view[v], k)
<1>0. /\ Ready(v) /\ Touch(v)
      /\ view' = [view EXCEPT ![v] = c.view]
      /\ links' = c.links \/ links' = unlink(c.links, view[v].grp, k, FALSE).links
      /\ UNCHANGED <<kind, data, tag, call, stack, protect>>
  BY DEF SetRejected
<1>1. CASE links' = c.links
  BY <1>0, <1>1, CleanInd
<1>2. CASE links' = unlink(c.links, view[v].grp, k, FALSE).links
  <2>1. /\ Effect(links, view[v], links', c.view, k)
        /\ links'[view[v].grp][k].type = "none"
        /\ view[v].keys[k] <= 1 => c.view.keys[k] = 0
    BY <1>0, <1>2, ReadyView, GoneEffect DEF Ready
  <2> HIDE DEF c
  <2>2. AgreeAt(links, kind, data, view[v], k) => AgreeAt(links', kind', data', c.view, k)
    BY <2>1 DEF AgreeAt, Effect
  <2> QED
    BY <1>0, <2>1, <2>2, SameObjects, ClientInd
<1> QED
  BY <1>0, <1>1, <1>2

(* create_group or create_softlink that raises. *)
LEMMA CreateFailsInd ==
    ASSUME IInv, NEW v \in Views, NEW k \in Names, CreateFails(v, k) PROVE IInv'
<1>1. /\ Ready(v) /\ Touch(v) /\ Relinks(v, k)
      /\ links' = unlink(links, view[v].grp, k, FALSE).links
      /\ UNCHANGED <<kind, data, tag, view, call, stack, protect>>
  BY DEF CreateFails
<1>2. /\ view[v] \in ViewType /\ links \in Tables /\ view[v].grp \in Nodes
      /\ view[v].keys[k] \in Nat
  BY <1>1, ReadyView, KeyCounts DEF Ready, ViewType
<1>3. /\ Effect(links, view[v], links', view[v], k)
      /\ links'[view[v].grp][k].type = "none"
  BY <1>1, <1>2, UnlinkEffect
<1>4. view' = [view EXCEPT ![v] = view[v]]
  BY <1>1 DEF IInv, TypeOK
<1>5. MaxListed = 1 => ~ view[v].keys[k] > 0 /\ view[v].keys[k] <= 1
  BY <1>1, <1>2 DEF Relinks
<1>6. AgreeAt(links', kind', data', view[v], k)
  BY <1>3, <1>5 DEF AgreeAt
<1> QED
  BY <1>1, <1>3, <1>4, <1>6, SameObjects, ClientInd

(* del v[key] *)
LEMMA DelItemInd ==
    ASSUME IInv, NEW v \in Views, NEW k \in Names, DelItem(v, k) PROVE IInv'
  BY CleanInd DEF DelItem

(* The write of the dataset fails. *)
LEMMA SetTornInd ==
    ASSUME IInv, NEW v \in Views, NEW k \in Names, SetTorn(v, k)
    PROVE  IInv'
<1>1. PICK n \in Unused :
        /\ Ready(v)
        /\ LET c == Clean(links, view[v], k)
           IN  /\ links' = LinkData(c.links, c.view, k, n)
               /\ view' = [view EXCEPT ![v] = c.view]
        /\ NewObject(n, "data")
        /\ Touch(v)
        /\ UNCHANGED <<data, tag, call, stack, protect>>
  BY DEF SetTorn
<1> DEFINE c == Clean(links, view[v], k)
           w2 == c.view
<1>2. /\ n \in Nodes /\ kind[n] = "none"
      /\ kind' \in [Nodes -> {"none", "group", "data"}]
      /\ data' \in [Nodes -> Leaves \cup {Fill}]
      /\ \A m \in Nodes : kind[m] = "group" => kind'[m] = "group"
      /\ Grows(kind, data, kind', data')
      /\ Blank'
  BY <1>1, NewObjectGrows DEF IInv
<1>3. /\ links'[view[v].grp][k] = Hard(n)
      /\ Effect(links, view[v], links', w2, k)
      /\ view[v].keys[k] <= 1 => w2.keys[k] = 0
  BY <1>1, <1>2, ReadyView, LeafEffect DEF Ready
<1>4. view' = [view EXCEPT ![v] = w2]
  BY <1>1
<1>5. data'[n] = Fill /\ kind'[n] = "data"
  BY <1>1, <1>2 DEF IInv, Blank, NewObject, TypeOK
<1> HIDE DEF c, w2
<1>6. TornIn(links', kind', data', w2.grp, k)
  BY <1>2, <1>3, <1>5 DEF TornIn, Effect
<1>7. AgreeAt(links, kind, data, view[v], k) => AgreeAt(links', kind', data', w2, k)
  BY <1>3, <1>6 DEF AgreeAt
<1> QED
  BY <1>1, <1>2, <1>3, <1>4, <1>7, ClientInd

(* v.create_group(key) *)
LEMMA CreateGroupInd ==
    ASSUME IInv, NEW v \in Views, NEW k \in Names, CreateGroup(v, k)
    PROVE  IInv'
<1>1. PICK n \in Unused :
        /\ Ready(v) /\ Relinks(v, k)
        /\ LET m == MakeGroup(links, view[v], k, n)
           IN  /\ links' = m.links
               /\ view' = [view EXCEPT ![v] = m.view]
        /\ NewObject(n, "group")
        /\ Touch(v)
        /\ UNCHANGED <<data, tag, call, stack, protect>>
  BY DEF CreateGroup
<1> DEFINE w2 == MakeGroup(links, view[v], k, n).view
<1>2. /\ n \in Nodes
      /\ kind' \in [Nodes -> {"none", "group", "data"}]
      /\ data' \in [Nodes -> Leaves \cup {Fill}]
      /\ \A m \in Nodes : kind[m] = "group" => kind'[m] = "group"
      /\ Grows(kind, data, kind', data')
      /\ Blank'
  BY <1>1, NewObjectGrows DEF IInv
<1>3. /\ links'[view[v].grp][k] = Hard(n)
      /\ Effect(links, view[v], links', w2, k)
      /\ w2.keys[k] = view[v].keys[k] + 1
      /\ view[v].keys[k] \in Nat
  BY <1>1, <1>2, ReadyView, MakeEffect, KeyCounts DEF Ready
<1>4. view' = [view EXCEPT ![v] = w2]
  BY <1>1
<1>5. MaxListed = 1 => ~ view[v].keys[k] > 0
  BY <1>1, <1>3 DEF Relinks
<1> HIDE DEF w2
<1>6. AgreeAt(links', kind', data', w2, k)
  BY <1>3, <1>5, LinkTypes DEF AgreeAt, Effect
<1> QED
  BY <1>1, <1>2, <1>3, <1>4, <1>6, ClientInd

(* v.create_softlink(target_key, key) *)
LEMMA CreateSoftlinkInd ==
    ASSUME IInv, NEW v \in Views, NEW j \in Names, NEW k \in Names, CreateSoftlink(v, j, k)
    PROVE  IInv'
<1> DEFINE w2 == [view[v] EXCEPT !.keys[k] = view[v].keys[k] + 1]
<1>1. /\ Ready(v) /\ Relinks(v, k) /\ Touch(v)
      /\ create_softlink(links, view[v].grp, j, k, TRUE, TRUE).ok
      /\ links' = create_softlink(links, view[v].grp, j, k, TRUE, TRUE).links
      /\ UNCHANGED <<kind, data, tag, call, stack, protect>>
  BY DEF CreateSoftlink
<1>2. view[v] \in ViewType /\ links \in Tables /\ view[v].grp \in Nodes /\ view[v].keys[k] \in Nat
  BY <1>1, ReadyView, KeyCounts DEF Ready, ViewType
<1>3. view' = [view EXCEPT ![v] = w2]
  BY <1>2 DEF CreateSoftlink, IInv, TypeOK
<1>4. Sets(links, links', view[v].grp, k, Soft(j))
  BY <1>1, <1>2, SoftlinkSets
<1>5. /\ w2 \in ViewType /\ w2.grp = view[v].grp /\ w2.keys[k] = view[v].keys[k] + 1
      /\ \A i \in Names : i # k => w2.keys[i] = view[v].keys[i]
  <2>1. view[v].keys[k] + 1 \in Nat
    BY <1>2
  <2> QED
    BY <1>2, <2>1, KeyTypes
<1>6. MaxListed = 1 => ~ view[v].keys[k] > 0
  BY <1>1, <1>2 DEF Relinks
<1> HIDE DEF w2
<1>7. Effect(links, view[v], links', w2, k)
  BY <1>4, <1>5 DEF Effect, Sets
<1>8. AgreeAt(links', kind', data', w2, k)
  BY <1>2, <1>4, <1>5, <1>6, LinkTypes DEF AgreeAt, Sets
<1> QED
  BY <1>1, <1>3, <1>7, <1>8, SameObjects, ClientInd

(* The view of a new frame is one of the group that was just made. *)
LEMMA FrameSub ==
    ASSUME NEW m, NEW k, NEW n, NEW x, m.links[m.view.grp][k] = Hard(n)
    PROVE  FrameFor(m, k, n, x).sub = OpenAt(m.links, n)
  BY ResolveHard DEF FrameFor, Frame, SubGroup

(* A stack of one frame. *)
LEMMA OneFrame ==
    ASSUME NEW f
    PROVE  /\ IsStack(<<f>>)
           /\ <<f>> # <<>> /\ Len(<<f>>) = 1 /\ <<f>>[1] = f
<1>1. <<f>> \in Seq({f})
  OBVIOUS
<1> QED
  BY <1>1 DEF IsStack

(* v[key] = an object or a view, the first step. *)
LEMMA SetGroupInd ==
    ASSUME IInv, NEW v \in Views, NEW k \in Names, NEW x, SetGroup(v, k, x)
    PROVE  IInv'
<1>1. PICK n \in Unused :
        /\ Ready(v) /\ IsNext(n)
        /\ LET c == Clean(links, view[v], k)
               m == MakeGroup(c.links, c.view, k, n)
           IN  /\ links' = m.links
               /\ view' = [view EXCEPT ![v] = m.view]
               /\ stack' = <<FrameFor(m, k, n, x)>>
        /\ NewObject(n, "group")
        /\ call' = [type |-> "set", first |-> n, want |-> Wanted(v, x)]
        /\ Estrange(v)
        /\ UNCHANGED <<data, tag, protect>>
  BY DEF SetGroup
<1> DEFINE c == Clean(links, view[v], k)
           m == MakeGroup(c.links, c.view, k, n)
           f == FrameFor(m, k, n, x)
<1>2. /\ n \in Nodes /\ kind[n] = "none"
      /\ kind' \in [Nodes -> {"none", "group", "data"}]
      /\ data' \in [Nodes -> Leaves \cup {Fill}]
      /\ \A i \in Nodes : i # n => kind'[i] = kind[i]
      /\ \A i \in Nodes : kind[i] = "group" => kind'[i] = "group"
      /\ Grows(kind, data, kind', data')
      /\ Blank'
  BY <1>1, NewObjectGrows DEF IInv
<1>3. view[v] \in ViewType /\ links \in Tables
  BY <1>1, ReadyView DEF Ready
<1>4. /\ m.links[view[v].grp][k] = Hard(n)
      /\ Effect(links, view[v], m.links, m.view, k)
      /\ m.view.keys[k] > 0
      /\ view[v].keys[k] <= 1 => m.view.keys[k] <= 1
  BY <1>2, <1>3, GroupEffect
<1>5. /\ links' = m.links /\ view' = [view EXCEPT ![v] = m.view] /\ stack' = <<f>>
  BY <1>1
<1>6. m.view.grp = view[v].grp
  BY <1>4 DEF Effect
<1> HIDE DEF c, m
<1>7. f.sub = OpenAt(links', n)
  BY <1>4, <1>5, <1>6, FrameSub
<1> HIDE DEF f
<1>8. AgreeAt(links, kind, data, view[v], k) => AgreeAt(links', kind', data', m.view, k)
  BY <1>4, <1>5, <1>6, LinkTypes DEF AgreeAt
<1>9. /\ links' \in Tables
      /\ view' \in [Views -> [grp : Nodes \cup {NoNode}, keys : Keys]]
      /\ \A u \in Views : view'[u].grp = view[u].grp
      /\ \A u \in Views : IsOpen(u)' => kind'[view'[u].grp] = "group"
      /\ Agreement'
  <2>1. IsOpen(v) /\ Estrange(v) /\ Effect(links, view[v], links', m.view, k)
    BY <1>1, <1>4, <1>5 DEF Ready
  <2> QED
    BY <1>2, <1>5, <1>8, <2>1, ClientStep
<1>10. kind'[n] = "group"
  BY <1>1, <1>2 DEF NewObject, IInv, TypeOK
<1>11. \A u \in Views : view'[u].grp # n
  BY <1>2, <1>9, NodeTypes DEF IInv, TypeOK, IsOpen
<1>12. Owned(links', kind', data', view', n, f.sub)
  <2>1. f.sub \in ViewType /\ f.sub.grp = n /\ Agree(links', kind', data', f.sub)
    BY <1>2, <1>7, OpenAgrees
  <2> QED
    BY <1>2, <1>10, <1>11, <2>1, NodeTypes DEF Owned
<1>13. call'.type = "set" /\ call'.first = n /\ call' # Idle /\ stack' # <<>>
  BY <1>1, <1>5, OneFrame DEF Idle
<1>14. TypeOK'
  BY <1>1, <1>2, <1>9, <1>13 DEF IInv, TypeOK, Tables
<1>15. RootStays'
  BY <1>2, NodeTypes DEF IInv, RootStays
<1>16. Calling'
  <2>1. ASSUME NEW i \in Nodes, i < n PROVE kind'[i] # "none"
    <3>1. kind[i] # "none"
      BY <1>1, <2>1, Lowest
    <3>2. i # n
      BY <1>2, <2>1, NodeTypes
    <3> QED
      BY <1>2, <3>1, <3>2
  <2> QED
    BY <1>2, <1>13, <2>1 DEF Calling
<1>17. Frames'
  <2>1. /\ IsStack(stack')
        /\ Len(stack') = 1 /\ stack'[1] = f
    BY <1>5, OneFrame
  <2> QED
    BY <1>12, <1>13, <2>1 DEF Frames
<1> QED
  BY <1>2, <1>9, <1>14, <1>15, <1>16, <1>17 DEF IInv

(* v[key] = w *)
LEMMA CopyViewInd ==
    ASSUME IInv, NEW v \in Views, NEW w \in Views, NEW k \in Names, CopyView(v, k, w)
    PROVE  IInv'
  BY SetGroupInd DEF CopyView

(* v[key] = w[j] *)
LEMMA CopyEntryInd ==
    ASSUME IInv, NEW v \in Views, NEW w \in Views, NEW j \in Names, NEW k \in Names,
           CopyEntry(v, k, w, j)
    PROVE  IInv'
<1> DEFINE n == Resolve(links, view[w].grp, j)
<1>1. CASE has_dataset(links, kind, view[w].grp, j) /\ SetLeaf(v, k, data[n])
  <2>1. n \in Nodes
    BY <1>1 DEF has_dataset
  <2> HIDE DEF n
  <2>2. data[n] \in Leaves \cup {Fill}
    BY <2>1 DEF IInv, TypeOK
  <2> QED
    BY <1>1, <2>2, SetLeafInd
<1>2. CASE SetGroup(v, k, Value(links, kind, n))
  BY <1>2, SetGroupInd
<1> QED
  BY <1>1, <1>2 DEF CopyEntry

(* The innermost frame. *)
LEMMA TopFrame ==
    ASSUME IInv, stack # <<>>
    PROVE  /\ Len(stack) \in Nat /\ Len(stack) >= 1 /\ Top = stack[1]
           /\ Owned(links, kind, data, view, call.first, Top.sub)
           /\ Top.sub \in ViewType /\ links \in Tables
           /\ call # Idle
<1>1. Len(stack) \in Nat /\ Len(stack) >= 1 /\ Top = stack[1]
  BY Popped DEF IInv, Frames, Top
<1>2. Owned(links, kind, data, view, call.first, Top.sub)
  BY <1>1 DEF IInv, Frames
<1> QED
  BY <1>1, <1>2 DEF Owned, IInv, TypeOK, Tables

(* An entry of the group that is being filled ... *)
LEMMA StoreLeafInd ==
    ASSUME IInv, NEW k \in Names, StoreLeaf(k)
    PROVE  IInv'
<1>1. PICK n \in Unused :
        /\ stack # <<>> /\ Top.todo[k] \in Plain
        /\ LET c == Clean(links, Top.sub, k)
           IN  /\ links' = LinkData(c.links, c.view, k, n)
               /\ stack' = <<Frame(Listed(c.view, k), Remaining(k), Top.fmt)>> \o Tail(stack)
        /\ NewObject(n, "data")
        /\ data' = [data EXCEPT ![n] = Top.todo[k].leaf]
        /\ UNCHANGED <<tag, view, call, protect, history>>
  BY DEF StoreLeaf, Storing
<1> DEFINE c == Clean(links, Top.sub, k)
           w2 == Listed(c.view, k)
           f == Frame(w2, Remaining(k), Top.fmt)
<1>2. Top.todo[k].leaf \in Leaves \cup {Fill}
  BY <1>1 DEF Plain, Leaf
<1>3. /\ n \in Nodes
      /\ kind' \in [Nodes -> {"none", "group", "data"}]
      /\ data' \in [Nodes -> Leaves \cup {Fill}]
      /\ \A m \in Nodes : m # n => kind'[m] = kind[m]
      /\ \A m \in Nodes : kind[m] = "group" => kind'[m] = "group"
      /\ kind'[n] # "none"
      /\ Grows(kind, data, kind', data')
      /\ Blank'
  BY <1>1, <1>2, NewObjectGrows DEF IInv
<1>4. /\ links'[Top.sub.grp][k] = Hard(n)
      /\ Effect(links, Top.sub, links', w2, k)
      /\ w2.keys[k] > 0
      /\ Top.sub.keys[k] <= 1 => w2.keys[k] <= 1
  BY <1>1, <1>3, TopFrame, LeafEffect
<1>5. stack' = <<f>> \o Tail(stack) /\ f.sub = w2
  BY <1>1 DEF Frame
<1> HIDE DEF c, w2, f
<1>6. AgreeAt(links, kind, data, Top.sub, k) => AgreeAt(links', kind', data', w2, k)
  BY <1>4, LinkTypes DEF AgreeAt, Effect
<1>7. /\ UNCHANGED <<tag, view, call, protect, foreign>>
      /\ links' \in Tables
      /\ \A u \in Views : IsOpen(u)' => kind'[view'[u].grp] = "group"
      /\ Agreement'
      /\ Owned(links', kind', data', view', call.first, w2)
      /\ \A i \in 2..Len(stack) : Owned(links', kind', data', view', call.first, stack[i].sub)
  <2>1. UNCHANGED <<tag, view, call, protect, foreign>>
    BY <1>1 DEF history
  <2> QED
    BY <1>1, <1>3, <1>4, <1>6, <2>1, FrameStep
<1>8. /\ IsStack(stack')
      /\ stack' # <<>> /\ Len(stack) \in Nat /\ Len(stack') = Len(stack) /\ stack'[1] = f
      /\ \A i \in 2..Len(stack) : stack'[i] = stack[i]
  <2>1. stack # <<>> /\ IsStack(stack)
    BY <1>1 DEF IInv, Frames
  <2>2. stack' = ReplaceTop(stack, f)
    BY <1>5 DEF ReplaceTop
  <2> QED
    BY <2>1, <2>2, Replaced
<1>9. TypeOK'
  BY <1>1, <1>3, <1>7, <1>8, TopFrame DEF IInv, TypeOK, Tables
<1>10. RootStays'
  BY <1>3, NodeTypes DEF IInv, RootStays
<1>11. Calling'
  BY <1>1, <1>3, <1>7 DEF IInv, Calling
<1>12. Frames'
  <2>1. ASSUME NEW i \in 1..Len(stack')
        PROVE  /\ Owned(links', kind', data', view', call'.first, stack'[i].sub)
               /\ stack'[i].sub.grp = stack[i].sub.grp
    <3>1. CASE i = 1
      BY <1>1, <1>4, <1>5, <1>7, <1>8, <3>1, TopFrame DEF Effect
    <3>2. CASE i # 1
      BY <1>7, <1>8, <2>1, <3>2
    <3> QED
      BY <3>1, <3>2
  <2> QED
    BY <1>8, <2>1 DEF IInv, Frames
<1> QED
  BY <1>3, <1>7, <1>9, <1>10, <1>11, <1>12 DEF IInv

(* ... or a group inside it ... *)
LEMMA StoreGroupInd ==
    ASSUME IInv, NEW k \in Names, StoreGroup(k)
    PROVE  IInv'
<1>1. PICK n \in Unused :
        /\ stack # <<>> /\ IsNext(n)
        /\ LET c == Clean(links, Top.sub, k)
               m == MakeGroup(c.links, c.view, k, n)
           IN  /\ links' = m.links
               /\ stack' = <<FrameFor(m, k, n, Top.todo[k]),
                             Frame(m.view, Remaining(k), Top.fmt)>> \o Tail(stack)
        /\ NewObject(n, "group")
        /\ UNCHANGED <<data, tag, view, call, protect, foreign>>
  BY DEF StoreGroup, Storing
<1> DEFINE c == Clean(links, Top.sub, k)
           m == MakeGroup(c.links, c.view, k, n)
           e == FrameFor(m, k, n, Top.todo[k])
           f == Frame(m.view, Remaining(k), Top.fmt)
<1>2. /\ n \in Nodes /\ kind[n] = "none" /\ kind'[n] # "none"
      /\ kind' \in [Nodes -> {"none", "group", "data"}]
      /\ data' \in [Nodes -> Leaves \cup {Fill}]
      /\ \A i \in Nodes : i # n => kind'[i] = kind[i]
      /\ \A i \in Nodes : kind[i] = "group" => kind'[i] = "group"
      /\ Grows(kind, data, kind', data')
      /\ Blank'
  BY <1>1, NewObjectGrows DEF IInv
<1>3. /\ m.links[Top.sub.grp][k] = Hard(n)
      /\ Effect(links, Top.sub, m.links, m.view, k)
      /\ m.view.keys[k] > 0
      /\ Top.sub.keys[k] <= 1 => m.view.keys[k] <= 1
  BY <1>1, <1>2, TopFrame, GroupEffect
<1>4. links' = m.links /\ stack' = <<e, f>> \o Tail(stack) /\ f.sub = m.view
  BY <1>1 DEF Frame
<1>5. m.view.grp = Top.sub.grp
  BY <1>3 DEF Effect
<1> HIDE DEF c, m
<1>6. e.sub = OpenAt(links', n)
  BY <1>3, <1>4, <1>5, FrameSub
<1> HIDE DEF e, f
<1>7. AgreeAt(links, kind, data, Top.sub, k) => AgreeAt(links', kind', data', m.view, k)
  BY <1>3, <1>4, <1>5, LinkTypes DEF AgreeAt
<1>8. /\ links' \in Tables
      /\ \A u \in Views : IsOpen(u)' => kind'[view'[u].grp] = "group"
      /\ Agreement'
      /\ Owned(links', kind', data', view', call.first, m.view)
      /\ \A i \in 2..Len(stack) : Owned(links', kind', data', view', call.first, stack[i].sub)
  BY <1>1, <1>2, <1>3, <1>4, <1>7, FrameStep
<1>9. kind'[n] = "group"
  BY <1>1, <1>2 DEF NewObject, IInv, TypeOK
<1>10. Owned(links', kind', data', view', call.first, e.sub) /\ e.sub.grp = n
  <2>1. e.sub \in ViewType /\ e.sub.grp = n /\ Agree(links', kind', data', e.sub)
    BY <1>2, <1>6, OpenAgrees
  <2>2. n >= call.first
    <3>1. n \in Nat /\ call.first \in Nat /\ ~(n < call.first)
      BY <1>1, <1>2, NodeTypes DEF IInv, Calling
    <3> QED
      BY <3>1
  <2>3. \A u \in Views : view'[u].grp # n
    BY <1>1, <1>2, NodeTypes DEF IInv, TypeOK, IsOpen
  <2> QED
    BY <1>9, <2>1, <2>2, <2>3 DEF Owned
<1>11. /\ IsStack(stack')
       /\ stack' # <<>> /\ Len(stack) \in Nat /\ Len(stack') = Len(stack) + 1
       /\ stack'[1] = e /\ stack'[2] = f
       /\ \A i \in 3..(Len(stack) + 1) : stack'[i] = stack[i - 1]
  <2>1. stack # <<>> /\ IsStack(stack)
    BY <1>1 DEF IInv, Frames
  <2>2. stack' = PushTop(stack, e, f)
    BY <1>4 DEF PushTop
  <2> QED
    BY <2>1, <2>2, Pushed
<1>12. TypeOK'
  BY <1>1, <1>2, <1>8, <1>11, TopFrame DEF IInv, TypeOK, Tables
<1>13. RootStays'
  BY <1>2, NodeTypes DEF IInv, RootStays
<1>14. Calling'
  BY <1>1, <1>2 DEF IInv, Calling
<1>15. ASSUME NEW i \in 2..Len(stack')
       PROVE  /\ i - 1 \in 1..Len(stack)
              /\ stack'[i].sub.grp = stack[i - 1].sub.grp
              /\ Owned(links', kind', data', view', call'.first, stack'[i].sub)
  <2>1. i - 1 \in 1..Len(stack)
    BY <1>11
  <2>2. CASE i = 2
    BY <1>1, <1>4, <1>5, <1>8, <1>11, <2>1, <2>2, TopFrame
  <2>3. CASE i # 2
    <3>1. i \in 3..(Len(stack) + 1) /\ i - 1 \in 2..Len(stack)
      BY <1>11, <2>3
    <3>2. stack'[i] = stack[i - 1]
      BY <1>11, <3>1
    <3> QED
      BY <1>1, <1>8, <2>1, <3>1, <3>2
  <2> QED
    BY <2>2, <2>3
<1>16. ASSUME NEW i \in 1..Len(stack) PROVE stack[i].sub.grp # n
  BY <1>2 DEF IInv, Frames, Owned
<1>17. Frames'
  <2>1. ASSUME NEW i \in 1..Len(stack')
        PROVE  Owned(links', kind', data', view', call'.first, stack'[i].sub)
    <3>1. CASE i = 1
      BY <1>1, <1>10, <1>11, <3>1
    <3>2. CASE i # 1
      BY <1>11, <1>15, <3>2
    <3> QED
      BY <3>1, <3>2
  <2>2. ASSUME NEW i \in 1..Len(stack'), NEW j \in 1..Len(stack'), i # j
        PROVE  stack'[i].sub.grp # stack'[j].sub.grp
    <3>1. CASE i = 1
      <4>1. j \in 2..Len(stack')
        BY <1>11, <2>2, <3>1
      <4> QED
        BY <1>10, <1>11, <1>15, <1>16, <3>1, <4>1
    <3>2. CASE j = 1
      <4>1. i \in 2..Len(stack')
        BY <1>11, <2>2, <3>2
      <4> QED
        BY <1>10, <1>11, <1>15, <1>16, <3>2, <4>1
    <3>3. CASE i # 1 /\ j # 1
      <4>1. i \in 2..Len(stack') /\ j \in 2..Len(stack') /\ i - 1 # j - 1
        BY <1>11, <2>2, <3>3
      <4> QED
        BY <1>15, <4>1 DEF IInv, Frames
    <3> QED
      BY <3>1, <3>2, <3>3
  <2> QED
    BY <1>11, <2>1, <2>2 DEF Frames
<1> QED
  BY <1>2, <1>8, <1>12, <1>13, <1>14, <1>17 DEF IInv

(* ... or the failed write of one ... *)
LEMMA RaiseTornInd ==
    ASSUME IInv, NEW k \in Names, RaiseTorn(k)
    PROVE  IInv'
<1>1. PICK n \in Unused :
        /\ stack # <<>>
        /\ LET c == Clean(links, Top.sub, k)
           IN  links' = LinkData(c.links, c.view, k, n)
        /\ NewObject(n, "data")
        /\ stack' = <<>> /\ call' = Idle
        /\ UNCHANGED <<data, tag, view, protect, foreign>>
  BY DEF RaiseTorn, Storing, Abandon
<1> DEFINE w2 == Clean(links, Top.sub, k).view
<1>2. /\ n \in Nodes /\ kind[n] = "none"
      /\ kind' \in [Nodes -> {"none", "group", "data"}]
      /\ data' \in [Nodes -> Leaves \cup {Fill}]
      /\ \A m \in Nodes : kind[m] = "group" => kind'[m] = "group"
      /\ Grows(kind, data, kind', data')
      /\ Blank'
  BY <1>1, NewObjectGrows DEF IInv
<1>3. /\ links'[Top.sub.grp][k] = Hard(n)
      /\ Effect(links, Top.sub, links', w2, k)
      /\ Top.sub.keys[k] <= 1 => w2.keys[k] = 0
  BY <1>1, <1>2, TopFrame, LeafEffect
<1>4. data'[n] = Fill /\ kind'[n] = "data"
  BY <1>1, <1>2 DEF IInv, Blank, NewObject, TypeOK
<1> HIDE DEF w2
<1>5. TornIn(links', kind', data', w2.grp, k)
  BY <1>2, <1>3, <1>4 DEF TornIn, Effect
<1>6. AgreeAt(links, kind, data, Top.sub, k) => AgreeAt(links', kind', data', w2, k)
  BY <1>3, <1>5 DEF AgreeAt
<1>7. /\ links' \in Tables
      /\ \A u \in Views : IsOpen(u)' => kind'[view'[u].grp] = "group"
      /\ Agreement'
  BY <1>1, <1>2, <1>3, <1>6, FrameStep
<1>8. TypeOK'
  BY <1>1, <1>2, <1>7 DEF IInv, TypeOK, Tables
<1>9. RootStays'
  BY <1>2, NodeTypes DEF IInv, RootStays
<1> QED
  BY <1>1, <1>2, <1>7, <1>8, <1>9, NoFrames DEF IInv

(* ... or an exception ... *)
LEMMA RaiseInd ==
    ASSUME IInv, Raise PROVE IInv'
<1>1. stack' = <<>> /\ call' = Idle /\ UNCHANGED <<links, kind, data, tag, view, protect, foreign>>
  BY DEF Raise, Abandon, file
<1>2. TypeOK' /\ RootStays' /\ Blank' /\ Agreement'
  BY <1>1 DEF IInv, TypeOK, RootStays, Blank, Agreement, IsOpen
<1> QED
  BY <1>1, <1>2, NoFrames DEF IInv

(* ... and the return to the caller. *)
LEMMA FinishInd ==
    ASSUME IInv, Finish PROVE IInv'
<1>1. /\ stack # <<>> /\ Top.fmt \in Registered \cup {Untagged}
      /\ tag' = [tag EXCEPT ![Top.sub.grp] = Top.fmt]
      /\ stack' = Tail(stack)
      /\ call' = IF Tail(stack) = <<>> THEN Idle ELSE call
      /\ UNCHANGED <<links, kind, data, view, protect, foreign>>
  BY DEF Finish, Storing, history
<1>2. tag' \in [Nodes -> Registered \cup {Untagged}]
  BY <1>1 DEF IInv, TypeOK
<1>3. TypeOK'
  BY <1>1, <1>2, TopFrame DEF IInv, TypeOK, IsOpen
<1>4. RootStays' /\ Blank' /\ Agreement'
  BY <1>1 DEF IInv, RootStays, Blank, Agreement, IsOpen
<1>5. CASE Tail(stack) = <<>>
  BY <1>1, <1>3, <1>4, <1>5, NoFrames DEF IInv
<1>6. CASE Tail(stack) # <<>>
  <2>1. Calling'
    BY <1>1, <1>6 DEF IInv, Calling
  <2>2. /\ IsStack(stack') /\ Len(stack) \in Nat /\ Len(stack) >= 1 /\ Len(stack') = Len(stack) - 1
        /\ \A i \in 1..(Len(stack) - 1) : stack'[i] = stack[i + 1]
    <3>1. IsStack(stack) /\ stack # <<>>
      BY <1>1 DEF IInv, Frames
    <3> QED
      BY <1>1, <3>1, Popped
  <2>3. ASSUME NEW i \in 1..Len(stack')
        PROVE  i + 1 \in 1..Len(stack) /\ stack'[i] = stack[i + 1]
    BY <2>2
  <2>4. ASSUME NEW i \in 1..Len(stack')
        PROVE  Owned(links', kind', data', view', call'.first, stack'[i].sub)
    BY <1>1, <1>6, <2>3 DEF IInv, Frames
  <2>5. ASSUME NEW i \in 1..Len(stack'), NEW j \in 1..Len(stack'), i # j
        PROVE  stack'[i].sub.grp # stack'[j].sub.grp
    <3>1. i + 1 \in 1..Len(stack) /\ j + 1 \in 1..Len(stack) /\ i + 1 # j + 1
      BY <2>3, <2>5
    <3> QED
      BY <2>3, <3>1 DEF IInv, Frames
  <2>6. Frames'
    BY <2>2, <2>4, <2>5 DEF Frames
  <2> QED
    BY <1>3, <1>4, <2>1, <2>6 DEF IInv
<1> QED
  BY <1>5, <1>6

(* Every step preserves the invariant. *)
LEMMA NextIInv == ASSUME IInv, [Next]_vars PROVE IInv'
<1>1. ASSUME NEW v \in Views, OpenArchive(v) \/ Drop(v) PROVE IInv'
  BY <1>1, OpenArchiveInd, DropInd
<1>2. ASSUME NEW v \in Views, NEW w \in Views, NEW k \in Names, GetRaw(v, k, w) PROVE IInv'
  BY <1>2, GetRawInd
<1>3. ASSUME NEW v \in Views, NEW k \in Names, NEW x \in Leaves, SetLeaf(v, k, x) PROVE IInv'
  BY <1>3, SetLeafInd
<1>4. ASSUME NEW v \in Views, NEW k \in Names, SetRejected(v, k) \/ SetTorn(v, k) PROVE IInv'
  BY <1>4, SetRejectedInd, SetTornInd
<1>5. ASSUME NEW v \in Views, NEW k \in Names, NEW x \in Objects, SetGroup(v, k, x) PROVE IInv'
  BY <1>5, SetGroupInd
<1>6. ASSUME NEW v \in Views, NEW w \in Views, NEW k \in Names, CopyView(v, k, w) PROVE IInv'
  BY <1>6, CopyViewInd
<1>7. ASSUME NEW v \in Views, NEW w \in Views, NEW j \in Names, NEW k \in Names, CopyEntry(v, k, w, j)
      PROVE  IInv'
  BY <1>7, CopyEntryInd
<1>8. ASSUME NEW k \in Names, StoreLeaf(k) \/ StoreGroup(k) \/ RaiseTorn(k) PROVE IInv'
  BY <1>8, StoreLeafInd, StoreGroupInd, RaiseTornInd
<1>9. CASE Finish
  BY <1>9, FinishInd
<1>10. CASE Raise
  BY <1>10, RaiseInd
<1>11. ASSUME NEW v \in Views, NEW k \in Names, DelItem(v, k) \/ CreateGroup(v, k) \/ CreateFails(v, k)
       PROVE  IInv'
  BY <1>11, DelItemInd, CreateGroupInd, CreateFailsInd
<1>12. ASSUME NEW v \in Views, NEW s \in Aliases, CreateSoftlink(v, s[1], s[2]) PROVE IInv'
  BY <1>12, CreateSoftlinkInd, AliasesAssumption
<1>13. CASE UNCHANGED vars
  BY <1>13 DEF vars, IInv, TypeOK, RootStays, Blank, Calling, Frames, Agreement, IsOpen
<1> QED
  BY <1>1, <1>2, <1>3, <1>4, <1>5, <1>6, <1>7, <1>8, <1>9, <1>10, <1>11, <1>12, <1>13 DEF Next

(* The invariant holds. *)
LEMMA Inductive == Spec => []IInv
  BY InitIInv, NextIInv, PTL DEF Spec

-----------------------------------------------------------------------------

(* Every variable keeps its type, an open view is always one of a group,   *)
(* and a recursion is under way exactly during a call: no operation of     *)
(* archive.py leaves its Python state out of step with the file in kind.   *)
THEOREM Typing == Spec => []TypeOK
<1>1. IInv => TypeOK
  BY DEF IInv
<1> QED
  BY <1>1, Inductive, PTL

(* When clients do not link a key they already list, the five places that  *)
(* keep cached_keys by hand keep it in agreement with the group, for any   *)
(* number of views, names and objects, through failed writes and nested    *)
(* values, until another view changes the group.                           *)
THEOREM Coherence == ASSUME MaxListed = 1 PROVE Spec => []Coherent
<1>1. IInv => Coherent
  <2> SUFFICES ASSUME IInv, NEW v \in Views, IsOpen(v), v \notin foreign, NEW k \in Names
               PROVE  LET w == view[v] IN
                      /\ w.keys[k] <= 1
                      /\ Contains(w, k) => has_key(links, w.grp, k)
                      /\ has_key(links, w.grp, k) /\ ~Torn(w.grp, k) => Contains(w, k)
    BY DEF Coherent
  <2>1. AgreeAt(links, kind, data, view[v], k)
    BY DEF IInv, Agreement, Agree
  <2> QED
    BY <2>1 DEF AgreeAt, TornIn, Torn, Contains, has_key, Lexists
<1> QED
  BY <1>1, Inductive, PTL

-----------------------------------------------------------------------------
(* What a step may do.                                                     *)

(* During a call only the recursion moves. *)
LEMMA OnlyRecursion ==
    ASSUME Next, call # Idle
    PROVE  (\E k \in Names : StoreLeaf(k) \/ StoreGroup(k) \/ RaiseTorn(k)) \/ Finish \/ Raise
<1>1. ASSUME NEW v \in Views, OpenArchive(v) \/ Drop(v) PROVE FALSE
  BY <1>1 DEF OpenArchive, Drop, Ready
<1>2. ASSUME NEW v \in Views, NEW w \in Views, NEW k \in Names, GetRaw(v, k, w) PROVE FALSE
  BY <1>2 DEF GetRaw, Ready
<1>3. ASSUME NEW v \in Views, NEW k \in Names, NEW x, SetLeaf(v, k, x) PROVE FALSE
  BY <1>3 DEF SetLeaf, Ready
<1>4. ASSUME NEW v \in Views, NEW k \in Names, SetRejected(v, k) \/ SetTorn(v, k) PROVE FALSE
  BY <1>4 DEF SetRejected, SetTorn, Ready
<1>5. ASSUME NEW v \in Views, NEW k \in Names, NEW x, SetGroup(v, k, x) PROVE FALSE
  BY <1>5 DEF SetGroup, Ready
<1>6. ASSUME NEW v \in Views, NEW w \in Views, NEW k \in Names, CopyView(v, k, w) PROVE FALSE
  BY <1>5, <1>6 DEF CopyView
<1>7. ASSUME NEW v \in Views, NEW w \in Views, NEW j \in Names, NEW k \in Names, CopyEntry(v, k, w, j)
      PROVE  FALSE
  BY <1>3, <1>5, <1>7 DEF CopyEntry
<1>8. ASSUME NEW v \in Views, NEW k \in Names, DelItem(v, k) \/ CreateGroup(v, k) \/ CreateFails(v, k)
      PROVE  FALSE
  BY <1>8 DEF DelItem, CreateGroup, CreateFails, Ready
<1>9. ASSUME NEW v \in Views, NEW s \in Aliases, CreateSoftlink(v, s[1], s[2]) PROVE FALSE
  BY <1>9 DEF CreateSoftlink, Ready
<1> QED
  BY <1>1, <1>2, <1>3, <1>4, <1>5, <1>6, <1>7, <1>8, <1>9 DEF Next

(* The recursion writes under one key of its innermost group, which is     *)
(* not listed there when overwriting is forbidden.                         *)
LEMMA RecursionEffect ==
    ASSUME IInv, NEW k \in Names, StoreLeaf(k) \/ StoreGroup(k) \/ RaiseTorn(k)
    PROVE  /\ stack # <<>>
           /\ \E w2 : Effect(links, Top.sub, links', w2, k)
           /\ ~Refused(Top.sub, k)
           /\ view' = view /\ tag' = tag
           /\ \A m \in Nodes : m < call.first => data'[m] = data[m]
<1>0. stack # <<>> /\ ~Refused(Top.sub, k) /\ view' = view /\ tag' = tag
  BY DEF StoreLeaf, StoreGroup, RaiseTorn, Storing
<1>1. links \in Tables /\ Top.sub \in ViewType
  BY <1>0, TopFrame
<1> DEFINE c == Clean(links, Top.sub, k)
<1>2. ASSUME StoreLeaf(k) \/ RaiseTorn(k)
      PROVE  \E w2 : Effect(links, Top.sub, links', w2, k)
  <2>1. PICK n \in Unused : links' = LinkData(c.links, c.view, k, n)
    BY <1>2 DEF StoreLeaf, RaiseTorn
  <2>2. n \in Nodes
    BY DEF Unused
  <2>3. Effect(links, Top.sub, links', c.view, k)
    BY <1>1, <2>1, <2>2, LeafEffect
  <2> QED
    BY <2>3
<1>3. ASSUME StoreGroup(k)
      PROVE  \E w2 : Effect(links, Top.sub, links', w2, k)
  <2>1. PICK n \in Unused : links' = MakeGroup(c.links, c.view, k, n).links
    BY <1>3 DEF StoreGroup
  <2>2. n \in Nodes
    BY DEF Unused
  <2>3. Effect(links, Top.sub, links', MakeGroup(c.links, c.view, k, n).view, k)
    BY <1>1, <2>1, <2>2, GroupEffect
  <2> QED
    BY <2>3
<1>4. ASSUME NEW m \in Nodes, m < call.first PROVE data'[m] = data[m]
  <2>1. kind[m] # "none"
    BY <1>0, <1>4 DEF IInv, Calling
  <2>2. CASE StoreLeaf(k)
    <3>1. PICK n \in Unused : data' = [data EXCEPT ![n] = Top.todo[k].leaf]
      BY <2>2 DEF StoreLeaf
    <3>2. m # n
      BY <2>1 DEF Unused
    <3> QED
      BY <3>1, <3>2 DEF IInv, TypeOK
  <2>3. CASE StoreGroup(k) \/ RaiseTorn(k)
    BY <2>3 DEF StoreGroup, RaiseTorn
  <2> QED
    BY <2>2, <2>3
<1> QED
  BY <1>0, <1>2, <1>3, <1>4

(* Storing a nested value, in any number of steps and however it ends,     *)
(* changes no group, dataset or Format that was there before the call, the *)
(* group of the call's own key apart, which its first step relinked.       *)
THEOREM Locality == Spec => StoreIsLocal
<1> DEFINE Local ==
      call.type = "set" =>
         /\ view' = view
         /\ \A n \in 0..(call.first - 1) :
              links'[n] = links[n] /\ data'[n] = data[n] /\ tag'[n] = tag[n]
<1>1. ASSUME IInv, Next, call.type = "set" PROVE Local
  <2>1. call # Idle
    BY <1>1 DEF Idle
  <2>2. stack # <<>>
    BY <1>1, <2>1 DEF IInv, TypeOK
  <2>3. call.first \in Nodes /\ Top.sub.grp >= call.first /\ Top.sub \in ViewType /\ links \in Tables
    BY <1>1, <2>2, TopFrame DEF IInv, Calling, Owned
  <2>4. \A n \in 0..(call.first - 1) : n \in Nodes /\ n < call.first /\ n # Top.sub.grp
    <3>1. call.first \in Nat /\ Top.sub.grp \in Nat /\ \A n \in Nat : n < call.first => n \in Nodes
      BY <2>3, MaxNodesAssumption DEF Nodes, ViewType
    <3> QED
      BY <2>3, <3>1
  <2>5. ASSUME NEW k \in Names, StoreLeaf(k) \/ StoreGroup(k) \/ RaiseTorn(k) PROVE Local
    <3>1. PICK w2 : Effect(links, Top.sub, links', w2, k)
      BY <1>1, <2>5, RecursionEffect
    <3>2. view' = view /\ tag' = tag /\ \A m \in Nodes : m < call.first => data'[m] = data[m]
      BY <1>1, <2>5, RecursionEffect
    <3>3. \A n \in Nodes : n # Top.sub.grp => links'[n] = links[n]
      BY <2>3, <3>1 DEF Effect, Tables
    <3> QED
      BY <2>4, <3>2, <3>3
  <2>6. CASE Finish
    <3>1. UNCHANGED <<links, data, view>> /\ tag' = [tag EXCEPT ![Top.sub.grp] = Top.fmt]
      BY <2>6 DEF Finish
    <3> QED
      BY <1>1, <2>4, <3>1 DEF IInv, TypeOK
  <2>7. CASE Raise
    BY <2>7 DEF Raise, file
  <2> QED
    BY <1>1, <2>1, <2>5, <2>6, <2>7, OnlyRecursion
<1>2. IInv /\ [Next]_vars => [Local]_vars
  BY <1>1
<1> QED
  BY <1>2, Inductive, PTL DEF Spec, StoreIsLocal

(* What was stored is kept by a step, or given up. *)
Kept ==
    \A g \in Nodes, k \in Names :
       links[g][k].type = "hard" /\ ~Torn(g, k) /\ links'[g][k] # links[g][k] =>
         \E v \in Views : /\ view[v].grp = g
                          /\ GivesUp(v, k) \/ (v \in foreign /\ ~Contains(view[v], k))

(* A client's call keeps it when it touches a key that is not listed. *)
LEMMA ClientKeeps ==
    ASSUME IInv, NEW v \in Views, IsOpen(v), NEW k \in Names, NEW w2,
           Effect(links, view[v], links', w2, k),
           ~Contains(view[v], k)
    PROVE  Kept
<1>1. SUFFICES ASSUME NEW g \in Nodes, NEW j \in Names,
                      links[g][j].type = "hard", ~Torn(g, j), links'[g][j] # links[g][j]
               PROVE  view[v].grp = g /\ v \in foreign /\ ~Contains(view[v], j)
  BY DEF Kept
<1>2. g = view[v].grp /\ j = k
  BY <1>1 DEF Effect
<1>3. ASSUME v \notin foreign PROVE FALSE
  <2>1. AgreeAt(links, kind, data, view[v], k)
    BY <1>3 DEF IInv, Agreement, Agree
  <2> QED
    BY <1>1, <1>2, <2>1 DEF AgreeAt, TornIn, Torn, Contains
<1> QED
  BY <1>2, <1>3

(* The calls that give a key up touch no other. *)
LEMMA GivenUp ==
    ASSUME NEW v \in Views, NEW k \in Names, NEW w2,
           Effect(links, view[v], links', w2, k), GivesUp(v, k)
    PROVE  Kept
<1>1. \A g \in Nodes, j \in Names : links'[g][j] # links[g][j] => g = view[v].grp /\ j = k
  BY DEF Effect
<1> QED
  BY <1>1 DEF Kept

(* A step that changes no link keeps everything. *)
LEMMA SameLinks == ASSUME links' = links PROVE Kept
  BY DEF Kept

(* v[key] = an array or a scalar, whether its write fails or not *)
LEMMA SetDataKeeps ==
    ASSUME IInv, protect, NEW v \in Views, NEW k \in Names, NEW x, SetLeaf(v, k, x) \/ SetTorn(v, k)
    PROVE  Kept
<1>1. PICK n \in Unused :
        /\ Ready(v) /\ ~Contains(view[v], k)
        /\ links' = LinkData(Clean(links, view[v], k).links, Clean(links, view[v], k).view, k, n)
  BY DEF SetLeaf, SetTorn, Refused
<1>2. Effect(links, view[v], links', Clean(links, view[v], k).view, k)
  BY <1>1, ReadyView, LeafEffect DEF Ready, Unused
<1> QED
  BY <1>1, <1>2, ClientKeeps DEF Ready

(* A value that cannot be stored. *)
LEMMA SetRejectedKeeps ==
    ASSUME IInv, protect, NEW v \in Views, NEW k \in Names, SetRejected(v, k)
    PROVE  Kept
<1> DEFINE c == Clean(links, view[v], k)
<1>1. /\ Ready(v) /\ ~Contains(view[v], k)
      /\ links' = c.links \/ links' = unlink(c.links, view[v].grp, k, FALSE).links
  BY DEF SetRejected, Refused
<1>2. CASE links' = c.links
  BY <1>1, <1>2, SameLinks DEF Clean
<1>3. CASE links' = unlink(c.links, view[v].grp, k, FALSE).links
  <2>1. Effect(links, view[v], links', c.view, k)
    BY <1>1, <1>3, ReadyView, GoneEffect DEF Ready
  <2> QED
    BY <1>1, <2>1, ClientKeeps DEF Ready
<1> QED
  BY <1>1, <1>2, <1>3

(* v[key] = an object or a view *)
LEMMA SetGroupKeeps ==
    ASSUME IInv, protect, NEW v \in Views, NEW k \in Names, NEW x, SetGroup(v, k, x)
    PROVE  Kept
<1> DEFINE c == Clean(links, view[v], k)
<1>1. PICK n \in Unused :
        /\ Ready(v) /\ ~Contains(view[v], k)
        /\ links' = MakeGroup(c.links, c.view, k, n).links
  BY DEF SetGroup, Refused
<1>2. Effect(links, view[v], links', MakeGroup(c.links, c.view, k, n).view, k)
  BY <1>1, ReadyView, GroupEffect DEF Ready, Unused
<1> QED
  BY <1>1, <1>2, ClientKeeps DEF Ready

(* del v[key] *)
LEMMA DelItemKeeps ==
    ASSUME IInv, NEW v \in Views, NEW k \in Names, DelItem(v, k)
    PROVE  Kept
<1>1. Ready(v) /\ links' = Clean(links, view[v], k).links
  BY DEF DelItem
<1>2. Effect(links, view[v], links', Clean(links, view[v], k).view, k)
  BY <1>1, ReadyView, CleanEffect DEF Ready
<1> QED
  BY <1>2, GivenUp DEF GivesUp

(* v.create_group(key) *)
LEMMA CreateGroupKeeps ==
    ASSUME IInv, NEW v \in Views, NEW k \in Names, CreateGroup(v, k)
    PROVE  Kept
<1>1. PICK n \in Unused :
        /\ Ready(v)
        /\ links' = MakeGroup(links, view[v], k, n).links
  BY DEF CreateGroup
<1>2. Effect(links, view[v], links', MakeGroup(links, view[v], k, n).view, k)
  BY <1>1, ReadyView, MakeEffect DEF Ready, Unused
<1> QED
  BY <1>2, GivenUp DEF GivesUp

(* v.create_softlink(target_key, key) *)
LEMMA CreateSoftlinkKeeps ==
    ASSUME IInv, NEW v \in Views, NEW s \in Aliases, CreateSoftlink(v, s[1], s[2])
    PROVE  Kept
<1>0. s[1] \in Names /\ s[2] \in Names
  BY AliasesAssumption
<1>1. /\ Ready(v)
      /\ create_softlink(links, view[v].grp, s[1], s[2], TRUE, TRUE).ok
      /\ links' = create_softlink(links, view[v].grp, s[1], s[2], TRUE, TRUE).links
  BY DEF CreateSoftlink
<1>2. view[v] \in ViewType /\ view[v].grp \in Nodes /\ links \in Tables
  BY <1>1, ReadyView DEF Ready, ViewType
<1>3. Sets(links, links', view[v].grp, s[2], Soft(s[1]))
  BY <1>0, <1>1, <1>2, SoftlinkSets
<1>4. Effect(links, view[v], links', view[v], s[2])
  BY <1>2, <1>3 DEF Effect, Sets
<1>5. GivesUp(v, s[2])
  BY DEF GivesUp
<1> QED
  BY <1>0, <1>4, <1>5, GivenUp

(* Either of them, when it raises *)
LEMMA CreateFailsKeeps ==
    ASSUME IInv, NEW v \in Views, NEW k \in Names, CreateFails(v, k)
    PROVE  Kept
<1>1. Ready(v) /\ links' = unlink(links, view[v].grp, k, FALSE).links
  BY DEF CreateFails
<1>2. view[v] \in ViewType /\ view[v].grp \in Nodes /\ links \in Tables
  BY <1>1, ReadyView DEF Ready, ViewType
<1>3. Effect(links, view[v], links', view[v], k)
  BY <1>1, <1>2, UnlinkEffect
<1> QED
  BY <1>3, GivenUp DEF GivesUp

(* The steps of the recursion. *)
LEMMA RecursionKeeps ==
    ASSUME IInv, protect, NEW k \in Names, StoreLeaf(k) \/ StoreGroup(k) \/ RaiseTorn(k)
    PROVE  Kept
<1>1. stack # <<>> /\ ~Contains(Top.sub, k)
  BY RecursionEffect DEF Refused
<1>2. PICK w2 : Effect(links, Top.sub, links', w2, k)
  BY RecursionEffect
<1>3. AgreeAt(links, kind, data, Top.sub, k)
  BY <1>1, TopFrame DEF Owned, Agree
<1>4. ASSUME NEW g \in Nodes, NEW j \in Names, links'[g][j] # links[g][j]
      PROVE  ~(links[g][j].type = "hard" /\ ~Torn(g, j))
  <2>1. g = Top.sub.grp /\ j = k
    BY <1>2, <1>4 DEF Effect
  <2> QED
    BY <1>1, <1>3, <2>1 DEF AgreeAt, TornIn, Torn, Contains
<1> QED
  BY <1>4 DEF Kept

(* With do_not_overwrite_entries, no __setitem__ of any view, and no step  *)
(* of a recursion, replaces or removes what was stored under a key: it     *)
(* goes by del, by create_group or create_softlink on the key itself, or   *)
(* through a view that another one has left out of date.  Nothing is asked *)
(* of the clients: they may link keys they list as often as they like.     *)
THEOREM Protection == Spec => Protected
<1>1. ASSUME IInv, Next, protect PROVE Kept
  <2>1. ASSUME NEW v \in Views, OpenArchive(v) \/ Drop(v) PROVE Kept
    BY <2>1, SameLinks DEF OpenArchive, Drop, file
  <2>2. ASSUME NEW v \in Views, NEW w \in Views, NEW k \in Names, GetRaw(v, k, w) PROVE Kept
    BY <2>2, SameLinks DEF GetRaw, file
  <2>3. ASSUME NEW v \in Views, NEW k \in Names, NEW x, SetLeaf(v, k, x) PROVE Kept
    BY <1>1, <2>3, SetDataKeeps
  <2>4. ASSUME NEW v \in Views, NEW k \in Names, SetRejected(v, k) \/ SetTorn(v, k) PROVE Kept
    BY <1>1, <2>4, SetRejectedKeeps, SetDataKeeps
  <2>5. ASSUME NEW v \in Views, NEW k \in Names, NEW x, SetGroup(v, k, x) PROVE Kept
    BY <1>1, <2>5, SetGroupKeeps
  <2>6. ASSUME NEW v \in Views, NEW w \in Views, NEW k \in Names, CopyView(v, k, w) PROVE Kept
    BY <2>5, <2>6 DEF CopyView
  <2>7. ASSUME NEW v \in Views, NEW w \in Views, NEW j \in Names, NEW k \in Names, CopyEntry(v, k, w, j)
        PROVE  Kept
    BY <2>3, <2>5, <2>7 DEF CopyEntry
  <2>8. ASSUME NEW k \in Names, StoreLeaf(k) \/ StoreGroup(k) \/ RaiseTorn(k) PROVE Kept
    BY <1>1, <2>8, RecursionKeeps
  <2>9. CASE Finish \/ Raise
    BY <2>9, SameLinks DEF Finish, Raise, file
  <2>10. ASSUME NEW v \in Views, NEW k \in Names, DelItem(v, k) \/ CreateGroup(v, k) \/ CreateFails(v, k)
         PROVE  Kept
    BY <1>1, <2>10, DelItemKeeps, CreateGroupKeeps, CreateFailsKeeps
  <2>11. ASSUME NEW v \in Views, NEW s \in Aliases, CreateSoftlink(v, s[1], s[2]) PROVE Kept
    BY <1>1, <2>11, CreateSoftlinkKeeps
  <2> QED
    BY <1>1, <2>1, <2>2, <2>3, <2>4, <2>5, <2>6, <2>7, <2>8, <2>9, <2>10, <2>11 DEF Next
<1>2. IInv /\ [Next]_vars => [protect => Kept]_vars
  BY <1>1
<1> QED
  BY <1>2, Inductive, PTL DEF Spec, Protected, Kept
=============================================================================
