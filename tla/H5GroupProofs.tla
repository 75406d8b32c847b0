--------------------------- MODULE H5GroupProofs ---------------------------
(***************************************************************************)
(* What clients of h5::group can and cannot do to a file, proved for any   *)
(* numbers of objects, names and group variables.                          *)
(*                                                                         *)
(* The inductive invariant is TypeOK and Ordered: an object is created     *)
(* after the group that its one hard link is in, and the later of two      *)
(* objects has the higher address.  That is why hard links form no cycle.  *)
(***************************************************************************)
EXTENDS H5Group, GroupOpsProofs

(* Used addresses come first, an unused one has no links; a hard link      *)
(* leads from a used address to a higher one that is used, and is the only *)
(* hard link to it.                                                        *)
Ordered ==
    /\ kind[Root] = "group"
    /\ \A m, n \in Nodes : kind[m] = "none" /\ m <= n => kind[n] = "none"
    /\ \A n \in Nodes : kind[n] = "none" => \A k \in Names : links[n][k].type # "hard"
    /\ \A g \in Nodes, k \in Names : links[g][k].type = "hard" =>
          g < links[g][k].node /\ kind[links[g][k].node] # "none"
    /\ \A g, p \in Nodes, j, k \in Names :
          links[g][j].type = "hard" /\ links[p][k] = links[g][j] => g = p /\ j = k

Inv == TypeOK /\ Ordered

-----------------------------------------------------------------------------
(* What a step does to the file: nothing, ... *)
Idle == links' = links /\ kind' = kind /\ (outcome' # "ok" => handle' = handle)

(* ... one link is taken away or becomes a soft link, by an operation that *)
(* returns or in which the library has failed, ...                         *)
Relinked(g, k, l) ==
    /\ l.type # "hard"
    /\ links' = SetLink(links, g, k, l)
    /\ kind' = kind
    /\ handle' = handle
    /\ outcome' # "refused" /\ (outcome' = "failed" => l = NoLink)
    /\ \E h \in Handles : Live(h) /\ g = handle[h]

(* ... or the next object is made and linked under a name of a group.      *)
Made(g, k, n, what) ==
    /\ IsNext(n)
    /\ kind[g] = "group"
    /\ links' = SetLink(links, g, k, Hard(n))
    /\ kind' = [kind EXCEPT ![n] = what]
    /\ outcome' = "ok"

Changed ==
    \/ Idle
    \/ \E g \in Nodes, k \in Names, l \in Links : Relinked(g, k, l)
    \/ \E g, n \in Nodes, k \in Names, what \in {"group", "data"} : Made(g, k, n, what)

(* A variable that is open is open on a group. *)
LEMMA HandleIsGroup ==
    ASSUME TypeOK, NEW h \in Handles, Live(h)
    PROVE  handle[h] \in Nodes /\ kind[handle[h]] = "group"
  BY DEF TypeOK, Live

(* What the end of a creation leaves, whether it threw or not. *)
LEMMA FinishCreated ==
    ASSUME TypeOK, NEW g \in Nodes, kind[g] = "group", NEW k \in Names, NEW n \in Unused,
           IsNext(n), NEW what \in {"group", "data"}, NEW r, NEW able \in BOOLEAN,
           Finish(r, n, what, able), Creates(r, links, g, k, Hard(n), able),
           NEW h \in Handles, Live(h), g = handle[h], ~r.ok => handle' = handle
    PROVE  Made(g, k, n, what) \/ Relinked(g, k, NoLink) \/ Idle
  <1>1. n \in Nodes /\ n # NoNode
    BY NoNodeOutside DEF Unused
  <1>2. CASE r.ok
    BY <1>1, <1>2 DEF Finish, Made, Creates
  <1>3. CASE ~r.ok /\ r.links = links
    BY <1>3 DEF Finish, Idle, Creates
  <1>4. CASE ~r.ok /\ r.links # links
    <2>1. r.links = SetLink(links, g, k, NoLink) /\ ~able
      BY <1>4 DEF Creates
    <2>2. outcome' = "failed" /\ links' = r.links /\ kind' = kind
      BY <1>4, <2>1 DEF Finish
    <2> QED
      BY <1>4, <2>1, <2>2, SomeLinks DEF Relinked
  <1> QED
    BY <1>2, <1>3, <1>4

(* Every step is one of these, whatever operation it is.                   *)
LEMMA Changes ==
    ASSUME TypeOK, [Next]_vars
    PROVE  Changed
  <1>t. links \in Tables
    BY DEF TypeOK, Tables
  <1>1. ASSUME NEW h \in Handles, OpenRoot(h) \/ Drop(h) \/ List(h) PROVE Changed
    BY <1>1 DEF OpenRoot, Drop, List, Changed, Idle
  <1>2. ASSUME NEW h \in Handles, NEW h2 \in Handles, NEW k \in Names, OpenGroup(h, k, h2)
        PROVE  Changed
    BY <1>2 DEF OpenGroup, Changed, Idle
  <1>3. ASSUME NEW h \in Handles, NEW h2 \in Handles, NEW k \in Names, NEW d \in BOOLEAN,
               CreateGroup(h, k, h2, d)
        PROVE  Changed
    <2>1. PICK n \in Unused, able \in BOOLEAN :
            /\ Live(h) /\ IsNext(n)
            /\ Finish(create_group(links, handle[h], k, n, d, able), n, "group", able)
            /\ ~create_group(links, handle[h], k, n, d, able).ok => handle' = handle
      BY <1>3 DEF CreateGroup
    <2>2. n \in Nodes
      BY DEF Unused
    <2>3. handle[h] \in Nodes /\ kind[handle[h]] = "group"
      BY <2>1, HandleIsGroup
    <2> DEFINE r == create_group(links, handle[h], k, n, d, able)
    <2>4. Creates(r, links, handle[h], k, Hard(n), able)
      BY <1>t, <2>2, <2>3, CreateGroupResult
    <2>5. Finish(r, n, "group", able) /\ (~r.ok => handle' = handle)
      BY <2>1
    <2> HIDE DEF r
    <2>6. Made(handle[h], k, n, "group") \/ Relinked(handle[h], k, NoLink) \/ Idle
      BY <2>1, <2>3, <2>4, <2>5, FinishCreated
    <2> QED
      BY <2>2, <2>3, <2>6, SomeLinks DEF Changed
  <1>4. ASSUME NEW h \in Handles, NEW k \in Names, CreateDataset(h, k) PROVE Changed
    <2>1. PICK n \in Unused, able \in BOOLEAN :
            /\ Live(h) /\ IsNext(n)
            /\ Finish(create_dataset(links, handle[h], k, n, able), n, "data", able)
            /\ handle' = handle
      BY <1>4 DEF CreateDataset
    <2>2. n \in Nodes
      BY DEF Unused
    <2>3. handle[h] \in Nodes /\ kind[handle[h]] = "group"
      BY <2>1, HandleIsGroup
    <2> DEFINE r == create_dataset(links, handle[h], k, n, able)
    <2>4. Creates(r, links, handle[h], k, Hard(n), able)
      BY <1>t, <2>2, <2>3, CreateDatasetResult
    <2>5. Finish(r, n, "data", able) /\ (~r.ok => handle' = handle)
      BY <2>1
    <2> HIDE DEF r
    <2>6. Made(handle[h], k, n, "data") \/ Relinked(handle[h], k, NoLink) \/ Idle
      BY <2>1, <2>3, <2>4, <2>5, FinishCreated
    <2> QED
      BY <2>2, <2>3, <2>6, SomeLinks DEF Changed
  <1>5. ASSUME NEW h \in Handles, NEW k \in Names, OpenDataset(h, k) PROVE Changed
    BY <1>5 DEF OpenDataset, Changed, Idle
  <1>6. ASSUME NEW h \in Handles, NEW t \in Names, NEW k \in Names, NEW d \in BOOLEAN,
               CreateSoftlink(h, t, k, d)
        PROVE  Changed
    <2>1. handle[h] \in Nodes
      BY <1>6, HandleIsGroup DEF CreateSoftlink
    <2>0. PICK able \in BOOLEAN :
            Finish(create_softlink(links, handle[h], t, k, d, able), NoNode, "none", able)
      BY <1>6 DEF CreateSoftlink
    <2> DEFINE r == create_softlink(links, handle[h], t, k, d, able)
    <2>2. Creates(r, links, handle[h], k, Soft(t), able)
      BY <1>t, <2>1, CreateSoftlinkResult
    <2>3. Finish(r, NoNode, "none", able) /\ Live(h) /\ handle' = handle
      BY <1>6, <2>0 DEF CreateSoftlink
    <2> HIDE DEF r
    <2>4. Soft(t) \in Links /\ Soft(t).type # "hard"
      BY SomeLinks
    <2>5. kind' = kind /\ links' = r.links
      BY <2>3 DEF Finish
    <2>6. CASE r.ok
      <3>1. Relinked(handle[h], k, Soft(t))
        BY <2>2, <2>3, <2>4, <2>5, <2>6 DEF Finish, Relinked, Creates
      <3> QED
        BY <2>1, <2>4, <3>1 DEF Changed
    <2>7. CASE ~r.ok /\ r.links = links
      BY <2>3, <2>5, <2>7 DEF Idle, Changed
    <2>8. CASE ~r.ok /\ r.links # links
      <3>1. r.links = SetLink(links, handle[h], k, NoLink) /\ ~able
        BY <2>2, <2>8 DEF Creates
      <3>2. outcome' = "failed"
        BY <2>3, <2>8, <3>1 DEF Finish
      <3>3. Relinked(handle[h], k, NoLink)
        BY <2>3, <2>5, <3>1, <3>2, SomeLinks DEF Relinked
      <3> QED
        BY <2>1, <3>3, SomeLinks DEF Changed
    <2> QED
      BY <2>6, <2>7, <2>8
  <1>7. ASSUME NEW h \in Handles, NEW k \in Names, NEW e \in BOOLEAN, Unlink(h, k, e)
        PROVE  Changed
    <2>1. handle[h] \in Nodes
      BY <1>7, HandleIsGroup DEF Unlink
    <2> DEFINE r == unlink(links, handle[h], k, e)
    <2>2. /\ r.ok \in BOOLEAN
          /\ ~r.ok => r.links = links
          /\ r.links = links \/ r.links = SetLink(links, handle[h], k, NoLink)
      BY <1>t, <2>1, UnlinkResult, Zenon
    <2>3. Finish(r, NoNode, "none", TRUE) /\ Live(h) /\ handle' = handle
      BY <1>7 DEF Unlink
    <2> HIDE DEF r
    <2>4. NoLink \in Links /\ NoLink.type # "hard"
      BY SomeLinks
    <2>5. Relinked(handle[h], k, NoLink) \/ Idle
      BY <2>2, <2>3, <2>4 DEF Finish, Relinked, Idle
    <2> QED
      BY <2>1, <2>4, <2>5 DEF Changed
  <1>8. CASE UNCHANGED vars
    BY <1>8 DEF vars, Changed, Idle
  <1>9. ASSUME NEW h \in Handles, NEW k \in Names, FailUnlink(h, k) PROVE Changed
    BY <1>9 DEF FailUnlink, Changed, Idle
  <1> QED
    BY <1>1, <1>2, <1>3, <1>4, <1>5, <1>6, <1>7, <1>8, <1>9 DEF Next

-----------------------------------------------------------------------------
(* A link and an object never change what stands elsewhere.                *)
LEMMA MadeKind ==
    ASSUME TypeOK, NEW g \in Nodes, NEW k \in Names, NEW n \in Nodes,
           NEW what \in {"group", "data"}, Made(g, k, n, what)
    PROVE  /\ kind[n] = "none" /\ \A m \in Nodes : kind[m] = "none" => n <= m
           /\ kind'[n] = what /\ \A m \in Nodes : m # n => kind'[m] = kind[m]
           /\ kind' \in [Nodes -> {"none", "group", "data"}]
  BY DEF Made, IsNext, Unused, TypeOK

(* The table stays typed. *)
LEMMA TablesStep ==
    ASSUME TypeOK, Changed
    PROVE  /\ links' \in Tables
           /\ kind' \in [Nodes -> {"none", "group", "data"}]
           /\ \A m \in Nodes : kind[m] = "group" => kind'[m] = "group"
  <1>1. links \in Tables /\ kind \in [Nodes -> {"none", "group", "data"}]
    BY DEF TypeOK, Tables
  <1>2. CASE Idle
    BY <1>1, <1>2 DEF Idle
  <1>3. ASSUME NEW g \in Nodes, NEW k \in Names, NEW l \in Links, Relinked(g, k, l)
        PROVE  links' \in Tables /\ kind' = kind
    BY <1>1, <1>3, SetLinkTyping DEF Relinked
  <1>4. ASSUME NEW g \in Nodes, NEW n \in Nodes, NEW k \in Names,
               NEW what \in {"group", "data"}, Made(g, k, n, what)
        PROVE  /\ links' \in Tables
               /\ kind' \in [Nodes -> {"none", "group", "data"}]
               /\ \A m \in Nodes : kind[m] = "group" => kind'[m] = "group"
    <2>1. Hard(n) \in Links
      BY SomeLinks
    <2>2. links' \in Tables
      BY <1>1, <1>4, <2>1, SetLinkTyping DEF Made
    <2> QED
      BY <1>4, <2>2, MadeKind
  <1> QED
    BY <1>1, <1>2, <1>3, <1>4 DEF Changed

(* Group variables are open on groups. *)
LEMMA HandlesStep ==
    ASSUME TypeOK, kind[Root] = "group", [Next]_vars
    PROVE  /\ handle' \in [Handles -> Nodes \cup {NoNode}]
           /\ \A x \in Handles : handle'[x] # NoNode => kind'[handle'[x]] = "group"
  <1> DEFINE Good == /\ handle' \in [Handles -> Nodes \cup {NoNode}]
                     /\ \A x \in Handles : handle'[x] # NoNode => kind'[handle'[x]] = "group"
  <1>1. /\ handle \in [Handles -> Nodes \cup {NoNode}]
        /\ \A x \in Handles : handle[x] # NoNode =>
              handle[x] \in Nodes /\ kind[handle[x]] = "group"
    BY DEF TypeOK, Live
  <1>2. \A m \in Nodes : kind[m] = "group" => kind'[m] = "group"
    BY Changes, TablesStep
  <1>3. ASSUME UNCHANGED handle PROVE Good
    BY <1>1, <1>2, <1>3
  (* One variable h is opened on a group m. *)
  <1>4. ASSUME NEW h \in Handles, NEW m \in Nodes, handle' = [handle EXCEPT ![h] = m],
               kind'[m] = "group"
        PROVE  Good
    BY <1>1, <1>2, <1>4
  <1>5. ASSUME NEW h \in Handles, OpenRoot(h) \/ Drop(h) \/ List(h) PROVE Good
    <2>1. CASE OpenRoot(h)
      <3>1. handle' = [handle EXCEPT ![h] = Root] /\ kind' = kind
        BY <2>1 DEF OpenRoot
      <3> QED
        BY <1>4, <3>1, RootIsNode
    <2>2. CASE Drop(h)
      <3>1. handle' = [handle EXCEPT ![h] = NoNode]
        BY <2>2 DEF Drop
      <3> QED
        BY <1>1, <1>2, <3>1
    <2>3. CASE List(h)
      BY <1>3, <2>3 DEF List
    <2> QED
      BY <1>5, <2>1, <2>2, <2>3
  <1>6. ASSUME NEW h \in Handles, NEW h2 \in Handles, NEW k \in Names, OpenGroup(h, k, h2)
        PROVE  Good
    <2>1. CASE has_subgroup(links, kind, handle[h], k)
      <3> DEFINE m == Resolve(links, handle[h], k)
      <3>1. m \in Nodes /\ kind[m] = "group"
        BY <2>1 DEF has_subgroup
      <3>2. handle' = [handle EXCEPT ![h2] = m]
        BY <1>6, <2>1 DEF OpenGroup
      <3> HIDE DEF m
      <3> QED
        BY <1>2, <1>4, <3>1, <3>2
    <2>2. CASE ~has_subgroup(links, kind, handle[h], k)
      BY <1>3, <1>6, <2>2 DEF OpenGroup
    <2> QED
      BY <2>1, <2>2
  <1>7. ASSUME NEW h \in Handles, NEW h2 \in Handles, NEW k \in Names, NEW d \in BOOLEAN,
               CreateGroup(h, k, h2, d)
        PROVE  Good
    <2>1. PICK n \in Unused, able \in BOOLEAN :
            /\ Finish(create_group(links, handle[h], k, n, d, able), n, "group", able)
            /\ handle' = IF create_group(links, handle[h], k, n, d, able).ok
                            THEN [handle EXCEPT ![h2] = n] ELSE handle
      BY <1>7 DEF CreateGroup
    <2> DEFINE r == create_group(links, handle[h], k, n, d, able)
    <2>2. n \in Nodes /\ n # NoNode
      BY NoNodeOutside DEF Unused
    <2>3. CASE r.ok
      <3>1. kind' = [kind EXCEPT ![n] = "group"] /\ handle' = [handle EXCEPT ![h2] = n]
        BY <2>1, <2>2, <2>3 DEF Finish
      <3>2. kind'[n] = "group"
        BY <2>2, <3>1 DEF TypeOK
      <3> QED
        BY <1>4, <2>2, <3>1, <3>2
    <2>4. CASE ~r.ok
      BY <1>3, <2>1, <2>4
    <2> QED
      BY <2>3, <2>4
  <1>8. ASSUME NEW h \in Handles, NEW k \in Names,
               CreateDataset(h, k) \/ OpenDataset(h, k) \/ FailUnlink(h, k)
        PROVE  Good
    BY <1>3, <1>8 DEF CreateDataset, OpenDataset, FailUnlink
  <1>9. ASSUME NEW h \in Handles, NEW t \in Names, NEW k \in Names, NEW d \in BOOLEAN,
               CreateSoftlink(h, t, k, d)
        PROVE  Good
    BY <1>3, <1>9 DEF CreateSoftlink
  <1>10. ASSUME NEW h \in Handles, NEW k \in Names, NEW e \in BOOLEAN, Unlink(h, k, e)
         PROVE  Good
    BY <1>3, <1>10 DEF Unlink
  <1>11. ASSUME UNCHANGED vars PROVE Good
    BY <1>3, <1>11 DEF vars
  <1>12. Good
    <2> HIDE DEF Good
    <2> QED
      <3>1. CASE \E h \in Handles : OpenRoot(h) \/ Drop(h) \/ List(h)
        BY <3>1, <1>5
      <3>2. CASE \E h, h2 \in Handles, k \in Names : OpenGroup(h, k, h2)
        BY <3>2, <1>6
      <3>3. CASE \E h, h2 \in Handles, k \in Names, d \in BOOLEAN : CreateGroup(h, k, h2, d)
        BY <3>3, <1>7
      <3>4. CASE \E h \in Handles, k \in Names :
                    CreateDataset(h, k) \/ OpenDataset(h, k) \/ FailUnlink(h, k)
        BY <3>4, <1>8
      <3>5. CASE \E h \in Handles, t, k \in Names, d \in BOOLEAN : CreateSoftlink(h, t, k, d)
        BY <3>5, <1>9
      <3>6. CASE \E h \in Handles, k \in Names, e \in BOOLEAN : Unlink(h, k, e)
        BY <3>6, <1>10
      <3> QED
        BY <3>1, <3>2, <3>3, <3>4, <3>5, <3>6, <1>11 DEF Next
  <1> QED
    BY <1>12 DEF Good

(* The outcome of every step is one of the three. *)
LEMMA OutcomeStep ==
    ASSUME TypeOK, [Next]_vars
    PROVE  outcome' \in {"ok", "refused", "failed"}
  BY DEF TypeOK, Next, vars, OpenRoot, Drop, List, OpenGroup, CreateGroup, CreateDataset,
         OpenDataset, CreateSoftlink, Unlink, FailUnlink, Finish

(* Types are kept by every step that the file can make. *)
LEMMA TypeStep ==
    ASSUME Inv, [Next]_vars
    PROVE  TypeOK'
  <1>1. /\ links' \in Tables
        /\ kind' \in [Nodes -> {"none", "group", "data"}]
        /\ kind'[Root] = "group"
    BY Changes, TablesStep, RootIsNode DEF Inv, Ordered
  <1> QED
    BY <1>1, HandlesStep, OutcomeStep DEF Inv, Ordered, TypeOK, Live, Tables

(* So is the order of addresses. *)
LEMMA OrderedStep ==
    ASSUME Inv, Changed
    PROVE  Ordered'
  <1>1. links \in Tables /\ kind \in [Nodes -> {"none", "group", "data"}]
    BY DEF Inv, TypeOK, Tables
  <1>2. CASE Idle
    BY <1>2 DEF Inv, Ordered, Idle
  (* The hard links are those that were there, but for the one that went.  *)
  <1>3. ASSUME NEW g \in Nodes, NEW k \in Names, NEW l \in Links, Relinked(g, k, l)
        PROVE  Ordered'
    <2>1. kind' = kind
      BY <1>3 DEF Relinked
    <2>2. \A m \in Nodes, j \in Names :
            links'[m][j].type = "hard" => links'[m][j] = links[m][j]
      BY <1>1, <1>3, SetLinkValue DEF Relinked
    <2> QED
      BY <2>1, <2>2 DEF Inv, Ordered
  (* The new object n has no links; everything that is used is below it.   *)
  <1>4. ASSUME NEW g \in Nodes, NEW n \in Nodes, NEW k \in Names,
               NEW what \in {"group", "data"}, Made(g, k, n, what)
        PROVE  Ordered'
    <2>1. /\ kind[n] = "none" /\ \A m \in Nodes : kind[m] = "none" => n <= m
          /\ kind'[n] = what /\ \A m \in Nodes : m # n => kind'[m] = kind[m]
      BY <1>4, MadeKind DEF Inv
    <2>2. /\ links'[g][k] = Hard(n) /\ Hard(n).type = "hard" /\ Hard(n).node = n
          /\ \A m \in Nodes, j \in Names : m # g \/ j # k => links'[m][j] = links[m][j]
      BY <1>1, <1>4, SetLinkValue, SomeLinks DEF Made
    <2>3. kind[g] = "group" /\ g # n
      BY <1>4, <2>1 DEF Made
    <2>4. Nodes \subseteq Nat
      BY DEF Nodes
    <2>5. g < n
      <3>1. n <= g => kind[g] = "none"
        BY <2>1 DEF Inv, Ordered
      <3> QED
        BY <2>3, <2>4, <3>1
    <2>6. kind'[Root] = "group"
      BY <2>1, RootIsNode DEF Inv, Ordered
    <2>7. ASSUME NEW m1 \in Nodes, NEW m2 \in Nodes, kind'[m1] = "none", m1 <= m2
          PROVE  kind'[m2] = "none"
      <3>1. m1 # n /\ kind[m1] = "none"
        BY <2>1, <2>7
      <3>2. kind[m2] = "none" /\ n <= m1
        BY <2>1, <2>7, <3>1 DEF Inv, Ordered
      <3>3. m2 # n
        BY <2>4, <2>7, <3>1, <3>2
      <3> QED
        BY <2>1, <3>2, <3>3
    <2>8. ASSUME NEW m \in Nodes, kind'[m] = "none", NEW j \in Names
          PROVE  links'[m][j].type # "hard"
      <3>1. m # n /\ kind[m] = "none" /\ m # g
        BY <2>1, <2>3, <2>8
      <3> QED
        BY <2>2, <3>1 DEF Inv, Ordered
    <2>9. ASSUME NEW m \in Nodes, NEW j \in Names, links'[m][j].type = "hard"
          PROVE  m < links'[m][j].node /\ kind'[links'[m][j].node] # "none"
      <3>1. CASE m = g /\ j = k
        BY <2>1, <2>2, <2>5, <3>1
      <3>2. CASE m # g \/ j # k
        <4>1. links'[m][j] = links[m][j]
          BY <2>2, <3>2
        <4>2. m < links[m][j].node /\ kind[links[m][j].node] # "none"
          BY <2>9, <4>1 DEF Inv, Ordered
        <4>3. links[m][j].node \in Nodes
          BY <1>1, <2>9, <4>1, TablesHardInNodes DEF HardInNodes
        <4>4. kind'[links[m][j].node] # "none"
          BY <2>1, <4>2, <4>3
        <4> QED
          BY <4>1, <4>2, <4>4
      <3> QED
        BY <3>1, <3>2
    <2>10. ASSUME NEW m \in Nodes, NEW j \in Names, links'[m][j] = Hard(n)
           PROVE  m = g /\ j = k
      <3> SUFFICES ASSUME m # g \/ j # k PROVE FALSE
        OBVIOUS
      <3>1. links[m][j] = Hard(n)
        BY <2>2, <2>10
      <3>2. kind[n] # "none"
        BY <2>2, <3>1 DEF Inv, Ordered
      <3> QED
        BY <2>1, <3>2
    <2>11. ASSUME NEW m1 \in Nodes, NEW m2 \in Nodes, NEW j1 \in Names, NEW j2 \in Names,
                  links'[m1][j1].type = "hard", links'[m2][j2] = links'[m1][j1]
           PROVE  m1 = m2 /\ j1 = j2
      <3>1. CASE links'[m1][j1] = Hard(n)
        BY <2>10, <2>11, <3>1
      <3>2. CASE links'[m1][j1] # Hard(n)
        <4>1. links'[m1][j1] = links[m1][j1] /\ links'[m2][j2] = links[m2][j2]
          BY <2>2, <2>11, <3>2
        <4> QED
          BY <2>11, <4>1 DEF Inv, Ordered
      <3> QED
        BY <3>1, <3>2
    <2> QED
      BY <2>6, <2>7, <2>8, <2>9, <2>11 DEF Ordered
  <1> QED
    BY <1>2, <1>3, <1>4 DEF Changed

(* An empty file satisfies the invariant. *)
LEMMA InvInit ==
    ASSUME Init
    PROVE  Inv
  <1>1. EmptyGroup \in [Names -> Links] /\ \A k \in Names : EmptyGroup[k].type # "hard"
    BY SomeLinks DEF EmptyGroup
  <1>2. TypeOK
    BY <1>1, NoNodeOutside DEF Init, TypeOK, Live
  <1>3. Ordered
    <2>1. \A m, n \in Nodes : kind[m] = "none" /\ m <= n => kind[n] = "none"
      BY DEF Init, Nodes, Root
    <2>2. \A n \in Nodes, k \in Names : links[n][k].type # "hard"
      BY <1>1 DEF Init
    <2> QED
      BY <2>1, <2>2, RootIsNode DEF Init, Ordered
  <1> QED
    BY <1>2, <1>3 DEF Inv

(* The invariant is inductive. *)
LEMMA InvStep ==
    ASSUME Inv, [Next]_vars
    PROVE  Inv'
  <1>1. Changed
    BY Changes DEF Inv
  <1> QED
    BY <1>1, TypeStep, OrderedStep DEF Inv

(* The invariant holds of every behaviour. *)
LEMMA Invariance == Spec => []Inv
  <1>1. Init => Inv
    BY InvInit
  <1>2. Inv /\ [Next]_vars => Inv'
    BY InvStep
  <1> QED
    BY <1>1, <1>2, PTL DEF Spec

-----------------------------------------------------------------------------
(* Types, and a group variable is open on a group as long as it lives,     *)
(* whatever becomes of the group's own link (group.cpp 96-120).            *)
THEOREM Typing == Spec => []TypeOK
  <1>1. Inv => TypeOK
    BY DEF Inv
  <1> QED
    BY <1>1, Invariance, PTL

(* Whatever lies below a child has a higher address than its parent.       *)
LEMMA OrderedForest ==
    ASSUME Inv
    PROVE  Forest
  <1>1. ASSUME NEW g \in Nodes, NEW k \in Names, links[g][k].type = "hard"
        PROVE  links[g][k].node # Root /\ g \notin Below(links, links[g][k].node)
    <2> DEFINE c == links[g][k].node
               S == {n \in Nodes : g < n}
    <2>1. links \in Tables
      BY DEF Inv, TypeOK, Tables
    <2>2. c \in Nodes /\ g < c
      BY <1>1, <2>1, TablesHardInNodes DEF HardInNodes, Inv, Ordered
    <2>3. Nodes \subseteq Nat
      BY DEF Nodes
    <2>4. c # Root
      BY <2>2, <2>3 DEF Root
    <2>5. ASSUME NEW n \in S, NEW j \in Names, links[n][j].type = "hard"
          PROVE  links[n][j].node \in S
      <3>1. n \in Nodes /\ g < n
        OBVIOUS
      <3>2. links[n][j].node \in Nodes /\ n < links[n][j].node
        BY <2>1, <2>5, <3>1, TablesHardInNodes DEF HardInNodes, Inv, Ordered
      <3>3. g < links[n][j].node
        <4> DEFINE y == links[n][j].node
        <4>1. g \in Nat /\ n \in Nat /\ y \in Nat
          BY <2>3, <3>1, <3>2
        <4>2. g < n /\ n < y
          BY <3>1, <3>2
        <4> HIDE DEF y
        <4>3. g < y
          BY <4>1, <4>2
        <4> QED
          BY <4>3 DEF y
      <3> QED
        BY <3>2, <3>3
    <2>6. c \in S /\ g \notin S
      BY <2>2, <2>3
    <2> HIDE DEF c, S
    <2>7. Below(links, c) \subseteq S
      BY <2>5, <2>6, BelowWithin
    <2> QED
      BY <2>4, <2>6, <2>7 DEF c
  <1> QED
    BY <1>1 DEF Forest, Inv, Ordered

(* The objects of a file form a tree for as long as groups are created,    *)
(* replaced and unlinked (group.cpp 83-160), also where group objects stay *)
(* open on what was cut off.                                               *)
THEOREM Trees == Spec => []Forest
  <1>1. Inv => Forest
    BY OrderedForest
  <1> QED
    BY <1>1, Invariance, PTL

(* What an operation refuses changes nothing: create_softlink (group.cpp   *)
(* 122-138) looks first.  When the library fails, a create_group (109-120),*)
(* create_softlink or create_dataset (150-158) has unlinked one name of an *)
(* open group at most.                                                     *)
THEOREM CleanThrows == Spec => ThrowsCleanly
  <1>1. ASSUME Inv, [Next]_vars PROVE CleanThrow
    <2>1. Changed
      BY <1>1, Changes DEF Inv
    <2>2. CASE Idle
      BY <2>2 DEF Idle, CleanThrow
    <2>3. ASSUME NEW g \in Nodes, NEW k \in Names, NEW l \in Links, Relinked(g, k, l)
          PROVE  CleanThrow
      <3>1. PICK h \in Handles : Live(h) /\ g = handle[h]
        BY <2>3 DEF Relinked
      <3>2. outcome' # "refused" /\ kind' = kind /\ handle' = handle
        BY <2>3 DEF Relinked
      <3>3. outcome' = "failed" => links' = SetLink(links, handle[h], k, NoLink)
        BY <2>3, <3>1 DEF Relinked
      <3> QED
        BY <3>1, <3>2, <3>3 DEF CleanThrow
    <2>4. ASSUME NEW g \in Nodes, NEW n \in Nodes, NEW k \in Names,
                 NEW what \in {"group", "data"}, Made(g, k, n, what)
          PROVE  CleanThrow
      BY <2>4 DEF Made, CleanThrow
    <2> QED
      BY <2>1, <2>2, <2>3, <2>4 DEF Changed
  <1>2. Inv /\ [Next]_vars => [CleanThrow]_vars
    BY <1>1
  <1> QED
    BY <1>2, Invariance, PTL DEF Spec, ThrowsCleanly
=============================================================================
