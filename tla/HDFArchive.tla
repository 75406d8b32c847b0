----------------------------- MODULE HDFArchive -----------------------------
(***************************************************************************)
(* The Python layer: HDFArchive, HDFArchiveGroup (python/h5/archive.py)    *)
(* and HDFArchiveGroupBasicLayer (archive_basic_layer.py) over h5::group.  *)
(*                                                                         *)
(* A view is a Python object bound to one group of the file.  It answers   *)
(* `key in view` from cached_keys, a list it filled when it was made and   *)
(* updates by hand; the file is asked only afterwards.  Several views may  *)
(* be bound to the same group.  Storing an object is a recursion: make a   *)
(* group, store each entry of the reduced object in it, and write the      *)
(* Format attribute last; an exception on the way leaves what was done.    *)
(*                                                                         *)
(* The order of cached_keys never matters to an operation, only which keys *)
(* it has and how often, so the list is a function from names to counts.   *)
(***************************************************************************)
EXTENDS GroupOps, Sequences

CONSTANTS Views,        \* Python variables that hold a view
          Leaves,       \* arrays and scalars: values of one dataset
          Fill,         \* what a dataset reads as when its write failed
          Objects,      \* records [type, fmt, items]: values with __reduce_to_dict__
          Registered,   \* formats known to h5.formats
          Untagged,     \* a group without Format attribute
          Aliases,      \* pairs <<target_key, key>> that clients softlink
          MaxListed     \* how often create_group, create_softlink may list a key (bound)

ASSUME AliasesAssumption == Aliases \subseteq Names \X Names

VARIABLES links,        \* link table of the file
          kind,         \* kind of each object: "none" until it is created
          data,         \* what each dataset holds
          tag,          \* Format attribute of each group
          view,         \* each view: its group and its cached keys
          call,         \* the client's __setitem__ under way, or Idle
          stack,        \* nested __setitem__ of groups, innermost first
          protect,      \* options['do_not_overwrite_entries']
          goal,         \* history: the object a group was made for, until a later
                        \* call, or a view among its own entries, changes that
          foreign       \* history: views whose group another view changed

file == <<links, kind, data, tag>>
history == <<goal, foreign>>
vars == <<links, kind, data, tag, view, call, stack, protect, goal, foreign>>

NoGoal == [type |-> "none"]
Idle == [type |-> "idle"]
Leaf(x) == [type |-> "leaf", leaf |-> x]

(* __reduce_to_dict__ gives a Format and entries that can be stored too. *)
ASSUME ObjectsAssumption ==
    \A x \in Objects :
        /\ x = [type |-> "object", fmt |-> x.fmt, items |-> x.items]
        /\ x.fmt # Untagged
        /\ DOMAIN x.items \subseteq Names
        /\ x.items \in [DOMAIN x.items -> Objects \cup {Leaf(y) : y \in Leaves}]

NoKeys == [k \in Names |-> 0]
Closed == [grp |-> NoNode, keys |-> NoKeys]

Init ==
    /\ links = [n \in Nodes |-> EmptyGroup]
    /\ kind = [n \in Nodes |-> IF n = Root THEN "group" ELSE "none"]
    /\ data = [n \in Nodes |-> Fill]
    /\ tag = [n \in Nodes |-> Untagged]
    /\ view = [v \in Views |-> Closed]
    /\ call = Idle
    /\ stack = <<>>
    /\ protect \in BOOLEAN
    /\ goal = [n \in Nodes |-> NoGoal]
    /\ foreign = {}

IsOpen(v) == view[v].grp # NoNode

Unused == {n \in Nodes : kind[n] = "none"}

(* The next object takes the lowest unused address (bound MaxNodes). *)
IsNext(n) == n \in Unused /\ \A m \in Unused : n <= m

-----------------------------------------------------------------------------
(* Reading. *)

(* A new view of g lists the links of g, provided they all lead somewhere. *)
OpenAt(lnk, g) ==
    [grp |-> g, keys |-> [k \in Names |-> IF k \in keys(lnk, g) THEN 1 ELSE 0]]

(* `key in view` *)
Contains(w, k) == w.keys[k] > 0

Unreadable == [type |-> "unreadable"]

(* The value of object n: an array or scalar, the object rebuilt from the  *)
(* entries of a group with a Format, or what Bare(m) stands for when m is  *)
(* a group without one.                                                    *)
ValueOr(lnk, knd, n, Bare(_)) ==
    LET value[d \in 0..MaxNodes] ==
          [m \in Nodes |->
            IF knd[m] = "data" THEN Leaf(data[m])
            ELSE IF ~listable(lnk, m) \/ d = 0 THEN Unreadable
            ELSE IF tag[m] = Untagged /\ Bare(m) # NoGoal THEN Bare(m)
            ELSE LET items == [k \in keys(lnk, m) |-> value[d - 1][Resolve(lnk, m, k)]]
                 IN  IF \E k \in keys(lnk, m) : items[k] = Unreadable
                       THEN Unreadable
                       ELSE [type |-> "object", fmt |-> tag[m], items |-> items]]
    IN  value[MaxNodes][n]

(* view[key] gives a view of a group without Format. *)
ViewOf(w) == [type |-> "view", grp |-> w.grp, keys |-> w.keys]
Value(lnk, knd, n) == ValueOr(lnk, knd, n, LAMBDA m : ViewOf(OpenAt(lnk, m)))

(* view[key]: an exception if the key is not cached, or leads nowhere. *)
Read(lnk, knd, w, k) ==
    IF Contains(w, k) /\ (has_subgroup(lnk, knd, w.grp, k) \/ has_dataset(lnk, knd, w.grp, k))
      THEN Value(lnk, knd, Resolve(lnk, w.grp, k))
      ELSE Unreadable

(* Seeded fault: the copy forgets the subgroups of its source. *)
ItemsDataOnly(lnk, knd, w) ==
    [k \in {k \in Names : Contains(w, k) /\ has_dataset(lnk, knd, w.grp, k)} |-> Read(lnk, knd, w, k)]

(* list(view.items()) *)
Items(lnk, knd, w) == [k \in {k \in Names : Contains(w, k)} |-> Read(lnk, knd, w, k)]

-----------------------------------------------------------------------------
(* The steps of __setitem__ on a view w, as the table and the view left.   *)

(* _clean_key, when key is cached: unlink it and forget one occurrence. *)
Clean(lnk, w, k) ==
    IF Contains(w, k)
      THEN [links |-> unlink(lnk, w.grp, k, FALSE).links, view |-> [w EXCEPT !.keys[k] = @ - 1]]
      ELSE [links |-> lnk, view |-> w]

(* BasicLayer.create_group: appends the key in any case. *)
MakeGroup(lnk, w, k, n) ==
    [links |-> create_group(lnk, w.grp, k, n, TRUE, TRUE).links, view |-> [w EXCEPT !.keys[k] = @ + 1]]

(* Seeded fault: the view of the new group is one of its parent. *)
SubGroupOfParent(m, k) == m.view

(* HDFArchiveGroup(self, key), after MakeGroup gave m. *)
SubGroup(m, k) == OpenAt(m.links, Resolve(m.links, m.view.grp, k))

(* Seeded fault: _write does not keep the list in step with the file. *)
ListedLater(w, k) == w

(* The dataset is linked under its key by h5_write_bare; the key is appended *)
(* by _write afterwards, unless it is there.                               *)
LinkData(lnk, w, k, n) == create_dataset(lnk, w.grp, k, n, TRUE).links
Listed(w, k) == IF Contains(w, k) THEN w ELSE [w EXCEPT !.keys[k] = 1]

(* Seeded fault: the option is never looked at. *)
NeverRefused(w, k) == FALSE

(* do_not_overwrite_entries *)
Refused(w, k) == protect /\ Contains(w, k)

NewObject(n, what) == kind' = [kind EXCEPT ![n] = what]

(* A frame of the recursion: the view of the group being filled, the       *)
(* entries still to store and the Format to write at the end.  The entries *)
(* are those of an object x, or those the view x has once the new group n  *)
(* is there.                                                               *)
Frame(sub, todo, fmt) == [sub |-> sub, todo |-> todo, fmt |-> fmt]

FrameFor(m, k, n, x) ==
    IF x.type = "object"
      THEN Frame(SubGroup(m, k), x.items, x.fmt)
      ELSE Frame(SubGroup(m, k), Items(m.links, [kind EXCEPT ![n] = "group"], x), Untagged)

(* History of a client's call that changes its group through view v. *)
Spoilt(g) == [n \in Nodes |-> IF g \in Below(links, n) THEN NoGoal ELSE goal[n]]
Estrange(v) == foreign' = foreign \cup {w \in Views \ {v} : view[w].grp = view[v].grp}
Touch(v) == goal' = Spoilt(view[v].grp) /\ Estrange(v)

GoalOf(x) == IF x.type = "object" /\ x.fmt # Untagged THEN x ELSE NoGoal

(* What a copy of source x must read as: a group is the set of its entries.*)
Deep(lnk, knd, n) == ValueOr(lnk, knd, n, LAMBDA m : NoGoal)
Wanted(v, x) ==
    IF x.type = "view" /\ view[v].grp \notin Below(links, x.grp)
      THEN [type |-> "object", fmt |-> Untagged,
            items |-> [k \in {k \in Names : Contains(x, k)} |->
                         IF Resolve(links, x.grp, k) = NoNode THEN Unreadable
                         ELSE Deep(links, kind, Resolve(links, x.grp, k))]]
      ELSE NoGoal

Ready(v) == call = Idle /\ IsOpen(v)

-----------------------------------------------------------------------------
(* Making and dropping views. *)

(* HDFArchive(file), once more in the same program or by another part. *)
OpenArchive(v) ==
    /\ call = Idle /\ ~IsOpen(v)
    /\ listable(links, Root)
    /\ view' = [view EXCEPT ![v] = OpenAt(links, Root)]
    /\ UNCHANGED <<file, call, stack, protect, history>>

(* w = v.get_raw(key) *)
GetRaw(v, k, w) ==
    /\ Ready(v) /\ ~IsOpen(w)
    /\ Contains(view[v], k)
    /\ has_subgroup(links, kind, view[v].grp, k)
    /\ LET g == Resolve(links, view[v].grp, k)
       IN  /\ listable(links, g)
           /\ view' = [view EXCEPT ![w] = OpenAt(links, g)]
    /\ UNCHANGED <<file, call, stack, protect, history>>

(* del v, as a Python variable *)
Drop(v) ==
    /\ Ready(v)
    /\ view' = [view EXCEPT ![v] = Closed]
    /\ foreign' = foreign \ {v}
    /\ UNCHANGED <<file, call, stack, protect, goal>>

-----------------------------------------------------------------------------
(* v[key] = an array or a scalar. *)

(* The dataset is written and listed. *)
SetLeaf(v, k, x) ==
    \E n \in Unused :
        /\ Ready(v) /\ IsNext(n)
        /\ ~Refused(view[v], k)
        /\ LET c == Clean(links, view[v], k)
           IN  /\ links' = LinkData(c.links, c.view, k, n)
               /\ view' = [view EXCEPT ![v] = Listed(c.view, k)]
        /\ NewObject(n, "data")
        /\ data' = [data EXCEPT ![n] = x]
        /\ Touch(v)
        /\ UNCHANGED <<tag, call, stack, protect>>

(* The value cannot be stored: h5_write_bare raises before it touches the  *)
(* file, but after _clean_key has removed what was stored under key.  Or   *)
(* the file cannot take it: h5_write_bare or create_group raises when it   *)
(* has unlinked the key, which may be linked though it is not listed.      *)
SetRejected(v, k) ==
    /\ Ready(v)
    /\ ~Refused(view[v], k)
    /\ LET c == Clean(links, view[v], k)
       IN  /\ links' \in {c.links, unlink(c.links, view[v].grp, k, FALSE).links}
           /\ view' = [view EXCEPT ![v] = c.view]
    /\ Touch(v)
    /\ UNCHANGED <<kind, data, tag, call, stack, protect>>

(* H5Dwrite fails after H5Dcreate2: the link stays, the key is not listed. *)
SetTorn(v, k) ==
    \E n \in Unused :
        /\ Ready(v) /\ IsNext(n)
        /\ ~Refused(view[v], k)
        /\ LET c == Clean(links, view[v], k)
           IN  /\ links' = LinkData(c.links, c.view, k, n)
               /\ view' = [view EXCEPT ![v] = c.view]
        /\ NewObject(n, "data")
        /\ Touch(v)
        /\ UNCHANGED <<data, tag, call, stack, protect>>

-----------------------------------------------------------------------------
(* v[key] = an object, or the view of another group. *)

(* The target group is made and listed, a view of it is opened, and the    *)
(* entries are taken from the reduced object, or read from the source.     *)
SetGroup(v, k, x) ==
    \E n \in Unused :
        /\ Ready(v) /\ IsNext(n)
        /\ ~Refused(view[v], k)
        /\ LET c == Clean(links, view[v], k)
               m == MakeGroup(c.links, c.view, k, n)
           IN  /\ links' = m.links
               /\ view' = [view EXCEPT ![v] = m.view]
               /\ stack' = <<FrameFor(m, k, n, x)>>
        /\ NewObject(n, "group")
        /\ call' = [type |-> "set", first |-> n, want |-> Wanted(v, x)]
        /\ goal' = [Spoilt(view[v].grp) EXCEPT ![n] = GoalOf(x)]
        /\ Estrange(v)
        /\ UNCHANGED <<data, tag, protect>>

(* v[key] = w.  When w is v itself, its list has lost and regained the key *)
(* by the time it is read.                                                 *)
CopyView(v, k, w) ==
    /\ IsOpen(w)
    /\ SetGroup(v, k, ViewOf(IF v = w THEN MakeGroup(links, Clean(links, view[v], k).view, k, Root).view
                                      ELSE view[w]))

(* v[key] = w[j]: the entry is read in full before the call. *)
CopyEntry(v, k, w, j) ==
    /\ IsOpen(w) /\ Contains(view[w], j)
    /\ LET n == Resolve(links, view[w].grp, j)
       IN  \/ /\ has_dataset(links, kind, view[w].grp, j)
              /\ SetLeaf(v, k, data[n])
           \/ /\ has_subgroup(links, kind, view[w].grp, j)
              /\ Value(links, kind, n) # Unreadable
              /\ SetGroup(v, k, Value(links, kind, n))

Top == Head(stack)

Plain == {Leaf(x) : x \in Leaves \cup {Fill}}

(* The entries of a source are read before the first is stored. *)
Storing == stack # <<>> /\ (\A k \in DOMAIN Top.todo : Top.todo[k] # Unreadable)

Remaining(k) == [j \in DOMAIN Top.todo \ {k} |-> Top.todo[j]]

(* SubGroup[k] = an array or a scalar *)
StoreLeaf(k) ==
    \E n \in Unused :
        /\ Storing /\ IsNext(n)
        /\ k \in DOMAIN Top.todo
        /\ Top.todo[k] \in Plain
        /\ ~Refused(Top.sub, k)
        /\ LET c == Clean(links, Top.sub, k)
           IN  /\ links' = LinkData(c.links, c.view, k, n)
               /\ stack' = <<Frame(Listed(c.view, k), Remaining(k), Top.fmt)>> \o Tail(stack)
        /\ NewObject(n, "data")
        /\ data' = [data EXCEPT ![n] = Top.todo[k].leaf]
        /\ UNCHANGED <<tag, view, call, protect, history>>

(* SubGroup[k] = an object, or the view of a group *)
StoreGroup(k) ==
    \E n \in Unused :
        /\ Storing /\ IsNext(n)
        /\ k \in DOMAIN Top.todo
        /\ Top.todo[k] \notin Plain
        /\ ~Refused(Top.sub, k)
        /\ LET c == Clean(links, Top.sub, k)
               m == MakeGroup(c.links, c.view, k, n)
           IN  /\ links' = m.links
               /\ stack' = <<FrameFor(m, k, n, Top.todo[k]),
                             Frame(m.view, Remaining(k), Top.fmt)>> \o Tail(stack)
        /\ goal' = [(IF GoalOf(Top.todo[k]) = NoGoal THEN Spoilt(Top.sub.grp) ELSE goal)
                      EXCEPT ![n] = GoalOf(Top.todo[k])]
        /\ NewObject(n, "group")
        /\ UNCHANGED <<data, tag, view, call, protect, foreign>>

(* Seeded fault: the Format is written while entries are still to come. *)
FinishEarly ==
    /\ Storing
    /\ Top.fmt \in Registered \cup {Untagged}
    /\ tag' = [tag EXCEPT ![Top.sub.grp] = Top.fmt]
    /\ stack' = Tail(stack)
    /\ call' = IF Tail(stack) = <<>> THEN Idle ELSE call
    /\ UNCHANGED <<links, kind, data, view, protect, history>>

(* Seeded fault: the Format is written without get_format_info. *)
FinishUnregistered ==
    /\ Storing
    /\ DOMAIN Top.todo = {}
    /\ tag' = [tag EXCEPT ![Top.sub.grp] = Top.fmt]
    /\ stack' = Tail(stack)
    /\ call' = IF Tail(stack) = <<>> THEN Idle ELSE call
    /\ UNCHANGED <<links, kind, data, view, protect, history>>

(* The group is filled: write_attributes, then back to the caller.  The    *)
(* copy of a view has no Format to write.                                  *)
Finish ==
    /\ Storing
    /\ DOMAIN Top.todo = {}
    /\ Top.fmt \in Registered \cup {Untagged}
    /\ tag' = [tag EXCEPT ![Top.sub.grp] = Top.fmt]
    /\ stack' = Tail(stack)
    /\ call' = IF Tail(stack) = <<>> THEN Idle ELSE call
    /\ UNCHANGED <<links, kind, data, view, protect, history>>

(* What a failed call leaves without a Format is nobody's object. *)
Abandon ==
    /\ stack' = <<>>
    /\ call' = Idle
    /\ goal' = [n \in Nodes |-> IF tag[n] = Untagged THEN NoGoal ELSE goal[n]]

(* An exception: __reduce_to_dict__ fails, an entry cannot be read or      *)
(* stored, the Format is not registered or cannot be written.  It ends the *)
(* whole recursion.  The groups being filled are new and the keys still to *)
(* store have no link there, so a creation that fails unlinks nothing.     *)
Raise ==
    /\ stack # <<>>
    /\ Abandon
    /\ UNCHANGED <<file, view, protect, foreign>>

(* The write of an entry fails after its dataset was made. *)
RaiseTorn(k) ==
    \E n \in Unused :
        /\ Storing /\ IsNext(n)
        /\ k \in DOMAIN Top.todo
        /\ Top.todo[k] \in Plain
        /\ ~Refused(Top.sub, k)
        /\ LET c == Clean(links, Top.sub, k)
           IN  links' = LinkData(c.links, c.view, k, n)
        /\ NewObject(n, "data")
        /\ Abandon
        /\ UNCHANGED <<data, tag, view, protect, foreign>>

-----------------------------------------------------------------------------
(* The other operations of a view. *)

(* del v[key]: KeyError unless the key is cached. *)
DelItem(v, k) ==
    /\ Ready(v)
    /\ Contains(view[v], k)
    /\ LET c == Clean(links, view[v], k)
       IN  /\ links' = c.links
           /\ view' = [view EXCEPT ![v] = c.view]
    /\ Touch(v)
    /\ UNCHANGED <<kind, data, tag, call, stack, protect>>

Relinks(v, k) == view[v].keys[k] < MaxListed

(* v.create_group(key), called by the client *)
CreateGroup(v, k) ==
    \E n \in Unused :
        /\ Ready(v) /\ IsNext(n) /\ Relinks(v, k)
        /\ LET m == MakeGroup(links, view[v], k, n)
           IN  /\ links' = m.links
               /\ view' = [view EXCEPT ![v] = m.view]
        /\ NewObject(n, "group")
        /\ Touch(v)
        /\ UNCHANGED <<data, tag, call, stack, protect>>

(* v.create_softlink(target_key, key); it raises when the target is absent. *)
CreateSoftlink(v, target_key, k) ==
    /\ Ready(v) /\ Relinks(v, k)
    /\ LET r == create_softlink(links, view[v].grp, target_key, k, TRUE, TRUE)
       IN  /\ r.ok
           /\ links' = r.links
           /\ view' = [view EXCEPT ![v].keys[k] = @ + 1]
    /\ Touch(v)
    /\ UNCHANGED <<kind, data, tag, call, stack, protect>>

(* Either of them, when the library cannot create: the key was unlinked    *)
(* before, and the exception leaves the list as it was.                    *)
CreateFails(v, k) ==
    /\ Ready(v) /\ Relinks(v, k)
    /\ links' = unlink(links, view[v].grp, k, FALSE).links
    /\ Touch(v)
    /\ UNCHANGED <<kind, data, tag, view, call, stack, protect>>

Next ==
    \/ \E v \in Views : OpenArchive(v) \/ Drop(v)
    \/ \E v, w \in Views, k \in Names : GetRaw(v, k, w)
    \/ \E v \in Views, k \in Names, x \in Leaves : SetLeaf(v, k, x)
    \/ \E v \in Views, k \in Names : SetRejected(v, k) \/ SetTorn(v, k)
    \/ \E v \in Views, k \in Names, x \in Objects : SetGroup(v, k, x)
    \/ \E v, w \in Views, k \in Names : CopyView(v, k, w)
    \/ \E v, w \in Views, j, k \in Names : CopyEntry(v, k, w, j)
    \/ \E k \in Names : StoreLeaf(k) \/ StoreGroup(k) \/ RaiseTorn(k)
    \/ Finish
    \/ Raise
    \/ \E v \in Views, k \in Names : DelItem(v, k) \/ CreateGroup(v, k) \/ CreateFails(v, k)
    \/ \E v \in Views, s \in Aliases : CreateSoftlink(v, s[1], s[2])

Spec == Init /\ [][Next]_vars

-----------------------------------------------------------------------------

(* A failed write leaves a link to a dataset that was never filled. *)
Torn(g, k) == links[g][k] \in {Hard(n) : n \in {n \in Nodes : data[n] = Fill /\ kind[n] = "data"}}

Keys == [Names -> Nat]

TypeOK ==
    /\ links \in [Nodes -> [Names -> Links]]
    /\ kind \in [Nodes -> {"none", "group", "data"}]
    /\ data \in [Nodes -> Leaves \cup {Fill}]
    /\ tag \in [Nodes -> Registered \cup {Untagged}]
    /\ view \in [Views -> [grp : Nodes \cup {NoNode}, keys : Keys]]
    /\ \A v \in Views : IsOpen(v) => kind[view[v].grp] = "group"
    /\ (call = Idle) <=> (stack = <<>>)

(* What a view lists and what its group holds agree, as long as nobody     *)
(* else changed the group: a listed key is linked and listed once, and a   *)
(* link is listed unless its write failed (archive_basic_layer.py 79-105   *)
(* keeps the cache by hand in five places).                                *)
Coherent ==
    \A v \in Views : IsOpen(v) /\ v \notin foreign =>
        LET w == view[v] IN
        \A k \in Names :
            /\ w.keys[k] <= 1
            /\ Contains(w, k) => has_key(links, w.grp, k)
            /\ has_key(links, w.grp, k) /\ ~Torn(w.grp, k) => Contains(w, k)

(* The Format attribute is a commit mark: a group that has one reads back  *)
(* as the very object that was stored, at any depth and whatever failed on *)
(* the way, unless a later call changed it (archive.py 176-182).  Objects  *)
(* with a view among their entries are left out: the entry becomes a group *)
(* without Format, and reads back as a view of that one.                   *)
CommitMark ==
    \A n \in Nodes :
        tag[n] # Untagged /\ goal[n] # NoGoal => Value(links, kind, n) = goal[n]

(* When archive[key] = view has nothing left to store, the new group reads *)
(* as the old one did at the call, entry by entry and at any depth, even   *)
(* when the copy replaced the source itself (archive.py 189-193).  A view  *)
(* that contains the target is left out: it changes while it is copied.    *)
CopyFaithful ==
    Len(stack) = 1 /\ DOMAIN Top.todo = {} /\ call.want # NoGoal =>
        Deep(links, kind, call.first) = call.want

(* Storing a nested value, to its end or to an exception, changes nothing  *)
(* but the group the call made under its key, through whatever view.       *)
StoreIsLocal ==
    [][call.type = "set" =>
         /\ view' = view
         /\ \A n \in 0..(call.first - 1) :
              links'[n] = links[n] /\ data'[n] = data[n] /\ tag'[n] = tag[n]]_vars

(* The calls that give a key up whatever the options: del, and the two     *)
(* that replace it without a look at the list (archive_basic_layer 87-93). *)
GivesUp(v, k) ==
    \/ DelItem(v, k) \/ CreateGroup(v, k) \/ CreateFails(v, k)
    \/ \E s \in Aliases : s[2] = k /\ CreateSoftlink(v, s[1], k)

(* With do_not_overwrite_entries no __setitem__, of an array, an object or *)
(* a copy, at any depth and however it ends, takes away what is stored     *)
(* under a key, but through a view that another one has left out of date   *)
(* and that does not list the key (archive.py 148).                        *)
Protected ==
    [][protect =>
        \A g \in Nodes, k \in Names :
           links[g][k].type = "hard" /\ ~Torn(g, k) /\ links'[g][k] # links[g][k] =>
             \E v \in Views : /\ view[v].grp = g
                              /\ GivesUp(v, k) \/ (v \in foreign /\ ~Contains(view[v], k))]_vars

(* A view lists every key once, "like a dictionary" (archive.py 125), an   *)
(* overwritten one included (test/python/archive.py 202).                  *)
NoDuplicateKeys == \A v \in Views, k \in Names : view[v].keys[k] <= 1
=============================================================================
