------------------------------- MODULE H5File -------------------------------
(***************************************************************************)
(* Files, the handles that keep them open, and what a crash leaves:        *)
(* h5::file (c++/h5/file.cpp), the parent_file of h5::group, and the       *)
(* lifetimes of HDFArchive and HDFArchiveGroup (python/h5/archive.py).     *)
(*                                                                         *)
(* A content is a number: 0 is an empty file, and each change of any file  *)
(* gives it the next number, so two contents are equal exactly if they     *)
(* come from the same changes.  work is what reads through a handle give,  *)
(* disk is what the operating system has.  Every object of the program is  *)
(* made once, in the order 1, 2, ... (bound MaxObjects).                   *)
(*                                                                         *)
(* A constructor that throws changes nothing and is no step, but that of   *)
(* an archive in mode 'w', which has removed the old file by then.         *)
(***************************************************************************)
EXTENDS Naturals, FiniteSets

CONSTANTS Paths,        \* names of files
          MaxFiles,     \* bound: files (inodes) that exist at the same time
          MaxObjects,   \* bound: objects of the program, ever
          MaxChanges,   \* bound: changes of files, ever
          MaxCrashes    \* bound: crashes

ASSUME PathsAssumption == IsFiniteSet(Paths)
ASSUME BoundsAssumption == {MaxFiles, MaxObjects, MaxChanges, MaxCrashes} \subseteq Nat

VARIABLES entry,        \* the directory: the file each path leads to
          mode,         \* how the library has each file open
          work, disk,   \* contents of each file
          obj,          \* the program's objects
          made,         \* how many have been made
          image,        \* the bytes as_buffer returned last
          pending,      \* paths for which HDFArchive(path, 'w') is under way
          changes, crashes,
          acked         \* history: since the last change a call has returned that
                        \* promises what the file holds

vars == <<entry, mode, work, disk, obj, made, image, pending, changes, crashes, acked>>

Files == 0..(MaxFiles - 1)

NoFile == MaxFiles

Objs == 1..MaxObjects

NoObj == 0

Contents == 0..MaxChanges

Empty == 0

Torn == MaxChanges + 1      \* neither the last flushed nor the current content

Absent == MaxChanges + 2

(* An object the program has not made yet, or that has been destroyed. *)
Nothing == [type |-> "none", file |-> NoFile, parent |-> NoObj, named |-> FALSE]

(* The objects with HDF5 identifiers: h5::file, h5::group with its         *)
(* parent_file, the _group of an HDFArchive or HDFArchiveGroup.  An        *)
(* archive whose `with` block has been left has none.                      *)
Handle == {"file", "group", "archive", "view"}

Holders(ob, f) == {o \in Objs : ob[o].type \in Handle /\ ob[o].file = f}

Held(f) == Holders(obj, f) # {}

(* A file without a name that nobody has open is gone. *)
Unused == {f \in Files : ~Held(f) /\ \A p \in Paths : entry[p] # f}

IsNext(f) == f \in Unused /\ \A g \in Unused : f <= g

Init ==
    /\ entry = [p \in Paths |-> NoFile]
    /\ mode = [f \in Files |-> "closed"]
    /\ work = [f \in Files |-> Empty]
    /\ disk = [f \in Files |-> Empty]
    /\ obj = [o \in Objs |-> Nothing]
    /\ made = 0
    /\ image = Absent
    /\ pending = {}
    /\ changes = 0
    /\ crashes = 0
    /\ acked = [f \in Files |-> TRUE]

-----------------------------------------------------------------------------
(* Objects come into being. *)

Make(type, f, parent) ==
    /\ made < MaxObjects
    /\ made' = made + 1
    /\ obj' = [obj EXCEPT ![made + 1] =
                 [type |-> type, file |-> f, parent |-> parent, named |-> TRUE]]

(* Seeded fault: the root archive keeps itself alive. *)
RootParentItself == made + 1

(* "if not self is parent: self.parent = parent": only views of subgroups  *)
(* keep their parent.                                                      *)
RootParent == NoObj

MakeRoot(type, f) == Make(type, f, IF type = "archive" THEN RootParent ELSE NoObj)

(* H5Fopen.  A file that is open already is shared, in the mode it has,    *)
(* and cannot be shared for writing when it was opened for reading.        *)
Reopen(p, m, type) ==
    LET f == entry[p]
    IN  /\ f # NoFile
        /\ MakeRoot(type, f)
        /\ \/ mode[f] = "closed" /\ disk[f] # Torn /\ mode' = [mode EXCEPT ![f] = m]
           \/ mode[f] = "rw" /\ UNCHANGED mode
           \/ mode[f] = "r" /\ m = "r" /\ UNCHANGED mode
        /\ UNCHANGED <<entry, work, disk, image, changes, crashes, acked>>

(* A new file: until the first flush there is nothing on disk to open. *)
Fresh(f, m, c, d) ==
    /\ mode' = [mode EXCEPT ![f] = m]
    /\ work' = [work EXCEPT ![f] = c]
    /\ disk' = [disk EXCEPT ![f] = d]
    /\ acked' = [acked EXCEPT ![f] = FALSE]
    /\ UNCHANGED <<image, changes, crashes>>

(* H5Fcreate under a name that leads nowhere now. *)
Create(p, type) ==
    \E f \in Unused :
        /\ IsNext(f)
        /\ entry' = [entry EXCEPT ![p] = f]
        /\ MakeRoot(type, f)
        /\ Fresh(f, "rw", Empty, Torn)

(* Seeded fault: a file is emptied under the objects that have it open. *)
TruncateOpen(p, type) ==
    /\ entry[p] # NoFile
    /\ MakeRoot(type, entry[p])
    /\ Fresh(entry[p], "rw", Empty, Torn)
    /\ UNCHANGED entry

(* H5Fcreate with H5F_ACC_TRUNC, which the library refuses for a file that *)
(* it has open.                                                            *)
Truncate(p, type) ==
    /\ entry[p] # NoFile
    /\ mode[entry[p]] = "closed"
    /\ MakeRoot(type, entry[p])
    /\ Fresh(entry[p], "rw", Empty, Torn)
    /\ UNCHANGED entry

(* file(name, mode) *)
Open(p, m, type) ==
    \/ m = "r" /\ Reopen(p, "r", type)
    \/ m = "w" /\ entry[p] = NoFile /\ Create(p, type)
    \/ m = "w" /\ Truncate(p, type)
    \/ m = "a" /\ entry[p] = NoFile /\ Create(p, type)
    \/ m = "a" /\ Reopen(p, "rw", type)
    \/ m = "e" /\ entry[p] = NoFile /\ Create(p, type)

OpenFile(p, m) == Open(p, m, "file") /\ UNCHANGED pending

(* HDFArchive(path, open_flag), but for 'w'. *)
OpenArchive(p, m) == m \in {"r", "a"} /\ Open(p, m, "archive") /\ UNCHANGED pending

(* HDFArchive(path, 'w') first removes the name, so that whoever has the   *)
(* old file open keeps it, and ignores an error of os.remove ...           *)
RemoveOld(p) ==
    /\ p \notin pending
    /\ pending' = pending \cup {p}
    /\ entry' \in {entry, [entry EXCEPT ![p] = NoFile]}
    /\ UNCHANGED <<mode, work, disk, obj, made, image, changes, crashes, acked>>

(* ... and then makes the new file, or raises: by then the old one is gone.*)
MakeNew(p) ==
    /\ p \in pending
    /\ pending' = pending \ {p}
    /\ Open(p, "w", "archive")

MakeNewFails(p) ==
    /\ p \in pending
    /\ pending' = pending \ {p}
    /\ UNCHANGED <<entry, mode, work, disk, obj, made, image, changes, crashes, acked>>

(* Memory files have no name to be found by, but the library tells them    *)
(* apart by the name they are given, and they are all given the same one,  *)
(* "MemoryBuffer".                                                         *)
InMemory == {f \in Files : mode[f] = "memory"}

(* file(), and HDFArchive(): the library creates no file twice. *)
OpenMemory(type) ==
    \E f \in Unused :
        /\ InMemory = {}
        /\ IsNext(f)
        /\ MakeRoot(type, f)
        /\ Fresh(f, "memory", Empty, Torn)
        /\ UNCHANGED <<entry, pending>>

(* file(buf, size), and HDFArchive(bytes): H5Fopen opens the bytes, or     *)
(* shares the file that is open under the name already.                    *)
OpenImage(type) ==
    /\ image # Absent
    /\ \/ \E f \in Unused :
              /\ InMemory = {}
              /\ IsNext(f)
              /\ MakeRoot(type, f)
              /\ Fresh(f, "memory", image, image)
       \/ \E f \in InMemory :
              /\ MakeRoot(type, f)
              /\ UNCHANGED <<mode, work, disk, image, changes, crashes, acked>>
    /\ UNCHANGED <<entry, pending>>

(* A copy of a file or group, group(file), group.get_file(), and           *)
(* group.open_group(key): another handle.                                  *)
Share(o, type) ==
    /\ obj[o].named
    /\ obj[o].type \in {"file", "group"}
    /\ Make(type, obj[o].file, NoObj)
    /\ UNCHANGED <<entry, mode, work, disk, image, pending, changes, crashes, acked>>

(* HDFArchiveGroup(parent, key), by [] or get_raw. *)
View(o) ==
    /\ obj[o].named
    /\ obj[o].type \in {"archive", "view"}
    /\ Make("view", obj[o].file, o)
    /\ UNCHANGED <<entry, mode, work, disk, image, pending, changes, crashes, acked>>

-----------------------------------------------------------------------------
(* Objects are used. *)

Uses(o, types, f) == obj[o].named /\ obj[o].type \in types /\ obj[o].file = f

Writable(f) == mode[f] \in {"rw", "memory"}

NewContent(f) ==
    /\ Writable(f)
    /\ changes < MaxChanges
    /\ changes' = changes + 1
    /\ work' = [work EXCEPT ![f] = changes + 1]

(* Seeded fault: the item is not flushed. *)
SetItemUnflushed(o, f) ==
    /\ Uses(o, {"archive", "view"}, f)
    /\ NewContent(f)
    /\ acked' = [acked EXCEPT ![f] = TRUE]
    /\ UNCHANGED <<entry, mode, disk, obj, made, image, pending, crashes>>

(* __setitem__ through to its _flush(). *)
SetItem(o, f) ==
    /\ Uses(o, {"archive", "view"}, f)
    /\ NewContent(f)
    /\ disk' = [disk EXCEPT ![f] = work'[f]]
    /\ acked' = [acked EXCEPT ![f] = TRUE]
    /\ UNCHANGED <<entry, mode, obj, made, image, pending, crashes>>

(* Everything that changes the file without a flush: __delitem__,          *)
(* create_group, create_softlink, a __setitem__ that raises on its way,    *)
(* and h5_write to a file or group.                                        *)
Change(o, f) ==
    /\ Uses(o, Handle, f)
    /\ NewContent(f)
    /\ acked' = [acked EXCEPT ![f] = FALSE]
    /\ UNCHANGED <<entry, mode, disk, obj, made, image, pending, crashes>>

(* file::flush() *)
Flush(o, f) ==
    /\ Uses(o, {"file"}, f)
    /\ disk' = [disk EXCEPT ![f] = work[f]]
    /\ acked' = [acked EXCEPT ![f] = TRUE]
    /\ UNCHANGED <<entry, mode, work, obj, made, image, pending, changes, crashes>>

(* file::as_buffer(), and HDFArchive.as_bytes(): flush, then copy.         *)
AsBuffer(o, f) ==
    /\ Uses(o, {"file", "archive"}, f)
    /\ disk' = [disk EXCEPT ![f] = work[f]]
    /\ acked' = [acked EXCEPT ![f] = TRUE]
    /\ image' = disk'[f]
    /\ UNCHANGED <<entry, mode, work, obj, made, pending, changes, crashes>>

-----------------------------------------------------------------------------
(* Objects go away. *)

(* An object lives as long as it has a name or another object keeps it as  *)
(* its parent.                                                             *)
Living(ob) ==
    LET live[n \in 0..MaxObjects] ==
          IF n = 0 THEN {o \in Objs : ob[o].type # "none"}
          ELSE LET before == live[n - 1]
               IN  {o \in before : ob[o].named \/ \E c \in before : ob[c].parent = o}
    IN  live[MaxObjects]

Swept(ob, living) == [o \in Objs |-> IF o \in living THEN ob[o] ELSE Nothing]

(* Files of the archives that go away, and what their __del__ flushes. *)
Dying(ob, living) == {ob[o].file : o \in {o \in Objs \ living : ob[o].type = "archive"}}

Flushed(ob, living) == Dying(ob, living)

(* Files that nobody holds when the program's objects become ob. *)
Closed(ob) == {f \in Files : Held(f) /\ Holders(ob, f) = {}}

Named(f) == \E p \in Paths : entry[p] = f

(* References of ob are given up: what nothing refers to is destroyed, its *)
(* identifiers are released, and the library writes and closes the files   *)
(* that nobody holds any more.  A file without a name is gone then.  The   *)
(* program has flushed some files; its users are promised those they left  *)
(* on purpose, those whose archive goes away and those that are closed.    *)
LetGo(ob, flushed, left) ==
    \E living \in {Living(ob)} :
    \E closed \in {Closed(Swept(ob, living))} :
        LET written == flushed \cup Flushed(ob, living) \cup closed
            after(f) == IF f \in closed /\ ~Named(f) THEN Empty ELSE work[f]
        IN  /\ obj' = Swept(ob, living)
            /\ mode' = [f \in Files |-> IF f \in closed THEN "closed" ELSE mode[f]]
            /\ work' = [f \in Files |-> after(f)]
            /\ disk' = [f \in Files |-> IF f \in written THEN after(f) ELSE disk[f]]
            /\ acked' = [f \in Files |-> f \in left \cup Dying(ob, living) \cup closed \/ acked[f]]
            /\ UNCHANGED <<entry, made, image, pending, changes, crashes>>

(* A variable goes out of scope or is deleted.                             *)
Drop(o) ==
    /\ obj[o].named
    /\ LetGo([obj EXCEPT ![o].named = FALSE], {}, {})

(* What is left of an archive after __exit__. *)
Left(ob, o) == [ob EXCEPT ![o].type = "left", ![o].file = NoFile]

(* Seeded fault: leaving `with` closes the file for everybody. *)
ExitForAll(o, f) ==
    /\ Uses(o, {"archive"}, f)
    /\ obj' = Left(obj, o)
    /\ mode' = [mode EXCEPT ![f] = "closed"]
    /\ disk' = [disk EXCEPT ![f] = work[f]]
    /\ acked' = [acked EXCEPT ![f] = TRUE]
    /\ UNCHANGED <<entry, made, work, image, pending, changes, crashes>>

(* Seeded fault: __exit__ leaves it to the library to write the file, which *)
(* does so when the last handle goes. *)
ExitUnflushed(o, f) ==
    /\ Uses(o, {"archive"}, f)
    /\ LetGo(Left(obj, o), {}, {f})

(* __exit__: flush and delete _group; views of subgroups keep theirs.      *)
Exit(o, f) ==
    /\ Uses(o, {"archive"}, f)
    /\ LetGo(Left(obj, o), {f}, {f})

(* Files on disk with changes that the disk may not have. *)
Buffered == {f \in Files : Named(f) /\ disk[f] # work[f]}

(* The process is killed.  A file with changes that were not flushed has   *)
(* the last flushed content, the current one, or neither.  Memory files    *)
(* and files without a name are gone.  The program is started again.       *)
Crash ==
    /\ crashes < MaxCrashes
    /\ crashes' = crashes + 1
    /\ \E left \in [Buffered -> Contents \cup {Torn}] :
          /\ \A f \in Buffered : left[f] \in {disk[f], work[f], Torn}
          /\ disk' = [f \in Files |-> IF f \in Buffered THEN left[f]
                                     ELSE IF Named(f) THEN disk[f] ELSE Empty]
    /\ work' = disk'
    /\ mode' = [f \in Files |-> "closed"]
    /\ obj' = [o \in Objs |-> Nothing]
    /\ acked' = [f \in Files |-> TRUE]
    /\ pending' = {}
    /\ UNCHANGED <<entry, made, image, changes>>

Next ==
    \/ \E p \in Paths, m \in {"r", "w", "a", "e"} : OpenFile(p, m)
    \/ \E p \in Paths, m \in {"r", "a"} : OpenArchive(p, m)
    \/ \E p \in Paths : RemoveOld(p) \/ MakeNew(p) \/ MakeNewFails(p)
    \/ \E type \in {"file", "archive"} : OpenMemory(type) \/ OpenImage(type)
    \/ \E o \in Objs, type \in {"file", "group"} : Share(o, type)
    \/ \E o \in Objs : View(o)
    \/ \E o \in Objs, f \in Files : SetItem(o, f) \/ Change(o, f) \/ Flush(o, f)
    \/ \E o \in Objs, f \in Files : AsBuffer(o, f) \/ Exit(o, f)
    \/ \E o \in Objs : Drop(o)
    \/ Crash

(* Scopes end: while there are variables, one goes away at some time.  An  *)
(* object is made once, so in the end all have gone.                       *)
Fairness == WF_vars(\E o \in Objs : Drop(o))

Spec == Init /\ [][Next]_vars /\ Fairness

-----------------------------------------------------------------------------

TypeOK ==
    /\ entry \in [Paths -> Files \cup {NoFile}]
    /\ mode \in [Files -> {"closed", "r", "rw", "memory"}]
    /\ work \in [Files -> Contents \cup {Torn}]
    /\ disk \in [Files -> Contents \cup {Torn}]
    /\ obj \in [Objs -> [type : Handle \cup {"left", "none"}, file : Files \cup {NoFile},
                         parent : 0..MaxObjects, named : BOOLEAN]]
    /\ made \in 0..MaxObjects
    /\ image \in Contents \cup {Absent}
    /\ pending \subseteq Paths
    /\ changes \in 0..MaxChanges
    /\ crashes \in 0..MaxCrashes
    /\ acked \in [Files -> BOOLEAN]
    /\ \A f \in Files : Held(f) <=> mode[f] # "closed"

(* What the program has promised is on the disk: after a __setitem__, a    *)
(* flush, an as_buffer, the end of a `with` block or of an archive, no     *)
(* change stays in the buffers of a file that views or other handles keep  *)
(* open, and no file is closed with changes in its buffers (archive.py     *)
(* 199, 416-420 and 425-427).                                              *)
NothingLost ==
    \A f \in Files : disk[f] # work[f] => Held(f) /\ Writable(f) /\ ~acked[f]

(* Making an object disturbs nobody: what others read through their        *)
(* handles, and what they have flushed, stays, also if the path is made    *)
(* new in mode 'w' (file.cpp 42, archive.py 394-397).                      *)
OthersUndisturbed ==
    [][made' # made =>
          \A f \in Files : Held(f) => work'[f] = work[f] /\ disk'[f] = disk[f]]_vars

(* A memory file made from bytes has what the bytes have: "we interpret    *)
(* the bytes as an hdf5 file and open it in memory" (archive.py 337-338).  *)
ImageOpened ==
    [][\A type \in {"file", "archive"} :
          OpenImage(type) => work'[obj'[made'].file] = image]_vars

(* In terms of paths, the handles and buffers keep what Durable promises:  *)
(* a completed __setitem__, flush, as_buffer, __exit__ or close survives a *)
(* crash until the next change, and what handles on a file that was        *)
(* replaced do is never seen under its old name.  A file may be missing    *)
(* only where mode 'w' has removed it.                                     *)
ContentOf(p) == IF entry[p] = NoFile THEN Absent ELSE work[entry[p]]

PromisedAt(p) == IF entry[p] = NoFile THEN TRUE ELSE acked[entry[p]]

Durably == INSTANCE Durable WITH
    content <- [p \in Paths |-> ContentOf(p)],
    promised <- [p \in Paths |-> PromisedAt(p)]

ImplementsDurable == Durably!Spec

(* A file that is open is closed at some time, and with it written: no     *)
(* cycle of references keeps an archive alive, and a `with` block that is  *)
(* left while views exist does not leave the file open for good.           *)
EventuallyClosed == \A f \in Files : Held(f) ~> ~Held(f)
=============================================================================
