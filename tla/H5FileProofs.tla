---------------------------- MODULE H5FileProofs ----------------------------
(***************************************************************************)
(* Proofs about H5File for every set of paths and all bounds: files are    *)
(* open exactly while an object holds them, what the program promises is   *)
(* on the disk, making an object disturbs nobody, and the handles and      *)
(* buffers implement what Durable promises of paths.                       *)
(*                                                                         *)
(* Which objects die when a reference is given up does not matter to any   *)
(* of this, so Living stays unexpanded throughout.                         *)
(***************************************************************************)
EXTENDS H5File, TLAPS

Records ==
    [type : Handle \cup {"left", "none"}, file : Files \cup {NoFile},
     parent : 0..MaxObjects, named : BOOLEAN]

Types ==
    /\ entry \in [Paths -> Files \cup {NoFile}]
    /\ mode \in [Files -> {"closed", "r", "rw", "memory"}]
    /\ work \in [Files -> Contents \cup {Torn}]
    /\ disk \in [Files -> Contents \cup {Torn}]
    /\ obj \in [Objs -> Records]
    /\ made \in 0..MaxObjects
    /\ image \in Contents \cup {Absent}
    /\ changes \in 0..MaxChanges
    /\ crashes \in 0..MaxCrashes
    /\ acked \in [Files -> BOOLEAN]

(* Objects come in the order of their numbers. *)
Unmade == \A o \in Objs : o > made => obj[o] = Nothing

(* No file has two names. *)
OneName == \A p, q \in Paths : entry[p] = entry[q] /\ entry[p] # NoFile => p = q

(* What is open can be read, and what is not on disk is being taken care   *)
(* of.                                                                     *)
FileOK(f) ==
    /\ Held(f) <=> mode[f] # "closed"
    /\ Held(f) => work[f] \in Contents
    /\ disk[f] # work[f] => Held(f) /\ Writable(f) /\ ~acked[f]

FilesOK == \A f \in Files : FileOK(f)

IInv == Types /\ Unmade /\ OneName /\ FilesOK

(* The invariant says what the types and NothingLost say. *)
LEMMA Consequences ==
    /\ IInv /\ pending \subseteq Paths => TypeOK
    /\ IInv => NothingLost
  BY DEF IInv, Types, Records, FilesOK, FileOK, TypeOK, NothingLost

(* The numbers that stand for the absence of something are not numbers of  *)
(* things.                                                                 *)
LEMMA Distinct ==
    /\ NoFile \notin Files
    /\ Empty \in Contents
    /\ Torn \notin Contents
    /\ Absent \notin Contents
    /\ Absent # Torn
    /\ NoObj \in 0..MaxObjects
    /\ MaxChanges \in Nat
  BY BoundsAssumption DEF NoFile, Files, Empty, Contents, Torn, Absent, NoObj

-----------------------------------------------------------------------------
(* Objects. *)

(* A new object holds its file, and nothing else about holding changes. *)
LEMMA MakeStep ==
    ASSUME IInv, NEW type \in Handle, NEW f \in Files \cup {NoFile}, NEW parent \in 0..MaxObjects,
           Make(type, f, parent)
    PROVE  /\ made' \in 0..MaxObjects
           /\ obj' \in [Objs -> Records]
           /\ Unmade'
           /\ made' # made
           /\ \A g \in Files : Held(g)' <=> Held(g) \/ g = f
<1> DEFINE new == [type |-> type, file |-> f, parent |-> parent, named |-> TRUE]
<1>1. made \in 0..MaxObjects /\ made < MaxObjects /\ made' = made + 1 /\ MaxObjects \in Nat
  BY BoundsAssumption DEF IInv, Types, Make
<1>2. made + 1 \in Objs
  BY <1>1 DEF Objs
<1>3. new \in Records
  BY DEF Records
<1>4. obj \in [Objs -> Records] /\ obj' = [obj EXCEPT ![made + 1] = new]
  BY DEF IInv, Types, Make
<1>5. obj' \in [Objs -> Records]
  BY <1>2, <1>3, <1>4
<1>6. obj[made + 1] = Nothing
  BY <1>1, <1>2 DEF IInv, Unmade
<1>7. Unmade'
  <2>1. \A o \in Objs : o > made' => o > made /\ o # made + 1
    BY <1>1 DEF Objs
  <2> QED
    BY <1>4, <2>1 DEF IInv, Unmade
<1>8. obj'[made + 1] = new /\ \A o \in Objs : o # made + 1 => obj'[o] = obj[o]
  BY <1>2, <1>4
<1>9. obj[made + 1].type \notin Handle
  BY <1>6 DEF Nothing, Handle
<1>10. ASSUME NEW g \in Files
       PROVE  Held(g)' <=> Held(g) \/ g = f
  <2>1. Holders(obj', g) = IF g = f THEN Holders(obj, g) \cup {made + 1} ELSE Holders(obj, g)
    BY <1>2, <1>8, <1>9 DEF Holders
  <2> QED
    BY <2>1 DEF Held
<1> QED
  BY <1>1, <1>5, <1>7, <1>10

(* Invariants of files that nothing happens to. *)
LEMMA SameFile ==
    ASSUME NEW f \in Files, FileOK(f), Held(f)' <=> Held(f),
           mode'[f] = mode[f], work'[f] = work[f], disk'[f] = disk[f], acked'[f] = acked[f]
    PROVE  FileOK(f)'
  BY DEF FileOK, Writable

(* H5Fopen. *)
LEMMA ReopenStep ==
    ASSUME IInv, NEW p \in Paths, NEW m \in {"r", "rw"}, NEW type \in {"file", "archive"}, Reopen(p, m, type)
    PROVE  IInv' /\ UNCHANGED <<entry, work, disk, image, acked>>
<1> DEFINE f == entry[p]
<1>1. f \in Files
  BY DEF Reopen, IInv, Types
<1>2. PICK parent \in 0..MaxObjects : Make(type, f, parent)
  BY Distinct DEF Reopen, MakeRoot, RootParent
<1>3. type \in Handle
  BY DEF Handle
<1>4. /\ made' \in 0..MaxObjects /\ obj' \in [Objs -> Records] /\ Unmade' /\ made' # made
      /\ \A g \in Files : Held(g)' <=> Held(g) \/ g = f
  BY <1>1, <1>2, <1>3, MakeStep
<1>5. UNCHANGED <<entry, work, disk, image, changes, crashes, acked>>
  BY DEF Reopen
<1>6. /\ mode' \in [Files -> {"closed", "r", "rw", "memory"}]
      /\ \A g \in Files \ {f} : mode'[g] = mode[g]
      /\ mode'[f] # "closed"
      /\ mode[f] # "closed" => mode' = mode
      /\ mode[f] = "closed" => disk[f] # Torn
  BY <1>1 DEF Reopen, IInv, Types
<1>7. Types' /\ OneName'
  BY <1>4, <1>5, <1>6 DEF IInv, Types, OneName
<1>8. ASSUME NEW g \in Files
      PROVE  FileOK(g)'
  <2>1. FileOK(g)
    BY DEF IInv, FilesOK
  <2>2. CASE g # f
    BY <1>4, <1>5, <1>6, <2>1, <2>2, SameFile
  <2>3. CASE g = f /\ mode[f] # "closed"
    BY <1>4, <1>5, <1>6, <2>1, <2>3, SameFile DEF FileOK
  <2>4. CASE g = f /\ mode[f] = "closed"
    <3>1. disk[f] = work[f] /\ ~Held(f)
      BY <2>1, <2>4 DEF FileOK
    <3>2. work[f] \in Contents
      BY <1>1, <1>6, <2>4, <3>1 DEF IInv, Types
    <3> QED
      BY <1>4, <1>5, <1>6, <2>4, <3>1, <3>2 DEF FileOK
  <2> QED
    BY <2>2, <2>3, <2>4
<1> QED
  BY <1>4, <1>5, <1>7, <1>8 DEF IInv, FilesOK

(* A handle on a file that is open already. *)
LEMMA JoinStep ==
    ASSUME IInv, NEW type \in Handle, NEW f \in Files \cup {NoFile}, NEW parent \in 0..MaxObjects,
           Make(type, f, parent), f \in Files => Held(f),
           UNCHANGED <<entry, mode, work, disk, image, changes, crashes, acked>>
    PROVE  IInv'
<1>1. /\ made' \in 0..MaxObjects /\ obj' \in [Objs -> Records] /\ Unmade'
      /\ \A g \in Files : Held(g)' <=> Held(g) \/ g = f
  BY MakeStep
<1>2. Types' /\ OneName'
  BY <1>1 DEF IInv, Types, OneName
<1>3. ASSUME NEW g \in Files
      PROVE  FileOK(g)'
  <2>1. FileOK(g) /\ (Held(g)' <=> Held(g))
    BY <1>1 DEF IInv, FilesOK
  <2> QED
    BY <2>1, SameFile
<1> QED
  BY <1>1, <1>2, <1>3 DEF IInv, FilesOK

(* A file that nobody has open gets a new content. *)
LEMMA FreshStep ==
    ASSUME IInv, NEW type \in Handle, NEW f \in Files, NEW parent \in 0..MaxObjects,
           Make(type, f, parent), ~Held(f),
           NEW m \in {"rw", "memory"}, NEW c \in Contents, NEW d \in Contents \cup {Torn},
           Fresh(f, m, c, d), entry' \in [Paths -> Files \cup {NoFile}], OneName'
    PROVE  /\ IInv'
           /\ \A g \in Files : Held(g) => work'[g] = work[g] /\ disk'[g] = disk[g]
<1>1. /\ made' \in 0..MaxObjects /\ obj' \in [Objs -> Records] /\ Unmade'
      /\ \A g \in Files : Held(g)' <=> Held(g) \/ g = f
  BY MakeStep
<1>2. /\ mode' = [mode EXCEPT ![f] = m] /\ work' = [work EXCEPT ![f] = c]
      /\ disk' = [disk EXCEPT ![f] = d] /\ acked' = [acked EXCEPT ![f] = FALSE]
      /\ UNCHANGED <<image, changes, crashes>>
  BY DEF Fresh
<1>3. Types
  BY DEF IInv
<1>4. Types'
  BY <1>1, <1>2, <1>3 DEF Types
<1>5. ASSUME NEW g \in Files \ {f}
      PROVE  /\ work'[g] = work[g] /\ disk'[g] = disk[g]
             /\ mode'[g] = mode[g] /\ acked'[g] = acked[g]
  BY <1>2, <1>3 DEF Types
<1>6. mode'[f] = m /\ work'[f] = c /\ disk'[f] = d /\ ~acked'[f]
  BY <1>2, <1>3 DEF Types
<1>7. ASSUME NEW g \in Files
      PROVE  FileOK(g)'
  <2>1. CASE g = f
    BY <1>1, <1>6, <2>1 DEF FileOK, Writable
  <2>2. CASE g # f
    <3>1. FileOK(g) /\ (Held(g)' <=> Held(g))
      BY <1>1, <2>2 DEF IInv, FilesOK
    <3> QED
      BY <1>5, <2>2, <3>1, SameFile
  <2> QED
    BY <2>1, <2>2
<1> QED
  BY <1>1, <1>4, <1>5, <1>7 DEF IInv, FilesOK

(* The objects and how their files are open stay as they are. *)
LEMMA BufferStep ==
    ASSUME IInv, UNCHANGED <<entry, mode, obj, made, crashes>>,
           work' \in [Files -> Contents \cup {Torn}], disk' \in [Files -> Contents \cup {Torn}],
           acked' \in [Files -> BOOLEAN], image' \in Contents \cup {Absent}, changes' \in 0..MaxChanges,
           \A f \in Files :
              /\ Held(f) => work'[f] \in Contents
              /\ disk'[f] # work'[f] => Held(f) /\ Writable(f) /\ ~acked'[f]
    PROVE  IInv'
<1>1. Types' /\ Unmade' /\ OneName'
  BY DEF IInv, Types, Unmade, OneName
<1>2. ASSUME NEW f \in Files
      PROVE  FileOK(f)'
  <2>1. FileOK(f) /\ (Held(f)' <=> Held(f)) /\ (Writable(f)' <=> Writable(f))
    BY DEF IInv, FilesOK, Held, Holders, Writable
  <2> QED
    BY <2>1 DEF FileOK
<1> QED
  BY <1>1, <1>2 DEF IInv, FilesOK

(* The file of an object is held by it. *)
LEMMA UserHolds ==
    ASSUME NEW o \in Objs, NEW f \in Files, NEW types \in SUBSET Handle, Uses(o, types, f)
    PROVE  Held(f)
  BY DEF Uses, Held, Holders

-----------------------------------------------------------------------------
(* Files are used. *)

(* A change of a file gives it a content of its own. *)
LEMMA NewContentStep ==
    ASSUME IInv, NEW f \in Files, NewContent(f)
    PROVE  /\ work' \in [Files -> Contents \cup {Torn}] /\ changes' \in 0..MaxChanges
           /\ work'[f] = changes + 1 /\ changes + 1 \in Contents
           /\ \A g \in Files \ {f} : work'[g] = work[g]
<1>1. work \in [Files -> Contents \cup {Torn}] /\ changes \in 0..MaxChanges
  BY DEF IInv, Types
<1>2. changes < MaxChanges /\ changes' = changes + 1 /\ work' = [work EXCEPT ![f] = changes + 1]
  BY DEF NewContent
<1>3. changes + 1 \in Contents
  BY <1>1, <1>2, Distinct DEF Contents
<1> QED
  BY <1>1, <1>2, <1>3 DEF Contents

(* archive[key] = value, which flushes the file. *)
LEMMA SetItemStep ==
    ASSUME IInv, NEW o \in Objs, NEW f \in Files, SetItem(o, f)
    PROVE  IInv'
<1>1. /\ work' \in [Files -> Contents \cup {Torn}] /\ changes' \in 0..MaxChanges
      /\ work'[f] \in Contents /\ \A g \in Files \ {f} : work'[g] = work[g]
  BY NewContentStep DEF SetItem
<1>2. /\ disk' = [disk EXCEPT ![f] = work'[f]] /\ acked' = [acked EXCEPT ![f] = TRUE]
      /\ UNCHANGED <<entry, mode, obj, made, image, crashes>>
  BY DEF SetItem
<1>3. Types
  BY DEF IInv
<1>4. /\ disk' \in [Files -> Contents \cup {Torn}] /\ acked' \in [Files -> BOOLEAN]
      /\ disk'[f] = work'[f]
      /\ \A g \in Files \ {f} : disk'[g] = disk[g] /\ acked'[g] = acked[g]
  BY <1>1, <1>2, <1>3 DEF Types
<1>5. \A g \in Files : FileOK(g)
  BY DEF IInv, FilesOK
<1>6. \A g \in Files :
         /\ Held(g) => work'[g] \in Contents
         /\ disk'[g] # work'[g] => Held(g) /\ Writable(g) /\ ~acked'[g]
  BY <1>1, <1>4, <1>5 DEF FileOK
<1>7. image' \in Contents \cup {Absent}
  BY <1>2, <1>3 DEF Types
<1> QED
  BY <1>1, <1>2, <1>4, <1>6, <1>7, BufferStep

(* A change nobody flushes. *)
LEMMA ChangeStep ==
    ASSUME IInv, NEW o \in Objs, NEW f \in Files, Change(o, f)
    PROVE  IInv'
<1>1. /\ work' \in [Files -> Contents \cup {Torn}] /\ changes' \in 0..MaxChanges
      /\ work'[f] \in Contents /\ \A g \in Files \ {f} : work'[g] = work[g]
  BY NewContentStep DEF Change
<1>2. /\ Uses(o, Handle, f) /\ Writable(f) /\ acked' = [acked EXCEPT ![f] = FALSE]
      /\ UNCHANGED <<entry, mode, disk, obj, made, image, crashes>>
  BY DEF Change, NewContent
<1>3. Types
  BY DEF IInv
<1>4. /\ acked' \in [Files -> BOOLEAN] /\ ~acked'[f]
      /\ \A g \in Files \ {f} : acked'[g] = acked[g]
  BY <1>2, <1>3 DEF Types
<1>5. \A g \in Files : FileOK(g)
  BY DEF IInv, FilesOK
<1>6. Held(f)
  BY <1>2, UserHolds
<1>7. \A g \in Files :
         /\ Held(g) => work'[g] \in Contents
         /\ disk'[g] # work'[g] => Held(g) /\ Writable(g) /\ ~acked'[g]
  BY <1>1, <1>2, <1>4, <1>5, <1>6 DEF FileOK
<1>8. disk' \in [Files -> Contents \cup {Torn}] /\ image' \in Contents \cup {Absent}
  BY <1>2, <1>3 DEF Types
<1> QED
  BY <1>1, <1>2, <1>4, <1>7, <1>8, BufferStep

(* Flush, and the flush that as_buffer begins with. *)
LEMMA FlushedStep ==
    ASSUME IInv, NEW f \in Files, disk' = [disk EXCEPT ![f] = work[f]],
           acked' = [acked EXCEPT ![f] = TRUE], image' \in Contents \cup {Absent},
           UNCHANGED <<entry, mode, work, obj, made, changes, crashes>>
    PROVE  IInv'
<1>1. Types
  BY DEF IInv
<1>2. /\ disk' \in [Files -> Contents \cup {Torn}] /\ acked' \in [Files -> BOOLEAN]
      /\ disk'[f] = work[f]
      /\ \A g \in Files \ {f} : disk'[g] = disk[g] /\ acked'[g] = acked[g]
  BY <1>1 DEF Types
<1>3. \A g \in Files : FileOK(g)
  BY DEF IInv, FilesOK
<1>4. \A g \in Files :
         /\ Held(g) => work'[g] \in Contents
         /\ disk'[g] # work'[g] => Held(g) /\ Writable(g) /\ ~acked'[g]
  BY <1>2, <1>3 DEF FileOK
<1>5. work' \in [Files -> Contents \cup {Torn}] /\ changes' \in 0..MaxChanges
  BY <1>1 DEF Types
<1> QED
  BY <1>2, <1>4, <1>5, BufferStep

(* file.flush() *)
LEMMA FlushStep ==
    ASSUME IInv, NEW o \in Objs, NEW f \in Files, Flush(o, f)
    PROVE  IInv'
<1>1. image' \in Contents \cup {Absent}
  BY DEF Flush, IInv, Types
<1> QED
  BY <1>1, FlushedStep DEF Flush

(* as_buffer flushes and takes the image of the file. *)
LEMMA AsBufferStep ==
    ASSUME IInv, NEW o \in Objs, NEW f \in Files, AsBuffer(o, f)
    PROVE  IInv' /\ image' = work[f]
<1>1. Held(f)
  BY UserHolds DEF AsBuffer, Handle
<1>2. work[f] \in Contents
  BY <1>1 DEF IInv, FilesOK, FileOK
<1>3. image' = work[f]
  BY DEF AsBuffer, IInv, Types
<1> QED
  BY <1>2, <1>3, FlushedStep DEF AsBuffer

-----------------------------------------------------------------------------
(* Objects go away. *)

(* The objects ob are those of the program with some references given up. *)
GivenUp(ob) ==
    /\ ob \in [Objs -> Records]
    /\ \A o \in Objs : o > made => ob[o] = Nothing
    /\ \A f \in Files : Holders(ob, f) \subseteq Holders(obj, f)

(* What is destroyed holds nothing. *)
LEMMA SweptHolds ==
    ASSUME NEW ob, NEW living, NEW f \in Files
    PROVE  Holders(Swept(ob, living), f) \subseteq Holders(ob, f)
<1>1. Nothing.type \notin Handle
  BY DEF Nothing, Handle
<1> QED
  BY <1>1 DEF Holders, Swept

(* Objects are Nothing or of their types after a sweep. *)
LEMMA SweptType ==
    ASSUME NEW ob \in [Objs -> Records], NEW living
    PROVE  /\ Swept(ob, living) \in [Objs -> Records]
           /\ \A o \in Objs : ob[o] = Nothing => Swept(ob, living)[o] = Nothing
<1>1. Nothing \in Records
  BY Distinct DEF Nothing, Records, NoObj
<1> QED
  BY <1>1 DEF Swept

(* Whatever dies, the files that are held are the open ones, and what is   *)
(* promised has been flushed or is closed: the files left on purpose have  *)
(* been flushed, and the archives that die flush theirs.                   *)
LEMMA LetGoStep ==
    ASSUME IInv, NEW ob, GivenUp(ob), NEW flushed, NEW left \in SUBSET flushed, LetGo(ob, flushed, left)
    PROVE  /\ IInv'
           /\ UNCHANGED <<entry, made, image>>
           /\ \E promise, closed :
                 /\ \A f \in Files : work'[f] = IF f \in closed /\ ~Named(f) THEN Empty ELSE work[f]
                 /\ \A f \in Files : acked'[f] = (f \in promise \/ acked[f])
<1>1. PICK living, closed :
        /\ closed = Closed(Swept(ob, living))
        /\ LET written == flushed \cup Flushed(ob, living) \cup closed
               after(f) == IF f \in closed /\ ~Named(f) THEN Empty ELSE work[f]
           IN  /\ obj' = Swept(ob, living)
               /\ mode' = [f \in Files |-> IF f \in closed THEN "closed" ELSE mode[f]]
               /\ work' = [f \in Files |-> after(f)]
               /\ disk' = [f \in Files |-> IF f \in written THEN after(f) ELSE disk[f]]
               /\ acked' = [f \in Files |-> f \in left \cup Dying(ob, living) \cup closed \/ acked[f]]
               /\ UNCHANGED <<entry, made, image, pending, changes, crashes>>
  BY DEF LetGo
<1> DEFINE written == flushed \cup Flushed(ob, living) \cup closed
           promise == left \cup Dying(ob, living) \cup closed
           after(f) == IF f \in closed /\ ~Named(f) THEN Empty ELSE work[f]
<1>2. /\ obj' = Swept(ob, living)
      /\ mode' = [f \in Files |-> IF f \in closed THEN "closed" ELSE mode[f]]
      /\ work' = [f \in Files |-> after(f)]
      /\ disk' = [f \in Files |-> IF f \in written THEN after(f) ELSE disk[f]]
      /\ acked' = [f \in Files |-> f \in promise \/ acked[f]]
      /\ UNCHANGED <<entry, made, image, changes, crashes>>
  BY <1>1
<1>3. closed \subseteq written /\ promise \subseteq written
  BY DEF Flushed
<1> HIDE DEF written, promise
<1>4. Types
  BY DEF IInv
<1>5. obj' \in [Objs -> Records] /\ Unmade'
  BY <1>2, SweptType DEF GivenUp, Unmade
<1>6. Types' /\ OneName'
  BY <1>2, <1>4, <1>5, Distinct DEF Types, IInv, OneName
<1>7. ASSUME NEW f \in Files
      PROVE  /\ Held(f)' <=> Held(f) /\ f \notin closed
             /\ f \in closed => Held(f)
  <2>1. Holders(obj', f) \subseteq Holders(obj, f)
    BY <1>2, SweptHolds DEF GivenUp
  <2>2. f \in closed <=> Held(f) /\ Holders(obj', f) = {}
    BY <1>1, <1>2 DEF Closed
  <2> QED
    BY <2>1, <2>2 DEF Held
<1>8. ASSUME NEW f \in Files
      PROVE  FileOK(f)'
  <2>1. FileOK(f)
    BY DEF IInv, FilesOK
  <2>2. CASE f \in closed
    BY <1>2, <1>3, <1>7, <2>2 DEF FileOK
  <2>3. CASE f \notin closed
    <3>1. /\ mode'[f] = mode[f] /\ work'[f] = work[f]
          /\ f \in written => disk'[f] = work[f]
          /\ f \notin written => disk'[f] = disk[f] /\ acked'[f] = acked[f]
          /\ Held(f)' <=> Held(f)
      BY <1>2, <1>3, <1>4, <1>7, <2>3 DEF Types
    <3> QED
      BY <2>1, <3>1 DEF FileOK, Writable
  <2> QED
    BY <2>2, <2>3
<1>9. \A f \in Files : /\ work'[f] = IF f \in closed /\ ~Named(f) THEN Empty ELSE work[f]
                       /\ acked'[f] = (f \in promise \/ acked[f])
  BY <1>2
<1> QED
  BY <1>2, <1>5, <1>6, <1>8, <1>9 DEF IInv, FilesOK

(* A name that goes gives up objects and makes none ... *)
LEMMA DropGivesUp ==
    ASSUME IInv, NEW o \in Objs, obj[o].named
    PROVE  GivenUp([obj EXCEPT ![o].named = FALSE])
<1> DEFINE ob == [obj EXCEPT ![o].named = FALSE]
<1>1. obj \in [Objs -> Records] /\ \A q \in Objs : q > made => obj[q] = Nothing
  BY DEF IInv, Types, Unmade
<1>2. obj[o] \in Records
  BY <1>1
<1>3. /\ ob[o] = [type |-> obj[o].type, file |-> obj[o].file, parent |-> obj[o].parent, named |-> FALSE]
      /\ \A q \in Objs \ {o} : ob[q] = obj[q]
  BY <1>1, <1>2 DEF Records
<1>4. ob[o] \in Records /\ ob[o].type = obj[o].type /\ ob[o].file = obj[o].file
  <2> HIDE DEF ob
  <2>1. /\ obj[o].type \in Handle \cup {"left", "none"} /\ obj[o].file \in Files \cup {NoFile}
        /\ obj[o].parent \in 0..MaxObjects /\ obj[o].named \in BOOLEAN
    BY <1>2 DEF Records
  <2>2. ob[o] \in Records
    BY <1>3, <2>1 DEF Records
  <2> QED
    BY <1>3, <2>2
<1>5. ob \in [Objs -> Records]
  BY <1>1, <1>4
<1>6. obj[o] # Nothing
  BY DEF Nothing
<1>7. \A q \in Objs : q > made => ob[q] = Nothing
  BY <1>1, <1>3, <1>6
<1>8. \A f \in Files : Holders(ob, f) \subseteq Holders(obj, f)
  BY <1>3, <1>4 DEF Holders
<1> QED
  BY <1>5, <1>7, <1>8 DEF GivenUp

(* ... and so does the end of a with block. *)
LEMMA ExitGivesUp ==
    ASSUME IInv, NEW o \in Objs, obj[o].named
    PROVE  GivenUp(Left(obj, o))
<1> DEFINE ob == Left(obj, o)
<1>1. obj \in [Objs -> Records] /\ \A q \in Objs : q > made => obj[q] = Nothing
  BY DEF IInv, Types, Unmade
<1>2. obj[o] \in Records
  BY <1>1
<1>3. /\ ob[o] = [type |-> "left", file |-> NoFile, parent |-> obj[o].parent, named |-> obj[o].named]
      /\ \A q \in Objs \ {o} : ob[q] = obj[q]
  BY <1>1, <1>2 DEF Left, Records
<1>4. ob[o] \in Records
  <2> HIDE DEF ob
  <2>1. /\ obj[o].type \in Handle \cup {"left", "none"} /\ obj[o].file \in Files \cup {NoFile}
        /\ obj[o].parent \in 0..MaxObjects /\ obj[o].named \in BOOLEAN
    BY <1>2 DEF Records
  <2> QED
    BY <1>3, <2>1, Distinct DEF Records
<1>5. ob \in [Objs -> Records]
  BY <1>1, <1>3, <1>4 DEF Left
<1>6. obj[o] # Nothing
  BY DEF Nothing
<1>7. \A q \in Objs : q > made => ob[q] = Nothing
  BY <1>1, <1>3, <1>6
<1>8. ob[o].type \notin Handle
  BY <1>3 DEF Handle
<1>9. \A f \in Files : Holders(ob, f) \subseteq Holders(obj, f)
  BY <1>3, <1>8 DEF Holders
<1> QED
  BY <1>5, <1>7, <1>9 DEF GivenUp

(* A crash closes every file; what was promised is what it finds again. *)
LEMMA CrashStep ==
    ASSUME IInv, Crash
    PROVE  /\ IInv'
           /\ UNCHANGED <<entry, made, image>>
           /\ acked' = [f \in Files |-> TRUE]
           /\ \A f \in Files : work'[f] \in Contents \cup {Torn}
           /\ \A f \in Files : Named(f) /\ acked[f] => work'[f] = work[f]
<1>1. PICK left \in [Buffered -> Contents \cup {Torn}] :
        /\ \A f \in Buffered : left[f] \in {disk[f], work[f], Torn}
        /\ disk' = [f \in Files |-> IF f \in Buffered THEN left[f]
                                   ELSE IF Named(f) THEN disk[f] ELSE Empty]
  BY DEF Crash
<1>2. /\ crashes < MaxCrashes /\ crashes' = crashes + 1
      /\ work' = disk' /\ mode' = [f \in Files |-> "closed"] /\ obj' = [o \in Objs |-> Nothing]
      /\ acked' = [f \in Files |-> TRUE] /\ UNCHANGED <<entry, made, image, changes>>
  BY DEF Crash
<1>3. Types
  BY DEF IInv
<1>4. disk' \in [Files -> Contents \cup {Torn}]
  BY <1>1, <1>3, Distinct DEF Types
<1>5. Nothing \in Records
  BY Distinct DEF Nothing, Records, NoObj
<1>6. MaxCrashes \in Nat
  BY BoundsAssumption
<1>7. crashes' \in 0..MaxCrashes
  BY <1>2, <1>3, <1>6 DEF Types
<1>8. Types' /\ OneName' /\ Unmade'
  BY <1>2, <1>3, <1>4, <1>5, <1>7 DEF Types, IInv, OneName, Unmade
<1>9. Nothing.type \notin Handle
  BY DEF Nothing, Handle
<1>10. \A f \in Files : FileOK(f)'
  BY <1>2, <1>9 DEF FileOK, Held, Holders
<1>11. ASSUME NEW f \in Files, Named(f), acked[f]
       PROVE  work'[f] = work[f]
  <2>1. FileOK(f)
    BY DEF IInv, FilesOK
  <2>2. disk[f] = work[f]
    BY <1>11, <2>1 DEF FileOK
  <2>3. f \notin Buffered
    BY <2>2 DEF Buffered
  <2> QED
    BY <1>1, <1>2, <1>11, <2>2, <2>3
<1> QED
  BY <1>2, <1>4, <1>8, <1>10, <1>11 DEF IInv, FilesOK

-----------------------------------------------------------------------------
(* Files are opened. *)

Undisturbed == \A f \in Files : Held(f) => work'[f] = work[f] /\ disk'[f] = disk[f]

(* What the step does to a path, in the terms of Durable. *)
SamePath(p) == ContentOf(p)' = ContentOf(p) /\ PromisedAt(p)' = PromisedAt(p)

SamePaths == \A p \in Paths : SamePath(p)

NewAt(p) ==
    /\ ContentOf(p)' = Empty /\ PromisedAt(p)' = FALSE
    /\ \A q \in Paths \ {p} : SamePath(q)

(* Steps that touch no content leave every path as it was. *)
LEMMA UnchangedPaths ==
    ASSUME UNCHANGED <<entry, work, acked>>
    PROVE  SamePaths
  BY DEF SamePaths, SamePath, ContentOf, PromisedAt

(* A file that is there is opened ... *)
LEMMA OpenReopen ==
    ASSUME IInv, NEW p \in Paths, NEW m \in {"r", "rw"}, NEW type \in {"file", "archive"}, Reopen(p, m, type)
    PROVE  IInv' /\ Undisturbed /\ SamePaths
<1>1. IInv' /\ UNCHANGED <<entry, work, disk, image, acked>>
  BY ReopenStep
<1> QED
  BY <1>1, UnchangedPaths DEF Undisturbed

(* ... or made ... *)
LEMMA OpenCreate ==
    ASSUME IInv, NEW p \in Paths, NEW type \in {"file", "archive"}, Create(p, type)
    PROVE  IInv' /\ Undisturbed /\ NewAt(p)
<1>1. PICK f \in Unused : /\ entry' = [entry EXCEPT ![p] = f]
                          /\ MakeRoot(type, f)
                          /\ Fresh(f, "rw", Empty, Torn)
  BY DEF Create
<1>2. f \in Files /\ ~Held(f) /\ \A q \in Paths : entry[q] # f
  BY DEF Unused
<1>3. PICK parent \in 0..MaxObjects : Make(type, f, parent)
  BY <1>1, Distinct DEF MakeRoot, RootParent
<1>4. entry \in [Paths -> Files \cup {NoFile}] /\ OneName
  BY DEF IInv, Types
<1>5. entry' \in [Paths -> Files \cup {NoFile}] /\ OneName'
  BY <1>1, <1>2, <1>4 DEF OneName
<1>6. type \in Handle
  BY DEF Handle
<1>7. IInv' /\ Undisturbed
  BY <1>1, <1>2, <1>3, <1>5, <1>6, Distinct, FreshStep DEF Undisturbed
<1>8. /\ work'[f] = Empty /\ acked'[f] = FALSE
      /\ \A g \in Files \ {f} : work'[g] = work[g] /\ acked'[g] = acked[g]
  BY <1>1, <1>2 DEF Fresh, IInv, Types
<1>9. entry'[p] = f /\ \A q \in Paths \ {p} : entry'[q] = entry[q] /\ entry[q] # f
  BY <1>1, <1>2, <1>4
<1>10. f # NoFile
  BY <1>2, Distinct
<1>11. NewAt(p)
  BY <1>4, <1>8, <1>9, <1>10 DEF NewAt, SamePath, ContentOf, PromisedAt
<1> QED
  BY <1>7, <1>11

(* ... or emptied. *)
LEMMA OpenTruncate ==
    ASSUME IInv, NEW p \in Paths, NEW type \in {"file", "archive"}, Truncate(p, type)
    PROVE  IInv' /\ Undisturbed /\ NewAt(p)
<1> DEFINE f == entry[p]
<1>1. f \in Files /\ mode[f] = "closed"
  BY DEF Truncate, IInv, Types
<1>2. ~Held(f)
  BY <1>1 DEF IInv, FilesOK, FileOK
<1>3. PICK parent \in 0..MaxObjects : Make(type, f, parent)
  BY Distinct DEF Truncate, MakeRoot, RootParent
<1>4. Fresh(f, "rw", Empty, Torn) /\ entry' = entry
  BY DEF Truncate
<1>5. entry \in [Paths -> Files \cup {NoFile}] /\ OneName
  BY DEF IInv, Types
<1>6. entry' \in [Paths -> Files \cup {NoFile}] /\ OneName'
  BY <1>4, <1>5 DEF OneName
<1>7. type \in Handle
  BY DEF Handle
<1>8. IInv' /\ Undisturbed
  BY <1>1, <1>2, <1>3, <1>4, <1>6, <1>7, Distinct, FreshStep DEF Undisturbed
<1>9. /\ work'[f] = Empty /\ acked'[f] = FALSE
      /\ \A g \in Files \ {f} : work'[g] = work[g] /\ acked'[g] = acked[g]
  BY <1>1, <1>4 DEF Fresh, IInv, Types
<1>10. f # NoFile
  BY <1>1, Distinct
<1>11. \A q \in Paths \ {p} : entry[q] # f
  BY <1>5, <1>10 DEF OneName
<1>12. NewAt(p)
  BY <1>4, <1>5, <1>9, <1>10, <1>11 DEF NewAt, SamePath, ContentOf, PromisedAt
<1> QED
  BY <1>8, <1>12

(* file(name, mode), and HDFArchive(path, mode) for 'r' and 'a'. *)
LEMMA OpenStep ==
    ASSUME IInv, NEW p \in Paths, NEW m, NEW type \in {"file", "archive"}, Open(p, m, type)
    PROVE  IInv' /\ Undisturbed /\ (SamePaths \/ NewAt(p))
<1>1. CASE Reopen(p, "r", type)
  BY <1>1, OpenReopen
<1>2. CASE Reopen(p, "rw", type)
  BY <1>2, OpenReopen
<1>3. CASE Create(p, type)
  BY <1>3, OpenCreate
<1>4. CASE Truncate(p, type)
  BY <1>4, OpenTruncate
<1> QED
  BY <1>1, <1>2, <1>3, <1>4 DEF Open

(* A file without a name is not seen through the paths. *)
LEMMA FreshMemory ==
    ASSUME IInv, NEW type \in {"file", "archive"}, NEW f \in Unused, MakeRoot(type, f),
           NEW c \in Contents, NEW d \in Contents \cup {Torn}, Fresh(f, "memory", c, d), entry' = entry
    PROVE  IInv' /\ Undisturbed /\ SamePaths
<1>1. f \in Files /\ ~Held(f) /\ \A q \in Paths : entry[q] # f
  BY DEF Unused
<1>2. PICK parent \in 0..MaxObjects : Make(type, f, parent)
  BY Distinct DEF MakeRoot, RootParent
<1>3. entry' \in [Paths -> Files \cup {NoFile}] /\ OneName'
  BY DEF IInv, Types, OneName
<1>4. type \in Handle
  BY DEF Handle
<1>5. IInv' /\ Undisturbed
  BY <1>1, <1>2, <1>3, <1>4, FreshStep DEF Undisturbed
<1>6. \A g \in Files \ {f} : work'[g] = work[g] /\ acked'[g] = acked[g]
  BY <1>1 DEF Fresh, IInv, Types
<1>7. \A q \in Paths : entry[q] \in Files \cup {NoFile}
  BY DEF IInv, Types
<1>8. SamePaths
  BY <1>1, <1>6, <1>7 DEF SamePaths, SamePath, ContentOf, PromisedAt
<1> QED
  BY <1>5, <1>8

(* A file in memory ... *)
LEMMA OpenMemoryStep ==
    ASSUME IInv, NEW type \in {"file", "archive"}, OpenMemory(type)
    PROVE  IInv' /\ Undisturbed /\ SamePaths
<1>1. PICK f \in Unused : MakeRoot(type, f) /\ Fresh(f, "memory", Empty, Torn) /\ entry' = entry
  BY DEF OpenMemory, Unused
<1> QED
  BY <1>1, Distinct, FreshMemory

(* ... and one from a buffer. *)
LEMMA OpenImageStep ==
    ASSUME IInv, NEW type \in {"file", "archive"}, OpenImage(type)
    PROVE  IInv' /\ Undisturbed /\ SamePaths
<1>1. image \in Contents /\ entry' = entry
  BY DEF OpenImage, IInv, Types
<1>2. CASE \E f \in Unused : MakeRoot(type, f) /\ Fresh(f, "memory", image, image)
  BY <1>1, <1>2, FreshMemory
<1>3. CASE \E f \in InMemory : /\ MakeRoot(type, f)
                               /\ UNCHANGED <<mode, work, disk, image, changes, crashes, acked>>
  <2>1. PICK f \in Files : /\ mode[f] = "memory"
                           /\ MakeRoot(type, f)
                           /\ UNCHANGED <<mode, work, disk, image, changes, crashes, acked>>
    BY <1>3 DEF InMemory
  <2>2. Held(f)
    BY <2>1 DEF IInv, FilesOK, FileOK
  <2>3. PICK parent \in 0..MaxObjects : Make(type, f, parent)
    BY <2>1, Distinct DEF MakeRoot, RootParent
  <2>4. type \in Handle
    BY DEF Handle
  <2>5. IInv'
    BY <1>1, <2>1, <2>2, <2>3, <2>4, JoinStep
  <2> QED
    BY <1>1, <2>1, <2>5, UnchangedPaths DEF Undisturbed
<1> QED
  BY <1>2, <1>3 DEF OpenImage, Unused

(* An object made from another that is alive. *)
LEMMA FromAnother ==
    ASSUME IInv, NEW o \in Objs, obj[o].type \in Handle, NEW type \in Handle, NEW parent \in 0..MaxObjects,
           Make(type, obj[o].file, parent),
           UNCHANGED <<entry, mode, work, disk, image, changes, crashes, acked>>
    PROVE  IInv' /\ Undisturbed /\ SamePaths
<1>1. obj[o].file \in Files \cup {NoFile}
  BY DEF IInv, Types, Records
<1>2. obj[o].file \in Files => Held(obj[o].file)
  BY DEF Held, Holders
<1>3. IInv'
  BY <1>1, <1>2, JoinStep
<1> QED
  BY <1>3, UnchangedPaths DEF Undisturbed

(* Another handle of the same file. *)
LEMMA ShareStep ==
    ASSUME IInv, NEW o \in Objs, NEW type \in {"file", "group"}, Share(o, type)
    PROVE  IInv' /\ Undisturbed /\ SamePaths
  BY Distinct, FromAnother DEF Share, Handle

(* A view of an archive. *)
LEMMA ViewStep ==
    ASSUME IInv, NEW o \in Objs, View(o)
    PROVE  IInv' /\ Undisturbed /\ SamePaths
<1>1. o \in 0..MaxObjects
  BY BoundsAssumption DEF Objs
<1> QED
  BY <1>1, FromAnother DEF View, Handle

-----------------------------------------------------------------------------
(* What the other steps do to the paths. *)

ChangedAt(p, c, promise) ==
    /\ ContentOf(p) \in Contents /\ ContentOf(p)' = c /\ PromisedAt(p)' = promise
    /\ \A q \in Paths \ {p} : SamePath(q)

CommittedAt(ps) ==
    \A p \in Paths : /\ ContentOf(p)' = ContentOf(p)
                     /\ PromisedAt(p)' = (p \in ps \/ PromisedAt(p))

LostAt ==
    \A p \in Paths : /\ ContentOf(p)' \in Contents \cup {Torn, Absent}
                     /\ PromisedAt(p) => ContentOf(p)' = ContentOf(p)
                     /\ ContentOf(p)' = Absent <=> ContentOf(p) = Absent
                     /\ PromisedAt(p)' = TRUE

RemovedAt(p) ==
    /\ ContentOf(p)' = Absent /\ PromisedAt(p)' = TRUE
    /\ \A q \in Paths \ {p} : SamePath(q)

PathStep ==
    \/ SamePaths
    \/ \E p \in Paths : NewAt(p) \/ RemovedAt(p)
    \/ \E p \in Paths, c \in Contents, promise \in BOOLEAN : ChangedAt(p, c, promise)
    \/ \E ps \in SUBSET Paths : CommittedAt(ps)
    \/ LostAt

(* HDFArchive(path, 'w') takes the name away, from whoever has the file    *)
(* open too; the file stays for them.                                      *)
LEMMA RemoveOldStep ==
    ASSUME IInv, NEW p \in Paths, RemoveOld(p)
    PROVE  IInv' /\ PathStep
<1>1. /\ entry' \in {entry, [entry EXCEPT ![p] = NoFile]}
      /\ UNCHANGED <<mode, work, disk, obj, made, image, changes, crashes, acked>>
  BY DEF RemoveOld
<1>2. Types /\ OneName
  BY DEF IInv
<1>3. \A q \in Paths : entry'[q] = entry[q] \/ entry'[q] = NoFile
  BY <1>1, <1>2 DEF Types
<1>4. Types' /\ OneName'
  BY <1>1, <1>2, <1>3 DEF Types, OneName
<1>5. Unmade' /\ FilesOK'
  BY <1>1 DEF IInv, Unmade, FilesOK, FileOK, Held, Holders, Writable
<1>6. PathStep
  <2>1. CASE entry' = entry
    BY <1>1, <2>1, UnchangedPaths DEF PathStep
  <2>2. CASE entry' = [entry EXCEPT ![p] = NoFile]
    <3>1. entry'[p] = NoFile /\ \A q \in Paths \ {p} : entry'[q] = entry[q]
      BY <1>2, <2>2 DEF Types
    <3>2. RemovedAt(p)
      BY <1>1, <3>1 DEF RemovedAt, SamePath, ContentOf, PromisedAt
    <3> QED
      BY <3>2 DEF PathStep
  <2> QED
    BY <1>1, <2>1, <2>2
<1> QED
  BY <1>4, <1>5, <1>6 DEF IInv

(* The file that a path leads to is no other path's. *)
LEMMA FileChanges ==
    ASSUME IInv, NEW f \in Files, Held(f), NEW c \in Contents, NEW promise \in BOOLEAN,
           entry' = entry, work'[f] = c, acked'[f] = promise,
           \A g \in Files \ {f} : work'[g] = work[g] /\ acked'[g] = acked[g]
    PROVE  PathStep
<1>1. entry \in [Paths -> Files \cup {NoFile}] /\ OneName
  BY DEF IInv, Types
<1>2. work[f] \in Contents /\ f # NoFile
  BY Distinct DEF IInv, FilesOK, FileOK
<1>3. CASE \E p \in Paths : entry[p] = f
  <2>1. PICK p \in Paths : entry[p] = f
    BY <1>3
  <2>2. \A q \in Paths \ {p} : entry[q] # f
    BY <1>1, <1>2, <2>1 DEF OneName
  <2>3. ContentOf(p) \in Contents /\ ContentOf(p)' = c /\ PromisedAt(p)' = promise
    BY <1>2, <2>1 DEF ContentOf, PromisedAt
  <2>4. ASSUME NEW q \in Paths \ {p}
        PROVE  SamePath(q)
    <3>1. entry[q] \in Files \cup {NoFile} /\ entry[q] # f
      BY <1>1, <2>2
    <3> QED
      BY <3>1 DEF SamePath, ContentOf, PromisedAt
  <2>5. ChangedAt(p, c, promise)
    BY <2>3, <2>4 DEF ChangedAt
  <2> QED
    BY <2>5 DEF PathStep
<1>4. CASE \A p \in Paths : entry[p] # f
  <2>1. ASSUME NEW q \in Paths
        PROVE  SamePath(q)
    <3>1. entry[q] \in Files \cup {NoFile} /\ entry[q] # f
      BY <1>1, <1>4
    <3> QED
      BY <3>1 DEF SamePath, ContentOf, PromisedAt
  <2> QED
    BY <2>1 DEF PathStep, SamePaths
<1> QED
  BY <1>3, <1>4

(* Files are flushed or closed. *)
LEMMA FilesCommit ==
    ASSUME IInv, NEW written, entry' = entry,
           \A f \in Files : Named(f) => work'[f] = work[f],
           \A f \in Files : acked'[f] = (f \in written \/ acked[f])
    PROVE  PathStep
<1> DEFINE ps == {p \in Paths : entry[p] \in Files /\ entry[p] \in written}
<1>1. ASSUME NEW p \in Paths
      PROVE  /\ ContentOf(p)' = ContentOf(p)
             /\ PromisedAt(p)' = (p \in ps \/ PromisedAt(p))
  <2>1. CASE entry[p] = NoFile
    BY <2>1, Distinct DEF ContentOf, PromisedAt
  <2>2. CASE entry[p] # NoFile
    <3>1. entry[p] \in Files /\ Named(entry[p])
      BY <2>2 DEF Named, IInv, Types
    <3>2. work'[entry[p]] = work[entry[p]]
      BY <3>1
    <3>3. acked'[entry[p]] = (entry[p] \in written \/ acked[entry[p]])
      BY <3>1
    <3>4. p \in ps <=> entry[p] \in written
      BY <3>1
    <3>5. ContentOf(p)' = ContentOf(p)
      BY <2>2, <3>2 DEF ContentOf
    <3>6. PromisedAt(p)' = acked'[entry[p]] /\ PromisedAt(p) = acked[entry[p]]
      BY <2>2 DEF PromisedAt
    <3>7. (p \in ps \/ PromisedAt(p)) = (entry[p] \in written \/ acked[entry[p]])
      BY <3>4, <3>6
    <3> QED
      BY <3>3, <3>5, <3>6, <3>7
  <2> QED
    BY <2>1, <2>2
<1>2. CommittedAt(ps)
  BY <1>1 DEF CommittedAt
<1>3. ps \in SUBSET Paths
  OBVIOUS
<1> QED
  BY <1>2, <1>3 DEF PathStep

(* Storing changes one file and promises it. *)
LEMMA SetItemPaths ==
    ASSUME IInv, NEW o \in Objs, NEW f \in Files, SetItem(o, f)
    PROVE  PathStep
<1>1. Held(f)
  BY UserHolds DEF SetItem, Handle
<1>2. /\ work'[f] = changes + 1 /\ changes + 1 \in Contents
      /\ \A g \in Files \ {f} : work'[g] = work[g]
  BY NewContentStep DEF SetItem
<1>3. acked'[f] = TRUE /\ \A g \in Files \ {f} : acked'[g] = acked[g]
  BY DEF SetItem, IInv, Types
<1>4. entry' = entry
  BY DEF SetItem
<1> QED
  BY <1>1, <1>2, <1>3, <1>4, FileChanges

(* A change takes the promise of its file back. *)
LEMMA ChangePaths ==
    ASSUME IInv, NEW o \in Objs, NEW f \in Files, Change(o, f)
    PROVE  PathStep
<1>1. Held(f)
  BY UserHolds DEF Change
<1>2. /\ work'[f] = changes + 1 /\ changes + 1 \in Contents
      /\ \A g \in Files \ {f} : work'[g] = work[g]
  BY NewContentStep DEF Change
<1>3. acked'[f] = FALSE /\ \A g \in Files \ {f} : acked'[g] = acked[g]
  BY DEF Change, IInv, Types
<1>4. entry' = entry
  BY DEF Change
<1> QED
  BY <1>1, <1>2, <1>3, <1>4, FileChanges

(* A flush promises its file. *)
LEMMA FlushPaths ==
    ASSUME IInv, NEW f \in Files, UNCHANGED <<entry, work>>, acked' = [acked EXCEPT ![f] = TRUE]
    PROVE  PathStep
<1> DEFINE written == {f}
<1>1. \A g \in Files : acked'[g] = (g \in written \/ acked[g])
  BY DEF IInv, Types
<1>2. entry' = entry /\ \A g \in Files : Named(g) => work'[g] = work[g]
  OBVIOUS
<1> HIDE DEF written
<1> QED
  BY <1>1, <1>2, FilesCommit

(* Files that are let go may be flushed, and change in no other way. *)
LEMMA LetGoPaths ==
    ASSUME IInv, NEW ob, GivenUp(ob), NEW flushed, NEW left \in SUBSET flushed, LetGo(ob, flushed, left)
    PROVE  PathStep
<1>1. PICK promise, closed :
        /\ \A f \in Files : work'[f] = IF f \in closed /\ ~Named(f) THEN Empty ELSE work[f]
        /\ \A f \in Files : acked'[f] = (f \in promise \/ acked[f])
  BY LetGoStep
<1>2. entry' = entry
  BY LetGoStep
<1>3. \A f \in Files : Named(f) => work'[f] = work[f]
  BY <1>1
<1> QED
  BY <1>1, <1>2, <1>3, FilesCommit

(* A crash keeps what was promised. *)
LEMMA CrashPaths ==
    ASSUME IInv, Crash
    PROVE  PathStep
<1>1. /\ entry' = entry /\ acked' = [f \in Files |-> TRUE]
      /\ \A f \in Files : work'[f] \in Contents \cup {Torn}
      /\ \A f \in Files : Named(f) /\ acked[f] => work'[f] = work[f]
  BY CrashStep
<1>2. ASSUME NEW p \in Paths
      PROVE  /\ ContentOf(p)' \in Contents \cup {Torn, Absent}
             /\ PromisedAt(p) => ContentOf(p)' = ContentOf(p)
             /\ ContentOf(p)' = Absent <=> ContentOf(p) = Absent
             /\ PromisedAt(p)' = TRUE
  <2>1. CASE entry[p] = NoFile
    BY <1>1, <2>1 DEF ContentOf, PromisedAt
  <2>2. CASE entry[p] # NoFile
    <3>1. entry[p] \in Files /\ Named(entry[p])
      BY <2>2 DEF Named, IInv, Types
    <3>2. work'[entry[p]] \in Contents \cup {Torn}
      BY <1>1, <3>1
    <3>3. acked[entry[p]] => work'[entry[p]] = work[entry[p]]
      BY <1>1, <3>1
    <3>4. acked'[entry[p]] = TRUE
      BY <1>1, <3>1
    <3>5. work[entry[p]] \in Contents \cup {Torn}
      BY <3>1 DEF IInv, Types
    <3>6. /\ ContentOf(p) = work[entry[p]] /\ ContentOf(p)' = work'[entry[p]]
          /\ PromisedAt(p) = acked[entry[p]] /\ PromisedAt(p)' = acked'[entry[p]]
      BY <1>1, <2>2 DEF ContentOf, PromisedAt
    <3> QED
      BY <3>2, <3>3, <3>4, <3>5, <3>6, Distinct
  <2> QED
    BY <2>1, <2>2
<1>3. LostAt
  BY <1>2 DEF LostAt
<1> QED
  BY <1>3 DEF PathStep

-----------------------------------------------------------------------------
(* All steps. *)

(* The program begins in the invariant. *)
LEMMA InitIInv == Init => IInv
<1> SUFFICES ASSUME Init PROVE IInv
  OBVIOUS
<1>1. Nothing \in Records /\ Nothing.type \notin Handle
  BY Distinct DEF Nothing, Records, NoObj, Handle
<1>2. \A b \in {MaxObjects, MaxChanges, MaxCrashes} : 0 \in 0..b
  BY BoundsAssumption
<1>3. Types
  BY <1>1, <1>2, Distinct DEF Init, Types
<1>4. Unmade /\ OneName
  BY DEF Init, Unmade, OneName
<1>5. FilesOK
  BY <1>1 DEF Init, FilesOK, FileOK, Held, Holders
<1> QED
  BY <1>3, <1>4, <1>5 DEF IInv

Step == IInv' /\ PathStep /\ (made' # made => Undisturbed)

(* The invariant says nothing of the archives that are under way. *)
LEMMA Unchanging ==
    ASSUME IInv, UNCHANGED <<entry, mode, work, disk, obj, made, image, changes, crashes, acked>>
    PROVE  IInv'
<1>1. Types' /\ Unmade' /\ OneName'
  BY DEF IInv, Types, Unmade, OneName
<1>2. \A f \in Files : FileOK(f)'
  BY DEF IInv, FilesOK, FileOK, Held, Holders, Writable
<1> QED
  BY <1>1, <1>2 DEF IInv, FilesOK

(* Every step preserves the invariant and does to paths what Durable allows. *)
LEMMA NextStep ==
    ASSUME IInv, Next
    PROVE  Step
<1>1. ASSUME IInv' /\ Undisturbed /\ (SamePaths \/ \E p \in Paths : NewAt(p))
      PROVE  Step
  BY <1>1 DEF Step, PathStep
<1>2. ASSUME IInv', PathStep, made' = made
      PROVE  Step
  BY <1>2 DEF Step
<1>3. ASSUME NEW p \in Paths, NEW m \in {"r", "w", "a", "e"}, OpenFile(p, m)
      PROVE  Step
  BY <1>1, <1>3, OpenStep DEF OpenFile
<1>4. ASSUME NEW p \in Paths, \/ \E m \in {"r", "a"} : OpenArchive(p, m)
                              \/ RemoveOld(p) \/ MakeNew(p) \/ MakeNewFails(p)
      PROVE  Step
  <2>1. ASSUME NEW m \in {"r", "a"}, OpenArchive(p, m)
        PROVE  Step
    BY <1>1, <2>1, OpenStep DEF OpenArchive
  <2>2. CASE RemoveOld(p)
    BY <1>2, <2>2, RemoveOldStep DEF RemoveOld
  <2>3. CASE MakeNew(p)
    BY <1>1, <2>3, OpenStep DEF MakeNew
  <2>4. CASE MakeNewFails(p)
    <3>1. UNCHANGED <<entry, mode, work, disk, obj, made, image, changes, crashes, acked>>
      BY <2>4 DEF MakeNewFails
    <3>2. IInv'
      BY <3>1, Unchanging
    <3> QED
      BY <1>2, <3>1, <3>2, UnchangedPaths DEF PathStep
  <2> QED
    BY <1>4, <2>1, <2>2, <2>3, <2>4
<1>5. ASSUME NEW type \in {"file", "archive"}, OpenMemory(type) \/ OpenImage(type)
      PROVE  Step
  BY <1>1, <1>5, OpenMemoryStep, OpenImageStep
<1>6. ASSUME NEW o \in Objs, NEW type \in {"file", "group"}, Share(o, type)
      PROVE  Step
  BY <1>1, <1>6, ShareStep
<1>7. ASSUME NEW o \in Objs, View(o)
      PROVE  Step
  BY <1>1, <1>7, ViewStep
<1>8. ASSUME NEW o \in Objs, NEW f \in Files, SetItem(o, f)
      PROVE  Step
  BY <1>2, <1>8, SetItemStep, SetItemPaths DEF SetItem
<1>9. ASSUME NEW o \in Objs, NEW f \in Files, Change(o, f)
      PROVE  Step
  BY <1>2, <1>9, ChangeStep, ChangePaths DEF Change
<1>10. ASSUME NEW o \in Objs, NEW f \in Files, Flush(o, f)
       PROVE  Step
  BY <1>2, <1>10, FlushStep, FlushPaths DEF Flush
<1>11. ASSUME NEW o \in Objs, NEW f \in Files, AsBuffer(o, f)
       PROVE  Step
  BY <1>2, <1>11, AsBufferStep, FlushPaths DEF AsBuffer
<1>12. ASSUME NEW o \in Objs, NEW f \in Files, Exit(o, f)
       PROVE  Step
  <2>1. GivenUp(Left(obj, o)) /\ LetGo(Left(obj, o), {f}, {f})
    BY <1>12, ExitGivesUp DEF Exit, Uses
  <2>2. IInv' /\ UNCHANGED made
    BY <2>1, LetGoStep
  <2> QED
    BY <1>2, <2>1, <2>2, LetGoPaths
<1>13. ASSUME NEW o \in Objs, Drop(o)
       PROVE  Step
  <2>1. /\ GivenUp([obj EXCEPT ![o].named = FALSE])
        /\ LetGo([obj EXCEPT ![o].named = FALSE], {}, {})
    BY <1>13, DropGivesUp DEF Drop
  <2>2. IInv' /\ UNCHANGED made
    BY <2>1, LetGoStep
  <2> QED
    BY <1>2, <2>1, <2>2, LetGoPaths
<1>14. ASSUME Crash
       PROVE  Step
  BY <1>2, <1>14, CrashStep, CrashPaths
<1> QED
  BY <1>3, <1>4, <1>5, <1>6, <1>7, <1>8, <1>9, <1>10, <1>11, <1>12, <1>13, <1>14 DEF Next

(* The invariant that everything below rests on holds in every run.        *)
THEOREM Inductive == Spec => []IInv
<1>1. IInv /\ Next => IInv'
  BY NextStep DEF Step
<1>2. IInv /\ UNCHANGED vars => IInv'
  BY Unchanging DEF vars
<1> QED
  BY <1>1, <1>2, InitIInv, PTL DEF Spec

(* Mode 'w' is under way for names of files. *)
LEMMA PendingPaths == Spec => [](pending \subseteq Paths)
<1>1. Init => pending \subseteq Paths
  BY DEF Init
<1>2. ASSUME pending \subseteq Paths, Next
      PROVE  (pending \subseteq Paths)'
  <2>1. ASSUME pending' = pending
        PROVE  (pending \subseteq Paths)'
    BY <1>2, <2>1
  <2>2. ASSUME NEW p \in Paths, RemoveOld(p) \/ MakeNew(p) \/ MakeNewFails(p)
        PROVE  (pending \subseteq Paths)'
    BY <1>2, <2>2 DEF RemoveOld, MakeNew, MakeNewFails
  <2>3. CASE Crash
    BY <2>3 DEF Crash
  <2> QED
    BY <1>2, <2>1, <2>2, <2>3
    DEF Next, OpenFile, OpenArchive, OpenMemory, OpenImage, Share, View, SetItem, Change,
        Flush, AsBuffer, Exit, Drop, LetGo
<1>3. ASSUME pending \subseteq Paths, UNCHANGED vars
      PROVE  (pending \subseteq Paths)'
  BY <1>3 DEF vars
<1> QED
  BY <1>1, <1>2, <1>3, PTL DEF Spec

(* The variables have their types, and a file is open exactly while a live *)
(* object has a handle on it (file.cpp 24-60, group.hpp 48-51).            *)
THEOREM Typing == Spec => []TypeOK
<1>1. IInv /\ pending \subseteq Paths => TypeOK
  BY Consequences
<1> QED
  BY <1>1, Inductive, PendingPaths, PTL

(* What the program has promised is on the disk: after a __setitem__, a    *)
(* flush, an as_buffer, the end of a `with` block or of an archive, no     *)
(* change stays in the buffers of a file, in whatever order blocks are     *)
(* left and archives, views and files are dropped (archive.py 199,         *)
(* 416-420 and 425-427).                                                   *)
THEOREM Safety == Spec => []NothingLost
<1>1. IInv => NothingLost
  BY Consequences
<1> QED
  BY <1>1, Inductive, PTL

(* Making an object disturbs nobody: what others read through their        *)
(* handles and have flushed stays, in every mode (file.cpp 42, archive.py  *)
(* 394-397).                                                               *)
THEOREM NoDisturbance == Spec => OthersUndisturbed
<1>1. IInv /\ [Next]_vars =>
        [made' # made =>
          \A f \in Files : Held(f) => work'[f] = work[f] /\ disk'[f] = disk[f]]_vars
  BY NextStep DEF Step, Undisturbed
<1> QED
  BY <1>1, Inductive, PTL DEF Spec, OthersUndisturbed

-----------------------------------------------------------------------------
(* The refinement. *)

(* A step of the paths is one of the abstract specification. *)
LEMMA DurableStep ==
    ASSUME PathStep
    PROVE  [Durably!Next]_(Durably!durableVars)
<1> DEFINE content == [p \in Paths |-> ContentOf(p)]
           promised == [p \in Paths |-> PromisedAt(p)]
<1>1. CASE SamePaths
  <2>1. content' = content /\ promised' = promised
    BY <1>1 DEF SamePaths, SamePath
  <2> QED
    BY <2>1 DEF Durably!durableVars
<1>2. ASSUME NEW p \in Paths, NewAt(p)
      PROVE  Durably!Next
  <2>1. /\ content' = [content EXCEPT ![p] = Empty]
        /\ promised' = [promised EXCEPT ![p] = FALSE]
    BY <1>2 DEF NewAt, SamePath
  <2> QED
    BY <2>1 DEF Durably!Next, Durably!Create
<1>3. ASSUME NEW p \in Paths, NEW c \in Contents, NEW promise \in BOOLEAN, ChangedAt(p, c, promise)
      PROVE  Durably!Next
  <2>1. /\ content[p] \in Contents
        /\ content' = [content EXCEPT ![p] = c]
        /\ promised' = [promised EXCEPT ![p] = promise]
    BY <1>3 DEF ChangedAt, SamePath
  <2> QED
    BY <2>1 DEF Durably!Next, Durably!Change
<1>4. ASSUME NEW ps \in SUBSET Paths, CommittedAt(ps)
      PROVE  Durably!Next
  <2>1. /\ content' = content
        /\ promised' = [p \in Paths |-> p \in ps \/ promised[p]]
    BY <1>4 DEF CommittedAt
  <2> QED
    BY <2>1 DEF Durably!Next, Durably!Commit
<1>5. ASSUME NEW p \in Paths, RemovedAt(p)
      PROVE  Durably!Next
  <2>1. /\ content' = [content EXCEPT ![p] = Absent]
        /\ promised' = [promised EXCEPT ![p] = TRUE]
    BY <1>5 DEF RemovedAt, SamePath
  <2> QED
    BY <2>1 DEF Durably!Next, Durably!Remove
<1>6. CASE LostAt
  <2>1. /\ content' \in [Paths -> Contents \cup {Torn, Absent}]
        /\ \A p \in Paths : promised[p] => content'[p] = content[p]
        /\ \A p \in Paths : content'[p] = Absent <=> content[p] = Absent
        /\ promised' = [p \in Paths |-> TRUE]
    BY <1>6 DEF LostAt
  <2> QED
    BY <2>1 DEF Durably!Next, Durably!Crash
<1> QED
  BY <1>1, <1>2, <1>3, <1>4, <1>5, <1>6 DEF PathStep

(* The handles and buffers keep what Durable promises of each path: a      *)
(* completed __setitem__, flush, as_buffer, __exit__ or close survives a   *)
(* crash until the next change, a file that was replaced is never seen     *)
(* under its old name again, and a file is missing only where mode 'w' has *)
(* removed it (archive.py 89-91 and 394-399, file.cpp 75-115).             *)
THEOREM Refinement == Spec => ImplementsDurable
<1>1. Init => Durably!Init
  <2>1. ASSUME Init, NEW p \in Paths
        PROVE  ContentOf(p) = Absent /\ PromisedAt(p) = TRUE
    BY <2>1 DEF Init, ContentOf, PromisedAt
  <2> QED
    BY <2>1 DEF Durably!Init
<1>2. IInv /\ [Next]_vars => [Durably!Next]_(Durably!durableVars)
  <2>1. ASSUME UNCHANGED vars
        PROVE  PathStep
    BY <2>1, UnchangedPaths DEF vars, PathStep
  <2> QED
    BY <2>1, NextStep, DurableStep DEF Step
<1> QED
  BY <1>1, <1>2, Inductive, PTL DEF Spec, ImplementsDurable, Durably!Spec
=============================================================================
