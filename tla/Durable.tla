------------------------------ MODULE Durable ------------------------------
(***************************************************************************)
(* What an archive on disk promises to its users, in terms of paths only:  *)
(* no handles, no buffers, no notion of a file being open.  A path has a   *)
(* content, and the content may be promised: then a crash does not change  *)
(* it.  A change that is not promised leaves the path open to anything.    *)
(***************************************************************************)
EXTENDS Naturals

CONSTANTS Paths,      \* names of files
          Contents,   \* what a readable file may contain
          Empty,      \* the content of a new file
          Torn,       \* what cannot be opened any more
          Absent      \* there is no file

VARIABLES content,    \* what reads of each path give
          promised    \* whether it is to survive a crash

durableVars == <<content, promised>>

Init ==
    /\ content = [p \in Paths |-> Absent]
    /\ promised = [p \in Paths |-> TRUE]

(* A file appears, or an old one is emptied. *)
Create(p) ==
    /\ content' = [content EXCEPT ![p] = Empty]
    /\ promised' = [promised EXCEPT ![p] = FALSE]

(* A file is taken away, for a new one or for good; that is final. *)
Remove(p) ==
    /\ content' = [content EXCEPT ![p] = Absent]
    /\ promised' = [promised EXCEPT ![p] = TRUE]

(* A change of the file; it is promised when its call says so. *)
Change(p, c, promise) ==
    /\ content[p] \in Contents
    /\ content' = [content EXCEPT ![p] = c]
    /\ promised' = [promised EXCEPT ![p] = promise]

(* Somebody flushes or closes files. *)
Commit(ps) ==
    /\ promised' = [p \in Paths |-> p \in ps \/ promised[p]]
    /\ UNCHANGED content

(* The process ends without closing anything.  What is there now stays. *)
Crash ==
    /\ content' \in [Paths -> Contents \cup {Torn, Absent}]
    /\ \A p \in Paths : promised[p] => content'[p] = content[p]
    /\ \A p \in Paths : content'[p] = Absent <=> content[p] = Absent
    /\ promised' = [p \in Paths |-> TRUE]

Next ==
    \/ \E p \in Paths : Create(p) \/ Remove(p)
    \/ \E p \in Paths, c \in Contents, promise \in BOOLEAN : Change(p, c, promise)
    \/ \E ps \in SUBSET Paths : Commit(ps)
    \/ Crash

Spec == Init /\ [][Next]_durableVars
=============================================================================
