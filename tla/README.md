# Verification of h5

TLA+ modules, TLC configurations and TLAPS proofs for the h5 library: a C++
wrapper of HDF5 (`src/c++/h5`) and the Python archive built on it
(`src/python/h5`). Line numbers are those of the sources.

- [The system](#the-system): inventory of the components and of what is hard
- [The modules](#the-modules): what is modelled, and how it corresponds to the code
- [The runs](#the-runs): what TLC checks, on which instances
- [The proofs](#the-proofs): what TLAPS proves, from which assumptions
- [Disagreements](#disagreements-between-code-and-documentation)
- [Seen while modelling](#seen-while-modelling): what the code does that no run is about
- [Not modelled](#not-modelled), and [what could come next](#what-could-come-next)

To check a run: `tlc -workers 2 -config archive.cfg MCArchive`; a proof:
`tlapm HDFArchiveProofs.tla`. `PROJECT.json` lists every run, the seeded fault
that shows that each property can fail, the lines each definition stands for,
and the hazards.

## The system

The program is a library: it has no threads and no messages. What makes it hard
is state that is shared and cached. Several handles, groups, Python views and
files are open on one tree of links; operations are sequences of HDF5 calls of
which any one may throw; and the Python layer answers questions about a group
from a list it keeps by hand.

| Component (sources) | State it keeps | Operations | Interacts with | What must hold |
|---|---|---|---|---|
| `h5::object` (`object.cpp`, `object.hpp`) | one HDF5 identifier per C++ object; the library keeps a reference count per identifier | steal, borrow, copy, move, assign, close, destroy | base class of `file`, `group`, `dataset`, `datatype`, ... | the count is the number of owners; closed exactly when the last owner goes |
| `h5::group` (`group.cpp`) | none of its own: the links in the file | `has_key`, `open_group`, `create_group`, `create_dataset`, `create_softlink`, `unlink`, listing | every write of every type goes through it | hard links form a tree; a call that is refused changes nothing, and one that fails costs at most the link it was to replace |
| `h5::file` (`file.cpp`) | the identifier of an open file, or of a memory image | open in mode r, w, a, e; flush; `as_buffer` | groups keep it open | what was flushed survives a crash; opening disturbs nobody; a memory file has the bytes it was made from |
| `array_interface` (`array_interface.cpp`) | none | write, write_slice, read, attributes; strides to hyperslabs | scalars, `std::array`, `std::vector`, numpy | the selection is exactly the elements of the view; sizes agree |
| containers (`stl/*.hpp`, `generic.hpp`) | none: recursion over the value | `h5_write`, `h5_read` per template | group, array_interface, format | what is read is what was written |
| strings (`stl/string.cpp`, `stl/vector.cpp`) | none | char buffers, variable and fixed-size strings | containers, Format attributes | padding is undone |
| Format tags (`format.cpp`) | the attribute `Format` of a group | write, read, assert | containers, Python | tells the type of a group |
| `HDFArchiveGroup` and its basic layer (`archive.py`, `archive_basic_layer.py`) | `_group`, `cached_keys`, `ignored_keys`, `options` per view | `in`, `[]`, `[] =`, `del`, `create_group`, `create_softlink`, `get_raw`, iteration | group, h5py_io, formats | the cache agrees with the file; objects are stored whole or without a Format; protected entries stay |
| `HDFArchive` (`archive.py` 310-427) | an open file and its root view | open modes, remote files, `with`, `as_bytes`, `__del__` | h5::file | what was stored, flushed or left by `with` is on disk, in whatever order archives and views go; the file is closed in the end |
| Python values (`h5py_io.cpp`) | none | `h5_write_bare`, `h5_read_bare` | array_interface, the basic layer | a value comes back with its type and elements |
| scalars (`scalar.hpp`, `complex.hpp`) | none | datasets and attributes; three forms of a complex number | array_interface | every form is found by every reader |
| format registry (`formats.py`) | `_formats_dict` and a list of patterns, per process | register, look up a class by tag | `archive.py` | whatever is registered, an object is never read as another class |

### What is hard

- **Caches.** A view lists its group when it is made and from then on updates
  `cached_keys` by hand in five places (`archive_basic_layer.py` 79-105). `in`,
  `[]`, `del` and the option `do_not_overwrite_entries` look at the list, never
  at the file. Two views of one group, or a failed write, set them apart.
- **Partial failure.** `archive[k] = obj` unlinks the old value, makes a group,
  recurses into the entries and writes the Format last; h5_write of a C++
  container writes the Format first. Any HDF5 call or user method may throw.
- **Aliasing.** A group object is a handle, not a path: it goes on working after
  its path was given to something else. A view can be stored into itself, into
  its own parent or into what it contains.
- **Reference counts.** Borrowed and owned identifiers look the same.
- **Assertions.** `H5_ASSERT` and `H5_EXPECTS` (`macros.hpp` 51-60) are no
  exceptions: they end the process, in every build. Some of them look at what is
  in the file.
- **Absence.** An empty optional is written as nothing.
- **Layout.** A numpy array of any strides becomes a slab of an imagined parent
  array, found by dividing strides by their common divisors; HDF5 then selects
  again, in memory and in the file.
- **Conventions.** Three forms of complex numbers, two names of the Format
  attribute, strings of fixed and of variable size, and a table of types in
  which several C types are one HDF5 type: each reader must find all of them.
- **Lifetimes.** A file is open as long as any identifier in it is. Views keep
  their parent alive, `with` deletes the root's group under them, the file may be
  replaced or opened again meanwhile, and until somebody flushes or the last
  identifier goes, changes are only in the library's buffers.

`PROJECT.json` lists these hazards one by one with the line where they bite and
the properties that watch them.

## The modules

```
LinkStore          objects at addresses and the named links of each group (HDF5)
  GroupOps         h5::group as functions of the link table
    GroupOpsProofs        what the operations do to any link table
    H5Group        C++ clients of h5::group                      MCGroup
      H5GroupProofs
    HDFArchive     Python views                                  MCArchive
      HDFArchiveProofs    caches, locality, protection
        ReadingProofs     what stored and copied groups read as
    Containers     h5_write and h5_read of nested containers
      ContainerPromises   what a reader may rely on              MCContainers
        ContainersProofs  locality, round trips, no mixtures
Ownership          what shared ownership of an identifier means (abstract)
H5Handle           h5::object; implements Ownership
  H5HandleProofs
Durable            what paths promise to survive a crash (abstract)
H5File             files, the objects that hold them, buffers, crashes;
                   implements Durable                            MCFile
  H5FileProofs
Datatypes          HDF5 types of the C++ types
  ArrayInterface   views, hyperslabs, datasets and attributes
    Strings        strings, vectors and tables of strings
      PyValues     scalars, numpy arrays, h5_write_bare, h5_read_bare
        Values     one key and one attribute that all of them write   MCValues
      Formats      Format tags and the registry                  MCFormats
        FormatsProofs
```

**Ownership** and **H5Handle.** `ref` is the library's reference count of each
identifier, `held` the `id` member of each C++ object, `raw` the references owned
through a plain `hid_t`, `lost` those nobody can give back any more. One action
per special member: `Steal` (the constructor from `hid_t`), `FromBorrowed`, `CopyConstruct`, `MoveConstruct`,
`CopyAssign`, `MoveAssign` (both also with the object itself on the right),
`Close`, which is also the destructor, `BoolType`, the datatype that
`hid_t_of<bool>` makes, and `AttributeType`, the one `read_attribute` asks for.
`StealFailure` wraps the negative id of a failed open.
`Ownership` says it in terms of shares only: whoever holds the last share and
gives it up closes the identifier in the same step.

**LinkStore** and **GroupOps.** An object has an address and a kind; a group maps
names to hard or soft links. A soft link is looked up again at every use. HDF5 is
external: it is modelled by what `group.cpp` asks of it. The operations return
the new table together with whether they threw, so a caller composes them in the
order of the code: `create_group` is `unlink` and then a creation that fails if
the name is still taken, or because the library cannot create (`able`), and then
the old link is gone. Addresses are not given out twice: an object that was
unlinked while somebody has it open stays usable in HDF5, and a fresh address
never tells it from a new one. Names are single components, without `/`.

**H5Group** has variables that are open on groups, an action per operation, and
`outcome`, how the last call ended: `refused` by a check of its own or of the
library, or `failed` in the library. `FailUnlink` is an `H5Ldelete` that fails.
`OpenDataset` and `List` change nothing but
`outcome`: they fail on a link of the wrong kind, and on any dangling link in the
group.

**HDFArchive.** `view` is what a Python variable holds: the group and
`cached_keys`. Only how often a key is in the list matters to the code, so the
list is a function from names to counts. `data` and `tag` are the contents of
datasets and the Format of groups. A client's `__setitem__` of an object is the
one operation with intermediate states: `call` is the call under way and `stack`
its recursion, a frame for each nested `SubGroup` of lines 176-193 with the
entries still to store and the Format to write. The actions:

| Action | Code |
|---|---|
| `SetLeaf`, `SetRejected`, `SetTorn` | `__setitem__` of an array or scalar: written; raised after `_clean_key`, before or after `h5_write_bare` or `create_group` has unlinked the key; failed after the dataset was created |
| `SetGroup`, `CopyView`, `CopyEntry` | `__setitem__` of an object, of a view, of what `w[j]` returned: the group is made, listed and opened |
| `StoreLeaf`, `StoreGroup` | one entry of the innermost group |
| `Finish` | the entries are done: `write_attributes`, return to the caller |
| `Raise`, `RaiseTorn` | an exception anywhere in the recursion |
| `DelItem`, `CreateGroup`, `CreateSoftlink`, `CreateFails` | the other operations; a `create_group` or `create_softlink` that raises when the key is unlinked |
| `OpenArchive`, `GetRaw`, `Drop` | views come and go |

`__getitem__` does not change anything and is the function `Value`: a dataset, an
object rebuilt from a group with a Format, or a view of a group without one.
Two history variables serve the properties only: `goal`, the object a group was
made for until something inside is changed, and `foreign`, the views whose group
another view has changed.
`protect`, the option `do_not_overwrite_entries`, is chosen once and is the same
for all views: subgroups inherit `options` from their parent.

**Containers.** A type is a tree of templates, a value a tree of the same shape;
`TypeList` names each type after the types it is made of (`MadeOf`).
`pending` is the list of `h5_write` calls to come, the next one first: writing a
vector, array, pair or tuple, map or map with other keys makes a group, gives it
its Format and puts the calls for its elements in front of the list. An optional
and a variant are replaced by what they hold. `Fail`, `FailUnlinked` and
`FailTorn` are the exceptions: before the call touches the file, after the old
link is gone, after the object was made. `Read` is `h5_read` as a function of the
file, for each type from those of its elements (`ReadBy`). It gives a value, or
`Throw`, or `Terminate`: a `std::array` checks its length by `H5_EXPECTS`, so a
length that does not fit, or was not written, ends the process (`array.hpp` 95,
129). `FormatOf` is the Format a type gives its group, and `try_read` that of
`generic.hpp` 210-217, which reads only what is there; the lambda of that name in
`variant.hpp` 78 is the choice of an alternative in `ReadVariant`. Strings are left
out here: a string dataset whose write failed makes `string.cpp` 86 append a null
pointer, which has no meaning.

**ContainerPromises** states what a reader may rely on: `Storable`, the values
that reading gives back, and `Remains`, what a write that threw may leave to be
read. Both are recursive functions of the values, like `Read` of the types.

**Datatypes**, **ArrayInterface**, **Strings** and **PyValues** are pure
operators, one for each function of the code, under its name (`h5_name_table`,
`hdf5_type_equal`, `write`, `read`,
`write_slice`, `get_parent_shape_and_h5_strides`, `to_char_buf`, `h5_to_npy`,
`h5_read_bare`, ...). They compute what becomes of the object under a key, and
whether the call threw. The idea that keeps them short: *a number is the address
it was written from*, counted in elements from the start of the view. A dataset
is its type, its lengths, whether it is marked `__complex__`, its chunks, and the
list of those addresses; a round trip is exact if they come back in C order.
`Selected` is HDF5's selection of a hyperslab, external; `Cells` is the memory
dataspace of a view, so the addresses that a dataset gets are those HDF5 finds in
the parent array that the code imagined, not those the caller had in mind. A
string is a sequence of characters of which only NUL matters. The readers of
strings raise for a wrong rank and end the process for a wrong class
(`Terminated`).

**Values** puts them together: `obj` is the object under one key, `attr` one
attribute, and an action is a call of one writer: `h5_write_bare` and
`HDFArchive`'s copy in C order (`SetItem`), `h5_write` of scalars, vectors,
strings, lists and tables of strings, `write_slice`, what other programs leave
(pairs, subgroups, strings of fixed size), and the writers of attributes, those of
strings, lists, tables of strings and variants among them. Reading changes nothing
and is in the properties.

**Formats.** `registry` and `compat` are the two tables of one Python process,
empty again after `Restart`; `attrs` are the attributes of an object and of one
of its fields; `stored`, a history variable, is the class each was stored as. A
tag is a sequence of syllables, so a pattern matches the tags it begins, which is
what `re.match` does with the patterns in use. Objects come from this process
(`Store`), from C++ or a process with another registry (`StoreElsewhere`), from
older versions (`StoreOld`), and attributes from `write_attribute` and, with any
text that happens to come out, a tag among them, from
`h5_write_attribute_to_key`: what class an object tagged by the latter is of is
`Undefined`, and the properties say nothing of it.

**Durable** and **H5File.** `Durable` knows paths only: each has a content, which
may be promised. A crash keeps what is promised and may do anything to the rest.
`H5File` has files (inodes) with a content in the library (`work`) and one on disk
(`disk`), the directory `entry`, and `obj`, the objects of the program that hold
files: `h5::file`, `h5::group` with its `parent_file`, archives and views. A view
has a `parent`; an object lives while a variable names it or a living object has
it as its parent (`Living`). The actions:

| Action | Code |
|---|---|
| `OpenFile`, `OpenArchive` | `file(name, mode)`, which shares a file that is open already; `HDFArchive` in modes `'r'` and `'a'` |
| `RemoveOld`, `MakeNew`, `MakeNewFails` | `HDFArchive(path, 'w')`, in two steps: `os.remove`, whose error is ignored, and the new file, or an exception. The program may be killed between them, and others may open or make the path (`pending`) |
| `OpenMemory`, `OpenImage` | `file()`, `file(buf, size)`. All memory files have one name: while one is open, the first fails and the second shares it |
| `Share`, `View` | `group(file)`, `get_file()`, `open_group`; `HDFArchiveGroup(parent, key)` |
| `SetItem`, `Change` | `__setitem__` with its `_flush()`; every change that is not followed by one |
| `Flush`, `AsBuffer` | `file::flush`, `file::as_buffer`, `as_bytes` |
| `Drop`, `Exit` | the end of a variable, with `__del__` of the archives that go with it; `__exit__` |
| `Crash` | the process is killed |

`init` of an archive is the `SetItem` steps that follow its opening; `serialize`
is `OpenMemory`, `Change`, `AsBuffer` and `Drop`, `deserialize` is `OpenImage`
and `Drop` (`serialization.hpp` 47-68). A killed process leaves a file that was
changed since its last flush with the old content, the new one, or one that HDF5
refuses to open (`Torn`): the library writes its metadata in no order that it
promises. `acked` records, for each file, that a call which promises its content
has returned since the last change. `LetGo`, what happens when references are
given up, keeps apart what the program flushes (`__exit__`, and the `__del__` of
the archives that die) and what the library writes because nobody holds the file
any more.

## The runs

| Run | Instance | Shows |
|---|---|---|
| `handle` | 3 objects, 3 identifiers | `TypeOK`, `Counted`: the count is the number of owners; `ImplementsOwnership`: the refinement |
| `group` | 4 objects, 2 names, 2 group variables | `Forest`: hard links stay a tree even through handles to unlinked groups; `ThrowsCleanly` |
| `archive` | 5 objects, 2 names, 2 views; an object in an object, the inner one alone, and one whose Format is not registered | `Coherent`, `CommitMark`, `CopyFaithful`, `StoreIsLocal` |
| `archive_protected` | the same with 4 objects, and keys that may be listed twice | `Protected` |
| `containers` | 2 calls, 14 types nested up to three deep, 25 values | `RoundTrip`, `PartOnly`, `Untouched` |
| `values` | 2 calls; doubles of rank 1 to 3 with every stride up to 6, complex arrays, arrays in C order of every type of the table; strings with NULs; slabs with blocks and strides | `ArraysExact`, `PlacedExactly`, `PyRoundTrip`, `ChunkFits`, `ComplexEveryWay`, `VectorsExact`, `TextsRoundTrip`, `AttributeExact`, `SliceLocal` |
| `formats` | 4 tags, 2 classes, an object and a field, one pattern of h5 and up to two of clients | `NeverMisread`, `ReadableStays`, `TagOnce`, `AssertAgrees` |
| `file` | 1 path, 2 files, 3 objects, 2 changes, 1 crash | `NothingLost`, `OthersUndisturbed`, `ImplementsDurable`: the refinement, `EventuallyClosed` |
| `group_softlink`, `archive_duplicates`, `values_complex`, `file_image` | the same or smaller | the disagreements below: TLC finds each violated |

What the less obvious properties say:

- `Coherent`: a view nobody else interfered with lists every key once, lists only
  what is linked, and lists every link whose write did not fail.
- `CommitMark`: a group with a Format reads as the very object that was stored, at
  every depth, until a later call changes something inside. Objects with a view
  among their entries are left out, at every depth: such an entry becomes a group
  without Format, and reads back as a view of that group, not of the one it was
  copied from.
- `CopyFaithful`: a copy of a group reads as its source did when the call began,
  even if the target replaces the source or a part of it. A copy into the source
  itself is left out: what it should give is not defined, the code does not end.
- `ThrowsCleanly`: a call of `h5::group` that is refused has changed nothing. One
  in which the library fails has changed nothing but, perhaps, the link of one
  name in a group that is open: `create_group`, `create_dataset` and
  `create_softlink` unlink first (`group.cpp` 114, 131, 152).
- `Protected`: with `do_not_overwrite_entries`, no `__setitem__`, at any depth and
  however it ends, takes away what is stored under a key. `del`, `create_group` and
  `create_softlink` do, for they do not look at the option
  (`archive_basic_layer.py` 87-93), and so does a view that another one has left
  out of date, for keys it does not list. A key whose write failed is not
  protected: no view lists it.
- `PartOnly`: however `h5_write` ended, `h5_read` throws, or ends the process
  because the length of an array was not written, or gives a part of the
  new value, or what was there before if the name was not touched. A part
  (`Remains`) is the value with elements cut off at the end of a vector, left out
  of a map, with optionals empty or datasets not filled. A variant may also come
  back as an earlier alternative of the same HDF5 type, as in
  `variant<long, long long>`, where nothing in the file tells the two apart.
- `RoundTrip` is for `Storable` values. `Storable` is worth reading: an optional
  may be empty only as the value of a map whose keys are not strings, as an
  element of a `std::array`, or under a name that was free. Elsewhere it is lost,
  shortens a vector by its last element, or makes a pair unreadable. A variant
  must hold the first of its alternatives that has the HDF5 type.
- `ArraysExact`: whatever the strides, what is written is the elements of the
  array in C order, or HDF5 refuses. It excludes two kinds of arrays for which it
  is false (`Sound`): complex arrays that are not in C order (`values_complex`), and
  byte strings.
- `PlacedExactly`: the converse for reading, and that no other address is touched.
- `PyRoundTrip`: the types for which it holds are listed in `ReadableArrays` and
  `ReadableNumbers`; what happens to the others is under *Seen while modelling*.
- `SliceLocal` states the effect of `write_slice` with its own definition of what
  a slab holds (`Holds`), not with the one the model selects by.
- `NeverMisread`: an object comes back as an instance of its class, as a plain
  group, or not at all, whatever the reading process has registered, unless
  `h5_write_attribute_to_key` has tagged it. It rests on
  `PatternAssumption`: a client registers a pattern only for older formats of one
  class.
- `ReadableStays`: registering more never makes a readable object come back as
  something else; only an object that was found by a pattern may become
  unreadable, by a second pattern.
- `NothingLost`: when a call has returned that promises what the file holds (the
  `_flush()` of `__setitem__`, `flush`, `as_buffer`, leaving `with`, the end of an
  archive), no change is in buffers only, even if views or other handles keep the
  file open and the library has no reason to write it. And no file is closed with
  changes in its buffers.
- `ImplementsDurable`: a crash does not undo a completed `__setitem__`, `flush`,
  `as_buffer`, `__exit__` or close, and a file that was replaced while open is
  not seen under its old name again. A file may be missing only where mode `'w'`
  has removed it.

### Bounds

- `MaxNodes` bounds the objects a file ever holds. A shared or replaced subgroup
  needs two levels below the root; a nested store uses three objects, which with
  five leaves room for content that is replaced. Behaviours end when the
  addresses are used up.
- Two names: a source and a target, an old and a new entry, a soft link and what
  it leads to. `Aliases` is one pair in `MCArchive`, because which name is the
  target makes no difference.
- Two views: one that acts and one that goes stale. Copying within one group,
  from a child into its parent and back needs no third.
- `MaxListed` bounds how often `create_group` and `create_softlink` list a key. It
  is 1 in `archive`: clients call them only with keys that are not listed. With 2
  `Coherent` fails at once, which is what `archive_duplicates` shows. It is 2 in
  `archive_protected`, where listed and protected keys are replaced, as
  `test/python/archive.py` does.
- `MaxCalls` is 2 in `containers`: the second call finds what the first left,
  whole or partial, under its name or beside it; a third would find nothing that
  a second cannot.
- `SYMMETRY`: names and group variables in `MCGroup` and views in `MCArchive` are
  interchangeable. The archive's names are not, for the objects use one.
- `VIEW Seen` in `archive` and `containers` leaves out objects that cannot be
  reached from the root, from a view or from a call under way: no operation ever
  looks at them again, so the states that remain behave alike; invariants about
  such objects were checked while they could still be reached.
- `CHECK_DEADLOCK FALSE` in the archive runs, because a soft link at the root
  that leads nowhere locks out every new view, and in `containers`, which ends
  after `MaxCalls`.
- `MaxFiles` 2, `MaxObjects` 3, `MaxChanges` 2, `MaxCrashes` 1: a file and the
  one that replaces it, or a file and a memory image; an archive, a view that
  outlives it, and whoever opens the file meanwhile; a flushed and an unflushed
  change. `MaxFiles` 3, `MaxChanges` 3, `MaxCrashes` 2 were run as well, and four
  objects, and found nothing more. One path is enough because no operation looks
  at two.
- `MaxChunk` is 32 bytes in `values`, which arrays of doubles of two by three
  exceed, so that both sides of the clamp are taken; a single element always
  fits, as in the code. `MaxCalls` 2 lets every writer find what
  every other left.
- Strides in `values` include overlapping, transposed and padded layouts, empty
  extents and zero; a complex array of rank 2 is a view of rank 3.
- `MaxPatterns` 3: the two that make a format ambiguous, and one of another class.
- `CHECK_DEADLOCK FALSE` in `values` and `file`, where calls and objects are used
  up.

### Fairness

Only `H5File` states fairness: `WF_vars(\E o \in Objs : Drop(o))`. While the
program has variables, one of them goes out of scope or is deleted at some time:
scopes end, and CPython destroys an object with its last reference. Nothing is
assumed of any particular variable, of `with` being used, or of flushes; that a
file is never closed while new objects are opened on it for ever is excluded by
the bound on objects. `EventuallyClosed` then says that references never form a
cycle and no identifier is left over. The other modules promise nothing unless
they are called, and their recursions end because values are finite. The one
recursion that need not end, the copy of a group into its own descendant, is cut
off by `MaxNodes`.

## The proofs

Each theorem is for all values of the constants that satisfy the assumptions
named with it; those are properties the code has of its inputs, and TLC evaluates
them for the instances it checks.

| Module | Theorems |
|---|---|
| H5HandleProofs | `Typing`, `Counting`, `Refinement` |
| H5GroupProofs | `Typing`, `Trees`, `CleanThrows` |
| HDFArchiveProofs | `Typing`, `Coherence`, `Locality`, `Protection` |
| ReadingProofs | `Commit`, `Copy` |
| ContainersProofs | `Typing`, `OldStays`, `RoundTrips`, `NoMixture` |
| FormatsProofs | `Typing`, `Faithful`, `Languages`, `Readable`, `TagsStay` |
| H5FileProofs | `Typing`, `Safety`, `NoDisturbance`, `Refinement` |

**H5HandleProofs** (any sets of objects and identifiers; `IdsAssumption`,
`ObjsAssumption`): `Typing` and `Counting`, the two invariants of the run, and
`Refinement`: `Spec => Ownership's specification`, step by step. `Counted`
relates a number to the size of a set, so the work is in how the set of owners
changes when one object is overwritten.

**GroupOpsProofs** has no theorem of its own: it is what the four modules about
files have in common: what each operation of `GroupOps` leaves of a table, and what
`Resolve` and `Below` give. Those two are recursive functions. That such a
definition determines a function, and what it computes, is proved by induction on
the depth: a set that has 0 and with each depth its successor has all depths
(`UpTo`). `Below` stops after `MaxNodes` rounds; that it has reached everything by
then (`BelowClosed`) is a matter of counting, for in every round it grows or has
stopped growing. `Resolve` stops after as many soft links as there are names,
which must be finitely many for that (`LinkNamesAssumption`).

**H5GroupProofs** (any numbers of objects, names and variables;
`MaxNodesAssumption`, `LinkNamesAssumption`): for every reachable state

    Inv == TypeOK /\ Ordered

`Ordered` says that used addresses come first, that a hard link leads from a used
address to a higher one that is used, and that no two hard links lead to the same
object. `Forest` is about cycles of any length and is not inductive; that links
lead upwards is, and rules out cycles. `Typing` and `Trees` follow from the
invariant. `CleanThrows` (`ThrowsCleanly`) is proved action by action: an operation
of `GroupOps` that is refused returns the table it was given, and one that fails
returns that or the table without one link of the group it was called on.

**HDFArchiveProofs** (any numbers of names, views, objects and values;
`MaxNodesAssumption`, `AliasesAssumption`): for every reachable state

    IInv == TypeOK /\ RootStays /\ Blank /\ Calling /\ Frames /\ Agreement

- `RootStays`: the root is a group, so a new view is a view of a group.
- `Blank`: an address not yet given out holds no data. A dataset whose write
  failed is therefore recognised as torn, which excuses the view that does not
  list it.
- `Calling`: during a call, every address below the first group it made has been
  given out, so whatever it makes is new. This is what makes a store local.
- `Frames`: every frame of the recursion is a view of a new group of its own, to
  which no client's view is bound, and agrees with it.
- `Agreement`: `Coherent`, if clients list no key twice (`MaxListed = 1`).

Neither `TypeOK` nor `Coherent` is inductive alone: the first needs `RootStays`
and the typing of the frames, the second `Blank`, and `Frames` to know that a
nested store touches no group a client has open. The lemmas describe one step of
`__setitem__` each (clean, make, list, link) and say that torn links only become
more; then there is one lemma per action. From
`Inductive` (`Spec => []IInv`) follow

- `Typing`: `[]TypeOK`;
- `Coherence`: `[]Coherent`, if `MaxListed = 1`;
- `Locality`: `StoreIsLocal`, an action property;
- `Protection`: `Protected`, whatever clients relink: what a store unlinks in the
  view it was called on is not listed there, and in the groups it has made nothing
  is left to unlink.

**ReadingProofs** (the same, and `LinkNamesAssumption`, `ObjectsAssumption`: an
object has a Format and entries that are leaves or objects). For `Commit`: the
history variable `goal` says which object a group was made for. For every
reachable state `IInv` and

    CInv == Dense /\ Fresh /\ Goals /\ Whole /\ Fillings /\ Inwards

- `Whole`, which is what `CommitMark` needs: a group with a Format has exactly the
  entries of its object, each a dataset with the right content or a group with a
  Format that was made for the entry, at a higher address.
- `Fillings`: a group on the stack has its entries but for those still to come;
  an entry that is itself an object is a group with a Format or is on the stack.
  When `Finish` makes it `Whole`, none of its entries is on the stack any more:
  they lie at higher addresses, and the group on top has the highest (`Inwards`).
- `Goals`: a group made for an object either has a Format or is being filled. An
  exception ends all calls and takes the goals away from what they leave behind.
- `Dense` and `Fresh`: the next address is above all used ones and is empty, so a
  new group is nobody's entry and lacks nothing it should not.

`CommitMark` then follows by induction from the highest address down: `Value`, a
recursive function of the depth, is shown to exist and to give each group the
object of its entries' values (`ValueExists`, `ValueUnfolds`). Objects are nested
to any depth; that all their entries are objects of the same kind is put without
recursion: there is a set of values that contains the object and is closed under
taking entries (`WellFormed`). What a client changes is covered by one lemma
(`ClientCommit`): every group from which the changed one can be reached loses its
goal, so the goals that stay are those of groups with nothing changed below.

For `Copy`, the invariant adds `Upwards`, that hard links lead to higher addresses
in use, and `Copies`, about a client's call that copies a group. `CopyFaithful`
compares with what the source read as at the call, and the source may be unlinked
by then, or lie under the target; so `Copies` speaks of addresses. There are a set
`R`, the objects that were below the source, and a function `src` from the new
groups to the groups of `R` they copy, such that

- `Source`: no name leads out of `R`, everything in it lies below the first group
  the call made, and what the call wants is still what the source in `R` reads as;
- `Partial`, for each group on the stack: its entries are copies of those of its
  source (`CopiedAs`: a dataset with the same content, or a group that `src` maps
  to the entry) but for those to come, and those are what the source reads as;
- `Complete`, for each new group that has left the stack: all its entries are
  copies, and it has the Format of its source.

A step writes at an address above `R` and changes the links of one new group only.
What a set that no name leads out of reads as is the same in any two files that
agree on it (`SameValues`, by induction on depth), so `Source` and the entries to
come stay (`MovedSource`). When a group is opened for an entry, the entry was read
earlier, as a view or as an object with all its entries; that both give a frame
with exactly the entries of the source is `NestedFrame`. `CopyFaithful` follows
from `Copies` by induction from the highest address down (`CompleteReads`), which
`Upwards` makes possible: in a file without cycles depth is no matter (`ReadsIs`).
That a name leads to an address a hard link of the same group leads to, through
any chain of soft links (`ResolveLinked`), is in GroupOpsProofs.

**ContainersProofs** (any types and values, nested to any depth;
`NamesAssumption`: the names of elements differ; `TypesAssumption`: each type is
made of types that come before it in `TypeList`, as C++ types are, and the
alternatives of a variant are datasets, for `variant.hpp` 76-84 reads no others;
`PartsAssumption`: the parts of each value are values of the parts of its type, and
there are names for all of them): for every reachable state

    Inv == TypeOK /\ FileOK /\ PendingOK /\ LastOK /\ Owned

`Owned` is what `Untouched` needs: the calls still to come are for groups that did
not exist when the client called, except the first one. `PendingOK` types the
calls: what is put in front of the list by a container is of a type and a value
among its parts. From it follow `Typing`, and `OldStays` (`Untouched`).

`RoundTrips` and `NoMixture` are about what is read after the writing, and need to
know which call has made what. Nothing in the state says so, hence the second
invariant says that there is an account of it:

    Inv2 == Inv /\ Sound /\ History

`Sound`: links lead to objects, and an address without an object has no links.
`History`: there is a set `C` of calls, those to come among them, and a function `o`
from the new objects to the calls that made them, such that

- `ObjectOK`: a new dataset has the value of its call, or is not filled yet; all
  calls that fill a new group are in `C`, and each link in it is under the name of
  one of them and leads to a new object;
- `CallOK`: what is new under the name of a call was made by it, or by the call
  that an optional or a variant came down to; in a new group, the name of a call
  is that of an element;
- `OuterOK`: the outermost name holds what it held before, and then nothing that
  reading it meets has changed (that it never will is where `Untouched` comes in),
  or nothing, or a new object;
- `Queued`: no two calls to come write under the same name, and nothing new is
  there; without this a later call could replace what an earlier one has made;
- `Complete`, unless an exception has ended the writing: every call is done or to
  come, and every new dataset is filled.

Each action has a lemma that gives the account after it: making an object adds the
calls that fill it (`MakingHistory`), unwrapping adds the inner call
(`UnwrapHistory`), an exception drops the queue and with it `Complete`.

What follows from `History` about reading goes from the datasets up. `Read`,
`Storable` and `Remains` are functions defined by recursion on the types; that there
are such functions, and that they unfold, is proved along `TypeList`
(`ReadUnfolds`, `StorableUnfolds`, `RemainsUnfolds`), and so is the induction on types
(`TypeInduction`): a set of types that has every type made of its members has all
types. For each kind of type there is one lemma for a name where something new or
nothing is found (`PartVector`, ...: it throws or gives part of the value), and one
for a write that returned (`WholeVector`, ...: it gives the value). The second kind
shows where `Storable` is needed: only if every element has left a link is the number of
objects in a group that of the elements (`ElementsWhole`, `NewNames`), and only an
empty optional leaves none (`NoneAbsent`).

The proof has found one thing that the run had not: a variant with two alternatives
of the same HDF5 type was not covered by what `PartOnly` allowed, although the
code reads it as the first of them. The instance has such a variant now.

**FormatsProofs** (any tags, classes, patterns and texts; `TagAssumption`,
`PatternAssumption`: a client registers a pattern only for older formats of one
class): for every reachable state

    Inv == TypeOK /\ CompatOK /\ AttrsOK

`CompatOK`: the list of patterns begins with those of h5, and the others are of
clients. `AttrsOK`: a format that is found in an attribute of an object, under
either name, stands for the class the object was stored as, if that is defined.
`Faithful`, `Languages`, `Readable` and `TagsStay`
follow from it together with what `get_format_info` finds in a longer registry:
an entry once found by name is found for good, and one found by a pattern is
found by the same pattern or is ambiguous.

**H5FileProofs** (any set of paths, all bounds; `BoundsAssumption`): for every
reachable state

    IInv == Types /\ Unmade /\ OneName /\ FilesOK

- `Unmade`: an object that has not been made yet is nothing, so making it takes
  no handle away.
- `OneName`: no two paths lead to the same file. A change through a handle is
  then seen at one path or, when the file was replaced, at none; without this the
  refinement fails.
- `FilesOK`, for each file: it is open exactly while it is held, what is open is
  readable, and a difference between disk and buffers implies that somebody holds
  the file, may write it, and that no call has promised its content since the
  last change.

`NothingLost` is a part of `FilesOK` and is not inductive without the rest: that a
file nobody holds is closed is what makes `Truncate` harmless. It needs the
program's flushes: `SetItem`, `Exit` and the death of an archive promise the
content of a file that others may hold on to, for which the library writes
nothing by itself. What is still to be made (`pending`) is typed by an invariant
of its own (`PendingPaths`). Each
action has a lemma for `IInv` and one for what it does to the paths. `Drop` and
`Exit` are instances of `LetGoStep`, which holds for any set of survivors: which
objects die with which (`Living`, a recursive function) does not matter to
safety, only to liveness. The theorems are

- `Typing`: `[]TypeOK`, and `Safety`: `[]NothingLost`;
- `NoDisturbance`: `OthersUndisturbed`;
- `Refinement`: `Spec => Durable's specification`. `DurableStep` says what the
  ways of changing the paths (`PathStep`) are in terms of `Durable`.

### What is only model-checked

- `EventuallyClosed`: liveness under fairness, and with it `ENABLED`, are out of
  the prover's reach.
- The properties of `Values`: they compare computed layouts element by element
  over bounded extents and strides, by recursive functions and integer division.

## Disagreements between code and documentation

- `create_softlink(k, k)` unlinks the target it has just checked
  (`group_softlink`; `group.hpp` 132).
- `create_group` and `create_softlink` of a key that is listed make a view list it
  twice (`archive_duplicates`; `archive.py` 125, `test/python/archive.py` 202).
- A complex numpy array that is not in C order is written wrong by
  `h5_write_bare`: its trailing stride is left 0 and its parent extent 2
  (`values_complex`; `h5py_io.cpp` 103-115). `HDFArchive` copies arrays to C order
  first.
- All memory files are called "MemoryBuffer"; HDF5 compares files by name in this
  driver, so a file made from bytes is the memory file that is open already,
  whatever the bytes are (`file_image`; `file.cpp` 119, `archive.py` 337-338).

## Seen while modelling

What the code does that a reader of the models will notice, and that no run
refutes a promise by:

- `read_attribute` compares with the type of the attribute, and the identifier
  that `H5Aget_type` has made for it is never closed (`array_interface.cpp` 274,
  where `object.hpp` 45-46 promises RAII). `hid_t_of<bool>` leaks the datatype it
  makes at every use (`object.cpp` 174-179). Both are `lost` references in
  `H5Handle`.
- One soft link without target makes its group impossible to list or to open as a
  view (`group.cpp` 184, where `group.hpp` 197 promises all the names).
- An integer of one byte, such as `numpy.int8(3)`, is stored and cannot be read
  back (`h5py_io.cpp` 121-142; `h5py_io.hpp` 47 and `ChangeLog.md` 101 say it can).
- `h5_write_attribute_to_key` hands `H5Awrite` the characters instead of the
  address of a pointer to them, so what the attribute holds is undefined
  (`string.cpp` 157, `string.hpp` 117-122).
- An array whose length was not written ends the process when it is read, and so
  does an object of another class that is read as a string: what is found in the
  file is asserted (`array.hpp` 95 and 129, `string.cpp` 78, 126, 173, 235, 279).
- An array of byte strings is written as the first character of each; an `int8`
  array comes back as one of byte strings; `long long` comes back as `long`.
- Strides of 0, as `numpy.broadcast_to` makes them, divide by zero. Arrays in
  Fortran order make HDF5 refuse the selection, after the old object was unlinked.
- A Python int beyond 64 bits leaves -1 under its key before its error is raised.
- A string ends at its first NUL; rows of a table of strings come back filled up
  with empty strings to the longest.
- `read_attribute` compares ranks, not lengths (`array_interface.cpp` 267-271).
- An ambiguous format raises TypeError out of the formatting of its own message
  (`formats.py` 93), where the docstring says KeyError, and the reader catches
  KeyError only. A pattern that is registered later can make a readable object
  unreadable this way.
- `with` leaves the file open while views of subgroups exist, and an archive
  opened with `'r'` while another has the file open for writing is writable.
- A new file whose process is killed before the first flush may be one that HDF5
  refuses to open.
- A half-precision float, or any type without a name in the table, makes the
  warning about converted types in `array_interface::read` throw
  `std::logic_error` where only a message was meant.
- A complex number that was written from a `variant<double, complex>` cannot be
  read back, neither from a dataset nor from an attribute: its HDF5 type is that
  of a double, so the first alternative is tried, and it throws
  (`variant.hpp` 78-84, 116-122).
- An object with the view of a group among its entries reads back with a view of
  the copy.
- `apply_on_leaves` begins with `self['/']`, which is never in the list of keys;
  the check of `HDFArchive_Version` reads an attribute in a way that always fails
  and is ignored.

## Not modelled

- The generated Python wrapper, macros and type traits, build and packaging: no
  behaviour of their own, but for the assertions, which are in the models of what
  makes them.
- Names with `/`. `HDFArchive` refuses to store them; that `has_key` answers true
  when the first component is missing (`group.cpp` 53) is listed as a hazard
  without a property.
- Remote files, `__write_hdf5__`, `read_fun`, `apply_on_leaves`: code of clients,
  or that does not run.
- Copying a group into its own descendant beyond the bound on objects.
- Negative strides: `hsize_t` is unsigned, and what HDF5 makes of the wrapped
  numbers depends on the extent.
- HDF5's own failures inside one call, character encodings, and what compression
  does.

## What could come next

1. `HDFArchive`: one option per view, and the archive of `H5File` and the views of
   `HDFArchive` in one module, so that a view's cache goes stale by another
   process's archive of the same file.
2. `Containers`: arrays of strings, attributes.
