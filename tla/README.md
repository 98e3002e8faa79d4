# fuse-driver: specification and verification

`fuse-driver` is an in-memory file system: a FUSE daemon in C (`src/src/`) that
keeps a tree of files and directories on the heap and answers the kernel's
requests through libfuse's high-level interface. This directory holds TLA+
modules that model it, TLC configurations that check them, and proofs that
tlapm checks.

## 1. Inventory

| component | state | operations |
|---|---|---|
| directory tree, `fs.c` | `root_dir`; per item its name, parent pointer, `stat`, and either a map of entries or a data buffer | `fs_get_item` and its variants, `add_item`, `fs_file_delete`, `fs_dir_delete`, `fs_rename`, `init_fs`, `free_fs` |
| paths, `fs.c` | `path_string`: a copy of the path cut at the slashes, an index of components | `split_file_path`, `parse_path_string` |
| file contents, `fs.c` | `fs_file.data`, `st_size` | `fs_write`, `fs_read`, `fs_truncate`, `fs_ftruncate` (and deprecated twins) |
| attributes, `fs.c` | `st_mode`, `st_uid`, `st_gid` | `fs_chmod`, `fs_chown`, their `f` twins, `fs_access` |
| file handles, `fs_fh.c` | `fs_pids`: pid -> (`next_fd`, map fd -> item); the cleaner thread | `fs_fh_file_handle`, `fs_fh_release_file`, `fs_fh_get_*`, `pid_clean_fn` |
| hash map, `sc_map.c` | slots, `size`, `used` (key 0), `oom`, `found` | put, get, del, clear, term, the foreach macros |
| FUSE callbacks, `main.c` | none of its own | one `fdo_*` per request; `main` |
| helpers, `util.c` | none | `sleep_ms` |

How they interact: the kernel sends a request, a libfuse worker thread calls
one `fdo_*` callback, the callback cuts the path and calls one `fs_*`
operation, which walks the tree; `fdo_open` stores the item in the table of
file handles under the caller's pid and returns pid and fd packed into 64
bits, and read, write, truncate and the other calls on an open file come back
with it. The tree and the handle table both sit on the hash map. The cleaner
thread walks the handle table once a second and drops the pids that are gone.
There is no lock anywhere in the code. What libfuse and the kernel hold while a
callback runs keeps some callbacks apart, and not others: libfuse locks for
itself what a request removes or moves, the directories on the way to it only
against removal; the kernel locks the directories a request changes, not the
ones it goes through, and none for a RELEASE or when it asks again for a name
it knows. So two workers of the default mount (`tests/run_tests.sh:33`, no
`-s`) can be in one directory's map at once.

The hard behaviours are listed in `PROJECT.json` under `hazards`, each at its
line. In short: long sequences of calls on a structure that is linked both ways
(`fs_rename`), lengths that drift apart (`st_size`, the size of the buffer, the
size the kernel remembers), worker threads and the cleaner on one table without
a lock, workers that walk through one directory with one `found` flag, pids that
are thread ids and come back, and a hash map that moves its entries when one is
deleted.

What makes each part correct:

| component | correct when |
|---|---|
| directory tree | maps, names and parent pointers agree; every allocated item is below the root; errors change nothing; a client sees a namespace of paths that behaves as POSIX says |
| paths | the string libfuse passes is cut into the names on the way, and the last is the one measured |
| file contents | the length never passes the buffer; every byte of the file was written; cut bytes stay gone; a client sees a sequence of bytes |
| file handles | an open file's handle leads to its item for as long as it is open; handles differ; nothing leaks; nothing follows a bad pointer |
| cleaner | it drops no entry of a thread that runs and, after some time, that of one that is gone |
| hash map | it is a function from keys to values; no key is out of reach of the probing loops; the loops end; a loop over the slots meets every entry once, and spares the living when it deletes |
| all of it behind libfuse | an item lives as long as somebody has it open, a hidden file no longer than that; a client sees files that keep the attributes given to them |

## 2. Modules

| module | what it is | about |
|---|---|---|
| `FsTree` | the directory tree, one action per handler | `fs.c`, `main.c` |
| `Namespace` | abstract: a set of paths with types, POSIX's answers | what `FsTree` promises |
| `FsTreeRefinement` | the refinement mapping, and the promise of `rename`'s comment | |
| `FsTreeProofs` | theorems about `FsTree`: the pointers, then the paths | |
| `NamespaceProofs` | `FsTree` implements `Namespace` | |
| `PathString` | the characters under `FsTree`'s paths | `path_string`, `split_file_path` |
| `PathStringProofs` | a path's string is cut into its names | |
| `FuseFs` | the tree, its attributes and the files clients hold open, behind libfuse | `main.c`, `fs.c`, libfuse's hidden names and path locks |
| `PosixFiles`, `FuseFsRefinement` | abstract: paths, inodes and open files; the mapping | what `FuseFs` promises |
| `FuseFsProofs` | theorems about `FuseFs`, and that it implements `PosixFiles` | |
| `FileData` | one file's buffer and lengths | `fs.c` |
| `ByteFile`, `FileDataRefinement` | abstract: a sequence of bytes; the mapping | what `FileData` promises |
| `FileDataProofs` | theorems about `FileData`, and that it implements `ByteFile` | |
| `FileHandles` | the table of open files, workers, cleaner, and the kernel around them | `fs_fh.c` |
| `FileHandlesProofs` | theorems about `FileHandles` | |
| `ScMap` | the hash map's slots | `sc_map.c` |
| `ScMapForeach` | the loops over a map's slots | `sc_map.h`, `pid_clean_fn` |
| `KeyValue`, `ScMapRefinement` | abstract: a function with `found`; the mapping | what `ScMap` promises |
| `ScMapProofs` | theorems about `ScMap` and `ScMapForeach`, and that the map implements `KeyValue` | |
| `NaturalSets` | lemmas: induction over the natural numbers, on sets | |
| `MC...` | constants and symmetry for TLC | |

The modules fit together by what one assumes and the other shows: `FsTree` and
`FileHandles` use a map as a function, which `ScMap` is shown to implement as
long as memory lasts and one thread uses it; `FileHandles` takes items for
values and `FileData` one file for itself, while `FsTree` is about which items
there are. `FuseFs` extends `FsTree` and takes from `FileHandles` that a handle
leads to its item; `PathString` shows that a path may be taken for a sequence of
names, `ScMapForeach` what the loop of the cleaner may skip.

### FsTree

`type`, `name`, `parent` and `items` are the fields of the same names of the
`fs_item` objects; `type` stands for the type bits of `st_mode` and is `"FREE"`
for memory that is not allocated. `status` says whether the daemon answers,
and `reply` what it answered last. `fs_get_item` is the loop of the code, one
step per component (`Walk`), with its three answers. Every handler of `main.c`
that reaches the tree is one action and includes the length check of
`create_path_string`.

A handler is one action: what it does when no other worker is in the maps it
goes through. With `Overlap` FALSE that is all, which is the daemon under `-s`,
and any run of it with more workers in which no two calls are in one map at
once. Nothing in the code or around it sees to that, and with `Overlap` TRUE
`Overtaken` is what becomes of the others. A walk gets a name (`fs.c:220`) and
tests the map's `found` one line later, and `fs_rename` does the same at 443
and 444. `OvertakenAnswer`: another worker's get of a name that is not there
has cleared the flag, and a path that is there is answered ENOENT.
`OvertakenEnd`: the other's get has set it and a NULL is followed; or the other
is a put or a deletion, which moves or frees the slots, or the item a lookup has
just found (a lookup does not wait for an unlink); or an existing entry is
missed and put again, which loses the item it led to. These end the model
(`aborted`, `corrupt`). Every walk, and the test of line 444, comes before the
first change a handler makes, so that an ENOENT leaves the tree alone. What
comes of a meeting is modelled, not its steps: any call may meet another at any
time.

What a handler relies on the kernel for stands in its action as a guard named
`Kernel...`: `add_item` puts without looking the name up (the kernel answers EEXIST), a rename never involves two
paths one inside the other, nor a directory and something else, and a walk
goes through directories only. Everything the code itself checks is checked for
every path, the ones the kernel would have answered for included.

With `Overlap`, `Namespace` lets an operation answer ENOENT for a path that is
there, without an effect; everything else is as without.

Two other places are undefined behaviour and appear as a choice among what a build
may do. `ps_last_file` of the mount point reads `idx_buff[-1]`
(`GetattrMountPoint`): getattr answers, reports a name too long, or crashes.
The end of a rename onto an existing path calls `free` on a pointer into an
allocation (`ReplaceItem`): glibc aborts, or the heap is corrupt. Nothing is
modelled after either. The bit test of `fs_item_is_dir` takes a socket (and a
block device, which is not listed since its bits behave the same) for a
directory; the union then holds a file where a map is read.

### PathString

`Text` is the string libfuse builds, `split_file_path` the cut copy and the
index, with places counted from 1, `ps_file` a component. Names are sequences of
characters (`Spelling`, `Char`), which `MCFsTree` makes of the names themselves, two
letters for a short name and three for one too long.

### FuseFs

A handle leads to an item and the code does not count the handles of an item:
`unlink`, `rmdir` and `rename` free one or move it whatever clients hold open.
What keeps it alive is libfuse, so libfuse is in the module: an open file about
to lose its name is renamed to a hidden one in its directory (`Hide`) and
unlinked after the last release (`FinishRelease`); a rename onto an open file
hides that first (`FinishRename` is the second call). Between the two calls of
such a request other workers serve what the locks of libfuse's path tree let
through (`MayReach`, `MayChange`), among it further requests of two calls:
`pending` is the set of those that wait, at most `MaxWaiting` of them in a run and
any number in the proofs. Directories are not hidden; the kernel keeps
the clients of a removed one from it (`dead`), and only its release comes.

`attr` has the owner's permission bits, the owner and the group of every item.
The actions are the handlers of `FsTree`, called for a client or by libfuse, and
`Open`, `Release`, `Chmod` and `Chown`. A request that is refused changes nothing
(`ErrorsChangeNothing` of `FsTree`) and is left out, so that a run can be larger;
a rename onto a file nobody has open ends the daemon here too. The flags of open
index an array of three with two bits, and the fourth value gets what lies
behind it (`Needs`). `PosixFiles` has paths, inodes with attributes and open
files, no hidden names and no request of two steps; its four departures stand
at its head.

With `Overlap`, as in the run, `FinishOvertaken` is a second call that meets
another in a map: it is answered ENOENT, which ends its request, or the daemon
ends. (A first call that misses is a refused request.) What is lost in that way
can be named, and the properties say no more than it:

- The unlink behind a release leaves its hidden file where it is, for good, since
  libfuse does not look at the answer. `lost` remembers such files, and
  `HiddenInUse` excepts them and no others.
- A rename is refused when its target has already lost its name. For clients it
  was an unlink of `newpath`, the fourth departure of `PosixFiles`.
  `RenamesFinish` says that this is the only way it can fail: at every moment
  until the second call is made, what that call looks for is there and the name
  it gives is free.

### FileData

`cap` and `data` are what `malloc` and `realloc` gave, `st_size` the length,
`i_size` the kernel's idea of it, set by its own arithmetic after a write or a
truncation, from `st_size` after a getattr, and to zero when a file is opened
with `O_TRUNC`, which libfuse hands to the daemon and `fdo_open` ignores.
`Garbage` is what a client never wrote, inside the buffer or behind it. The
remaining length of a read wraps around modulo `Word`. The kernel's guards: no
negative sizes or offsets, no empty requests, reads only below `i_size`.

### FileHandles

`fs_pids`, `found` and `ffp` are the map, its flag and the objects in it;
`ffp[o]` is `Null` where nothing is allocated, so that a pointer to it is
dangling and following it crashes the daemon. A request is a sequence of
steps of a worker: `GetPid` (lines 69, 89, 97), `CheckPid` (70, 90, 98),
`new_ffp` (71-72), `UseItems` (75, 91, 101), `CheckItem` (102), `Reply`. The
cleaner's steps are `Visit`, `Kill`, `TermItems`, `FreePid` and `DelPid`
(lines 41 to 50), and `Unmount` and `ExitDaemon` are `free_fs_fh`, between which
the cleaner still runs.

Around it is the kernel: threads start and exit, the pid a request carries is
the id of the thread that made it, files belong to processes and pass to
children, a thread with a request at the daemon waits and cannot exit, RELEASE
comes some time after the last close. With `ReusePids` a new thread may get the
id of one that is gone. `Foreign` are threads `kill` is not permitted to
signal.

Without `-f` libfuse goes into the background by a fork after `init_fs` has
started the cleaner, and a fork copies no other thread: the daemon the tests
mount (`tests/run_tests.sh:33`) has no cleaner. With `-f`, as the Makefile
advises, it has one. The constant `Cleaner` chooses. `Worker` has one member
under `-s`, and more otherwise.

Deleting in the loop over the slots moves entries behind the loop's index;
`DelPid` lets any part of what was left to visit be skipped. That is more than
the code can skip, which makes the safety properties stronger; that a round
with something to drop drops at least one is `RoundsClean` of `ScMapForeach`.

### ScMap

`map` is the `struct`: `key` and `value` are the two arrays of the slots, `zero`
and `used` the entry of key 0, and the operations are whole calls. The probing
loops are the first slot that stops them (`Find`), the loops that move entries
are functions over the steps of the loop (`Moved`, `Closed`). A `put` that has
to grow the table may fail. The value left in an emptied slot is dropped, since
no call reads it. Strings are numbers and `Hash` any function. `KeyValue`
leaves open what `found` says after a put that failed: the code leaves the flag
as it was.

`ScMapForeach` is a round of the foreach macro on such a map: each slot is read
when its turn comes, and what the body deletes then moves the entries of later
turns. Both surprises happen within the bounds of the run: an entry behind the
hole is skipped, and one that wrapped around is visited again.

## 3. Runs

| run | shows | bounds |
|---|---|---|
| `tree` | type and pointer invariants, no leak, no island, names fit, unmount frees all, errors change nothing, paths are cut right | calls may meet (`Overlap`); three items besides the root, two short names and a long one, paths of three components, files and sockets; `path_copy` for nine letters, `idx_buff` for three components |
| `tree_refines` | `FsTree` implements `Namespace`; where calls meet, but for an ENOENT too many or the end of the daemon | calls may meet; three items, two names, directories and files |
| `rename_keeps` | violated: `rename` onto an existing path ends the daemon (`fs.c:413` promises otherwise) | no calls meet; otherwise as `tree_refines` |
| `fuse` | items of open files live, hidden ones no longer than they are used unless their unlink was lost; the second call of a rename finds what it needs; `FuseFs` implements `PosixFiles` | calls may meet; three items besides the root, two names and two hidden ones, paths of two components, two open files, two requests waiting; two sets of permissions, one chown; one item at a time differs from the root in its attributes |
| `data` | length within the buffer, no garbage, cut bytes stay gone, `FileData` implements `ByteFile` | five bytes, three per request, two values of a byte |
| `data_written` | violated: a write inside a file cuts it and loses bytes | four bytes, two per request |
| `data_reads` | violated: a read behind a length the kernel does not know of returns other memory | the same |
| `handles` | handles resolve, differ, nothing leaks or crashes | one worker, no cleaner, two processes of one thread, pids reused, two open files, two items, three fds |
| `handles_cleaner` | nothing leaks, the living keep their entries, the gone are cleaned up | one worker and the cleaner, two threads, one fd, no reuse |
| `handles_terminated` | violated: files of a running process get EBADF once the thread that opened them exits | one process of two threads |
| `handles_found` | violated: two workers, and the daemon follows NULL | two workers |
| `map` | slots reachable, count right, an empty slot left, `ScMap` implements `KeyValue`, a loop over the slots meets every entry once and deletes the dead and no others | six keys, three of them colliding in the last of eight slots, capacity up to 16 |

Why the bounds are enough. Three items make a directory in a directory with
something in it, and a second directory to move it to; paths of three components
reach all of them. In `path_copy` three short names just fit and a long one in
their place does not. In `fuse` the three items make a file in a directory with
another file to be moved onto it; one client's two open files are as
good as two clients'. Two requests wait between their calls at once: two
releases of hidden files, or a rename and a release. Two renames at once, each
onto an open file, need four files, and the run with those has millions of
states: what one waiting rename may do to another is shown by the proofs, for
any number of them (`LocksOK`). States of `fuse` that differ in the last answer
alone are one (`VIEW`): no guard reads it and, but for the type invariant, no
property of that run. Without calls that meet, the answers of `tree_refines` are
exact, which is `TreeImplementsNamespace` for `Overlap` FALSE. Five bytes and requests of three let a write start inside
the file, at its end, across it and behind it, before and after truncations, and
`realloc` grow and shrink. Two processes and two files give inherited files,
closed and reused descriptors, late releases and a second table. Besides key 0
there are two keys at home in slot 6 of eight and three in slot 7, so that rows
wrap around the end, and the six fill the table to where it must grow. `MaxFd` bounds how often a process opens;
`MaxSize`, `MaxCount`, `MaxPath`, `MaxCap`, `MaxChanged`, `MaxWaiting` and `ValuesOf` are the other bounds,
each named in its module.

`CHECK_DEADLOCK FALSE` stands where the system stops: after unmount or a crash,
and where the file-handle bounds are used up.

Fairness. The only liveness property is `CleanedUp`, under weak fairness of
`pid_clean_fn`: the cleaner is a thread of its own that waits for nothing but
one second of sleep and takes no lock, so the scheduler runs it. Nothing is
assumed of clients or workers. The run has no reused pids and no foreign
threads: with reuse the entry of a gone thread may become that of a living one,
and then of a gone one again, at every visit. `DelPid` may skip an entry in a
round, which delays it by a round only, because each deletion leaves one entry
fewer.

## 4. Findings

The five runs that are expected to fail are described in `PROJECT.json` under
`findings`, with the lines of the comments and tests they contradict.

Met while modelling and without a run:

- Workers that meet in a map (`Overtaken`, `FinishOvertaken`): a walk may miss a
  path that is there or follow NULL; an unlink behind a RELEASE may miss its
  hidden file, which then stays, or move the slots under a create (`fs.c:396`
  beside 177).
- So a rename of `a` onto an open `b` can lose `b`, against `fs.c:413`. libfuse
  has renamed `b` to a hidden name and calls `fdo_rename`; while its walk is
  between `fs.c:220` and 221 another client asks for `b`, whose name the kernel
  knows and asks for again without the lock of the directory. That misses and
  clears the flag the walk is about to test: the rename answers ENOENT for `a`,
  and `b` is gone. `HiddenInUse` and `ImplementsPosixFiles` allow for it by name.
- Between the two calls of a rename onto an open file `newpath` is missing to a
  lookup, against `fs.c:405-406`, which is libfuse's doing.
- `unlink` of a socket answers EISDIR.
- An item found while another worker opens a file of the same process may be
  answered EBADF (the second half of `FoundMeansValid`).
- chown of the owner or the group alone stores -1 for the other (`fs.c:561`),
  against the comments at `fs.c:51-52` that say who owns a file.
- A path that a client reaches relative to a deep directory, or one of more than
  256 components, is written past the arrays of `path_string` (`fs.c:161`), of
  which `fs.c:182` says that FUSE takes care.

## 5. Proofs

tlapm checks, for every value of the constants (under the modules' `ASSUME`s), `Overlap`
among them, so that each theorem is of workers that meet in a map as well:

| theorem | states |
|---|---|
| `FsTreeProofs!TypeCorrect`, `AlwaysLinked`, `NeverLeaks` | the invariants `TypeOK`, `Linked`, `NoLeak` |
| `FsTreeProofs!NamesAlwaysFit`, `ErrorsLeaveTree` | `NamesFit`; `ErrorsChangeNothing` |
| `FsTreeProofs!AlwaysRooted`, `UnmountAlwaysFreesAll` | `Rooted`; `UnmountFreesAll` |
| `PathStringProofs!PathsAlwaysSplit` | `PathsSplit` |
| `NamespaceProofs!TreeImplementsNamespace` | the refinement `ImplementsNamespace`, assuming `PathsReach` |
| `FuseFsProofs!FuseTypeCorrect`, `OpenFilesStayLive` | `FuseTypeOK`, `OpenFilesLive` |
| `FuseFsProofs!HiddenWhileInUse`, `RenamesAlwaysFinish` | `HiddenInUse`, `RenamesFinish` |
| `FuseFsProofs!FuseImplementsPosixFiles` | the refinement `ImplementsPosixFiles` |
| `FileDataProofs!TypeCorrect`, `AlwaysFits`, `NeverGarbage`, `NeverStale` | `TypeOK`, `FitsBuffer`, `NoGarbage`, `NoStaleBytes` |
| `FileDataProofs!FileImplementsByteFile` | the refinement `ImplementsByteFile` |
| `FileHandlesProofs!TypeCorrect`, `AlwaysResolves`, `AlwaysSucceeds`, `HandlesStayDistinct`, `NeverLeaks`, `FoundIsValidAlone` | `TypeOK`, `Resolves`, `UsesSucceed`, `HandlesDiffer`, `NoLeak`, `FoundMeansValid`, assuming one worker and no cleaner |
| `FileHandlesProofs!LivingEntriesStay`, `NeverLeaksBesideCleaner` | `LivingKeepTheirs`, `NoLeak`, assuming one worker and, if the cleaner runs, pids that do not come back |
| `ScMapProofs!MapTypeCorrect`, `EntriesStayReachable`, `SizeAlwaysCounts`, `LoopsAlwaysEnd` | `TypeOK`, `Reachable`, `SizeCounts`, `LoopsEnd` |
| `ScMapProofs!MapImplementsKeyValue` | the refinement `ImplementsKeyValue` |
| `ScMapProofs!LoopsVisitAll`, `RoundsAlwaysClean` | `VisitsEveryEntry`, `RoundsClean` |

Recursive functions are reasoned about by induction on sets of natural numbers
(`SetInduction` and `BoundedInduction` of `NaturalSets`, proved from the least
element of a set), because the library's induction theorems take an operator.
The walk of `fs_get_item`, the loops that grow a table or close a hole in it, and
the turns of a foreach loop are such functions: a lemma (`MovedDef`, `ClosedDef`,
`RoundDef`) first shows that there is a function that satisfies the recursion, an
invariant of the loop then goes from turn to turn.

FsTree, pointers. The inductive invariant is `TypeOK`, `RootIsDir`, `Linked` and
`NoLeak`: `Linked` alone is not inductive, since freeing an item is safe only if
its own parent and name are the one entry that holds it, which is `NoLeak`. That
a walk ends at an allocated item is an induction over its components. For a
created or moved item the proof needs that the entry is free, which the walk over
the parent path decides (`NewEntry`).

FsTree, paths. `Rooted` says that no item hangs in an island or a circle, and the
invariant of the pointers does not give it: a circle agrees with itself. What
does is a path for every item. `Leads(p, x)` says that the entries named by `p`
go from the root to `x`; the walk finds what the path leads to and the other way
round. No item is twice on one way (`ChainsMeetOnce`), so that a path has at most
as many components as there are items; an operation changes one entry, and the
paths that do not go through it stay (`LeadsKept`). A rename moves an item to a
path that is not below it, which the kernel guarantees, and the paths through the
item go over the new path to it. For the refinements the module says more: exactly
which paths lead where after an item is added (one path more), deleted (one
less) and moved (`PathsAfterMove`: the paths below the old one are grafted onto
the new one), and what walks answer (`WalkAnswers`). Unmount frees what it reaches from the root,
which is everything allocated.

PathString. By induction over the names, name `j` of a path lies in its string
between two offsets, behind a slash, and nothing else does (`Laid`), since no name
holds a slash. So the slashes are at those offsets, the `i`-th of them before name
`i` (`NthIs`), and the C string behind it ends where the next was or the copy does
(`PieceIs`), since no name holds a NUL either. This needs no invariant; that the
pieces lead to the entry of the right directory is `Rooted` with the invariant of
the pointers: every directory has a path, libfuse builds that one
(`PathToIsPath`), and the walk follows it. Assumed is that names are not empty,
differ in their spelling and are long by their spelling (`SpellingAssumption`),
and that `malloc` has finitely many items to give. The array of the model has no
end; where the real ones do, `Fits` does.

`TreeImplementsNamespace`. `View`, the mapping, is the set of the paths that lead
somewhere, with their types, so that it changes as the paths do; the other lemmas
relate each answer of the code to the one of `Namespace`: a walk fails with ENOENT or ENOTDIR just where a prefix of the
path is missing or no directory, `items` is empty just where no path goes on. The
invariant is that of the pointers and `Made`: an item is of a type that mkdir,
create or mknod makes. A call that met another is a refusal with ENOENT or the
end of the daemon, which `Namespace` has with `Overlap` only, so that with
`Overlap` FALSE the theorem is of exact answers. `PathsReach` bounds the instance, not the code: `Namespace`
has paths of at most `MaxPath` components, so that with more items a rename may
push an item below that length, out of its sight, and sockets are left out
because `unlink` takes them for directories (section 4). The run `tree_refines`
satisfies it: four items, `MaxPath` of three, regular files.

FuseFs. `OpenFilesLive` needs to know what the locks keep still while requests
wait between their two calls. The invariant is that of the tree with `Rooted`, that
there are no sockets, `AttrOK`, `OpenOK` (what is open and not `dead` is
allocated), `HiddenOK` (a hidden name is on a regular file which is in use, about
to be unlinked, or `lost`), `PendingOK` and `LocksOK`. `PendingOK`: the
path of a waiting release leads to its hidden file until the request goes on,
since `MayChange` keeps every change out of the way to it; the two paths of a
waiting rename are apart. `LocksOK` is about every two requests that wait: the
paths of two renames are apart, no release goes through what a rename moves, and
no two releases are for one file. So the second call of a release frees the file
it was meant for and leaves the others' alone. A second call that is lost changes
nothing in the tree and takes one request from those that wait, which none of
these minds but `HiddenOK`; for that there is `lost`, to which nothing else is
ever added. There may be any number of items, open files, hidden names and waiting requests; the set of items is finite, because what libfuse holds open
of an item is counted.

`FuseImplementsPosixFiles`. `Shown(p, x)` says what clients see at a path: what it
leads to, if no name on it is hidden, or the file a waiting rename is about to
replace, which leads nowhere under that name any more. `View`, `Opened` and
`Inodes`, the mapping, are functions of it, and one lemma for each call, or half of
a call (`CreateSeen` to `ChownSeen`), says which step of `PosixFiles` it is. The
first call of a rename and the unlink of a hidden file are none: an item goes to a
hidden name, or from one. That the second call of a rename is the whole of it
needs an invariant, `RenameOK`, of each that waits (`Ready`): the file it
replaces is hidden and in use, the name it has taken is free and in a directory, what it moves is a file and still there,
and neither name is too long (`NamesFit`). `TypeOK` and `PendingOK` do not give
that; what does is that every other request has to get past the locks the rename
holds (`MayReach`, `MayChange`), so that it changes neither of the two paths nor a
directory on the way to them; nor does the second call of another rename, whose
paths are apart from these (`LocksOK`). From it `RenamesAlwaysFinish` follows as
well: `Ready` is what the walks of the second call need to answer "OK" for the
old path and for the directory of the new one, and ENOENT for the new one
(`FinishFinds`). A rename that is lost all the same takes its file out of `Shown`
and changes no item, which is `Unlink` (`FinishOvertakenSeen`).
No bound of the instance is needed here: `PosixFiles` limits the paths of
requests, not those a rename makes longer.

FileData. `TypeOK`, `FitsBuffer` and `NoGarbage` are inductive together: a write
reallocates by the length, so that the length within the buffer is needed for
the bytes to be. For the refinement the length is also at most `MaxSize`, below
which the remaining length of a read does not wrap around where the offset is
inside the file (`Word` is larger than `MaxSize + MaxCount`).

FileHandles, alone. The invariant follows the one worker through its request
(`WorkerOK`: what its pc says about its pointer), the table (`TableOK`: each
object is in the table exactly once and its fds are below `next_fd`) and each
open file (`FileOK`: its entry is there until its RELEASE has been served). The
table only grows, so that reused pids do no harm. With the cleaner or a second
worker these theorems are false, as the runs `handles_terminated` and
`handles_found` show.

FileHandles, with the cleaner. `LivingInv` has two parts besides the types.
`RoundOK`: from its `kill` to its deletion the cleaner stands on an entry that is
there and a pid that is gone, and nobody but itself drops an entry, so that what
it drops is that of a pid still gone. That is where pids must not come back: with
`ReusePids` the thread may be running again by then. `LookupOK`: where the worker
has been told that its pid has no entry, there is none, and `new_ffp` replaces
nothing. The two threads share `found`, and the argument is that the deletion can
only set it, having found what it deletes: a worker fooled by that follows NULL
and ends the daemon, which drops no entry. `NeverLeaksBesideCleaner` adds
`LeakInv`: an object is allocated only if an entry leads to it that the cleaner is
not about to drop, since between `free` and the deletion `malloc` may hand out the
same memory to another pid, and two entries then lead to one object.

ScMap. The inductive invariant `MapOK` says that the table is `Good`, that `size`
counts its entries and the one of key 0, and that `size` and `remap` stay below
`cap`, which leaves an empty slot for every loop to stop at. `Good` is a type,
`Once` (no key in two slots) and `Probing`: between an entry's home and its slot,
around the circle, no slot is empty. Growing puts the entries into an empty table
one by one. Deletion is the difficult part: the code compares home, index and
hole in three inequalities with a case for wrapped rows (`MovesTo`). The proof
cuts the circle at an empty slot, which turns it into a line on which no row of
entries wraps around; on the line the three inequalities say that the hole lies
between the entry's home and its slot, and the invariant of the loop is that the
hole is the only empty slot on any entry's way, and only on that of entries the
loop has yet to come to (`Holed`). It ends at an empty slot, at the latest where
the line does, behind which no entry's way goes back to the hole. For the
refinement the table is the set of its pairs (`Pairs`), to which a put adds one
and from which a deletion takes one, wherever the entries are moved.

ScMapForeach. For a loop that only looks, a key has been visited once if the loop
has come by its slot (`LookInv`). For the cleaner's (`CleanInv`): every map in
between is `MapOK` with the living as they were; a dead key has been visited just
if it is gone; and as long as the table is untouched no dead key has been passed,
so that a round over a table with one does delete.

Only model-checked: the handles with two workers, of which the runs show that
nearly everything is false; and `CleanedUp`, which as liveness under fairness is
out of the prover's reach. In all theorems the bounds of the
models (`MaxCap`, `MaxFd`, `MaxSize`, `MaxPath` and the like) are any numbers.

## 6. Not modelled

`statfs` reports what `sysinfo` says; the stubs have no effect; nobody calls the
deprecated file functions; of `murmurhash` only that it is a function matters;
the permissions of group and others and the times are stored and never read.

Races inside what the modules take for one step:

- Two handlers in one map. `FsTree` and `FuseFs` have what can come of it
  (`Overtaken`, `FinishOvertaken`) and not the steps that lead there; after a
  crash or a torn map nothing is modelled. With more than one worker no answer
  is promised but up to an ENOENT too many, and of hidden files and renames what
  section 2 says.
- A read beside a write of the same file, and the cleaner's loop over slots that
  a `put` frees: what follows is a read of freed memory, of which nothing can be
  promised.
- `add_file` puts an item and then increments `next_fd` (`fs_fh.c:75-77`), one step
  in `FileHandles`: two opens of one pid at once cannot be, a thread makes one
  request at a time.
- The kernel's look at a path and the OPEN that follows (`Open` of `FuseFs`). An
  unlink in between finds the file not yet open and frees it, and the OPEN is
  refused; the open of a file that is being released for the last time may find
  its hidden name about to go.

`FuseFs` takes from `FileHandles` that a handle leads to its item (`Resolves`),
which is shown for one worker without the cleaner; with several it also needs that
no two calls are in `fs_pids` or a table of it at once, which the run
`handles_found` shows nobody sees to. Memory never runs out in `FsTree`
(`fs.c:177` ignores that a map could not grow). The path splitting is modelled for
paths that fit the arrays, and `-1` as an owner as what the code stores.

## 7. Plan

Done, in this order: `FsTree` with `Namespace` (everything rests on the tree),
`FileData` with `ByteFile`, `FileHandles`, `ScMap` with `KeyValue`; then `FuseFs`
with `PosixFiles` (attributes and the life of open files), `PathString` and
`ScMapForeach`; then the theorems of section 5, of every safety invariant the
runs check and of the four refinements; then workers that meet in a map, and
requests of two calls in any number.

Next: the steps of two walks through one map (get, test of `found`, put), of
which `Overtaken` has the outcomes; `FileRace`, the two halves of `fs_read` and `fs_write` on two workers, for
what holds of reads that do not overlap a write that grows the file.
