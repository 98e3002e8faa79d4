---------------------------- MODULE FileHandles ----------------------------
(***************************************************************************)
(* The table of open files, src/src/fs_fh.c: fs_pids maps the pid that     *)
(* opened a file to its fs_fh_pid, which maps fds to items; a handle is    *)
(* the pid and the fd.  The requests run on libfuse's worker threads, one  *)
(* step per call on a map or check of its "found" flag, beside the thread  *)
(* that drops the pids that are gone.  Nothing in the code keeps them      *)
(* apart.  What happens inside one call on a map is ScMap's subject.       *)
(*                                                                         *)
(* The kernel: the pid of a request is the id of the thread that made it;  *)
(* files are shared by the threads of a process and inherited by fork; a   *)
(* thread whose request is with the daemon cannot exit; RELEASE comes once *)
(* nobody holds the file, at any later time.                               *)
(***************************************************************************)
EXTENDS Integers

CONSTANTS
  Worker,      \* libfuse's threads; one of them is the option -s
  Cleaner,     \* does pid_clean_fn run?  Without -f, libfuse forks it away
  Tid,         \* what a request's pid can be: thread ids
  Process,
  ProcessOf,   \* the process of each thread
  ReusePids,   \* the kernel gives the id of a thread that exited to a new one
  Foreign,     \* threads of other users: kill(pid, 0) fails with EPERM
  Item,
  File,        \* bound: the kernel's open files
  Ffp,         \* bound: where malloc may place an fs_fh_pid
  MaxFd,       \* bound: the largest fd
  Null

Fd == 1..MaxFd
Object == [next_fd : 1..(MaxFd + 1), items : [Fd -> Item \cup {Null}], found : BOOLEAN]

ASSUME HandleAssumption ==
  /\ Cleaner \in BOOLEAN /\ ReusePids \in BOOLEAN
  /\ ProcessOf \in [Tid -> Process]
  /\ Foreign \subseteq Tid
  /\ MaxFd \in Nat
  /\ Null \notin Worker \cup Tid \cup Process \cup Item \cup File \cup Ffp \cup Object

VARIABLES
  task,      \* of each thread id: "unborn", "running" or "gone"
  files,     \* the kernel's open files: handle, item and who holds them
  fs_pids,   \* pid -> where its fs_fh_pid is
  found,     \* fs_pids.found
  ffp,       \* the fs_fh_pid objects; Null where nothing is allocated
  worker,    \* the request each worker serves and how far it is
  cleaner,   \* how far pid_clean_fn is
  daemon     \* "mounted", "freed" (in free_fs_fh), "exited" or "crashed"

kernel == <<task, files>>
table == <<fs_pids, found, ffp>>
vars == <<task, files, fs_pids, found, ffp, worker, cleaner, daemon>>

Idle == [pc |-> "idle", op |-> "none", task |-> Null, file |-> Null,
         item |-> Null, ptr |-> Null, ret |-> "none"]
Asleep == [pc |-> "sleep", todo |-> {}, pid |-> Null, ptr |-> Null]

Running(p) == \E t \in Tid : ProcessOf[t] = p /\ task[t] = "running"
Waiting(t) == \E w \in Worker : worker[w].task = t
InUse(f) == \E w \in Worker : worker[w].file = f

-----------------------------------------------------------------------------
Init ==
  /\ task = [t \in Tid |-> "unborn"]
  /\ files = <<>>
  /\ fs_pids = [t \in Tid |-> Null]
  /\ found = FALSE
  /\ ffp = [o \in Ffp |-> Null]
  /\ worker = [w \in Worker |-> Idle]
  /\ cleaner = Asleep
  /\ daemon = "mounted"

-----------------------------------------------------------------------------
(* Processes and threads, and what they ask for.                           *)

(* A new thread of its process, or the first one of a process that         *)
(* inherits the files of its parent.                                       *)
Start(t) ==
  /\ task[t] = "unborn" \/ (ReusePids /\ task[t] = "gone")
  /\ task' = [task EXCEPT ![t] = "running"]
  /\ IF Running(ProcessOf[t]) THEN UNCHANGED files
     ELSE \E parent \in Process :
            files' = [f \in DOMAIN files |->
                        IF parent \in files[f].holders
                        THEN [files[f] EXCEPT !.holders = @ \cup {ProcessOf[t]}]
                        ELSE files[f]]
  /\ UNCHANGED <<table, worker, cleaner, daemon>>

(* The last thread of a process closes what it holds.                      *)
Exit(t) ==
  /\ task[t] = "running" /\ ~Waiting(t)
  /\ task' = [task EXCEPT ![t] = "gone"]
  /\ files' = IF \E u \in Tid \ {t} : ProcessOf[u] = ProcessOf[t] /\ task[u] = "running"
              THEN files
              ELSE [f \in DOMAIN files |-> [files[f] EXCEPT !.holders = @ \ {ProcessOf[t]}]]
  /\ UNCHANGED <<table, worker, cleaner, daemon>>

Close(t, f) ==
  /\ task[t] = "running" /\ ~Waiting(t)
  /\ f \in DOMAIN files /\ ProcessOf[t] \in files[f].holders
  /\ files' = [files EXCEPT ![f].holders = @ \ {ProcessOf[t]}]
  /\ UNCHANGED <<task, table, worker, cleaner, daemon>>

Request(w, op, t, f, i) ==
  /\ daemon = "mounted" /\ worker[w].pc = "idle"
  /\ worker' = [worker EXCEPT ![w] = [Idle EXCEPT !.pc = "get", !.op = op, !.task = t,
                                                  !.file = f, !.item = i]]
  /\ UNCHANGED <<kernel, table, cleaner, daemon>>

(* fdo_open and fdo_opendir, after fs_access found the item.               *)
Open(w, t, f, i) ==
  /\ task[t] = "running" /\ ~Waiting(t)
  /\ f \notin DOMAIN files /\ ~InUse(f)
  /\ Request(w, "open", t, f, i)

(* Every call that comes with a handle: getattr, readdir, read, write, ... *)
Use(w, t, f) ==
  /\ task[t] = "running" /\ ~Waiting(t)
  /\ f \in DOMAIN files /\ ProcessOf[t] \in files[f].holders
  /\ Request(w, "use", t, f, Null)

Release(w, f) ==
  /\ f \in DOMAIN files /\ files[f].holders = {} /\ ~InUse(f)
  /\ Request(w, "release", Null, f, Null)

-----------------------------------------------------------------------------
(* fs_fh.c on a worker thread.                                             *)

At(w, pc) == daemon \in {"mounted", "freed"} /\ worker[w].pc = pc

(* Reading or writing through NULL or memory that was freed: the daemon is *)
(* gone.                                                                   *)
Crash == daemon' = "crashed" /\ UNCHANGED <<kernel, table, worker, cleaner>>

Dangling(o) == o \notin {p \in Ffp : ffp[p] # Null}

(* split_handle, or fuse_get_context()->pid when the file is being opened. *)
pid(w) == IF worker[w].op = "open" THEN worker[w].task ELSE files[worker[w].file].pid
fd(w) == files[worker[w].file].fd

(* ffp = sc_map_get_32v(&fs_pids, pid)                                     *)
GetPid(w) ==
  /\ At(w, "get")
  /\ worker' = [worker EXCEPT ![w].pc = "found", ![w].ptr = fs_pids[pid(w)]]
  /\ found' = (fs_pids[pid(w)] # Null)
  /\ UNCHANGED <<kernel, fs_pids, ffp, cleaner, daemon>>

(* sc_map_found(&fs_pids), where "process is terminated" is decided.       *)
CheckPid(w) ==
  /\ At(w, "found")
  /\ \/ found /\ worker' = [worker EXCEPT ![w].pc = "items"]
     \/ /\ ~found /\ worker[w].op = "open"
        /\ worker' = [worker EXCEPT ![w].pc = "put"]
     \/ /\ ~found /\ worker[w].op = "use"
        /\ worker' = [worker EXCEPT ![w].pc = "reply", ![w].ret = "terminated"]
     \/ /\ ~found /\ worker[w].op = "release"
        /\ worker' = [worker EXCEPT ![w].pc = "reply", ![w].ret = "OK"]
  /\ UNCHANGED <<kernel, table, cleaner, daemon>>

(* Mutant of FirstFd: fds begin with 0 (line 63).                          *)
FirstFdIsZero == 0

FirstFd == 1

(* new_ffp wherever malloc has room, then sc_map_put_32v(&fs_pids, ...)    *)
new_ffp(w) ==
  /\ At(w, "put")
  /\ \E o \in Ffp :
       /\ ffp[o] = Null
       /\ ffp' = [ffp EXCEPT ![o] = [next_fd |-> FirstFd, items |-> [d \in Fd |-> Null],
                                     found |-> FALSE]]
       /\ fs_pids' = [fs_pids EXCEPT ![pid(w)] = o]
       /\ found' = (fs_pids[pid(w)] # Null)
       /\ worker' = [worker EXCEPT ![w].pc = "items", ![w].ptr = o]
  /\ UNCHANGED <<kernel, cleaner, daemon>>

(* The rest of add_file: the kernel has the handle when the call returns.  *)
PutFile(w, fd_given, next_fd) ==
  LET o == worker[w].ptr
      d == ffp[o].next_fd
      handle == [pid |-> pid(w), fd |-> fd_given, item |-> worker[w].item,
                 holders |-> {ProcessOf[worker[w].task]}]
  IN  /\ d <= MaxFd
      /\ ffp' = [ffp EXCEPT ![o] =
                   [next_fd |-> next_fd, found |-> ffp[o].items[d] # Null,
                    items |-> [ffp[o].items EXCEPT ![d] = worker[w].item]]]
      /\ files' = [f \in DOMAIN files \cup {worker[w].file} |->
                     IF f = worker[w].file THEN handle ELSE files[f]]
      /\ worker' = [worker EXCEPT ![w].pc = "reply", ![w].ret = "OK"]
      /\ UNCHANGED <<task, fs_pids, found, cleaner, daemon>>

NextFd(w) == ffp[worker[w].ptr].next_fd

(* Mutant of add_file: next_fd is not advanced (line 77 dropped).          *)
ForgetNextFd(w) == PutFile(w, NextFd(w), NextFd(w))

(* Mutant of add_file: lines 76 and 77 the other way round.                *)
HandleAfterIncrement(w) == NextFd(w) < MaxFd /\ PutFile(w, NextFd(w) + 1, NextFd(w) + 1)

add_file(w) == PutFile(w, NextFd(w), NextFd(w) + 1)

(* item = sc_map_get_32v(&ffp->items, fd)                                  *)
fs_fh_get_item(w) ==
  LET o == worker[w].ptr
      i == ffp[o].items[fd(w)]
  IN  /\ ffp' = [ffp EXCEPT ![o] = [next_fd |-> ffp[o].next_fd, found |-> i # Null,
                                     items |-> ffp[o].items]]
      /\ worker' = [worker EXCEPT ![w].pc = "closed", ![w].item = i]
      /\ UNCHANGED <<kernel, fs_pids, found, cleaner, daemon>>

(* Mutant of fs_fh_release_file: the pid's whole table goes with one file. *)
ReleasePid(w) ==
  /\ fs_pids' = [fs_pids EXCEPT ![pid(w)] = Null]
  /\ ffp' = [ffp EXCEPT ![worker[w].ptr] = Null]
  /\ worker' = [worker EXCEPT ![w].pc = "reply", ![w].ret = "OK"]
  /\ UNCHANGED <<kernel, found, cleaner, daemon>>

fs_fh_release_file(w) ==
  LET o == worker[w].ptr
  IN  /\ ffp' = [ffp EXCEPT ![o] =
                   [next_fd |-> ffp[o].next_fd, found |-> ffp[o].items[fd(w)] # Null,
                    items |-> [ffp[o].items EXCEPT ![fd(w)] = Null]]]
      /\ worker' = [worker EXCEPT ![w].pc = "reply", ![w].ret = "OK"]
      /\ UNCHANGED <<kernel, fs_pids, found, cleaner, daemon>>

UseItems(w) ==
  /\ At(w, "items")
  /\ \/ Dangling(worker[w].ptr) /\ Crash
     \/ /\ ~Dangling(worker[w].ptr)
        /\ \/ worker[w].op = "open" /\ add_file(w)
           \/ worker[w].op = "use" /\ fs_fh_get_item(w)
           \/ worker[w].op = "release" /\ fs_fh_release_file(w)

(* sc_map_found(&ffp->items), where "file is closed" is decided.           *)
CheckItem(w) ==
  /\ At(w, "closed")
  /\ \/ Dangling(worker[w].ptr) /\ Crash
     \/ /\ ~Dangling(worker[w].ptr)
        /\ worker' = [worker EXCEPT ![w].pc = "reply",
             ![w].ret = IF ffp[worker[w].ptr].found THEN "OK" ELSE "closed"]
        /\ UNCHANGED <<kernel, table, cleaner, daemon>>

(* The answer reaches the kernel; after RELEASE the handle is forgotten.   *)
Reply(w) ==
  /\ At(w, "reply")
  /\ worker' = [worker EXCEPT ![w] = Idle]
  /\ files' = IF worker[w].op = "release"
              THEN [f \in DOMAIN files \ {worker[w].file} |-> files[f]] ELSE files
  /\ UNCHANGED <<task, table, cleaner, daemon>>

-----------------------------------------------------------------------------
(* pid_clean_fn, and free_fs_fh at unmount.                                *)

Cleans(pc) == daemon \in {"mounted", "freed"} /\ cleaner.pc = pc

Wake ==
  /\ Cleaner /\ Cleans("sleep")
  /\ cleaner' = [Asleep EXCEPT !.pc = "visit", !.todo = Tid]
  /\ UNCHANGED <<kernel, table, worker, daemon>>

(* Mutant of Rest: one round and no more (the loop of line 40 dropped).    *)
NoRest == FALSE

Rest == cleaner.todo = {} /\ cleaner' = Asleep

(* The slots are visited in an order that depends on the hashes.           *)
Visit ==
  /\ Cleans("visit")
  /\ \/ Rest
     \/ \E t \in cleaner.todo :
          cleaner' = [pc |-> IF fs_pids[t] = Null THEN "visit" ELSE "kill",
                      todo |-> cleaner.todo \ {t}, pid |-> t, ptr |-> fs_pids[t]]
  /\ UNCHANGED <<kernel, table, worker, daemon>>

(* Mutant of Gone: every pid is taken for gone (line 47).                   *)
AlwaysGone(t) == TRUE

Gone(t) == task[t] = "gone" \/ t \in Foreign

(* kill(pid, 0) == -1                                                      *)
Kill ==
  /\ Cleans("kill")
  /\ cleaner' = [cleaner EXCEPT !.pc = IF Gone(cleaner.pid) THEN "term" ELSE "visit"]
  /\ UNCHANGED <<kernel, table, worker, daemon>>

(* sc_map_term_32v(&pobj->items)                                           *)
TermItems ==
  /\ Cleans("term")
  /\ \/ Dangling(cleaner.ptr) /\ Crash
     \/ /\ ~Dangling(cleaner.ptr)
        /\ ffp' = [ffp EXCEPT ![cleaner.ptr].items = [d \in Fd |-> Null],
                              ![cleaner.ptr].found = FALSE]
        /\ cleaner' = [cleaner EXCEPT !.pc = "free"]
        /\ UNCHANGED <<kernel, fs_pids, found, worker, daemon>>

(* Mutant of Freed: nothing is freed (lines 49 and 144 dropped).            *)
NothingFreed(objects) == ffp

Freed(objects) == [o \in Ffp |-> IF o \in objects THEN Null ELSE ffp[o]]

(* free(pobj)                                                              *)
FreePid ==
  /\ Cleans("free")
  /\ \/ Dangling(cleaner.ptr) /\ Crash
     \/ /\ ~Dangling(cleaner.ptr)
        /\ ffp' = Freed({cleaner.ptr})
        /\ cleaner' = [cleaner EXCEPT !.pc = "del"]
        /\ UNCHANGED <<kernel, fs_pids, found, worker, daemon>>

(* sc_map_del_32v(&fs_pids, pid).  What comes after the hole in its row of *)
(* slots moves down, behind the loop's index, and is not visited this time.*)
DelPid ==
  /\ Cleans("del")
  /\ fs_pids' = [fs_pids EXCEPT ![cleaner.pid] = Null]
  /\ found' = (fs_pids[cleaner.pid] # Null)
  /\ \E rest \in SUBSET cleaner.todo :
       cleaner' = [cleaner EXCEPT !.pc = "visit", !.todo = rest]
  /\ UNCHANGED <<kernel, ffp, worker, daemon>>

(* fuse_main has returned.  free_fs_fh frees every object, then the table, *)
(* and cancels the cleaner only then.                                      *)
Unmount ==
  /\ daemon = "mounted" /\ \A w \in Worker : worker[w].pc = "idle"
  /\ ffp' = Freed({fs_pids[t] : t \in Tid})
  /\ daemon' = "freed"
  /\ UNCHANGED <<kernel, fs_pids, found, worker, cleaner>>

ExitDaemon ==
  /\ daemon = "freed"
  /\ fs_pids' = [t \in Tid |-> Null]
  /\ found' = FALSE
  /\ daemon' = "exited"
  /\ UNCHANGED <<kernel, ffp, worker, cleaner>>

-----------------------------------------------------------------------------
Kernel ==
  \/ \E t \in Tid : Start(t) \/ Exit(t)
  \/ \E t \in Tid, f \in File : Close(t, f)
  \/ \E w \in Worker, f \in File : Release(w, f)
  \/ \E w \in Worker, t \in Tid, f \in File : Use(w, t, f)
  \/ \E w \in Worker, t \in Tid, f \in File, i \in Item : Open(w, t, f, i)

Serve(w) ==
  GetPid(w) \/ CheckPid(w) \/ new_ffp(w) \/ UseItems(w) \/ CheckItem(w) \/ Reply(w)

pid_clean_fn == Wake \/ Visit \/ Kill \/ TermItems \/ FreePid \/ DelPid

free_fs_fh == Unmount \/ ExitDaemon

Next ==
  \/ Kernel
  \/ \E w \in Worker : Serve(w)
  \/ pid_clean_fn
  \/ free_fs_fh

Spec == Init /\ [][Next]_vars

(* The cleaner is a thread of its own: it sleeps one second at a time and  *)
(* no lock can keep it out.                                                *)
FairSpec == Spec /\ WF_vars(pid_clean_fn)

-----------------------------------------------------------------------------
TypeOK ==
  /\ task \in [Tid -> {"unborn", "running", "gone"}]
  /\ DOMAIN files \subseteq File
  /\ \A f \in DOMAIN files :
       files[f] \in [pid : Tid, fd : Fd, item : Item, holders : SUBSET Process]
  /\ fs_pids \in [Tid -> Ffp \cup {Null}]
  /\ found \in BOOLEAN
  /\ ffp \in [Ffp -> Object \cup {Null}]
  /\ worker \in [Worker ->
       [pc : {"idle", "get", "found", "put", "items", "closed", "reply"},
        op : {"open", "use", "release", "none"}, task : Tid \cup {Null},
        file : File \cup {Null}, item : Item \cup {Null}, ptr : Ffp \cup {Null},
        ret : {"OK", "terminated", "closed", "none"}]]
  /\ cleaner \in [pc : {"sleep", "visit", "kill", "term", "free", "del"},
                  todo : SUBSET Tid, pid : Tid \cup {Null}, ptr : Ffp \cup {Null}]
  /\ daemon \in {"mounted", "freed", "exited", "crashed"}

Releasing(f) == \E w \in Worker : worker[w].file = f /\ worker[w].op = "release"

(* While a file is open its handle leads to the item it was opened for,    *)
(* whichever threads opened, inherited or closed files meanwhile: the      *)
(* table's entries are made and dropped in step with the kernel's files.   *)
Resolves ==
  daemon = "mounted" =>
    \A f \in DOMAIN files :
      LET o == fs_pids[files[f].pid]
      IN  Releasing(f) \/ (~Dangling(o) /\ ffp[o].items[files[f].fd] = files[f].item)

(* With one worker and no cleaner, every call on an open file is answered  *)
(* with that file's item and the daemon never follows a bad pointer.       *)
UsesSucceed ==
  /\ daemon # "crashed"
  /\ \A w \in Worker :
       worker[w].pc = "reply" /\ worker[w].op = "use" =>
         worker[w].ret = "OK" /\ worker[w].item = files[worker[w].file].item

(* Two open files never share a handle.                                    *)
HandlesDiffer ==
  \A f, g \in DOMAIN files :
    f # g => <<files[f].pid, files[f].fd>> # <<files[g].pid, files[g].fd>>

(* Every fs_fh_pid is in the table, so that closing, cleaning and          *)
(* unmounting between them free all of it; after unmount nothing is left.  *)
NoLeak ==
  /\ \A o \in Ffp : ffp[o] # Null => \E t \in Tid : fs_pids[t] = o
  /\ daemon = "exited" => \A o \in Ffp : ffp[o] = Null

(* fs_fh.c:99 answers EBADF where the "process is terminated".             *)
TerminatedMeansTerminated ==
  \A w \in Worker :
    worker[w].ret = "terminated" => ~Running(ProcessOf[files[worker[w].file].pid])

(* sc_map.h:134: "call sc_map_found() to see if returned value if valid".  *)
FoundMeansValid ==
  \A w \in Worker :
    /\ worker[w].pc = "items" => worker[w].ptr # Null
    /\ worker[w].pc = "reply" /\ worker[w].op = "use" /\ worker[w].ret # "terminated" =>
         (worker[w].ret = "OK" <=> worker[w].item # Null)

(* No entry of a thread that still runs is dropped or replaced before      *)
(* unmount: the handles it gave out keep their table.                      *)
LivingKeepTheirs ==
  [][\A t \in Tid \ Foreign :
       task[t] = "running" /\ fs_pids[t] # Null /\ daemon = "mounted" =>
         fs_pids'[t] = fs_pids[t]]_vars

(* The entry of a thread that is gone is dropped after some time.          *)
CleanedUp ==
  \A t \in Tid :
    task[t] = "gone" /\ fs_pids[t] # Null
      ~> fs_pids[t] = Null \/ daemon # "mounted"

=============================================================================
