------------------------- MODULE FileHandlesProofs -------------------------
(***************************************************************************)
(* Proofs about FileHandles with one worker thread, for any number of      *)
(* processes, threads, files and fds: first without the cleaner and with   *)
(* reused pids, then, from LookupOK on, with the cleaner beside the worker.*)
(***************************************************************************)
EXTENDS FileHandles, TLAPS

OneWorker == \A v, w \in Worker : v = w

(* What the worker knows at each point of its request is still so: nothing *)
(* but its own steps changes the table.                                    *)
WorkerOK(w) ==
  /\ worker[w].pc = "idle" => worker[w] = Idle
  /\ worker[w].pc # "idle" =>
       /\ daemon = "mounted" /\ worker[w].file \in File
       /\ worker[w].op \in {"open", "use", "release"}
  /\ worker[w].op = "open" =>
       /\ worker[w].task \in Tid /\ worker[w].item \in Item
       /\ worker[w].pc # "reply" => worker[w].file \notin DOMAIN files
  /\ worker[w].op \in {"use", "release"} => worker[w].file \in DOMAIN files
  /\ worker[w].pc = "found" =>
       worker[w].ptr = fs_pids[pid(w)] /\ found = (fs_pids[pid(w)] # Null)
  /\ worker[w].pc = "put" => worker[w].op = "open" /\ fs_pids[pid(w)] = Null
  /\ worker[w].pc = "items" => worker[w].ptr = fs_pids[pid(w)] /\ worker[w].ptr # Null
  /\ worker[w].pc = "closed" =>
       /\ worker[w].op = "use" /\ worker[w].ptr = fs_pids[pid(w)] /\ worker[w].ptr # Null
       /\ ffp[worker[w].ptr].found /\ worker[w].item = files[worker[w].file].item
  /\ worker[w].pc = "reply" /\ worker[w].op = "use" =>
       worker[w].ret = "OK" /\ worker[w].item = files[worker[w].file].item

(* The table and its objects belong together one to one.                   *)
TableOK ==
  /\ \A t \in Tid : daemon = "mounted" /\ fs_pids[t] # Null => ffp[fs_pids[t]] # Null
  /\ \A t, u \in Tid : fs_pids[t] = fs_pids[u] /\ fs_pids[t] # Null => t = u
  /\ \A o \in Ffp : ffp[o] # Null => \E t \in Tid : fs_pids[t] = o

FileOK(f) ==
  LET o == fs_pids[files[f].pid]
  IN  /\ o # Null /\ files[f].fd < ffp[o].next_fd
      /\ Releasing(f) \/ ffp[o].items[files[f].fd] = files[f].item

DaemonOK ==
  /\ daemon \in {"mounted", "freed", "exited"}
  /\ cleaner = Asleep
  /\ daemon # "mounted" => \A o \in Ffp : ffp[o] = Null

IInv ==
  /\ TypeOK
  /\ DaemonOK
  /\ TableOK
  /\ HandlesDiffer
  /\ \A w \in Worker : WorkerOK(w)
  /\ daemon = "mounted" => \A f \in DOMAIN files : FileOK(f)

Assumptions == HandleAssumption /\ OneWorker /\ ~Cleaner

LEMMA InitIInv == HandleAssumption /\ Init => IInv
PROOF
<1> SUFFICES ASSUME HandleAssumption, Init
             PROVE  IInv
  OBVIOUS
<1>1. TypeOK
  <2>1. files = <<>> /\ DOMAIN files = {}
    BY DEF Init
  <2> QED
    BY <2>1 DEF Init, TypeOK, Idle, Asleep
<1>2. DaemonOK /\ TableOK
  BY DEF Init, DaemonOK, TableOK
<1>3. DOMAIN files = {}
  BY DEF Init
<1>4. \A w \in Worker : WorkerOK(w)
  BY DEF Init, WorkerOK, Idle, HandleAssumption
<1> QED
  BY <1>1, <1>2, <1>3, <1>4 DEF IInv, HandlesDiffer

(* Processes that start, end and close files leave the handles alone.      *)
LEMMA KernelPreserves ==
  ASSUME Assumptions, IInv,
         task' \in [Tid -> {"unborn", "running", "gone"}],
         DOMAIN files' = DOMAIN files,
         \A f \in DOMAIN files :
           /\ files'[f] \in [pid : Tid, fd : Fd, item : Item, holders : SUBSET Process]
           /\ files'[f].pid = files[f].pid
           /\ files'[f].fd = files[f].fd
           /\ files'[f].item = files[f].item,
         UNCHANGED <<table, worker, cleaner, daemon>>
  PROVE  IInv'
PROOF
<1> USE DEF table
<1>1. TypeOK'
  BY DEF IInv, TypeOK
<1>2. DaemonOK' /\ TableOK'
  BY DEF IInv, DaemonOK, TableOK
<1>3. HandlesDiffer'
  BY DEF IInv, HandlesDiffer
<1>4. ASSUME NEW w \in Worker
      PROVE  WorkerOK(w)'
  BY <1>4 DEF IInv, WorkerOK, pid
<1>5. ASSUME daemon' = "mounted", NEW f \in DOMAIN files'
      PROVE  FileOK(f)'
  BY <1>5 DEF IInv, FileOK, Releasing
<1> QED
  BY <1>1, <1>2, <1>3, <1>4, <1>5 DEF IInv

LEMMA StartPreserves ==
  ASSUME Assumptions, IInv, NEW t \in Tid, Start(t)
  PROVE  IInv'
PROOF
<1>1. task' \in [Tid -> {"unborn", "running", "gone"}]
  BY DEF Start, IInv, TypeOK
<1>2. ProcessOf[t] \in Process
  BY DEF Assumptions, HandleAssumption
<1>3. /\ DOMAIN files' = DOMAIN files
      /\ \A f \in DOMAIN files :
           /\ files'[f] \in [pid : Tid, fd : Fd, item : Item, holders : SUBSET Process]
           /\ files'[f].pid = files[f].pid
           /\ files'[f].fd = files[f].fd
           /\ files'[f].item = files[f].item
  BY <1>2 DEF Start, IInv, TypeOK
<1> QED
  BY <1>1, <1>3, KernelPreserves DEF Start

LEMMA ExitPreserves ==
  ASSUME Assumptions, IInv, NEW t \in Tid, Exit(t)
  PROVE  IInv'
PROOF
<1>1. task' \in [Tid -> {"unborn", "running", "gone"}]
  BY DEF Exit, IInv, TypeOK
<1>2. /\ DOMAIN files' = DOMAIN files
      /\ \A f \in DOMAIN files :
           /\ files'[f] \in [pid : Tid, fd : Fd, item : Item, holders : SUBSET Process]
           /\ files'[f].pid = files[f].pid
           /\ files'[f].fd = files[f].fd
           /\ files'[f].item = files[f].item
  BY DEF Exit, IInv, TypeOK
<1> QED
  BY <1>1, <1>2, KernelPreserves DEF Exit

LEMMA ClosePreserves ==
  ASSUME Assumptions, IInv, NEW t \in Tid, NEW g \in File, Close(t, g)
  PROVE  IInv'
PROOF
<1>1. /\ DOMAIN files' = DOMAIN files
      /\ \A f \in DOMAIN files :
           /\ files'[f] \in [pid : Tid, fd : Fd, item : Item, holders : SUBSET Process]
           /\ files'[f].pid = files[f].pid
           /\ files'[f].fd = files[f].fd
           /\ files'[f].item = files[f].item
  BY DEF Close, IInv, TypeOK
<1>2. task' \in [Tid -> {"unborn", "running", "gone"}]
  BY DEF Close, IInv, TypeOK
<1> QED
  BY <1>1, <1>2, KernelPreserves DEF Close

(* A new request finds the worker idle.                                    *)
LEMMA RequestPreserves ==
  ASSUME Assumptions, IInv, NEW w \in Worker, NEW op \in {"open", "use", "release"},
         NEW t \in Tid \cup {Null}, NEW f \in File, NEW i \in Item \cup {Null},
         Request(w, op, t, f, i),
         op = "open" => t \in Tid /\ i \in Item /\ f \notin DOMAIN files,
         op # "open" => f \in DOMAIN files
  PROVE  IInv'
PROOF
<1> DEFINE k == [Idle EXCEPT !.pc = "get", !.op = op, !.task = t, !.file = f, !.item = i]
<1>1. /\ worker' = [worker EXCEPT ![w] = k]
      /\ k.pc = "get" /\ k.op = op /\ k.task = t /\ k.file = f /\ k.item = i
      /\ k.ptr = Null /\ k.ret = "none"
  BY DEF Request, Idle
<1>2. UNCHANGED <<task, files, fs_pids, found, ffp, cleaner, daemon>> /\ daemon = "mounted"
  BY DEF Request, kernel, table
<1> HIDE DEF k
<1>3. worker' = [v \in Worker |-> k] /\ worker[w].pc = "idle" /\ worker[w] = Idle
  <2>1. worker' = [v \in Worker |-> k]
    BY <1>1 DEF Assumptions, OneWorker, IInv, TypeOK
  <2>2. worker[w].pc = "idle"
    BY DEF Request
  <2> QED
    BY <2>1, <2>2 DEF IInv, WorkerOK
<1>4. k \in [pc : {"idle", "get", "found", "put", "items", "closed", "reply"},
             op : {"open", "use", "release", "none"}, task : Tid \cup {Null},
             file : File \cup {Null}, item : Item \cup {Null}, ptr : Ffp \cup {Null},
             ret : {"OK", "terminated", "closed", "none"}]
  BY <1>1 DEF k, Idle
<1>5. TypeOK'
  BY <1>2, <1>3, <1>4 DEF IInv, TypeOK
<1>6. DaemonOK' /\ TableOK' /\ HandlesDiffer'
  BY <1>2 DEF IInv, DaemonOK, TableOK, HandlesDiffer
<1>7. ASSUME NEW v \in Worker
      PROVE  WorkerOK(v)'
  BY <1>1, <1>2, <1>3, <1>7 DEF WorkerOK
<1>8. ASSUME daemon' = "mounted", NEW g \in DOMAIN files'
      PROVE  FileOK(g)'
  <2>1. ~Releasing(g)
    BY <1>3 DEF Releasing, Assumptions, OneWorker, Idle
  <2> QED
    BY <1>2, <1>8, <2>1 DEF IInv, FileOK
<1> QED
  BY <1>5, <1>6, <1>7, <1>8 DEF IInv

LEMMA KernelRequests ==
  ASSUME Assumptions, IInv, Kernel
  PROVE  IInv'
PROOF
<1>1. ASSUME NEW t \in Tid, Start(t) \/ Exit(t)
      PROVE  IInv'
  BY <1>1, StartPreserves, ExitPreserves
<1>2. ASSUME NEW t \in Tid, NEW f \in File, Close(t, f)
      PROVE  IInv'
  BY <1>2, ClosePreserves
<1>3. ASSUME NEW w \in Worker, NEW f \in File, Release(w, f)
      PROVE  IInv'
  BY <1>3, RequestPreserves DEF Release
<1>4. ASSUME NEW w \in Worker, NEW t \in Tid, NEW f \in File, Use(w, t, f)
      PROVE  IInv'
  BY <1>4, RequestPreserves DEF Use
<1>5. ASSUME NEW w \in Worker, NEW t \in Tid, NEW f \in File, NEW i \in Item,
             Open(w, t, f, i)
      PROVE  IInv'
  BY <1>5, RequestPreserves DEF Open
<1> QED
  BY <1>1, <1>2, <1>3, <1>4, <1>5 DEF Kernel

(* What every step of the worker gives the proofs below: the one worker's  *)
(* record is replaced, the kernel's tasks and the daemon stay.             *)
WorkerType ==
  [pc : {"idle", "get", "found", "put", "items", "closed", "reply"},
   op : {"open", "use", "release", "none"}, task : Tid \cup {Null},
   file : File \cup {Null}, item : Item \cup {Null}, ptr : Ffp \cup {Null},
   ret : {"OK", "terminated", "closed", "none"}]

LEMMA PidIsTid ==
  ASSUME Assumptions, IInv, NEW w \in Worker, worker[w].pc # "idle"
  PROVE  pid(w) \in Tid
PROOF
<1> QED
  BY DEF IInv, TypeOK, WorkerOK, pid

(* Steps that only look at the table and change what the worker knows.     *)
LEMMA LocalStep ==
  ASSUME Assumptions, IInv, NEW w \in Worker, NEW k \in WorkerType, found' \in BOOLEAN,
         worker' = [worker EXCEPT ![w] = k],
         k.op = worker[w].op, k.file = worker[w].file, daemon = "mounted",
         UNCHANGED <<task, files, fs_pids, ffp, cleaner, daemon>>,
         WorkerOK(w)'
  PROVE  IInv'
PROOF
<1>1. worker' \in [Worker -> WorkerType]
  BY DEF IInv, TypeOK, WorkerType
<1>2. TypeOK'
  BY <1>1 DEF IInv, TypeOK, WorkerType
<1>3. DaemonOK' /\ TableOK' /\ HandlesDiffer'
  BY DEF IInv, DaemonOK, TableOK, HandlesDiffer
<1>4. \A v \in Worker : WorkerOK(v)'
  BY DEF Assumptions, OneWorker
<1>5. worker'[w] = k
  BY DEF IInv, TypeOK
<1>6. ASSUME NEW g \in DOMAIN files'
      PROVE  FileOK(g)'
  BY <1>5, <1>6 DEF IInv, FileOK, Releasing, Assumptions, OneWorker
<1> QED
  BY <1>2, <1>3, <1>4, <1>6 DEF IInv

LEMMA GetPidPreserves ==
  ASSUME Assumptions, IInv, NEW w \in Worker, GetPid(w)
  PROVE  IInv'
PROOF
<1> DEFINE k == [worker[w] EXCEPT !.pc = "found", !.ptr = fs_pids[pid(w)]]
<1>1. daemon = "mounted" /\ worker[w].pc = "get" /\ worker[w] \in WorkerType
  BY DEF GetPid, At, IInv, TypeOK, WorkerOK, WorkerType
<1>2. pid(w) \in Tid /\ fs_pids[pid(w)] \in Ffp \cup {Null}
  BY <1>1, PidIsTid DEF IInv, TypeOK
<1>3. /\ worker' = [worker EXCEPT ![w] = k] /\ worker'[w] = k
      /\ k \in WorkerType /\ k.pc = "found" /\ k.ptr = fs_pids[pid(w)]
      /\ k.op = worker[w].op /\ k.file = worker[w].file /\ k.task = worker[w].task
      /\ k.item = worker[w].item
  BY <1>1, <1>2 DEF GetPid, IInv, TypeOK, WorkerType
<1>4. found' = (fs_pids[pid(w)] # Null) /\ found' \in BOOLEAN
      /\ UNCHANGED <<task, files, fs_pids, ffp, cleaner, daemon>>
  BY DEF GetPid, kernel
<1> HIDE DEF k
<1>5. pid(w)' = pid(w)
  BY <1>3, <1>4 DEF pid
<1>6. WorkerOK(w)'
  BY <1>1, <1>3, <1>4, <1>5 DEF IInv, WorkerOK
<1> QED
  BY <1>1, <1>3, <1>4, <1>6, LocalStep

LEMMA CheckPidPreserves ==
  ASSUME Assumptions, IInv, NEW w \in Worker, CheckPid(w)
  PROVE  IInv'
PROOF
<1>1. daemon = "mounted" /\ worker[w].pc = "found" /\ worker[w] \in WorkerType
      /\ pid(w) \in Tid
  BY PidIsTid DEF CheckPid, At, IInv, TypeOK, WorkerOK, WorkerType
<1>2. UNCHANGED <<task, files, fs_pids, found, ffp, cleaner, daemon>> /\ found' \in BOOLEAN
  BY DEF CheckPid, kernel, table, IInv, TypeOK
<1>3. worker[w].ptr = fs_pids[pid(w)] /\ found = (fs_pids[pid(w)] # Null)
  BY <1>1 DEF IInv, WorkerOK
<1>4. CASE found
  <2> DEFINE k == [worker[w] EXCEPT !.pc = "items"]
  <2>1. /\ worker' = [worker EXCEPT ![w] = k] /\ worker'[w] = k
        /\ k \in WorkerType /\ k.pc = "items" /\ k.ptr = worker[w].ptr
        /\ k.op = worker[w].op /\ k.file = worker[w].file /\ k.task = worker[w].task
        /\ k.item = worker[w].item
    BY <1>1, <1>4 DEF CheckPid, IInv, TypeOK, WorkerType
  <2> HIDE DEF k
  <2>2. pid(w)' = pid(w)
    BY <1>2, <2>1 DEF pid
  <2>3. WorkerOK(w)'
    BY <1>1, <1>2, <1>3, <1>4, <2>1, <2>2, ZenonT(60) DEF IInv, WorkerOK
  <2> QED
    BY <1>1, <1>2, <2>1, <2>3, LocalStep
<1>5. CASE ~found
  <2>1. worker[w].op = "open"
    BY <1>1, <1>3, <1>5 DEF IInv, WorkerOK, FileOK, pid
  <2> DEFINE k == [worker[w] EXCEPT !.pc = "put"]
  <2>2. /\ worker' = [worker EXCEPT ![w] = k] /\ worker'[w] = k
        /\ k \in WorkerType /\ k.pc = "put" /\ k.ptr = worker[w].ptr
        /\ k.op = worker[w].op /\ k.file = worker[w].file /\ k.task = worker[w].task
        /\ k.item = worker[w].item
    BY <1>1, <1>5, <2>1 DEF CheckPid, IInv, TypeOK, WorkerType
  <2> HIDE DEF k
  <2>3. pid(w)' = pid(w)
    BY <1>2, <2>2 DEF pid
  <2>4. WorkerOK(w)'
    BY <1>1, <1>2, <1>3, <1>5, <2>1, <2>2, <2>3, ZenonT(60) DEF IInv, WorkerOK
  <2> QED
    BY <1>1, <1>2, <2>2, <2>4, LocalStep
<1> QED
  BY <1>4, <1>5

(* A new fs_fh_pid is reached from its pid's entry and no other.           *)
LEMMA NewFfpPreserves ==
  ASSUME Assumptions, IInv, NEW w \in Worker, new_ffp(w)
  PROVE  IInv'
PROOF
<1>1. daemon = "mounted" /\ worker[w].pc = "put" /\ worker[w] \in WorkerType
      /\ pid(w) \in Tid
  BY PidIsTid DEF new_ffp, FirstFd, At, IInv, TypeOK, WorkerOK, WorkerType
<1>2. worker[w].op = "open" /\ fs_pids[pid(w)] = Null
  BY <1>1 DEF IInv, WorkerOK
<1> DEFINE fresh == [next_fd |-> 1, items |-> [d \in Fd |-> Null], found |-> FALSE]
<1>3. fresh \in Object
  BY DEF Object, Fd, Assumptions, HandleAssumption
<1>4. PICK o \in Ffp :
        /\ ffp[o] = Null
        /\ ffp' = [ffp EXCEPT ![o] = fresh]
        /\ fs_pids' = [fs_pids EXCEPT ![pid(w)] = o]
        /\ worker' = [worker EXCEPT ![w].pc = "items", ![w].ptr = o]
  BY DEF new_ffp, FirstFd
<1> DEFINE k == [worker[w] EXCEPT !.pc = "items", !.ptr = o]
<1>5. /\ worker' = [worker EXCEPT ![w] = k] /\ worker'[w] = k
      /\ k \in WorkerType /\ k.pc = "items" /\ k.ptr = o
      /\ k.op = worker[w].op /\ k.file = worker[w].file /\ k.task = worker[w].task
      /\ k.item = worker[w].item
  BY <1>1, <1>4 DEF IInv, TypeOK, WorkerType
<1>6. UNCHANGED <<task, files, cleaner, daemon>> /\ found' = (fs_pids[pid(w)] # Null)
  BY DEF new_ffp, FirstFd, kernel
<1>7. fresh # Null /\ o # Null
  <2>1. o # Null
    BY DEF Assumptions, HandleAssumption
  <2>2. fresh # Null
    BY <1>3 DEF Assumptions, HandleAssumption
  <2> QED
    BY <2>1, <2>2
<1> HIDE DEF k, fresh
<1>8. TypeOK'
  <2>1. worker' \in [Worker -> WorkerType]
    BY <1>5 DEF IInv, TypeOK, WorkerType
  <2>2. fs_pids' \in [Tid -> Ffp \cup {Null}] /\ ffp' \in [Ffp -> Object \cup {Null}]
    BY <1>3, <1>4 DEF IInv, TypeOK
  <2> QED
    BY <1>6, <2>1, <2>2 DEF IInv, TypeOK, WorkerType
<1>9. DaemonOK' /\ HandlesDiffer'
  BY <1>1, <1>6 DEF IInv, DaemonOK, HandlesDiffer
<1>10. ASSUME NEW t \in Tid
       PROVE  fs_pids[t] # o /\ fs_pids'[t] = IF t = pid(w) THEN o ELSE fs_pids[t]
  <2>1. fs_pids[t] # o
    BY <1>1, <1>4, <1>7 DEF IInv, TableOK
  <2>2. fs_pids'[t] = IF t = pid(w) THEN o ELSE fs_pids[t]
    BY <1>1, <1>4 DEF IInv, TypeOK
  <2> QED
    BY <2>1, <2>2
<1>11. \A p \in Ffp : ffp'[p] = IF p = o THEN fresh ELSE ffp[p]
  BY <1>4 DEF IInv, TypeOK
<1>12. TableOK'
  <2>1. \A t \in Tid : daemon' = "mounted" /\ fs_pids'[t] # Null => ffp'[fs_pids'[t]] # Null
    BY <1>6, <1>7, <1>10, <1>11 DEF IInv, TableOK, TypeOK
  <2>2. \A t, u \in Tid : fs_pids'[t] = fs_pids'[u] /\ fs_pids'[t] # Null => t = u
    BY <1>10 DEF IInv, TableOK
  <2>3. \A p \in Ffp : ffp'[p] # Null => \E t \in Tid : fs_pids'[t] = p
    BY <1>1, <1>2, <1>7, <1>10, <1>11 DEF IInv, TableOK, Assumptions, HandleAssumption
  <2> QED
    BY <2>1, <2>2, <2>3 DEF TableOK
<1>13. pid(w)' = pid(w)
  BY <1>5, <1>6 DEF pid
<1>14. WorkerOK(w)'
  BY <1>1, <1>2, <1>5, <1>6, <1>7, <1>10, <1>13 DEF IInv, WorkerOK
<1>15. \A v \in Worker : WorkerOK(v)'
  BY <1>14 DEF Assumptions, OneWorker
<1>16. ASSUME NEW g \in DOMAIN files'
       PROVE  FileOK(g)'
  <2>1. FileOK(g) /\ ~Releasing(g) /\ files[g].pid \in Tid
    BY <1>1, <1>2, <1>6, <1>16
      DEF IInv, Releasing, TypeOK, Assumptions, OneWorker
  <2>2. files[g].pid # pid(w) /\ fs_pids[files[g].pid] \in Ffp
    BY <1>2, <2>1 DEF FileOK, IInv, TypeOK
  <2>3. fs_pids'[files[g].pid] = fs_pids[files[g].pid]
    BY <1>10, <2>1, <2>2
  <2>4. ffp'[fs_pids[files[g].pid]] = ffp[fs_pids[files[g].pid]]
    BY <1>10, <1>11, <2>1, <2>2
  <2> QED
    BY <1>6, <2>1, <2>3, <2>4 DEF FileOK
<1> QED
  BY <1>8, <1>9, <1>12, <1>15, <1>16 DEF IInv

(* The fd is a fresh one of its pid, so that the handle is a fresh one.    *)
LEMMA AddFilePreserves ==
  ASSUME Assumptions, IInv, NEW w \in Worker, At(w, "items"), worker[w].op = "open",
         add_file(w)
  PROVE  IInv'
PROOF
<1> DEFINE o == worker[w].ptr
           d == ffp[o].next_fd
           g == worker[w].file
           items == [ffp[o].items EXCEPT ![d] = worker[w].item]
           obj == [next_fd |-> d + 1, items |-> items, found |-> ffp[o].items[d] # Null]
           handle == [pid |-> pid(w), fd |-> d, item |-> worker[w].item,
                      holders |-> {ProcessOf[worker[w].task]}]
           k == [worker[w] EXCEPT !.pc = "reply", !.ret = "OK"]
<1>1. daemon = "mounted" /\ worker[w].pc = "items" /\ worker[w] \in WorkerType
      /\ pid(w) \in Tid /\ worker[w].op = "open" /\ worker[w].item \in Item
      /\ worker[w].task \in Tid /\ g \in File /\ g \notin DOMAIN files
  BY PidIsTid DEF At, IInv, TypeOK, WorkerOK, WorkerType
<1>2. o = fs_pids[pid(w)] /\ o # Null /\ o \in Ffp
  BY <1>1 DEF IInv, WorkerOK, WorkerType
<1>3. ffp[o] # Null /\ ffp[o] \in Object
  BY <1>1, <1>2 DEF IInv, TableOK, TypeOK
<1>4. d \in Fd /\ MaxFd \in Nat
  BY <1>3 DEF add_file, PutFile, NextFd, Object, Fd, Assumptions, HandleAssumption
<1>5. /\ obj \in Object /\ obj.next_fd = d + 1 /\ obj.items[d] = worker[w].item
      /\ \A e \in Fd : e # d => obj.items[e] = ffp[o].items[e]
  <2>1. ffp[o].items \in [Fd -> Item \cup {Null}]
    BY <1>3 DEF Object
  <2>2. items \in [Fd -> Item \cup {Null}] /\ items[d] = worker[w].item
    BY <1>1, <1>4, <2>1
  <2>3. d + 1 \in 1..(MaxFd + 1)
    BY <1>4 DEF Fd
  <2>4. \A e \in Fd : e # d => items[e] = ffp[o].items[e]
    BY <2>1
  <2> QED
    BY <2>2, <2>3, <2>4 DEF Object
<1>6. ffp' = [ffp EXCEPT ![o] = obj]
  BY DEF add_file, PutFile, NextFd
<1>7. handle \in [pid : Tid, fd : Fd, item : Item, holders : SUBSET Process]
      /\ handle.pid = pid(w) /\ handle.fd = d /\ handle.item = worker[w].item
  BY <1>1, <1>4 DEF Assumptions, HandleAssumption
<1>8. /\ DOMAIN files' = DOMAIN files \cup {g}
      /\ files'[g] = handle
      /\ \A f \in DOMAIN files : files'[f] = files[f]
  BY <1>1 DEF add_file, PutFile, NextFd
<1>9. /\ worker' = [worker EXCEPT ![w] = k] /\ worker'[w] = k
      /\ k \in WorkerType /\ k.pc = "reply" /\ k.op = "open" /\ k.file = g
      /\ k.task = worker[w].task /\ k.item = worker[w].item
  BY <1>1 DEF add_file, PutFile, NextFd, IInv, TypeOK, WorkerType
<1>10. UNCHANGED <<task, fs_pids, found, cleaner, daemon>>
  BY DEF add_file, PutFile, NextFd
<1>11. obj # Null
  BY <1>5 DEF Assumptions, HandleAssumption
<1> HIDE DEF obj, handle, k
<1>12. TypeOK'
  <2>1. worker' \in [Worker -> WorkerType]
    BY <1>9 DEF IInv, TypeOK, WorkerType
  <2>2. ffp' \in [Ffp -> Object \cup {Null}]
    BY <1>5, <1>6 DEF IInv, TypeOK
  <2>3. /\ DOMAIN files' \subseteq File
        /\ \A f \in DOMAIN files' :
             files'[f] \in [pid : Tid, fd : Fd, item : Item, holders : SUBSET Process]
    BY <1>1, <1>7, <1>8 DEF IInv, TypeOK
  <2> QED
    BY <1>10, <2>1, <2>2, <2>3 DEF IInv, TypeOK, WorkerType
<1>13. \A p \in Ffp : ffp'[p] = IF p = o THEN obj ELSE ffp[p]
  BY <1>6 DEF IInv, TypeOK
<1>14. DaemonOK'
  BY <1>1, <1>10 DEF IInv, DaemonOK
<1>15. TableOK'
  BY <1>2, <1>3, <1>10, <1>11, <1>13 DEF IInv, TableOK, TypeOK
<1>16. \A f \in DOMAIN files : files[f].pid = pid(w) => files[f].fd < d
  BY <1>1, <1>2 DEF IInv, FileOK
<1>17. HandlesDiffer'
  <2> SUFFICES ASSUME NEW f \in DOMAIN files', NEW h \in DOMAIN files', f # h
               PROVE  <<files'[f].pid, files'[f].fd>> # <<files'[h].pid, files'[h].fd>>
    BY DEF HandlesDiffer
  <2>1. CASE f \in DOMAIN files /\ h \in DOMAIN files
    BY <1>8, <2>1 DEF IInv, HandlesDiffer
  <2>2. CASE f = g /\ h \in DOMAIN files
    BY <1>4, <1>7, <1>8, <1>16, <2>2 DEF Fd
  <2>3. CASE h = g /\ f \in DOMAIN files
    BY <1>4, <1>7, <1>8, <1>16, <2>3 DEF Fd
  <2> QED
    BY <1>8, <2>1, <2>2, <2>3
<1>18. \A v \in Worker : WorkerOK(v)'
  BY <1>1, <1>9, <1>10 DEF WorkerOK, Assumptions, OneWorker
<1>19. ASSUME NEW f \in DOMAIN files'
       PROVE  FileOK(f)'
  <2>1. CASE f = g
    <3>1. files'[f].pid = pid(w) /\ files'[f].fd = d /\ files'[f].item = worker[w].item
      BY <1>7, <1>8, <2>1
    <3>2. fs_pids'[files'[f].pid] = o /\ ffp'[o] = obj
      BY <1>2, <1>10, <1>13, <3>1
    <3>3. d < obj.next_fd /\ obj.items[d] = worker[w].item
      BY <1>4, <1>5 DEF Fd
    <3> HIDE DEF o, d
    <3> QED
      BY <1>2, <3>1, <3>2, <3>3 DEF FileOK
  <2>2. CASE f \in DOMAIN files
    <3> DEFINE q == fs_pids[files[f].pid]
    <3>1. FileOK(f) /\ ~Releasing(f) /\ files[f].pid \in Tid /\ files[f].fd \in Fd
      BY <1>1, <2>2 DEF IInv, Releasing, TypeOK, Assumptions, OneWorker
    <3>2. q \in Ffp /\ files'[f] = files[f] /\ fs_pids' = fs_pids
      BY <1>8, <1>10, <2>2, <3>1 DEF FileOK, IInv, TypeOK
    <3>3. CASE q = o
      <4>1. files[f].pid = pid(w)
        BY <1>1, <1>2, <3>1, <3>3 DEF IInv, TableOK
      <4>2. files[f].fd < d
        BY <1>16, <2>2, <4>1
      <4>3. ffp'[q].next_fd = d + 1 /\ ffp'[q].items[files[f].fd] = ffp[q].items[files[f].fd]
        BY <1>4, <1>5, <1>13, <3>1, <3>2, <3>3, <4>2 DEF Fd
      <4>4. q # Null /\ files[f].fd < d + 1 /\ ffp[q].items[files[f].fd] = files[f].item
        BY <1>4, <3>1, <4>2 DEF FileOK, Fd
      <4> QED
        BY <3>2, <4>3, <4>4 DEF FileOK
    <3>4. CASE q # o
      <4>1. ffp'[q] = ffp[q]
        BY <1>13, <3>2, <3>4
      <4> QED
        BY <3>1, <3>2, <4>1 DEF FileOK
    <3> QED
      BY <3>3, <3>4
  <2> QED
    BY <1>8, <2>1, <2>2
<1> QED
  BY <1>12, <1>14, <1>15, <1>17, <1>18, <1>19 DEF IInv

(* Steps on the object of the request's pid: the table stays as it is.     *)
LEMMA ObjectStep ==
  ASSUME Assumptions, IInv, NEW w \in Worker, NEW k \in WorkerType, NEW obj \in Object,
         worker[w].op \in {"use", "release"}, worker[w].pc = "items", At(w, "items"),
         worker' = [worker EXCEPT ![w] = k],
         ffp' = [ffp EXCEPT ![worker[w].ptr] = obj],
         obj.next_fd = ffp[worker[w].ptr].next_fd,
         k.op = worker[w].op, k.file = worker[w].file,
         UNCHANGED <<task, files, fs_pids, found, cleaner, daemon>>,
         WorkerOK(w)',
         \A f \in DOMAIN files :
           fs_pids[files[f].pid] = worker[w].ptr =>
             \/ worker[w].op = "release" /\ f = worker[w].file
             \/ obj.items[files[f].fd] = files[f].item
  PROVE  IInv'
PROOF
<1>1. daemon = "mounted" /\ worker[w].ptr \in Ffp /\ worker[w].file \in DOMAIN files
      /\ worker[w].ptr = fs_pids[pid(w)] /\ pid(w) \in Tid
  BY PidIsTid DEF IInv, WorkerOK, TypeOK
<1>2. ffp[worker[w].ptr] # Null /\ obj # Null
  BY <1>1 DEF IInv, WorkerOK, TableOK, Assumptions, HandleAssumption
<1>3. \A p \in Ffp : ffp'[p] = IF p = worker[w].ptr THEN obj ELSE ffp[p]
  BY DEF IInv, TypeOK
<1>4. TypeOK'
  <2>1. worker' \in [Worker -> WorkerType]
    BY DEF IInv, TypeOK, WorkerType
  <2>2. ffp' \in [Ffp -> Object \cup {Null}]
    BY DEF IInv, TypeOK
  <2> QED
    BY <2>1, <2>2 DEF IInv, TypeOK, WorkerType
<1>5. DaemonOK' /\ HandlesDiffer'
  BY <1>1 DEF IInv, DaemonOK, HandlesDiffer
<1>6. TableOK'
  BY <1>2, <1>3 DEF IInv, TableOK, TypeOK
<1>7. \A v \in Worker : WorkerOK(v)'
  BY DEF Assumptions, OneWorker
<1>8. worker'[w] = k
  BY DEF IInv, TypeOK
<1>9. ASSUME NEW f \in DOMAIN files'
      PROVE  FileOK(f)'
  <2> DEFINE q == fs_pids[files[f].pid]
  <2>1. FileOK(f) /\ files[f].pid \in Tid /\ q \in Ffp
    BY <1>1, <1>9 DEF IInv, FileOK, TypeOK
  <2>2. CASE worker[w].op = "release" /\ f = worker[w].file
    <3>1. Releasing(f)'
      BY <1>8, <2>2 DEF Releasing
    <3>2. ffp'[q].next_fd = ffp[q].next_fd
      BY <1>3, <2>1
    <3> QED
      BY <2>1, <3>1, <3>2 DEF FileOK
  <2>3. CASE ~(worker[w].op = "release" /\ f = worker[w].file)
    <3>1. ~Releasing(f)
      BY <2>3 DEF Releasing, Assumptions, OneWorker
    <3>2. ffp'[q].next_fd = ffp[q].next_fd
      BY <1>3, <2>1
    <3>3. ffp'[q].items[files[f].fd] = files[f].item
      BY <1>3, <1>9, <2>1, <2>3, <3>1 DEF FileOK
    <3> QED
      BY <2>1, <3>2, <3>3 DEF FileOK
  <2> QED
    BY <2>2, <2>3
<1> QED
  BY <1>4, <1>5, <1>6, <1>7, <1>9 DEF IInv

(* A call on an open file finds the item the file was opened for.          *)
LEMMA GetItemPreserves ==
  ASSUME Assumptions, IInv, NEW w \in Worker, At(w, "items"), worker[w].op = "use",
         fs_fh_get_item(w)
  PROVE  IInv'
PROOF
<1> DEFINE o == worker[w].ptr
           g == worker[w].file
           i == ffp[o].items[fd(w)]
           obj == [next_fd |-> ffp[o].next_fd, found |-> i # Null, items |-> ffp[o].items]
           k == [worker[w] EXCEPT !.pc = "closed", !.item = i]
<1>1. daemon = "mounted" /\ worker[w].pc = "items" /\ worker[w] \in WorkerType
      /\ pid(w) \in Tid /\ g \in DOMAIN files /\ pid(w) = files[g].pid
  BY PidIsTid DEF At, IInv, TypeOK, WorkerOK, WorkerType, pid
<1>2. o = fs_pids[pid(w)] /\ o # Null /\ o \in Ffp
  BY <1>1 DEF IInv, WorkerOK, WorkerType
<1>3. ffp[o] # Null /\ ffp[o] \in Object
  BY <1>1, <1>2 DEF IInv, TableOK, TypeOK
<1>4. \A f \in DOMAIN files : fs_pids[files[f].pid] = o => ffp[o].items[files[f].fd] = files[f].item
  <2>1. \A f \in DOMAIN files : ~Releasing(f)
    BY DEF Releasing, Assumptions, OneWorker
  <2> QED
    BY <1>1, <2>1 DEF IInv, FileOK
<1>5. i = files[g].item /\ i \in Item /\ i # Null
  <2>1. fs_pids[files[g].pid] = o /\ fd(w) = files[g].fd
    BY <1>1, <1>2 DEF fd
  <2>2. ffp[o].items[files[g].fd] = files[g].item
    BY <1>1, <1>4, <2>1
  <2>3. files[g].item \in Item
    BY <1>1 DEF IInv, TypeOK
  <2>4. Null \notin Item
    BY DEF Assumptions, HandleAssumption
  <2> QED
    BY <2>1, <2>2, <2>3, <2>4
<1>6. obj \in Object /\ obj.next_fd = ffp[o].next_fd /\ obj.items = ffp[o].items /\ obj.found
  BY <1>3, <1>5 DEF Object
<1>7. ffp' = [ffp EXCEPT ![o] = obj]
      /\ UNCHANGED <<task, files, fs_pids, found, cleaner, daemon>>
  BY DEF fs_fh_get_item, kernel
<1>8. /\ worker' = [worker EXCEPT ![w] = k] /\ worker'[w] = k
      /\ k \in WorkerType /\ k.pc = "closed" /\ k.op = "use" /\ k.file = g
      /\ k.task = worker[w].task /\ k.item = i /\ k.ptr = o
  BY <1>1, <1>5 DEF fs_fh_get_item, IInv, TypeOK, WorkerType
<1>9. ffp'[o] = obj
  BY <1>2, <1>7 DEF IInv, TypeOK
<1> HIDE DEF obj, k
<1>10. pid(w)' = pid(w)
  BY <1>7, <1>8 DEF pid
<1>11. WorkerOK(w)'
  <2>1. g \in DOMAIN files' /\ g \in File /\ daemon' = "mounted"
    BY <1>1, <1>7 DEF IInv, TypeOK
  <2>2. o = fs_pids'[pid(w)'] /\ o # Null /\ ffp'[o].found
    BY <1>2, <1>6, <1>7, <1>9, <1>10
  <2>3. i = files'[g].item
    BY <1>5, <1>7
  <2> HIDE DEF g, i, o
  <2> QED
    BY <1>8, <2>1, <2>2, <2>3 DEF WorkerOK
<1> QED
  BY <1>1, <1>4, <1>6, <1>7, <1>8, <1>11, ObjectStep, ZenonT(60)

(* Releasing a file drops its fd and no other: no two handles are equal.   *)
LEMMA ReleaseFilePreserves ==
  ASSUME Assumptions, IInv, NEW w \in Worker, At(w, "items"), worker[w].op = "release",
         fs_fh_release_file(w)
  PROVE  IInv'
PROOF
<1> DEFINE o == worker[w].ptr
           g == worker[w].file
           items == [ffp[o].items EXCEPT ![fd(w)] = Null]
           obj == [next_fd |-> ffp[o].next_fd, found |-> ffp[o].items[fd(w)] # Null,
                   items |-> items]
           k == [worker[w] EXCEPT !.pc = "reply", !.ret = "OK"]
<1>1. daemon = "mounted" /\ worker[w].pc = "items" /\ worker[w] \in WorkerType
      /\ pid(w) \in Tid /\ g \in DOMAIN files /\ pid(w) = files[g].pid /\ g \in File
  BY PidIsTid DEF At, IInv, TypeOK, WorkerOK, WorkerType, pid
<1>2. o = fs_pids[pid(w)] /\ o # Null /\ o \in Ffp
  BY <1>1 DEF IInv, WorkerOK, WorkerType
<1>3. ffp[o] # Null /\ ffp[o] \in Object
  BY <1>1, <1>2 DEF IInv, TableOK, TypeOK
<1>4. items \in [Fd -> Item \cup {Null}]
      /\ \A e \in Fd : e # fd(w) => items[e] = ffp[o].items[e]
  BY <1>3 DEF Object
<1>5. obj \in Object /\ obj.next_fd = ffp[o].next_fd /\ obj.items = items
  BY <1>3, <1>4 DEF Object
<1>6. ffp' = [ffp EXCEPT ![o] = obj]
      /\ UNCHANGED <<task, files, fs_pids, found, cleaner, daemon>>
  BY DEF fs_fh_release_file, kernel
<1>7. /\ worker' = [worker EXCEPT ![w] = k] /\ worker'[w] = k
      /\ k \in WorkerType /\ k.pc = "reply" /\ k.op = "release" /\ k.file = g
      /\ k.task = worker[w].task
  BY <1>1 DEF fs_fh_release_file, IInv, TypeOK, WorkerType
<1>8. ASSUME NEW f \in DOMAIN files, fs_pids[files[f].pid] = o, f # g
      PROVE  items[files[f].fd] = files[f].item
  <2>1. files[f].pid \in Tid /\ files[f].fd \in Fd /\ files[g].fd = fd(w)
    BY DEF IInv, TypeOK, fd
  <2>2. files[f].pid = files[g].pid
    BY <1>1, <1>2, <1>8, <2>1 DEF IInv, TableOK
  <2>3. files[f].fd # fd(w)
    BY <1>1, <1>8, <2>1, <2>2 DEF IInv, HandlesDiffer
  <2>4. ~Releasing(f)
    BY <1>8 DEF Releasing, Assumptions, OneWorker
  <2>5. ffp[o].items[files[f].fd] = files[f].item
    BY <1>1, <1>8, <2>4 DEF IInv, FileOK
  <2> QED
    BY <1>4, <2>1, <2>3, <2>5
<1> HIDE DEF obj, k, items
<1>9. WorkerOK(w)'
  BY <1>1, <1>6, <1>7 DEF WorkerOK
<1> QED
  BY <1>1, <1>5, <1>6, <1>7, <1>8, <1>9, ObjectStep

(* The worker's pointer is one the table holds, so nothing crashes.        *)
LEMMA UseItemsPreserves ==
  ASSUME Assumptions, IInv, NEW w \in Worker, UseItems(w)
  PROVE  IInv'
PROOF
<1>1. At(w, "items") /\ daemon = "mounted" /\ worker[w].pc = "items" /\ pid(w) \in Tid
  BY PidIsTid DEF UseItems, At, IInv, WorkerOK
<1>2. worker[w].ptr = fs_pids[pid(w)] /\ worker[w].ptr # Null
  BY <1>1 DEF IInv, WorkerOK
<1>3. ~Dangling(worker[w].ptr)
  BY <1>1, <1>2 DEF Dangling, IInv, TableOK, TypeOK
<1>4. \/ worker[w].op = "open" /\ add_file(w)
      \/ worker[w].op = "use" /\ fs_fh_get_item(w)
      \/ worker[w].op = "release" /\ fs_fh_release_file(w)
  BY <1>3 DEF UseItems
<1> QED
  BY <1>1, <1>4, AddFilePreserves, GetItemPreserves, ReleaseFilePreserves

LEMMA CheckItemPreserves ==
  ASSUME Assumptions, IInv, NEW w \in Worker, CheckItem(w)
  PROVE  IInv'
PROOF
<1> DEFINE k == [worker[w] EXCEPT !.pc = "reply", !.ret = "OK"]
<1>1. daemon = "mounted" /\ worker[w].pc = "closed" /\ worker[w] \in WorkerType
      /\ pid(w) \in Tid /\ worker[w].op = "use" /\ worker[w].file \in DOMAIN files
      /\ worker[w].file \in File
  BY PidIsTid DEF CheckItem, At, IInv, TypeOK, WorkerOK, WorkerType
<1>2. /\ worker[w].ptr = fs_pids[pid(w)] /\ worker[w].ptr # Null
      /\ ffp[worker[w].ptr].found /\ worker[w].item = files[worker[w].file].item
  BY <1>1 DEF IInv, WorkerOK
<1>3. ~Dangling(worker[w].ptr)
  BY <1>1, <1>2 DEF Dangling, IInv, TableOK, TypeOK
<1>4. worker' = [worker EXCEPT ![w].pc = "reply",
                   ![w].ret = IF ffp[worker[w].ptr].found THEN "OK" ELSE "closed"]
      /\ UNCHANGED <<task, files, fs_pids, found, ffp, cleaner, daemon>>
  BY <1>3 DEF CheckItem, kernel, table
<1>5. /\ worker' = [worker EXCEPT ![w] = k] /\ worker'[w] = k
      /\ k \in WorkerType /\ k.pc = "reply" /\ k.ret = "OK" /\ k.op = worker[w].op
      /\ k.file = worker[w].file /\ k.task = worker[w].task /\ k.item = worker[w].item
  BY <1>1, <1>2, <1>4 DEF IInv, TypeOK, WorkerType
<1>6. found' \in BOOLEAN
  BY <1>4 DEF IInv, TypeOK
<1> HIDE DEF k
<1>7. WorkerOK(w)'
  BY <1>1, <1>2, <1>4, <1>5 DEF WorkerOK
<1> QED
  BY <1>1, <1>4, <1>5, <1>6, <1>7, LocalStep

LEMMA ReplyPreserves ==
  ASSUME Assumptions, IInv, NEW w \in Worker, Reply(w)
  PROVE  IInv'
PROOF
<1>1. daemon = "mounted" /\ worker[w].pc = "reply"
  BY DEF Reply, At, IInv, WorkerOK
<1>2. UNCHANGED <<task, fs_pids, found, ffp, cleaner, daemon>>
  BY DEF Reply, table
<1>3. worker' = [v \in Worker |-> Idle]
  BY DEF Reply, IInv, TypeOK, Assumptions, OneWorker
<1>4. /\ DOMAIN files' \subseteq DOMAIN files
      /\ \A f \in DOMAIN files' : files'[f] = files[f]
      /\ \A f \in DOMAIN files' : ~Releasing(f)
  BY DEF Reply, Releasing, Assumptions, OneWorker
<1>5. TypeOK'
  BY <1>2, <1>3, <1>4 DEF IInv, TypeOK, Idle
<1>6. DaemonOK' /\ TableOK'
  BY <1>2 DEF IInv, DaemonOK, TableOK
<1>7. HandlesDiffer'
  BY <1>4 DEF IInv, HandlesDiffer
<1>8. \A v \in Worker : WorkerOK(v)'
  BY <1>3 DEF WorkerOK, Idle
<1>9. \A f \in DOMAIN files' : FileOK(f)'
  BY <1>1, <1>2, <1>4 DEF IInv, FileOK
<1> QED
  BY <1>5, <1>6, <1>7, <1>8, <1>9 DEF IInv

(* Unmounting frees every object, because the table reaches them all.      *)
LEMMA UnmountPreserves ==
  ASSUME Assumptions, IInv, free_fs_fh
  PROVE  IInv'
PROOF
<1>1. CASE Unmount
  <2>1. \A o \in Ffp : ffp'[o] = Null
    BY <1>1 DEF Unmount, Freed, IInv, TableOK
  <2>2. ffp' \in [Ffp -> Object \cup {Null}]
    BY <1>1, <2>1 DEF Unmount, Freed, IInv, TypeOK
  <2>3. UNCHANGED <<task, files, fs_pids, found, worker, cleaner>> /\ daemon' = "freed"
        /\ \A w \in Worker : worker[w].pc = "idle"
    BY <1>1 DEF Unmount, kernel
  <2>4. TypeOK'
    BY <2>2, <2>3 DEF IInv, TypeOK
  <2>5. DaemonOK' /\ TableOK' /\ HandlesDiffer'
    BY <2>1, <2>3 DEF IInv, DaemonOK, TableOK, HandlesDiffer
  <2>6. \A w \in Worker : WorkerOK(w)'
    BY <2>3 DEF IInv, WorkerOK, Idle
  <2> QED
    BY <2>3, <2>4, <2>5, <2>6 DEF IInv
<1>2. CASE ExitDaemon
  <2>1. UNCHANGED <<task, files, ffp, worker, cleaner>> /\ daemon = "freed"
        /\ daemon' = "exited" /\ fs_pids' = [t \in Tid |-> Null] /\ found' = FALSE
    BY <1>2 DEF ExitDaemon, kernel
  <2>2. TypeOK'
    BY <2>1 DEF IInv, TypeOK
  <2>3. DaemonOK' /\ TableOK' /\ HandlesDiffer'
    BY <2>1 DEF IInv, DaemonOK, TableOK, HandlesDiffer
  <2>4. \A w \in Worker : WorkerOK(w)'
    BY <2>1 DEF IInv, WorkerOK, Idle
  <2> QED
    BY <2>1, <2>2, <2>3, <2>4 DEF IInv
<1> QED
  BY <1>1, <1>2 DEF free_fs_fh

LEMMA NextIInv == Assumptions /\ IInv /\ [Next]_vars => IInv'
PROOF
<1> SUFFICES ASSUME Assumptions, IInv, [Next]_vars
             PROVE  IInv'
  OBVIOUS
<1>1. CASE Kernel
  BY <1>1, KernelRequests
<1>2. ASSUME NEW w \in Worker, Serve(w)
      PROVE  IInv'
  BY <1>2, GetPidPreserves, CheckPidPreserves, NewFfpPreserves, UseItemsPreserves,
     CheckItemPreserves, ReplyPreserves DEF Serve
<1>3. ~pid_clean_fn
  BY DEF pid_clean_fn, Wake, Visit, Kill, TermItems, FreePid, DelPid, Cleans,
         IInv, DaemonOK, Asleep, Assumptions
<1>4. CASE free_fs_fh
  BY <1>4, UnmountPreserves
<1>5. CASE UNCHANGED vars
  <2>1. UNCHANGED <<task, files, fs_pids, found, ffp, worker, cleaner, daemon>>
    BY <1>5 DEF vars
  <2>2. TypeOK' /\ DaemonOK' /\ TableOK' /\ HandlesDiffer'
    BY <2>1 DEF IInv, TypeOK, DaemonOK, TableOK, HandlesDiffer
  <2>3. \A w \in Worker : WorkerOK(w)'
    BY <2>1 DEF IInv, WorkerOK, pid
  <2>4. daemon' = "mounted" => \A f \in DOMAIN files' : FileOK(f)'
    BY <2>1 DEF IInv, FileOK, Releasing
  <2> QED
    BY <2>2, <2>3, <2>4 DEF IInv
<1> QED
  BY <1>1, <1>2, <1>3, <1>4, <1>5 DEF Next

THEOREM InductiveInvariant == OneWorker /\ ~Cleaner => (Spec => []IInv)
PROOF
<1> SUFFICES ASSUME OneWorker, ~Cleaner
             PROVE  Spec => []IInv
  OBVIOUS
<1>1. Assumptions
  BY HandleAssumption DEF Assumptions
<1>2. Init => IInv
  BY InitIInv, HandleAssumption
<1>3. IInv /\ [Next]_vars => IInv'
  BY <1>1, NextIInv
<1> QED
  BY <1>2, <1>3, PTL DEF Spec

(* With one worker and no cleaner every open file's handle leads to its    *)
(* item, although pids come back and files outlive the threads that opened *)
(* them.                                                                   *)
THEOREM AlwaysResolves == OneWorker /\ ~Cleaner => (Spec => []Resolves)
PROOF
<1> SUFFICES ASSUME OneWorker, ~Cleaner
             PROVE  Spec => []Resolves
  OBVIOUS
<1>1. IInv => Resolves
  <2> SUFFICES ASSUME IInv, daemon = "mounted", NEW f \in DOMAIN files,
                      ~Releasing(f)
               PROVE  /\ ~Dangling(fs_pids[files[f].pid])
                      /\ ffp[fs_pids[files[f].pid]].items[files[f].fd] = files[f].item
    BY DEF Resolves
  <2>1. files[f].pid \in Tid /\ FileOK(f)
    BY DEF IInv, TypeOK
  <2>2. fs_pids[files[f].pid] # Null /\ fs_pids[files[f].pid] \in Ffp
        /\ ffp[fs_pids[files[f].pid]] # Null
    BY <2>1 DEF IInv, TypeOK, FileOK, TableOK
  <2> QED
    BY <2>1, <2>2 DEF FileOK, Dangling
<1> QED
  BY <1>1, InductiveInvariant, PTL

(* No call on an open file fails, whatever was opened and closed before.   *)
THEOREM AlwaysSucceeds == OneWorker /\ ~Cleaner => (Spec => []UsesSucceed)
PROOF
<1>1. IInv => UsesSucceed
  BY DEF IInv, DaemonOK, WorkerOK, UsesSucceed
<1> QED
  BY <1>1, InductiveInvariant, PTL

(* No two open files ever share a handle.                                  *)
THEOREM HandlesStayDistinct == OneWorker /\ ~Cleaner => (Spec => []HandlesDiffer)
PROOF
<1>1. IInv => HandlesDiffer
  BY DEF IInv
<1> QED
  BY <1>1, InductiveInvariant, PTL

(* The table reaches every object it allocated, and unmount frees them.    *)
THEOREM NeverLeaks == OneWorker /\ ~Cleaner => (Spec => []NoLeak)
PROOF
<1>1. IInv => NoLeak
  BY DEF IInv, TableOK, DaemonOK, NoLeak
<1> QED
  BY <1>1, InductiveInvariant, PTL

(* The state stays well typed, the fds below their bound included.         *)
THEOREM TypeCorrect == OneWorker /\ ~Cleaner => (Spec => []TypeOK)
PROOF
<1>1. IInv => TypeOK
  BY DEF IInv
<1> QED
  BY <1>1, InductiveInvariant, PTL

(* With one worker the found flags speak of the worker's own call: what    *)
(* goes wrong with two (fs_fh.c:70, 102) needs the second.                 *)
THEOREM FoundIsValidAlone == OneWorker /\ ~Cleaner => (Spec => []FoundMeansValid)
PROOF
<1>1. ASSUME IInv
      PROVE  FoundMeansValid
  <2>1. \A f \in DOMAIN files : files[f].item \in Item
    BY <1>1 DEF IInv, TypeOK
  <2>2. Null \notin Item
    BY HandleAssumption DEF HandleAssumption
  <2>3. ASSUME NEW w \in Worker, worker[w].pc = "reply", worker[w].op = "use"
        PROVE  worker[w].ret = "OK" /\ worker[w].item \in Item
    BY <1>1, <2>1, <2>3 DEF IInv, WorkerOK
  <2> QED
    BY <1>1, <2>2, <2>3 DEF IInv, WorkerOK, FoundMeansValid
<1> QED
  BY <1>1, InductiveInvariant, PTL

-----------------------------------------------------------------------------
(* With the cleaner running: what keeps it from the entries of threads     *)
(* that run.  It drops the pid it took for gone, and that pid is still     *)
(* gone when it does, as long as pids do not come back; and a worker that  *)
(* found no entry for its pid still finds none when it puts one.  The      *)
(* deletion writes found between the worker's two looks at it, but only to *)
(* TRUE (sc_map.c:314): the worker then follows NULL, and replaces nothing.*)
LookupOK(w) ==
  /\ worker[w].pc = "idle" => worker[w].op = "none"
  /\ worker[w].pc # "idle" =>
       worker[w].op \in {"open", "use", "release"} /\ worker[w].file \in File
  /\ worker[w].op = "open" => worker[w].task \in Tid /\ worker[w].item \in Item
  /\ worker[w].op \in {"use", "release"} => worker[w].file \in DOMAIN files
  /\ daemon = "mounted" =>
       /\ worker[w].pc = "found" /\ ~found => fs_pids[pid(w)] = Null
       /\ worker[w].pc = "put" => worker[w].op = "open" /\ fs_pids[pid(w)] = Null

RoundOK ==
  /\ cleaner.pc \in {"kill", "term", "free", "del"} =>
       cleaner.pid \in Tid /\ (daemon = "mounted" => fs_pids[cleaner.pid] # Null)
  /\ cleaner.pc \in {"term", "free", "del"} => Gone(cleaner.pid)
  /\ cleaner.pc # "sleep" => Cleaner

LivingInv == TypeOK /\ RoundOK /\ \A w \in Worker : LookupOK(w)

LivingAssumptions == HandleAssumption /\ OneWorker /\ (Cleaner => ~ReusePids)

LEMMA InitLiving == HandleAssumption /\ Init => LivingInv
PROOF
<1> SUFFICES ASSUME HandleAssumption, Init
             PROVE  LivingInv
  OBVIOUS
<1>1. files = <<>> /\ DOMAIN files = {}
  BY DEF Init
<1>2. TypeOK
  BY <1>1 DEF Init, TypeOK, Idle, Asleep
<1>3. RoundOK
  BY DEF Init, RoundOK, Asleep
<1>4. \A w \in Worker : LookupOK(w)
  BY DEF Init, LookupOK, Idle
<1> QED
  BY <1>2, <1>3, <1>4 DEF LivingInv

(* A request's pid.                                                        *)
LEMMA PidIn ==
  ASSUME LivingInv, NEW w \in Worker, worker[w].pc # "idle"
  PROVE  pid(w) \in Tid
PROOF
<1> QED
  BY DEF LivingInv, TypeOK, LookupOK, pid

(* Threads come and go, files are closed: the table is left alone, and a   *)
(* pid that is gone stays gone while the cleaner is at it.                 *)
LEMMA KernelLiving ==
  ASSUME LivingAssumptions, LivingInv,
         task' \in [Tid -> {"unborn", "running", "gone"}],
         \A t \in Tid : Cleaner /\ Gone(t) => Gone(t)',
         DOMAIN files' = DOMAIN files,
         \A f \in DOMAIN files :
           /\ files'[f] \in [pid : Tid, fd : Fd, item : Item, holders : SUBSET Process]
           /\ files'[f].pid = files[f].pid,
         UNCHANGED <<table, worker, cleaner, daemon>>
  PROVE  LivingInv'
PROOF
<1> USE DEF table
<1>1. TypeOK'
  BY DEF LivingInv, TypeOK
<1>2. RoundOK'
  BY DEF LivingInv, RoundOK
<1>3. ASSUME NEW w \in Worker
      PROVE  LookupOK(w)'
  BY DEF LivingInv, LookupOK, pid
<1> QED
  BY <1>1, <1>2, <1>3 DEF LivingInv

LEMMA StartLiving ==
  ASSUME LivingAssumptions, LivingInv, NEW t \in Tid, Start(t)
  PROVE  LivingInv'
PROOF
<1>1. task' = [task EXCEPT ![t] = "running"] /\ task \in [Tid -> {"unborn", "running", "gone"}]
  BY DEF Start, LivingInv, TypeOK
<1>2. \A u \in Tid : Cleaner /\ Gone(u) => Gone(u)'
  BY <1>1 DEF Gone, Start, LivingAssumptions
<1>3. ProcessOf[t] \in Process
  BY DEF LivingAssumptions, HandleAssumption
<1>4. /\ DOMAIN files' = DOMAIN files
      /\ \A f \in DOMAIN files :
           /\ files'[f] \in [pid : Tid, fd : Fd, item : Item, holders : SUBSET Process]
           /\ files'[f].pid = files[f].pid
  BY <1>3 DEF Start, LivingInv, TypeOK
<1> QED
  BY <1>1, <1>2, <1>4, KernelLiving DEF Start

LEMMA ExitLiving ==
  ASSUME LivingAssumptions, LivingInv, NEW t \in Tid, Exit(t)
  PROVE  LivingInv'
PROOF
<1>1. task' = [task EXCEPT ![t] = "gone"] /\ task \in [Tid -> {"unborn", "running", "gone"}]
  BY DEF Exit, LivingInv, TypeOK
<1>2. \A u \in Tid : Gone(u) => Gone(u)'
  BY <1>1 DEF Gone
<1>3. /\ DOMAIN files' = DOMAIN files
      /\ \A f \in DOMAIN files :
           /\ files'[f] \in [pid : Tid, fd : Fd, item : Item, holders : SUBSET Process]
           /\ files'[f].pid = files[f].pid
  BY DEF Exit, LivingInv, TypeOK
<1> QED
  BY <1>1, <1>2, <1>3, KernelLiving DEF Exit

LEMMA CloseLiving ==
  ASSUME LivingAssumptions, LivingInv, NEW t \in Tid, NEW f \in File, Close(t, f)
  PROVE  LivingInv'
PROOF
<1>1. UNCHANGED task /\ task \in [Tid -> {"unborn", "running", "gone"}]
  BY DEF Close, LivingInv, TypeOK
<1>2. \A u \in Tid : Gone(u) => Gone(u)'
  BY <1>1 DEF Gone
<1>3. /\ DOMAIN files' = DOMAIN files
      /\ \A g \in DOMAIN files :
           /\ files'[g] \in [pid : Tid, fd : Fd, item : Item, holders : SUBSET Process]
           /\ files'[g].pid = files[g].pid
  BY DEF Close, LivingInv, TypeOK
<1> QED
  BY <1>1, <1>2, <1>3, KernelLiving DEF Close

(* What a step of the worker has to show: entries may appear and none may  *)
(* go.                                                                     *)
LEMMA WorkerLiving ==
  ASSUME LivingAssumptions, LivingInv, NEW w \in Worker, TypeOK', LookupOK(w)',
         UNCHANGED <<task, cleaner, daemon>>,
         \A t \in Tid : fs_pids[t] # Null => fs_pids'[t] # Null
  PROVE  LivingInv'
PROOF
<1>1. RoundOK'
  BY DEF LivingInv, RoundOK, Gone
<1>2. \A v \in Worker : v = w
  BY DEF LivingAssumptions, OneWorker
<1>3. \A v \in Worker : LookupOK(v)'
  BY <1>2
<1> QED
  BY <1>1, <1>3 DEF LivingInv

(* The worker's record stays typed when one of its steps replaces it.      *)
LEMMA RecordType ==
  ASSUME TypeOK, NEW w \in Worker, NEW k \in WorkerType, found' \in BOOLEAN,
         worker' = [worker EXCEPT ![w] = k],
         UNCHANGED <<task, files, fs_pids, ffp, cleaner, daemon>>
  PROVE  TypeOK' /\ worker'[w] = k
PROOF
<1>1. worker' \in [Worker -> WorkerType] /\ worker'[w] = k
  BY DEF TypeOK, WorkerType
<1> QED
  BY <1>1 DEF TypeOK, WorkerType

LEMMA RequestLiving ==
  ASSUME LivingAssumptions, LivingInv, NEW w \in Worker, NEW op \in {"open", "use", "release"},
         NEW t \in Tid \cup {Null}, NEW f \in File, NEW i \in Item \cup {Null},
         op = "open" => t \in Tid /\ i \in Item, op # "open" => f \in DOMAIN files,
         Request(w, op, t, f, i)
  PROVE  LivingInv'
PROOF
<1> DEFINE k == [Idle EXCEPT !.pc = "get", !.op = op, !.task = t, !.file = f, !.item = i]
<1>1. /\ worker' = [worker EXCEPT ![w] = k]
      /\ k.pc = "get" /\ k.op = op /\ k.task = t /\ k.file = f /\ k.item = i
      /\ UNCHANGED <<task, files, fs_pids, found, ffp, cleaner, daemon>>
  BY DEF Request, Idle, kernel, table
<1>2. k \in WorkerType
  BY DEF Idle, WorkerType
<1> HIDE DEF k
<1>3. TypeOK /\ found' \in BOOLEAN
  BY <1>1 DEF LivingInv, TypeOK
<1>4. TypeOK' /\ worker'[w] = k
  BY <1>1, <1>2, <1>3, RecordType
<1>5. LookupOK(w)'
  BY <1>1, <1>4 DEF LookupOK
<1> QED
  BY <1>1, <1>4, <1>5, WorkerLiving

LEMMA GetPidLiving ==
  ASSUME LivingAssumptions, LivingInv, NEW w \in Worker, GetPid(w)
  PROVE  LivingInv'
PROOF
<1> DEFINE k == [worker[w] EXCEPT !.pc = "found", !.ptr = fs_pids[pid(w)]]
<1>1. TypeOK /\ worker[w] \in WorkerType /\ worker[w].pc = "get" /\ LookupOK(w)
  BY DEF GetPid, At, LivingInv, TypeOK, WorkerType
<1>2. pid(w) \in Tid /\ fs_pids[pid(w)] \in Ffp \cup {Null}
  BY <1>1, PidIn DEF TypeOK
<1>3. /\ worker' = [worker EXCEPT ![w] = k]
      /\ k \in WorkerType /\ k.pc = "found" /\ k.op = worker[w].op /\ k.file = worker[w].file
      /\ k.task = worker[w].task /\ k.item = worker[w].item
  BY <1>1, <1>2 DEF GetPid, TypeOK, WorkerType
<1>4. /\ found' = (fs_pids[pid(w)] # Null)
      /\ UNCHANGED <<task, files, fs_pids, ffp, cleaner, daemon>>
  BY DEF GetPid, kernel
<1> HIDE DEF k
<1>5. TypeOK' /\ worker'[w] = k
  BY <1>1, <1>3, <1>4, RecordType
<1>6. pid(w)' = pid(w)
  BY <1>3, <1>4, <1>5 DEF pid
<1>7. LookupOK(w)'
  BY <1>1, <1>3, <1>4, <1>5, <1>6 DEF LookupOK
<1> QED
  BY <1>4, <1>5, <1>7, WorkerLiving

LEMMA CheckPidLiving ==
  ASSUME LivingAssumptions, LivingInv, NEW w \in Worker, CheckPid(w)
  PROVE  LivingInv'
PROOF
<1>1. TypeOK /\ worker[w] \in WorkerType /\ worker[w].pc = "found" /\ LookupOK(w)
  BY DEF CheckPid, At, LivingInv, TypeOK, WorkerType
<1>2. UNCHANGED <<task, files, fs_pids, found, ffp, cleaner, daemon>> /\ found' \in BOOLEAN
  BY <1>1 DEF CheckPid, kernel, table, TypeOK
<1>3. PICK k \in WorkerType :
        /\ worker' = [worker EXCEPT ![w] = k]
        /\ k.op = worker[w].op /\ k.file = worker[w].file
        /\ k.task = worker[w].task /\ k.item = worker[w].item
        /\ k.pc \in {"items", "put", "reply"}
        /\ k.pc = "put" => ~found /\ worker[w].op = "open"
  <2>1. CASE found /\ worker' = [worker EXCEPT ![w].pc = "items"]
    <3> DEFINE k == [worker[w] EXCEPT !.pc = "items"]
    <3>1. /\ worker' = [worker EXCEPT ![w] = k] /\ k \in WorkerType
          /\ k.op = worker[w].op /\ k.file = worker[w].file
          /\ k.task = worker[w].task /\ k.item = worker[w].item
          /\ k.pc \in {"items", "put", "reply"}
          /\ k.pc = "put" => ~found /\ worker[w].op = "open"
      BY <1>1, <2>1 DEF WorkerType, TypeOK
    <3> HIDE DEF k
    <3> QED
      BY <3>1
  <2>2. CASE ~found /\ worker[w].op = "open" /\ worker' = [worker EXCEPT ![w].pc = "put"]
    <3> DEFINE k == [worker[w] EXCEPT !.pc = "put"]
    <3>1. /\ worker' = [worker EXCEPT ![w] = k] /\ k \in WorkerType
          /\ k.op = worker[w].op /\ k.file = worker[w].file
          /\ k.task = worker[w].task /\ k.item = worker[w].item
          /\ k.pc \in {"items", "put", "reply"}
          /\ k.pc = "put" => ~found /\ worker[w].op = "open"
      BY <1>1, <2>2 DEF WorkerType, TypeOK
    <3> HIDE DEF k
    <3> QED
      BY <3>1
  <2>3. CASE worker' = [worker EXCEPT ![w].pc = "reply", ![w].ret = "terminated"]
    <3> DEFINE k == [worker[w] EXCEPT !.pc = "reply", !.ret = "terminated"]
    <3>1. /\ worker' = [worker EXCEPT ![w] = k] /\ k \in WorkerType
          /\ k.op = worker[w].op /\ k.file = worker[w].file
          /\ k.task = worker[w].task /\ k.item = worker[w].item
          /\ k.pc \in {"items", "put", "reply"}
          /\ k.pc = "put" => ~found /\ worker[w].op = "open"
      BY <1>1, <2>3 DEF WorkerType, TypeOK
    <3> HIDE DEF k
    <3> QED
      BY <3>1
  <2>4. CASE worker' = [worker EXCEPT ![w].pc = "reply", ![w].ret = "OK"]
    <3> DEFINE k == [worker[w] EXCEPT !.pc = "reply", !.ret = "OK"]
    <3>1. /\ worker' = [worker EXCEPT ![w] = k] /\ k \in WorkerType
          /\ k.op = worker[w].op /\ k.file = worker[w].file
          /\ k.task = worker[w].task /\ k.item = worker[w].item
          /\ k.pc \in {"items", "put", "reply"}
          /\ k.pc = "put" => ~found /\ worker[w].op = "open"
      BY <1>1, <2>4 DEF WorkerType, TypeOK
    <3> HIDE DEF k
    <3> QED
      BY <3>1
  <2> QED
    BY <2>1, <2>2, <2>3, <2>4 DEF CheckPid
<1>4. TypeOK' /\ worker'[w] = k
  BY <1>1, <1>2, <1>3, RecordType
<1>5. pid(w)' = pid(w)
  BY <1>2, <1>3, <1>4 DEF pid
<1>6. LookupOK(w)'
  BY <1>1, <1>2, <1>3, <1>4, <1>5 DEF LookupOK
<1> QED
  BY <1>2, <1>4, <1>6, WorkerLiving

(* A new fs_fh_pid takes the place of no other: the entry was NULL.        *)
LEMMA NewFfpLiving ==
  ASSUME LivingAssumptions, LivingInv, NEW w \in Worker, new_ffp(w)
  PROVE  LivingInv'
PROOF
<1> DEFINE fresh == [next_fd |-> 1, items |-> [d \in Fd |-> Null], found |-> FALSE]
<1>1. TypeOK /\ worker[w] \in WorkerType /\ worker[w].pc = "put" /\ LookupOK(w)
  BY DEF new_ffp, FirstFd, At, LivingInv, TypeOK, WorkerType
<1>2. pid(w) \in Tid
  BY <1>1, PidIn
<1>3. fresh \in Object /\ Null \notin Ffp
  BY DEF Object, Fd, LivingAssumptions, HandleAssumption
<1>4. PICK o \in Ffp :
        /\ ffp' = [ffp EXCEPT ![o] = fresh]
        /\ fs_pids' = [fs_pids EXCEPT ![pid(w)] = o]
        /\ found' = (fs_pids[pid(w)] # Null)
        /\ worker' = [worker EXCEPT ![w].pc = "items", ![w].ptr = o]
  BY DEF new_ffp, FirstFd
<1> DEFINE k == [worker[w] EXCEPT !.pc = "items", !.ptr = o]
<1>5. /\ worker' = [worker EXCEPT ![w] = k] /\ worker'[w] = k
      /\ k \in WorkerType /\ k.pc = "items" /\ k.op = worker[w].op /\ k.file = worker[w].file
      /\ k.task = worker[w].task /\ k.item = worker[w].item
  BY <1>1, <1>4 DEF TypeOK, WorkerType
<1>6. UNCHANGED <<task, files, cleaner, daemon>>
  BY DEF new_ffp, FirstFd, kernel
<1> HIDE DEF k, fresh
<1>7. TypeOK'
  <2>1. worker' \in [Worker -> WorkerType]
    BY <1>1, <1>5 DEF TypeOK, WorkerType
  <2>2. fs_pids' \in [Tid -> Ffp \cup {Null}] /\ ffp' \in [Ffp -> Object \cup {Null}]
    BY <1>1, <1>3, <1>4 DEF TypeOK
  <2> QED
    BY <1>1, <1>4, <1>6, <2>1, <2>2 DEF TypeOK, WorkerType
<1>8. LookupOK(w)'
  BY <1>1, <1>5, <1>6 DEF LookupOK
<1>9. \A t \in Tid : fs_pids[t] # Null => fs_pids'[t] # Null
  BY <1>1, <1>2, <1>3, <1>4 DEF TypeOK
<1> QED
  BY <1>6, <1>7, <1>8, <1>9, WorkerLiving

LEMMA AddFileLiving ==
  ASSUME LivingAssumptions, LivingInv, NEW w \in Worker, At(w, "items"),
         worker[w].op = "open", ~Dangling(worker[w].ptr), add_file(w)
  PROVE  LivingInv'
PROOF
<1> DEFINE o == worker[w].ptr
           d == ffp[o].next_fd
           handle == [pid |-> pid(w), fd |-> d, item |-> worker[w].item,
                      holders |-> {ProcessOf[worker[w].task]}]
           obj == [next_fd |-> d + 1, found |-> ffp[o].items[d] # Null,
                   items |-> [ffp[o].items EXCEPT ![d] = worker[w].item]]
           k == [worker[w] EXCEPT !.pc = "reply", !.ret = "OK"]
<1>1. /\ TypeOK /\ worker[w] \in WorkerType /\ worker[w].pc = "items" /\ LookupOK(w)
      /\ o \in Ffp /\ ffp[o] \in Object
  BY DEF At, Dangling, LivingInv, TypeOK, WorkerType
<1>2. pid(w) \in Tid /\ worker[w].task \in Tid /\ worker[w].item \in Item
      /\ worker[w].file \in File
  BY <1>1, PidIn DEF LookupOK
<1>3. /\ d <= MaxFd
      /\ ffp' = [ffp EXCEPT ![o] = obj]
      /\ files' = [f \in DOMAIN files \cup {worker[w].file} |->
                     IF f = worker[w].file THEN handle ELSE files[f]]
      /\ worker' = [worker EXCEPT ![w].pc = "reply", ![w].ret = "OK"]
      /\ UNCHANGED <<task, fs_pids, found, cleaner, daemon>>
  BY DEF add_file, PutFile, NextFd
<1>4. d \in Fd /\ obj \in Object
  <2>1. MaxFd \in Nat
    BY DEF LivingAssumptions, HandleAssumption
  <2>2. d \in Fd /\ d + 1 \in 1..(MaxFd + 1)
    <3>1. d <= MaxFd
      BY <1>3
    <3>2. d \in 1..(MaxFd + 1)
      BY <1>1 DEF Object
    <3> HIDE DEF d
    <3> QED
      BY <2>1, <3>1, <3>2 DEF Fd
  <2>3. [ffp[o].items EXCEPT ![d] = worker[w].item] \in [Fd -> Item \cup {Null}]
    BY <1>1, <1>2 DEF Object
  <2>4. obj \in Object
    BY <2>2, <2>3 DEF Object
  <2> QED
    BY <2>2, <2>4
<1>5. handle \in [pid : Tid, fd : Fd, item : Item, holders : SUBSET Process]
  <2>1. ProcessOf[worker[w].task] \in Process
    BY <1>2 DEF LivingAssumptions, HandleAssumption
  <2> HIDE DEF d
  <2> QED
    BY <1>2, <1>4, <2>1
<1>6. /\ worker' = [worker EXCEPT ![w] = k] /\ worker'[w] = k
      /\ k \in WorkerType /\ k.pc = "reply" /\ k.op = "open" /\ k.file = worker[w].file
      /\ k.task = worker[w].task /\ k.item = worker[w].item
  BY <1>1, <1>3 DEF TypeOK, WorkerType
<1> HIDE DEF handle, obj, k, d
<1>7. TypeOK'
  <2>1. worker' \in [Worker -> WorkerType] /\ ffp' \in [Ffp -> Object \cup {Null}]
    BY <1>1, <1>3, <1>4, <1>6 DEF TypeOK, WorkerType
  <2>2. DOMAIN files' \subseteq File
    BY <1>1, <1>2, <1>3 DEF TypeOK
  <2>3. \A f \in DOMAIN files' :
          files'[f] \in [pid : Tid, fd : Fd, item : Item, holders : SUBSET Process]
    BY <1>1, <1>3, <1>5 DEF TypeOK
  <2> QED
    BY <1>1, <1>3, <2>1, <2>2, <2>3 DEF TypeOK, WorkerType
<1>8. LookupOK(w)'
  BY <1>2, <1>6 DEF LookupOK
<1> QED
  BY <1>3, <1>7, <1>8, WorkerLiving

(* A step that changes one object and the worker's record.                 *)
LEMMA ObjectLiving ==
  ASSUME LivingAssumptions, LivingInv, NEW w \in Worker, NEW o \in Ffp,
         NEW obj \in Object, NEW k \in WorkerType,
         k.op \in {"use", "release"}, k.op = worker[w].op, k.file = worker[w].file,
         k.pc \in {"closed", "reply"},
         ffp' = [ffp EXCEPT ![o] = obj], worker' = [worker EXCEPT ![w] = k],
         UNCHANGED <<task, files, fs_pids, found, cleaner, daemon>>
  PROVE  LivingInv'
PROOF
<1>1. TypeOK /\ LookupOK(w)
  BY DEF LivingInv
<1>2. worker' \in [Worker -> WorkerType] /\ worker'[w] = k
      /\ ffp' \in [Ffp -> Object \cup {Null}]
  BY <1>1 DEF TypeOK, WorkerType
<1>3. TypeOK'
  BY <1>1, <1>2 DEF TypeOK, WorkerType
<1>4. worker[w].file \in DOMAIN files /\ worker[w].file \in File
  BY <1>1 DEF LookupOK, TypeOK
<1>5. LookupOK(w)'
  BY <1>2, <1>4 DEF LookupOK
<1> QED
  BY <1>3, <1>5, WorkerLiving

LEMMA GetItemLiving ==
  ASSUME LivingAssumptions, LivingInv, NEW w \in Worker, At(w, "items"),
         worker[w].op = "use", ~Dangling(worker[w].ptr), fs_fh_get_item(w)
  PROVE  LivingInv'
PROOF
<1> DEFINE o == worker[w].ptr
           i == ffp[o].items[fd(w)]
           obj == [next_fd |-> ffp[o].next_fd, found |-> i # Null, items |-> ffp[o].items]
           k == [worker[w] EXCEPT !.pc = "closed", !.item = i]
<1>1. /\ TypeOK /\ worker[w] \in WorkerType /\ LookupOK(w)
      /\ o \in Ffp /\ ffp[o] \in Object
  BY DEF At, Dangling, LivingInv, TypeOK, WorkerType
<1>2. fd(w) \in Fd
  BY <1>1 DEF LookupOK, TypeOK, fd
<1>3. i \in Item \cup {Null} /\ obj \in Object
  BY <1>1, <1>2 DEF Object
<1>4. ffp' = [ffp EXCEPT ![o] = obj]
      /\ UNCHANGED <<task, files, fs_pids, found, cleaner, daemon>>
  BY DEF fs_fh_get_item, kernel
<1>5. /\ worker' = [worker EXCEPT ![w] = k]
      /\ k \in WorkerType /\ k.pc = "closed" /\ k.op = worker[w].op /\ k.file = worker[w].file
  BY <1>1, <1>3 DEF fs_fh_get_item, TypeOK, WorkerType
<1> HIDE DEF obj, k, i, o
<1> QED
  BY <1>1, <1>3, <1>4, <1>5, ObjectLiving

LEMMA ReleaseFileLiving ==
  ASSUME LivingAssumptions, LivingInv, NEW w \in Worker, At(w, "items"),
         worker[w].op = "release", ~Dangling(worker[w].ptr), fs_fh_release_file(w)
  PROVE  LivingInv'
PROOF
<1> DEFINE o == worker[w].ptr
           items == [ffp[o].items EXCEPT ![fd(w)] = Null]
           obj == [next_fd |-> ffp[o].next_fd, found |-> ffp[o].items[fd(w)] # Null,
                   items |-> items]
           k == [worker[w] EXCEPT !.pc = "reply", !.ret = "OK"]
<1>1. /\ TypeOK /\ worker[w] \in WorkerType /\ LookupOK(w)
      /\ o \in Ffp /\ ffp[o] \in Object
  BY DEF At, Dangling, LivingInv, TypeOK, WorkerType
<1>2. items \in [Fd -> Item \cup {Null}]
  BY <1>1 DEF Object
<1>3. obj \in Object
  BY <1>1, <1>2 DEF Object
<1>4. ffp' = [ffp EXCEPT ![o] = obj]
      /\ UNCHANGED <<task, files, fs_pids, found, cleaner, daemon>>
  BY DEF fs_fh_release_file, kernel
<1>5. /\ worker' = [worker EXCEPT ![w] = k]
      /\ k \in WorkerType /\ k.pc = "reply" /\ k.op = worker[w].op /\ k.file = worker[w].file
  BY <1>1 DEF fs_fh_release_file, TypeOK, WorkerType
<1> HIDE DEF obj, k, items, o
<1> QED
  BY <1>1, <1>3, <1>4, <1>5, ObjectLiving

(* What a step of the cleaner, of unmount or of a crash has to show: while *)
(* mounted, an entry that was not there stays away, and found is not lost. *)
LEMMA OtherLiving ==
  ASSUME LivingInv, TypeOK', RoundOK', UNCHANGED <<kernel, worker>>,
         daemon' = "mounted" =>
           /\ daemon = "mounted"
           /\ found => found'
           /\ \A t \in Tid : fs_pids[t] = Null => fs_pids'[t] = Null
  PROVE  LivingInv'
PROOF
<1>1. ASSUME NEW w \in Worker
      PROVE  LookupOK(w)'
  <2>1. LookupOK(w) /\ pid(w)' = pid(w) /\ (worker[w].pc # "idle" => pid(w) \in Tid)
    BY PidIn DEF LivingInv, pid, kernel
  <2> QED
    BY <2>1 DEF LookupOK, kernel
<1> QED
  BY <1>1 DEF LivingInv

LEMMA CrashLiving ==
  ASSUME LivingInv, Crash
  PROVE  LivingInv'
PROOF
<1>1. UNCHANGED <<task, files, fs_pids, found, ffp, worker, cleaner>> /\ daemon' = "crashed"
  BY DEF Crash, kernel, table
<1>2. TypeOK' /\ RoundOK'
  BY <1>1 DEF LivingInv, TypeOK, RoundOK, Gone
<1> QED
  BY <1>1, <1>2, OtherLiving DEF kernel

LEMMA UseItemsLiving ==
  ASSUME LivingAssumptions, LivingInv, NEW w \in Worker, UseItems(w)
  PROVE  LivingInv'
PROOF
<1> QED
  BY CrashLiving, AddFileLiving, GetItemLiving, ReleaseFileLiving DEF UseItems

LEMMA CheckItemLiving ==
  ASSUME LivingAssumptions, LivingInv, NEW w \in Worker, CheckItem(w)
  PROVE  LivingInv'
PROOF
<1>1. CASE Crash
  BY <1>1, CrashLiving
<1>2. CASE ~Crash
  <2> DEFINE k == [worker[w] EXCEPT !.pc = "reply",
                     !.ret = IF ffp[worker[w].ptr].found THEN "OK" ELSE "closed"]
  <2>1. TypeOK /\ worker[w] \in WorkerType /\ worker[w].pc = "closed" /\ LookupOK(w)
    BY DEF CheckItem, At, LivingInv, TypeOK, WorkerType
  <2>2. /\ worker' = [worker EXCEPT ![w] = k]
        /\ k \in WorkerType /\ k.pc = "reply" /\ k.op = worker[w].op
        /\ k.file = worker[w].file /\ k.task = worker[w].task /\ k.item = worker[w].item
        /\ UNCHANGED <<task, files, fs_pids, found, ffp, cleaner, daemon>>
    BY <1>2, <2>1 DEF CheckItem, TypeOK, WorkerType, kernel, table
  <2> HIDE DEF k
  <2>3. TypeOK' /\ worker'[w] = k
    <3>1. found' \in BOOLEAN
      BY <2>1, <2>2 DEF TypeOK
    <3> QED
      BY <2>1, <2>2, <3>1, RecordType
  <2>4. LookupOK(w)'
    BY <2>1, <2>2, <2>3 DEF LookupOK
  <2> QED
    BY <2>2, <2>3, <2>4, WorkerLiving
<1> QED
  BY <1>1, <1>2

LEMMA ReplyLiving ==
  ASSUME LivingAssumptions, LivingInv, NEW w \in Worker, Reply(w)
  PROVE  LivingInv'
PROOF
<1>1. TypeOK /\ UNCHANGED <<task, fs_pids, found, ffp, cleaner, daemon>>
  BY DEF Reply, table, LivingInv
<1>2. worker' = [worker EXCEPT ![w] = Idle] /\ Idle \in WorkerType
  BY DEF Reply, Idle, WorkerType
<1>3. worker' \in [Worker -> WorkerType] /\ worker'[w] = Idle
  BY <1>1, <1>2 DEF TypeOK, WorkerType
<1>4. DOMAIN files' \subseteq DOMAIN files /\ \A f \in DOMAIN files' : files'[f] = files[f]
  BY DEF Reply
<1>5. TypeOK'
  BY <1>1, <1>3, <1>4 DEF TypeOK, WorkerType
<1>6. LookupOK(w)'
  BY <1>3 DEF LookupOK, Idle
<1> QED
  BY <1>1, <1>5, <1>6, WorkerLiving

(* The round of the cleaner: an entry it has seen stays until it drops it, *)
(* because the worker removes none, and a pid it took for gone stays gone. *)
LEMMA RoundLiving ==
  ASSUME LivingAssumptions, LivingInv, Wake \/ Visit \/ Kill
  PROVE  LivingInv'
PROOF
<1>1. TypeOK /\ RoundOK
  BY DEF LivingInv
<1>2. UNCHANGED <<task, files, fs_pids, found, ffp, worker, daemon>>
  BY DEF Wake, Visit, Kill, kernel, table
<1>3. CASE Wake
  <2>1. Cleaner /\ cleaner' = [pc |-> "visit", todo |-> Tid, pid |-> Null, ptr |-> Null]
    BY <1>3 DEF Wake, Asleep
  <2>2. TypeOK' /\ RoundOK'
    BY <1>1, <1>2, <2>1 DEF TypeOK, RoundOK
  <2> QED
    BY <1>2, <2>2, OtherLiving DEF kernel
<1>4. CASE Visit
  <2>1. Cleaner
    BY <1>1, <1>4 DEF Visit, Cleans, RoundOK
  <2>2. CASE cleaner' = Asleep
    <3>1. TypeOK' /\ RoundOK'
      BY <1>1, <1>2, <2>2 DEF TypeOK, RoundOK, Asleep
    <3> QED
      BY <1>2, <3>1, OtherLiving DEF kernel
  <2>3. CASE \E t \in cleaner.todo :
               cleaner' = [pc |-> IF fs_pids[t] = Null THEN "visit" ELSE "kill",
                           todo |-> cleaner.todo \ {t}, pid |-> t, ptr |-> fs_pids[t]]
    <3>1. PICK t \in cleaner.todo :
               cleaner' = [pc |-> IF fs_pids[t] = Null THEN "visit" ELSE "kill",
                           todo |-> cleaner.todo \ {t}, pid |-> t, ptr |-> fs_pids[t]]
      BY <2>3
    <3>2. t \in Tid /\ fs_pids[t] \in Ffp \cup {Null} /\ cleaner.todo \ {t} \in SUBSET Tid
      BY <1>1 DEF TypeOK
    <3>3. /\ cleaner' \in [pc : {"sleep", "visit", "kill", "term", "free", "del"},
                           todo : SUBSET Tid, pid : Tid \cup {Null}, ptr : Ffp \cup {Null}]
          /\ cleaner'.pc \in {"visit", "kill"} /\ cleaner'.pid = t
          /\ cleaner'.pc = "kill" => fs_pids[t] # Null
      BY <3>1, <3>2
    <3>4. TypeOK' /\ RoundOK'
      BY <1>1, <1>2, <2>1, <3>2, <3>3 DEF TypeOK, RoundOK
    <3> QED
      BY <1>2, <3>4, OtherLiving DEF kernel
  <2> QED
    BY <1>4, <2>2, <2>3 DEF Visit, Rest
<1>5. CASE Kill
  <2>1. cleaner.pc = "kill" /\ Gone(cleaner.pid)' = Gone(cleaner.pid)
    BY <1>2, <1>5 DEF Kill, Cleans, Gone
  <2>2. /\ cleaner' \in [pc : {"sleep", "visit", "kill", "term", "free", "del"},
                         todo : SUBSET Tid, pid : Tid \cup {Null}, ptr : Ffp \cup {Null}]
        /\ cleaner'.pid = cleaner.pid /\ cleaner'.pc \in {"visit", "term"}
        /\ cleaner'.pc = "term" => Gone(cleaner.pid)
    BY <1>1, <1>5 DEF Kill, TypeOK
  <2>3. TypeOK' /\ RoundOK'
    BY <1>1, <1>2, <2>1, <2>2 DEF TypeOK, RoundOK, Gone
  <2> QED
    BY <1>2, <2>3, OtherLiving DEF kernel
<1> QED
  BY <1>3, <1>4, <1>5

LEMMA FreeLiving ==
  ASSUME LivingAssumptions, LivingInv, TermItems \/ FreePid
  PROVE  LivingInv'
PROOF
<1>1. TypeOK /\ RoundOK
  BY DEF LivingInv
<1>2. CASE Crash
  BY <1>2, CrashLiving
<1>3. CASE ~Crash
  <2>1. /\ cleaner.pc \in {"term", "free"} /\ ~Dangling(cleaner.ptr)
        /\ UNCHANGED <<task, files, fs_pids, found, worker, daemon>>
    BY <1>3 DEF TermItems, FreePid, Cleans, kernel
  <2>2. cleaner.ptr \in Ffp /\ ffp[cleaner.ptr] \in Object
    BY <1>1, <2>1 DEF Dangling, TypeOK
  <2>3. ffp' \in [Ffp -> Object \cup {Null}]
    <3>1. CASE ffp' = Freed({cleaner.ptr})
      BY <1>1, <3>1 DEF Freed, TypeOK
    <3>2. CASE ffp' = [ffp EXCEPT ![cleaner.ptr].items = [d \in Fd |-> Null],
                                  ![cleaner.ptr].found = FALSE]
      <4>1. ffp' = [ffp EXCEPT ![cleaner.ptr] =
                      [ffp[cleaner.ptr] EXCEPT !.items = [d \in Fd |-> Null], !.found = FALSE]]
        BY <1>1, <2>2, <3>2 DEF TypeOK
      <4>2. [ffp[cleaner.ptr] EXCEPT !.items = [d \in Fd |-> Null], !.found = FALSE] \in Object
        BY <2>2 DEF Object
      <4> QED
        BY <1>1, <4>1, <4>2 DEF TypeOK
    <3> QED
      BY <1>3, <3>1, <3>2 DEF TermItems, FreePid
  <2>4. /\ cleaner' \in [pc : {"sleep", "visit", "kill", "term", "free", "del"},
                         todo : SUBSET Tid, pid : Tid \cup {Null}, ptr : Ffp \cup {Null}]
        /\ cleaner'.pid = cleaner.pid /\ cleaner'.pc \in {"free", "del"}
    BY <1>1, <1>3 DEF TermItems, FreePid, TypeOK
  <2>5. TypeOK' /\ RoundOK'
    BY <1>1, <2>1, <2>3, <2>4 DEF TypeOK, RoundOK, Gone
  <2> QED
    BY <2>1, <2>5, OtherLiving DEF kernel
<1> QED
  BY <1>2, <1>3

(* The entry is still there when the cleaner drops it: sc_map_del finds it *)
(* and leaves the flag of the table set.                                   *)
LEMMA DelPidLiving ==
  ASSUME LivingAssumptions, LivingInv, DelPid
  PROVE  LivingInv'
PROOF
<1>1. TypeOK /\ RoundOK /\ cleaner.pc = "del" /\ cleaner.pid \in Tid
  BY DEF LivingInv, DelPid, Cleans, RoundOK
<1>2. /\ UNCHANGED <<task, files, ffp, worker, daemon>>
      /\ fs_pids' = [fs_pids EXCEPT ![cleaner.pid] = Null]
      /\ found' = (fs_pids[cleaner.pid] # Null)
  BY DEF DelPid, kernel
<1>3. /\ cleaner' \in [pc : {"sleep", "visit", "kill", "term", "free", "del"},
                       todo : SUBSET Tid, pid : Tid \cup {Null}, ptr : Ffp \cup {Null}]
      /\ cleaner'.pc = "visit"
  <2>1. PICK rest \in SUBSET cleaner.todo :
          cleaner' = [cleaner EXCEPT !.pc = "visit", !.todo = rest]
    BY DEF DelPid
  <2>2. rest \in SUBSET Tid
    BY <1>1 DEF TypeOK
  <2> QED
    BY <1>1, <2>1, <2>2 DEF TypeOK
<1>4. fs_pids' \in [Tid -> Ffp \cup {Null}] /\ found' \in BOOLEAN
      /\ \A t \in Tid : fs_pids[t] = Null => fs_pids'[t] = Null
  BY <1>1, <1>2 DEF TypeOK
<1>5. TypeOK'
  BY <1>1, <1>2, <1>3, <1>4 DEF TypeOK
<1>6. RoundOK'
  BY <1>1, <1>3 DEF RoundOK
<1>7. daemon = "mounted" => found'
  BY <1>1, <1>2 DEF RoundOK
<1> QED
  BY <1>2, <1>4, <1>5, <1>6, <1>7, OtherLiving DEF kernel

LEMMA UnmountLiving ==
  ASSUME LivingAssumptions, LivingInv, free_fs_fh
  PROVE  LivingInv'
PROOF
<1>1. TypeOK /\ RoundOK
  BY DEF LivingInv
<1>2. UNCHANGED <<task, files, worker, cleaner>> /\ daemon' \in {"freed", "exited"}
  BY DEF free_fs_fh, Unmount, ExitDaemon, kernel
<1>3. ffp' \in [Ffp -> Object \cup {Null}] /\ fs_pids' \in [Tid -> Ffp \cup {Null}]
      /\ found' \in BOOLEAN
  BY <1>1 DEF free_fs_fh, Unmount, ExitDaemon, Freed, TypeOK
<1>4. TypeOK'
  BY <1>1, <1>2, <1>3 DEF TypeOK
<1>5. RoundOK'
  BY <1>1, <1>2 DEF RoundOK, Gone
<1> QED
  BY <1>2, <1>4, <1>5, OtherLiving DEF kernel

LEMMA NextLiving == LivingAssumptions /\ LivingInv /\ [Next]_vars => LivingInv'
PROOF
<1> SUFFICES ASSUME LivingAssumptions, LivingInv, [Next]_vars
             PROVE  LivingInv'
  OBVIOUS
<1>1. CASE Kernel
  <2>1. ASSUME NEW t \in Tid, Start(t) \/ Exit(t)
        PROVE  LivingInv'
    BY <2>1, StartLiving, ExitLiving
  <2>2. ASSUME NEW t \in Tid, NEW f \in File, Close(t, f)
        PROVE  LivingInv'
    BY <2>2, CloseLiving
  <2>3. ASSUME NEW w \in Worker, NEW f \in File, Release(w, f)
        PROVE  LivingInv'
    BY <2>3, RequestLiving DEF Release
  <2>4. ASSUME NEW w \in Worker, NEW t \in Tid, NEW f \in File, Use(w, t, f)
        PROVE  LivingInv'
    BY <2>4, RequestLiving DEF Use
  <2>5. ASSUME NEW w \in Worker, NEW t \in Tid, NEW f \in File, NEW i \in Item,
               Open(w, t, f, i)
        PROVE  LivingInv'
    BY <2>5, RequestLiving DEF Open
  <2> QED
    BY <1>1, <2>1, <2>2, <2>3, <2>4, <2>5 DEF Kernel
<1>2. ASSUME NEW w \in Worker, Serve(w)
      PROVE  LivingInv'
  BY <1>2, GetPidLiving, CheckPidLiving, NewFfpLiving, UseItemsLiving, CheckItemLiving,
     ReplyLiving DEF Serve
<1>3. CASE pid_clean_fn
  BY <1>3, RoundLiving, FreeLiving, DelPidLiving DEF pid_clean_fn
<1>4. CASE free_fs_fh
  BY <1>4, UnmountLiving
<1>5. CASE UNCHANGED vars
  <2>1. UNCHANGED <<task, files, fs_pids, found, ffp, worker, cleaner, daemon>>
    BY <1>5 DEF vars
  <2>2. TypeOK' /\ RoundOK'
    BY <2>1 DEF LivingInv, TypeOK, RoundOK, Gone
  <2> QED
    BY <2>1, <2>2, OtherLiving DEF kernel
<1> QED
  BY <1>1, <1>2, <1>3, <1>4, <1>5 DEF Next

(* A step drops or replaces only the entry of a pid that is gone, or of a  *)
(* pid that has none.                                                      *)
LEMMA KeepsTheirs ==
  ASSUME LivingAssumptions, LivingInv, [Next]_vars, NEW t \in Tid \ Foreign,
         task[t] = "running", fs_pids[t] # Null, daemon = "mounted"
  PROVE  fs_pids'[t] = fs_pids[t]
PROOF
<1>1. CASE Kernel
  BY <1>1 DEF Kernel, Start, Exit, Close, Release, Use, Open, Request, table
<1>2. ASSUME NEW w \in Worker, Serve(w)
      PROVE  fs_pids'[t] = fs_pids[t]
  <2>1. CASE new_ffp(w)
    <3>1. worker[w].pc = "put" /\ LookupOK(w)
      BY <2>1 DEF new_ffp, At, LivingInv
    <3>2. t # pid(w)
      BY <3>1 DEF LookupOK
    <3>3. PICK o \in Ffp : fs_pids' = [fs_pids EXCEPT ![pid(w)] = o]
      BY <2>1 DEF new_ffp
    <3> QED
      BY <3>2, <3>3 DEF LivingInv, TypeOK
  <2>2. CASE GetPid(w) \/ CheckPid(w) \/ CheckItem(w) \/ Reply(w)
    BY <2>2 DEF GetPid, CheckPid, CheckItem, Reply, Crash, table
  <2>3. CASE UseItems(w)
    BY <2>3 DEF UseItems, Crash, table, add_file, PutFile, fs_fh_get_item, fs_fh_release_file
  <2> QED
    BY <1>2, <2>1, <2>2, <2>3 DEF Serve
<1>3. CASE pid_clean_fn
  <2>1. CASE DelPid
    <3>1. cleaner.pc = "del" /\ Gone(cleaner.pid)
      BY <2>1 DEF DelPid, Cleans, LivingInv, RoundOK
    <3>2. t # cleaner.pid
      BY <3>1 DEF Gone
    <3> QED
      BY <2>1, <3>2 DEF DelPid, LivingInv, TypeOK
  <2>2. CASE Wake \/ Visit \/ Kill \/ TermItems \/ FreePid
    BY <2>2 DEF Wake, Visit, Kill, TermItems, FreePid, Crash, table
  <2> QED
    BY <1>3, <2>1, <2>2 DEF pid_clean_fn
<1>4. CASE free_fs_fh
  BY <1>4 DEF free_fs_fh, Unmount, ExitDaemon
<1>5. CASE UNCHANGED vars
  BY <1>5 DEF vars
<1> QED
  BY <1>1, <1>2, <1>3, <1>4, <1>5 DEF Next

THEOREM LivingInvariant ==
  OneWorker /\ (Cleaner => ~ReusePids) => (Spec => []LivingInv)
PROOF
<1> SUFFICES ASSUME OneWorker, Cleaner => ~ReusePids
             PROVE  Spec => []LivingInv
  OBVIOUS
<1>1. LivingAssumptions
  BY HandleAssumption DEF LivingAssumptions
<1>2. Init => LivingInv
  BY InitLiving, HandleAssumption
<1>3. LivingInv /\ [Next]_vars => LivingInv'
  BY <1>1, NextLiving
<1> QED
  BY <1>2, <1>3, PTL DEF Spec

(* With the cleaner running beside the worker, no entry of a thread that   *)
(* runs is dropped or replaced before unmount.                             *)
THEOREM LivingEntriesStay ==
  OneWorker /\ (Cleaner => ~ReusePids) => (Spec => LivingKeepTheirs)
PROOF
<1> SUFFICES ASSUME OneWorker, Cleaner => ~ReusePids
             PROVE  Spec => LivingKeepTheirs
  OBVIOUS
<1>1. LivingAssumptions
  BY HandleAssumption DEF LivingAssumptions
<1>2. LivingInv /\ [Next]_vars =>
        \/ \A t \in Tid \ Foreign :
             task[t] = "running" /\ fs_pids[t] # Null /\ daemon = "mounted" =>
               fs_pids'[t] = fs_pids[t]
        \/ UNCHANGED vars
  BY <1>1, KeepsTheirs
<1>3. Spec => []LivingInv
  BY LivingInvariant
<1> QED
  BY <1>2, <1>3, PTL DEF Spec, LivingKeepTheirs

(* Beside the cleaner, too, every object is reached from the table.  The   *)
(* entry a deletion is about to drop leads to memory that is free again:   *)
(* malloc may hand it out before the deletion is done, and then another    *)
(* entry leads to it as well.                                              *)
LeakInv ==
  /\ LivingInv
  /\ \A w \in Worker : worker[w].pc # "idle" => daemon \in {"mounted", "crashed"}
  /\ daemon = "mounted" /\ cleaner.pc \in {"kill", "term", "free"} =>
       cleaner.ptr = fs_pids[cleaner.pid]
  /\ \A o \in Ffp : ffp[o] # Null =>
       \E t \in Tid : fs_pids[t] = o /\ (cleaner.pc = "del" => t # cleaner.pid)
  /\ daemon \in {"freed", "exited"} => \A o \in Ffp : ffp[o] = Null

(* Where no object appears and no entry goes.                              *)
LEMMA NoObjectAppears ==
  ASSUME LeakInv, LivingInv',
         UNCHANGED <<fs_pids, cleaner>>,
         \A o \in Ffp : ffp'[o] # Null => ffp[o] # Null,
         daemon' = daemon \/ daemon' = "crashed",
         \A w \in Worker : worker'[w].pc # "idle" => daemon' \in {"mounted", "crashed"}
  PROVE  LeakInv'
PROOF
<1> QED
  BY DEF LeakInv

LEMMA WorkerLeak ==
  ASSUME LivingAssumptions, LeakInv, LivingInv', NEW w \in Worker, Serve(w)
  PROVE  LeakInv'
PROOF
<1>1. LivingInv /\ TypeOK /\ \A v \in Worker : v = w
  BY DEF LeakInv, LivingInv, LivingAssumptions, OneWorker
<1>2. worker[w].pc # "idle" /\ daemon = "mounted"
  BY DEF Serve, GetPid, CheckPid, new_ffp, UseItems, CheckItem, Reply, At, LeakInv
<1>3. CASE new_ffp(w)
  <2>1. worker[w].pc = "put" /\ LookupOK(w) /\ pid(w) \in Tid /\ RoundOK
    BY <1>1, <1>2, <1>3, PidIn DEF new_ffp, At, LivingInv
  <2>2. fs_pids[pid(w)] = Null
    BY <1>2, <2>1 DEF LookupOK
  <2>3. PICK p \in Ffp :
          /\ \A o \in Ffp : o # p => ffp'[o] = ffp[o]
          /\ fs_pids' = [fs_pids EXCEPT ![pid(w)] = p]
          /\ UNCHANGED <<cleaner, daemon>>
    BY <1>1, <1>3 DEF new_ffp, TypeOK
  <2>4. fs_pids'[pid(w)] = p /\ \A t \in Tid : t # pid(w) => fs_pids'[t] = fs_pids[t]
    BY <1>1, <2>1, <2>3 DEF TypeOK
  <2>5. cleaner.pc \in {"kill", "term", "free", "del"} =>
          cleaner.pid \in Tid /\ cleaner.pid # pid(w)
    BY <1>2, <2>1, <2>2 DEF RoundOK
  <2>6. ASSUME NEW o \in Ffp, ffp'[o] # Null
        PROVE  \E t \in Tid : fs_pids'[t] = o /\ (cleaner'.pc = "del" => t # cleaner'.pid)
    <3>1. CASE o = p
      BY <2>1, <2>3, <2>4, <2>5, <3>1
    <3>2. CASE o # p
      <4>1. PICK t \in Tid : fs_pids[t] = o /\ (cleaner.pc = "del" => t # cleaner.pid)
        BY <2>3, <2>6, <3>2 DEF LeakInv
      <4>2. t # pid(w)
        BY <2>2, <4>1 DEF LivingAssumptions, HandleAssumption
      <4> QED
        BY <2>3, <2>4, <4>1, <4>2
    <3> QED
      BY <3>1, <3>2
  <2>7. cleaner'.pc \in {"kill", "term", "free"} => cleaner'.ptr = fs_pids'[cleaner'.pid]
    BY <1>2, <2>3, <2>4, <2>5 DEF LeakInv
  <2> QED
    BY <1>2, <2>3, <2>6, <2>7 DEF LeakInv
<1>4. CASE ~new_ffp(w)
  <2>1. UNCHANGED <<fs_pids, cleaner>> /\ (daemon' = daemon \/ daemon' = "crashed")
    BY <1>4 DEF Serve, GetPid, CheckPid, UseItems, CheckItem, Reply, Crash, table,
       add_file, PutFile, fs_fh_get_item, fs_fh_release_file
  <2>2. \A o \in Ffp : ffp'[o] # Null => ffp[o] # Null
    <3>1. CASE UNCHANGED ffp
      BY <3>1
    <3>2. CASE UseItems(w) /\ ~Crash
      <4>1. ~Dangling(worker[w].ptr)
        BY <3>2 DEF UseItems
      <4>2. \E obj : ffp' = [ffp EXCEPT ![worker[w].ptr] = obj]
        BY <3>2 DEF UseItems, add_file, PutFile, fs_fh_get_item, fs_fh_release_file
      <4> QED
        BY <1>1, <4>1, <4>2 DEF Dangling, TypeOK
    <3> QED
      BY <1>4, <3>1, <3>2 DEF Serve, GetPid, CheckPid, UseItems, CheckItem, Reply, Crash, table
  <2> QED
    BY <1>2, <2>1, <2>2, NoObjectAppears
<1> QED
  BY <1>3, <1>4

LEMMA CleanerLeak ==
  ASSUME LivingAssumptions, LeakInv, LivingInv', pid_clean_fn
  PROVE  LeakInv'
PROOF
<1>1. TypeOK /\ RoundOK /\ UNCHANGED worker
  BY DEF LeakInv, LivingInv, pid_clean_fn, Wake, Visit, Kill, TermItems, FreePid, DelPid, Crash
<1>2. CASE Wake \/ Visit \/ Kill
  <2>1. UNCHANGED <<fs_pids, ffp, daemon>> /\ cleaner.pc # "del"
    BY <1>2 DEF Wake, Visit, Kill, Cleans, table
  <2>2. cleaner'.pc # "del"
    <3>1. CASE Wake
      BY <3>1 DEF Wake, Asleep
    <3>3. CASE Visit
      <4>1. CASE cleaner' = Asleep
        BY <4>1 DEF Asleep
      <4>2. CASE cleaner' # Asleep
        <5>1. PICK t \in cleaner.todo :
                cleaner' = [pc |-> IF fs_pids[t] = Null THEN "visit" ELSE "kill",
                            todo |-> cleaner.todo \ {t}, pid |-> t, ptr |-> fs_pids[t]]
          BY <3>3, <4>2 DEF Visit, Rest
        <5>2. cleaner'.pc \in {"visit", "kill"}
          BY <5>1
        <5> QED
          BY <5>2
      <4> QED
        BY <4>1, <4>2
    <3>2. CASE Kill
      BY <1>1, <3>2 DEF Kill, TypeOK
    <3> QED
      BY <1>2, <3>1, <3>2, <3>3
  <2>3. daemon = "mounted" /\ cleaner'.pc \in {"kill", "term", "free"} =>
          cleaner'.ptr = fs_pids[cleaner'.pid]
    <3>1. CASE Wake
      BY <3>1 DEF Wake, Asleep
    <3>2. CASE Visit
      BY <3>2 DEF Visit, Rest, Asleep
    <3>3. CASE Kill
      <4>1. cleaner'.ptr = cleaner.ptr /\ cleaner'.pid = cleaner.pid /\ cleaner.pc = "kill"
        BY <1>1, <3>3 DEF Kill, Cleans, TypeOK
      <4> QED
        BY <4>1 DEF LeakInv
    <3> QED
      BY <1>2, <3>1, <3>2, <3>3
  <2> QED
    BY <1>1, <2>1, <2>2, <2>3 DEF LeakInv
<1>3. CASE (TermItems \/ FreePid \/ DelPid) /\ Crash
  BY <1>1, <1>3, NoObjectAppears DEF Crash, table, LeakInv
<1>4. CASE TermItems /\ ~Crash
  <2>1. /\ cleaner.pc = "term" /\ cleaner'.pc = "free" /\ cleaner'.pid = cleaner.pid
        /\ cleaner'.ptr = cleaner.ptr /\ UNCHANGED <<fs_pids, daemon>>
        /\ ~Dangling(cleaner.ptr)
    BY <1>1, <1>4 DEF TermItems, Cleans, TypeOK
  <2>2. \A o \in Ffp : ffp'[o] # Null => ffp[o] # Null
    <3>1. \A o \in Ffp : o # cleaner.ptr => ffp'[o] = ffp[o]
      BY <1>1, <1>4 DEF TermItems, TypeOK
    <3> QED
      BY <2>1, <3>1 DEF Dangling
  <2> QED
    BY <1>1, <2>1, <2>2 DEF LeakInv
<1>5. CASE FreePid /\ ~Crash
  <2>1. /\ cleaner.pc = "free" /\ cleaner'.pc = "del" /\ cleaner'.pid = cleaner.pid
        /\ UNCHANGED <<fs_pids, daemon>> /\ ~Dangling(cleaner.ptr)
        /\ daemon \in {"mounted", "freed"}
    BY <1>1, <1>5 DEF FreePid, Cleans, TypeOK
  <2>2. \A o \in Ffp : ffp'[o] # Null => ffp[o] # Null /\ o # cleaner.ptr
    BY <1>5 DEF FreePid, Freed
  <2>3. daemon = "mounted"
    BY <2>1 DEF LeakInv, Dangling
  <2>4. cleaner.ptr = fs_pids[cleaner.pid]
    BY <2>1, <2>3 DEF LeakInv
  <2>5. ASSUME NEW o \in Ffp, ffp'[o] # Null
        PROVE  \E t \in Tid : fs_pids'[t] = o /\ (cleaner'.pc = "del" => t # cleaner'.pid)
    <3>1. PICK t \in Tid : fs_pids[t] = o
      BY <2>2, <2>5 DEF LeakInv
    <3> QED
      BY <2>1, <2>2, <2>4, <2>5, <3>1
  <2> QED
    BY <1>1, <2>1, <2>3, <2>5 DEF LeakInv
<1>6. CASE DelPid
  <2>1. /\ cleaner.pc = "del" /\ cleaner'.pc = "visit" /\ UNCHANGED <<ffp, daemon>>
        /\ cleaner.pid \in Tid
    BY <1>1, <1>6 DEF DelPid, Cleans, TypeOK, RoundOK
  <2>2. \A t \in Tid : t # cleaner.pid => fs_pids'[t] = fs_pids[t]
    BY <1>1, <1>6 DEF DelPid, TypeOK
  <2>3. ASSUME NEW o \in Ffp, ffp'[o] # Null
        PROVE  \E t \in Tid : fs_pids'[t] = o /\ (cleaner'.pc = "del" => t # cleaner'.pid)
    <3>1. PICK t \in Tid : fs_pids[t] = o /\ t # cleaner.pid
      BY <2>1, <2>3 DEF LeakInv
    <3> QED
      BY <2>1, <2>2, <3>1
  <2> QED
    BY <1>1, <2>1, <2>3 DEF LeakInv
<1> QED
  BY <1>2, <1>3, <1>4, <1>5, <1>6 DEF pid_clean_fn

LEMMA NextLeak == LivingAssumptions /\ LeakInv /\ [Next]_vars => LeakInv'
PROOF
<1> SUFFICES ASSUME LivingAssumptions, LeakInv, [Next]_vars
             PROVE  LeakInv'
  OBVIOUS
<1>1. LivingInv /\ LivingInv'
  BY NextLiving DEF LeakInv
<1>2. CASE Kernel
  <2>1. UNCHANGED <<fs_pids, ffp, cleaner, daemon>>
    BY <1>2 DEF Kernel, Start, Exit, Close, Release, Use, Open, Request, table
  <2>2. UNCHANGED worker \/ daemon = "mounted"
    BY <1>2 DEF Kernel, Start, Exit, Close, Release, Use, Open, Request
  <2>3. \A w \in Worker : worker'[w].pc # "idle" => daemon' \in {"mounted", "crashed"}
    BY <2>1, <2>2 DEF LeakInv
  <2> QED
    BY <1>1, <2>1, <2>3, NoObjectAppears
<1>3. ASSUME NEW w \in Worker, Serve(w)
      PROVE  LeakInv'
  BY <1>1, <1>3, WorkerLeak
<1>4. CASE pid_clean_fn
  BY <1>1, <1>4, CleanerLeak
<1>5. CASE Unmount
  <2>1. \A o \in Ffp : ffp'[o] = Null
    BY <1>5 DEF Unmount, Freed, LeakInv
  <2>2. UNCHANGED worker /\ daemon' = "freed" /\ \A w \in Worker : worker[w].pc = "idle"
    BY <1>5 DEF Unmount
  <2> QED
    BY <1>1, <2>1, <2>2 DEF LeakInv
<1>6. CASE ExitDaemon
  <2>1. UNCHANGED <<ffp, worker>> /\ daemon = "freed" /\ daemon' = "exited"
    BY <1>6 DEF ExitDaemon
  <2> QED
    BY <1>1, <2>1 DEF LeakInv
<1>7. CASE UNCHANGED vars
  <2>1. UNCHANGED <<fs_pids, ffp, worker, cleaner, daemon>>
    BY <1>7 DEF vars
  <2> QED
    BY <1>1, <2>1, NoObjectAppears DEF LeakInv
<1> QED
  BY <1>2, <1>3, <1>4, <1>5, <1>6, <1>7 DEF Next, free_fs_fh

(* Beside the cleaner, too, the table reaches every object until unmount   *)
(* frees them all.                                                         *)
THEOREM NeverLeaksBesideCleaner ==
  OneWorker /\ (Cleaner => ~ReusePids) => (Spec => []NoLeak)
PROOF
<1> SUFFICES ASSUME OneWorker, Cleaner => ~ReusePids
             PROVE  Spec => []NoLeak
  OBVIOUS
<1>1. LivingAssumptions
  BY HandleAssumption DEF LivingAssumptions
<1>2. Init => LeakInv
  BY InitLiving, HandleAssumption DEF LeakInv, Init, Idle, Asleep
<1>3. LeakInv /\ [Next]_vars => LeakInv'
  BY <1>1, NextLeak
<1>4. LeakInv => NoLeak
  BY DEF LeakInv, NoLeak
<1> QED
  BY <1>2, <1>3, <1>4, PTL DEF Spec

=============================================================================
