------------------------------ MODULE FileData ------------------------------
(***************************************************************************)
(* The contents of one regular file: fs_write, fs_read and truncate of     *)
(* src/src/fs.c on the buffer fs_file.data and the length st_size, and the *)
(* file size the kernel goes by (i_size), which may differ from st_size.   *)
(* The kernel holds the inode's lock around write and truncate, so their   *)
(* handlers are atomic here.  fs_read is one step too: a read that runs    *)
(* beside a write of other pages is not modelled.                          *)
(***************************************************************************)
EXTENDS Integers

CONSTANTS
  Byte,       \* what a client writes
  Garbage,    \* what malloc and realloc leave in new memory, and what is past it
  MaxSize,    \* bound: the largest offset and file length a client asks for
  MaxCount,   \* bound: the most bytes of one request
  Word        \* the modulus of uint64_t, larger than any size

ASSUME DataAssumption ==
  /\ Garbage \notin Byte
  /\ MaxSize \in Nat
  /\ MaxCount \in Nat
  /\ Word \in Nat /\ Word > MaxSize + MaxCount

VARIABLES
  cap,      \* the size malloc or realloc was last asked for; data = NULL is 0
  data,     \* the bytes of the buffer
  st_size,  \* the length in the item's stat
  i_size,   \* the length the kernel believes
  reply     \* what the last handler answered, with the request it answers

vars == <<cap, data, st_size, i_size, reply>>

Cell == Byte \cup {Garbage}

(* Bytes counted from 0, as the buffers of the requests are.               *)
Bytes(S, n) == [0..(n - 1) -> S]

Answer(op, offset, count, ret, out) ==
  reply' = [op |-> op, offset |-> offset, count |-> count, ret |-> ret, bytes |-> out]

-----------------------------------------------------------------------------
Init ==
  /\ cap = 0
  /\ data = <<>>
  /\ st_size = 0
  /\ i_size = 0
  /\ reply = [op |-> "init", offset |-> 0, count |-> 0, ret |-> "OK", bytes |-> <<>>]

(* malloc on the first write, realloc when the write ends past st_size.    *)
(* Neither branch covers a write inside the file, which leaves new_size at *)
(* the count.                                                              *)
NewSize(offset, n) ==
  IF cap # 0 /\ offset + n > st_size THEN offset + n ELSE n

(* Mutant of NewCap: the buffer is never reallocated (line 654 dropped).    *)
FirstCapOnly(offset, n) == IF cap = 0 THEN n ELSE cap

NewCap(offset, n) ==
  IF cap = 0 \/ offset + n > st_size THEN NewSize(offset, n) ELSE cap

(* realloc keeps what fits of the old buffer; the bytes written go in last.*)
Store(offset, b, n) ==
  [i \in 0..(NewCap(offset, n) - 1) |->
     IF offset <= i /\ i < offset + n THEN b[i - offset]
     ELSE IF i < cap THEN data[i] ELSE Garbage]

Put(offset, b, n) ==
  /\ cap' = NewCap(offset, n)
  /\ data' = Store(offset, b, n)
  /\ st_size' = NewSize(offset, n)
  /\ i_size' = IF offset + n > i_size THEN offset + n ELSE i_size
  /\ Answer("write", offset, n, "OK", b)

(* Mutant of fs_write: an offset past the end is accepted (line 645).       *)
WriteAnywhere(offset, b, n) == Put(offset, b, n)

fs_write(offset, b, n) ==
  IF offset > st_size
  THEN Answer("write", offset, n, "ESPIPE", b) /\ UNCHANGED <<cap, data, st_size, i_size>>
  ELSE Put(offset, b, n)

(* Mutant of ReadCount: the count is not cut to what remains (line 673).    *)
ReadAll(offset, n) == n

(* The remaining length is computed in uint64_t.  What lies past the       *)
(* buffer is whatever the heap holds there.                                *)
ReadCount(offset, n) ==
  IF cap = 0 /\ st_size = 0 THEN 0
  ELSE IF n > (st_size - offset) % Word THEN (st_size - offset) % Word ELSE n

fs_read(offset, n) ==
  LET count == ReadCount(offset, n)
  IN  /\ Answer("read", offset, n, "OK",
                [i \in 0..(count - 1) |-> IF offset + i < cap THEN data[offset + i] ELSE Garbage])
      /\ UNCHANGED <<cap, data, st_size, i_size>>

Resize(size, new_size) ==
  /\ st_size' = new_size
  /\ i_size' = size
  /\ Answer("truncate", size, 0, "OK", <<>>)
  /\ UNCHANGED <<cap, data>>

(* Mutant of fs_truncate: the new size is always taken off the old (690).   *)
TruncateBy(size) == Resize(size, st_size - size)

(* Mutant of fs_truncate: a larger size is accepted as well (line 691).     *)
TruncateToAny(size) == Resize(size, size)

(* The kernel never asks for a negative size.                              *)
fs_truncate(size) ==
  IF st_size < size
  THEN Answer("truncate", size, 0, "ESPIPE", <<>>) /\ UNCHANGED <<cap, data, st_size, i_size>>
  ELSE Resize(size, size)

-----------------------------------------------------------------------------
Write ==
  \E offset \in 0..MaxSize, n \in 1..MaxCount :
    /\ offset + n <= MaxSize
    /\ \E b \in Bytes(Byte, n) : fs_write(offset, b, n)

(* The kernel reads below the size it believes in, in requests of any      *)
(* length: it asks for whole pages.                                        *)
Read == \E offset \in 0..MaxSize, n \in 1..MaxCount : offset < i_size /\ fs_read(offset, n)

Truncate == \E size \in 0..MaxSize : fs_truncate(size)

(* The kernel refreshes its idea of the size from getattr.                 *)
Getattr ==
  /\ i_size' = st_size
  /\ Answer("getattr", 0, st_size, "OK", <<>>)
  /\ UNCHANGED <<cap, data, st_size>>

(* libfuse leaves O_TRUNC to the daemon, whose open ignores it; the kernel  *)
(* takes the file for empty.                                               *)
OpenTrunc ==
  /\ i_size' = 0
  /\ Answer("open", 0, 0, "OK", <<>>)
  /\ UNCHANGED <<cap, data, st_size>>

Next == Write \/ Read \/ Truncate \/ Getattr \/ OpenTrunc

Spec == Init /\ [][Next]_vars

-----------------------------------------------------------------------------
TypeOK ==
  /\ cap \in Nat
  /\ data \in Bytes(Cell, cap)
  /\ st_size \in Nat
  /\ i_size \in Nat
  /\ reply.op \in {"init", "write", "read", "truncate", "getattr", "open"}
  /\ reply.ret \in {"OK", "ESPIPE"}

(* The length in stat never exceeds the buffer, whatever mix of writes     *)
(* inside the file, appends and truncations came before: realloc shrinks   *)
(* the buffer to the new length even after a truncation.                   *)
FitsBuffer == st_size <= cap

(* No byte of the file is one nobody wrote ("if offset is not part of the  *)
(* file, the file will end up containing garbage", fs.c:643).              *)
NoGarbage == \A i \in 0..(st_size - 1) : data[i] # Garbage

(* A byte that becomes part of the file was written by that very call: the *)
(* bytes a truncation cut off never come back, although the buffer keeps   *)
(* them.                                                                   *)
NoStaleBytes ==
  [][\A i \in 0..(MaxSize - 1) :
       st_size <= i /\ i < st_size' =>
         reply'.op = "write" /\ reply'.offset <= i /\ i < reply'.offset + reply'.count]_vars

(* tests/test_write.c:28-31 writes and then reads back what it wrote: the  *)
(* bytes of a write that succeeds are part of the file.                    *)
WrittenBytesInFile ==
  [][reply'.op = "write" /\ reply'.ret = "OK" =>
       st_size' >= reply'.offset + reply'.count]_vars

(* tests/test_read.c:25-27: a read gives what remains of the file, and     *)
(* nothing at its end.                                                     *)
ReadsStopAtEnd ==
  [][reply'.op = "read" =>
       \A i \in DOMAIN reply'.bytes : reply'.offset + i < st_size]_vars

=============================================================================
