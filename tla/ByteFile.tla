------------------------------ MODULE ByteFile ------------------------------
(***************************************************************************)
(* What a client expects of a file: a sequence of bytes.  A write puts its *)
(* bytes at its offset and leaves the others alone, a read returns what is *)
(* there, truncation cuts.  Four departures from POSIX are kept.  No       *)
(* operation leaves a hole, it answers ESPIPE.  O_TRUNC is ignored         *)
(* (test_open.c:140 leaves it to be defined).  A write that does not go    *)
(* past the end may cut the file, and a read that starts behind the end    *)
(* may return anything: two findings have runs of their own.               *)
(***************************************************************************)
EXTENDS Integers, Sequences

CONSTANTS Byte, MaxSize, MaxCount

VARIABLES file, reply

vars == <<file, reply>>

Answer(op, offset, count, ret, out) ==
  reply' = [op |-> op, offset |-> offset, count |-> count, ret |-> ret, bytes |-> out]

Larger(m, n) == IF m > n THEN m ELSE n
Smaller(m, n) == IF m < n THEN m ELSE n

Init ==
  /\ file = <<>>
  /\ reply = [op |-> "init", offset |-> 0, count |-> 0, ret |-> "OK", bytes |-> <<>>]

Written(offset, b, n) ==
  [i \in 1..Larger(Len(file), offset + n) |->
     IF offset < i /\ i <= offset + n THEN b[i - offset - 1] ELSE file[i]]

Write(offset, n) ==
  \E b \in [0..(n - 1) -> Byte] :
    \/ /\ offset > Len(file)
       /\ Answer("write", offset, n, "ESPIPE", b)
       /\ UNCHANGED file
    \/ /\ offset <= Len(file)
       /\ Answer("write", offset, n, "OK", b)
       /\ \/ file' = Written(offset, b, n)
          \/ /\ offset + n <= Len(file)
             /\ \E len \in 0..Len(file) : file' = SubSeq(Written(offset, b, n), 1, len)

Read(offset, n) ==
  LET count == Smaller(n, Len(file) - offset)
  IN  /\ \/ /\ offset <= Len(file)
            /\ Answer("read", offset, n, "OK", [i \in 0..(count - 1) |-> file[offset + i + 1]])
         \/ offset > Len(file) /\ reply'.op = "read" /\ reply'.ret = "OK"
      /\ UNCHANGED file

Truncate(size) ==
  IF size > Len(file) THEN Answer("truncate", size, 0, "ESPIPE", <<>>) /\ UNCHANGED file
  ELSE file' = SubSeq(file, 1, size) /\ Answer("truncate", size, 0, "OK", <<>>)

Getattr == Answer("getattr", 0, Len(file), "OK", <<>>) /\ UNCHANGED file

(* Opening a file changes nothing, with O_TRUNC or without.                *)
Open == Answer("open", 0, 0, "OK", <<>>) /\ UNCHANGED file

Next ==
  \/ \E offset \in 0..MaxSize, n \in 1..MaxCount : Write(offset, n) \/ Read(offset, n)
  \/ \E size \in 0..MaxSize : Truncate(size)
  \/ Getattr
  \/ Open

Spec == Init /\ [][Next]_vars

=============================================================================
