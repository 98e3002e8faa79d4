--------------------------- MODULE FileDataProofs ---------------------------
(***************************************************************************)
(* Proofs about FileData for every bound, byte set and word size, and that *)
(* it implements ByteFile.                                                 *)
(***************************************************************************)
EXTENDS FileDataRefinement, Sequences, TLAPS

IInv == TypeOK /\ FitsBuffer /\ NoGarbage

LEMMA InitIInv == Init => IInv
PROOF
<1> QED
  BY DEF Init, IInv, TypeOK, FitsBuffer, NoGarbage, Bytes

(* A write at an offset inside the file or at its end: the bytes below the *)
(* new length are old ones of the file or the ones written.                *)
LEMMA WritePreserves ==
  ASSUME DataAssumption, IInv, NEW offset \in Nat, NEW n \in Nat \ {0},
         NEW b \in Bytes(Byte, n), fs_write(offset, b, n)
  PROVE  IInv'
PROOF
<1>1. CASE offset > st_size
  BY <1>1 DEF fs_write, Put, Answer, IInv, TypeOK, FitsBuffer, NoGarbage
<1>2. CASE offset <= st_size
  <2>1. cap \in Nat /\ st_size \in Nat /\ st_size <= cap /\ data \in [0..(cap - 1) -> Cell]
    BY DEF IInv, TypeOK, FitsBuffer, Bytes
  <2>2. /\ cap' = NewCap(offset, n)
        /\ data' = Store(offset, b, n)
        /\ st_size' = NewSize(offset, n)
        /\ i_size' = IF offset + n > i_size THEN offset + n ELSE i_size
        /\ reply'.op = "write" /\ reply'.ret = "OK"
    BY <1>2, <2>1 DEF fs_write, Put, Answer
  <2>3. /\ st_size' \in Nat /\ cap' \in Nat
        /\ offset + n <= cap'
        /\ st_size' <= cap'
        /\ st_size' = offset + n \/ st_size' <= st_size \/ (cap = 0 /\ st_size' = n /\ offset = 0)
    BY <1>2, <2>1, <2>2 DEF NewCap, NewSize
  <2>4. \A i \in 0..(n - 1) : b[i] \in Byte
    BY DEF Bytes
  <2>5. data' \in [0..(cap' - 1) -> Cell]
    <3>1. \A i \in 0..(cap' - 1) :
            (IF offset <= i /\ i < offset + n THEN b[i - offset]
             ELSE IF i < cap THEN data[i] ELSE Garbage) \in Cell
      BY <2>1, <2>3, <2>4 DEF Cell
    <3> QED
      BY <2>2, <3>1 DEF Store
  <2>6. \A i \in 0..(st_size' - 1) : data'[i] # Garbage
    <3>1. PICK s \in Nat, c \in Nat : s = st_size' /\ c = cap'
      BY <2>3
    <3>2. ASSUME NEW i \in 0..(s - 1)
          PROVE  data'[i] # Garbage
      <4>0. s <= c /\ (s = offset + n \/ s <= st_size \/ (s = n /\ offset = 0))
        BY <2>3, <3>1
      <4>1. i \in 0..(c - 1) /\ (i < offset + n \/ i < st_size)
        <5>1. i \in Nat /\ i < s
          OBVIOUS
        <5>2. i \in 0..(c - 1)
          BY <4>0, <5>1
        <5> QED
          BY <2>1, <4>0, <5>1, <5>2
      <4>2. data'[i] = IF offset <= i /\ i < offset + n THEN b[i - offset]
                       ELSE IF i < cap THEN data[i] ELSE Garbage
        BY <2>2, <3>1, <4>1 DEF Store
      <4>3. CASE offset <= i /\ i < offset + n
        BY <2>4, <4>1, <4>2, <4>3 DEF DataAssumption
      <4>4. CASE ~(offset <= i /\ i < offset + n)
        <5>1. i \in 0..(st_size - 1)
          BY <1>2, <2>1, <3>2, <4>1, <4>4
        <5>2. data[i] # Garbage
          BY <5>1 DEF IInv, NoGarbage
        <5> QED
          BY <2>1, <4>2, <4>4, <5>1, <5>2
      <4> QED
        BY <4>3, <4>4
    <3> QED
      BY <3>1, <3>2
  <2>7. i_size' \in Nat
    BY <2>2 DEF IInv, TypeOK
  <2> QED
    BY <2>2, <2>3, <2>5, <2>6, <2>7 DEF IInv, TypeOK, FitsBuffer, NoGarbage, Bytes
<1> QED
  BY <1>1, <1>2 DEF IInv, TypeOK

LEMMA NextIInv == DataAssumption /\ IInv /\ [Next]_vars => IInv'
PROOF
<1> SUFFICES ASSUME DataAssumption, IInv, [Next]_vars
             PROVE  IInv'
  OBVIOUS
<1>1. CASE Write
  BY <1>1, WritePreserves DEF Write, DataAssumption
<1>2. CASE Read
  BY <1>2 DEF Read, fs_read, Answer, IInv, TypeOK, FitsBuffer, NoGarbage
<1>3. CASE Truncate
  <2>1. PICK size \in 0..MaxSize : fs_truncate(size)
    BY <1>3 DEF Truncate
  <2>2. CASE st_size < size
    BY <2>1, <2>2 DEF fs_truncate, Resize, Answer, IInv, TypeOK, FitsBuffer, NoGarbage
  <2>3. CASE ~(st_size < size)
    <3>1. st_size' = size /\ i_size' = size /\ UNCHANGED <<cap, data>>
          /\ reply'.op = "truncate" /\ reply'.ret = "OK" /\ size \in Nat /\ size <= st_size
      BY <2>1, <2>3 DEF fs_truncate, Resize, Answer, IInv, TypeOK, DataAssumption
    <3>2. st_size' <= cap'
      BY <3>1 DEF IInv, TypeOK, FitsBuffer
    <3>3. \A i \in 0..(st_size' - 1) : data'[i] # Garbage
      BY <3>1 DEF IInv, TypeOK, NoGarbage
    <3> QED
      BY <3>1, <3>2, <3>3 DEF IInv, TypeOK, FitsBuffer, NoGarbage
  <2> QED
    BY <2>2, <2>3
<1>4. CASE Getattr
  BY <1>4 DEF Getattr, Answer, IInv, TypeOK, FitsBuffer, NoGarbage
<1>5. CASE OpenTrunc
  BY <1>5 DEF OpenTrunc, Answer, IInv, TypeOK, FitsBuffer, NoGarbage
<1>6. CASE UNCHANGED vars
  BY <1>6 DEF vars, IInv, TypeOK, FitsBuffer, NoGarbage
<1> QED
  BY <1>1, <1>2, <1>3, <1>4, <1>5, <1>6 DEF Next

THEOREM InductiveInvariant == Spec => []IInv
PROOF
<1> QED
  BY InitIInv, NextIInv, DataAssumption, PTL DEF Spec

(* The file is well typed for every number of bytes and every bound.       *)
THEOREM TypeCorrect == Spec => []TypeOK
PROOF
<1>1. IInv => TypeOK
  BY DEF IInv
<1> QED
  BY <1>1, InductiveInvariant, PTL

(* The length in stat never exceeds the buffer.                            *)
THEOREM AlwaysFits == Spec => []FitsBuffer
PROOF
<1>1. IInv => FitsBuffer
  BY DEF IInv
<1> QED
  BY <1>1, InductiveInvariant, PTL

(* Every byte of the file is one a client wrote.                           *)
THEOREM NeverGarbage == Spec => []NoGarbage
PROOF
<1>1. IInv => NoGarbage
  BY DEF IInv
<1> QED
  BY <1>1, InductiveInvariant, PTL

(* No step makes a byte part of the file that it did not write.            *)
THEOREM NeverStale == Spec => NoStaleBytes
PROOF
<1> DEFINE A == \A i \in 0..(MaxSize - 1) :
                  st_size <= i /\ i < st_size' =>
                    reply'.op = "write" /\ reply'.offset <= i
                      /\ i < reply'.offset + reply'.count
<1>1. ASSUME DataAssumption, IInv, [Next]_vars
      PROVE  [A]_vars
  <2> SUFFICES ASSUME NEW i \in 0..(MaxSize - 1), st_size <= i, i < st_size',
                      vars' # vars
               PROVE  reply'.op = "write" /\ reply'.offset <= i
                        /\ i < reply'.offset + reply'.count
    OBVIOUS
  <2>1. st_size \in Nat /\ cap \in Nat /\ st_size <= cap
    BY <1>1 DEF IInv, TypeOK, FitsBuffer
  <2>2. CASE Write
    <3>1. PICK offset \in 0..MaxSize, n \in 1..MaxCount :
            \E b \in Bytes(Byte, n) : fs_write(offset, b, n)
      BY <2>2 DEF Write
    <3>2. offset \in Nat /\ n \in Nat
      BY <1>1 DEF DataAssumption
    <3>3. offset <= st_size /\ st_size' = NewSize(offset, n)
          /\ reply'.op = "write" /\ reply'.offset = offset /\ reply'.count = n
      BY <2>1, <3>1, <3>2 DEF fs_write, Put, Answer
    <3> QED
      BY <2>1, <3>2, <3>3 DEF NewSize
  <2>3. CASE Read
    BY <2>1, <2>3 DEF Read, fs_read
  <2>4. CASE Truncate
    <3>1. PICK size \in 0..MaxSize : fs_truncate(size)
      BY <2>4 DEF Truncate
    <3>2. st_size' <= st_size
      BY <1>1, <2>1, <3>1 DEF fs_truncate, Resize, DataAssumption
    <3> QED
      BY <1>1, <2>1, <3>1, <3>2 DEF fs_truncate, Resize, DataAssumption
  <2>5. CASE Getattr
    BY <2>1, <2>5 DEF Getattr
  <2>6. CASE OpenTrunc
    BY <2>1, <2>6 DEF OpenTrunc
  <2> QED
    BY <1>1, <2>2, <2>3, <2>4, <2>5, <2>6 DEF Next
<1> QED
  BY <1>1, InductiveInvariant, DataAssumption, PTL DEF Spec, NoStaleBytes

-----------------------------------------------------------------------------
(* The refinement of ByteFile.  The remaining length of a read is a number *)
(* modulo Word, which makes no difference to a length that fits the bound. *)
RInv == IInv /\ st_size <= MaxSize

LEMMA StepRInv == DataAssumption /\ RInv /\ [Next]_vars => RInv'
PROOF
<1> SUFFICES ASSUME DataAssumption, RInv, [Next]_vars
             PROVE  st_size' <= MaxSize
  BY NextIInv DEF RInv
<1>0. st_size \in Nat /\ cap \in Nat /\ st_size <= MaxSize /\ MaxSize \in Nat
  BY DEF RInv, IInv, TypeOK, DataAssumption
<1>1. CASE Write
  <2>1. PICK offset \in 0..MaxSize, n \in 1..MaxCount :
          offset + n <= MaxSize /\ \E b \in Bytes(Byte, n) : fs_write(offset, b, n)
    BY <1>1 DEF Write
  <2>2. offset \in Nat /\ n \in Nat
    BY DEF DataAssumption
  <2>3. st_size' = st_size \/ st_size' = NewSize(offset, n)
    BY <2>1 DEF fs_write, Put
  <2> QED
    BY <1>0, <2>1, <2>2, <2>3 DEF NewSize
<1>2. CASE Truncate
  BY <1>0, <1>2 DEF Truncate, fs_truncate, Resize
<1>3. CASE Read \/ Getattr \/ OpenTrunc \/ UNCHANGED vars
  BY <1>0, <1>3 DEF Read, fs_read, Getattr, OpenTrunc, vars
<1> QED
  BY <1>1, <1>2, <1>3 DEF Next

LEMMA FileIsSeq ==
  ASSUME st_size \in Nat
  PROVE  /\ Len(File) = st_size
         /\ DOMAIN File = 1..st_size
         /\ \A i \in 1..st_size : File[i] = data[i - 1]
PROOF
<1> QED
  BY DEF File

LEMMA WriteRefines ==
  ASSUME DataAssumption, RInv, NEW offset \in 0..MaxSize, NEW n \in 1..MaxCount,
         NEW b \in Bytes(Byte, n), fs_write(offset, b, n)
  PROVE  Abstract!Write(offset, n)
PROOF
<1>0. /\ st_size \in Nat /\ cap \in Nat /\ st_size <= cap /\ offset \in Nat
      /\ n \in Nat \ {0} /\ b \in [0..(n - 1) -> Byte]
  BY DEF RInv, IInv, TypeOK, FitsBuffer, Bytes, DataAssumption
<1>1. Len(File) = st_size /\ \A i \in 1..st_size : File[i] = data[i - 1]
  BY <1>0, FileIsSeq
<1>2. CASE offset > st_size
  <2>1. UNCHANGED File
    BY <1>2, <1>0 DEF fs_write, File
  <2>2. Abstract!Answer("write", offset, n, "ESPIPE", b)
    BY <1>2, <1>0 DEF fs_write, Answer, Abstract!Answer
  <2> QED
    BY <1>0, <1>1, <1>2, <2>1, <2>2 DEF Abstract!Write
<1>3. CASE offset <= st_size
  <2>1. /\ cap' = NewCap(offset, n)
        /\ data' = Store(offset, b, n)
        /\ st_size' = NewSize(offset, n)
        /\ Abstract!Answer("write", offset, n, "OK", b)
    BY <1>0, <1>3 DEF fs_write, Put, Answer, Abstract!Answer
  <2>2. PICK s \in Nat : s = st_size' /\ s <= NewCap(offset, n)
    BY <1>0, <1>3, <2>1 DEF NewSize, NewCap
  <2>3. File' = [i \in 1..s |-> data'[i - 1]]
    BY <2>2 DEF File
  <2>4. s <= Abstract!Larger(st_size, offset + n)
    BY <1>0, <1>3, <2>1, <2>2 DEF NewSize, Abstract!Larger
  <2>5. \A i \in 1..s : data'[i - 1] = Abstract!Written(offset, b, n)[i]
    <3> SUFFICES ASSUME NEW i \in 1..s
                 PROVE  data'[i - 1] = Abstract!Written(offset, b, n)[i]
      OBVIOUS
    <3>1. /\ i \in 1..Abstract!Larger(Len(File), offset + n)
          /\ i - 1 \in 0..(NewCap(offset, n) - 1)
      BY <1>0, <1>1, <2>2, <2>4 DEF NewCap, NewSize, Abstract!Larger
    <3>2. data'[i - 1] = IF offset <= i - 1 /\ i - 1 < offset + n THEN b[(i - 1) - offset]
                         ELSE IF i - 1 < cap THEN data[i - 1] ELSE Garbage
      BY <2>1, <3>1 DEF Store
    <3>3. Abstract!Written(offset, b, n)[i]
            = IF offset < i /\ i <= offset + n THEN b[i - offset - 1] ELSE File[i]
      BY <3>1 DEF Abstract!Written
    <3>4. CASE offset < i /\ i <= offset + n
      <4>1. (i - 1) - offset = i - offset - 1 /\ offset <= i - 1 /\ i - 1 < offset + n
        BY <1>0, <3>4
      <4> QED
        BY <3>2, <3>3, <3>4, <4>1
    <3>5. CASE ~(offset < i /\ i <= offset + n)
      <4>1. i \in 1..st_size /\ i - 1 < cap /\ ~(offset <= i - 1 /\ i - 1 < offset + n)
        BY <1>0, <1>3, <2>1, <2>2, <3>5 DEF NewSize
      <4> QED
        BY <1>1, <3>2, <3>3, <3>5, <4>1
    <3> QED
      BY <3>4, <3>5
  <2>6. CASE offset + n > st_size
    <3>1. s = Abstract!Larger(Len(File), offset + n)
      BY <1>0, <1>1, <1>3, <2>1, <2>2, <2>6 DEF NewSize, Abstract!Larger
    <3>2. File' = Abstract!Written(offset, b, n)
      BY <2>3, <2>5, <3>1 DEF Abstract!Written
    <3> QED
      BY <1>0, <1>1, <1>3, <2>1, <3>2 DEF Abstract!Write
  <2>7. CASE offset + n <= st_size
    <3>1. s = n /\ s \in 0..Len(File)
      BY <1>0, <1>1, <1>3, <2>1, <2>2, <2>7 DEF NewSize
    <3>2. SubSeq(Abstract!Written(offset, b, n), 1, s)
            = [i \in 1..s |-> Abstract!Written(offset, b, n)[i]]
      <4>1. PICK m \in Nat : m = Abstract!Larger(Len(File), offset + n)
        BY <1>0, <1>1 DEF Abstract!Larger
      <4>2. s <= m
        BY <1>1, <2>4, <4>1
      <4> QED
        BY <2>2, <4>1, <4>2 DEF Abstract!Written
    <3>3. File' = SubSeq(Abstract!Written(offset, b, n), 1, s)
      BY <2>3, <2>5, <3>2
    <3> QED
      BY <1>0, <1>1, <1>3, <2>1, <2>7, <3>1, <3>3 DEF Abstract!Write
  <2> QED
    BY <1>0, <2>6, <2>7
<1> QED
  BY <1>0, <1>2, <1>3

LEMMA ReadRefines ==
  ASSUME DataAssumption, RInv, NEW offset \in 0..MaxSize, NEW n \in 1..MaxCount,
         fs_read(offset, n)
  PROVE  Abstract!Read(offset, n)
PROOF
<1>0. /\ st_size \in Nat /\ cap \in Nat /\ st_size <= cap /\ offset \in Nat
      /\ n \in Nat \ {0} /\ st_size <= MaxSize /\ Word \in Nat /\ Word > MaxSize
  BY DEF RInv, IInv, TypeOK, FitsBuffer, DataAssumption
<1>1. Len(File) = st_size /\ \A i \in 1..st_size : File[i] = data[i - 1]
  BY <1>0, FileIsSeq
<1>2. UNCHANGED File
  BY DEF fs_read, File
<1>3. CASE offset > st_size
  <2>1. reply'.op = "read" /\ reply'.ret = "OK"
    BY DEF fs_read, Answer
  <2> QED
    BY <1>1, <1>2, <1>3, <2>1 DEF Abstract!Read
<1>4. CASE offset <= st_size
  <2>1. (st_size - offset) % Word = st_size - offset
    BY <1>0, <1>4
  <2>2. PICK c \in Nat : c = ReadCount(offset, n) /\ c = Abstract!Smaller(n, Len(File) - offset)
    BY <1>0, <1>1, <1>4, <2>1 DEF ReadCount, Abstract!Smaller
  <2>3. c <= st_size - offset
    BY <1>0, <1>1, <1>4, <2>2 DEF Abstract!Smaller
  <2>4. ASSUME NEW i \in 0..(c - 1)
        PROVE  (IF offset + i < cap THEN data[offset + i] ELSE Garbage) = File[offset + i + 1]
    <3>1. /\ offset + i < cap /\ offset + i + 1 \in 1..st_size
          /\ (offset + i + 1) - 1 = offset + i
      BY <1>0, <2>3
    <3>2. File[offset + i + 1] = data[(offset + i + 1) - 1]
      BY <1>1, <3>1
    <3> QED
      BY <3>1, <3>2
  <2>5. [i \in 0..(c - 1) |-> IF offset + i < cap THEN data[offset + i] ELSE Garbage]
          = [i \in 0..(c - 1) |-> File[offset + i + 1]]
    BY <2>4
  <2>6. Abstract!Answer("read", offset, n, "OK", [i \in 0..(c - 1) |-> File[offset + i + 1]])
    BY <2>2, <2>5 DEF fs_read, Answer, Abstract!Answer
  <2> QED
    BY <1>1, <1>2, <1>4, <2>2, <2>6 DEF Abstract!Read
<1> QED
  BY <1>0, <1>3, <1>4

LEMMA TruncateRefines ==
  ASSUME DataAssumption, RInv, NEW size \in 0..MaxSize, fs_truncate(size)
  PROVE  Abstract!Truncate(size)
PROOF
<1>0. st_size \in Nat /\ size \in Nat /\ Len(File) = st_size
  BY FileIsSeq DEF RInv, IInv, TypeOK, DataAssumption
<1>1. CASE size > st_size
  <2>1. UNCHANGED File /\ Abstract!Answer("truncate", size, 0, "ESPIPE", <<>>)
    BY <1>0, <1>1 DEF fs_truncate, File, Answer, Abstract!Answer
  <2> QED
    BY <1>0, <1>1, <2>1 DEF Abstract!Truncate
<1>2. CASE size <= st_size
  <2>1. /\ st_size' = size /\ UNCHANGED data
        /\ Abstract!Answer("truncate", size, 0, "OK", <<>>)
    BY <1>0, <1>2 DEF fs_truncate, Resize, Answer, Abstract!Answer
  <2>2. File' = [i \in 1..size |-> data[i - 1]]
    BY <2>1 DEF File
  <2>3. SubSeq(File, 1, size) = [i \in 1..size |-> data[i - 1]]
    BY <1>0, <1>2 DEF File
  <2> QED
    BY <1>0, <1>2, <2>1, <2>2, <2>3 DEF Abstract!Truncate
<1> QED
  BY <1>0, <1>1, <1>2

LEMMA StepRefines == DataAssumption /\ RInv /\ [Next]_vars => [Abstract!Next]_(Abstract!vars)
PROOF
<1> SUFFICES ASSUME DataAssumption, RInv, [Next]_vars
             PROVE  Abstract!Next \/ UNCHANGED Abstract!vars
  OBVIOUS
<1>0. st_size \in Nat /\ Len(File) = st_size
  BY FileIsSeq DEF RInv, IInv, TypeOK
<1>1. CASE Write
  BY <1>1, WriteRefines DEF Write, Abstract!Next
<1>2. CASE Read
  BY <1>2, ReadRefines DEF Read, Abstract!Next
<1>3. CASE Truncate
  BY <1>3, TruncateRefines DEF Truncate, Abstract!Next
<1>4. CASE Getattr
  <2>1. UNCHANGED File /\ Abstract!Answer("getattr", 0, Len(File), "OK", <<>>)
    BY <1>0, <1>4 DEF Getattr, Answer, Abstract!Answer, File
  <2> QED
    BY <2>1 DEF Abstract!Next, Abstract!Getattr
<1>5. CASE OpenTrunc
  <2>1. UNCHANGED File /\ Abstract!Answer("open", 0, 0, "OK", <<>>)
    BY <1>5 DEF OpenTrunc, Answer, Abstract!Answer, File
  <2> QED
    BY <2>1 DEF Abstract!Next, Abstract!Open
<1>6. CASE UNCHANGED vars
  BY <1>6 DEF vars, Abstract!vars, File
<1> QED
  BY <1>1, <1>2, <1>3, <1>4, <1>5, <1>6 DEF Next

(* Clients see a sequence of bytes: what ByteFile says of each call holds  *)
(* of fs_write, fs_read and fs_truncate on the buffer, for every sequence  *)
(* of calls.                                                               *)
THEOREM FileImplementsByteFile == Spec => ImplementsByteFile
PROOF
<1>1. Init => RInv /\ Abstract!Init
  <2> SUFFICES ASSUME Init
               PROVE  RInv /\ Abstract!Init
    OBVIOUS
  <2>1. RInv
    BY InitIInv, DataAssumption DEF RInv, Init, DataAssumption
  <2>2. File = <<>>
    BY DEF Init, File
  <2> QED
    BY <2>1, <2>2 DEF Init, Abstract!Init
<1> QED
  BY <1>1, StepRInv, StepRefines, DataAssumption, PTL DEF Spec, ImplementsByteFile, Abstract!Spec

=============================================================================
