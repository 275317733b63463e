------------------------ MODULE ExternalBufferProofs ------------------------
(***************************************************************************)
(* Proofs about ExternalBuffer, for any sizes, headers and data.           *)
(***************************************************************************)
EXTENDS ExternalBuffer, SequenceTheorems, TLAPS

-----------------------------------------------------------------------------
(* The inductive invariant *)

InCall == pc \in {"grow", "copy"}

(* Where the cursor is once the write that is under way is done. *)
Target == IF InCall THEN current + Len(buf) ELSE current

BufferInv ==
    /\ len = Len(data)
    /\ current <= high /\ high <= len
    /\ buffer_count <= len
    /\ InCall => buf \in Chunk
    /\ pc = "grow" => \/ new_size = 0 /\ remaining_space < Len(buf)
                      \/ new_size = NewSize /\ remaining_space = new_size - current
    /\ pc = "copy" => current + Len(buf) <= len

(***************************************************************************)
(* The writer: apart from the rewriting of a header, it is always at the   *)
(* end of what is written; and a header lies before the end of its file.   *)
(***************************************************************************)
WriterInv ==
    pc \in {"ready", "grow", "copy"} =>
        /\ phase \in {"npy", "archive", "data", "finished"} => current = high
        /\ phase = "data" => header_start + Len(FinalHeader) <= Target
        /\ phase = "header" =>
              /\ current = header_start /\ pc = "ready"
              /\ header_start + Len(FinalHeader) <= high /\ file_end = high
        /\ phase = "updated" =>
              /\ Target = header_start + Len(FinalHeader)
              /\ Target <= high /\ file_end = high

BInv == TypeOK /\ BufferInv /\ WriterInv

-----------------------------------------------------------------------------
(* What the writers write are bytes. *)
LEMMA ChunkType == \A b \in Chunk : b \in Seq(Byte) /\ Len(b) \in Nat
    BY ChunkAssumption DEF Chunk

(* The invariant holds for any starting buffer of the caller. *)
LEMMA InitBInv == Init => BInv
<1> SUFFICES ASSUME Init PROVE BInv
    OBVIOUS
<1>1. PICK n \in StartSizes : data = [k \in 1..n |-> 0] /\ len = n /\ buffer_count = n
    BY DEF Init
<1>2. n \in Nat
    BY SizeAssumption
<1>3. data \in Seq(Byte) /\ Len(data) = n
    BY <1>1, <1>2, ByteAssumption
<1>4. TypeOK
    BY <1>1, <1>2, <1>3 DEF Init, TypeOK
<1>5. BufferInv
    BY <1>1, <1>2, <1>3 DEF Init, BufferInv, InCall
<1>6. WriterInv
    BY DEF Init, WriterInv
<1> QED BY <1>4, <1>5, <1>6 DEF BInv

(* Entering write keeps what is known of the buffer, for any chunk. *)
LEMMA CallWriteKeeps ==
    ASSUME BInv, NEW b \in Chunk, CallWrite(b)
    PROVE  /\ BufferInv'
           /\ buf' \in Seq(Byte) /\ new_size' \in Nat /\ remaining_space' \in Int
           /\ pc' \in {"grow", "copy"} /\ pc = "ready"
           /\ UNCHANGED <<data, len, current, high, buffer_count>>
           /\ Target' = current + Len(b)
<1>1. b \in Seq(Byte) /\ Len(b) \in Nat
    BY ChunkType
<1>2. /\ UNCHANGED <<data, len, current, high, buffer_count>> /\ pc = "ready"
      /\ buf' = b /\ new_size' = 0 /\ remaining_space' = len - current
      /\ pc' = IF len - current < Len(b) THEN "grow" ELSE "copy"
    BY DEF CallWrite, buffer, RemainingSpace
<1>3. len \in Nat /\ current \in Nat
    BY DEF BInv, TypeOK
<1>4. BufferInv'
    BY <1>1, <1>2, <1>3 DEF BInv, BufferInv, InCall
<1> QED BY <1>1, <1>2, <1>3, <1>4 DEF Target, InCall

(* A larger allocation has room for all of the old one. *)
LEMMA NewSizeGrows ==
    ASSUME TypeOK
    PROVE  NewSize \in Nat /\ NewSize >= len
    BY SizeAssumption DEF TypeOK, NewSize

(* realloc gives a buffer of the new size that starts with the old bytes. *)
LEMMA ReallocKeepsBytes ==
    ASSUME NEW d \in Seq(Byte), NEW n \in Nat, n >= Len(d)
    PROVE  /\ realloc(d, n) \in Seq(Byte) /\ Len(realloc(d, n)) = n
           /\ \A k \in 1..Len(d) : realloc(d, n)[k] = d[k]
    BY ByteAssumption DEF realloc

(* A copy into the buffer changes bytes of it and not its size. *)
LEMMA CopyIntoKeepsLength ==
    ASSUME NEW d \in Seq(Byte), NEW p \in Nat, NEW b \in Seq(Byte), p + Len(b) <= Len(d)
    PROVE  /\ CopyInto(d, p, b) \in Seq(Byte)
           /\ Len(CopyInto(d, p, b)) = Len(d)
           /\ \A k \in 1..Len(d) : CopyInto(d, p, b)[k] =
                  IF k > p /\ k <= p + Len(b) THEN b[k - p] ELSE d[k]
<1>1. \A k \in 1..Len(d) : k > p /\ k <= p + Len(b) => k - p \in 1..Len(b)
    OBVIOUS
<1>2. CopyInto(d, p, b) \in [1..Len(d) -> Byte]
    BY <1>1 DEF CopyInto
<1>3. CopyInto(d, p, b) \in Seq(Byte) /\ Len(CopyInto(d, p, b)) = Len(d)
    BY <1>2
<1> QED BY <1>3 DEF CopyInto

(* Every step of write, seek and of the writers preserves the invariant. *)
LEMMA NextBInv == BInv /\ [Next]_vars => BInv'
<1> SUFFICES ASSUME BInv, [Next]_vars PROVE BInv'
    OBVIOUS
<1> USE DEF BInv
<1>1. /\ data \in Seq(Byte) /\ len \in Nat /\ current \in Nat /\ high \in Nat
      /\ len = Len(data) /\ current <= high /\ high <= len /\ buffer_count <= len
      /\ buffer_count \in Nat /\ header_start \in Nat /\ file_end \in Nat
    BY DEF TypeOK, BufferInv
<1>2. /\ LocalHeader \in Chunk /\ FinalHeader \in Chunk /\ Directory \in Chunk
      /\ DataChunks \subseteq Chunk
      /\ Len(LocalHeader) = Len(FinalHeader) /\ Len(FinalHeader) \in Nat
    BY ChunkAssumption DEF Chunk
<1>3. CASE Grow
    <2>1. NewSize \in Nat
        BY NewSizeGrows
    <2>2. /\ UNCHANGED <<data, len, current, high, buf, pc, buffer_count, phase,
                         header_start, file_end, n_writes>>
          /\ new_size' = NewSize /\ remaining_space' = NewSize - current
          /\ pc = "grow" /\ NewSize' = NewSize
        BY <1>3 DEF Grow, buffer, writer, RemainingSpace, NewSize
    <2>3. TypeOK'
        BY <2>1, <2>2, <1>1 DEF TypeOK
    <2>4. BufferInv'
        BY <2>1, <2>2, <1>1 DEF BufferInv, InCall
    <2>5. WriterInv'
        BY <2>2 DEF WriterInv, Target, InCall
    <2> QED BY <2>3, <2>4, <2>5
<1>4. CASE Reallocate
    <2>1. /\ pc = "grow" /\ remaining_space >= Len(buf) /\ buf \in Chunk
          /\ new_size = NewSize /\ remaining_space = new_size - current
        <3>1. Len(buf) \in Nat /\ remaining_space \in Int
            BY DEF TypeOK
        <3> QED BY <1>4, <3>1 DEF Reallocate, BufferInv, InCall
    <2>2. NewSize \in Nat /\ NewSize >= len
        BY NewSizeGrows
    <2>3. /\ UNCHANGED <<current, high, buf, new_size, remaining_space, buffer_count,
                         phase, header_start, file_end, n_writes>>
          /\ data' = realloc(data, new_size) /\ len' = new_size /\ pc' = "copy"
        BY <1>4 DEF Reallocate, locals, writer
    <2>4. data' \in Seq(Byte) /\ Len(data') = new_size
        BY <2>1, <2>2, <2>3, <1>1, ReallocKeepsBytes
    <2>5. TypeOK'
        BY <2>1, <2>2, <2>3, <2>4 DEF TypeOK
    <2>6. BufferInv'
        <3>1. Len(buf) \in Nat
            BY DEF TypeOK
        <3> QED BY <2>1, <2>2, <2>3, <2>4, <3>1, <1>1 DEF BufferInv, InCall
    <2>7. WriterInv'
        BY <2>1, <2>3 DEF WriterInv, Target, InCall
    <2> QED BY <2>5, <2>6, <2>7
<1>5. CASE ReallocFails
    <2>1. /\ UNCHANGED <<data, len, current, high, buf, new_size, remaining_space,
                         buffer_count, phase, header_start, file_end, n_writes>>
          /\ pc' = "failed"
        BY <1>5 DEF ReallocFails, buffer, locals, writer
    <2> QED BY <2>1, <1>1 DEF TypeOK, BufferInv, WriterInv, InCall
<1>6. CASE Copy
    <2>1. /\ pc = "copy" /\ pc' = "ready" /\ data' = CopyInto(data, current, buf)
          /\ current' = current + Len(buf)
          /\ high' = IF current + Len(buf) > high THEN current + Len(buf) ELSE high
          /\ UNCHANGED <<len, buf, new_size, remaining_space, buffer_count,
                         phase, header_start, file_end, n_writes>>
        BY <1>6 DEF Copy, locals, writer
    <2>2. buf \in Seq(Byte) /\ Len(buf) \in Nat /\ current + Len(buf) <= len
        BY <2>1 DEF TypeOK, BufferInv
    <2>3. data' \in Seq(Byte) /\ Len(data') = Len(data)
        BY <2>1, <2>2, <1>1, CopyIntoKeepsLength
    <2>4. TypeOK'
        BY <2>1, <2>2, <2>3, <1>1 DEF TypeOK
    <2>5. BufferInv'
        BY <2>1, <2>2, <2>3, <1>1 DEF BufferInv, InCall
    <2>6. WriterInv'
        BY <2>1, <2>2, <1>1 DEF WriterInv, Target, InCall
    <2> QED BY <2>4, <2>5, <2>6
<1>7. CASE WriteData
    <2>1. PICK b \in DataChunks : CallWrite(b)
        BY <1>7 DEF WriteData
    <2>2. /\ phase \in {"npy", "data"} /\ n_writes' = n_writes + 1
          /\ UNCHANGED <<phase, header_start, file_end>>
        BY <1>7 DEF WriteData
    <2>3. b \in Chunk /\ Len(b) \in Nat
        BY <2>1, <1>2, ChunkType
    <2>4. TypeOK' /\ BufferInv'
        BY <2>1, <2>2, <2>3, CallWriteKeeps DEF TypeOK
    <2>5. /\ UNCHANGED <<current, high>> /\ Target' = current + Len(b)
          /\ pc = "ready" /\ pc' \in {"grow", "copy"}
        BY <2>1, <2>3, CallWriteKeeps
    <2>6. WriterInv'
        BY <2>2, <2>3, <2>5, <1>1, <1>2 DEF WriterInv, Target, InCall
    <2> QED BY <2>4, <2>6
<1>8. CASE StartFile
    <2>1. /\ CallWrite(LocalHeader) /\ phase = "archive" /\ phase' = "data"
          /\ header_start' = current /\ n_writes' = n_writes + 1 /\ UNCHANGED file_end
        BY <1>8 DEF StartFile, HeaderStart
    <2>2. TypeOK' /\ BufferInv'
        BY <2>1, <1>1, <1>2, CallWriteKeeps DEF TypeOK
    <2>3. /\ UNCHANGED <<current, high>> /\ Target' = current + Len(LocalHeader)
          /\ pc = "ready" /\ pc' \in {"grow", "copy"}
        BY <2>1, <1>2, CallWriteKeeps
    <2>4. WriterInv'
        BY <2>1, <2>3, <1>1, <1>2 DEF WriterInv
    <2> QED BY <2>2, <2>4
<1>9. CASE UpdateHeader
    <2>1. /\ CallWrite(FinalHeader) /\ phase = "header" /\ phase' = "updated"
          /\ UNCHANGED <<header_start, file_end, n_writes>>
        BY <1>9 DEF UpdateHeader
    <2>2. TypeOK' /\ BufferInv'
        BY <2>1, <1>1, <1>2, CallWriteKeeps DEF TypeOK
    <2>3. /\ UNCHANGED <<current, high>> /\ Target' = current + Len(FinalHeader)
          /\ pc = "ready" /\ pc' \in {"grow", "copy"}
        BY <2>1, <1>2, CallWriteKeeps
    <2>4. WriterInv'
        BY <2>1, <2>3, <1>1, <1>2 DEF WriterInv
    <2> QED BY <2>2, <2>4
<1>10. CASE FinishArchive
    <2>1. /\ CallWrite(Directory) /\ phase = "archive" /\ phase' = "finished"
          /\ UNCHANGED <<header_start, file_end, n_writes>>
        BY <1>10 DEF FinishArchive
    <2>2. TypeOK' /\ BufferInv'
        BY <2>1, <1>1, <1>2, CallWriteKeeps DEF TypeOK
    <2>3. /\ UNCHANGED <<current, high>> /\ pc = "ready" /\ pc' \in {"grow", "copy"}
        BY <2>1, <1>2, CallWriteKeeps
    <2>4. WriterInv'
        BY <2>1, <2>3 DEF WriterInv
    <2> QED BY <2>2, <2>4
<1>11. CASE FinishFile
    <2>1. /\ SeekStart(header_start) /\ phase = "data" /\ phase' = "header"
          /\ file_end' = current /\ UNCHANGED <<header_start, n_writes>>
        BY <1>11 DEF FinishFile
    <2>2. /\ pc = "ready" /\ current = high
          /\ header_start + Len(FinalHeader) <= current
        BY <2>1 DEF SeekStart, WriterInv, Target, InCall
    <2>3. header_start <= len
        BY <2>2, <1>1, <1>2
    <2>4. /\ current' = header_start /\ pc' = "ready"
          /\ UNCHANGED <<data, len, high, buf, new_size, remaining_space, buffer_count>>
        BY <2>1, <2>3, <1>1 DEF SeekStart, locals
    <2>5. TypeOK'
        BY <2>1, <2>4, <1>1 DEF TypeOK
    <2>6. BufferInv'
        BY <2>2, <2>4, <1>1, <1>2 DEF BufferInv, InCall
    <2>7. WriterInv'
        BY <2>1, <2>2, <2>4, <1>1 DEF WriterInv
    <2> QED BY <2>5, <2>6, <2>7
<1>12. CASE BackToEnd
    <2>1. /\ SeekStart(file_end) /\ phase = "updated" /\ phase' = "archive"
          /\ UNCHANGED <<header_start, file_end, n_writes>>
        BY <1>12 DEF BackToEnd, EndOfFile
    <2>2. pc = "ready" /\ file_end = high
        BY <2>1 DEF SeekStart, WriterInv
    <2>3. /\ current' = high /\ pc' = "ready"
          /\ UNCHANGED <<data, len, high, buf, new_size, remaining_space, buffer_count>>
        BY <2>1, <2>2, <1>1 DEF SeekStart, locals
    <2>4. TypeOK'
        BY <2>1, <2>3, <1>1 DEF TypeOK
    <2>5. BufferInv'
        BY <2>2, <2>3, <1>1 DEF BufferInv, InCall
    <2>6. WriterInv'
        BY <2>1, <2>3 DEF WriterInv
    <2> QED BY <2>4, <2>5, <2>6
<1>13. CASE Return
    <2>1. /\ UNCHANGED <<data, len, current, high, buf, new_size, remaining_space,
                         phase, header_start, file_end, n_writes>>
          /\ pc' = "closed" /\ buffer_count' = current
        BY <1>13 DEF Return, buffer, locals, writer, Written
    <2> QED BY <2>1, <1>1 DEF TypeOK, BufferInv, WriterInv, InCall
<1>14. CASE UNCHANGED vars
    <2>1. UNCHANGED <<data, len, current, high, buf, new_size, remaining_space, pc,
                      buffer_count, phase, header_start, file_end, n_writes>>
        BY <1>14 DEF vars, buffer, locals, writer
    <2> QED BY <2>1 DEF TypeOK, BufferInv, WriterInv, InCall, Target, NewSize
<1> QED
    BY <1>3, <1>4, <1>5, <1>6, <1>7, <1>8, <1>9, <1>10, <1>11, <1>12, <1>13, <1>14
       DEF Next, WriteNext, WriterNext, Done

(* The buffer, the cursor and the locals of write stay well typed. *)
THEOREM TypeCorrect == Spec => []TypeOK
<1>1. BInv => TypeOK
    BY DEF BInv
<1> QED BY <1>1, InitBInv, NextBInv, PTL DEF Spec

(***************************************************************************)
(* ExternalBuffer::write never copies outside of the allocation and the    *)
(* cursor never passes its end, for any buffer the caller starts with and  *)
(* any sizes of headers and data.                                          *)
(***************************************************************************)
THEOREM BufferIsSafe == Spec => []WritesInBounds
<1>1. BInv => WritesInBounds
    BY DEF BInv, TypeOK, BufferInv, WritesInBounds
<1> QED BY <1>1, InitBInv, NextBInv, PTL DEF Spec

(* *buffer_count never exceeds the allocation, also after a failure. *)
THEOREM CountIsSafe == Spec => []CountIsAllocated
<1>1. BInv => CountIsAllocated
    BY DEF BInv, BufferInv, CountIsAllocated
<1> QED BY <1>1, InitBInv, NextBInv, PTL DEF Spec

-----------------------------------------------------------------------------
(* ExternalBuffer implements ByteStream *)

(* The bytes below n of a sequence, when n is within it. *)
LEMMA PrefixFacts ==
    ASSUME NEW d \in Seq(Byte), NEW n \in 0..Len(d)
    PROVE  /\ SubSeq(d, 1, n) = [k \in 1..n |-> d[k]]
           /\ Len(SubSeq(d, 1, n)) = n
    OBVIOUS

(* A larger allocation has the same written bytes. *)
LEMMA ReallocKeepsFile ==
    ASSUME NEW d \in Seq(Byte), NEW n \in Nat, n >= Len(d), NEW h \in 0..Len(d)
    PROVE  SubSeq(realloc(d, n), 1, h) = SubSeq(d, 1, h)
<1>1. /\ realloc(d, n) \in Seq(Byte) /\ Len(realloc(d, n)) = n
      /\ \A k \in 1..Len(d) : realloc(d, n)[k] = d[k]
    BY ReallocKeepsBytes
<1>2. h \in 0..Len(realloc(d, n))
    BY <1>1
<1>3. /\ SubSeq(realloc(d, n), 1, h) = [k \in 1..h |-> realloc(d, n)[k]]
      /\ SubSeq(d, 1, h) = [k \in 1..h |-> d[k]]
    BY <1>1, <1>2, PrefixFacts
<1>4. \A k \in 1..h : realloc(d, n)[k] = d[k]
    BY <1>1
<1> QED BY <1>3, <1>4

(* A copy into the allocation is a write to the file. *)
LEMMA CopyIsWrite ==
    ASSUME NEW d \in Seq(Byte), NEW h \in 0..Len(d), NEW p \in 0..h,
           NEW b \in Seq(Byte), p + Len(b) <= Len(d)
    PROVE  LET g == IF p + Len(b) > h THEN p + Len(b) ELSE h
           IN  SubSeq(CopyInto(d, p, b), 1, g) = Stream!Overwrite(SubSeq(d, 1, h), p, b)
<1> DEFINE g == IF p + Len(b) > h THEN p + Len(b) ELSE h
           c == CopyInto(d, p, b)
           f == SubSeq(d, 1, h)
<1>1. Len(d) \in Nat /\ Len(b) \in Nat /\ h \in Nat /\ p \in Nat /\ p <= h /\ h <= Len(d)
    OBVIOUS
<1>2. /\ c \in Seq(Byte) /\ Len(c) = Len(d)
      /\ \A k \in 1..Len(d) : c[k] = IF k > p /\ k <= p + Len(b) THEN b[k - p] ELSE d[k]
    BY <1>1, CopyIntoKeepsLength
<1>3. f = [k \in 1..h |-> d[k]] /\ Len(f) = h
    BY PrefixFacts
<1>4. g \in 0..Len(c)
    BY <1>1, <1>2
<1>5. SubSeq(c, 1, g) = [k \in 1..g |-> c[k]]
    <2> HIDE DEF c, g
    <2> QED BY <1>2, <1>4, PrefixFacts
<1>6. Stream!Overwrite(f, p, b)
        = [k \in 1..g |-> IF k > p /\ k <= p + Len(b) THEN b[k - p] ELSE f[k]]
    BY <1>3 DEF Stream!Overwrite
<1>7. ASSUME NEW k \in 1..g
      PROVE  c[k] = IF k > p /\ k <= p + Len(b) THEN b[k - p] ELSE f[k]
    <2>1. k \in 1..Len(d)
        BY <1>1
    <2>2. CASE k > p /\ k <= p + Len(b)
        BY <2>1, <2>2, <1>2
    <2>3. CASE ~(k > p /\ k <= p + Len(b))
        <3>1. k \in 1..h
            BY <2>3, <1>1
        <3> QED BY <2>1, <2>3, <3>1, <1>2, <1>3
    <2> QED BY <2>2, <2>3
<1> HIDE DEF c, f, g
<1>8. SubSeq(c, 1, g) = Stream!Overwrite(f, p, b)
    BY <1>5, <1>6, <1>7
<1> QED BY <1>8 DEF c, f, g

(* An ExternalBuffer that was just made is an empty file. *)
LEMMA InitStream == Init => Stream!Init
<1> SUFFICES ASSUME Init PROVE Stream!Init
    OBVIOUS
<1>1. BInv
    BY InitBInv
<1>2. SubSeq(data, 1, 0) = <<>>
    BY <1>1 DEF BInv, TypeOK
<1> QED BY <1>1, <1>2 DEF Init, Stream!Init, status, BInv, TypeOK

(* A step on the buffer is a step on the file, or changes nothing there. *)
LEMMA NextStream == BInv /\ [Next]_vars => [Stream!Next]_(Stream!vars)
<1> SUFFICES ASSUME BInv, [Next]_vars PROVE [Stream!Next]_(Stream!vars)
    OBVIOUS
<1>1. /\ data \in Seq(Byte) /\ len \in Nat /\ current \in Nat /\ high \in Nat
      /\ len = Len(data) /\ current <= high /\ high <= len
      /\ high \in 0..Len(data) /\ current \in 0..high
      /\ Len(SubSeq(data, 1, high)) = high
    BY PrefixFacts DEF BInv, TypeOK, BufferInv
<1>2. ASSUME NEW b, CallWrite(b)
      PROVE  UNCHANGED Stream!vars
    BY <1>2 DEF CallWrite, buffer, Stream!vars, status
<1>3. CASE Grow
    BY <1>3 DEF Grow, buffer, Stream!vars, status
<1>4. CASE Reallocate
    <2>1. /\ pc = "grow" /\ new_size = NewSize
        <3>1. Len(buf) \in Nat /\ remaining_space \in Int
            BY DEF BInv, TypeOK
        <3> QED BY <1>4, <3>1 DEF Reallocate, BInv, BufferInv
    <2>2. NewSize \in Nat /\ NewSize >= len
        BY NewSizeGrows DEF BInv
    <2>3. SubSeq(data, 1, high)' = SubSeq(data, 1, high)
        BY <1>1, <1>4, <2>1, <2>2, ReallocKeepsFile DEF Reallocate
    <2> QED BY <1>4, <2>1, <2>3 DEF Reallocate, Stream!vars, status
<1>5. CASE ReallocFails
    BY <1>5 DEF ReallocFails, buffer, Stream!Next, Stream!Fail, status
<1>6. CASE Copy
    <2>1. /\ buf \in Seq(Byte) /\ buf \in Chunk /\ current + Len(buf) <= Len(data) /\ pc = "copy"
        BY <1>1, <1>6 DEF Copy, BInv, TypeOK, BufferInv, InCall
    <2>2. SubSeq(data, 1, high)' = Stream!Overwrite(SubSeq(data, 1, high), current, buf)
        BY <1>1, <1>6, <2>1, CopyIsWrite DEF Copy
    <2>3. current' = current + Len(buf) /\ status = "open" /\ UNCHANGED <<status, buffer_count>>
        BY <1>6 DEF Copy, status
    <2> QED BY <2>1, <2>2, <2>3 DEF Stream!Next, Stream!Write
<1>7. ASSUME NEW o \in 0..high, SeekStart(o)
      PROVE  Stream!Next
    <2>1. o <= len
        BY <1>1
    <2>2. /\ current' = o /\ current' \in 0..Len(SubSeq(data, 1, high)) /\ status = "open"
          /\ UNCHANGED <<data, high, status, buffer_count>>
        BY <1>1, <1>7, <2>1 DEF SeekStart, status
    <2> QED BY <2>2 DEF Stream!Next, Stream!Seek
<1>8. CASE FinishFile
    <2>1. header_start \in 0..high
        BY <1>1, <1>8, ChunkAssumption
           DEF FinishFile, SeekStart, BInv, TypeOK, WriterInv, Target, InCall
    <2> QED BY <1>7, <1>8, <2>1 DEF FinishFile
<1>9. CASE BackToEnd
    <2>1. file_end \in 0..high
        BY <1>1, <1>9 DEF BackToEnd, SeekStart, BInv, TypeOK, WriterInv
    <2> QED BY <1>7, <1>9, <2>1 DEF BackToEnd, EndOfFile
<1>10. CASE Return
    <2>1. current = high /\ pc = "ready"
        BY <1>10 DEF Return, BInv, WriterInv
    <2>2. /\ buffer_count' = Len(SubSeq(data, 1, high)) /\ status = "open" /\ status' = "closed"
          /\ UNCHANGED <<data, high, current>>
        BY <1>1, <1>10, <2>1 DEF Return, buffer, status, Written
    <2> QED BY <2>2 DEF Stream!Next, Stream!Close
<1>11. CASE UNCHANGED vars
    BY <1>11 DEF vars, buffer, Stream!vars, status
<1> QED
    BY <1>2, <1>3, <1>4, <1>5, <1>6, <1>8, <1>9, <1>10, <1>11
       DEF Next, WriteNext, WriterNext, Done, WriteData, StartFile, HeaderStart, UpdateHeader, FinishArchive

(***************************************************************************)
(* Saving to a buffer that has to grow is writing to a file: whatever the  *)
(* sizes, the caller of a successful save_buffer gets the bytes that the   *)
(* writer would have left in a file, and their exact number.               *)
(***************************************************************************)
THEOREM ImplementsByteStream == Spec => IsByteStream
<1> QED BY InitStream, InitBInv, NextBInv, NextStream, PTL DEF Spec, IsByteStream, Stream!Spec

=============================================================================
