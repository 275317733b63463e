--------------------------- MODULE ExternalBuffer ---------------------------
(***************************************************************************)
(* mts_labels_save_buffer, mts_block_save_buffer, mts_tensormap_save_buffer*)
(* (metatensor-core/src/c_api/io): data is serialized into memory that the *)
(* caller owns and that grows through the caller's `realloc` callback,     *)
(* behind the ExternalBuffer, an implementation of Write and Seek.         *)
(*                                                                         *)
(* What drives the ExternalBuffer is either save_labels, which only        *)
(* writes, or the ZipWriter of the zip crate (external): for each file it  *)
(* writes a local header, then the data, goes back to the header to write  *)
(* it again with the final size, and returns to the end of the file.       *)
(*                                                                         *)
(* Sizes are in bytes. The 1024 of the code is the constant InitialSize.   *)
(***************************************************************************)
EXTENDS Integers, Sequences

CONSTANTS
    Byte,           \* values of a byte
    InitialSize,    \* size of a first allocation (1024)
    StartSizes,     \* sizes of the buffers that a caller can start with
    LocalHeader,    \* a header of a file in the archive, as first written
    FinalHeader,    \* and as rewritten when the size is known
    DataChunks,     \* what a single write of data can be
    Directory,      \* the directory of the archive, written last
    MaxWrites       \* bound: number of files and data writes

ASSUME SizeAssumption ==
    /\ InitialSize \in Nat \ {0} /\ MaxWrites \in Nat
    /\ StartSizes \subseteq Nat

ASSUME ChunkAssumption ==
    /\ LocalHeader \in Seq(Byte) /\ FinalHeader \in Seq(Byte)
    /\ Len(FinalHeader) = Len(LocalHeader)
    /\ Directory \in Seq(Byte)
    /\ DataChunks \subseteq Seq(Byte)

ASSUME ByteAssumption == 0 \in Byte

Chunk == DataChunks \cup {LocalHeader, FinalHeader, Directory}

VARIABLES
    data,           \* the allocation of the caller, as a sequence of bytes
    len,            \* ExternalBuffer.len
    current,        \* ExternalBuffer.current
    pc,             \* where a call of write is: "ready" outside of it
    buf,            \* argument of write
    new_size, remaining_space,  \* locals of write
    buffer_count,   \* *buffer_count, which the caller reads at the end
    phase,          \* what the writer does next
    header_start, file_end,     \* positions kept by ZipWriter
    n_writes,       \* number of files and data writes so far
    high            \* auxiliary: end of the written bytes

buffer == <<data, len, current, high>>
locals == <<buf, new_size, remaining_space>>
writer == <<phase, header_start, file_end, n_writes>>
vars == <<buffer, locals, pc, buffer_count, writer>>

Init ==
    /\ \E n \in StartSizes :
          /\ data = [k \in 1..n |-> 0]
          /\ len = n /\ buffer_count = n
    /\ current = 0 /\ high = 0
    /\ pc = "ready" /\ buf = <<>> /\ new_size = 0 /\ remaining_space = 0
    /\ phase \in {"npy", "archive"}
    /\ header_start = 0 /\ file_end = 0 /\ n_writes = 0

-----------------------------------------------------------------------------
(* ExternalBuffer::write *)

RemainingSpace_WholeBuffer(n) == n
RemainingSpace(n) == n - current

(* Entering write(b). *)
CallWrite(b) ==
    /\ pc = "ready"
    /\ buf' = b
    /\ remaining_space' = RemainingSpace(len)
    /\ new_size' = 0
    /\ pc' = IF RemainingSpace(len) < Len(b) THEN "grow" ELSE "copy"
    /\ UNCHANGED <<buffer, buffer_count>>

NewSize_NotDoubled == IF len = 0 THEN InitialSize ELSE len
NewSize == IF len = 0 THEN InitialSize ELSE 2 * len

(* One iteration of the loop that looks for the new size. *)
Grow ==
    /\ pc = "grow" /\ remaining_space < Len(buf)
    /\ new_size' = NewSize
    /\ remaining_space' = RemainingSpace(NewSize)
    /\ UNCHANGED <<buffer, buf, pc, buffer_count, writer>>

(***************************************************************************)
(* realloc (external, a callback of the caller) keeps the bytes that are   *)
(* there; what comes after them is arbitrary, 0 here.                      *)
(***************************************************************************)
realloc(d, n) == [k \in 1..n |-> IF k <= Len(d) THEN d[k] ELSE 0]

(* After the loop: the buffer grows, *)
Reallocate ==
    /\ pc = "grow" /\ remaining_space >= Len(buf)
    /\ data' = realloc(data, new_size)
    /\ len' = new_size
    /\ pc' = "copy"
    /\ UNCHANGED <<current, high, locals, buffer_count, writer>>

(* or realloc returns NULL and the error ends the whole call. *)
ReallocFails_CountSet ==
    /\ pc = "grow" /\ remaining_space >= Len(buf)
    /\ pc' = "failed" /\ buffer_count' = new_size
    /\ UNCHANGED <<buffer, locals, writer>>
ReallocFails ==
    /\ pc = "grow" /\ remaining_space >= Len(buf)
    /\ pc' = "failed"
    /\ UNCHANGED <<buffer, locals, buffer_count, writer>>

(* The bytes b are copied into d from position p on. *)
CopyInto(d, p, b) ==
    [k \in 1..Len(d) |-> IF k > p /\ k <= p + Len(b) THEN b[k - p] ELSE d[k]]

Copy ==
    /\ pc = "copy"
    /\ data' = CopyInto(data, current, buf)
    /\ current' = current + Len(buf)
    /\ high' = IF current + Len(buf) > high THEN current + Len(buf) ELSE high
    /\ pc' = "ready"
    /\ UNCHANGED <<len, locals, buffer_count, writer>>

-----------------------------------------------------------------------------
(* ExternalBuffer::seek *)

(***************************************************************************)
(* seek(SeekFrom::Start(offset)), the only one the writers use: an offset  *)
(* past the allocation is an error.                                        *)
(***************************************************************************)
SeekStart(offset) ==
    /\ pc = "ready"
    /\ current' = IF offset > len THEN current ELSE offset
    /\ pc' = IF offset > len THEN "failed" ELSE "ready"
    /\ UNCHANGED <<data, len, high, locals, buffer_count>>

-----------------------------------------------------------------------------
(* The writers *)

(* save_labels, or the data of a file of the archive. *)
WriteData ==
    /\ phase \in {"npy", "data"} /\ n_writes < MaxWrites
    /\ \E b \in DataChunks : CallWrite(b)
    /\ n_writes' = n_writes + 1
    /\ UNCHANGED <<phase, header_start, file_end>>

(* ZipWriter::start_file; stream_position() is the cursor. *)
HeaderStart == current
StartFile ==
    /\ phase = "archive" /\ n_writes < MaxWrites
    /\ CallWrite(LocalHeader)
    /\ header_start' = HeaderStart
    /\ phase' = "data"
    /\ n_writes' = n_writes + 1
    /\ UNCHANGED file_end

(* ZipWriter::finish_file: to the header, *)
FinishFile ==
    /\ phase = "data"
    /\ SeekStart(header_start)
    /\ file_end' = current
    /\ phase' = "header"
    /\ UNCHANGED <<header_start, n_writes>>

(* update_local_file_header, *)
UpdateHeader ==
    /\ phase = "header"
    /\ CallWrite(FinalHeader)
    /\ phase' = "updated"
    /\ UNCHANGED <<header_start, file_end, n_writes>>

(* and back to the end. *)
EndOfFile == file_end
BackToEnd ==
    /\ phase = "updated"
    /\ SeekStart(EndOfFile)
    /\ phase' = "archive"
    /\ UNCHANGED <<header_start, file_end, n_writes>>

(* ZipWriter::finish *)
FinishArchive ==
    /\ phase = "archive"
    /\ CallWrite(Directory)
    /\ phase' = "finished"
    /\ UNCHANGED <<header_start, file_end, n_writes>>

(* The end of mts_*_save_buffer: *buffer_count = external_buffer.current *)
Written_Allocation == len
Written == current
Return ==
    /\ phase \in {"npy", "finished"} /\ pc = "ready"
    /\ buffer_count' = Written
    /\ pc' = "closed"
    /\ UNCHANGED <<buffer, locals, writer>>

(* The caller has its buffer, or its error. *)
Done == pc \in {"closed", "failed"} /\ UNCHANGED vars

WriteNext == Grow \/ Reallocate \/ ReallocFails \/ Copy
WriterNext ==
    WriteData \/ StartFile \/ FinishFile \/ UpdateHeader \/ BackToEnd
    \/ FinishArchive \/ Return

Next == WriteNext \/ WriterNext \/ Done

(***************************************************************************)
(* A call runs to its end on the thread of its caller: as long as it has a *)
(* step to make it makes one.                                              *)
(***************************************************************************)
Fairness == WF_vars(WriteNext \/ WriterNext)

Spec == Init /\ [][Next]_vars
FairSpec == Spec /\ Fairness

-----------------------------------------------------------------------------
(* Properties *)

(* The buffer, the locals of write and the positions kept by the writer have their types. *)
TypeOK ==
    /\ data \in Seq(Byte) /\ len \in Nat /\ current \in Nat /\ high \in Nat
    /\ pc \in {"ready", "grow", "copy", "closed", "failed"}
    /\ buf \in Seq(Byte) /\ new_size \in Nat /\ remaining_space \in Int
    /\ buffer_count \in Nat
    /\ phase \in {"npy", "archive", "data", "header", "updated", "finished"}
    /\ header_start \in Nat /\ file_end \in Nat /\ n_writes \in Nat

(***************************************************************************)
(* ExternalBuffer's idea of the allocation is the allocation, the cursor   *)
(* never leaves it (so that `self.len - self.current` does not underflow), *)
(* and a copy that is about to happen fits in it: no write out of bounds,  *)
(* whatever the sequence of growths and seeks.                             *)
(***************************************************************************)
WritesInBounds ==
    /\ len = Len(data)
    /\ current <= len
    /\ pc = "copy" => current + Len(buf) <= Len(data)

(***************************************************************************)
(* What the caller reads as the size of its buffer is never more than what *)
(* is allocated, also when the call failed after some growths.             *)
(***************************************************************************)
CountIsAllocated == buffer_count <= Len(data)

(***************************************************************************)
(* Growing, overwriting the headers and seeking do what they would on a    *)
(* plain file, and a successful call reports exactly the bytes of that     *)
(* file: all that was written, nothing uninitialized, nothing cut off.     *)
(***************************************************************************)
status == IF pc \in {"closed", "failed"} THEN pc ELSE "open"
Stream == INSTANCE ByteStream WITH
    file <- SubSeq(data, 1, high), pos <- current, count <- buffer_count
IsByteStream == Stream!Spec

(***************************************************************************)
(* "find the new size to be able to fit all the data": the search for a    *)
(* larger buffer ends.                                                     *)
(***************************************************************************)
GrowthEnds == pc = "grow" ~> pc # "grow"

(* The call returns, with the data or an error. *)
SaveReturns == <>(pc \in {"closed", "failed"})
=============================================================================
