----------------------------- MODULE ByteStream -----------------------------
(***************************************************************************)
(* What `save_buffer` promises to the code that writes archives and to its *)
(* caller: a file that starts empty, a cursor in it, writes that overwrite *)
(* or extend the file at the cursor, seeks inside the file, and at the end *)
(* the number of bytes of the file, or a failure that reports nothing.     *)
(***************************************************************************)
EXTENDS Integers, Sequences

CONSTANT Chunk   \* what can be written in one call, as sequences of bytes

VARIABLES
    file,       \* the bytes written so far
    pos,        \* the cursor
    status,     \* "open", "closed" or "failed"
    count       \* what the caller knows of the size of its buffer

vars == <<file, pos, status, count>>

(* f with the bytes d from position p on *)
Overwrite(f, p, d) ==
    [k \in 1..(IF p + Len(d) > Len(f) THEN p + Len(d) ELSE Len(f)) |->
        IF k > p /\ k <= p + Len(d) THEN d[k - p] ELSE f[k]]

Init ==
    /\ file = <<>> /\ pos = 0 /\ status = "open"
    /\ count \in Nat

Write ==
    /\ status = "open"
    /\ \E d \in Chunk : file' = Overwrite(file, pos, d) /\ pos' = pos + Len(d)
    /\ UNCHANGED <<status, count>>

Seek ==
    /\ status = "open"
    /\ pos' \in 0..Len(file)
    /\ UNCHANGED <<file, status, count>>

Close ==
    /\ status = "open"
    /\ status' = "closed" /\ count' = Len(file)
    /\ UNCHANGED <<file, pos>>

Fail ==
    /\ status = "open"
    /\ status' = "failed"
    /\ UNCHANGED <<file, pos, count>>

Next == Write \/ Seek \/ Close \/ Fail

Spec == Init /\ [][Next]_vars
=============================================================================
