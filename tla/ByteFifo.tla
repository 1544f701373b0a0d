------------------------------ MODULE ByteFifo ------------------------------
(***************************************************************************)
(* What CircularBuffer (src/ascent-shared/Network/CircularBuffer.h)        *)
(* promises: bytes leave the buffer in the order they entered it, none     *)
(* lost and none twice, and it never holds more than it was allocated for. *)
(***************************************************************************)
EXTENDS Integers, Sequences

CONSTANTS Byte, Size

VARIABLES queue,   (* what is in the buffer, oldest first *)
          moved    (* the bytes the last operation put in or took out *)

Bytes == UNION {[1..n -> Byte] : n \in 0..Size}

Init == queue = <<>> /\ moved = <<>>

Put == /\ moved' \in Bytes /\ Len(queue) + Len(moved') <= Size
       /\ queue' = queue \o moved'

Take == /\ queue' \in Bytes /\ moved' \in Bytes
        /\ queue = moved' \o queue'

Next == Put \/ Take
Spec == Init /\ [][Next]_<<queue, moved>>
=============================================================================
