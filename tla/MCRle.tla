------------------------------- MODULE MCRle -------------------------------
(* All rows of zeros and one other byte, and all short packets. *)
EXTENDS Rle

CONSTANTS RowBytes, PacketBytes

SomeRows == UNION {[1..n -> {0, 5}] : n \in 0..RowBytes}
SomePackets == UNION {[1..n -> 0..(Half * Half - 1)] : n \in 0..PacketBytes}
=============================================================================
