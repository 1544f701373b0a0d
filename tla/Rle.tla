-------------------------------- MODULE Rle --------------------------------
(***************************************************************************)
(* RleModule (src/src/RleModule.cpp): the run length coding of packed rows. *)
(* A header byte describes two runs in its two halves; each run is up to    *)
(* Run zeros, or up to Run bytes that follow.  Either something is packed   *)
(* and then unpacked, or unpack is given bytes as they come in a packet.    *)
(***************************************************************************)
EXTENDS Integers, Sequences

CONSTANTS Run,     (* the longest run, 8: half a byte takes 2 * Run values *)
          Rows,    (* the data that may be packed *)
          Packets, (* the bytes that may be unpacked as they are *)
          Slack    (* bytes the output may have beyond the data *)

ASSUME RleAssumption ==
  /\ Run \in Nat \ {0}
  /\ Rows \subseteq Seq(Int) /\ Packets \subseteq Seq(Int)
  /\ Slack \subseteq Nat

Half == 2 * Run

VARIABLES
  fn,             (* "pack", "unpack"; unpack returned: "true", "false" *)
  in, in_ix,
  out, out_size,  (* out_ix is Len(out) *)
  nibble,         (* 1 between the two halves of a header *)
  nibble_ix,      (* pack: the place of the header in out *)
  zerochains,     (* pack: the runs of zeros at the end *)
  run,            (* unpack: the header *)
  row             (* ghost: what was packed, <<row>>, or nothing *)

vars == <<fn, in, in_ix, out, out_size, nibble, nibble_ix, zerochains, run, row>>
out_ix == Len(out)

Init ==
  /\ \/ fn = "pack" /\ in \in Rows /\ row = <<in>> /\ out_size = 0
     \/ fn = "unpack" /\ in \in Packets /\ row = <<>> /\ out_size \in Slack
  /\ in_ix = 0 /\ out = <<>>
  /\ nibble = 0 /\ nibble_ix = 0 /\ zerochains = 0 /\ run = 0

(* The bytes from in_ix on that are like the first, zero or not, at most Run. *)
Alike(k) == /\ in_ix + k <= Len(in)
            /\ \A i \in 1..k : (in[in_ix + i] = 0) <=> (in[in_ix + 1] = 0)
LongestRun(k) == Alike(k) /\ (k = Run \/ ~Alike(k + 1))

PackRun ==
  /\ fn = "pack" /\ in_ix < Len(in)
  /\ \E length \in {k \in 1..Run : LongestRun(k)} :
     LET zero == in[in_ix + 1] = 0
         ix == IF nibble = 0 THEN out_ix + 1 ELSE nibble_ix
         data == IF zero THEN <<>> ELSE SubSeq(in, in_ix + 1, in_ix + length)
         count == IF zero THEN length + Run - 1 ELSE Run - length
         headed == (IF nibble = 0 THEN Append(out, 0) ELSE out) \o data
     IN /\ out' = [headed EXCEPT ![ix] = IF nibble = 1 THEN @ + Half * count ELSE count]
        /\ nibble_ix' = ix
        /\ zerochains' = IF zero THEN zerochains + 1 ELSE 0
        /\ in_ix' = in_ix + length
        /\ nibble' = 1 - nibble
  /\ UNCHANGED <<fn, in, out_size, run, row>>

(* Mutant: half a header at the end counts as a whole one. *)
DropsHalves == (zerochains + 1) \div 2
(* The headers at the end that describe nothing but zeros. *)
Dropped == (IF nibble = 1 /\ zerochains > 0 THEN zerochains + 1 ELSE zerochains) \div 2

(* pack returns, and what it made is unpacked. *)
PackEnds ==
  /\ fn = "pack" /\ in_ix = Len(in)
  /\ fn' = "unpack" /\ in' = SubSeq(out, 1, out_ix - Dropped)
  /\ \E n \in Slack : out_size' = Len(in) + n
  /\ in_ix' = 0 /\ out' = <<>> /\ nibble' = 0
  /\ UNCHANGED <<nibble_ix, zerochains, run, row>>

Zeros(n) == [i \in 1..n |-> 0]
(* Mutant: the output may be exceeded by one. *)
NoRoomButOne(n) == out_ix + n > out_size + 1
NoRoom(n) == out_ix + n > out_size

(* One half of a header: header is the byte, next the index behind it.  The *)
(* bytes of a run are copied as far as the input has them.                  *)
Expand(count, next) ==
  LET length == IF count >= 0 THEN count + 1 ELSE -count
      rest == Len(in) - next
      copied == IF length > rest THEN rest ELSE length
  IN
  IF NoRoom(length) THEN fn' = "false" /\ in_ix' = next /\ UNCHANGED out
  ELSE /\ IF count >= 0 THEN out' = out \o Zeros(length) /\ in_ix' = next
          ELSE out' = out \o SubSeq(in, next + 1, next + copied) /\ in_ix' = next + copied
       /\ UNCHANGED fn

UnpackLow ==
  /\ fn = "unpack" /\ in_ix < Len(in) /\ nibble = 0
  /\ run' = in[in_ix + 1] /\ nibble' = 1
  /\ Expand((in[in_ix + 1] % Half) - Run, in_ix + 1)
  /\ UNCHANGED <<in, out_size, nibble_ix, zerochains, row>>

UnpackHigh ==
  /\ fn = "unpack" /\ in_ix < Len(in) /\ nibble = 1
  /\ nibble' = 0
  /\ Expand((run \div Half) - Run, in_ix)
  /\ UNCHANGED <<in, out_size, nibble_ix, zerochains, run, row>>

UnpackEnds ==
  /\ fn = "unpack" /\ in_ix = Len(in)
  /\ out' = out \o Zeros(out_size - out_ix)
  /\ fn' = "true"
  /\ UNCHANGED <<in, in_ix, out_size, nibble, nibble_ix, zerochains, run, row>>

Next == PackRun \/ PackEnds \/ UnpackLow \/ UnpackHigh \/ UnpackEnds

Spec == Init /\ [][Next]_vars
-----------------------------------------------------------------------------
(* Whatever bytes a packet brings, unpack writes at most out_size bytes and     *)
(* reads only those it was given; when it succeeds it has written all of them,  *)
(* so the row parser meets no byte of the fresh allocation.                     *)
Fits ==
  /\ in_ix <= Len(in)
  /\ fn # "pack" => out_ix <= out_size
  /\ fn = "true" => out_ix = out_size

(* What was packed comes back, filled up with zeros: the headers pack drops at *)
(* the end stood for zeros only (RleModule.cpp:129).                           *)
Restored ==
  /\ fn = "false" => row = <<>>
  /\ fn = "true" /\ row # <<>> => out = row[1] \o Zeros(out_size - Len(row[1]))
=============================================================================
