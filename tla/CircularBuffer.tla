--------------------------- MODULE CircularBuffer ---------------------------
(***************************************************************************)
(* The byte buffer of src/ascent-shared/Network/CircularBuffer.cpp: data   *)
(* sits in region A and, once there is more room before A than behind it,  *)
(* in region B at the start of the block.  When A is used up, B is moved   *)
(* to the start and becomes A.                                             *)
(*                                                                         *)
(* Pointers are offsets from m_buffer.  Each operation is one step: Socket *)
(* calls them under its read or write mutex.                               *)
(***************************************************************************)
EXTENDS Integers, Sequences

CONSTANTS Byte,   (* the values of a byte that are told apart *)
          Size    (* bytes allocated *)

ASSUME SizeAssumption == Size \in Nat \ {0} /\ Byte # {}

VARIABLES m_buffer,           (* contents of the block *)
          m_regionAPointer, m_regionASize,
          m_regionBPointer, m_regionBSize,
          moved               (* the bytes the last operation put in or took out *)

regions == <<m_regionAPointer, m_regionASize, m_regionBPointer, m_regionBSize>>
vars == <<m_buffer, regions, moved>>

NULL == -1
Offset == 0..(Size - 1)

(* The constructor, then Allocate(Size); malloc leaves any bytes. *)
Init ==
  /\ m_buffer \in [Offset -> Byte]
  /\ m_regionAPointer = 0 /\ m_regionASize = 0
  /\ m_regionBPointer = NULL /\ m_regionBSize = 0
  /\ moved = <<>>

GetAFreeSpace == Size - m_regionAPointer - m_regionASize
GetSpaceBeforeA == m_regionAPointer
WholeBFreeSpace(bPointer) == Size - bPointer - m_regionBSize
GetBFreeSpace(bPointer) == m_regionAPointer - bPointer - m_regionBSize
GetSize == m_regionASize + m_regionBSize
GetContiguiousBytes == IF m_regionASize # 0 THEN m_regionASize ELSE m_regionBSize
GetBufferStart == IF m_regionASize > 0 THEN m_regionAPointer ELSE m_regionBPointer

(* The region B pointer after the test that Write and GetSpace make:         *)
(* AllocateB once there is more room before A than behind it.                *)
AllocatedB == IF m_regionBPointer = NULL /\ GetAFreeSpace < GetSpaceBeforeA
              THEN 0 ELSE m_regionBPointer

(* What GetSpace returns, and where GetBuffer then points. *)
Room == IF AllocatedB # NULL THEN GetBFreeSpace(AllocatedB) ELSE GetAFreeSpace
WriteOffsetA == m_regionAPointer + m_regionASize
WriteOffset == IF AllocatedB # NULL THEN AllocatedB + m_regionBSize
               ELSE m_regionAPointer + m_regionASize

(* Bytes are copied behind the region in use, which grows by them. *)
Fill(data) ==
  /\ m_buffer' = [i \in Offset |-> IF i \in WriteOffset..(WriteOffset + Len(data) - 1)
                                   THEN data[i - WriteOffset + 1] ELSE m_buffer[i]]
  /\ m_regionBPointer' = AllocatedB
  /\ IF AllocatedB # NULL
     THEN m_regionBSize' = m_regionBSize + Len(data) /\ UNCHANGED m_regionASize
     ELSE m_regionASize' = m_regionASize + Len(data) /\ UNCHANGED m_regionBSize
  /\ moved' = data
  /\ UNCHANGED m_regionAPointer

(* GetSpace, and a Write refused because its data does not fit: region B may *)
(* be allocated all the same.                                                *)
GetSpace ==
  /\ m_regionBPointer' = AllocatedB
  /\ UNCHANGED <<m_buffer, m_regionAPointer, m_regionASize, m_regionBSize, moved>>

BytesUpTo(n) == UNION {[1..k -> Byte] : k \in 0..n}

Write == \/ \E data \in BytesUpTo(Size) : Len(data) <= Room /\ Fill(data)
         \/ GetSpace

(* Socket::ReadCallback: GetSpace, recv into GetBuffer, IncrementWritten. *)
Receive == \E data \in BytesUpTo(Size) : Len(data) \in 1..Room /\ Fill(data)

(* The pointers when A is empty, bRem bytes are cut from B and B has moved.   *)
AdvancedA == m_regionAPointer + m_regionASize
EmptiedA == 0
UnchangedB(bRem) == m_regionBPointer
EmptiedB(bRem) == NULL

(* The common part of Read and Remove: n bytes are cut from A, then from B;  *)
(* an empty A gives way to what is left of B.                                *)
Cut(n) ==
  LET aRem == IF n > m_regionASize THEN m_regionASize ELSE n
      bRem == IF n - aRem > m_regionBSize THEN m_regionBSize ELSE n - aRem
      bLeft == m_regionBSize - bRem
  IN
  \/ /\ m_regionASize - aRem > 0
     /\ m_regionASize' = m_regionASize - aRem
     /\ m_regionAPointer' = m_regionAPointer + aRem
     /\ UNCHANGED <<m_buffer, m_regionBPointer, m_regionBSize>>
  \/ /\ m_regionASize - aRem = 0
     /\ m_buffer' = [i \in Offset |-> IF i < bLeft THEN m_buffer[m_regionBPointer + bRem + i]
                                      ELSE m_buffer[i]]
     /\ m_regionAPointer' = EmptiedA
     /\ m_regionASize' = bLeft
     /\ m_regionBPointer' = EmptiedB(bRem)
     /\ m_regionBSize' = 0

(* The n oldest bytes. *)
Oldest(n) == [i \in 1..n |-> IF i <= m_regionASize THEN m_buffer[m_regionAPointer + i - 1]
                             ELSE m_buffer[m_regionBPointer + i - m_regionASize - 1]]

(* Read refuses when there are fewer bytes; nothing changes then. *)
Read == \E bytes \in 0..GetSize : Cut(bytes) /\ moved' = Oldest(bytes)

(* Socket::WriteCallback: send takes some of the contiguous bytes at         *)
(* GetBufferStart, Remove cuts as many.                                      *)
Sent(n) == [i \in 1..n |-> m_buffer[GetBufferStart + i - 1]]
Remove == \E len \in 0..GetContiguiousBytes : Cut(len) /\ moved' = Sent(len)

Next == Write \/ Receive \/ GetSpace \/ Read \/ Remove

Spec == Init /\ [][Next]_vars
-----------------------------------------------------------------------------
TypeOK ==
  /\ m_buffer \in [Offset -> Byte]
  /\ m_regionAPointer \in 0..Size /\ m_regionASize \in 0..Size
  /\ m_regionBPointer \in {NULL, 0} /\ m_regionBSize \in 0..Size
  /\ moved \in BytesUpTo(Size)

(* The regions never overlap and never leave the block: a write behind B     *)
(* cannot reach the older bytes of A.                                        *)
RegionsApart ==
  /\ m_regionAPointer + m_regionASize <= Size
  /\ m_regionBPointer # NULL => m_regionBPointer + m_regionBSize <= m_regionAPointer
  /\ m_regionBPointer = NULL => m_regionBSize = 0

(* A buffer that was emptied offers its whole block again, whatever regions  *)
(* it went through.                                                          *)
EmptyIsWhole == GetSize = 0 => Room = Size

(* Bytes leave in the order they entered, none lost and none twice. *)
Fifo == INSTANCE ByteFifo WITH queue <- Oldest(GetSize), moved <- moved
IsFifo == Fifo!Spec
=============================================================================
