------------------------ MODULE CircularBuffer_proof ------------------------
(***************************************************************************)
(* For a block of any size and any bytes: the regions of CircularBuffer    *)
(* stay apart and inside the block, and the buffer is a FIFO of bytes.     *)
(*                                                                         *)
(* Inv strengthens RegionsApart by what makes EmptyIsWhole true and lets B *)
(* be moved over A: when A is empty its pointer is back at the start and   *)
(* there is no B.                                                          *)
(***************************************************************************)
EXTENDS CircularBuffer, SequenceTheorems, TLAPS

Typed ==
  /\ m_buffer \in [Offset -> Byte]
  /\ m_regionAPointer \in Nat /\ m_regionASize \in Nat /\ m_regionBSize \in Nat
  /\ m_regionBPointer \in {NULL, 0}

EmptyAIsReset == m_regionASize = 0 => m_regionAPointer = 0 /\ m_regionBPointer = NULL

Inv == Typed /\ RegionsApart /\ EmptyAIsReset

(* A string of bytes of a known length is a sequence. *)
LEMMA BytesAreSeq ==
  ASSUME NEW k \in Nat, NEW s \in [1..k -> Byte]
  PROVE  s \in Seq(Byte) /\ Len(s) = k
BY SeqDef

LEMMA BytesUpToSeq ==
  ASSUME NEW s \in BytesUpTo(Size)
  PROVE  s \in Seq(Byte) /\ Len(s) \in 0..Size /\ s \in [1..Len(s) -> Byte]
<1>1. PICK k \in 0..Size : s \in [1..k -> Byte]
  BY DEF BytesUpTo
<1>2. k \in Nat
  BY SizeAssumption
<1> QED
  BY <1>1, <1>2, BytesAreSeq, SizeAssumption

(* Where the next bytes go, and how many. *)
LEMMA RoomFacts ==
  ASSUME Inv
  PROVE  \/ /\ AllocatedB = 0 /\ WriteOffset = m_regionBSize
            /\ Room = m_regionAPointer - m_regionBSize
            /\ m_regionASize > 0
         \/ /\ AllocatedB = NULL /\ m_regionBPointer = NULL /\ m_regionBSize = 0
            /\ WriteOffset = m_regionAPointer + m_regionASize
            /\ Room = Size - m_regionAPointer - m_regionASize
<1> USE SizeAssumption
<1>1. CASE AllocatedB = NULL
  BY <1>1 DEF AllocatedB, Inv, Typed, RegionsApart, WriteOffset, Room, GetAFreeSpace, NULL
<1>2. CASE AllocatedB # NULL
  <2>1. AllocatedB = 0
    BY <1>2 DEF AllocatedB, Inv, Typed
  <2>2. m_regionASize > 0
    BY <1>2 DEF AllocatedB, Inv, Typed, EmptyAIsReset, GetAFreeSpace, GetSpaceBeforeA, NULL
  <2>3. Room = m_regionAPointer - m_regionBSize /\ WriteOffset = m_regionBSize
    BY <2>1 DEF Room, WriteOffset, GetBFreeSpace, NULL, Inv, Typed
  <2> QED
    BY <2>1, <2>2, <2>3
<1> QED
  BY <1>1, <1>2

LEMMA FillInv ==
  ASSUME Inv, NEW data \in BytesUpTo(Size), Len(data) <= Room, Fill(data)
  PROVE  Inv'
<1> USE SizeAssumption
<1>1. data \in [1..Len(data) -> Byte] /\ Len(data) \in Nat
  BY BytesUpToSeq
<1>2. m_buffer' \in [Offset -> Byte]
  <2>1. WriteOffset \in Nat
    BY RoomFacts DEF Inv, Typed
  <2>2. \A i \in Offset : i \in WriteOffset..(WriteOffset + Len(data) - 1)
                            => data[i - WriteOffset + 1] \in Byte
    BY <1>1, <2>1 DEF Offset
  <2>3. \A i \in Offset : m_buffer[i] \in Byte
    BY DEF Inv, Typed
  <2> QED
    BY <2>2, <2>3 DEF Fill
<1>3. CASE AllocatedB = 0
  <2>1. /\ m_regionBSize' = m_regionBSize + Len(data) /\ m_regionBPointer' = 0
        /\ UNCHANGED <<m_regionASize, m_regionAPointer>>
    BY <1>3 DEF Fill, NULL
  <2>2. Len(data) <= m_regionAPointer - m_regionBSize /\ m_regionASize > 0
    BY <1>3, RoomFacts DEF NULL
  <2> QED
    BY <1>1, <1>2, <2>1, <2>2 DEF Inv, Typed, RegionsApart, EmptyAIsReset, NULL
<1>4. CASE AllocatedB = NULL
  <2>1. /\ m_regionASize' = m_regionASize + Len(data) /\ m_regionBPointer' = NULL
        /\ UNCHANGED <<m_regionBSize, m_regionAPointer>>
    BY <1>4 DEF Fill
  <2>2. /\ Len(data) <= Size - m_regionAPointer - m_regionASize
        /\ m_regionBPointer = NULL /\ m_regionBSize = 0
    BY <1>4, RoomFacts DEF NULL
  <2> QED
    BY <1>1, <1>2, <2>1, <2>2 DEF Inv, Typed, RegionsApart, EmptyAIsReset, NULL
<1> QED
  BY <1>3, <1>4, RoomFacts

LEMMA GetSpaceInv == ASSUME Inv, GetSpace PROVE Inv'
<1> USE SizeAssumption
<1>1. /\ m_regionBPointer' = AllocatedB
      /\ UNCHANGED <<m_buffer, m_regionAPointer, m_regionASize, m_regionBSize>>
  BY DEF GetSpace
<1>2. CASE m_regionBPointer' = m_regionBPointer
  BY <1>1, <1>2 DEF Inv, Typed, RegionsApart, EmptyAIsReset
<1>3. CASE m_regionBPointer = NULL /\ AllocatedB = 0
  <2>1. m_regionASize > 0
    BY <1>3, RoomFacts DEF NULL
  <2> QED
    BY <1>1, <1>3, <2>1 DEF Inv, Typed, RegionsApart, EmptyAIsReset, NULL
<1> QED
  BY <1>1, <1>2, <1>3 DEF AllocatedB

(* The two outcomes of a cut. *)
LEMMA CutFacts ==
  ASSUME Inv, NEW n \in 0..GetSize, Cut(n)
  PROVE  \/ /\ n < m_regionASize
            /\ m_regionASize' = m_regionASize - n
            /\ m_regionAPointer' = m_regionAPointer + n
            /\ UNCHANGED <<m_buffer, m_regionBPointer, m_regionBSize>>
         \/ /\ n >= m_regionASize
            /\ m_buffer' = [i \in Offset |-> IF i < GetSize - n
                                 THEN m_buffer[m_regionBPointer + n - m_regionASize + i]
                                 ELSE m_buffer[i]]
            /\ m_regionAPointer' = 0 /\ m_regionASize' = GetSize - n
            /\ m_regionBPointer' = NULL /\ m_regionBSize' = 0
<1> DEFINE aRem == IF n > m_regionASize THEN m_regionASize ELSE n
           bRem == IF n - aRem > m_regionBSize THEN m_regionBSize ELSE n - aRem
<1>1. n \in Nat /\ n <= m_regionASize + m_regionBSize
  BY DEF GetSize, Inv, Typed
<1>2. CASE n < m_regionASize
  <2>1. aRem = n /\ m_regionASize - aRem > 0
    BY <1>1, <1>2 DEF Inv, Typed
  <2> QED
    BY <1>1, <1>2, <2>1 DEF Cut, Inv, Typed
<1>3. CASE n >= m_regionASize
  <2>1. aRem = m_regionASize /\ bRem = n - m_regionASize
    BY <1>1, <1>3 DEF Inv, Typed
  <2>2. m_regionASize - aRem = 0 /\ m_regionBSize - bRem = GetSize - n
    BY <1>1, <2>1 DEF GetSize, Inv, Typed
  <2>3. \A i \in Offset : m_regionBPointer + bRem + i = m_regionBPointer + n - m_regionASize + i
    BY <1>1, <2>1 DEF Inv, Typed, NULL, Offset
  <2> HIDE DEF aRem, bRem
  <2>4. /\ m_buffer' = [i \in Offset |-> IF i < m_regionBSize - bRem
                                THEN m_buffer[m_regionBPointer + bRem + i] ELSE m_buffer[i]]
        /\ m_regionAPointer' = 0 /\ m_regionASize' = m_regionBSize - bRem
        /\ m_regionBPointer' = NULL /\ m_regionBSize' = 0
    BY <2>2 DEF Cut, EmptiedA, EmptiedB, aRem, bRem
  <2> QED
    BY <1>3, <2>2, <2>3, <2>4
<1> QED
  BY <1>1, <1>2, <1>3 DEF Inv, Typed

LEMMA CutInv == ASSUME Inv, NEW n \in 0..GetSize, Cut(n) PROVE Inv'
<1> USE SizeAssumption
<1>1. n \in Nat /\ n <= m_regionASize + m_regionBSize
  BY DEF GetSize, Inv, Typed
<1>2. CASE /\ n < m_regionASize
           /\ m_regionASize' = m_regionASize - n
           /\ m_regionAPointer' = m_regionAPointer + n
           /\ UNCHANGED <<m_buffer, m_regionBPointer, m_regionBSize>>
  BY <1>1, <1>2 DEF Inv, Typed, RegionsApart, EmptyAIsReset, NULL
<1>3. CASE /\ n >= m_regionASize
           /\ m_buffer' = [i \in Offset |-> IF i < GetSize - n
                                THEN m_buffer[m_regionBPointer + n - m_regionASize + i]
                                ELSE m_buffer[i]]
           /\ m_regionAPointer' = 0 /\ m_regionASize' = GetSize - n
           /\ m_regionBPointer' = NULL /\ m_regionBSize' = 0
  <2>1. GetSize - n \in Nat /\ GetSize - n <= m_regionBSize /\ m_regionBSize <= Size
    BY <1>1, <1>3 DEF GetSize, Inv, Typed, RegionsApart, NULL
  <2>2. ASSUME NEW i \in Offset, i < GetSize - n
        PROVE  m_regionBPointer + n - m_regionASize + i \in Offset
    <3>1. m_regionBPointer = 0
      BY <1>1, <2>1, <2>2 DEF Inv, Typed, RegionsApart, Offset
    <3> QED
      BY <1>1, <1>3, <2>1, <2>2, <3>1 DEF Offset, GetSize, Inv, Typed, RegionsApart, NULL
  <2>3. m_buffer' \in [Offset -> Byte]
    BY <1>3, <2>2 DEF Inv, Typed
  <2> QED
    BY <1>3, <2>1, <2>3 DEF Inv, Typed, RegionsApart, EmptyAIsReset
<1> QED
  BY <1>2, <1>3, CutFacts
LEMMA ContiguousPart == ASSUME Inv PROVE GetContiguiousBytes \in 0..GetSize
BY DEF GetContiguiousBytes, GetSize, Inv, Typed

LEMMA InitInv == Init => Inv
BY SizeAssumption DEF Init, Inv, Typed, RegionsApart, EmptyAIsReset

LEMMA NextInv == Inv /\ [Next]_vars => Inv'
<1> SUFFICES ASSUME Inv, [Next]_vars PROVE Inv'
  OBVIOUS
<1>1. CASE Write
  BY <1>1, FillInv, GetSpaceInv DEF Write
<1>2. CASE Receive
  <2>1. PICK data \in BytesUpTo(Size) : Len(data) \in 1..Room /\ Fill(data)
    BY <1>2 DEF Receive
  <2>2. Len(data) <= Room
    BY <2>1, RoomFacts, SizeAssumption DEF Inv, Typed
  <2> QED
    BY <2>1, <2>2, FillInv
<1>3. CASE GetSpace
  BY <1>3, GetSpaceInv
<1>4. CASE Read
  BY <1>4, CutInv DEF Read
<1>5. CASE Remove
  <2>1. PICK len \in 0..GetContiguiousBytes : Cut(len)
    BY <1>5 DEF Remove
  <2>2. len \in 0..GetSize
    BY ContiguousPart DEF GetSize, Inv, Typed
  <2> QED
    BY <2>1, <2>2, CutInv
<1>6. CASE UNCHANGED vars
  BY <1>6 DEF vars, regions, Inv, Typed, RegionsApart, EmptyAIsReset
<1> QED
  BY <1>1, <1>2, <1>3, <1>4, <1>5, <1>6 DEF Next

THEOREM Invariant == Spec => []Inv
<1>1. Init => Inv
  BY InitInv
<1>2. Inv /\ [Next]_vars => Inv'
  BY NextInv
<1> QED
  BY <1>1, <1>2, PTL DEF Spec

(* Region B never grows into the unread bytes of region A, and neither       *)
(* leaves the block (Write, IncrementWritten, Read, Remove).                 *)
THEOREM Apart == Spec => []RegionsApart
<1>1. Inv => RegionsApart
  BY DEF Inv
<1> QED
  BY <1>1, Invariant, PTL

(* A drained buffer offers all of its block again (GetSpace).                *)
THEOREM Whole == Spec => []EmptyIsWhole
<1>1. Inv => EmptyIsWhole
  <2> SUFFICES ASSUME Inv, GetSize = 0 PROVE Room = Size
    BY DEF EmptyIsWhole
  <2>1. m_regionASize = 0
    BY DEF GetSize, Inv, Typed
  <2> QED
    BY <2>1, RoomFacts, SizeAssumption DEF Inv, Typed, EmptyAIsReset
<1> QED
  BY <1>1, Invariant, PTL
-----------------------------------------------------------------------------
(* The refinement: the queue of ByteFifo is Oldest(GetSize). *)
Contents == Oldest(GetSize)

LEMMA OldestIsSeq ==
  ASSUME Inv, NEW n \in 0..GetSize
  PROVE  Oldest(n) \in [1..n -> Byte] /\ n \in 0..Size
<1> USE SizeAssumption
<1>1. n \in Nat /\ n <= m_regionASize + m_regionBSize
  BY DEF GetSize, Inv, Typed
<1>2. ASSUME NEW i \in 1..n
      PROVE  /\ i <= m_regionASize => m_buffer[m_regionAPointer + i - 1] \in Byte
             /\ i > m_regionASize => m_buffer[m_regionBPointer + i - m_regionASize - 1] \in Byte
  <2>1. CASE i <= m_regionASize
    <3>1. m_regionAPointer + i - 1 \in Offset
      BY <1>1, <2>1 DEF Inv, Typed, RegionsApart, Offset
    <3> QED
      BY <2>1, <3>1 DEF Inv, Typed
  <2>2. CASE i > m_regionASize
    <3>1. m_regionBPointer + i - m_regionASize - 1 \in Offset
      BY <1>1, <2>2 DEF Inv, Typed, RegionsApart, Offset, NULL
    <3> QED
      BY <1>1, <2>2, <3>1 DEF Inv, Typed
  <2> QED
    BY <2>1, <2>2 DEF Inv, Typed
<1>3. n <= Size
  BY <1>1 DEF Inv, Typed, RegionsApart, NULL
<1> QED
  BY <1>1, <1>2, <1>3 DEF Oldest, Inv, Typed

LEMMA ContentsIsSeq ==
  ASSUME Inv
  PROVE  Contents \in Seq(Byte) /\ Len(Contents) = GetSize /\ GetSize \in 0..Size
<1>1. GetSize \in Nat
  BY DEF GetSize, Inv, Typed
<1>2. Contents \in [1..GetSize -> Byte] /\ GetSize \in 0..Size
  BY <1>1, OldestIsSeq DEF Contents
<1> QED
  BY <1>1, <1>2, BytesAreSeq
(* The i-th oldest byte. *)
LEMMA ContentsAt ==
  \A i \in 1..GetSize : Contents[i] = IF i <= m_regionASize THEN m_buffer[m_regionAPointer + i - 1]
                                      ELSE m_buffer[m_regionBPointer + i - m_regionASize - 1]
BY DEF Contents, Oldest

LEMMA FillAppends ==
  ASSUME Inv, NEW data \in BytesUpTo(Size), Len(data) <= Room, Fill(data)
  PROVE  /\ GetSize' = GetSize + Len(data)
         /\ \A i \in 1..GetSize' : Contents'[i] = IF i <= GetSize THEN Contents[i]
                                                  ELSE data[i - GetSize]
<1> USE SizeAssumption
<1>1. Len(data) \in Nat /\ Inv'
  BY BytesUpToSeq, FillInv
<1>2. GetSize' = GetSize + Len(data)
  <2> HIDE DEF Inv
  <2>1. m_regionASize \in Nat /\ m_regionBSize \in Nat
    BY DEF Inv, Typed
  <2>2. \/ m_regionASize' = m_regionASize /\ m_regionBSize' = m_regionBSize + Len(data)
        \/ m_regionBSize' = m_regionBSize /\ m_regionASize' = m_regionASize + Len(data)
    BY DEF Fill
  <2> QED
    BY <1>1, <2>1, <2>2 DEF GetSize
<1>3. \A j \in Offset : m_buffer'[j] = IF j \in WriteOffset..(WriteOffset + Len(data) - 1)
                                       THEN data[j - WriteOffset + 1] ELSE m_buffer[j]
  BY DEF Fill
<1>4. GetSize \in Nat /\ m_regionASize \in Nat /\ m_regionBSize \in Nat /\ m_regionAPointer \in Nat
  BY DEF GetSize, Inv, Typed
<1> SUFFICES ASSUME NEW i \in 1..GetSize'
             PROVE  Contents'[i] = IF i <= GetSize THEN Contents[i] ELSE data[i - GetSize]
  BY <1>2
<1>5. i \in Nat /\ i >= 1 /\ i <= m_regionASize + m_regionBSize + Len(data)
  BY <1>1, <1>2, <1>4 DEF GetSize
<1>6. Contents'[i] = IF i <= m_regionASize' THEN m_buffer'[m_regionAPointer' + i - 1]
                     ELSE m_buffer'[m_regionBPointer' + i - m_regionASize' - 1]
  BY DEF Contents, Oldest
<1>7. CASE AllocatedB = 0
  <2>1. /\ m_regionBPointer' = 0 /\ m_regionASize' = m_regionASize
        /\ m_regionAPointer' = m_regionAPointer
    BY <1>7 DEF Fill, NULL
  <2>2. /\ WriteOffset = m_regionBSize /\ Len(data) <= m_regionAPointer - m_regionBSize
        /\ m_regionAPointer + m_regionASize <= Size
        /\ m_regionBSize > 0 => m_regionBPointer = 0
    BY <1>7, RoomFacts DEF NULL, Inv, Typed, RegionsApart
  <2>3. CASE i <= m_regionASize
    <3>1. m_regionAPointer + i - 1 \in Offset
      BY <1>4, <1>5, <2>2, <2>3 DEF Offset
    <3>2. m_buffer'[m_regionAPointer + i - 1] = m_buffer[m_regionAPointer + i - 1]
      BY <1>1, <1>3, <1>4, <1>5, <2>2, <3>1
    <3>3. i \in 1..GetSize
      BY <1>4, <1>5, <2>3 DEF GetSize
    <3> QED
      BY <1>6, <2>1, <2>3, <3>2, <3>3, ContentsAt
  <2>4. CASE i > m_regionASize
    <3> DEFINE j == i - m_regionASize - 1
    <3>1. j \in Offset /\ j < m_regionBSize + Len(data)
      BY <1>1, <1>4, <1>5, <2>2, <2>4 DEF Offset
    <3>2. Contents'[i] = m_buffer'[j]
      BY <1>4, <1>5, <1>6, <2>1, <2>4
    <3>3. CASE i <= GetSize
      <4>1. j < m_regionBSize /\ m_regionBPointer + i - m_regionASize - 1 = j
        BY <1>4, <1>5, <2>2, <2>4, <3>3 DEF GetSize
      <4>2. m_buffer'[j] = m_buffer[j]
        BY <1>1, <1>3, <1>4, <2>2, <3>1, <4>1
      <4> QED
        BY <1>4, <1>5, <2>4, <3>2, <3>3, <4>1, <4>2, ContentsAt
    <3>4. CASE i > GetSize
      <4>1. j \in m_regionBSize..(m_regionBSize + Len(data) - 1)
        BY <1>1, <1>4, <1>5, <3>1, <3>4 DEF GetSize
      <4>2. m_buffer'[j] = data[j - m_regionBSize + 1]
        BY <1>3, <2>2, <3>1, <4>1
      <4>3. j - m_regionBSize + 1 = i - GetSize
        BY <1>4, <1>5 DEF GetSize
      <4> QED
        BY <1>4, <1>5, <3>2, <3>4, <4>2, <4>3
    <3> QED
      BY <1>4, <1>5, <3>3, <3>4
  <2> QED
    BY <1>4, <1>5, <2>3, <2>4
<1>8. CASE AllocatedB = NULL
  <2>1. /\ m_regionASize' = m_regionASize + Len(data)
        /\ m_regionAPointer' = m_regionAPointer
    BY <1>8 DEF Fill
  <2>2. /\ WriteOffset = m_regionAPointer + m_regionASize /\ m_regionBSize = 0
        /\ Len(data) <= Size - m_regionAPointer - m_regionASize
    BY <1>8, RoomFacts DEF NULL
  <2>3. i <= m_regionASize + Len(data) /\ GetSize = m_regionASize
    BY <1>4, <1>5, <2>2 DEF GetSize
  <2>4. m_regionAPointer + i - 1 \in Offset
    BY <1>1, <1>4, <1>5, <2>2, <2>3 DEF Offset
  <2>5. Contents'[i] = m_buffer'[m_regionAPointer + i - 1]
    BY <1>6, <2>1, <2>3
  <2>6. CASE i <= GetSize
    <3>1. m_buffer'[m_regionAPointer + i - 1] = m_buffer[m_regionAPointer + i - 1]
      BY <1>1, <1>3, <1>4, <1>5, <2>2, <2>3, <2>4, <2>6
    <3>2. i \in 1..GetSize
      BY <1>4, <1>5, <2>6
    <3> QED
      BY <2>3, <2>5, <2>6, <3>1, <3>2, ContentsAt
  <2>7. CASE i > GetSize
    <3> DEFINE j == m_regionAPointer + i - 1
    <3>1. j \in WriteOffset..(WriteOffset + Len(data) - 1)
      BY <1>1, <1>4, <1>5, <2>2, <2>3, <2>7
    <3>2. j - WriteOffset + 1 = i - GetSize
      BY <1>4, <1>5, <2>2, <2>3
    <3>3. j \in Offset /\ Contents'[i] = m_buffer'[j]
      BY <2>4, <2>5
    <3>4. ~(i <= GetSize)
      BY <1>4, <1>5, <2>7
    <3> HIDE DEF j
    <3>5. m_buffer'[j] = data[j - WriteOffset + 1]
      BY <1>3, <3>1, <3>3
    <3> QED
      BY <3>2, <3>3, <3>4, <3>5
  <2> QED
    BY <1>4, <1>5, <2>6, <2>7
<1> QED
  BY <1>7, <1>8, RoomFacts
LEMMA CutRemoves ==
  ASSUME Inv, NEW n \in 0..GetSize, Cut(n)
  PROVE  /\ GetSize' = GetSize - n
         /\ \A i \in 1..(GetSize - n) : Contents'[i] = Contents[n + i]
<1> USE SizeAssumption
<1>1. /\ GetSize \in Nat /\ m_regionASize \in Nat /\ m_regionBSize \in Nat
      /\ m_regionAPointer \in Nat /\ GetSize = m_regionASize + m_regionBSize
      /\ n \in Nat /\ n <= GetSize
  BY DEF GetSize, Inv, Typed
<1>2. \A i : Contents'[i] = Oldest(GetSize)'[i]
  BY DEF Contents
<1>3. CASE /\ n < m_regionASize
           /\ m_regionASize' = m_regionASize - n
           /\ m_regionAPointer' = m_regionAPointer + n
           /\ UNCHANGED <<m_buffer, m_regionBPointer, m_regionBSize>>
  <2>1. GetSize' = GetSize - n
    BY <1>1, <1>3 DEF GetSize
  <2>2. ASSUME NEW i \in 1..(GetSize - n) PROVE Contents'[i] = Contents[n + i]
    <3>1. i \in 1..GetSize' /\ n + i \in 1..GetSize /\ i \in Nat
      BY <1>1, <2>1
    <3>2. Contents'[i] = IF i <= m_regionASize' THEN m_buffer'[m_regionAPointer' + i - 1]
                         ELSE m_buffer'[m_regionBPointer' + i - m_regionASize' - 1]
      BY <3>1 DEF Contents, Oldest
    <3>3. Contents[n + i] = IF n + i <= m_regionASize THEN m_buffer[m_regionAPointer + (n + i) - 1]
                            ELSE m_buffer[m_regionBPointer + (n + i) - m_regionASize - 1]
      BY <3>1, ContentsAt
    <3>4. /\ i <= m_regionASize' <=> n + i <= m_regionASize
          /\ m_regionAPointer' + i - 1 = m_regionAPointer + (n + i) - 1
          /\ m_regionBPointer' + i - m_regionASize' - 1 = m_regionBPointer + (n + i) - m_regionASize - 1
      BY <1>1, <1>3, <3>1 DEF Inv, Typed, NULL
    <3> QED
      BY <1>3, <3>2, <3>3, <3>4
  <2> QED
    BY <2>1, <2>2
<1>4. CASE /\ n >= m_regionASize
           /\ m_buffer' = [i \in Offset |-> IF i < GetSize - n
                                THEN m_buffer[m_regionBPointer + n - m_regionASize + i]
                                ELSE m_buffer[i]]
           /\ m_regionAPointer' = 0 /\ m_regionASize' = GetSize - n
           /\ m_regionBPointer' = NULL /\ m_regionBSize' = 0
  <2>1. GetSize' = GetSize - n
    BY <1>1, <1>4 DEF GetSize
  <2>2. ASSUME NEW i \in 1..(GetSize - n) PROVE Contents'[i] = Contents[n + i]
    <3>1. i \in 1..GetSize' /\ n + i \in 1..GetSize /\ i \in Nat
      BY <1>1, <2>1
    <3>2. Contents'[i] = IF i <= m_regionASize' THEN m_buffer'[m_regionAPointer' + i - 1]
                         ELSE m_buffer'[m_regionBPointer' + i - m_regionASize' - 1]
      BY <3>1 DEF Contents, Oldest
    <3>3. Contents'[i] = m_buffer'[i - 1]
      <4>1. i <= m_regionASize' /\ m_regionAPointer' + i - 1 = i - 1
        BY <1>1, <1>4, <3>1
      <4> QED
        BY <3>2, <4>1
    <3>4. i - 1 \in Offset /\ i - 1 < GetSize - n
      <4>1. GetSize <= Size
        BY ContentsIsSeq
      <4> QED
        BY <1>1, <3>1, <4>1 DEF Offset
    <3>5. m_buffer'[i - 1] = m_buffer[m_regionBPointer + n - m_regionASize + (i - 1)]
      BY <1>4, <3>4
    <3>6. Contents[n + i] = m_buffer[m_regionBPointer + (n + i) - m_regionASize - 1]
      <4>1. ~(n + i <= m_regionASize)
        BY <1>1, <1>4, <3>1
      <4> QED
        BY <3>1, <4>1, ContentsAt
    <3>7. m_regionBPointer + n - m_regionASize + (i - 1) = m_regionBPointer + (n + i) - m_regionASize - 1
      BY <1>1, <3>1 DEF Inv, Typed, NULL
    <3> QED
      BY <3>3, <3>5, <3>6, <3>7
  <2> QED
    BY <2>1, <2>2
<1> QED
  BY <1>3, <1>4, CutFacts

(* Put: a write of data appends it. *)
LEMMA FillIsPut ==
  ASSUME Inv, NEW data \in BytesUpTo(Size), Len(data) <= Room, Fill(data)
  PROVE  Fifo!Put
<1>1. Inv' /\ moved' = data
  BY FillInv DEF Fill
<1>2. /\ Contents \in Seq(Byte) /\ Len(Contents) = GetSize /\ GetSize \in 0..Size
      /\ Contents' \in Seq(Byte) /\ Len(Contents') = GetSize' /\ GetSize' \in 0..Size
  <2>1. Contents \in Seq(Byte) /\ Len(Contents) = GetSize /\ GetSize \in 0..Size
    BY ContentsIsSeq
  <2>2. (Contents \in Seq(Byte) /\ Len(Contents) = GetSize /\ GetSize \in 0..Size)'
    BY <1>1, ContentsIsSeq, PTL
  <2> QED
    BY <2>1, <2>2
<1>3. data \in Seq(Byte) /\ Len(data) \in 0..Size
  BY BytesUpToSeq
<1>4. Contents' = Contents \o data
  <2>1. /\ Contents \o data \in Seq(Byte)
        /\ Len(Contents \o data) = GetSize + Len(data)
        /\ \A i \in 1..(GetSize + Len(data)) :
             (Contents \o data)[i] = IF i <= GetSize THEN Contents[i] ELSE data[i - GetSize]
    BY <1>2, <1>3, ConcatProperties
  <2>2. /\ GetSize' = GetSize + Len(data)
        /\ \A i \in 1..GetSize' : Contents'[i] = IF i <= GetSize THEN Contents[i]
                                                 ELSE data[i - GetSize]
    BY FillAppends
  <2> QED
    BY <1>2, <2>1, <2>2, SeqEqual
<1>5. GetSize + Len(data) <= Size
  BY <1>2, FillAppends
<1> QED
  BY <1>1, <1>2, <1>4, <1>5 DEF Fifo!Put, Fifo!Bytes, BytesUpTo, Contents
(* Take: a cut of n bytes that hands out the n oldest ones. *)
LEMMA CutIsTake ==
  ASSUME Inv, NEW n \in 0..GetSize, Cut(n), moved' = Oldest(n)
  PROVE  Fifo!Take
<1>1. /\ Contents \in Seq(Byte) /\ Len(Contents) = GetSize /\ GetSize \in 0..Size
      /\ Contents' \in Seq(Byte) /\ Len(Contents') = GetSize' /\ GetSize' \in 0..Size
  <2>1. Contents \in Seq(Byte) /\ Len(Contents) = GetSize /\ GetSize \in 0..Size
    BY ContentsIsSeq
  <2>2. Inv'
    BY CutInv
  <2>3. (Contents \in Seq(Byte) /\ Len(Contents) = GetSize /\ GetSize \in 0..Size)'
    BY <2>2, ContentsIsSeq, PTL
  <2> QED
    BY <2>1, <2>3
<1>2. n \in Nat /\ n <= GetSize /\ GetSize \in Nat
  BY <1>1, SizeAssumption
<1>3. moved' \in Seq(Byte) /\ Len(moved') = n /\ moved' \in [1..n -> Byte] /\ n \in 0..Size
  BY <1>2, OldestIsSeq, BytesAreSeq
<1>4. GetSize' = GetSize - n /\ \A i \in 1..(GetSize - n) : Contents'[i] = Contents[n + i]
  BY CutRemoves
<1>5. \A i \in 1..n : moved'[i] = Contents[i]
  <2> SUFFICES ASSUME NEW i \in 1..n PROVE moved'[i] = Contents[i]
    OBVIOUS
  <2>1. i \in 1..GetSize
    BY <1>2
  <2> QED
    BY <2>1 DEF Contents, Oldest
<1>6. Contents = moved' \o Contents'
  <2> DEFINE both == moved' \o Contents'
  <2>1. /\ both \in Seq(Byte) /\ Len(both) = n + GetSize'
        /\ \A i \in 1..(n + GetSize') : both[i] = IF i <= n THEN moved'[i] ELSE Contents'[i - n]
    <3>1. \A s, t \in Seq(Byte) :
            /\ s \o t \in Seq(Byte) /\ Len(s \o t) = Len(s) + Len(t)
            /\ \A i \in 1..(Len(s) + Len(t)) :
                 (s \o t)[i] = IF i <= Len(s) THEN s[i] ELSE t[i - Len(s)]
      BY ConcatProperties
    <3>2. moved' \in Seq(Byte) /\ Contents' \in Seq(Byte)
      BY <1>1, <1>3
    <3>3. /\ both \in Seq(Byte) /\ Len(both) = Len(moved') + Len(Contents')
          /\ \A i \in 1..(Len(moved') + Len(Contents')) :
               both[i] = IF i <= Len(moved') THEN moved'[i] ELSE Contents'[i - Len(moved')]
      BY <3>1, <3>2
    <3>4. Len(moved') = n /\ Len(Contents') = GetSize'
      BY <1>1, <1>3
    <3> QED
      BY <3>3, <3>4
  <2>2. n + GetSize' = GetSize
    BY <1>2, <1>4
  <2>3. ASSUME NEW i \in 1..GetSize PROVE Contents[i] = both[i]
    <3> HIDE DEF both
    <3>1. CASE i <= n
      <4>1. i \in 1..n
        BY <1>2, <3>1
      <4> QED
        BY <1>5, <2>1, <2>2, <3>1, <4>1
    <3>2. CASE ~(i <= n)
      <4>1. i - n \in 1..(GetSize - n) /\ n + (i - n) = i
        BY <1>2, <3>2
      <4>2. Contents'[i - n] = Contents[i]
        BY <1>4, <4>1
      <4> QED
        BY <2>1, <2>2, <3>2, <4>2
    <3> QED
      BY <3>1, <3>2
  <2> HIDE DEF both
  <2>4. Contents = both
    BY <1>1, <2>1, <2>2, <2>3, SeqEqual
  <2> QED
    BY <2>4 DEF both
<1>7. Contents' \in Fifo!Bytes /\ moved' \in Fifo!Bytes
  <2>1. Contents' \in [1..GetSize' -> Byte]
    BY <1>1, LenProperties
  <2> QED
    BY <1>1, <1>3, <2>1 DEF Fifo!Bytes
<1> QED
  BY <1>6, <1>7 DEF Fifo!Take, Contents

LEMMA GetSpaceStutters ==
  ASSUME Inv, GetSpace
  PROVE  UNCHANGED <<Contents, moved>>
<1>1. UNCHANGED <<m_buffer, m_regionAPointer, m_regionASize, m_regionBSize, moved>>
  BY DEF GetSpace
<1>2. CASE m_regionBPointer' = m_regionBPointer
  BY <1>1, <1>2 DEF Contents, Oldest, GetSize
<1>3. CASE m_regionBSize = 0
  <2>1. GetSize = m_regionASize /\ m_regionASize \in Nat
    BY <1>3 DEF GetSize, Inv, Typed
  <2>2. \A i \in 1..GetSize : i <= m_regionASize
    BY <2>1
  <2>3. Contents = [i \in 1..m_regionASize |-> m_buffer[m_regionAPointer + i - 1]]
    BY <2>1, <2>2 DEF Contents, Oldest
  <2>4. GetSize' = m_regionASize
    BY <1>1, <1>3, <2>1 DEF GetSize
  <2>5. Contents' = [i \in 1..m_regionASize |-> m_buffer[m_regionAPointer + i - 1]]
    BY <1>1, <2>1, <2>4 DEF Contents, Oldest
  <2> QED
    BY <1>1, <2>3, <2>5
<1> QED
  BY <1>2, <1>3 DEF GetSpace, AllocatedB, Inv, RegionsApart

LEMMA RemoveIsTake == Inv /\ Remove => Fifo!Take
<1> SUFFICES ASSUME Inv, NEW len \in 0..GetContiguiousBytes, Cut(len), moved' = Sent(len)
             PROVE  Fifo!Take
  BY DEF Remove
<1>1. len \in 0..GetSize /\ GetSize \in Nat /\ len \in Nat
  BY ContiguousPart DEF GetSize, Inv, Typed
<1>2. Sent(len) = Oldest(len)
  <2>1. CASE m_regionASize = 0
    <3>1. GetSize = 0
      BY <2>1 DEF GetSize, Inv, Typed, RegionsApart, EmptyAIsReset
    <3>2. 1..len = {}
      BY <1>1, <3>1
    <3> QED
      BY <3>2 DEF Sent, Oldest
  <2>2. CASE m_regionASize # 0
    <3>1. GetBufferStart = m_regionAPointer /\ \A i \in 1..len : i <= m_regionASize
      BY <2>2 DEF GetBufferStart, GetContiguiousBytes, Inv, Typed
    <3> QED
      BY <3>1 DEF Sent, Oldest
  <2> QED
    BY <2>1, <2>2
<1> QED
  BY <1>1, <1>2, CutIsTake

(* CircularBuffer implements ByteFifo: whatever the sizes and the order of   *)
(* the writes and reads, bytes come out in the order they went in, each      *)
(* once (CircularBuffer::Write, Read, Remove and the memmove between them).  *)
THEOREM Implements == Spec => IsFifo
<1>1. Init => Fifo!Init
  <2> SUFFICES ASSUME Init PROVE Oldest(GetSize) = <<>> /\ moved = <<>>
    BY DEF Fifo!Init
  <2>1. GetSize = 0 /\ Inv
    BY InitInv DEF Init, GetSize
  <2>2. Oldest(GetSize) \in Seq(Byte) /\ Len(Oldest(GetSize)) = 0
    BY <2>1, ContentsIsSeq DEF Contents
  <2>3. Oldest(GetSize) = <<>>
    BY <2>2, EmptySeq
  <2> QED
    BY <2>3 DEF Init
<1>2. Inv /\ [Next]_vars => [Fifo!Next]_<<Contents, moved>>
  <2> SUFFICES ASSUME Inv, [Next]_vars
               PROVE  Fifo!Next \/ UNCHANGED <<Contents, moved>>
    OBVIOUS
  <2>1. CASE Write
    BY <2>1, FillIsPut, GetSpaceStutters DEF Write, Fifo!Next
  <2>2. CASE Receive
    <3>1. PICK data \in BytesUpTo(Size) : Len(data) \in 1..Room /\ Fill(data)
      BY <2>2 DEF Receive
    <3>2. Len(data) <= Room
      BY <3>1, RoomFacts, SizeAssumption DEF Inv, Typed
    <3> QED
      BY <3>1, <3>2, FillIsPut DEF Fifo!Next
  <2>3. CASE GetSpace
    BY <2>3, GetSpaceStutters
  <2>4. CASE Read
    BY <2>4, CutIsTake DEF Read, Fifo!Next
  <2>5. CASE Remove
    BY <2>5, RemoveIsTake DEF Fifo!Next
  <2>6. CASE UNCHANGED vars
    BY <2>6 DEF vars, regions, Contents, Oldest, GetSize
  <2> QED
    BY <2>1, <2>2, <2>3, <2>4, <2>5, <2>6 DEF Next
<1> QED
  BY <1>1, <1>2, Invariant, PTL DEF Spec, IsFifo, Fifo!Spec, Contents
=============================================================================
