------------------------------ MODULE Rle_proof ------------------------------
(***************************************************************************)
(* For runs of any length, any rows, any packets and any output size:      *)
(* unpack stays inside its input and its output and fills the output, and  *)
(* a row that was packed comes back.                                       *)
(*                                                                         *)
(* Inv adds to Fits that input, output and header are numbers, so that a   *)
(* run has at least one byte whatever the packet says.  Restores adds the  *)
(* marks: the places of row and packet at which unpack will stand, put     *)
(* down one by one while pack goes on.                                     *)
(***************************************************************************)
EXTENDS Rle, SequenceTheorems, TLAPS

Typed ==
  /\ in \in Seq(Int) /\ in_ix \in Nat
  /\ out \in Seq(Int) /\ out_size \in Nat
  /\ run \in Int /\ zerochains \in Nat /\ nibble \in {0, 1}

Inv == Typed /\ Fits

LEMMA HalfIsNat == Half \in Nat \ {0}
BY RleAssumption DEF Half

LEMMA InitInv == Init => Inv
<1> SUFFICES ASSUME Init PROVE Inv
  OBVIOUS
<1>1. in \in Seq(Int) /\ out \in Seq(Int) /\ out_ix = 0
  BY RleAssumption, EmptySeq DEF Init, out_ix
<1>2. Len(in) \in Nat
  BY <1>1, LenProperties
<1>3. run \in Int /\ zerochains \in Nat /\ nibble \in {0, 1} /\ in_ix = 0
  BY DEF Init
<1>5. out_size \in Nat
  <2>1. out_size = 0 \/ out_size \in Slack
    BY DEF Init
  <2>2. \A n \in Slack : n \in Nat
    BY RleAssumption
  <2> QED
    BY <2>1, <2>2
<1>4. fn # "true"
  BY DEF Init
<1> QED
  BY <1>1, <1>2, <1>3, <1>4, <1>5 DEF Inv, Typed, Fits

(* A first part of a sequence, empty when its end is before its start. *)
LEMMA FirstPart ==
  ASSUME NEW s \in Seq(Int), NEW n \in Int, n <= Len(s)
  PROVE  SubSeq(s, 1, n) \in Seq(Int) /\ Len(SubSeq(s, 1, n)) \in Nat
<1>1. CASE n >= 1
  BY <1>1, SubSeqProperties, LenProperties
<1>2. CASE n < 1
  <2>1. SubSeq(s, 1, n) = << >>
    BY <1>2, SubSeqEmpty
  <2> QED
    BY <2>1, EmptySeq
<1> QED
  BY <1>1, <1>2

LEMMA ZerosIsSeq ==
  ASSUME NEW n \in Nat
  PROVE  Zeros(n) \in Seq(Int) /\ Len(Zeros(n)) = n
<1>1. Zeros(n) \in [1..n -> Int]
  BY DEF Zeros
<1> QED
  BY <1>1, SeqDef

(* pack only appends numbers to its output. *)
LEMMA PackRunInv ==
  ASSUME Inv, PackRun
  PROVE  Inv'
<1> DEFINE zero == in[in_ix + 1] = 0
           ix == IF nibble = 0 THEN out_ix + 1 ELSE nibble_ix
           data(k) == IF zero THEN <<>> ELSE SubSeq(in, in_ix + 1, in_ix + k)
           count(k) == IF zero THEN k + Run - 1 ELSE Run - k
           headed(k) == (IF nibble = 0 THEN Append(out, 0) ELSE out) \o data(k)
<1>1. PICK k \in 1..Run :
        /\ in_ix + k <= Len(in)
        /\ out' = [headed(k) EXCEPT ![ix] = IF nibble = 1 THEN @ + Half * count(k) ELSE count(k)]
        /\ in_ix' = in_ix + k
  BY DEF PackRun, LongestRun, Alike
<1> HIDE DEF zero, ix
<1>2. k \in Nat \ {0} /\ Run \in Nat \ {0} /\ Half \in Nat /\ in_ix \in Nat /\ Len(in) \in Nat
  BY RleAssumption, HalfIsNat, LenProperties DEF Inv, Typed
<1>3. data(k) \in Seq(Int)
  BY <1>1, <1>2, SubSeqProperties, EmptySeq DEF Inv, Typed
<1>4. headed(k) \in Seq(Int)
  BY <1>3, ConcatProperties, AppendProperties DEF Inv, Typed
<1>5. count(k) \in Int
  BY <1>2
<1>6. \A x \in Int : x + Half * count(k) \in Int
  BY <1>2, <1>5
<1> HIDE DEF headed, count, data
<1>7. out' \in Seq(Int)
  <2>1. CASE ix \in 1..Len(headed(k))
    <3>1. headed(k)[ix] \in Int
      BY <1>4, <2>1, ElementOfSeq
    <3> QED
      BY <1>1, <1>4, <1>5, <1>6, <2>1, <3>1, ExceptSeq
  <2>2. CASE ix \notin 1..Len(headed(k))
    <3>1. DOMAIN headed(k) = 1..Len(headed(k))
      BY <1>4, LenProperties
    <3>2. out' = headed(k)
      BY <1>1, <1>4, <2>2, <3>1
    <3> QED
      BY <1>4, <3>2
  <2> QED
    BY <2>1, <2>2
<1>8. in_ix' \in Nat /\ in_ix' <= Len(in)
  BY <1>1, <1>2
<1>9. /\ in' = in /\ fn' = fn /\ fn = "pack" /\ out_size' = out_size /\ run' = run
      /\ zerochains' \in Nat /\ nibble' \in {0, 1}
  BY DEF PackRun, Inv, Typed
<1> QED
  BY <1>7, <1>8, <1>9 DEF Inv, Typed, Fits

LEMMA PackEndsInv ==
  ASSUME Inv, PackEnds
  PROVE  Inv'
<1>1. Dropped \in Nat
  BY DEF Dropped, Inv, Typed
<1>2. out_ix \in Nat
  BY LenProperties DEF out_ix, Inv, Typed
<1>3. in' \in Seq(Int) /\ Len(in') \in Nat
  BY <1>1, <1>2, FirstPart DEF PackEnds, Inv, Typed, out_ix
<1>4. out_size' \in Nat
  BY RleAssumption, LenProperties DEF PackEnds, Inv, Typed
<1>5. out' \in Seq(Int) /\ out_ix' = 0
  BY EmptySeq DEF PackEnds, out_ix
<1> QED
  BY <1>3, <1>4, <1>5 DEF PackEnds, Inv, Typed, Fits

(* A run of a header, whatever it says. *)
LEMMA ExpandStays ==
  ASSUME Inv, fn = "unpack", NEW count \in Int, NEW next \in Nat, next <= Len(in),
         Expand(count, next), in' = in, out_size' = out_size
  PROVE  /\ out' \in Seq(Int) /\ in_ix' \in Nat
         /\ in_ix' <= Len(in') /\ out_ix' <= out_size' /\ fn' # "true"
<1> DEFINE length == IF count >= 0 THEN count + 1 ELSE -count
           rest == Len(in) - next
           copied == IF length > rest THEN rest ELSE length
<1>1. /\ length \in Nat \ {0} /\ rest \in Nat /\ copied \in Nat /\ copied <= length
      /\ next + copied <= Len(in)
  BY LenProperties DEF Inv, Typed
<1>2. out \in Seq(Int) /\ in \in Seq(Int) /\ out_ix \in Nat /\ out_ix <= out_size /\ out_size \in Nat
  BY LenProperties DEF Inv, Typed, Fits, out_ix
<1>3. CASE NoRoom(length)
  BY <1>2, <1>3 DEF Expand, out_ix
<1>4. CASE ~NoRoom(length) /\ count >= 0
  <2>1. out' = out \o Zeros(length) /\ in_ix' = next /\ fn' = fn
    BY <1>4 DEF Expand
  <2>2. Zeros(length) \in Seq(Int) /\ Len(Zeros(length)) = length
    BY <1>1, ZerosIsSeq
  <2> DEFINE zeros == Zeros(length)
  <2>3. zeros \in Seq(Int) /\ Len(zeros) = length /\ out' = out \o zeros
    BY <2>1, <2>2
  <2> HIDE DEF zeros, length
  <2>4. out' \in Seq(Int) /\ Len(out') = Len(out) + length
    BY <1>2, <2>3, ConcatProperties
  <2> QED
    BY <1>1, <1>2, <1>4, <2>1, <2>4 DEF NoRoom, out_ix
<1>5. CASE ~NoRoom(length) /\ ~(count >= 0)
  <2>1. out' = out \o SubSeq(in, next + 1, next + copied) /\ in_ix' = next + copied /\ fn' = fn
    BY <1>5 DEF Expand
  <2>2. SubSeq(in, next + 1, next + copied) \in Seq(Int)
        /\ Len(SubSeq(in, next + 1, next + copied)) = copied
    <3> HIDE DEF copied
    <3>1. CASE copied = 0
      <4>1. SubSeq(in, next + 1, next + copied) = <<>>
        BY <1>2, <3>1, SubSeqEmpty
      <4> QED
        BY <3>1, <4>1, EmptySeq
    <3>2. CASE copied > 0
      BY <1>1, <1>2, <3>2, SubSeqProperties
    <3> QED
      BY <1>1, <3>1, <3>2
  <2>3. out' \in Seq(Int) /\ Len(out') = Len(out) + copied
    BY <1>2, <2>1, <2>2, ConcatProperties
  <2> HIDE DEF length, copied
  <2> QED
    BY <1>1, <1>2, <1>5, <2>1, <2>3 DEF NoRoom, out_ix
<1> QED
  BY <1>3, <1>4, <1>5

LEMMA UnpackInv ==
  ASSUME Inv, UnpackLow \/ UnpackHigh \/ UnpackEnds
  PROVE  Inv'
<1>1. CASE UnpackLow
  <2>1. in[in_ix + 1] \in Int
    BY <1>1, ElementOfSeq, LenProperties DEF UnpackLow, Inv, Typed
  <2>2. (in[in_ix + 1] % Half) - Run \in Int
    BY <2>1, HalfIsNat, RleAssumption
  <2>3. in_ix + 1 \in Nat /\ in_ix + 1 <= Len(in)
    BY <1>1, LenProperties DEF UnpackLow, Inv, Typed
  <2>4. /\ out' \in Seq(Int) /\ in_ix' \in Nat
        /\ in_ix' <= Len(in') /\ out_ix' <= out_size' /\ fn' # "true"
    BY <1>1, <2>2, <2>3, ExpandStays DEF UnpackLow
  <2> QED
    BY <1>1, <2>1, <2>4 DEF UnpackLow, Inv, Typed, Fits
<1>2. CASE UnpackHigh
  <2>1. (run \div Half) - Run \in Int
    BY HalfIsNat, RleAssumption DEF Inv, Typed
  <2>2. /\ out' \in Seq(Int) /\ in_ix' \in Nat
        /\ in_ix' <= Len(in') /\ out_ix' <= out_size' /\ fn' # "true"
    BY <1>2, <2>1, ExpandStays DEF UnpackHigh, Inv, Typed, Fits
  <2> QED
    BY <1>2, <2>2 DEF UnpackHigh, Inv, Typed, Fits
<1>3. CASE UnpackEnds
  <2>1. out_ix \in Nat /\ out_size - out_ix \in Nat
    BY <1>3, LenProperties DEF UnpackEnds, Inv, Typed, Fits, out_ix
  <2>2. out' \in Seq(Int) /\ out_ix' = out_size
    <3> DEFINE n == out_size - out_ix
    <3>1. Zeros(n) \in Seq(Int) /\ Len(Zeros(n)) = n
      BY <2>1, ZerosIsSeq
    <3>2. out \in Seq(Int) /\ out' = out \o Zeros(n)
      BY <1>3 DEF UnpackEnds, Inv, Typed
    <3>3. out' \in Seq(Int) /\ Len(out') = Len(out) + n
      <4> HIDE DEF n
      <4> QED
        BY <3>1, <3>2, ConcatProperties
    <3> QED
      BY <2>1, <3>3 DEF out_ix, Inv, Typed
  <2> QED
    BY <1>3, <2>2 DEF UnpackEnds, Inv, Typed, Fits
<1> QED
  BY <1>1, <1>2, <1>3

(* Whatever bytes a packet brings and whatever a row holds, unpack reads and *)
(* writes inside what it was given, and when it succeeds it has filled the   *)
(* output (RleModule::unpack, RleModule.cpp:30).                             *)
THEOREM InBounds == Spec => []Fits
<1>1. Init => Inv
  BY InitInv
<1>2. Inv /\ [Next]_vars => Inv'
  <2> SUFFICES ASSUME Inv, [Next]_vars PROVE Inv'
    OBVIOUS
  <2>1. CASE UNCHANGED vars
    BY <2>1 DEF vars, Inv, Typed, Fits, out_ix
  <2> QED
    BY <2>1, PackRunInv, PackEndsInv, UnpackInv DEF Next
<1>3. Inv => Fits
  BY DEF Inv
<1> QED
  BY <1>1, <1>2, <1>3, PTL DEF Spec
-----------------------------------------------------------------------------
(* What was packed comes back.  A mark is a place where unpack stands before *)
(* a half header: i bytes of the row are out, q of the packet read, n tells  *)
(* which half is next, and h is the place of its header when n is 1.         *)
Mark == [i : Nat, q : Nat, n : {0, 1}, h : Nat]

CountAt(m, s) == (IF m.n = 0 THEN s[m.q + 1] % Half ELSE s[m.h] \div Half) - Run
Behind(m) == IF m.n = 0 THEN m.q + 1 ELSE m.q

(* From mark m unpack of s comes to mark x, and adds what row r has between. *)
Leads(m, x, s, r) ==
  /\ x.n = 1 - m.n
  /\ m.n = 0 => x.h = m.q + 1
  /\ CountAt(m, s) \in Int
  /\ CountAt(m, s) >= 0 => /\ x.i = m.i + CountAt(m, s) + 1
                           /\ x.q = Behind(m)
                           /\ \A k \in (m.i + 1)..x.i : r[k] = 0
  /\ CountAt(m, s) < 0 => /\ x.i = m.i - CountAt(m, s)
                          /\ x.q = Behind(m) - CountAt(m, s)
                          /\ \A k \in 1..(-CountAt(m, s)) : s[Behind(m) + k] = r[m.i + k]

Marks(S) == /\ S \subseteq Mark
            /\ \A m \in S : m.n = 1 => m.h \in 1..m.q
            /\ \E m \in S : m.i = 0 /\ m.q = 0 /\ m.n = 0

(* Where pack stands, and how much of its output it would not drop. *)
Here == [i |-> in_ix, q |-> out_ix, n |-> nibble, h |-> nibble_ix]
Kept == out_ix - Dropped

(* The marks of a row that is being packed: unpack would pass each of them,  *)
(* and what is dropped stands for zeros.                                     *)
Packed(S) ==
  /\ Marks(S) /\ Here \in S
  /\ \A m \in S : m.i <= in_ix /\ m.q <= out_ix
  /\ nibble = 1 => /\ nibble_ix \in 1..out_ix /\ out[nibble_ix] \in 0..(Half - 1)
                   /\ \A m \in S : m = Here \/ m.q < nibble_ix
  /\ \A m \in S : m = Here \/ \E x \in S : Leads(m, x, out, in) /\ (m.q < Kept => x.q <= Kept)
  /\ \A m \in S : m.q >= Kept => \A k \in (m.i + 1)..in_ix : in[k] = 0
  /\ Kept \in Nat /\ nibble_ix \in Nat

(* The same while the packet is unpacked, r being the row. *)
Unpacked(S, r) ==
  /\ Marks(S)
  /\ \A m \in S : m.i <= Len(r)
  /\ \A m \in S : m.q < Len(in) => \E x \in S : Leads(m, x, in, r) /\ x.q <= Len(in)
  /\ \A m \in S : m.q >= Len(in) => \A k \in (m.i + 1)..Len(r) : r[k] = 0
  /\ \E m \in S : /\ m.i = out_ix /\ m.q = in_ix /\ m.n = nibble
                  /\ m.n = 1 => run = in[m.h]
  /\ \A k \in 1..out_ix : out[k] = r[k]

Restores ==
  /\ fn = "pack" => row = <<in>> /\ \E S : Packed(S)
  /\ fn = "unpack" /\ row # <<>> =>
       /\ row[1] \in Seq(Int) /\ out_size >= Len(row[1])
       /\ \E S : Unpacked(S, row[1])
  /\ Restored

LEMMA Halves ==
  ASSUME NEW x \in 0..(Half - 1), NEW c \in Nat
  PROVE  /\ x % Half = x
         /\ (x + Half * c) % Half = x
         /\ (x + Half * c) \div Half = c
<1>1. PICK H \in Nat \ {0} : H = Half
  BY HalfIsNat
<1>2. PICK y \in Nat : y = x + H * c
  BY <1>1
<1>3. /\ y = H * (y \div H) + (y % H) /\ y \div H \in Nat /\ y % H \in 0..(H - 1)
  BY <1>1, <1>2
<1>4. \A a, b \in Nat : a < b => H * a + H <= H * b
  <2> SUFFICES ASSUME NEW a \in Nat, NEW b \in Nat, a < b PROVE H * a + H <= H * b
    OBVIOUS
  <2>1. PICK e \in Nat : b = a + 1 + e
    <3>1. b - a - 1 \in Nat /\ b = a + 1 + (b - a - 1)
      OBVIOUS
    <3>. QED
      BY <3>1
  <2>2. H * b = H * a + H + H * e /\ H * e \in Nat /\ H * a \in Nat
    BY <2>1
  <2>. QED
    BY <2>2
<1>5. y \div H = c
  <2>1. H * c \in Nat /\ H * (y \div H) \in Nat
    BY <1>3
  <2>2. CASE y \div H < c
    <3>1. H * (y \div H) + H <= H * c
      BY <1>3, <1>4, <2>2
    <3>. QED
      BY <1>1, <1>2, <1>3, <2>1, <3>1
  <2>3. CASE c < y \div H
    <3>1. H * c + H <= H * (y \div H)
      BY <1>3, <1>4, <2>3
    <3>. QED
      BY <1>1, <1>2, <1>3, <2>1, <3>1
  <2>. QED
    BY <1>3, <2>2, <2>3
<1>6. y % H = x
  <2>1. H * c \in Nat /\ H * (y \div H) = H * c
    BY <1>5
  <2>. QED
    BY <1>1, <1>2, <1>3, <2>1
<1>7. x % H = x
  BY <1>1
<1>. QED
  BY <1>1, <1>2, <1>5, <1>6, <1>7
LEMMA Lengths == ASSUME Inv PROVE /\ out_ix \in Nat /\ Len(in) \in Nat /\ in_ix \in Nat /\ Dropped \in Nat
                                  /\ Run \in Nat \ {0} /\ Half \in Nat \ {0} /\ Half = 2 * Run
<1>1. out_ix \in Nat /\ Len(in) \in Nat
  BY LenProperties DEF Inv, Typed, out_ix
<1>. QED
  BY <1>1, RleAssumption, HalfIsNat DEF Inv, Typed, Dropped, Half

(* A run of k bytes, zeros or not, whose half header is count, behind which   *)
(* its bytes are put.                                                        *)
Runs(k, zero, count, from, ix) ==
  /\ in_ix + k <= Len(in) /\ in_ix' = in_ix + k
  /\ count = IF zero THEN k + Run - 1 ELSE Run - k
  /\ from = IF nibble = 0 THEN out_ix + 1 ELSE out_ix
  /\ ix = IF nibble = 0 THEN out_ix + 1 ELSE nibble_ix
  /\ zero => \A j \in 1..k : in[in_ix + j] = 0
  /\ out_ix' = from + IF zero THEN 0 ELSE k
  /\ \A j \in 1..out_ix : j # ix => out'[j] = out[j]
  /\ out'[ix] = IF nibble = 1 THEN out[ix] + Half * count ELSE count
  /\ zero \/ \A j \in 1..k : out'[from + j] = in[in_ix + j]
  /\ nibble_ix' = ix /\ nibble' = 1 - nibble
  /\ zerochains' = IF zero THEN zerochains + 1 ELSE 0
  /\ UNCHANGED <<fn, in, out_size, run, row>>

LEMMA PackRuns ==
  ASSUME Inv, PackRun, nibble = 1 => nibble_ix \in 1..out_ix
  PROVE  \E k \in 1..Run, zero \in BOOLEAN, count \in 0..(Half - 1), from \in Nat, ix \in Nat \ {0} :
           Runs(k, zero, count, from, ix)
<1>1. PICK zero \in BOOLEAN : zero <=> in[in_ix + 1] = 0
  OBVIOUS
<1>2. PICK ix : ix = IF nibble = 0 THEN out_ix + 1 ELSE nibble_ix
  OBVIOUS
<1>3. PICK from \in Nat : from = IF nibble = 0 THEN out_ix + 1 ELSE out_ix
  BY Lengths
<1>4. ix \in Nat \ {0} /\ ix <= from
  BY <1>2, <1>3, Lengths DEF Inv, Typed
<1> DEFINE data(k) == IF zero THEN <<>> ELSE SubSeq(in, in_ix + 1, in_ix + k)
           num(k) == IF zero THEN k + Run - 1 ELSE Run - k
           top == IF nibble = 0 THEN Append(out, 0) ELSE out
<1>5. PICK k \in 1..Run :
        /\ in_ix + k <= Len(in)
        /\ \A i \in 1..k : (in[in_ix + i] = 0) <=> (in[in_ix + 1] = 0)
        /\ out' = [top \o data(k) EXCEPT ![ix] = IF nibble = 1 THEN @ + Half * num(k) ELSE num(k)]
        /\ in_ix' = in_ix + k
  BY <1>1, <1>2 DEF PackRun, LongestRun, Alike
<1>6. PICK count \in 0..(Half - 1) : count = num(k)
  <2>1. Run \in Nat /\ k \in Nat /\ 1 <= k /\ k <= Run /\ Half = 2 * Run
    BY <1>5, Lengths
  <2>2. k + Run - 1 \in 0..(2 * Run - 1) /\ Run - k \in 0..(2 * Run - 1)
    BY <2>1
  <2>3. num(k) \in 0..(Half - 1)
    BY <2>1, <2>2
  <2>. QED
    BY <2>3
<1>7. k \in Nat \ {0} /\ Half \in Nat
  BY <1>5, Lengths
<1>8. top \in Seq(Int) /\ Len(top) = from /\ \A j \in 1..out_ix : top[j] = out[j]
  BY <1>3, LenProperties, AppendProperties DEF Inv, Typed, out_ix
<1>9. /\ data(k) \in Seq(Int) /\ Len(data(k)) = IF zero THEN 0 ELSE k
      /\ zero \/ \A j \in 1..k : data(k)[j] = in[in_ix + j]
  <2>1. CASE zero
    BY <2>1, EmptySeq
  <2>2. CASE ~zero
    <3>0. in \in Seq(Int) /\ in_ix + 1 \in Int /\ in_ix + k \in Int /\ in_ix + 1 <= in_ix + k
      BY <1>7, Lengths DEF Inv, Typed
    <3>1. \A j \in (in_ix + 1)..(in_ix + k) : in[j] \in Int
      <4> SUFFICES ASSUME NEW j \in (in_ix + 1)..(in_ix + k) PROVE in[j] \in Int
        OBVIOUS
      <4>1. j \in 1..Len(in)
        BY <1>5, <1>7, Lengths
      <4>. QED
        BY <3>0, <4>1, ElementOfSeq
    <3>2. PICK d : d = SubSeq(in, in_ix + 1, in_ix + k)
      OBVIOUS
    <3>6. PICK a, b \in Int : a = in_ix + 1 /\ b = in_ix + k
      BY <3>0
    <3>7. d = SubSeq(in, a, b) /\ a <= b /\ in \in Seq(Int) /\ \A j \in a..b : in[j] \in Int
      BY <3>0, <3>1, <3>2, <3>6
    <3>3. d \in Seq(Int) /\ Len(d) = b - a + 1 /\ \A j \in 1..(b - a + 1) : d[j] = in[a + j - 1]
      BY <3>7, SubSeqProperties
    <3>4. b - a + 1 = k /\ \A j \in 1..k : a + j - 1 = in_ix + j
      <4>1. PICK x \in Nat : x = in_ix
        BY Lengths
      <4>2. a = x + 1 /\ b = x + k
        BY <3>6, <4>1
      <4>. QED
        BY <1>7, <4>1, <4>2
    <3>5. data(k) = d
      BY <2>2, <3>2
    <3>. HIDE DEF data
    <3>. QED
      BY <2>2, <3>3, <3>4, <3>5
  <2>. QED
    BY <2>1, <2>2
<1>10. PICK all, d : d = data(k) /\ all = top \o d
  OBVIOUS
<1>. HIDE DEF top, data, num
<1>11. /\ all \in Seq(Int) /\ Len(all) = from + IF zero THEN 0 ELSE k
       /\ \A j \in 1..out_ix : all[j] = out[j]
       /\ zero \/ \A j \in 1..k : all[from + j] = in[in_ix + j]
  <2>1. /\ all \in Seq(Int) /\ Len(all) = Len(top) + Len(d)
        /\ \A j \in 1..Len(all) : all[j] = IF j <= Len(top) THEN top[j] ELSE d[j - Len(top)]
    <3>1. d \in Seq(Int) /\ top \in Seq(Int)
      BY <1>8, <1>9, <1>10
    <3>. QED
      BY <1>10, <3>1, ConcatProperties
  <2>2. out_ix <= Len(top)
    BY <1>3, <1>8, Lengths
  <2>5. Len(d) \in Nat /\ Len(d) = IF zero THEN 0 ELSE k
    BY <1>7, <1>9, <1>10
  <2>3. ASSUME NEW j \in 1..out_ix PROVE all[j] = out[j]
    <3>1. j \in 1..Len(all) /\ j <= Len(top)
      BY <1>8, <2>1, <2>2, <2>5, Lengths
    <3>. QED
      BY <1>8, <2>1, <3>1
  <2>4. ASSUME ~zero, NEW j \in 1..k PROVE all[from + j] = in[in_ix + j]
    <3>1. from + j \in 1..Len(all) /\ ~(from + j <= Len(top)) /\ from + j - Len(top) = j
      BY <1>7, <1>8, <2>1, <2>4, <2>5
    <3>2. d[j] = in[in_ix + j]
      BY <1>9, <1>10, <2>4
    <3>. QED
      BY <2>1, <3>1, <3>2
  <2>. QED
    BY <1>8, <2>1, <2>3, <2>4, <2>5
<1>12. PICK v : v = IF nibble = 1 THEN all[ix] + Half * count ELSE count
  OBVIOUS
<1>13. ix \in 1..Len(all)
  BY <1>4, <1>7, <1>11
<1>14. all[ix] \in Int /\ v \in Int
  <2>1. all[ix] \in Int
    BY <1>11, <1>13, ElementOfSeq
  <2>2. Half * count \in Int
    BY <1>7
  <2>. QED
    BY <1>12, <2>1, <2>2
<1>15. out' = [all EXCEPT ![ix] = v]
  BY <1>5, <1>6, <1>10, <1>12
<1>16. /\ out' \in Seq(Int) /\ Len(out') = Len(all) /\ out'[ix] = v
       /\ \A j \in 1..Len(all) : j # ix => out'[j] = all[j]
  BY <1>11, <1>13, <1>14, <1>15, ExceptSeq
<1>17. \A j \in 1..out_ix : j # ix => out'[j] = out[j]
  <2> SUFFICES ASSUME NEW j \in 1..out_ix, j # ix PROVE out'[j] = out[j]
    OBVIOUS
  <2>2. from >= out_ix /\ from \in Nat /\ out_ix \in Nat
    BY <1>3, Lengths
  <2>1. j \in 1..Len(all)
    BY <1>7, <1>11, <2>2
  <2>. QED
    BY <1>11, <1>16, <2>1
<1>18. out'[ix] = IF nibble = 1 THEN out[ix] + Half * count ELSE count
  <2>1. nibble = 1 => all[ix] = out[ix]
    BY <1>2, <1>11
  <2>. QED
    BY <1>12, <1>16, <2>1
<1>19. zero \/ \A j \in 1..k : out'[from + j] = in[in_ix + j]
  <2> SUFFICES ASSUME ~zero, NEW j \in 1..k PROVE out'[from + j] = in[in_ix + j]
    OBVIOUS
  <2>1. from + j \in 1..Len(all) /\ from + j # ix
    BY <1>4, <1>7, <1>11
  <2>. QED
    BY <1>11, <1>16, <2>1
<1>20. out_ix' = from + IF zero THEN 0 ELSE k
  BY <1>11, <1>16 DEF out_ix
<1>21. zero => \A j \in 1..k : in[in_ix + j] = 0
  BY <1>1, <1>5
<1>22. /\ nibble_ix' = ix /\ nibble' = 1 - nibble
       /\ zerochains' = IF zero THEN zerochains + 1 ELSE 0
       /\ UNCHANGED <<fn, in, out_size, run, row>>
  BY <1>1, <1>2 DEF PackRun
<1>23. Runs(k, zero, count, from, ix)
  BY <1>2, <1>3, <1>5, <1>6, <1>17, <1>18, <1>19, <1>20, <1>21, <1>22 DEF Runs, num
<1>. QED
  BY <1>4, <1>23
(* What a step of pack means for the marks. *)
LEMMA PackMarks ==
  ASSUME Inv, NEW S, Packed(S), PackRun
  PROVE  \E T : Packed(T)'
<1>1. PICK k \in 1..Run, zero \in BOOLEAN, count \in 0..(Half - 1), from \in Nat, ix \in Nat \ {0} :
        Runs(k, zero, count, from, ix)
  BY PackRuns DEF Packed
<1>2. PICK y : y = Here'
  OBVIOUS
<1>3. /\ y = [i |-> in_ix', q |-> out_ix', n |-> nibble', h |-> nibble_ix']
      /\ y.i = in_ix + k /\ y.n = 1 - nibble /\ y.h = ix /\ y.q = out_ix'
      /\ y.q = from + IF zero THEN 0 ELSE k
  BY <1>1, <1>2 DEF Here, Runs
<1>4. /\ Here \in S /\ Here.i = in_ix /\ Here.q = out_ix /\ Here.n = nibble /\ Here.h = nibble_ix
      /\ nibble \in {0, 1}
  BY DEF Packed, Here, Inv, Typed
<1>0. /\ in_ix \in Nat /\ out_ix \in Nat /\ Run \in Nat /\ k \in Nat /\ 1 <= k /\ from \in Nat
      /\ in_ix' = in_ix + k /\ out_ix' = y.q
      /\ count = (IF zero THEN k + Run - 1 ELSE Run - k)
      /\ from = (IF nibble = 0 THEN out_ix + 1 ELSE out_ix)
  <2>1. in_ix \in Nat /\ out_ix \in Nat /\ Run \in Nat
    BY Lengths
  <2>2. k \in Nat /\ 1 <= k
    BY <2>1
  <2>. QED
    BY <1>1, <1>3, <2>1, <2>2 DEF Runs
<1>5. k \in Nat \ {0} /\ from >= out_ix /\ y.q >= from /\ y.q \in Nat /\ y.i \in Nat /\ y.i > in_ix
      /\ (~zero => y.q > out_ix) /\ (nibble = 0 => y.q > out_ix)
  <2>1. k \in Nat \ {0} /\ from >= out_ix /\ (nibble = 0 => from > out_ix)
    BY <1>0
  <2>2. y.i = in_ix + k
    BY <1>3
  <2>3. y.q = from + IF zero THEN 0 ELSE k
    BY <1>3
  <2>4. y.i \in Nat /\ y.i > in_ix
    BY <1>0, <2>1, <2>2
  <2>5. y.q >= from /\ y.q \in Nat /\ (~zero => y.q > from)
    BY <1>0, <2>1, <2>3
  <2>. QED
    BY <1>0, <2>1, <2>4, <2>5
<1>6. S \subseteq Mark /\ \A m \in S : /\ m.i \in Nat /\ m.q \in Nat /\ m.n \in {0, 1} /\ m.h \in Nat
                                       /\ m.i <= in_ix /\ m.q <= out_ix /\ (m.n = 1 => m.h \in 1..m.q)
  BY DEF Packed, Marks, Mark
<1>7. y \in Mark /\ (y.n = 1 => y.h \in 1..y.q)
  <2>1. y.n \in {0, 1} /\ y.h \in Nat
    BY <1>3, <1>4
  <2>2. y.n = 1 => y.h \in 1..y.q
    BY <1>1, <1>3, <1>4, <1>5, Lengths DEF Runs
  <2>3. y \in Mark
    BY <1>3, <1>5, <2>1 DEF Mark
  <2>. QED
    BY <2>2, <2>3
<1>8. Kept' = IF zero THEN Kept ELSE out_ix'
  <2>1. Dropped' = IF zero THEN Dropped + (from - out_ix) ELSE 0
    <3>1. nibble' = 1 - nibble /\ zerochains' = (IF zero THEN zerochains + 1 ELSE 0)
          /\ zerochains \in Nat
      BY <1>1 DEF Runs, Inv, Typed
    <3>2. from - out_ix = IF nibble = 0 THEN 1 ELSE 0
      BY <1>0
    <3>. QED
      BY <1>4, <3>1, <3>2 DEF Dropped
  <2>2. Dropped \in Nat /\ y.q = from + IF zero THEN 0 ELSE k
    BY <1>3, Lengths
  <2>3. Kept = out_ix - Dropped /\ Kept' = y.q - Dropped'
    BY <1>0 DEF Kept
  <2>. QED
    BY <1>0, <2>1, <2>2, <2>3
<1>9. Kept \in Nat /\ Kept <= out_ix /\ Kept <= Kept' /\ Kept' \in Nat /\ Kept' <= out_ix'
  <2>1. Kept \in Nat /\ Kept = out_ix - Dropped /\ Dropped \in Nat
    BY Lengths DEF Kept, Packed
  <2>. QED
    BY <1>0, <1>5, <1>8, <2>1
(* The bytes between two marks stay as they are. *)
<1>10. ASSUME NEW m \in S, m # Here, NEW x \in S, Leads(m, x, out, in)
       PROVE  Leads(m, x, out', in')
  <2>0. PICK c \in Int : c = CountAt(m, out)
    BY <1>10 DEF Leads
  <2>3. /\ x.n = 1 - m.n /\ (m.n = 0 => x.h = m.q + 1)
        /\ Behind(m) \in Nat /\ Behind(m) <= x.q /\ (c < 0 => x.q = Behind(m) - c)
        /\ Behind(m) = IF m.n = 0 THEN m.q + 1 ELSE m.q
    BY <1>6, <1>10, <2>0 DEF Leads, Behind
  <2>4. nibble = 1 => /\ ix = nibble_ix /\ m.q < ix /\ out[ix] \in 0..(Half - 1)
                      /\ x = Here \/ x.q < ix
    BY <1>1, <1>10 DEF Packed, Runs
  <2>5. nibble = 0 => ix = out_ix + 1
    BY <1>1 DEF Runs
  <2>6. m.q \in Nat /\ x.q \in Nat /\ m.q <= out_ix /\ x.q <= out_ix /\ m.n \in {0, 1}
        /\ (m.n = 1 => m.h \in 1..m.q) /\ out_ix \in Nat
    BY <1>6, Lengths
  <2>1. CountAt(m, out') = CountAt(m, out)
    <3>1. CASE m.n = 0
      <4>1. m.q + 1 \in 1..out_ix
        BY <2>3, <2>6, <3>1
      <4>2. CASE m.q + 1 # ix
        BY <1>1, <3>1, <4>1, <4>2 DEF CountAt, Runs
      <4>3. CASE m.q + 1 = ix
        <5>1. nibble = 1
          BY <1>4, <2>5, <2>6, <4>1, <4>3
        <5>2. out'[ix] = out[ix] + Half * count /\ count \in Nat
          BY <1>1, <5>1, Lengths DEF Runs
        <5>3. out'[ix] % Half = out[ix] % Half
          BY <2>4, <5>1, <5>2, Halves
        <5>. QED
          BY <3>1, <4>3, <5>3 DEF CountAt
      <4>. QED
        BY <4>2, <4>3
    <3>2. CASE m.n = 1
      <4>1. m.h \in 1..out_ix
        BY <2>6, <3>2
      <4>2. m.h # ix
        BY <1>4, <2>4, <2>5, <2>6, <3>2
      <4>3. out'[m.h] = out[m.h]
        BY <1>1, <4>1, <4>2 DEF Runs
      <4>. QED
        BY <3>2, <4>3 DEF CountAt
    <3>. QED
      BY <2>6, <3>1, <3>2
  <2>2. ASSUME c < 0, NEW j \in 1..(-c)
        PROVE  out'[Behind(m) + j] = out[Behind(m) + j]
    <3>1. Behind(m) + j \in 1..out_ix /\ Behind(m) + j <= x.q
      BY <2>0, <2>2, <2>3, <2>6
    <3>2. Behind(m) + j # ix
      <4>1. CASE nibble = 0
        BY <2>5, <2>6, <3>1, <4>1
      <4>2. CASE nibble = 1 /\ x = Here
        <5>1. m.n = 0 /\ m.q + 1 = ix
          BY <1>4, <2>3, <2>4, <2>6, <4>2
        <5>. QED
          BY <2>3, <2>6, <5>1
      <4>3. CASE nibble = 1 /\ x.q < ix
        BY <2>6, <3>1, <4>3
      <4>. QED
        BY <1>4, <2>4, <4>1, <4>2, <4>3
    <3>. QED
      BY <1>1, <3>1, <3>2 DEF Runs
  <2>7. in' = in
    BY <1>1 DEF Runs
  <2>8. CountAt(m, out') = c
    BY <2>0, <2>1
  <2>9. /\ c >= 0 => /\ x.i = m.i + c + 1
                     /\ x.q = Behind(m)
                     /\ \A j \in (m.i + 1)..x.i : in[j] = 0
        /\ c < 0 => /\ x.i = m.i - c
                    /\ x.q = Behind(m) - c
                    /\ \A j \in 1..(-c) : out[Behind(m) + j] = in[m.i + j]
    BY <1>10, <2>0 DEF Leads
  <2>10. c < 0 => \A j \in 1..(-c) : out'[Behind(m) + j] = in[m.i + j]
    BY <2>2, <2>9
  <2>. QED
    BY <2>0, <2>3, <2>7, <2>8, <2>9, <2>10 DEF Leads
<1>11. Leads(Here, y, out', in')
  <2>1. CountAt(Here, out') = count - Run
    <3>1. CASE nibble = 0
      <4>1. out'[out_ix + 1] = count
        BY <1>1, <3>1 DEF Runs
      <4>2. count % Half = count
        BY Halves
      <4>. QED
        BY <1>4, <3>1, <4>1, <4>2 DEF CountAt
    <3>2. CASE nibble = 1
      <4>1. out'[nibble_ix] = out[nibble_ix] + Half * count /\ out[nibble_ix] \in 0..(Half - 1)
            /\ count \in Nat
        BY <1>1, <3>2, Lengths DEF Runs, Packed
      <4>2. out'[nibble_ix] \div Half = count
        BY <4>1, Halves
      <4>. QED
        BY <1>4, <3>2, <4>2 DEF CountAt
    <3>. QED
      BY <1>4, <3>1, <3>2
  <2>2. count - Run = IF zero THEN k - 1 ELSE -k
    BY <1>0
  <2>3. Behind(Here) = from
    BY <1>1, <1>4 DEF Behind, Runs
  <2>4. y.n = 1 - Here.n /\ (Here.n = 0 => y.h = Here.q + 1) /\ in' = in
    BY <1>1, <1>3, <1>4 DEF Runs
  <2>5. CASE zero
    <3>1. CountAt(Here, out') = k - 1
      BY <2>1, <2>2, <2>5
    <3>2. y.i = Here.i + (k - 1) + 1 /\ y.q = from
      BY <1>0, <1>3, <1>4, <2>5
    <3>3. ASSUME NEW j \in (Here.i + 1)..y.i PROVE in'[j] = 0
      <4>1. j - in_ix \in 1..k /\ in_ix + (j - in_ix) = j
        <5>1. y.i = in_ix + k /\ Here.i = in_ix
          BY <1>3, <1>4
        <5>. QED
          BY <1>0, <5>1
      <4>2. in[in_ix + (j - in_ix)] = 0
        BY <1>1, <2>5, <4>1 DEF Runs
      <4>. QED
        BY <2>4, <4>1, <4>2
    <3>. QED
      BY <1>5, <2>3, <2>4, <3>1, <3>2, <3>3 DEF Leads
  <2>6. CASE ~zero
    <3>1. CountAt(Here, out') = -k
      BY <2>1, <2>2, <2>6
    <3>2. y.i = Here.i - (-k) /\ y.q = from - (-k) /\ -(-k) = k
      BY <1>0, <1>3, <1>4, <2>6
    <3>3. \A j \in 1..k : out'[from + j] = in'[Here.i + j]
      BY <1>1, <1>4, <2>4, <2>6 DEF Runs
    <3>. QED
      BY <1>5, <2>3, <2>4, <3>1, <3>2, <3>3 DEF Leads
  <2>. QED
    BY <2>5, <2>6
<1>12. ASSUME NEW m \in S PROVE \E x \in S \cup {y} : Leads(m, x, out', in') /\ (m.q < Kept' => x.q <= Kept')
  <2>1. CASE m = Here
    <3>1. m.q < Kept' => y.q <= Kept'
      <4>1. m.q = out_ix
        BY <1>4, <2>1
      <4>2. zero => ~(m.q < Kept')
        BY <1>0, <1>8, <1>9, <4>1
      <4>3. ~zero => Kept' = y.q
        BY <1>0, <1>8
      <4>. QED
        BY <1>5, <4>2, <4>3
    <3>. QED
      BY <1>11, <2>1, <3>1
  <2>2. CASE m # Here
    <3>1. PICK x \in S : Leads(m, x, out, in) /\ (m.q < Kept => x.q <= Kept)
      BY <2>2 DEF Packed
    <3>2. m.q < Kept' => x.q <= Kept'
      <4>1. x.q \in Nat /\ x.q <= out_ix
        BY <1>6
      <4>2. ~zero => Kept' = y.q /\ y.q > out_ix /\ y.q \in Nat
        BY <1>0, <1>5, <1>8
      <4>3. ~zero => x.q <= Kept'
        BY <1>0, <4>1, <4>2
      <4>. QED
        BY <1>8, <3>1, <4>3
    <3>. QED
      BY <1>10, <2>2, <3>1, <3>2
  <2>. QED
    BY <2>1, <2>2
<1>13. ASSUME NEW m \in S, m.q >= Kept' PROVE \A j \in (m.i + 1)..in_ix' : in'[j] = 0
  <2>1. zero /\ m.q >= Kept
    <3>1. m.q \in Nat /\ m.q <= out_ix
      BY <1>6
    <3>2. ~zero => Kept' > out_ix /\ Kept' \in Nat
      BY <1>0, <1>5, <1>8
    <3>3. zero
      BY <1>0, <1>13, <3>1, <3>2
    <3>. QED
      BY <1>8, <1>13, <3>3
  <2> SUFFICES ASSUME NEW j \in (m.i + 1)..in_ix' PROVE in'[j] = 0
    OBVIOUS
  <2>2. in' = in /\ in_ix' = in_ix + k
    BY <1>1 DEF Runs
  <2>3. CASE j <= in_ix
    <3>1. j \in (m.i + 1)..in_ix
      BY <1>6, <2>3, Lengths
    <3>. QED
      BY <2>1, <2>2, <3>1 DEF Packed
  <2>4. CASE j > in_ix
    <3>1. j - in_ix \in 1..k /\ in_ix + (j - in_ix) = j
      <4>1. m.i \in Nat
        BY <1>6
      <4>. QED
        BY <1>0, <2>2, <2>4, <4>1
    <3>2. in[in_ix + (j - in_ix)] = 0
      BY <1>1, <2>1, <3>1 DEF Runs
    <3>. QED
      BY <2>2, <3>1, <3>2
  <2>. QED
    BY <1>6, <2>3, <2>4, Lengths
<1>14. nibble' = 1 => /\ nibble_ix' \in 1..out_ix' /\ out'[nibble_ix'] \in 0..(Half - 1)
                      /\ \A m \in S : m.q < nibble_ix'
  <2> SUFFICES ASSUME nibble' = 1
               PROVE  /\ nibble_ix' \in 1..out_ix' /\ out'[nibble_ix'] \in 0..(Half - 1)
                      /\ \A m \in S : m.q < nibble_ix'
    OBVIOUS
  <2>1. nibble = 0 /\ nibble_ix' = out_ix + 1 /\ from = out_ix + 1 /\ out'[out_ix + 1] = count
    BY <1>1, <1>4 DEF Runs
  <2>2. out_ix + 1 \in 1..out_ix'
    BY <1>3, <1>5, <2>1, Lengths
  <2>3. \A m \in S : m.q < out_ix + 1
    BY <1>6, Lengths
  <2>. QED
    BY <2>1, <2>2, <2>3
<1>. QED
  <2>. DEFINE T == S \cup {y}
  <2>1. Marks(T)
    BY <1>6, <1>7 DEF Marks, Packed
  <2>2. \A m \in T : m.i <= in_ix' /\ m.q <= out_ix'
    <3>1. ASSUME NEW m \in S PROVE m.i <= in_ix' /\ m.q <= out_ix'
      <4>1. m.i \in Nat /\ m.q \in Nat /\ m.i <= in_ix /\ m.q <= out_ix
        BY <1>6
      <4>2. y.q >= out_ix
        BY <1>0, <1>5
      <4>. QED
        BY <1>0, <1>5, <4>1, <4>2
    <3>2. y.i <= in_ix' /\ y.q <= out_ix'
      BY <1>0, <1>3, <1>5
    <3>. QED
      BY <3>1, <3>2
  <2>3. nibble' = 1 => /\ nibble_ix' \in 1..out_ix' /\ out'[nibble_ix'] \in 0..(Half - 1)
                       /\ \A m \in T : m = y \/ m.q < nibble_ix'
    BY <1>14
  <2>4. \A m \in T : m = y \/ \E x \in T : Leads(m, x, out', in') /\ (m.q < Kept' => x.q <= Kept')
    BY <1>12
  <2>5. \A m \in T : m.q >= Kept' => \A j \in (m.i + 1)..in_ix' : in'[j] = 0
    <3>1. \A j \in (y.i + 1)..in_ix' : in'[j] = 0
      BY <1>3, <1>5
    <3>. QED
      BY <1>13, <3>1
  <2>6. nibble_ix' \in Nat
    BY <1>3, <1>7 DEF Mark
  <2>7. y \in T /\ Half' = Half
    BY DEF Half
  <2>. HIDE DEF T
  <2>8. \A m \in T : m = Here' \/ \E x \in T : Leads(m, x, out', in') /\ (m.q < Kept' => x.q <= Kept')
    BY <1>2, <2>4
  <2>9. Packed(T)'
    BY <1>2, <1>9, <2>1, <2>2, <2>3, <2>5, <2>6, <2>7, <2>8, Zenon DEF Packed, Marks
  <2>. QED
    BY <2>9
(* The marks of a packet that is cut off behind all it is needed for. *)
LEMMA LeadsStill ==
  ASSUME NEW m \in Mark, m.n = 1 => m.h \in 1..m.q, NEW x \in Mark, NEW s, NEW u, NEW r, NEW e \in Nat,
         Leads(m, x, s, r), m.q < e, x.q <= e, \A j \in 1..e : u[j] = s[j]
  PROVE  Leads(m, x, u, r)
<1>1. m.q \in Nat /\ x.q \in Nat /\ m.n \in {0, 1}
  BY DEF Mark
<1>2. CountAt(m, u) = CountAt(m, s)
  <2>1. CASE m.n = 0
    <3>1. m.q + 1 \in 1..e
      BY <1>1
    <3>. QED
      BY <2>1, <3>1 DEF CountAt
  <2>2. CASE m.n = 1
    <3>1. m.h \in 1..e /\ m.n # 0
      BY <1>1, <2>2
    <3>. QED
      BY <3>1 DEF CountAt
  <2>. QED
    BY <1>1, <2>1, <2>2
<1>3. PICK c \in Int : c = CountAt(m, s)
  BY DEF Leads
<1>4. Behind(m) \in Nat
  BY <1>1 DEF Behind
<1>5. c < 0 => x.q = Behind(m) - c /\ \A j \in 1..(-c) : s[Behind(m) + j] = r[m.i + j]
  BY <1>3 DEF Leads
<1>6. ASSUME c < 0, NEW j \in 1..(-c) PROVE u[Behind(m) + j] = r[m.i + j]
  <2>1. Behind(m) + j \in 1..e
    BY <1>1, <1>4, <1>5, <1>6
  <2>. QED
    BY <1>5, <1>6, <2>1
<1>. QED
  BY <1>2, <1>3, <1>6 DEF Leads


LEMMA PackEndsMarks ==
  ASSUME Inv, NEW S, Packed(S), PackEnds, NEW r, r = in
  PROVE  Unpacked(S, r)' /\ r \in Seq(Int) /\ out_size' >= Len(r)
<1>1. PICK e \in Nat : e = Kept
  BY DEF Packed
<1>2. e <= out_ix /\ out_ix \in Nat /\ in_ix \in Nat
  BY <1>1, Lengths DEF Kept
<1>3. in' = SubSeq(out, 1, e) /\ in_ix' = 0 /\ out' = <<>> /\ nibble' = 0 /\ in_ix = Len(in)
  BY <1>1 DEF PackEnds, Kept
<1>4. Len(in') = e /\ \A j \in 1..e : in'[j] = out[j]
  <2>1. out \in Seq(Int) /\ \A j \in 1..e : out[j] \in Int
    <3>1. out \in Seq(Int) /\ out_ix = Len(out)
      BY DEF Inv, Typed, out_ix
    <3>2. ASSUME NEW j \in 1..e PROVE out[j] \in Int
      <4>1. j \in 1..Len(out)
        BY <1>2, <3>1
      <4>. QED
        BY <3>1, <4>1, ElementOfSeq
    <3>. QED
      BY <3>1, <3>2
  <2>2. /\ Len(SubSeq(out, 1, e)) = IF 1 <= e THEN e - 1 + 1 ELSE 0
        /\ \A j \in 1..(e - 1 + 1) : SubSeq(out, 1, e)[j] = out[1 + j - 1]
    BY <2>1, SubSeqProperties
  <2>3. (IF 1 <= e THEN e - 1 + 1 ELSE 0) = e /\ e - 1 + 1 = e /\ \A j \in 1..e : 1 + j - 1 = j
    OBVIOUS
  <2>. QED
    BY <1>3, <2>2, <2>3
<1>5. /\ Marks(S) /\ \A m \in S : m \in Mark /\ m.i <= in_ix /\ (m.n = 1 => m.h \in 1..m.q)
  BY DEF Packed, Marks
<1>6. ASSUME NEW m \in S, m.q < Len(in') PROVE \E x \in S : Leads(m, x, in', r) /\ x.q <= Len(in')
  <2>1. m # Here
    BY <1>2, <1>4, <1>6 DEF Here
  <2>2. PICK x \in S : Leads(m, x, out, in) /\ x.q <= e
    BY <1>1, <1>4, <1>6, <2>1 DEF Packed
  <2>3. Leads(m, x, in', r)
    BY <1>4, <1>5, <1>6, <2>2, LeadsStill
  <2>. QED
    BY <1>4, <2>2, <2>3
<1>7. \A m \in S : m.q >= Len(in') => \A k \in (m.i + 1)..Len(r) : r[k] = 0
  BY <1>1, <1>3, <1>4 DEF Packed
<1>8. out_ix' = 0
  BY <1>3, EmptySeq DEF out_ix
<1>9. \E m \in S : m.i = out_ix' /\ m.q = in_ix' /\ m.n = nibble' /\ (m.n = 1 => run' = in'[m.h])
  BY <1>3, <1>5, <1>8 DEF Marks
<1>10. \A m \in S : m.i <= Len(r)
  BY <1>3, <1>5
<1>11. \A k \in 1..out_ix' : out'[k] = r[k]
  BY <1>8
<1>12. Unpacked(S, r)'
  BY <1>5, <1>6, <1>7, <1>9, <1>10, <1>11, Zenon DEF Unpacked, Marks
<1>13. r \in Seq(Int) /\ out_size' >= Len(r)
  <2>1. PICK n \in Nat : out_size' = Len(in) + n
    BY RleAssumption DEF PackEnds
  <2>2. in \in Seq(Int) /\ Len(in) \in Nat
    BY Lengths DEF Inv, Typed
  <2>. QED
    BY <2>1, <2>2
<1>. QED
  BY <1>12, <1>13

(* The half header that unpack comes to adds what the row has there. *)
LEMMA ExpandMarks ==
  ASSUME Inv, NEW r \in Seq(Int), out_size >= Len(r), NEW m \in Mark, NEW x \in Mark,
         Leads(m, x, in, r), m.i = out_ix, x.i <= Len(r), x.q <= Len(in),
         \A k \in 1..out_ix : out[k] = r[k], Expand(CountAt(m, in), Behind(m))
  PROVE  /\ UNCHANGED fn /\ in_ix' = x.q /\ out_ix' = x.i
         /\ \A k \in 1..out_ix' : out'[k] = r[k]
<1>1. PICK c \in Int : c = CountAt(m, in)
  BY DEF Leads
<1>2. PICK b \in Nat : b = Behind(m)
  BY DEF Behind, Mark
<1>3. /\ c >= 0 => x.i = m.i + c + 1 /\ x.q = b /\ \A k \in (m.i + 1)..x.i : r[k] = 0
      /\ c < 0 => x.i = m.i - c /\ x.q = b - c /\ \A k \in 1..(-c) : in[b + k] = r[m.i + k]
  BY <1>1, <1>2 DEF Leads
<1>4. PICK length \in Nat : length = IF c >= 0 THEN c + 1 ELSE -c
  OBVIOUS
<1>5. /\ out_ix \in Nat /\ Len(in) \in Nat /\ Len(r) \in Nat /\ out_size \in Nat /\ x.i \in Nat /\ x.q \in Nat
      /\ out_ix = Len(out) /\ out \in Seq(Int) /\ in \in Seq(Int)
  BY Lengths, LenProperties DEF Mark, Inv, Typed, out_ix
<1>6. x.i = out_ix + length /\ length >= 1
  BY <1>3, <1>4, <1>5
<1>7. ~NoRoom(length)
  BY <1>5, <1>6 DEF NoRoom
<1>8. PICK added : added = IF c >= 0 THEN Zeros(length) ELSE SubSeq(in, b + 1, b + length)
  OBVIOUS
<1>9. out' = out \o added /\ in_ix' = x.q /\ fn' = fn
  <2>1. CASE c >= 0
    BY <1>1, <1>2, <1>3, <1>4, <1>7, <1>8, <2>1 DEF Expand
  <2>2. CASE c < 0
    <3>1. ~(length > Len(in) - b) /\ b + length = x.q /\ ~(c >= 0)
      BY <1>3, <1>4, <1>5, <2>2
    <3>2. length = -c
      BY <1>4, <2>2
    <3>. QED
      BY <1>1, <1>2, <1>7, <1>8, <3>1, <3>2 DEF Expand
  <2>. QED
    BY <2>1, <2>2
<1>10. added \in Seq(Int) /\ Len(added) = length /\ \A k \in 1..length : added[k] = r[out_ix + k]
  <2>1. CASE c >= 0
    <3>1. added = Zeros(length) /\ added \in Seq(Int) /\ Len(added) = length
      BY <1>8, <2>1, ZerosIsSeq
    <3>2. ASSUME NEW k \in 1..length PROVE added[k] = r[out_ix + k]
      <4>1. out_ix + k \in (m.i + 1)..x.i
        BY <1>5, <1>6
      <4>2. r[out_ix + k] = 0
        BY <1>3, <2>1, <4>1
      <4>. QED
        BY <3>1, <4>2 DEF Zeros
    <3>. QED
      BY <3>1, <3>2
  <2>2. CASE c < 0
    <3>1. length = -c /\ b + length = x.q
      BY <1>3, <1>4, <1>5, <2>2
    <3>2. ASSUME NEW j \in (b + 1)..(b + length) PROVE in[j] \in Int
      <4>1. j \in 1..Len(in)
        <5>1. PICK l \in Nat : l = Len(in)
          BY <1>5
        <5>2. b + length <= l
          BY <3>1, <5>1
        <5>3. j \in 1..l
          BY <5>2
        <5>. QED
          BY <5>1, <5>3
      <4>. QED
        BY <1>5, <4>1, ElementOfSeq
    <3>3. PICK f, t \in Int : f = b + 1 /\ t = b + length
      OBVIOUS
    <3>4. f <= t /\ t - f + 1 = length /\ \A k \in 1..length : f + k - 1 = b + k
      BY <1>6, <3>3
    <3>5. added = SubSeq(in, f, t) /\ \A j \in f..t : in[j] \in Int
      BY <1>8, <2>2, <3>2, <3>3
    <3>6. added \in Seq(Int) /\ Len(added) = t - f + 1 /\ \A k \in 1..(t - f + 1) : added[k] = in[f + k - 1]
      BY <3>4, <3>5, SubSeqProperties
    <3>7. ASSUME NEW k \in 1..length PROVE added[k] = r[out_ix + k]
      <4>1. added[k] = in[b + k]
        BY <3>4, <3>6
      <4>2. in[b + k] = r[m.i + k]
        BY <1>3, <2>2, <3>1
      <4>. QED
        BY <4>1, <4>2
    <3>. QED
      BY <3>4, <3>6, <3>7
  <2>. QED
    BY <2>1, <2>2
<1>11. /\ Len(out') = out_ix + length
       /\ \A k \in 1..(out_ix + length) : out'[k] = IF k <= out_ix THEN out[k] ELSE added[k - out_ix]
  <2>1. out \in Seq(Int) /\ added \in Seq(Int)
    BY <1>5, <1>10
  <2>2. /\ Len(out \o added) = Len(out) + Len(added)
        /\ \A k \in 1..(Len(out) + Len(added)) :
             (out \o added)[k] = IF k <= Len(out) THEN out[k] ELSE added[k - Len(out)]
    BY <2>1, ConcatProperties
  <2>3. Len(out) = out_ix /\ Len(added) = length
    BY <1>5, <1>10
  <2>. QED
    BY <1>9, <2>2, <2>3
<1>12. out_ix' = x.i
  BY <1>6, <1>11 DEF out_ix
<1>13. ASSUME NEW k \in 1..out_ix' PROVE out'[k] = r[k]
  <2>1. k \in 1..(out_ix + length)
    BY <1>6, <1>12
  <2>2. CASE k <= out_ix
    BY <1>5, <1>11, <2>1, <2>2
  <2>3. CASE ~(k <= out_ix)
    <3>1. k - out_ix \in 1..length /\ out_ix + (k - out_ix) = k
      BY <1>5, <2>1, <2>3
    <3>2. added[k - out_ix] = r[out_ix + (k - out_ix)]
      BY <1>10, <3>1
    <3>. QED
      BY <1>11, <2>1, <2>3, <3>1, <3>2
  <2>. QED
    BY <2>2, <2>3
<1>. QED
  BY <1>9, <1>12, <1>13

LEMMA UnpackMarks ==
  ASSUME Inv, NEW S, NEW r \in Seq(Int), Unpacked(S, r), out_size >= Len(r), UnpackLow \/ UnpackHigh
  PROVE  Unpacked(S, r)' /\ UNCHANGED <<fn, out_size, row>>
<1>1. PICK m \in S : m.i = out_ix /\ m.q = in_ix /\ m.n = nibble /\ (m.n = 1 => run = in[m.h])
  BY DEF Unpacked
<1>2. in_ix < Len(in) /\ nibble \in {0, 1} /\ UNCHANGED <<in, out_size, row>>
  BY DEF UnpackLow, UnpackHigh, Inv, Typed
<1>3. PICK x \in S : Leads(m, x, in, r) /\ x.q <= Len(in)
  BY <1>1, <1>2 DEF Unpacked
<1>4. \A z \in S : z \in Mark /\ z.i <= Len(r)
  BY DEF Unpacked, Marks
<1>5. Expand(CountAt(m, in), Behind(m)) /\ nibble' = x.n /\ (x.n = 1 => run' = in[x.h])
  <2>1. CASE UnpackLow
    <3>1. m.n = 0 /\ x.n = 1 /\ x.h = m.q + 1
      BY <1>1, <1>3, <2>1 DEF UnpackLow, Leads
    <3>. QED
      BY <1>1, <2>1, <3>1 DEF UnpackLow, CountAt, Behind
  <2>2. CASE UnpackHigh
    <3>1. m.n = 1 /\ x.n = 0 /\ m.n # 0
      BY <1>1, <1>3, <2>2 DEF UnpackHigh, Leads
    <3>. QED
      BY <1>1, <2>2, <3>1 DEF UnpackHigh, CountAt, Behind
  <2>. QED
    BY <2>1, <2>2
<1>6. \A k \in 1..out_ix : out[k] = r[k]
  BY DEF Unpacked
<1>7. /\ UNCHANGED fn /\ in_ix' = x.q /\ out_ix' = x.i
      /\ \A k \in 1..out_ix' : out'[k] = r[k]
  BY <1>1, <1>3, <1>4, <1>5, <1>6, ExpandMarks
<1>8. \E z \in S : z.i = out_ix' /\ z.q = in_ix' /\ z.n = nibble' /\ (z.n = 1 => run' = in'[z.h])
  BY <1>2, <1>5, <1>7
<1>9. Unpacked(S, r)'
  BY <1>2, <1>7, <1>8 DEF Unpacked, Marks
<1>. QED
  BY <1>2, <1>7, <1>9
LEMMA RestoreStep == ASSUME Inv, Restores, Next PROVE Restores'
<1>1. CASE PackRun
  <2>1. fn = "pack" /\ UNCHANGED <<fn, in, row>>
    BY <1>1 DEF PackRun
  <2>2. \E T : Packed(T)'
    BY <1>1, <2>1, PackMarks DEF Restores
  <2>. QED
    BY <2>1, <2>2 DEF Restores, Restored
<1>2. CASE PackEnds
  <2>1. fn = "pack" /\ fn' = "unpack" /\ row' = row /\ row = <<in>>
    BY <1>2 DEF PackEnds, Restores
  <2>2. PICK S : Packed(S)
    BY <2>1 DEF Restores
  <2>3. PICK r : r = in
    OBVIOUS
  <2>4. Unpacked(S, r)' /\ r \in Seq(Int) /\ out_size' >= Len(r)
    BY <1>2, <2>2, <2>3, PackEndsMarks
  <2>5. row'[1] = r
    BY <2>1, <2>3
  <2>6. \E T : Unpacked(T, row[1])'
    BY <2>4, <2>5
  <2>. QED
    BY <2>1, <2>4, <2>5, <2>6 DEF Restores, Restored
<1>3. CASE UnpackLow \/ UnpackHigh
  <2>1. fn = "unpack" /\ row' = row /\ fn' \in {"unpack", "false"}
    BY <1>3 DEF UnpackLow, UnpackHigh, Expand
  <2>2. CASE row = <<>>
    BY <2>1, <2>2 DEF Restores, Restored
  <2>3. CASE row # <<>>
    <3>1. PICK r : r = row[1]
      OBVIOUS
    <3>2. PICK S : Unpacked(S, r)
      BY <2>1, <2>3, <3>1 DEF Restores
    <3>3. r \in Seq(Int) /\ out_size >= Len(r)
      BY <2>1, <2>3, <3>1 DEF Restores
    <3>4. Unpacked(S, r)' /\ UNCHANGED <<fn, out_size, row>>
      BY <1>3, <3>2, <3>3, UnpackMarks
    <3>5. \E T : Unpacked(T, row[1])'
      BY <3>1, <3>4
    <3>. QED
      BY <2>1, <3>1, <3>3, <3>4, <3>5 DEF Restores, Restored
  <2>. QED
    BY <2>2, <2>3
<1>4. CASE UnpackEnds
  <2>1. fn = "unpack" /\ fn' = "true" /\ in_ix = Len(in) /\ row' = row /\ out_size' = out_size
        /\ out' = out \o Zeros(out_size - out_ix)
    BY <1>4 DEF UnpackEnds
  <2>2. ASSUME row # <<>> PROVE out' = row[1] \o Zeros(out_size - Len(row[1]))
    <3>1. PICK r : r = row[1]
      OBVIOUS
    <3>2. PICK S : Unpacked(S, r)
      BY <2>1, <2>2, <3>1 DEF Restores
    <3>3. r \in Seq(Int) /\ out_size >= Len(r) /\ out_size \in Nat /\ Len(r) \in Nat
          /\ out \in Seq(Int) /\ out_ix = Len(out) /\ out_ix \in Nat
      BY <2>1, <2>2, <3>1, Lengths, LenProperties DEF Restores, Inv, Typed, out_ix
    <3>4. PICK m \in S : m.i = out_ix /\ m.q = in_ix
      BY <3>2 DEF Unpacked
    <3>5. out_ix <= Len(r) /\ \A k \in (out_ix + 1)..Len(r) : r[k] = 0
      BY <2>1, <3>2, <3>4, Lengths DEF Unpacked
    <3>6. \A k \in 1..out_ix : out[k] = r[k]
      BY <3>2 DEF Unpacked
    <3>7. PICK a, b \in Nat : a = out_size - out_ix /\ b = out_size - Len(r)
      <4>1. out_size - out_ix \in Nat /\ out_size - Len(r) \in Nat
        <5>1. PICK y, l, n \in Nat : y = out_ix /\ l = Len(r) /\ n = out_size
          BY <3>3
        <5>2. y <= l /\ l <= n
          BY <3>3, <3>5, <5>1
        <5>3. n - y \in Nat /\ n - l \in Nat
          BY <5>2
        <5>. QED
          BY <5>1, <5>3
      <4>. QED
        BY <4>1
    <3>8. PICK z, w : z = Zeros(a) /\ w = Zeros(b)
      OBVIOUS
    <3>9. /\ z \in Seq(Int) /\ Len(z) = a /\ \A k \in 1..a : z[k] = 0
          /\ w \in Seq(Int) /\ Len(w) = b /\ \A k \in 1..b : w[k] = 0
      BY <3>8, ZerosIsSeq DEF Zeros
    <3>10. PICK p, t : p = out \o z /\ t = r \o w
      OBVIOUS
    <3>11. /\ p \in Seq(Int) /\ Len(p) = out_size
           /\ \A k \in 1..out_size : p[k] = IF k <= out_ix THEN out[k] ELSE z[k - out_ix]
      <4>1. /\ p \in Seq(Int) /\ Len(p) = Len(out) + Len(z)
            /\ \A k \in 1..(Len(out) + Len(z)) : p[k] = IF k <= Len(out) THEN out[k] ELSE z[k - Len(out)]
        BY <3>3, <3>9, <3>10, ConcatProperties
      <4>2. Len(out) + Len(z) = out_size /\ Len(out) = out_ix
        BY <3>3, <3>7, <3>9
      <4>. QED
        BY <4>1, <4>2
    <3>12. /\ t \in Seq(Int) /\ Len(t) = out_size
           /\ \A k \in 1..out_size : t[k] = IF k <= Len(r) THEN r[k] ELSE w[k - Len(r)]
      <4>1. /\ t \in Seq(Int) /\ Len(t) = Len(r) + Len(w)
            /\ \A k \in 1..(Len(r) + Len(w)) : t[k] = IF k <= Len(r) THEN r[k] ELSE w[k - Len(r)]
        BY <3>3, <3>9, <3>10, ConcatProperties
      <4>2. Len(r) + Len(w) = out_size
        BY <3>3, <3>7, <3>9
      <4>. QED
        BY <4>1, <4>2
    <3>13. ASSUME NEW k \in 1..out_size PROVE p[k] = t[k]
      <4>1. CASE k <= out_ix
        <5>1. k <= Len(r) /\ k \in 1..out_ix
          BY <3>3, <3>5, <4>1
        <5>. QED
          BY <3>6, <3>11, <3>12, <4>1, <5>1
      <4>2. CASE ~(k <= out_ix) /\ k <= Len(r)
        <5>1. k \in (out_ix + 1)..Len(r) /\ k - out_ix \in 1..a
          BY <3>3, <3>7, <4>2
        <5>. QED
          BY <3>5, <3>9, <3>11, <3>12, <4>2, <5>1
      <4>3. CASE ~(k <= out_ix) /\ ~(k <= Len(r))
        <5>1. k - Len(r) \in 1..b /\ k - out_ix \in 1..a
          BY <3>3, <3>7, <4>3
        <5>. QED
          BY <3>9, <3>11, <3>12, <4>3, <5>1
      <4>. QED
        BY <4>1, <4>2, <4>3
    <3>14. p = t
      BY <3>11, <3>12, <3>13, SeqEqual
    <3>. QED
      BY <2>1, <3>1, <3>7, <3>8, <3>10, <3>14
  <2>. QED
    BY <2>1, <2>2 DEF Restores, Restored
<1>. QED
  BY <1>1, <1>2, <1>3, <1>4 DEF Next

LEMMA InitRestores == Init => Restores
<1> SUFFICES ASSUME Init PROVE Restores
  OBVIOUS
<1>1. CASE fn = "unpack"
  BY <1>1 DEF Init, Restores, Restored
<1>2. CASE fn = "pack"
  <2>1. row = <<in>> /\ in_ix = 0 /\ out = <<>> /\ nibble = 0 /\ nibble_ix = 0 /\ zerochains = 0
    BY <1>2 DEF Init
  <2>2. out_ix = 0 /\ Dropped = 0 /\ Kept = 0
    <3>1. out_ix = 0
      BY <2>1, EmptySeq DEF out_ix
    <3>2. Dropped = 0
      BY <2>1 DEF Dropped
    <3>. QED
      BY <3>1, <3>2 DEF Kept
  <2>3. PICK S : S = {Here}
    OBVIOUS
  <2>4. Here = [i |-> 0, q |-> 0, n |-> 0, h |-> 0]
    BY <2>1, <2>2 DEF Here
  <2>5. Here \in Mark
    BY <2>4 DEF Mark
  <2>6. Marks(S)
    BY <2>3, <2>4, <2>5 DEF Marks
  <2>7. Packed(S)
    <3>1. \A m \in S : m = Here
      BY <2>3
    <3>2. \A m \in S : m.i <= in_ix /\ m.q <= out_ix
      BY <2>1, <2>2, <2>4, <3>1
    <3>3. \A m \in S : m.q >= Kept => \A k \in (m.i + 1)..in_ix : in[k] = 0
      BY <2>1, <2>4, <3>1
    <3>. QED
      BY <2>1, <2>2, <2>3, <2>6, <3>1, <3>2, <3>3 DEF Packed
  <2>. QED
    BY <1>2, <2>1, <2>7 DEF Restores, Restored
<1>. QED
  BY <1>1, <1>2 DEF Init

(* A row of any length that is packed and unpacked comes back, filled up     *)
(* with zeros, and unpack never refuses it (RleModule::pack and unpack).     *)
THEOREM RestoresRows == Spec => []Restored
<1>1. Init => Inv /\ Restores
  BY InitInv, InitRestores
<1>2. Inv /\ Restores /\ [Next]_vars => Inv' /\ Restores'
  <2> SUFFICES ASSUME Inv, Restores, [Next]_vars PROVE Inv' /\ Restores'
    OBVIOUS
  <2>1. CASE UNCHANGED vars
    <3>1. /\ fn' = fn /\ in' = in /\ in_ix' = in_ix /\ out' = out /\ out_size' = out_size
          /\ nibble' = nibble /\ nibble_ix' = nibble_ix /\ zerochains' = zerochains /\ run' = run /\ row' = row
      BY <2>1 DEF vars
    <3>2. out_ix' = out_ix /\ Here' = Here /\ Kept' = Kept
      BY <3>1 DEF out_ix, Here, Kept, Dropped
    <3>3. Inv'
      BY <3>1, <3>2 DEF Inv, Typed, Fits
    <3>4. ASSUME NEW S, Packed(S) PROVE Packed(S)'
      BY <3>1, <3>2, <3>4 DEF Packed, Marks
    <3>5. ASSUME NEW S, NEW r, Unpacked(S, r) PROVE Unpacked(S, r)'
      BY <3>1, <3>2, <3>5 DEF Unpacked, Marks
    <3>6. fn' = "pack" => row' = <<in'>> /\ \E S : Packed(S)'
      BY <3>1, <3>4 DEF Restores
    <3>7. fn' = "unpack" /\ row' # <<>> =>
            row'[1] \in Seq(Int) /\ out_size' >= Len(row'[1]) /\ \E S : Unpacked(S, row[1])'
      <4>1. PICK r : r = row[1]
        OBVIOUS
      <4>2. fn = "unpack" /\ row # <<>> => r \in Seq(Int) /\ out_size >= Len(r) /\ \E S : Unpacked(S, r)'
        BY <3>5, <4>1 DEF Restores
      <4>3. r = row'[1]
        BY <3>1, <4>1
      <4>. QED
        BY <3>1, <4>2, <4>3
    <3>8. Restored'
      BY <3>1 DEF Restores, Restored
    <3>. QED
      BY <3>3, <3>6, <3>7, <3>8 DEF Restores
  <2>2. CASE Next
    BY <2>2, PackRunInv, PackEndsInv, UnpackInv, RestoreStep DEF Next
  <2>. QED
    BY <2>1, <2>2
<1>3. Restores => Restored
  BY DEF Restores
<1>. QED
  BY <1>1, <1>2, <1>3, PTL DEF Spec
==============================================================================
