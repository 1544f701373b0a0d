------------------------- MODULE MarshalCodec_proof -------------------------
(***************************************************************************)
(* Saving an object and loading it again, for every set of objects, every  *)
(* base, table, buffer and packet: BufferHolds, TruncatedIsRefused and     *)
(* LoadReturnsWhatWasSaved.                                                *)
(*                                                                         *)
(* Numbers and the bytes of numbers come first: Power and Unsigned are     *)
(* recursive functions, and what they are is shown on the least number     *)
(* that would be a counterexample.                                         *)
(*                                                                         *)
(* What is written and what is read meet in Encodes(b, o, flag): b are the *)
(* bytes of object o before those of the objects inside.  WritesEncode     *)
(* shows it of every sequence of calls that marshal may make for o, and    *)
(* LeafRead and ContainerRead that unmarshal finds o where such bytes      *)
(* stand, or nothing when the packet ends within them.                     *)
(*                                                                         *)
(* The nesting is kept track of by marks.  A mark <<i, T>> says that the   *)
(* objects T, one behind the other, are what stands from index i to the    *)
(* end of what was written.  save makes a mark for each object it begins   *)
(* (WriterInv), and load moves from mark to mark: OnTrack says that what   *)
(* its frames still expect is the T of a mark at mReadIndex.  It leaves    *)
(* the track only for an end of the packet or for an object that is        *)
(* excepted; then Doomed says that nothing is returned, now or when the    *)
(* dict with the missing payload has read its key.                         *)
(***************************************************************************)
EXTENDS MarshalCodec, FiniteSetTheorems, SequenceTheorems, TLAPS

(* Numbers. *)

(* A set of naturals that is not empty has a least element: the form in which *)
(* inductions over numbers are done here, on the least counterexample.        *)
LEMMA Least ==
  ASSUME NEW T, T \subseteq Nat, T # {}
  PROVE  \E x \in T : \A y \in T : x <= y
<1> DEFINE R == {ss \in Nat \X Nat : ss[1] < ss[2]}
<1>1. IsWellFoundedOn(R, Nat)
  BY NatLessThanWellFounded DEF OpToRel
<1>2. \A x, y \in Nat : y < x => <<y, x>> \in R
  OBVIOUS
<1> HIDE DEF R
<1>3. PICK x \in T : \A y \in T : ~ (<<y, x>> \in R)
  BY <1>1, WFMin
<1>4. ASSUME NEW y \in T PROVE x <= y
  <2>1. x \in Nat /\ y \in Nat /\ ~ (<<y, x>> \in R)
    BY <1>3
  <2>2. ~(y < x)
    BY <1>2, <2>1
  <2> QED BY <2>1, <2>2
<1> QED
  BY <1>4

PowersTo(f, b, k) == f = [i \in 0..k |-> IF i = 0 THEN 1 ELSE b * f[i - 1]]

(* The recursive functions inside Power exist, agree and so are what Power computes. *)
LEMMA PowersExist ==
  ASSUME NEW b \in Nat, NEW k \in Nat
  PROVE  \E f : PowersTo(f, b, k)
<1> DEFINE S == {j \in Nat : ~ \E f : PowersTo(f, b, j)}
<1> SUFFICES ASSUME S # {} PROVE FALSE
  OBVIOUS
<1>1. PICK x \in S : \A y \in S : x <= y
  BY Least
<1>2. x # 0
  <2>1. PowersTo([i \in 0..0 |-> 1], b, 0)
    BY DEF PowersTo
  <2> QED BY <2>1
<1>3. PICK f : PowersTo(f, b, x - 1)
  BY <1>1, <1>2
<1> DEFINE g == [i \in 0..x |-> IF i < x THEN f[i] ELSE b * f[x-1]]
<1>4. PowersTo(g, b, x)
  <2> SUFFICES ASSUME NEW i \in 0..x PROVE g[i] = IF i = 0 THEN 1 ELSE b * g[i-1]
    BY DEF PowersTo
  <2>1. CASE i < x
    BY <2>1, <1>3, <1>2 DEF PowersTo
  <2>2. CASE i = x
    BY <2>2, <1>3, <1>2
  <2> QED BY <2>1, <2>2
<1> QED BY <1>4

LEMMA PowersAgree ==
  ASSUME NEW b, NEW j \in Nat, NEW k \in Nat, NEW f, NEW g, PowersTo(f, b, j), PowersTo(g, b, k), j <= k
  PROVE  f[j] = g[j]
<1> DEFINE S == {i \in 0..j : f[i] # g[i]}
<1>1. SUFFICES ASSUME S # {} PROVE FALSE
  OBVIOUS
<1>a. S \subseteq Nat
  OBVIOUS
<1>2. PICK x \in S : \A y \in S : x <= y
  BY <1>1, <1>a, Least
<1>3. x # 0
  BY DEF PowersTo
<1>4. f[x] = b * f[x - 1] /\ g[x] = b * g[x - 1]
  BY <1>3 DEF PowersTo
<1>5. f[x - 1] = g[x - 1]
  BY <1>2, <1>3
<1> QED
  BY <1>4, <1>5

LEMMA PowerIs ==
  ASSUME NEW b \in Nat, NEW k \in Nat
  PROVE  \E f : PowersTo(f, b, k) /\ Power(b, k) = f[k]
<1> DEFINE f[i \in 0..k] == IF i = 0 THEN 1 ELSE b * f[i-1]
<1>1. f = [i \in 0..k |-> IF i = 0 THEN 1 ELSE b * f[i-1]]
  BY PowersExist DEF PowersTo
<1>2. Power(b,k) = f[k]
  BY DEF Power
<1> QED BY <1>1, <1>2 DEF PowersTo

LEMMA PowerZero ==
  ASSUME NEW b \in Nat
  PROVE  Power(b, 0) = 1
<1>1. PICK f : PowersTo(f, b, 0) /\ Power(b, 0) = f[0]
  BY PowerIs
<1> QED BY <1>1 DEF PowersTo

LEMMA PowerStep ==
  ASSUME NEW b \in Nat, NEW k \in Nat
  PROVE  Power(b, k + 1) = b * Power(b, k)
<1>1. PICK f : PowersTo(f, b, k) /\ Power(b, k) = f[k]
  BY PowerIs
<1>2. PICK g : PowersTo(g, b, k + 1) /\ Power(b, k + 1) = g[k + 1]
  BY PowerIs
<1>3. f[k] = g[k]
  BY <1>1, <1>2, PowersAgree
<1>4. g[k + 1] = b * g[k]
  BY <1>2 DEF PowersTo
<1> QED BY <1>1, <1>2, <1>3, <1>4

LEMMA TimesPositive ==
  ASSUME NEW a \in Nat \ {0}, NEW b \in Nat \ {0}
  PROVE  a * b \in Nat \ {0} /\ a * b >= a /\ a * b >= b
OBVIOUS

LEMMA PowerPositive ==
  ASSUME NEW b \in Nat \ {0}, NEW k \in Nat
  PROVE  Power(b, k) \in Nat \ {0}
<1> DEFINE S == {i \in Nat : Power(b, i) \notin Nat \ {0}}
<1> SUFFICES ASSUME S # {} PROVE FALSE
  OBVIOUS
<1>1. PICK x \in S : \A y \in S : x <= y
  BY Least
<1>2. x # 0
  BY PowerZero
<1>3. x - 1 \in Nat /\ Power(b, x - 1) \in Nat \ {0}
  BY <1>1, <1>2
<1>4. Power(b, x) = b * Power(b, x - 1)
  BY <1>2, <1>3, PowerStep
<1> HIDE DEF S
<1>5. Power(b, x) \in Nat \ {0}
  BY <1>3, <1>4, TimesPositive
<1> QED BY <1>1, <1>5 DEF S

LEMMA PowerMonotonic ==
  ASSUME NEW b \in Nat \ {0}, NEW j \in Nat, NEW k \in Nat, j <= k
  PROVE  Power(b, j) <= Power(b, k)
<1> DEFINE S == {i \in Nat : j <= i /\ ~(Power(b, j) <= Power(b, i))}
<1> SUFFICES ASSUME S # {} PROVE FALSE
  OBVIOUS
<1>1. PICK x \in S : \A y \in S : x <= y
  BY Least
<1>2. x > j
  <2>1. Power(b, j) \in Nat
    BY PowerPositive
  <2>2. x # j
    BY <2>1
  <2> QED BY <2>2
<1>3. x - 1 \in Nat /\ j <= x - 1 /\ Power(b, j) <= Power(b, x - 1)
  BY <1>1, <1>2
<1>4. Power(b, x) = b * Power(b, x - 1)
  BY <1>2, <1>3, PowerStep
<1>5. Power(b, x - 1) \in Nat \ {0} /\ Power(b, j) \in Nat
  BY <1>3, PowerPositive
<1>6. Power(b, x) >= Power(b, x - 1)
  BY <1>4, <1>5, TimesPositive
<1>7. Power(b, x) \in Nat
  BY PowerPositive
<1>8. Power(b, j) <= Power(b, x)
  BY <1>3, <1>5, <1>6, <1>7
<1> QED BY <1>8

LEMMA DivMod ==
  ASSUME NEW n \in Int, NEW m \in Nat \ {0}
  PROVE  /\ n = m * (n \div m) + (n % m)
         /\ n % m \in 0..(m - 1) /\ n \div m \in Int
OBVIOUS

(* Quotient and remainder are the only ones. *)
LEMMA DivModUnique ==
  ASSUME NEW m \in Nat \ {0}, NEW q \in Int, NEW r \in 0..(m - 1)
  PROVE  (m * q + r) \div m = q /\ (m * q + r) % m = r
<1> DEFINE n == m * q + r
           p == n \div m
           s == n % m
<1>1. n \in Int
  OBVIOUS
<1>2. n = m * p + s /\ s \in 0..(m - 1) /\ p \in Int
  BY <1>1, DivMod
<1> HIDE DEF p, s
<1>3. m * (p - q) = r - s
  BY <1>2
<1>4. ~(p - q >= 1)
  <2> SUFFICES ASSUME p - q >= 1 PROVE FALSE
    OBVIOUS
  <2>1. m * (p - q) >= m * 1
    BY <1>2
  <2> QED BY <1>2, <1>3, <2>1
<1>5. ~(p - q <= -1)
  <2> SUFFICES ASSUME p - q <= -1 PROVE FALSE
    OBVIOUS
  <2>1. m * (p - q) <= m * (-1)
    BY <1>2
  <2> QED BY <1>2, <1>3, <2>1
<1>6. p = q
  BY <1>2, <1>4, <1>5
<1>7. s = r
  BY <1>2, <1>6
<1> QED BY <1>6, <1>7 DEF p, s

LEMMA ModStep ==
  ASSUME NEW n \in Int, NEW m \in Nat \ {0}, NEW b \in Nat \ {0}
  PROVE  n % (b * m) = (n % m) + ((n \div m) % b) * m
<1> DEFINE q == n \div m
           r == n % m
           c == q \div b
           d == q % b
<1>1. n = m * q + r /\ r \in 0..(m - 1) /\ q \in Int
  BY DivMod
<1>2. q = b * c + d /\ d \in 0..(b - 1) /\ c \in Int
  BY <1>1, DivMod
<1> HIDE DEF q, r, c, d
<1>3. b * m \in Nat \ {0}
  BY TimesPositive
<1>4. n = (b * m) * c + (d * m + r)
  <2>1. m * (b * c + d) = (b * m) * c + d * m
    BY <1>2
  <2> QED BY <1>1, <1>2, <2>1
<1>5. d * m + r \in 0..(b * m - 1)
  <2>1. d * m \in Nat
    BY <1>2
  <2>2. d * m <= (b - 1) * m
    BY <1>2
  <2>3. (b - 1) * m = b * m - m
    OBVIOUS
  <2>4. d * m + r <= b * m - 1 /\ d * m + r >= 0 /\ d * m + r \in Int /\ b * m \in Int
    BY <1>1, <2>1, <2>2, <2>3
  <2> QED BY <2>4
<1>6. n % (b * m) = d * m + r
  BY <1>2, <1>3, <1>4, <1>5, DivModUnique
<1> QED BY <1>1, <1>2, <1>6 DEF q, r, d

LEMMA DigitsStep ==
  ASSUME NEW n \in Int, NEW k \in Nat, NEW i \in 1..k
  PROVE  n % Power(Base, i) = (n % Power(Base, i - 1)) + Digits(n, k)[i] * Power(Base, i - 1)
<1>1. Base \in Nat \ {0}
  BY CodecAssumption
<1>2. i - 1 \in Nat /\ Power(Base, i - 1) \in Nat \ {0}
  BY <1>1, PowerPositive
<1>3. Power(Base, i) = Base * Power(Base, i - 1)
  BY <1>1, <1>2, PowerStep
<1>4. Digits(n, k)[i] = (n \div Power(Base, i - 1)) % Base
  BY DEF Digits
<1> QED BY <1>1, <1>2, <1>3, <1>4, ModStep

(* The bytes of a number, read back, are the number up to their width. *)
LEMMA UnsignedOfDigits ==
  ASSUME NEW n \in Int, NEW k \in Nat
  PROVE  Unsigned(Digits(n, k)) = n % Power(Base, k)
<1> DEFINE s == Digits(n, k)
           u[i \in 0..k] == IF i = 0 THEN 0 ELSE u[i - 1] + s[i] * Power(Base, i - 1)
           v == [i \in 0..k |-> n % Power(Base, i)]
<1>1. Base \in Nat \ {0}
  BY CodecAssumption
<1>2. v = [i \in 0..k |-> IF i = 0 THEN 0 ELSE v[i - 1] + s[i] * Power(Base, i - 1)]
  <2> SUFFICES ASSUME NEW i \in 0..k
               PROVE  v[i] = IF i = 0 THEN 0 ELSE v[i - 1] + s[i] * Power(Base, i - 1)
    OBVIOUS
  <2>1. CASE i = 0
    BY <1>1, <2>1, PowerZero
  <2>2. CASE i # 0
    BY <2>2, DigitsStep
  <2> QED BY <2>1, <2>2
<1>3. u = [i \in 0..k |-> IF i = 0 THEN 0 ELSE u[i - 1] + s[i] * Power(Base, i - 1)]
  <2> HIDE DEF v
  <2> QED BY <1>2
<1>4. Len(s) = k
  BY DEF Digits
<1>5. Unsigned(s) = u[k]
  BY <1>4 DEF Unsigned
<1> HIDE DEF u, v, s
<1> DEFINE S == {i \in 0..k : u[i] # v[i]}
<1>6. S = {}
  <2> SUFFICES ASSUME S # {} PROVE FALSE
    OBVIOUS
  <2>1. S \subseteq Nat
    OBVIOUS
  <2>2. PICK x \in S : \A y \in S : x <= y
    BY <2>1, Least
  <2>3. x # 0
    BY <1>2, <1>3
  <2>4. u[x - 1] = v[x - 1]
    BY <2>2, <2>3
  <2>5. u[x] = u[x - 1] + s[x] * Power(Base, x - 1) /\ v[x] = v[x - 1] + s[x] * Power(Base, x - 1)
    BY <1>2, <1>3, <2>3
  <2> QED BY <2>4, <2>5
<1>7. u[k] = v[k]
  BY <1>6
<1> QED BY <1>5, <1>7 DEF v, s

(* The digits of a number read back, signed and unsigned. *)
LEMMA BaseFacts ==
  /\ Base \in Nat \ {0} /\ Base > 6 /\ Base > LongBytes + 1 /\ LongBytes \in Nat /\ LongBytes > 4
  /\ \A k \in Nat : Power(Base, k) \in Nat \ {0}
  /\ Power(Base, 0) = 1 /\ Power(Base, 1) = Base /\ Power(Base, 2) = Base * Base
<1>1. Base \in Nat \ {0} /\ Base > 6 /\ Base > LongBytes + 1 /\ LongBytes \in Nat /\ LongBytes > 4
  BY CodecAssumption
<1>2. \A k \in Nat : Power(Base, k) \in Nat \ {0}
  BY <1>1, PowerPositive
<1>3. Power(Base, 0) = 1
  BY <1>1, PowerZero
<1>4. Power(Base, 0 + 1) = Base * Power(Base, 0)
  BY <1>1, PowerStep
<1>5. Power(Base, 1 + 1) = Base * Power(Base, 1)
  BY <1>1, PowerStep
<1>6. Power(Base, 1) = Base
  BY <1>1, <1>3, <1>4
<1> QED BY <1>1, <1>2, <1>3, <1>5, <1>6

LEMMA DigitsType ==
  ASSUME NEW n \in Int, NEW k \in Nat
  PROVE  /\ Digits(n, k) \in Seq(0..(Base - 1)) /\ Len(Digits(n, k)) = k
         /\ DOMAIN Digits(n, k) = 1..k
<1>1. ASSUME NEW i \in 1..k
      PROVE  (n \div Power(Base, i - 1)) % Base \in 0..(Base - 1)
  <2>1. Power(Base, i - 1) \in Nat \ {0} /\ Base \in Nat \ {0}
    BY BaseFacts
  <2> HIDE DEF Power
  <2>2. n \div Power(Base, i - 1) \in Int
    BY <2>1, DivMod
  <2> QED BY <2>1, <2>2, DivMod
<1> QED BY <1>1 DEF Digits

LEMMA UnsignedDigits ==
  ASSUME NEW k \in Nat, NEW n \in 0..(Power(Base, k) - 1)
  PROVE  Unsigned(Digits(n, k)) = n
<1>1. Power(Base, k) \in Nat \ {0}
  BY BaseFacts
<1>2. Unsigned(Digits(n, k)) = n % Power(Base, k)
  BY UnsignedOfDigits
<1>3. (Power(Base, k) * 0 + n) % Power(Base, k) = n
  BY <1>1, DivModUnique
<1>4. Power(Base, k) * 0 + n = n
  BY <1>1
<1> QED BY <1>2, <1>3, <1>4

LEMMA SignedDigits ==
  ASSUME NEW k \in Nat, NEW n \in Int, InBytes(n, k)
  PROVE  Signed(Digits(n, k)) = n
<1> DEFINE m == Power(Base, k)
<1>1. m \in Nat \ {0}
  BY BaseFacts
<1>2. 2 * n >= -m /\ 2 * n < m
  BY DEF InBytes
<1>3. Unsigned(Digits(n, k)) = n % m /\ Len(Digits(n, k)) = k
  BY UnsignedOfDigits, DigitsType
<1>4. Signed(Digits(n, k)) = IF 2 * (n % m) >= m THEN (n % m) - m ELSE n % m
  BY <1>3 DEF Signed
<1> HIDE DEF m
<1>5. CASE n >= 0
  <2>1. (m * 0 + n) % m = n
    BY <1>1, <1>2, <1>5, DivModUnique
  <2>2. n % m = n
    BY <2>1, <1>1
  <2> QED BY <2>2, <1>1, <1>2, <1>4
<1>6. CASE n < 0
  <2> DEFINE r == n + m
  <2>0. r \in 0..(m - 1) /\ -1 \in Int
    BY <1>1, <1>2, <1>6
  <2>1. (m * (-1) + r) % m = r
    <3> HIDE DEF r
    <3> QED BY <1>1, <2>0, DivModUnique
  <2>3. m * (-1) + r = n
    BY <1>1
  <2>2. n % m = n + m
    BY <2>1, <2>3
  <2> QED BY <2>2, <1>1, <1>2, <1>4
<1> QED BY <1>5, <1>6

LEMMA UnsignedByte ==
  ASSUME NEW c \in 0..(Base - 1)
  PROVE  Unsigned(<<c>>) = c /\ Digits(c, 1) = <<c>>
<1>1. Digits(c, 1) = <<c>>
  <2>1. Base \in Nat \ {0} /\ Power(Base, 0) = 1
    BY BaseFacts
  <2>2. Digits(c, 1) = [i \in 1..1 |-> (c \div Power(Base, i - 1)) % Base]
    BY DEF Digits
  <2>3. (c \div 1) % Base = c
    <3>1. (1 * c + 0) \div 1 = c
      BY DivModUnique
    <3>2. (Base * 0 + c) % Base = c
      BY <2>1, DivModUnique
    <3> QED BY <2>1, <3>1, <3>2
  <2> QED BY <2>1, <2>2, <2>3
<1>2. c \in 0..(Power(Base, 1) - 1)
  BY BaseFacts
<1> QED BY <1>1, <1>2, UnsignedDigits

LEMMA IntegerSizeIs ==
  ASSUME NEW n \in Nat, n < Power(Base, LongBytes)
  PROVE  LET k == IntegerSize(n) IN
         /\ k \in 0..LongBytes /\ n < Power(Base, k)
         /\ k > 0 => n >= Power(Base, k - 1)
<1> DEFINE S == {i \in Nat : n < Power(Base, i)}
<1>1. LongBytes \in S
  BY BaseFacts
<1>2. PICK x \in S : \A y \in S : x <= y
  <2>1. S \subseteq Nat /\ S # {}
    BY <1>1
  <2> HIDE DEF S
  <2> QED BY <2>1, Least
<1>3. x \in 0..LongBytes
  BY <1>1, <1>2
<1>4. \A i \in 0..(LongBytes - 1) : n >= Power(Base, i) <=> i \in 0..(x - 1)
  <2> SUFFICES ASSUME NEW i \in 0..(LongBytes - 1) PROVE n >= Power(Base, i) <=> i \in 0..(x - 1)
    OBVIOUS
  <2>1. Power(Base, i) \in Nat /\ Power(Base, x) \in Nat /\ LongBytes \in Nat
    BY BaseFacts
  <2>2. CASE i < x
    <3>1. i \notin S
      BY <1>2, <2>2
    <3> QED BY <2>1, <2>2, <3>1
  <2>3. CASE i >= x
    <3>1. Power(Base, x) <= Power(Base, i)
      BY <2>3, BaseFacts, PowerMonotonic
    <3> QED BY <1>2, <2>1, <2>3, <3>1
  <2> QED BY <2>2, <2>3
<1>5. {i \in 0..(LongBytes - 1) : n >= Power(Base, i)} = 0..(x - 1)
  BY <1>3, <1>4, BaseFacts
<1>6. IntegerSize(n) = x
  <2>1. IntegerSize(n) = Cardinality(0..(x - 1))
    BY <1>5 DEF IntegerSize
  <2>2. CASE x = 0
    <3>1. 0..(x - 1) = {}
      BY <2>2
    <3> QED BY <2>1, <2>2, <3>1, FS_EmptySet
  <2>3. CASE x > 0
    <3>1. 0 \in Int /\ x - 1 \in Int /\ 0 <= x - 1
      BY <1>3, <2>3
    <3>2. Cardinality(0..(x - 1)) = (x - 1) - 0 + 1
      <4> DEFINE z == x - 1
      <4>1. z \in Int /\ 0 <= z
        BY <3>1
      <4> HIDE DEF z
      <4>2. Cardinality(0..z) = z - 0 + 1
        BY <4>1, FS_Interval
      <4> QED BY <4>2 DEF z
    <3> QED BY <1>3, <2>1, <3>2
  <2> QED BY <1>3, <2>2, <2>3
<1>7. x > 0 => n >= Power(Base, x - 1)
  BY <1>2, <1>3, <1>4, BaseFacts
<1> QED BY <1>2, <1>3, <1>6, <1>7

(* How many bytes a var integer has: those of the number and perhaps one more. *)
LEMMA VarIntegerIs ==
  ASSUME NEW n \in Nat, InBytes(n, LongBytes), NEW w \in WriteVarInteger(n)
  PROVE  \E size \in 0..LongBytes :
           /\ w = VarInteger(n, size) /\ n < Power(Base, size)
           /\ ~(2 * Base * n >= Power(Base, LongBytes)) => size < LongBytes
<1> DEFINE k == IntegerSize(n)
           m == Power(Base, LongBytes)
<1>1. m \in Nat \ {0} /\ 2 * n < m /\ n < m
  BY BaseFacts DEF InBytes
<1>2. k \in 0..LongBytes /\ n < Power(Base, k) /\ (k > 0 => n >= Power(Base, k - 1))
  BY <1>1, IntegerSizeIs
<1> DEFINE top == 2 * Digits(n, k)[k] >= Base
<1>3. PICK size : /\ w = VarInteger(n, size) /\ size \in {k, k + 1}
                  /\ k > 0 => (size = k + 1 => top) 
  <2>1. PICK s \in IF k = 0 THEN BOOLEAN ELSE {top} : w = VarInteger(n, IF s THEN k + 1 ELSE k)
    BY Zenon DEF WriteVarInteger
  <2>2. CASE k = 0
    <3>1. s \in BOOLEAN
      BY <2>1, <2>2, Zenon
    <3>2. w = VarInteger(n, k) \/ w = VarInteger(n, k + 1)
      BY <2>1, <3>1, Zenon
    <3>3. ~(k > 0)
      BY <2>2
    <3> QED BY <3>2, <3>3, Zenon
  <2>3. CASE k # 0
    <3>1. s = top
      BY <2>1, <2>3, Zenon
    <3>2. CASE top
      BY <2>1, <3>1, <3>2, Zenon
    <3>3. CASE ~top
      <4>1. w = VarInteger(n, k)
        BY <2>1, <3>1, <3>3, Zenon
      <4>2. k # k + 1
        BY <1>2
      <4> QED BY <4>1, <4>2, Zenon
    <3> QED BY <3>2, <3>3, Zenon
  <2> QED BY <2>2, <2>3, Zenon
<1> HIDE DEF k
<1>4. k > 0 /\ size = k + 1 => 2 * n >= Power(Base, k)
  <2> SUFFICES ASSUME k > 0, size = k + 1 PROVE 2 * n >= Power(Base, k)
    OBVIOUS
  <2> DEFINE p == Power(Base, k - 1)
             d == n \div p
  <2>1. p \in Nat \ {0} /\ Power(Base, k) = Base * p /\ Base \in Nat \ {0}
    <3>1. k - 1 \in Nat
      BY <1>2
    <3>2. Power(Base, (k - 1) + 1) = Base * p
      BY <3>1, BaseFacts, PowerStep
    <3> QED BY <1>2, <3>1, <3>2, BaseFacts
  <2>2. Digits(n, k)[k] = d % Base
    BY <1>2 DEF Digits
  <2>3. 2 * (d % Base) >= Base
    BY <1>3, <2>2
  <2>4. n = p * d + (n % p) /\ (n % p) \in 0..(p - 1) /\ d \in Int
    <3> HIDE DEF p, d
    <3>1. n = p * (n \div p) + (n % p) /\ n % p \in 0..(p - 1) /\ n \div p \in Int
      <4>1. n \in Int
        OBVIOUS
      <4> QED BY <2>1, <4>1, DivMod
    <3> QED BY <3>1 DEF d
  <2> HIDE DEF p
  <2>5. d >= 0
    <3> SUFFICES ASSUME d <= -1 PROVE FALSE
      BY <2>4
    <3>1. p * d <= p * (-1)
      BY <2>1, <2>4
    <3> QED BY <2>1, <2>4, <3>1
  <2>6. d % Base <= d
    <3>1. d = Base * (d \div Base) + (d % Base) /\ (d % Base) \in 0..(Base - 1) /\ d \div Base \in Int
      BY <2>1, <2>4, DivMod
    <3>2. d \div Base >= 0
      <4> SUFFICES ASSUME d \div Base <= -1 PROVE FALSE
        BY <3>1
      <4>1. Base * (d \div Base) <= Base * (-1)
        BY <2>1, <3>1
      <4> QED BY <2>1, <2>5, <3>1, <4>1
    <3> QED BY <2>1, <3>1, <3>2
  <2>7. 2 * d >= Base
    <3> HIDE DEF d
    <3>1. d % Base \in Int
      BY <2>1, <2>4, DivMod
    <3> QED BY <2>1, <2>3, <2>4, <2>6, <3>1
  <2>8. p * (2 * d) >= p * Base
    BY <2>1, <2>4, <2>7
  <2> QED BY <2>1, <2>4, <2>8
<1>5. k = 0 => n = 0
  BY <1>2, BaseFacts
<1>6. size \in 0..LongBytes
  <2>1. k = LongBytes => size # k + 1
    BY <1>1, <1>2, <1>4, BaseFacts
  <2> QED BY <1>2, <1>3, <2>1, BaseFacts
<1>7. n < Power(Base, size)
  <2>1. Power(Base, k) <= Power(Base, size) /\ Power(Base, k) \in Nat /\ Power(Base, size) \in Nat
    BY <1>2, <1>3, <1>6, BaseFacts, PowerMonotonic
  <2> QED BY <1>2, <2>1
<1>8. ASSUME ~(2 * Base * n >= m), size >= LongBytes PROVE FALSE
  <2>1. LongBytes - 1 \in Nat /\ m = Base * Power(Base, LongBytes - 1) /\ Power(Base, LongBytes - 1) \in Nat \ {0}
    <3>1. LongBytes - 1 \in Nat
      BY BaseFacts
    <3>2. Power(Base, (LongBytes - 1) + 1) = Base * Power(Base, LongBytes - 1)
      BY <3>1, BaseFacts, PowerStep
    <3> QED BY <3>1, <3>2, BaseFacts
  <2>2. 2 * n < Power(Base, LongBytes - 1)
    <3> SUFFICES ASSUME 2 * n >= Power(Base, LongBytes - 1) PROVE FALSE
      BY <2>1
    <3>1. Base * (2 * n) >= Base * Power(Base, LongBytes - 1)
      BY <2>1, BaseFacts
    <3> QED BY <1>8, <2>1, <3>1, BaseFacts
  <2>3. k # LongBytes
    BY <1>2, <2>1, <2>2, BaseFacts
  <2>4. k = LongBytes - 1 /\ size = k + 1
    BY <1>2, <1>3, <1>6, <1>8, <2>3, BaseFacts
  <2> QED BY <1>4, <2>1, <2>2, <2>4, BaseFacts
<1>9. ~(2 * Base * n >= Power(Base, LongBytes)) => size < LongBytes
  BY <1>6, <1>8, BaseFacts
<1> QED BY <1>3, <1>6, <1>7, <1>9, Zenon
-----------------------------------------------------------------------------
(* Sequences of anything: what the frames of load hold is not known to be of a set. *)
IsSeq(s) == s \in Seq({s[i] : i \in 1..Len(s)})

LEMMA SeqIsSeq ==
  ASSUME NEW X, NEW s \in Seq(X)
  PROVE  IsSeq(s)
<1>1. Len(s) \in Nat /\ s \in [1..Len(s) -> X]
  BY LenProperties
<1> DEFINE Y == {s[i] : i \in 1..Len(s)}
           n == Len(s)
<1>2. s \in [1..n -> Y]
  BY <1>1
<1> HIDE DEF Y
<1>3. s \in UNION {[1..k -> Y] : k \in Nat}
  BY <1>1, <1>2
<1>4. s \in Seq(Y)
  BY <1>3, SeqDef
<1> QED BY <1>4 DEF IsSeq, Y

LEMMA AppendIs ==
  ASSUME NEW s, IsSeq(s), NEW e
  PROVE  LET t == Append(s, e) IN
         /\ IsSeq(t) /\ Len(t) = Len(s) + 1 /\ Len(s) \in Nat
         /\ t[Len(t)] = e /\ \A i \in 1..Len(s) : t[i] = s[i]
<1> DEFINE X == {s[i] : i \in 1..Len(s)} \cup {e}
<1>1. s \in Seq(X)
  BY SeqMonotonic DEF IsSeq
<1>2. e \in X
  OBVIOUS
<1> HIDE DEF X
<1>3. Append(s, e) \in Seq(X) /\ Len(Append(s, e)) = Len(s) + 1
      /\ (\A i \in 1..Len(s) : Append(s, e)[i] = s[i]) /\ Append(s, e)[Len(s) + 1] = e
  BY <1>1, <1>2, AppendProperties
<1> QED BY <1>1, <1>3, SeqIsSeq, LenProperties

LEMMA PopIs ==
  ASSUME NEW s, IsSeq(s), s # <<>>
  PROVE  LET t == SubSeq(s, 1, Len(s) - 1) IN
         /\ IsSeq(t) /\ Len(t) = Len(s) - 1 /\ Len(s) \in Nat \ {0}
         /\ \A i \in 1..Len(t) : t[i] = s[i]
<1> DEFINE X == {s[i] : i \in 1..Len(s)}
<1>1. s \in Seq(X)
  BY DEF IsSeq
<1> HIDE DEF X
<1>2. Len(s) \in Nat \ {0} /\ \A i \in 1..(Len(s) - 1) : s[i] \in X
  BY <1>1, EmptySeq, ElementOfSeq
<1> DEFINE n == Len(s) - 1
<1>3. n \in Nat /\ 1 \in Int /\ \A i \in 1..n : s[i] \in X
  BY <1>2
<1> HIDE DEF n
<1>4. /\ SubSeq(s, 1, n) \in Seq(X)
      /\ Len(SubSeq(s, 1, n)) = IF 1 <= n THEN n - 1 + 1 ELSE 0
      /\ \A i \in 1..(n - 1 + 1) : SubSeq(s, 1, n)[i] = s[1 + i - 1]
  BY <1>3, SubSeqProperties
<1>5. Len(SubSeq(s, 1, n)) = n /\ \A i \in 1..n : SubSeq(s, 1, n)[i] = s[i]
  BY <1>3, <1>4
<1>6. IsSeq(SubSeq(s, 1, n))
  BY <1>4, SeqIsSeq
<1> QED BY <1>2, <1>5, <1>6 DEF n

LEMMA ConcatIs ==
  ASSUME NEW s, IsSeq(s), NEW t, IsSeq(t)
  PROVE  LET u == s \o t IN
         /\ IsSeq(u) /\ Len(u) = Len(s) + Len(t) /\ Len(s) \in Nat /\ Len(t) \in Nat
         /\ \A i \in 1..Len(u) : u[i] = IF i <= Len(s) THEN s[i] ELSE t[i - Len(s)]
<1> DEFINE X == {s[i] : i \in 1..Len(s)} \cup {t[i] : i \in 1..Len(t)}
<1>1. s \in Seq(X) /\ t \in Seq(X)
  BY SeqMonotonic DEF IsSeq
<1> HIDE DEF X
<1> QED BY <1>1, ConcatProperties, SeqIsSeq, LenProperties

LEMMA SameSeq ==
  ASSUME NEW s, IsSeq(s), NEW t, IsSeq(t), Len(s) = Len(t), \A i \in 1..Len(s) : s[i] = t[i]
  PROVE  s = t
<1> DEFINE X == {s[i] : i \in 1..Len(s)} \cup {t[i] : i \in 1..Len(t)}
<1>1. s \in Seq(X) /\ t \in Seq(X)
  BY SeqMonotonic DEF IsSeq
<1> HIDE DEF X
<1> QED BY <1>1, SeqEqual

(* What is left of a sequence behind its first c elements. *)
Rest(s, c) == SubSeq(s, c + 1, Len(s))

LEMMA RestIs ==
  ASSUME NEW X, NEW s \in Seq(X), NEW c \in 0..Len(s)
  PROVE  /\ Rest(s, c) \in Seq(X) /\ Len(Rest(s, c)) = Len(s) - c
         /\ \A i \in 1..(Len(s) - c) : Rest(s, c)[i] = s[c + i]
<1>1. Len(s) \in Nat /\ c + 1 \in Int /\ \A i \in (c + 1)..Len(s) : s[i] \in X
  BY LenProperties, ElementOfSeq
<1> DEFINE n == Len(s)
           m == c + 1
<1>2. m \in Int /\ n \in Int /\ \A i \in m..n : s[i] \in X
  BY <1>1
<1> HIDE DEF m, n
<1>3. /\ SubSeq(s, m, n) \in Seq(X)
      /\ Len(SubSeq(s, m, n)) = IF m <= n THEN n - m + 1 ELSE 0
      /\ \A i \in 1..(n - m + 1) : SubSeq(s, m, n)[i] = s[m + i - 1]
  BY <1>2, SubSeqProperties
<1>4. n - m + 1 = Len(s) - c
  BY <1>1 DEF n, m
<1>5. Len(SubSeq(s, m, n)) = Len(s) - c
  BY <1>1, <1>3 DEF n, m
<1>6. ASSUME NEW i \in 1..(Len(s) - c) PROVE SubSeq(s, m, n)[i] = s[c + i]
  <2>1. SubSeq(s, m, n)[i] = s[m + i - 1]
    BY <1>3, <1>4
  <2>2. m + i - 1 = c + i
    BY <1>1 DEF m
  <2> QED BY <2>1, <2>2
<1> QED BY <1>3, <1>5, <1>6 DEF Rest, m, n

LEMMA RestAll ==
  ASSUME NEW X, NEW s \in Seq(X)
  PROVE  Rest(s, 0) = s /\ Rest(s, Len(s)) = <<>>
<1>1. Len(s) \in Nat
  BY LenProperties
<1>2. Rest(s, 0) = s
  BY SubSeqFull DEF Rest
<1>3. Rest(s, Len(s)) = <<>>
  BY <1>1, SubSeqEmpty DEF Rest
<1> QED BY <1>2, <1>3

LEMMA RestNext ==
  ASSUME NEW X, NEW s \in Seq(X), NEW c \in 0..(Len(s) - 1)
  PROVE  /\ Rest(s, c) = <<s[c + 1]>> \o Rest(s, c + 1)
         /\ s[c + 1] \in X
<1>1. Len(s) \in Nat /\ c + 1 \in 1..Len(s) /\ Len(s) \in (c + 1)..Len(s)
  BY LenProperties
<1> QED BY <1>1, SubSeqRecursiveFirst, ElementOfSeq DEF Rest

LEMMA RestIsTail ==
  ASSUME NEW X, NEW s \in Seq(X), s # <<>>
  PROVE  s[1] \in X /\ Tail(s) = Rest(s, 1) /\ s = <<s[1]>> \o Tail(s) /\ Tail(s) \in Seq(X)
<1>1. Len(s) \in Nat \ {0}
  BY EmptySeq
<1>2. Tail(s) = Rest(s, 1)
  BY TailIsSubSeq DEF Rest
<1>3. s = Rest(s, 0)
  BY RestAll
<1>4. 0 \in 0..(Len(s) - 1) /\ 0 + 1 = 1
  BY <1>1
<1>5. Rest(s, 0) = <<s[1]>> \o Rest(s, 1) /\ s[1] \in X
  BY <1>4, RestNext
<1>6. 1 \in 0..Len(s)
  BY <1>1
<1> QED BY <1>2, <1>3, <1>5, <1>6, RestIs

(* The first element of a sequence that is not empty, and what follows it. *)
LEMMA FirstAndRest ==
  ASSUME NEW X, NEW x \in X, NEW s \in Seq(X)
  PROVE  LET t == <<x>> \o s IN t \in Seq(X) /\ t # <<>> /\ t[1] = x /\ Tail(t) = s
<1> DEFINE t == <<x>> \o s
<1>0. <<x>> \in Seq(X) /\ Len(<<x>>) = 1 /\ <<x>>[1] = x
  OBVIOUS
<1>1. t \in Seq(X) /\ Len(t) = 1 + Len(s) /\ \A i \in 1..(1 + Len(s)) : t[i] = IF i <= 1 THEN x ELSE s[i - 1]
  BY <1>0, ConcatProperties
<1>2. Len(s) \in Nat
  BY LenProperties
<1> HIDE DEF t
<1>3. t # <<>> /\ t[1] = x
  BY <1>1, <1>2, EmptySeq
<1>4. Tail(t) \in Seq(X) /\ Len(Tail(t)) = Len(t) - 1 /\ \A i \in 1..Len(Tail(t)) : Tail(t)[i] = t[i + 1]
  BY <1>1, <1>3, HeadTailProperties
<1>5. \A i \in 1..Len(s) : Tail(t)[i] = s[i]
  BY <1>1, <1>2, <1>4
<1>6. Tail(t) = s
  BY <1>1, <1>2, <1>4, <1>5, SeqEqual
<1> QED BY <1>1, <1>3, <1>6 DEF t

LEMMA SameFirst ==
  ASSUME NEW X, NEW x \in X, NEW y \in X, NEW s \in Seq(X), NEW t \in Seq(X),
         <<x>> \o s = <<y>> \o t
  PROVE  x = y /\ s = t
<1> DEFINE u == <<x>> \o s
           v == <<y>> \o t
<1>1. u[1] = x /\ Tail(u) = s
  BY FirstAndRest
<1>2. v[1] = y /\ Tail(v) = t
  BY FirstAndRest
<1>3. u = v
  OBVIOUS
<1> HIDE DEF u, v
<1> QED BY <1>1, <1>2, <1>3

(* A text s stands in the bytes c behind index p. *)
Stands(c, p, s) == p + Len(s) <= Len(c) /\ \A i \in 1..Len(s) : c[p + i] = s[i]

LEMMA StandsConcat ==
  ASSUME NEW X, NEW c \in Seq(X), NEW p \in Nat, NEW s \in Seq(X), NEW t \in Seq(X),
         Stands(c, p, s \o t)
  PROVE  Stands(c, p, s) /\ Stands(c, p + Len(s), t)
<1>1. Len(s \o t) = Len(s) + Len(t) /\ Len(s) \in Nat /\ Len(t) \in Nat /\ Len(c) \in Nat
      /\ \A i \in 1..(Len(s) + Len(t)) : (s \o t)[i] = IF i <= Len(s) THEN s[i] ELSE t[i - Len(s)]
  BY ConcatProperties, LenProperties
<1> DEFINE u == s \o t
<1>2. p + Len(u) <= Len(c) /\ \A i \in 1..Len(u) : c[p + i] = u[i]
  BY DEF Stands
<1> HIDE DEF u
<1>3. Len(u) = Len(s) + Len(t) /\ \A i \in 1..(Len(s) + Len(t)) : u[i] = IF i <= Len(s) THEN s[i] ELSE t[i - Len(s)]
  BY <1>1 DEF u
<1>4. Stands(c, p, s)
  BY <1>1, <1>2, <1>3 DEF Stands
<1>5. ASSUME NEW i \in 1..Len(t) PROVE c[p + Len(s) + i] = t[i]
  <2> DEFINE j == Len(s) + i
  <2>1. j \in 1..Len(u) /\ ~(j <= Len(s)) /\ j - Len(s) = i /\ p + j = p + Len(s) + i
    BY <1>1, <1>3
  <2> HIDE DEF j
  <2>2. c[p + j] = u[j] /\ u[j] = t[i]
    BY <2>1, <1>2, <1>3
  <2> QED BY <2>1, <2>2
<1>6. p + Len(s) + Len(t) <= Len(c)
  BY <1>1, <1>2, <1>3
<1> QED BY <1>4, <1>5, <1>6 DEF Stands

LEMMA StandsLonger ==
  ASSUME NEW X, NEW c \in Seq(X), NEW d \in Seq(X), NEW p \in Nat, NEW s \in Seq(X), Stands(c, p, s)
  PROVE  Stands(c \o d, p, s)
<1>1. Len(c \o d) = Len(c) + Len(d) /\ Len(s) \in Nat /\ Len(d) \in Nat /\ Len(c) \in Nat
      /\ \A i \in 1..(Len(c) + Len(d)) : (c \o d)[i] = IF i <= Len(c) THEN c[i] ELSE d[i - Len(c)]
  BY ConcatProperties, LenProperties
<1> QED BY <1>1 DEF Stands

LEMMA StandsLast ==
  ASSUME NEW X, NEW c \in Seq(X), NEW s \in Seq(X)
  PROVE  Stands(c \o s, Len(c), s)
<1>1. Len(c \o s) = Len(c) + Len(s) /\ Len(s) \in Nat /\ Len(c) \in Nat
      /\ \A i \in 1..(Len(c) + Len(s)) : (c \o s)[i] = IF i <= Len(c) THEN c[i] ELSE s[i - Len(c)]
  BY ConcatProperties, LenProperties
<1>2. ASSUME NEW i \in 1..Len(s) PROVE (c \o s)[Len(c) + i] = s[i]
  <2> DEFINE j == Len(c) + i
  <2>1. j \in 1..(Len(c) + Len(s)) /\ ~(j <= Len(c)) /\ j - Len(c) = i
    BY <1>1
  <2> HIDE DEF j
  <2>2. (c \o s)[j] = s[i]
    BY <1>1, <2>1
  <2> QED BY <2>2 DEF j
<1> QED BY <1>1, <1>2 DEF Stands
-----------------------------------------------------------------------------
(* What calls into the stream write. *)
Stream == {"header", "write", "buffer", "reserve"}
CallSet == [fn : Stream, room : Nat, cells : Seq(Nat), obj : {None}]
Calls == {c \in CallSet : c.room >= Len(c.cells)}

Cells(w, i) == IF i <= Len(w) THEN w[i].cells ELSE <<>>
Bytes(w) == Cells(w, 1) \o (Cells(w, 2) \o (Cells(w, 3) \o Cells(w, 4)))
IsWriting(w) == w \in Seq(Calls) /\ Len(w) <= 4

LEMMA CellsType ==
  ASSUME NEW w, IsWriting(w), NEW i \in Nat \ {0}
  PROVE  Cells(w, i) \in Seq(Nat)
<1>1. CASE i <= Len(w)
  <2>1. w[i] \in Calls
    BY <1>1, ElementOfSeq, LenProperties DEF IsWriting
  <2>2. w[i].cells \in Seq(Nat)
    BY <2>1 DEF Calls, CallSet
  <2> QED BY <1>1, <2>2 DEF Cells
<1>2. CASE ~(i <= Len(w))
  BY <1>2, EmptySeq DEF Cells
<1> QED BY <1>1, <1>2

LEMMA BytesType ==
  ASSUME NEW w, IsWriting(w)
  PROVE  Bytes(w) \in Seq(Nat)
<1>1. Cells(w, 1) \in Seq(Nat) /\ Cells(w, 2) \in Seq(Nat) /\ Cells(w, 3) \in Seq(Nat) /\ Cells(w, 4) \in Seq(Nat)
  BY CellsType
<1>2. Cells(w, 3) \o Cells(w, 4) \in Seq(Nat)
  BY <1>1, ConcatProperties
<1>3. Cells(w, 2) \o (Cells(w, 3) \o Cells(w, 4)) \in Seq(Nat)
  BY <1>1, <1>2, ConcatProperties
<1> QED BY <1>1, <1>3, ConcatProperties DEF Bytes

LEMMA BytesNone == IsWriting(<<>>) /\ Bytes(<<>>) = <<>>
<1>1. <<>> \in Seq(Calls) /\ Len(<<>>) = 0 /\ <<>> \in Seq(Nat)
  BY EmptySeq
<1>2. \A i \in Nat \ {0} : Cells(<<>>, i) = <<>>
  BY <1>1 DEF Cells
<1>3. <<>> \o <<>> = <<>>
  BY <1>1, ConcatEmptySeq
<1>4. Cells(<<>>, 1) = <<>> /\ Cells(<<>>, 2) = <<>> /\ Cells(<<>>, 3) = <<>> /\ Cells(<<>>, 4) = <<>>
  BY <1>2
<1> QED BY <1>1, <1>3, <1>4 DEF IsWriting, Bytes

LEMMA BytesTail ==
  ASSUME NEW w, IsWriting(w), w # <<>>
  PROVE  /\ IsWriting(Tail(w)) /\ w[1] \in Calls /\ w[1].cells \in Seq(Nat)
         /\ Bytes(w) = w[1].cells \o Bytes(Tail(w))
<1> DEFINE t == Tail(w)
<1>1. w \in Seq(Calls) /\ Len(w) \in Nat \ {0} /\ Len(w) <= 4
  BY EmptySeq DEF IsWriting
<1>2. t \in Seq(Calls) /\ Len(t) = Len(w) - 1 /\ \A i \in 1..Len(t) : t[i] = w[i + 1]
  BY <1>1, HeadTailProperties
<1>3. IsWriting(t)
  BY <1>1, <1>2 DEF IsWriting
<1>4. w[1] \in Calls
  BY <1>1, ElementOfSeq
<1>5. w[1].cells \in Seq(Nat)
  BY <1>4 DEF Calls, CallSet
<1> HIDE DEF t
<1>6. ASSUME NEW i \in Nat \ {0} PROVE Cells(w, i + 1) = Cells(t, i)
  BY <1>1, <1>2 DEF Cells
<1>7. Cells(w, 2) = Cells(t, 1) /\ Cells(w, 3) = Cells(t, 2) /\ Cells(w, 4) = Cells(t, 3)
  <2>1. Cells(w, 1 + 1) = Cells(t, 1) /\ Cells(w, 2 + 1) = Cells(t, 2) /\ Cells(w, 3 + 1) = Cells(t, 3)
    BY <1>6
  <2> QED BY <2>1
<1>8. Cells(t, 4) = <<>> /\ Cells(w, 1) = w[1].cells
  BY <1>1, <1>2 DEF Cells
<1>9. Cells(t, 1) \in Seq(Nat) /\ Cells(t, 2) \in Seq(Nat) /\ Cells(t, 3) \in Seq(Nat)
  BY <1>3, CellsType
<1>10. Cells(t, 3) \o <<>> = Cells(t, 3)
  BY <1>9, ConcatEmptySeq
<1>11. Bytes(t) = Cells(t, 1) \o (Cells(t, 2) \o Cells(t, 3))
  BY <1>8, <1>10 DEF Bytes
<1>12. Bytes(w) = w[1].cells \o Bytes(t)
  BY <1>7, <1>8, <1>11 DEF Bytes
<1> QED BY <1>3, <1>4, <1>5, <1>12 DEF t

LEMMA Bytes1 ==
  ASSUME NEW a \in Calls
  PROVE  IsWriting(<<a>>) /\ Bytes(<<a>>) = a.cells
<1> DEFINE w == <<a>>
<1>1. w \in Seq(Calls) /\ Len(w) = 1 /\ w # <<>> /\ w[1] = a /\ Tail(w) = <<>>
  OBVIOUS
<1>2. IsWriting(w)
  BY <1>1 DEF IsWriting
<1> HIDE DEF w
<1>3. Bytes(w) = a.cells \o <<>> /\ a.cells \in Seq(Nat)
  BY <1>1, <1>2, BytesTail, BytesNone
<1> QED BY <1>2, <1>3, ConcatEmptySeq DEF w

LEMMA BytesMore ==
  ASSUME NEW a \in Calls, NEW s, IsWriting(s), Len(s) <= 3
  PROVE  IsWriting(<<a>> \o s) /\ Bytes(<<a>> \o s) = a.cells \o Bytes(s)
<1> DEFINE w == <<a>> \o s
<1>1. s \in Seq(Calls) /\ Len(s) \in Nat
  BY LenProperties DEF IsWriting
<1>2. w \in Seq(Calls) /\ w # <<>> /\ w[1] = a /\ Tail(w) = s
  BY <1>1, FirstAndRest
<1>3. Len(w) = 1 + Len(s)
  <2>1. <<a>> \in Seq(Calls) /\ Len(<<a>>) = 1
    OBVIOUS
  <2> QED BY <1>1, <2>1, ConcatProperties
<1> HIDE DEF w
<1>4. IsWriting(w)
  BY <1>1, <1>2, <1>3 DEF IsWriting
<1> QED BY <1>2, <1>4, BytesTail DEF w

LEMMA ShortSeqs ==
  /\ \A a, b : <<a>> \o <<b>> = <<a, b>>
  /\ \A a, b, c : <<a>> \o <<b, c>> = <<a, b, c>>
<1>1. ASSUME NEW a, NEW b PROVE <<a>> \o <<b>> = <<a, b>>
  <2> DEFINE X == {a, b}
             s == <<a>>
             t == <<b>>
             u == <<a, b>>
  <2>1. s \in Seq(X) /\ t \in Seq(X) /\ u \in Seq(X) /\ Len(s) = 1 /\ Len(t) = 1 /\ Len(u) = 2
        /\ s[1] = a /\ t[1] = b /\ u[1] = a /\ u[2] = b
    OBVIOUS
  <2> HIDE DEF X, s, t, u
  <2>2. s \o t \in Seq(X) /\ Len(s \o t) = 2 /\ \A i \in 1..2 : (s \o t)[i] = IF i <= 1 THEN s[i] ELSE t[i - 1]
    BY <2>1, ConcatProperties
  <2>3. \A i \in 1..2 : (s \o t)[i] = u[i]
    BY <2>1, <2>2
  <2>4. s \o t = u
    BY <2>1, <2>2, <2>3, SeqEqual
  <2> QED BY <2>4 DEF s, t, u
<1>2. ASSUME NEW a, NEW b, NEW c PROVE <<a>> \o <<b, c>> = <<a, b, c>>
  <2> DEFINE X == {a, b, c}
             s == <<a>>
             t == <<b, c>>
             u == <<a, b, c>>
  <2>1. s \in Seq(X) /\ t \in Seq(X) /\ u \in Seq(X) /\ Len(s) = 1 /\ Len(t) = 2 /\ Len(u) = 3
        /\ s[1] = a /\ t[1] = b /\ t[2] = c /\ u[1] = a /\ u[2] = b /\ u[3] = c
    OBVIOUS
  <2> HIDE DEF X, s, t, u
  <2>a. s \o t \in Seq(X) /\ Len(s \o t) = Len(s) + Len(t)
        /\ \A i \in 1..(Len(s) + Len(t)) : (s \o t)[i] = IF i <= Len(s) THEN s[i] ELSE t[i - Len(s)]
    BY <2>1, ConcatProperties
  <2>b. Len(s) + Len(t) = 3
    BY <2>1
  <2>2. s \o t \in Seq(X) /\ Len(s \o t) = 3 /\ \A i \in 1..3 : (s \o t)[i] = IF i <= 1 THEN s[i] ELSE t[i - 1]
    BY <2>1, <2>a, <2>b
  <2>3. \A i \in 1..3 : (s \o t)[i] = u[i]
    BY <2>1, <2>2
  <2>4. s \o t = u
    BY <2>1, <2>2, <2>3, SeqEqual
  <2> QED BY <2>4 DEF s, t, u
<1> QED BY <1>1, <1>2

LEMMA Associate ==
  \A x, y, z \in Seq(Nat) : (x \o y) \o z = x \o (y \o z)
<1> SUFFICES ASSUME NEW x \in Seq(Nat), NEW y \in Seq(Nat), NEW z \in Seq(Nat)
             PROVE  (x \o y) \o z = x \o (y \o z)
  OBVIOUS
<1> QED BY SMT

LEMMA OneByte ==
  ASSUME NEW n \in Nat
  PROVE  <<n>> \in Seq(Nat) /\ Len(<<n>>) = 1 /\ <<n>>[1] = n
OBVIOUS

LEMMA Bytes2 ==
  ASSUME NEW a \in Calls, NEW b \in Calls
  PROVE  IsWriting(<<a, b>>) /\ Bytes(<<a, b>>) = a.cells \o b.cells
<1>1. <<a, b>> = <<a>> \o <<b>>
  BY ShortSeqs
<1>2. IsWriting(<<b>>) /\ Len(<<b>>) <= 3 /\ Bytes(<<b>>) = b.cells
  BY Bytes1
<1>3. IsWriting(<<a>> \o <<b>>) /\ Bytes(<<a>> \o <<b>>) = a.cells \o Bytes(<<b>>)
  BY <1>2, BytesMore
<1> QED BY <1>1, <1>2, <1>3

LEMMA StreamCalls ==
  ASSUME NEW cells \in Seq(Nat)
  PROVE  /\ Write(cells) \in Calls /\ Write(cells).cells = cells /\ Write(cells).fn = "write"
         /\ Buffer(cells) \in Calls /\ Buffer(cells).cells = cells
         /\ Call("header", cells) \in Calls /\ Call("header", cells).cells = cells
         /\ \A n \in Nat : Reservation(n) \in Calls /\ Reservation(n).cells = <<>>
<1>1. Len(cells) \in Nat /\ Len(<<>>) = 0 /\ <<>> \in Seq(Nat)
  BY LenProperties, EmptySeq
<1> QED BY <1>1 DEF Write, Buffer, Call, Reservation, Calls, CallSet, Stream

(* A size as it is written: one byte, or the escape and four. *)
SizeBytes(n) == IF n > Base - 2 THEN <<Base - 1>> \o Digits(n, IntBytes) ELSE <<n>>

LEMMA DigitsAreBytes ==
  ASSUME NEW n \in Int, NEW k \in Nat
  PROVE  Digits(n, k) \in Seq(Nat) /\ Len(Digits(n, k)) = k
<1>1. 0..(Base - 1) \subseteq Nat
  BY BaseFacts
<1> QED BY <1>1, DigitsType, SeqMonotonic

LEMMA SizeIs ==
  ASSUME NEW n \in Nat
  PROVE  /\ IsWriting(WriteSizeEx(n)) /\ Len(WriteSizeEx(n)) <= 2
         /\ Bytes(WriteSizeEx(n)) = SizeBytes(n) /\ SizeBytes(n) \in Seq(Nat)
<1>1. CASE n > Base - 2
  <2> DEFINE a == Write(<<Base - 1>>)
             b == Write(Digits(n, IntBytes))
  <2>1. a \in Calls /\ a.cells = <<Base - 1>>
    <3>1. <<Base - 1>> \in Seq(Nat)
      BY BaseFacts
    <3> QED BY <3>1, StreamCalls
  <2>2. b \in Calls /\ b.cells = Digits(n, IntBytes)
    BY DigitsAreBytes, StreamCalls DEF IntBytes
  <2>3. WriteSizeEx(n) = <<a, b>>
    BY <1>1 DEF WriteSizeEx
  <2> HIDE DEF a, b
  <2>4. IsWriting(<<a, b>>) /\ Bytes(<<a, b>>) = a.cells \o b.cells /\ Len(<<a, b>>) <= 2
    <3>1. Len(<<a, b>>) <= 2
      OBVIOUS
    <3> QED BY <2>1, <2>2, <3>1, Bytes2, Zenon
  <2>5. SizeBytes(n) = a.cells \o b.cells
    BY <1>1, <2>1, <2>2 DEF SizeBytes
  <2>6. Bytes(<<a, b>>) \in Seq(Nat)
    BY <2>4, BytesType
  <2> QED BY <2>3, <2>4, <2>5, <2>6, Zenon
<1>2. CASE ~(n > Base - 2)
  <2> DEFINE a == Write(<<n>>)
  <2>1. a \in Calls /\ a.cells = <<n>>
    BY OneByte, StreamCalls
  <2>2. WriteSizeEx(n) = <<a>>
    BY <1>2 DEF WriteSizeEx
  <2> HIDE DEF a
  <2>3. IsWriting(<<a>>) /\ Bytes(<<a>>) = a.cells /\ Len(<<a>>) = 1
    BY <2>1, Bytes1
  <2> QED BY <1>2, <2>1, <2>2, <2>3, BytesType DEF SizeBytes
<1> QED BY <1>1, <1>2

LEMMA HeadIs ==
  ASSUME NEW op \in Nat, NEW n \in Nat
  PROVE  LET w == <<Write(<<op>>)>> \o WriteSizeEx(n) IN
         IsWriting(w) /\ Bytes(w) = <<op>> \o SizeBytes(n) /\ Len(w) <= 3
<1> DEFINE a == Write(<<op>>)
           s == WriteSizeEx(n)
<1>1. a \in Calls /\ a.cells = <<op>>
  BY OneByte, StreamCalls
<1>2. IsWriting(s) /\ Len(s) <= 2 /\ Bytes(s) = SizeBytes(n)
  BY SizeIs
<1> HIDE DEF a, s
<1>3. Len(s) \in Nat /\ s \in Seq(Calls) /\ <<a>> \in Seq(Calls) /\ Len(<<a>>) = 1
  BY <1>1, <1>2, LenProperties DEF IsWriting
<1>4. IsWriting(<<a>> \o s) /\ Bytes(<<a>> \o s) = a.cells \o Bytes(s)
  <2>1. a \in Calls /\ IsWriting(s) /\ Len(s) <= 3
    BY <1>1, <1>2, <1>3
  <2> QED BY <2>1, BytesMore, Zenon
<1>5. Len(<<a>> \o s) <= 3
  BY <1>2, <1>3, ConcatProperties
<1> QED BY <1>1, <1>2, <1>4, <1>5 DEF a, s

LEMMA SizedIs ==
  ASSUME NEW op \in Nat, NEW n \in Nat, NEW cells \in Seq(Nat)
  PROVE  LET w == Sized(op, n, cells) IN
         IsWriting(w) /\ Bytes(w) = <<op>> \o (SizeBytes(n) \o cells)
<1> DEFINE a == Write(<<op>>)
           b == Buffer(cells)
           s == WriteSizeEx(n)
<1>1. a \in Calls /\ a.cells = <<op>> /\ b \in Calls /\ b.cells = cells
  BY OneByte, StreamCalls
<1>2. IsWriting(s) /\ Len(s) <= 2 /\ Bytes(s) = SizeBytes(n)
  BY SizeIs
<1>3. Sized(op, n, cells) = <<a>> \o s \o <<b>>
  BY DEF Sized
<1>4. CASE n > Base - 2
  <2> DEFINE c == Write(<<Base - 1>>)
             d == Write(Digits(n, IntBytes))
  <2>1. s = <<c, d>>
    BY <1>4 DEF WriteSizeEx
  <2>2. c \in Calls /\ c.cells = <<Base - 1>> /\ <<Base - 1>> \in Seq(Nat)
    <3>1. <<Base - 1>> \in Seq(Nat)
      BY BaseFacts
    <3> QED BY <3>1, StreamCalls
  <2>3. d \in Calls /\ d.cells = Digits(n, IntBytes) /\ Digits(n, IntBytes) \in Seq(Nat)
    BY DigitsAreBytes, StreamCalls DEF IntBytes
  <2> HIDE DEF a, b, c, d, s
  <2>4. IsWriting(<<d, b>>) /\ Bytes(<<d, b>>) = d.cells \o b.cells /\ Len(<<d, b>>) = 2
    BY <1>1, <2>3, Bytes2
  <2>5. IsWriting(<<c>> \o <<d, b>>) /\ Bytes(<<c>> \o <<d, b>>) = c.cells \o (d.cells \o b.cells)
    <3>1. c \in Calls /\ IsWriting(<<d, b>>) /\ Len(<<d, b>>) <= 3
      BY <2>2, <2>4
    <3>2. IsWriting(<<c>> \o <<d, b>>) /\ Bytes(<<c>> \o <<d, b>>) = c.cells \o Bytes(<<d, b>>)
      BY <3>1, BytesMore, Zenon
    <3> QED BY <2>4, <3>2
  <2>6. <<c>> \o <<d, b>> = <<c, d, b>> /\ Len(<<c, d, b>>) = 3
    BY ShortSeqs
  <2>7. IsWriting(<<a>> \o <<c, d, b>>) /\ Bytes(<<a>> \o <<c, d, b>>) = a.cells \o (c.cells \o (d.cells \o b.cells))
    <3>1. a \in Calls /\ IsWriting(<<c, d, b>>) /\ Len(<<c, d, b>>) <= 3
      <4>1. IsWriting(<<c, d, b>>)
        BY <2>5, <2>6, Zenon
      <4>2. Len(<<c, d, b>>) <= 3
        OBVIOUS
      <4> QED BY <1>1, <4>1, <4>2, Zenon
    <3>2. IsWriting(<<a>> \o <<c, d, b>>) /\ Bytes(<<a>> \o <<c, d, b>>) = a.cells \o Bytes(<<c, d, b>>)
      BY <3>1, BytesMore, Zenon
    <3> QED BY <2>5, <2>6, <3>2
  <2>8. <<a>> \o <<c, d>> \o <<b>> = <<a>> \o <<c, d, b>>
    <3>1. <<a>> \in Seq({a, b, c, d}) /\ <<c>> \in Seq({a, b, c, d}) /\ <<d>> \in Seq({a, b, c, d})
          /\ <<b>> \in Seq({a, b, c, d}) /\ <<c, d>> \in Seq({a, b, c, d})
      OBVIOUS
    <3>2. <<a>> \o <<c, d>> \o <<b>> = <<a>> \o (<<c, d>> \o <<b>>)
      BY <3>1, ConcatAssociative
    <3>3. (<<c>> \o <<d>>) \o <<b>> = <<c>> \o (<<d>> \o <<b>>)
      BY <3>1, ConcatAssociative
    <3>4. <<c>> \o <<d>> = <<c, d>> /\ <<d>> \o <<b>> = <<d, b>>
      BY ShortSeqs
    <3> QED BY <2>6, <3>2, <3>3, <3>4
  <2>9. c.cells \o (d.cells \o b.cells) = SizeBytes(n) \o cells
    <3>1. c.cells \o (d.cells \o b.cells) = (c.cells \o d.cells) \o b.cells
      <4>1. c.cells \in Seq(Nat) /\ d.cells \in Seq(Nat) /\ b.cells \in Seq(Nat)
        BY <1>1, <2>2, <2>3
      <4> HIDE DEF a, b, c, d
      <4>2. (c.cells \o d.cells) \o b.cells = c.cells \o (d.cells \o b.cells)
        BY <4>1, Associate, Zenon
      <4> QED BY <4>2, Zenon
    <3>2. SizeBytes(n) = c.cells \o d.cells
      BY <1>4, <2>2, <2>3 DEF SizeBytes
    <3> QED BY <1>1, <3>1, <3>2
  <2> QED BY <1>1, <1>3, <2>1, <2>7, <2>8, <2>9
<1>5. CASE ~(n > Base - 2)
  <2> DEFINE c == Write(<<n>>)
  <2>1. s = <<c>>
    BY <1>5 DEF WriteSizeEx
  <2>2. c \in Calls /\ c.cells = <<n>>
    BY OneByte, StreamCalls
  <2> HIDE DEF a, b, c, s
  <2>3. IsWriting(<<c, b>>) /\ Bytes(<<c, b>>) = c.cells \o b.cells /\ Len(<<c, b>>) = 2
    BY <1>1, <2>2, Bytes2
  <2>4. IsWriting(<<a>> \o <<c, b>>) /\ Bytes(<<a>> \o <<c, b>>) = a.cells \o (c.cells \o b.cells)
    <3>1. a \in Calls /\ IsWriting(<<c, b>>) /\ Len(<<c, b>>) <= 3
      BY <1>1, <2>3
    <3>2. IsWriting(<<a>> \o <<c, b>>) /\ Bytes(<<a>> \o <<c, b>>) = a.cells \o Bytes(<<c, b>>)
      BY <3>1, BytesMore, Zenon
    <3> QED BY <2>3, <3>2
  <2>5. <<a>> \o <<c>> \o <<b>> = <<a>> \o <<c, b>>
    <3>1. <<a>> \in Seq({a, b, c}) /\ <<c>> \in Seq({a, b, c}) /\ <<b>> \in Seq({a, b, c})
      OBVIOUS
    <3>2. <<a>> \o <<c>> \o <<b>> = <<a>> \o (<<c>> \o <<b>>)
      BY <3>1, ConcatAssociative
    <3>3. <<c>> \o <<b>> = <<c, b>>
      BY ShortSeqs
    <3> QED BY <3>2, <3>3
  <2> QED BY <1>1, <1>3, <1>5, <2>1, <2>2, <2>4, <2>5 DEF SizeBytes
<1> QED BY <1>4, <1>5
-----------------------------------------------------------------------------
(* What the bytes of an object are, before those of the objects inside. *)
Numeral(b, o, op, k, type) ==
  \E n \in Int : o = Object(type, <<n>>, <<>>) /\ InBytes(n, k) /\ b = <<op>> \o Digits(n, k)
Lettered(b, o, op, type) ==
  /\ o = Object(type, o.num, <<>>) /\ o.num \in Seq(0..(Base - 1)) /\ IsSize(Len(o.num))
  /\ b = <<op>> \o (SizeBytes(Len(o.num)) \o o.num)

IsLone(b, o) == \E op \in SingletonOps : b = <<op>> /\ Singleton(op) = o
IsNumeral(b, o) ==
  \/ Numeral(b, o, Op.LongLong, LongBytes, "Long") \/ Numeral(b, o, Op.Long, IntBytes, "Int")
  \/ Numeral(b, o, Op.SignedShort, 2, "Int") \/ Numeral(b, o, Op.Byte, 1, "Int")
  \/ Numeral(b, o, Op.Float, LongBytes, "Real")
IsVar(b, o) ==
  \E n \in Nat, size \in 0..LongBytes :
    /\ o = Object("Long", <<n>>, <<>>) /\ n < Power(Base, size) /\ (size < LongBytes \/ Confuses(o))
    /\ b = <<Op.VarInteger>> \o (<<size>> \o Digits(n, size))
IsChar(b, o) ==
  \E c \in Nat : o = Object("String", <<c>>, <<>>) /\ b = <<Op.CharString>> \o <<c>>
IsItem(b, o) ==
  \E i \in 1..Len(Table) : /\ o = Object("String", Table[i], <<>>) \/ Confuses(o)
                           /\ b = <<Op.StringTableItem>> \o <<i>>
IsLettered(b, o) ==
  \/ Lettered(b, o, Op.Buffer, "String") \/ Lettered(b, o, Op.Stream, "SubStream")
  \/ Lettered(b, o, Op.UnicodeUTF8String, "Unicode")
IsWide(b, o) ==
  /\ o = Object("Unicode", o.num, <<>>) /\ o.num \in Seq(0..(Base * Base - 1)) /\ IsSize(Len(o.num))
  /\ b = <<Op.UnicodeString>> \o (SizeBytes(Len(o.num)) \o Wide(o.num))
IsWideChar(b, o) ==
  \E c \in 0..(Base * Base - 1) : o = Object("Unicode", <<c>>, <<>>)
                                  /\ b = <<Op.UnicodeCharString>> \o Digits(c, 2)
LeafBytes(b, o) == \/ IsLone(b, o) \/ IsNumeral(b, o) \/ IsVar(b, o) \/ IsChar(b, o) \/ IsItem(b, o)
                   \/ IsLettered(b, o) \/ IsWide(b, o) \/ IsWideChar(b, o)

IsContainer(o) == o.type \in {"Tuple", "List", "Dict"} /\ o.num = <<>>
IsFixed(b, o, fl) ==
  \E op \in FixedOps : b = <<op + fl>> /\ Fixed(op) = Frame(o.type, Len(o.kids))
IsCounted(b, o, fl) ==
  \E op \in CountedOps, n \in Nat : /\ IsSize(n) /\ Counted(op, n) = Frame(o.type, Len(o.kids))
                                    /\ b = <<op + fl>> \o SizeBytes(n)
ContainerBytes(b, o, flag) ==
  /\ IsContainer(o)
  /\ \E fl \in {0, flag} : /\ fl = 0 \/ o.type = "Tuple"
                           /\ IsFixed(b, o, fl) \/ IsCounted(b, o, fl)

Encodes(b, o, flag) == (o.kids = <<>> /\ LeafBytes(b, o)) \/ ContainerBytes(b, o, flag)

LEMMA ObjectIs ==
  ASSUME NEW o \in Objects
  PROVE  /\ o \in [type : STRING, num : Seq(Int), kids : Seq(Objects)]
         /\ o = Object(o.type, o.num, o.kids)
<1>1. o \in [type : STRING, num : Seq(Int), kids : Seq(Objects)]
  BY ObjectsAssumption DEF WellFormed
<1> QED BY <1>1 DEF Object

LEMMA SingleIs ==
  ASSUME NEW X, NEW s \in Seq(X), Len(s) = 1
  PROVE  s = <<s[1]>> /\ s[1] \in X
<1>0. 1 \in 1..Len(s)
  OBVIOUS
<1>1. s[1] \in X
  BY <1>0, ElementOfSeq
<1> DEFINE t == <<s[1]>>
<1>2. t \in Seq(X) /\ Len(t) = 1 /\ t[1] = s[1]
  BY <1>1
<1> HIDE DEF t
<1>3. \A i \in 1..Len(s) : s[i] = t[i]
  BY <1>2
<1>4. s = t
  BY <1>2, <1>3, SeqEqual
<1> QED BY <1>1, <1>4 DEF t

LEMMA OneWrite ==
  ASSUME NEW op \in Nat
  PROVE  IsWriting(<<Write(<<op>>)>>) /\ Bytes(<<Write(<<op>>)>>) = <<op>>
<1>1. Write(<<op>>) \in Calls /\ Write(<<op>>).cells = <<op>>
  BY OneByte, StreamCalls
<1> QED BY <1>1, Bytes1, Zenon

LEMMA TwoWrites ==
  ASSUME NEW op \in Nat, NEW cells \in Seq(Nat)
  PROVE  LET w == <<Write(<<op>>), Write(cells)>> IN IsWriting(w) /\ Bytes(w) = <<op>> \o cells
<1>1. Write(<<op>>) \in Calls /\ Write(<<op>>).cells = <<op>>
  BY OneByte, StreamCalls
<1>2. Write(cells) \in Calls /\ Write(cells).cells = cells
  BY StreamCalls
<1> QED BY <1>1, <1>2, Bytes2, Zenon

LEMMA ReservedWrites ==
  ASSUME NEW n \in Nat, NEW size \in Nat
  PROVE  LET w == VarInteger(n, size) IN
         IsWriting(w) /\ Bytes(w) = <<Op.VarInteger>> \o (<<size>> \o Digits(n, size))
<1> DEFINE a == Reservation(size + 2)
           b == Write(<<Op.VarInteger>>)
           c == Write(<<size>>)
           d == Buffer(Digits(n, size))
<1>1. a \in Calls /\ a.cells = <<>>
  <2>1. size + 2 \in Nat /\ <<>> \in Seq(Nat)
    OBVIOUS
  <2> QED BY <2>1, StreamCalls
<1>2. b \in Calls /\ b.cells = <<Op.VarInteger>> /\ Op.VarInteger \in Nat
  BY OneByte, StreamCalls DEF Op
<1>3. c \in Calls /\ c.cells = <<size>>
  BY OneByte, StreamCalls
<1>4. d \in Calls /\ d.cells = Digits(n, size)
  BY DigitsAreBytes, StreamCalls
<1>5. VarInteger(n, size) = <<a>> \o (<<b>> \o <<c, d>>)
  BY ShortSeqs DEF VarInteger
<1> HIDE DEF a, b, c, d
<1>6. IsWriting(<<c, d>>) /\ Bytes(<<c, d>>) = c.cells \o d.cells /\ Len(<<c, d>>) <= 3
  <2>1. Len(<<c, d>>) <= 3
    OBVIOUS
  <2> QED BY <1>3, <1>4, <2>1, Bytes2, Zenon
<1>7. IsWriting(<<b>> \o <<c, d>>) /\ Bytes(<<b>> \o <<c, d>>) = b.cells \o (c.cells \o d.cells)
      /\ Len(<<b>> \o <<c, d>>) <= 3
  <2>1. IsWriting(<<b>> \o <<c, d>>) /\ Bytes(<<b>> \o <<c, d>>) = b.cells \o Bytes(<<c, d>>)
    BY <1>2, <1>6, BytesMore, Zenon
  <2>2. <<b>> \o <<c, d>> = <<b, c, d>> /\ Len(<<b, c, d>>) <= 3
    BY ShortSeqs
  <2> QED BY <1>6, <2>1, <2>2, Zenon
<1> DEFINE s == <<b>> \o <<c, d>>
<1>8. IsWriting(<<a>> \o s) /\ Bytes(<<a>> \o s) = a.cells \o Bytes(s) /\ Bytes(s) \in Seq(Nat)
  <2> HIDE DEF s
  <2>1. IsWriting(s) /\ Len(s) <= 3
    BY <1>7, Zenon DEF s
  <2> QED BY <1>1, <2>1, BytesMore, BytesType, Zenon
<1>9. a.cells \o Bytes(s) = Bytes(s)
  <2> HIDE DEF s
  <2> QED BY <1>1, <1>8, ConcatEmptySeq
<1> QED BY <1>2, <1>3, <1>4, <1>5, <1>7, <1>8, <1>9, Zenon
-----------------------------------------------------------------------------
(* What marshal writes for each type of object. *)
LEMMA ObjectKinds ==
  ASSUME NEW o \in Objects
  PROVE  \/ o = None /\ o.type = "None"
         \/ o.type = "Bool" /\ o.num \in {<<0>>, <<1>>} /\ o.kids = <<>>
         \/ o.type \in {"Long", "Real"} /\ IsNumber(o, LongBytes)
         \/ o.type = "Int" /\ IsNumber(o, IntBytes)
         \/ o.type \in {"String", "SubStream"} /\ IsText(o, Base)
         \/ o.type = "Unicode" /\ IsText(o, Base * Base)
         \/ o.type \in {"Tuple", "List"} /\ Holds(o)
         \/ o.type = "Dict" /\ Holds(o) /\ Len(o.kids) % 2 = 0
<1>1. WellFormed(o)
  BY ObjectsAssumption
<1>2. None.type = "None"
  BY DEF None, Object
<1> QED BY <1>1, <1>2, Zenon DEF WellFormed

LEMMA LoneEncodes ==
  ASSUME NEW o \in Objects, o.kids = <<>>, NEW flag, NEW op \in SingletonOps, Singleton(op) = o
  PROVE  IsWriting(<<Write(<<op>>)>>) /\ Encodes(Bytes(<<Write(<<op>>)>>), o, flag)
<1>1. op \in Nat
  BY DEF SingletonOps, Op
<1>2. IsWriting(<<Write(<<op>>)>>) /\ Bytes(<<Write(<<op>>)>>) = <<op>>
  BY <1>1, OneWrite
<1>3. LeafBytes(<<op>>, o)
  BY Zenon DEF LeafBytes, IsLone
<1> QED BY <1>2, <1>3, Zenon DEF Encodes

LEMMA NumeralEncodes ==
  ASSUME NEW o \in Objects, NEW flag, NEW op \in Nat, NEW k \in Nat, NEW type, NEW n \in Int,
         o = Object(type, <<n>>, <<>>), InBytes(n, k),
         \A b : Numeral(b, o, op, k, type) => IsNumeral(b, o)
  PROVE  LET w == <<Write(<<op>>), Write(Digits(n, k))>> IN IsWriting(w) /\ Encodes(Bytes(w), o, flag)
<1> DEFINE w == <<Write(<<op>>), Write(Digits(n, k))>>
<1>1. IsWriting(w) /\ Bytes(w) = <<op>> \o Digits(n, k)
  BY DigitsAreBytes, TwoWrites
<1> HIDE DEF w
<1>2. Numeral(Bytes(w), o, op, k, type)
  BY <1>1 DEF Numeral
<1>3. o.kids = <<>>
  BY DEF Object
<1> QED BY <1>1, <1>2, <1>3, Zenon DEF Encodes, LeafBytes, w

LEMMA SimpleEncodes ==
  ASSUME NEW o \in Objects, o.type \in {"None", "Bool"}, NEW flag, NEW w \in Writes(o, flag)
  PROVE  IsWriting(w) /\ Encodes(Bytes(w), o, flag)
<1>1. CASE o.type = "None"
  <2>1. o = None /\ o.kids = <<>>
    <3>1. o = None
      BY <1>1, ObjectKinds
    <3> QED BY <3>1 DEF None, Object
  <2>2. w = <<Write(<<Op.None>>)>>
    BY <1>1 DEF Writes
  <2>3. Op.None \in SingletonOps /\ Singleton(Op.None) = o
    BY <2>1 DEF SingletonOps, Singleton, Op
  <2> QED BY <2>1, <2>2, <2>3, LoneEncodes
<1>2. CASE o.type = "Bool"
  <2>1. o.num \in {<<0>>, <<1>>} /\ o.kids = <<>> /\ o = Object("Bool", o.num, <<>>)
    BY <1>2, ObjectKinds, ObjectIs DEF None, Object
  <2>2. PICK op \in {Op.True, Op.False} : w = <<Write(<<op>>)>> /\ op = IF o.num = <<1>> THEN Op.True ELSE Op.False
    BY <1>2 DEF Writes
  <2>3. <<0>> # <<1>>
    OBVIOUS
  <2>4. CASE o.num = <<1>>
    <3>1. op = Op.True
      BY <2>2, <2>4
    <3>2. Op.True \in SingletonOps /\ Singleton(Op.True) = o
      BY <2>1, <2>4 DEF SingletonOps, Singleton, Op
    <3> QED BY <2>1, <2>2, <3>1, <3>2, LoneEncodes
  <2>5. CASE o.num = <<0>>
    <3>1. op = Op.False
      BY <2>2, <2>3, <2>5
    <3>2. Op.False \in SingletonOps /\ Singleton(Op.False) = o
      BY <2>1, <2>5 DEF SingletonOps, Singleton, Op
    <3> QED BY <2>1, <2>2, <3>1, <3>2, LoneEncodes
  <2> QED BY <2>1, <2>4, <2>5
<1> QED BY <1>1, <1>2

LEMMA NumberIs ==
  ASSUME NEW o \in Objects, NEW k \in Nat, IsNumber(o, k)
  PROVE  /\ o.num[1] \in Int /\ InBytes(o.num[1], k) /\ o.kids = <<>>
         /\ o = Object(o.type, <<o.num[1]>>, <<>>)
<1>1. o.num \in Seq(Int) /\ Len(o.num) = 1
  BY ObjectIs DEF IsNumber
<1>2. o.num = <<o.num[1]>> /\ o.num[1] \in Int
  BY <1>1, SingleIs
<1>3. o = Object(o.type, o.num, o.kids) /\ o.kids = <<>>
  BY ObjectIs DEF IsNumber
<1> QED BY <1>2, <1>3, Zenon DEF IsNumber

LEMMA LongEncodes ==
  ASSUME NEW o \in Objects, o.type = "Long", NEW flag, NEW w \in Writes(o, flag)
  PROVE  IsWriting(w) /\ Encodes(Bytes(w), o, flag)
<1> DEFINE n == o.num[1]
<1>1. IsNumber(o, LongBytes)
  BY ObjectKinds DEF None, Object
<1>2. n \in Int /\ InBytes(n, LongBytes) /\ o.kids = <<>> /\ o = Object("Long", <<n>>, <<>>)
  BY <1>1, NumberIs, BaseFacts
<1>3. w \in MarshalLong(n)
  BY DEF Writes
<1> HIDE DEF n
<1>4. CASE n < 0
  <2>1. w = <<Write(<<Op.LongLong>>), Write(Digits(n, LongBytes))>>
    BY <1>3, <1>4 DEF MarshalLong
  <2>2. \A b : Numeral(b, o, Op.LongLong, LongBytes, "Long") => IsNumeral(b, o)
    BY Zenon DEF IsNumeral
  <2>3. Op.LongLong \in Nat /\ LongBytes \in Nat
    BY BaseFacts DEF Op
  <2> QED BY <1>2, <2>1, <2>2, <2>3, NumeralEncodes, Zenon
<1>5. CASE ~(n < 0)
  <2>1. n \in Nat /\ w \in WriteVarInteger(n)
    BY <1>2, <1>3, <1>5 DEF MarshalLong
  <2>2. PICK size \in 0..LongBytes :
           /\ w = VarInteger(n, size) /\ n < Power(Base, size)
           /\ ~(2 * Base * n >= Power(Base, LongBytes)) => size < LongBytes
    BY <1>2, <2>1, VarIntegerIs
  <2>3. size \in Nat
    BY BaseFacts
  <2>4. IsWriting(w) /\ Bytes(w) = <<Op.VarInteger>> \o (<<size>> \o Digits(n, size))
    BY <2>1, <2>2, <2>3, ReservedWrites
  <2>5. size < LongBytes \/ Confuses(o)
    <3>1. n = o.num[1]
      BY DEF n
    <3> QED BY <2>2, <3>1, Zenon DEF Confuses
  <2>6. IsVar(Bytes(w), o)
    BY <1>2, <2>1, <2>2, <2>4, <2>5, Zenon DEF IsVar
  <2> QED BY <1>2, <2>4, <2>6, Zenon DEF Encodes, LeafBytes
<1> QED BY <1>4, <1>5

LEMMA RealEncodes ==
  ASSUME NEW o \in Objects, o.type = "Real", NEW flag, NEW w \in Writes(o, flag)
  PROVE  IsWriting(w) /\ Encodes(Bytes(w), o, flag)
<1> DEFINE n == o.num[1]
<1>1. IsNumber(o, LongBytes)
  BY ObjectKinds DEF None, Object
<1>2. n \in Int /\ InBytes(n, LongBytes) /\ o.kids = <<>> /\ o = Object("Real", <<n>>, <<>>)
  BY <1>1, NumberIs, BaseFacts
<1>3. w = MarshalReal(n)
  BY DEF Writes
<1> HIDE DEF n
<1>4. CASE n = 0
  <2>1. w = <<Write(<<Op.Float0>>)>>
    BY <1>3, <1>4 DEF MarshalReal
  <2>2. Op.Float0 \in SingletonOps /\ Singleton(Op.Float0) = o
    BY <1>2, <1>4 DEF SingletonOps, Singleton, Op
  <2> QED BY <1>2, <2>1, <2>2, LoneEncodes
<1>5. CASE n # 0
  <2>1. w = <<Write(<<Op.Float>>), Write(Digits(n, LongBytes))>>
    BY <1>3, <1>5 DEF MarshalReal
  <2>2. \A b : Numeral(b, o, Op.Float, LongBytes, "Real") => IsNumeral(b, o)
    BY Zenon DEF IsNumeral
  <2>3. Op.Float \in Nat /\ LongBytes \in Nat
    BY BaseFacts DEF Op
  <2> QED BY <1>2, <2>1, <2>2, <2>3, NumeralEncodes, Zenon
<1> QED BY <1>4, <1>5

LEMMA IntEncodes ==
  ASSUME NEW o \in Objects, o.type = "Int", NEW flag, NEW w \in Writes(o, flag)
  PROVE  IsWriting(w) /\ Encodes(Bytes(w), o, flag)
<1> DEFINE n == o.num[1]
<1>1. IsNumber(o, IntBytes)
  BY ObjectKinds DEF None, Object
<1>2. n \in Int /\ InBytes(n, IntBytes) /\ o.kids = <<>> /\ o = Object("Int", <<n>>, <<>>)
  BY <1>1, NumberIs DEF IntBytes
<1>3. w = MarshalInt(n)
  BY DEF Writes
<1> HIDE DEF n
<1>4. InBytes(-1, 1) /\ InBytes(0, 1) /\ InBytes(1, 1)
  BY BaseFacts DEF InBytes
<1>5. InBytes(n, 1) => InBytes(n, 2)
  <2>1. Base * Base >= Base /\ Base * Base \in Nat /\ Base \in Nat
    BY BaseFacts, TimesPositive
  <2>2. Power(Base, 1) = Base /\ Power(Base, 2) = Base * Base
    BY BaseFacts
  <2> QED BY <1>2, <2>1, <2>2 DEF InBytes
<1>6. \/ n = -1 \/ n = 0 \/ n = 1
      \/ n \notin {-1, 0, 1} /\ InBytes(n, 1)
      \/ ~InBytes(n, 1) /\ InBytes(n, 2)
      \/ ~InBytes(n, 2)
  OBVIOUS
<1>a. ASSUME NEW op \in SingletonOps, w = <<Write(<<op>>)>>, Singleton(op) = o
      PROVE  IsWriting(w) /\ Encodes(Bytes(w), o, flag)
  BY <1>2, <1>a, LoneEncodes
<1>b. ASSUME NEW op \in Nat, NEW k \in Nat, InBytes(n, k), w = <<Write(<<op>>), Write(Digits(n, k))>>,
             \A b : Numeral(b, o, op, k, "Int") => IsNumeral(b, o)
      PROVE  IsWriting(w) /\ Encodes(Bytes(w), o, flag)
  BY <1>2, <1>b, NumeralEncodes, Zenon
<1>7. CASE n = -1
  <2>0. InBytes(n, 1) /\ InBytes(n, 2)
    BY <1>4, <1>5, <1>7
  <2>1. w = <<Write(<<Op.MinusOne>>)>>
    BY <1>3, <1>7, <2>0 DEF MarshalInt
  <2>2. Op.MinusOne \in SingletonOps /\ Singleton(Op.MinusOne) = o
    BY <1>2, <1>7 DEF SingletonOps, Singleton, Op
  <2> QED BY <2>1, <2>2, <1>a
<1>8. CASE n = 0
  <2>0. InBytes(n, 1) /\ InBytes(n, 2)
    BY <1>4, <1>5, <1>8
  <2>1. w = <<Write(<<Op.Zero>>)>>
    BY <1>3, <1>8, <2>0 DEF MarshalInt
  <2>2. Op.Zero \in SingletonOps /\ Singleton(Op.Zero) = o
    BY <1>2, <1>8 DEF SingletonOps, Singleton, Op
  <2> QED BY <2>1, <2>2, <1>a
<1>9. CASE n = 1
  <2>0. InBytes(n, 1) /\ InBytes(n, 2)
    BY <1>4, <1>5, <1>9
  <2>1. w = <<Write(<<Op.One>>)>>
    BY <1>3, <1>9, <2>0 DEF MarshalInt
  <2>2. Op.One \in SingletonOps /\ Singleton(Op.One) = o
    BY <1>2, <1>9 DEF SingletonOps, Singleton, Op
  <2> QED BY <2>1, <2>2, <1>a
<1>10. CASE n \notin {-1, 0, 1} /\ InBytes(n, 1)
  <2>1. w = <<Write(<<Op.Byte>>), Write(Digits(n, 1))>>
    BY <1>3, <1>5, <1>10 DEF MarshalInt
  <2>2. \A b : Numeral(b, o, Op.Byte, 1, "Int") => IsNumeral(b, o)
    BY Zenon DEF IsNumeral
  <2>3. Op.Byte \in Nat /\ 1 \in Nat
    BY DEF Op
  <2> QED BY <1>10, <2>1, <2>2, <2>3, <1>b
<1>11. CASE ~InBytes(n, 1) /\ InBytes(n, 2)
  <2>1. w = <<Write(<<Op.SignedShort>>), Write(Digits(n, 2))>>
    BY <1>3, <1>4, <1>11 DEF MarshalInt
  <2>2. \A b : Numeral(b, o, Op.SignedShort, 2, "Int") => IsNumeral(b, o)
    BY Zenon DEF IsNumeral
  <2>3. Op.SignedShort \in Nat /\ 2 \in Nat
    BY DEF Op
  <2> QED BY <1>11, <2>1, <2>2, <2>3, <1>b
<1>12. CASE ~InBytes(n, 2)
  <2>1. w = <<Write(<<Op.Long>>), Write(Digits(n, IntBytes))>>
    BY <1>3, <1>4, <1>5, <1>12 DEF MarshalInt
  <2>2. \A b : Numeral(b, o, Op.Long, IntBytes, "Int") => IsNumeral(b, o)
    BY Zenon DEF IsNumeral
  <2>3. Op.Long \in Nat /\ IntBytes \in Nat
    BY DEF Op, IntBytes
  <2> QED BY <1>2, <1>12, <2>1, <2>2, <2>3, <1>b
<1> QED BY <1>6, <1>7, <1>8, <1>9, <1>10, <1>11, <1>12

LEMMA TextIs ==
  ASSUME NEW o \in Objects, NEW chars \in Nat, IsText(o, chars)
  PROVE  /\ o.num \in Seq(0..(chars - 1)) /\ o.num \in Seq(Nat) /\ IsSize(Len(o.num)) /\ Len(o.num) \in Nat
         /\ o.kids = <<>> /\ o = Object(o.type, o.num, <<>>)
<1>1. o.num \in Seq(0..(chars - 1)) /\ IsSize(Len(o.num)) /\ o.kids = <<>>
  BY Zenon DEF IsText
<1>2. 0..(chars - 1) \subseteq Nat
  OBVIOUS
<1>3. o.num \in Seq(Nat) /\ Len(o.num) \in Nat
  BY <1>1, <1>2, SeqMonotonic, LenProperties
<1>4. o = Object(o.type, o.num, o.kids)
  BY ObjectIs
<1> QED BY <1>1, <1>3, <1>4, Zenon

LEMMA LetteredEncodes ==
  ASSUME NEW o \in Objects, IsText(o, Base), NEW flag, NEW op \in Nat,
         \A b : Lettered(b, o, op, o.type) => IsLettered(b, o)
  PROVE  LET w == Sized(op, Len(o.num), o.num) IN IsWriting(w) /\ Encodes(Bytes(w), o, flag)
<1> DEFINE w == Sized(op, Len(o.num), o.num)
<1>1. /\ o.num \in Seq(0..(Base - 1)) /\ o.num \in Seq(Nat) /\ IsSize(Len(o.num)) /\ Len(o.num) \in Nat
      /\ o.kids = <<>> /\ o = Object(o.type, o.num, <<>>)
  BY BaseFacts, TextIs
<1>2. IsWriting(w) /\ Bytes(w) = <<op>> \o (SizeBytes(Len(o.num)) \o o.num)
  BY <1>1, SizedIs
<1> HIDE DEF w
<1>3. Lettered(Bytes(w), o, op, o.type)
  BY <1>1, <1>2, Zenon DEF Lettered
<1> QED BY <1>1, <1>2, <1>3, Zenon DEF Encodes, LeafBytes, w

LEMMA LookupIs ==
  ASSUME NEW s, LookupIndex(s) # -1
  PROVE  LookupIndex(s) \in 1..Len(Table)
<1>1. Hits(s) # {}
  BY DEF LookupIndex
<1>2. Hits(s) \subseteq 1..Len(Table)
  BY DEF Hits
<1>3. Len(Table) \in Nat
  BY SizesAssumption, LenProperties
<1>4. Hits(s) \subseteq Nat
  BY <1>2, <1>3
<1>5. \E i \in Hits(s) : \A j \in Hits(s) : i <= j
  BY <1>1, <1>4, Least
<1>6. LookupIndex(s) \in Hits(s)
  BY <1>1, <1>5 DEF LookupIndex
<1> QED BY <1>2, <1>6

LEMMA StringEncodes ==
  ASSUME NEW o \in Objects, o.type = "String", NEW flag, NEW w \in Writes(o, flag)
  PROVE  IsWriting(w) /\ Encodes(Bytes(w), o, flag)
<1> DEFINE s == o.num
<1>0. IsText(o, Base)
  BY ObjectKinds DEF None, Object
<1>1. /\ s \in Seq(0..(Base - 1)) /\ s \in Seq(Nat) /\ IsSize(Len(s)) /\ Len(s) \in Nat
      /\ o.kids = <<>> /\ o = Object("String", s, <<>>)
  BY <1>0, BaseFacts, TextIs
<1>2. w = MarshalString(s)
  BY DEF Writes
<1> HIDE DEF s
<1>3. CASE Len(s) = 0
  <2>1. w = <<Write(<<Op.EmptyString>>)>> /\ s = <<>>
    BY <1>1, <1>2, <1>3, EmptySeq DEF MarshalString
  <2>2. Op.EmptyString \in SingletonOps /\ Singleton(Op.EmptyString) = o
    BY <1>1, <2>1 DEF SingletonOps, Singleton, Op
  <2> QED BY <1>1, <2>1, <2>2, LoneEncodes
<1>4. CASE Len(s) = 1
  <2>1. s = <<s[1]>> /\ s[1] \in Nat
    BY <1>1, <1>4, SingleIs
  <2>2. w = <<Write(<<Op.CharString>>), Write(s)>>
    BY <1>2, <1>4 DEF MarshalString
  <2>3. IsWriting(w) /\ Bytes(w) = <<Op.CharString>> \o s
    <3>1. Op.CharString \in Nat
      BY DEF Op
    <3> QED BY <1>1, <2>2, <3>1, TwoWrites
  <2>4. IsChar(Bytes(w), o)
    BY <1>1, <2>1, <2>3, Zenon DEF IsChar
  <2> QED BY <1>1, <2>3, <2>4, Zenon DEF Encodes, LeafBytes
<1>5. CASE Len(s) > 1 /\ LookupIndex(s) # -1
  <2> DEFINE i == LookupIndex(s)
  <2>1. i \in 1..Len(Table) /\ i \in Nat
    <3>1. i \in 1..Len(Table)
      BY <1>5, LookupIs
    <3>2. Len(Table) \in Nat
      BY SizesAssumption, LenProperties
    <3> QED BY <3>1, <3>2
  <2>2. w = <<Write(<<Op.StringTableItem>>), Write(<<i>>)>>
    BY <1>2, <1>5 DEF MarshalString
  <2>3. IsWriting(w) /\ Bytes(w) = <<Op.StringTableItem>> \o <<i>>
    <3>1. Op.StringTableItem \in Nat /\ <<i>> \in Seq(Nat)
      BY <2>1, OneByte DEF Op
    <3> HIDE DEF i
    <3> QED BY <2>2, <3>1, TwoWrites
  <2>4. o = Object("String", Table[i], <<>>) \/ Confuses(o)
    <3>1. CASE Table[i] = s
      BY <1>1, <3>1
    <3>2. CASE Table[i] # s
      <4>1. Misnamed(s)
        BY <1>5, <3>2 DEF Misnamed
      <4> QED BY <4>1 DEF Confuses, s
    <3> QED BY <3>1, <3>2
  <2>5. IsItem(Bytes(w), o)
    <3> HIDE DEF i
    <3> QED BY <2>1, <2>3, <2>4, Zenon DEF IsItem
  <2> QED BY <1>1, <2>3, <2>5, Zenon DEF Encodes, LeafBytes
<1>6. CASE Len(s) > 1 /\ LookupIndex(s) = -1
  <2>1. w = Sized(Op.Buffer, Len(s), s)
    BY <1>2, <1>6 DEF MarshalString
  <2>2. \A b : Lettered(b, o, Op.Buffer, o.type) => IsLettered(b, o)
    BY Zenon DEF IsLettered
  <2>3. Op.Buffer \in Nat
    BY DEF Op
  <2>4. s = o.num
    BY DEF s
  <2> QED BY <1>0, <2>1, <2>2, <2>3, <2>4, LetteredEncodes, Zenon
<1>7. Len(s) = 0 \/ Len(s) = 1 \/ Len(s) > 1
  <2>1. \A n \in Nat : n = 0 \/ n = 1 \/ n > 1
    OBVIOUS
  <2> QED BY <1>1, <2>1, Zenon
<1> QED BY <1>3, <1>4, <1>5, <1>6, <1>7

LEMMA SubStreamEncodes ==
  ASSUME NEW o \in Objects, o.type = "SubStream", NEW flag, NEW w \in Writes(o, flag)
  PROVE  IsWriting(w) /\ Encodes(Bytes(w), o, flag)
<1>1. IsText(o, Base)
  BY ObjectKinds DEF None, Object
<1>2. w = Sized(Op.Stream, Len(o.num), o.num)
  BY DEF Writes
<1>3. \A b : Lettered(b, o, Op.Stream, o.type) => IsLettered(b, o)
  BY Zenon DEF IsLettered
<1>4. Op.Stream \in Nat
  BY DEF Op
<1> QED BY <1>1, <1>2, <1>3, <1>4, LetteredEncodes, Zenon

LEMMA WideIs ==
  ASSUME NEW s \in Seq(0..(Base * Base - 1))
  PROVE  /\ Wide(s) \in Seq(Nat) /\ Len(Wide(s)) = 2 * Len(s) /\ Len(s) \in Nat
         /\ \A i \in 1..Len(s) : /\ Wide(s)[2 * i - 1] = Digits(s[i], 2)[1]
                                 /\ Wide(s)[2 * i] = Digits(s[i], 2)[2]
<1>1. Len(s) \in Nat /\ \A i \in 1..Len(s) : s[i] \in 0..(Base * Base - 1)
  BY LenProperties, ElementOfSeq
<1>2. \A i \in 1..Len(s) : s[i] \in Int
  <2>1. Base * Base \in Nat
    BY BaseFacts, TimesPositive
  <2> QED BY <1>1, <2>1
<1> DEFINE n == 2 * Len(s)
           e(i) == Digits(s[(i + 1) \div 2], 2)[2 - (i % 2)]
<1>3. ASSUME NEW i \in 1..n PROVE e(i) \in Nat
  <2>1. (i + 1) \div 2 \in 1..Len(s) /\ 2 - (i % 2) \in 1..2
    BY <1>1
  <2>2. Digits(s[(i + 1) \div 2], 2) \in Seq(Nat) /\ Len(Digits(s[(i + 1) \div 2], 2)) = 2
    BY <1>2, <2>1, DigitsAreBytes
  <2> QED BY <2>1, <2>2, ElementOfSeq
<1>4. Wide(s) = [i \in 1..n |-> e(i)]
  BY DEF Wide
<1>5. n \in Nat
  BY <1>1
<1> HIDE DEF n
<1>6. Wide(s) \in [1..n -> Nat]
  <2> HIDE DEF e
  <2> QED BY <1>3, <1>4
<1>7. Wide(s) \in Seq(Nat) /\ Len(Wide(s)) = n
  BY <1>5, <1>6
<1>8. ASSUME NEW i \in 1..Len(s)
      PROVE  Wide(s)[2 * i - 1] = Digits(s[i], 2)[1] /\ Wide(s)[2 * i] = Digits(s[i], 2)[2]
  <2>1. 2 * i - 1 \in 1..n /\ 2 * i \in 1..n
    BY <1>1 DEF n
  <2>2. ((2 * i - 1) + 1) \div 2 = i /\ 2 - ((2 * i - 1) % 2) = 1
    BY <1>1
  <2>3. ((2 * i) + 1) \div 2 = i /\ 2 - ((2 * i) % 2) = 2
    BY <1>1
  <2>4. Wide(s)[2 * i - 1] = e(2 * i - 1) /\ Wide(s)[2 * i] = e(2 * i)
    BY <1>4, <2>1
  <2>5. e(2 * i - 1) = Digits(s[i], 2)[1]
    BY <2>2
  <2>6. e(2 * i) = Digits(s[i], 2)[2]
    BY <2>3
  <2> QED BY <2>4, <2>5, <2>6
<1> QED BY <1>1, <1>7, <1>8 DEF n

LEMMA UnicodeEncodes ==
  ASSUME NEW o \in Objects, o.type = "Unicode", NEW flag, NEW w \in Writes(o, flag)
  PROVE  IsWriting(w) /\ Encodes(Bytes(w), o, flag)
<1> DEFINE s == o.num
<1>0. IsText(o, Base * Base) /\ Base * Base \in Nat
  BY ObjectKinds, BaseFacts, TimesPositive DEF None, Object
<1>1. /\ s \in Seq(0..(Base * Base - 1)) /\ s \in Seq(Nat) /\ IsSize(Len(s)) /\ Len(s) \in Nat
      /\ o.kids = <<>> /\ o = Object("Unicode", s, <<>>)
  BY <1>0, TextIs
<1>2. w \in MarshalUnicode(s)
  BY DEF Writes
<1> HIDE DEF s
<1>3. CASE Len(s) = 0
  <2>1. w = <<Write(<<Op.UnicodeEmptyString>>)>> /\ s = <<>>
    BY <1>1, <1>2, <1>3, EmptySeq DEF MarshalUnicode
  <2>2. Op.UnicodeEmptyString \in SingletonOps /\ Singleton(Op.UnicodeEmptyString) = o
    BY <1>1, <2>1 DEF SingletonOps, Singleton, Op
  <2> QED BY <1>1, <2>1, <2>2, LoneEncodes
<1>4. CASE Len(s) = 1
  <2>1. s = <<s[1]>> /\ s[1] \in 0..(Base * Base - 1) /\ s[1] \in Int
    <3>1. s = <<s[1]>> /\ s[1] \in 0..(Base * Base - 1)
      BY <1>1, <1>4, SingleIs
    <3>2. s[1] \in Nat
      BY <1>1, <1>4, SingleIs
    <3> QED BY <3>1, <3>2
  <2>2. w = <<Write(<<Op.UnicodeCharString>>), Write(Digits(s[1], 2))>>
    BY <1>2, <1>4 DEF MarshalUnicode
  <2>3. IsWriting(w) /\ Bytes(w) = <<Op.UnicodeCharString>> \o Digits(s[1], 2)
    <3>1. Op.UnicodeCharString \in Nat
      BY DEF Op
    <3>2. Digits(s[1], 2) \in Seq(Nat)
      BY <2>1, DigitsAreBytes
    <3> QED BY <2>2, <3>1, <3>2, TwoWrites
  <2>4. IsWideChar(Bytes(w), o)
    BY <1>1, <2>1, <2>3, Zenon DEF IsWideChar
  <2> QED BY <1>1, <2>3, <2>4, Zenon DEF Encodes, LeafBytes
<1>5. CASE Len(s) > 1
  <2>1. \/ w = Sized(Op.UnicodeString, Len(s), Wide(s))
        \/ Narrow(s) /\ w = Sized(Op.UnicodeUTF8String, Len(s), s)
    BY <1>2, <1>5 DEF MarshalUnicode
  <2>2. CASE w = Sized(Op.UnicodeString, Len(s), Wide(s))
    <3>1. IsWriting(w) /\ Bytes(w) = <<Op.UnicodeString>> \o (SizeBytes(Len(s)) \o Wide(s))
      <4>1. Op.UnicodeString \in Nat /\ Wide(s) \in Seq(Nat)
        BY <1>1, WideIs DEF Op
      <4> QED BY <1>1, <2>2, <4>1, SizedIs
    <3>2. IsWide(Bytes(w), o)
      <4>1. o.num = s
        BY DEF s
      <4> QED BY <1>1, <3>1, <4>1, Zenon DEF IsWide
    <3> QED BY <1>1, <3>1, <3>2, Zenon DEF Encodes, LeafBytes
  <2>3. CASE Narrow(s) /\ w = Sized(Op.UnicodeUTF8String, Len(s), s)
    <3>1. s \in Seq(0..(Base - 1))
      <4>1. \A i \in 1..Len(s) : s[i] \in 0..(Base - 1)
        <5>1. \A i \in 1..Len(s) : s[i] \in 1..(Base - 1)
          BY <2>3, Zenon DEF Narrow
        <5>2. 1..(Base - 1) \subseteq 0..(Base - 1)
          BY BaseFacts
        <5> QED BY <5>1, <5>2, Zenon
      <4>2. s \in [1..Len(s) -> Nat]
        BY <1>1, LenProperties
      <4>3. s \in [1..Len(s) -> 0..(Base - 1)]
        BY <4>1, <4>2
      <4>4. Len(s) \in Nat
        BY <1>1, Zenon
      <4> DEFINE n == Len(s)
                 D == 0..(Base - 1)
      <4> HIDE DEF D
      <4>5. s \in UNION {[1..k -> D] : k \in Nat}
        BY <4>3, <4>4 DEF D
      <4>6. s \in Seq(D)
        BY <4>5, SeqDef
      <4> QED BY <4>6 DEF D
    <3>2. IsText(o, Base)
      BY <1>1, <3>1 DEF IsText, s
    <3>3. \A b : Lettered(b, o, Op.UnicodeUTF8String, o.type) => IsLettered(b, o)
      BY Zenon DEF IsLettered
    <3>4. Op.UnicodeUTF8String \in Nat
      BY DEF Op
    <3>5. s = o.num
      BY DEF s
    <3> QED BY <2>3, <3>2, <3>3, <3>4, <3>5, LetteredEncodes, Zenon
  <2> QED BY <2>1, <2>2, <2>3
<1>6. Len(s) = 0 \/ Len(s) = 1 \/ Len(s) > 1
  <2>1. \A n \in Nat : n = 0 \/ n = 1 \/ n > 1
    OBVIOUS
  <2> QED BY <1>1, <2>1, Zenon
<1> QED BY <1>3, <1>4, <1>5, <1>6

LEMMA FixedEncodes ==
  ASSUME NEW o \in Objects, IsContainer(o), NEW flag, NEW fl \in {0, flag}, fl \in Nat, fl = 0 \/ o.type = "Tuple",
         NEW op \in FixedOps, Fixed(op) = Frame(o.type, Len(o.kids))
  PROVE  IsWriting(<<Write(<<op + fl>>)>>) /\ Encodes(Bytes(<<Write(<<op + fl>>)>>), o, flag)
<1>1. op + fl \in Nat
  BY DEF FixedOps, Op
<1>2. IsWriting(<<Write(<<op + fl>>)>>) /\ Bytes(<<Write(<<op + fl>>)>>) = <<op + fl>>
  BY <1>1, OneWrite
<1>3. IsFixed(<<op + fl>>, o, fl)
  BY Zenon DEF IsFixed
<1>4. ContainerBytes(<<op + fl>>, o, flag)
  BY <1>3, Zenon DEF ContainerBytes
<1> QED BY <1>2, <1>4, Zenon DEF Encodes

LEMMA CountedEncodes ==
  ASSUME NEW o \in Objects, IsContainer(o), NEW flag, NEW fl \in {0, flag}, fl \in Nat, fl = 0 \/ o.type = "Tuple",
         NEW op \in CountedOps, NEW n \in Nat, IsSize(n), Counted(op, n) = Frame(o.type, Len(o.kids))
  PROVE  LET w == <<Write(<<op + fl>>)>> \o WriteSizeEx(n) IN
         IsWriting(w) /\ Encodes(Bytes(w), o, flag)
<1> DEFINE w == <<Write(<<op + fl>>)>> \o WriteSizeEx(n)
<1>1. op + fl \in Nat
  BY DEF CountedOps, Op
<1>2. IsWriting(w) /\ Bytes(w) = <<op + fl>> \o SizeBytes(n)
  BY <1>1, HeadIs
<1> HIDE DEF w
<1>3. IsCounted(Bytes(w), o, fl)
  BY <1>2, Zenon DEF IsCounted
<1>4. ContainerBytes(Bytes(w), o, flag)
  BY <1>3, Zenon DEF ContainerBytes
<1> QED BY <1>2, <1>4, Zenon DEF Encodes, w

LEMMA KidsAre ==
  ASSUME NEW o \in Objects, o.type \in {"Tuple", "List", "Dict"}
  PROVE  /\ IsContainer(o) /\ IsSize(Len(o.kids)) /\ Len(o.kids) \in Nat /\ o.kids \in Seq(Objects)
         /\ o = Object(o.type, <<>>, o.kids)
         /\ o.type = "Dict" => Len(o.kids) % 2 = 0
<1>1. Holds(o) /\ (o.type = "Dict" => Len(o.kids) % 2 = 0)
  BY ObjectKinds DEF None, Object
<1>2. o.kids \in Seq(Objects) /\ o = Object(o.type, o.num, o.kids)
  BY ObjectIs
<1>3. Len(o.kids) \in Nat
  BY <1>2, LenProperties
<1>4. o.num = <<>> /\ IsSize(Len(o.kids))
  BY <1>1, Zenon DEF Holds
<1>5. IsContainer(o)
  BY <1>4, Zenon DEF IsContainer
<1>6. o = Object(o.type, <<>>, o.kids)
  BY <1>2, <1>4, Zenon
<1> QED BY <1>1, <1>2, <1>3, <1>4, <1>5, <1>6, Zenon

LEMMA NoKidsEncodes ==
  ASSUME NEW o \in Objects, o.type \in {"Tuple", "List"}, Len(o.kids) = 0, NEW flag,
         NEW op \in SingletonOps, Singleton(op) = Object(o.type, <<>>, <<>>)
  PROVE  IsWriting(<<Write(<<op>>)>>) /\ Encodes(Bytes(<<Write(<<op>>)>>), o, flag)
<1>1. o.kids \in Seq(Objects) /\ o = Object(o.type, <<>>, o.kids)
  BY KidsAre
<1>2. o.kids = <<>>
  BY <1>1, EmptySeq
<1>3. Singleton(op) = o
  BY <1>1, <1>2, Zenon
<1> QED BY <1>2, <1>3, LoneEncodes, Zenon

LEMMA TupleEncodes ==
  ASSUME NEW o \in Objects, o.type = "Tuple", NEW flag \in {0, SharedFlag}, NEW w \in Writes(o, flag)
  PROVE  IsWriting(w) /\ Encodes(Bytes(w), o, flag)
<1> DEFINE n == Len(o.kids)
<1>1. IsContainer(o) /\ IsSize(n) /\ n \in Nat
  BY KidsAre
<1>2. w = MarshalTuple(o.kids, flag)
  BY DEF Writes
<1>3. flag \in Nat /\ flag \in {0, flag}
  BY DEF SharedFlag
<1>4. n = 0 \/ n = 1 \/ n = 2 \/ n > 2
  <2>1. \A m \in Nat : m = 0 \/ m = 1 \/ m = 2 \/ m > 2
    OBVIOUS
  <2> QED BY <1>1, <2>1, Zenon
<1>5. CASE n = 0
  <2>1. w = <<Write(<<Op.EmptyTuple>>)>>
    BY <1>2, <1>5 DEF MarshalTuple
  <2>2. Op.EmptyTuple \in SingletonOps /\ Singleton(Op.EmptyTuple) = Object("Tuple", <<>>, <<>>)
    BY DEF SingletonOps, Singleton, Op
  <2> QED BY <1>5, <2>1, <2>2, NoKidsEncodes
<1>6. CASE n = 1
  <2>1. w = <<Write(<<Op.OneTuple + flag>>)>>
    BY <1>2, <1>6 DEF MarshalTuple
  <2>2. Op.OneTuple \in FixedOps /\ Fixed(Op.OneTuple) = Frame("Tuple", n)
    BY <1>6 DEF FixedOps, Fixed, Op
  <2> QED BY <1>1, <1>3, <2>1, <2>2, FixedEncodes
<1>7. CASE n = 2
  <2>1. w = <<Write(<<Op.TwoTuple + flag>>)>>
    BY <1>2, <1>7 DEF MarshalTuple
  <2>2. Op.TwoTuple \in FixedOps /\ Fixed(Op.TwoTuple) = Frame("Tuple", n)
    BY <1>7 DEF FixedOps, Fixed, Op
  <2> QED BY <1>1, <1>3, <2>1, <2>2, FixedEncodes
<1>8. CASE n > 2
  <2>1. w = <<Write(<<Op.Tuple + flag>>)>> \o WriteSizeEx(n)
    BY <1>2, <1>8 DEF MarshalTuple
  <2>2. Op.Tuple \in CountedOps /\ Counted(Op.Tuple, n) = Frame("Tuple", n)
    BY DEF CountedOps, Counted, Op
  <2> QED BY <1>1, <1>3, <2>1, <2>2, CountedEncodes
<1> QED BY <1>4, <1>5, <1>6, <1>7, <1>8

LEMMA ListEncodes ==
  ASSUME NEW o \in Objects, o.type = "List", NEW flag, NEW w \in Writes(o, flag)
  PROVE  IsWriting(w) /\ Encodes(Bytes(w), o, flag)
<1> DEFINE n == Len(o.kids)
<1>1. IsContainer(o) /\ IsSize(n) /\ n \in Nat
  BY KidsAre
<1>2. w = MarshalList(o.kids)
  BY DEF Writes
<1>4. n = 0 \/ n = 1 \/ n > 1
  <2>1. \A m \in Nat : m = 0 \/ m = 1 \/ m > 1
    OBVIOUS
  <2> QED BY <1>1, <2>1, Zenon
<1>5. CASE n = 0
  <2>1. w = <<Write(<<Op.EmptyList>>)>>
    BY <1>2, <1>5 DEF MarshalList
  <2>2. Op.EmptyList \in SingletonOps /\ Singleton(Op.EmptyList) = Object("List", <<>>, <<>>)
    BY DEF SingletonOps, Singleton, Op
  <2> QED BY <1>5, <2>1, <2>2, NoKidsEncodes
<1>6. CASE n = 1
  <2>1. w = <<Write(<<Op.OneList + 0>>)>>
    BY <1>2, <1>6 DEF MarshalList, Op
  <2>2. Op.OneList \in FixedOps /\ Fixed(Op.OneList) = Frame("List", n)
    BY <1>6 DEF FixedOps, Fixed, Op
  <2>3. 0 \in {0, flag} /\ 0 \in Nat
    OBVIOUS
  <2> QED BY <1>1, <2>1, <2>2, <2>3, FixedEncodes
<1>7. CASE n > 1
  <2>1. w = <<Write(<<Op.List + 0>>)>> \o WriteSizeEx(n)
    BY <1>2, <1>7 DEF MarshalList, Op
  <2>2. Op.List \in CountedOps /\ Counted(Op.List, n) = Frame("List", n)
    BY DEF CountedOps, Counted, Op
  <2>3. 0 \in {0, flag} /\ 0 \in Nat
    OBVIOUS
  <2> QED BY <1>1, <2>1, <2>2, <2>3, CountedEncodes
<1> QED BY <1>4, <1>5, <1>6, <1>7

LEMMA DictEncodes ==
  ASSUME NEW o \in Objects, o.type = "Dict", NEW flag, NEW w \in Writes(o, flag)
  PROVE  IsWriting(w) /\ Encodes(Bytes(w), o, flag)
<1> DEFINE n == Len(o.kids)
           m == n \div 2
<1>1. IsContainer(o) /\ IsSize(n) /\ n \in Nat /\ n % 2 = 0
  BY KidsAre
<1>2. m \in Nat /\ 2 * m = n /\ m <= n
  <2>1. \A i \in Nat : i % 2 = 0 => i \div 2 \in Nat /\ 2 * (i \div 2) = i /\ i \div 2 <= i
    OBVIOUS
  <2> QED BY <1>1, <2>1
<1>3. IsSize(m)
  <2>1. Power(Base, IntBytes) \in Nat
    BY BaseFacts DEF IntBytes
  <2>2. \A i, j, k \in Nat : i <= j /\ j < k => i < k
    OBVIOUS
  <2> QED BY <1>1, <1>2, <2>1, <2>2, Zenon DEF IsSize
<1>4. w = <<Write(<<Op.Dict + 0>>)>> \o WriteSizeEx(m)
  <2>1. w = MarshalDict(o.kids)
    BY DEF Writes
  <2>2. Op.Dict + 0 = Op.Dict
    BY DEF Op
  <2> QED BY <2>1, <2>2, Zenon DEF MarshalDict
<1> HIDE DEF m
<1>5. Op.Dict \in CountedOps /\ Counted(Op.Dict, m) = Frame("Dict", n)
  BY <1>2 DEF CountedOps, Counted, Op
<1>6. 0 \in {0, flag} /\ 0 \in Nat
  OBVIOUS
<1> QED BY <1>1, <1>2, <1>3, <1>4, <1>5, <1>6, CountedEncodes

(* Whatever marshal writes for an object is its encoding. *)
LEMMA WritesEncode ==
  ASSUME NEW o \in Objects, NEW flag \in {0, SharedFlag}, NEW w \in Writes(o, flag)
  PROVE  IsWriting(w) /\ Encodes(Bytes(w), o, flag)
<1>1. o.type \in {"None", "Bool", "Long", "Real", "Int", "String", "SubStream", "Unicode", "Tuple", "List", "Dict"}
  BY ObjectKinds
<1> QED BY <1>1, SimpleEncodes, LongEncodes, RealEncodes, IntEncodes, StringEncodes, SubStreamEncodes,
           UnicodeEncodes, TupleEncodes, ListEncodes, DictEncodes
-----------------------------------------------------------------------------
(* Reading what stands in the packet. *)
Prefixed ==
  /\ packet \in Seq(Nat) /\ content \in Seq(Nat) /\ Len(packet) <= Len(content)
  /\ \A i \in 1..Len(packet) : packet[i] = content[i]
  /\ 2 * Len(content) <= Power(Base, IntBytes)

(* What a read of something that ends at q must give: the value, or nothing when *)
(* the packet ends before.                                                      *)
Outcome(r, q, v) == IF q <= Len(packet) THEN r = Gives(v, q)
                    ELSE r.value = <<>> /\ r.next \in Nat /\ r.next <= Len(packet)
Result(r, q, o) == IF q <= Len(packet) THEN \E v : r = Gives(v, q) /\ (v = o \/ Confuses(o))
                   ELSE r.value = <<>> /\ r.next \in Nat /\ r.next <= Len(packet)

LEMMA SizesFit ==
  LET P == Power(Base, IntBytes) IN P \in Nat \ {0} /\ 2 * Base < P /\ 2 * LongBytes < P /\ 12 < P
<1> DEFINE P == Power(Base, IntBytes)
<1>1. P = Base * Power(Base, 3) /\ Power(Base, 3) = Base * (Base * Base)
  <2>1. Base \in Nat /\ 2 \in Nat /\ 3 \in Nat /\ 2 + 1 = 3 /\ 3 + 1 = 4
    BY BaseFacts
  <2>2. Power(Base, 2 + 1) = Base * Power(Base, 2) /\ Power(Base, 3 + 1) = Base * Power(Base, 3)
    BY <2>1, PowerStep
  <2> QED BY <2>1, <2>2, BaseFacts DEF IntBytes
<1>2. Base * Base \in Nat \ {0} /\ Base * Base >= Base
  BY BaseFacts, TimesPositive
<1>3. Power(Base, 3) \in Nat \ {0} /\ Power(Base, 3) >= Base
  <2>1. Base * (Base * Base) \in Nat \ {0} /\ Base * (Base * Base) >= Base
    BY <1>2, BaseFacts, TimesPositive
  <2> QED BY <1>1, <2>1
<1> DEFINE k == Power(Base, 3)
<1>4. Base * k >= Base * 7
  <2>1. Base \in Nat /\ Base >= 7 /\ k >= 7 /\ k \in Nat
    BY <1>3, BaseFacts
  <2> HIDE DEF k
  <2> QED BY <2>1
<1>5. P \in Nat \ {0}
  BY BaseFacts DEF IntBytes
<1>6. P >= Base * 7
  BY <1>1, <1>4
<1> HIDE DEF P
<1> QED BY <1>5, <1>6, BaseFacts DEF P

(* Has, where the end of the read does not wrap. *)
LEMMA HasIs ==
  ASSUME Prefixed, NEW p \in Nat, NEW n \in Nat, p + n < Power(Base, IntBytes)
  PROVE  Has(p, n) <=> p + n <= Len(packet)
<1> DEFINE P == Power(Base, IntBytes)
           x == p + n
<1>1. P \in Nat \ {0} /\ x \in 0..(P - 1)
  BY SizesFit
<1> HIDE DEF P, x
<1>2. (P * 0 + x) % P = x
  BY <1>1, DivModUnique
<1>3. x % P = x
  BY <1>1, <1>2
<1>4. Has(p, n) <=> Len(packet) >= x % P
  BY Zenon DEF Has, P, x
<1>5. Len(packet) \in Nat
  BY LenProperties DEF Prefixed
<1> QED BY <1>1, <1>3, <1>4, <1>5 DEF x

(* Within the packet, and in what would have followed it, no end of a read wraps. *)
LEMMA HasHere ==
  ASSUME Prefixed, NEW p \in Nat, NEW n \in Nat, p + n <= Len(content)
  PROVE  Has(p, n) <=> p + n <= Len(packet)
<1>1. Len(content) \in Nat /\ 2 * Len(content) <= Power(Base, IntBytes)
  BY LenProperties DEF Prefixed
<1>2. p + n < Power(Base, IntBytes)
  BY <1>1, SizesFit
<1> QED BY <1>2, HasIs

LEMMA HasSmall ==
  ASSUME Prefixed, NEW p \in Nat, NEW n \in Nat, p <= Len(packet) + 1, n <= LongBytes \/ n <= 4
  PROVE  Has(p, n) <=> p + n <= Len(packet)
<1>1. Len(content) \in Nat /\ 2 * Len(content) <= Power(Base, IntBytes) /\ Len(packet) \in Nat /\ Len(packet) <= Len(content)
  BY LenProperties DEF Prefixed
<1>2. p + n < Power(Base, IntBytes)
  <2> DEFINE P == Power(Base, IntBytes)
  <2>1. P \in Nat \ {0} /\ 2 * LongBytes < P /\ 12 < P /\ LongBytes \in Nat /\ LongBytes > 4 /\ 2 * Base < P
        /\ Base \in Nat /\ Base > LongBytes + 1
    BY SizesFit, BaseFacts
  <2>2. 2 * p <= P + 2 /\ 2 * n + 2 < P
    <3> HIDE DEF P
    <3> QED BY <1>1, <2>1 DEF P
  <2> HIDE DEF P
  <2>3. 2 * (p + n) < 2 * P
    BY <2>1, <2>2
  <2>4. p + n < P
    BY <2>1, <2>3
  <2> QED BY <2>4 DEF P
<1> QED BY <1>2, HasIs

LEMMA AtIs ==
  ASSUME Prefixed, NEW p \in Nat, NEW s \in Seq(Nat), Stands(content, p, s), p + Len(s) <= Len(packet)
  PROVE  At(p, Len(s)) = s
<1> DEFINE m == p + 1
           n == p + Len(s)
           t == SubSeq(packet, m, n)
<1>1. Len(packet) \in Nat /\ Len(s) \in Nat /\ packet \in Seq(Nat)
  BY LenProperties DEF Prefixed
<1>2. m \in Int /\ n \in Int /\ \A i \in m..n : packet[i] \in Nat
  BY <1>1, ElementOfSeq
<1>3. /\ t \in Seq(Nat)
      /\ Len(t) = IF m <= n THEN n - m + 1 ELSE 0
      /\ \A i \in 1..(n - m + 1) : t[i] = packet[m + i - 1]
  <2> HIDE DEF m, n
  <2> QED BY <1>2, SubSeqProperties
<1>4. Len(t) = Len(s)
  <2> HIDE DEF t
  <2> QED BY <1>1, <1>3
<1>5. ASSUME NEW i \in 1..Len(s) PROVE t[i] = s[i]
  <2>1. t[i] = packet[m + i - 1]
    BY <1>1, <1>3
  <2>2. m + i - 1 = p + i /\ p + i \in 1..Len(packet)
    BY <1>1
  <2>3. packet[p + i] = content[p + i]
    BY <2>2 DEF Prefixed
  <2>4. content[p + i] = s[i]
    BY DEF Stands
  <2> QED BY <2>1, <2>2, <2>3, <2>4
<1>6. t = s
  <2> HIDE DEF t
  <2> QED BY <1>3, <1>4, <1>5, SeqEqual
<1> QED BY <1>6 DEF At

LEMMA AtByte ==
  ASSUME Prefixed, NEW p \in Nat, p + 1 <= Len(packet)
  PROVE  At(p, 1) = <<packet[p + 1]>> /\ packet[p + 1] \in Nat /\ packet[p + 1] = content[p + 1]
<1> DEFINE s == <<packet[p + 1]>>
<1>1. Len(packet) \in Nat /\ packet \in Seq(Nat) /\ p + 1 \in 1..Len(packet) /\ Len(packet) <= Len(content)
      /\ Len(content) \in Nat
  BY LenProperties DEF Prefixed
<1>2. packet[p + 1] \in Nat /\ packet[p + 1] = content[p + 1]
  BY <1>1, ElementOfSeq DEF Prefixed
<1>3. s \in Seq(Nat) /\ Len(s) = 1 /\ s[1] = content[p + 1]
  BY <1>2, OneByte
<1> HIDE DEF s
<1>4. Stands(content, p, s)
  BY <1>1, <1>3 DEF Stands
<1>5. At(p, Len(s)) = s
  BY <1>3, <1>4, AtIs
<1> QED BY <1>2, <1>3, <1>5 DEF s

(* A size that was written is read again, or it ends behind the packet. *)
LEMMA ReadSizeIs ==
  ASSUME Prefixed, NEW p \in Nat, p <= Len(packet), NEW n \in Nat, IsSize(n),
         Stands(content, p, SizeBytes(n))
  PROVE  Outcome(ReadSizeEx(p), p + Len(SizeBytes(n)), n)
<1>0. Len(packet) \in Nat /\ content \in Seq(Nat)
  BY LenProperties DEF Prefixed
<1>1. Has(p, 1) <=> p + 1 <= Len(packet)
  BY <1>0, HasSmall
<1>2. CASE ~(n > Base - 2)
  <2>1. SizeBytes(n) = <<n>> /\ Len(<<n>>) = 1 /\ <<n>>[1] = n /\ <<n>> \in Seq(Nat)
    BY <1>2, OneByte DEF SizeBytes
  <2>2. CASE ~(p + 1 <= Len(packet))
    BY <1>0, <1>1, <2>1, <2>2 DEF Outcome, ReadSizeEx, Nothing
  <2>3. CASE p + 1 <= Len(packet)
    <3>1. At(p, 1) = <<n>>
      BY <2>1, <2>3, AtIs
    <3>2. <<n>> # <<Base - 1>>
      <4>1. n # Base - 1
        BY <1>2, BaseFacts
      <4> QED BY <4>1
    <3>3. ReadSizeEx(p) = Gives(n, p + 1)
      BY <1>1, <2>1, <2>3, <3>1, <3>2, Zenon DEF ReadSizeEx
    <3> QED BY <2>1, <2>3, <3>3 DEF Outcome
  <2> QED BY <2>2, <2>3
<1>3. CASE n > Base - 2
  <2> DEFINE d == Digits(n, IntBytes)
  <2>1. SizeBytes(n) = <<Base - 1>> \o d
    BY <1>3 DEF SizeBytes
  <2>2. <<Base - 1>> \in Seq(Nat) /\ Len(<<Base - 1>>) = 1 /\ d \in Seq(Nat) /\ Len(d) = IntBytes
    <3>1. Base - 1 \in Nat
      BY BaseFacts
    <3>2. n \in Int /\ IntBytes \in Nat
      BY DEF IntBytes
    <3>3. d \in Seq(Nat) /\ Len(d) = IntBytes
      BY <3>2, DigitsAreBytes, Zenon
    <3> QED BY <3>1, <3>3, OneByte
  <2>3. Unsigned(d) = n
    <3>1. n \in 0..(Power(Base, IntBytes) - 1)
      BY SizesFit DEF IsSize
    <3> QED BY <3>1, UnsignedDigits DEF IntBytes
  <2> HIDE DEF d
  <2>4. Stands(content, p, <<Base - 1>>) /\ Stands(content, p + 1, d)
    <3>1. Stands(content, p, <<Base - 1>> \o d)
      BY <2>1
    <3> QED BY <1>0, <2>2, <3>1, StandsConcat
  <2>5. Len(SizeBytes(n)) = 1 + IntBytes
    BY <2>1, <2>2, ConcatProperties
  <2>6. CASE ~(p + 1 <= Len(packet))
    BY <1>0, <1>1, <2>5, <2>6 DEF Outcome, ReadSizeEx, Nothing, IntBytes
  <2>7. CASE p + 1 <= Len(packet)
    <3>1. At(p, 1) = <<Base - 1>>
      BY <2>2, <2>4, <2>7, AtIs
    <3>2. Has(p + 1, IntBytes) <=> p + 1 + IntBytes <= Len(packet)
      BY <1>0, <2>7, HasSmall DEF IntBytes
    <3>3. CASE ~(p + 1 + IntBytes <= Len(packet))
      <4>1. ReadSizeEx(p) = Nothing(p + 1)
        BY <1>1, <2>7, <3>1, <3>2, <3>3, Zenon DEF ReadSizeEx
      <4> QED BY <1>0, <2>5, <2>7, <3>3, <4>1 DEF Outcome, Nothing, IntBytes
    <3>4. CASE p + 1 + IntBytes <= Len(packet)
      <4>1. At(p + 1, IntBytes) = d
        BY <2>2, <2>4, <3>4, AtIs
      <4>2. ReadSizeEx(p) = Gives(n, p + 1 + IntBytes)
        BY <1>1, <2>3, <2>7, <3>1, <3>2, <3>4, <4>1, Zenon DEF ReadSizeEx
      <4>3. p + 1 + IntBytes = p + (1 + IntBytes)
        BY DEF IntBytes
      <4> QED BY <2>5, <3>4, <4>2, <4>3 DEF Outcome
    <3> QED BY <3>3, <3>4
  <2> QED BY <2>6, <2>7
<1> QED BY <1>2, <1>3

LEMMA StandsWithin ==
  ASSUME NEW X, NEW c \in Seq(X), NEW b \in Seq(X), NEW t \in Seq(X), NEW p \in Nat, NEW j \in Nat,
         Stands(c, p, b), Stands(b, j, t)
  PROVE  Stands(c, p + j, t)
<1>1. Len(c) \in Nat /\ Len(b) \in Nat /\ Len(t) \in Nat
  BY LenProperties
<1>2. p + j + Len(t) <= Len(c)
  BY <1>1 DEF Stands
<1>3. ASSUME NEW i \in 1..Len(t) PROVE c[p + j + i] = t[i]
  <2>1. j + i \in 1..Len(b) /\ p + (j + i) = p + j + i
    BY <1>1 DEF Stands
  <2>2. c[p + (j + i)] = b[j + i] /\ b[j + i] = t[i]
    BY <2>1 DEF Stands
  <2> QED BY <2>1, <2>2
<1> QED BY <1>2, <1>3 DEF Stands

LEMMA ReadNumberIs ==
  ASSUME Prefixed, NEW p \in Nat, p <= Len(packet), NEW type, NEW k \in Nat, NEW n \in Int,
         InBytes(n, k), Stands(content, p, Digits(n, k))
  PROVE  Outcome(ReadNumber(type, k, p), p + k, Object(type, <<n>>, <<>>))
<1> DEFINE d == Digits(n, k)
           o == Object(type, <<n>>, <<>>)
<1>1. d \in Seq(Nat) /\ Len(d) = k /\ Signed(d) = n /\ Len(packet) \in Nat
  BY DigitsAreBytes, SignedDigits, LenProperties DEF Prefixed
<1>2. p + k <= Len(content)
  BY <1>1 DEF Stands
<1>3. Has(p, k) <=> p + k <= Len(packet)
  BY <1>2, HasHere
<1> HIDE DEF d
<1>4. CASE p + k <= Len(packet)
  <2>1. At(p, k) = d
    <3>1. Stands(content, p, d) /\ p + Len(d) <= Len(packet)
      BY <1>1, <1>4 DEF d
    <3> QED BY <1>1, <3>1, AtIs
  <2>2. ReadNumber(type, k, p) = Gives(o, p + k)
    BY <1>1, <1>3, <1>4, <2>1, Zenon DEF ReadNumber
  <2> QED BY <1>4, <2>2 DEF Outcome
<1>5. CASE ~(p + k <= Len(packet))
  <2>1. ReadNumber(type, k, p) = Nothing(p)
    BY <1>3, <1>5, Zenon DEF ReadNumber
  <2> QED BY <1>1, <1>5, <2>1 DEF Outcome, Nothing
<1> QED BY <1>4, <1>5

LEMMA GivesIs ==
  ASSUME NEW v, NEW q
  PROVE  /\ Gives(v, q).value = <<v>> /\ Gives(v, q).value # <<>> /\ Gives(v, q).value[1] = v
         /\ Gives(v, q).next = q /\ Nothing(q).value = <<>> /\ Nothing(q).next = q
BY DEF Gives, Nothing

(* b holds the characters of s in w bytes each. *)
Spells(b, s, w) ==
  /\ b \in Seq(Nat) /\ s \in Seq(0..(Power(Base, w) - 1)) /\ Len(b) = Len(s) * w /\ IsSize(Len(s))
  /\ \A i \in 1..Len(s) : Stands(b, (i - 1) * w, Digits(s[i], w))

LEMMA ReadTextIs ==
  ASSUME Prefixed, NEW p \in Nat, p <= Len(packet), NEW type, NEW w \in {1, 2}, NEW s, NEW b, Spells(b, s, w),
         Stands(content, p, SizeBytes(Len(s)) \o b)
  PROVE  Outcome(ReadText(type, w, p), p + Len(SizeBytes(Len(s)) \o b), Object(type, s, <<>>))
<1> DEFINE n == Len(s)
           z == SizeBytes(n)
           q == p + Len(z)
           size == ReadSizeEx(p)
           r == ReadText(type, w, p)
           o == Object(type, s, <<>>)
           t == [i \in 1..n |-> Unsigned(At(q + (i - 1) * w, w))]
<1>1. n \in Nat /\ IsSize(n) /\ b \in Seq(Nat) /\ Len(b) = n * w /\ s \in Seq(0..(Power(Base, w) - 1))
  BY LenProperties DEF Spells
<1>2. z \in Seq(Nat) /\ Len(z) \in Nat /\ Len(z \o b) = Len(z) + Len(b) /\ Len(b) \in Nat /\ Len(packet) \in Nat
      /\ content \in Seq(Nat)
  <2>1. z \in Seq(Nat)
    BY <1>1, SizeIs
  <2> QED BY <1>1, <2>1, ConcatProperties, LenProperties DEF Prefixed
<1> HIDE DEF z
<1>3. Stands(content, p, z) /\ Stands(content, q, b)
  <2>1. Stands(content, p, z \o b)
    BY DEF z
  <2> QED BY <1>1, <1>2, <2>1, StandsConcat
<1>4. Outcome(size, q, n)
  <2>1. Stands(content, p, SizeBytes(n))
    BY <1>3 DEF z
  <2> QED BY <1>1, <2>1, ReadSizeIs, Zenon DEF z
<1> SUFFICES Outcome(r, q + n * w, o)
  <2>1. p + Len(z \o b) = q + n * w
    BY <1>1, <1>2
  <2> QED BY <2>1 DEF z
<1>q. q \in Nat /\ n * w \in Nat /\ q + n * w <= Len(content)
  BY <1>1, <1>2, <1>3 DEF Stands
<1>5. CASE ~(q <= Len(packet))
  <2>1. size.value = <<>> /\ size.next \in Nat /\ size.next <= Len(packet)
    BY <1>4, <1>5 DEF Outcome
  <2>2. r = size
    BY <2>1, Zenon DEF ReadText
  <2>3. ~(q + n * w <= Len(packet))
    BY <1>q, <1>2, <1>5
  <2> QED BY <2>1, <2>2, <2>3 DEF Outcome
<1>6. CASE q <= Len(packet)
  <2>1. size = Gives(n, q)
    BY <1>4, <1>6 DEF Outcome
  <2>2. size.value # <<>> /\ size.value[1] = n /\ size.next = q
    BY <2>1, GivesIs
  <2>3. Has(q, n * w) <=> q + n * w <= Len(packet)
    BY <1>q, HasHere
  <2>4. CASE ~(q + n * w <= Len(packet))
    <3>1. r = Nothing(q)
      BY <2>2, <2>3, <2>4, Zenon DEF ReadText
    <3> QED BY <1>6, <1>q, <2>4, <3>1 DEF Nothing, Outcome
  <2>5. CASE q + n * w <= Len(packet)
    <3>1. r = Gives(Object(type, t, <<>>), q + n * w)
      BY <2>2, <2>3, <2>5, Zenon DEF ReadText
    <3>2. ASSUME NEW i \in 1..n PROVE Unsigned(At(q + (i - 1) * w, w)) = s[i]
      <4> DEFINE d == Digits(s[i], w)
                 j == (i - 1) * w
      <4>1. s[i] \in 0..(Power(Base, w) - 1)
        BY <1>1, ElementOfSeq
      <4>2. d \in Seq(Nat) /\ Len(d) = w /\ Unsigned(d) = s[i]
        <5>1. s[i] \in Int /\ w \in Nat
          BY <4>1
        <5> QED BY <4>1, <5>1, DigitsAreBytes, UnsignedDigits
      <4>3. j \in Nat /\ j + w <= n * w
        BY <1>1
      <4>4. Stands(b, j, d)
        BY DEF Spells
      <4> HIDE DEF d, j, q
      <4>5. Stands(content, q + j, d)
        BY <1>1, <1>2, <1>3, <1>q, <4>2, <4>3, <4>4, StandsWithin
      <4>6. q + j \in Nat /\ q + j + Len(d) <= Len(packet)
        BY <1>q, <1>2, <2>5, <4>2, <4>3
      <4>7. At(q + j, w) = d
        BY <4>2, <4>5, <4>6, AtIs
      <4> QED BY <4>2, <4>7 DEF j
    <3>3. t = s
      <4>1. \A i \in 1..n : t[i] = s[i]
        BY <3>2
      <4>2. s = [i \in 1..n |-> s[i]]
        BY <1>1
      <4>3. t = [i \in 1..n |-> s[i]]
        BY <4>1
      <4> QED BY <4>2, <4>3
    <3> QED BY <2>5, <3>1, <3>3 DEF Outcome
  <2> QED BY <2>4, <2>5
<1> QED BY <1>5, <1>6

LEMMA NarrowSpells ==
  ASSUME NEW s \in Seq(0..(Base - 1)), IsSize(Len(s))
  PROVE  Spells(s, s, 1)
<1>1. Power(Base, 1) = Base /\ 0..(Base - 1) \subseteq Nat
  BY BaseFacts
<1>2. s \in Seq(Nat) /\ Len(s) \in Nat
  BY <1>1, SeqMonotonic, LenProperties
<1>3. ASSUME NEW i \in 1..Len(s) PROVE Stands(s, (i - 1) * 1, Digits(s[i], 1))
  <2>1. s[i] \in 0..(Base - 1)
    BY ElementOfSeq
  <2>2. Digits(s[i], 1) = <<s[i]>>
    BY <2>1, UnsignedByte
  <2>3. Len(<<s[i]>>) = 1 /\ <<s[i]>>[1] = s[i] /\ (i - 1) * 1 + 1 = i
    OBVIOUS
  <2> DEFINE t == <<s[i]>>
             j == (i - 1) * 1
  <2>4. Len(t) = 1 /\ t[1] = s[i] /\ j + 1 = i
    BY <2>3
  <2> HIDE DEF t, j
  <2>5. Stands(s, j, t)
    BY <1>2, <2>4 DEF Stands
  <2> QED BY <2>2, <2>5 DEF t, j
<1> QED BY <1>1, <1>2, <1>3 DEF Spells

LEMMA WideSpells ==
  ASSUME NEW s \in Seq(0..(Base * Base - 1)), IsSize(Len(s))
  PROVE  Spells(Wide(s), s, 2)
<1>1. Power(Base, 2) = Base * Base
  BY BaseFacts
<1>2. /\ Wide(s) \in Seq(Nat) /\ Len(Wide(s)) = 2 * Len(s) /\ Len(s) \in Nat
      /\ \A i \in 1..Len(s) : /\ Wide(s)[2 * i - 1] = Digits(s[i], 2)[1]
                              /\ Wide(s)[2 * i] = Digits(s[i], 2)[2]
  BY WideIs
<1> DEFINE b == Wide(s)
<1>3. ASSUME NEW i \in 1..Len(s) PROVE Stands(b, (i - 1) * 2, Digits(s[i], 2))
  <2> DEFINE d == Digits(s[i], 2)
  <2>1. s[i] \in 0..(Base * Base - 1)
    BY ElementOfSeq
  <2>2. s[i] \in Int
    BY <2>1
  <2>3. Len(d) = 2
    BY <2>2, DigitsAreBytes
  <2>4. b[2 * i - 1] = d[1] /\ b[2 * i] = d[2]
    BY <1>2
  <2>5. (i - 1) * 2 + 1 = 2 * i - 1 /\ (i - 1) * 2 + 2 = 2 * i /\ 2 * i <= 2 * Len(s)
    BY <1>2
  <2> HIDE DEF b, d
  <2>6. \A j \in 1..2 : b[(i - 1) * 2 + j] = d[j]
    BY <2>4, <2>5
  <2>7. (i - 1) * 2 + Len(d) <= Len(b)
    BY <1>2, <2>3, <2>5 DEF b
  <2> QED BY <2>3, <2>6, <2>7 DEF Stands, d
<1> QED BY <1>1, <1>2, <1>3 DEF Spells

LEMMA ReadVarIs ==
  ASSUME Prefixed, NEW p \in Nat, p <= Len(packet), NEW n \in Nat, NEW size \in 0..LongBytes, NEW o,
         o = Object("Long", <<n>>, <<>>), n < Power(Base, size), size < LongBytes \/ Confuses(o),
         Stands(content, p, <<size>> \o Digits(n, size)), NEW r \in ReadVarInteger(p)
  PROVE  Result(r, p + 1 + size, o)
<1> DEFINE d == Digits(n, size)
           x == ReadSizeEx(p)
           q == p + 1
<1>1. LongBytes \in Nat /\ Base \in Nat /\ Base > LongBytes + 1 /\ Len(packet) \in Nat /\ content \in Seq(Nat)
  BY BaseFacts, LenProperties DEF Prefixed
<1>2. size \in Nat /\ <<size>> \in Seq(Nat) /\ Len(<<size>>) = 1
  BY <1>1
<1>3. d \in Seq(Nat) /\ Len(d) = size /\ Unsigned(d) = n
  <2>1. n \in Int /\ n \in 0..(Power(Base, size) - 1)
    BY <1>2, BaseFacts
  <2> QED BY <1>2, <2>1, DigitsAreBytes, UnsignedDigits
<1>4. Stands(content, p, <<size>>) /\ Stands(content, q, d)
  <2> HIDE DEF d
  <2>1. Stands(content, p, <<size>> \o d)
    BY DEF d
  <2> QED BY <1>1, <1>2, <1>3, <2>1, StandsConcat
<1>5. SizeBytes(size) = <<size>> /\ IsSize(size)
  <2>1. ~(size > Base - 2)
    BY <1>1
  <2>2. size < Power(Base, IntBytes)
    BY <1>1, SizesFit
  <2> QED BY <2>1, <2>2 DEF SizeBytes, IsSize
<1>6. Outcome(x, q, size)
  <2>1. Outcome(x, p + Len(SizeBytes(size)), size)
    <3>1. Stands(content, p, SizeBytes(size))
      BY <1>4, <1>5
    <3> QED BY <1>2, <1>5, <3>1, ReadSizeIs, Zenon
  <2> QED BY <1>2, <1>5, <2>1
<1>7. CASE ~(q <= Len(packet))
  <2>1. x.value = <<>> /\ x.next \in Nat /\ x.next <= Len(packet)
    BY <1>6, <1>7 DEF Outcome
  <2>2. r = x
    BY <2>1 DEF ReadVarInteger
  <2>3. ~(p + 1 + size <= Len(packet))
    BY <1>1, <1>2, <1>7
  <2> QED BY <2>1, <2>2, <2>3 DEF Result
<1>8. CASE q <= Len(packet)
  <2>1. x = Gives(size, q)
    BY <1>6, <1>8 DEF Outcome
  <2>2. x.value # <<>> /\ x.value[1] = size /\ x.next = q
    BY <2>1, GivesIs
  <2>3. Has(q, size) <=> q + size <= Len(packet)
    <3>1. q \in Nat /\ q + size <= Len(content)
      BY <1>2, <1>3, <1>4 DEF Stands
    <3> QED BY <1>2, <3>1, HasHere
  <2>4. CASE size = 0
    <3>1. r = Gives(Object("Long", <<0>>, <<>>), q)
      BY <1>1, <2>2, <2>4 DEF ReadVarInteger
    <3>2. n = 0
      <4>1. Power(Base, 0) = 1
        BY BaseFacts
      <4> QED BY <2>4, <4>1
    <3>3. p + 1 + size = q
      BY <2>4
    <3> QED BY <1>8, <3>1, <3>2, <3>3 DEF Result
  <2>5. CASE size # 0 /\ ~(q + size <= Len(packet))
    <3>1. r = Nothing(q)
      BY <1>1, <2>2, <2>3, <2>5 DEF ReadVarInteger
    <3> QED BY <1>8, <2>5, <3>1 DEF Result, Nothing
  <2>6. CASE size # 0 /\ q + size <= Len(packet)
    <3>1. At(q, size) = d
      <4>1. q \in Nat /\ q + Len(d) <= Len(packet)
        BY <1>3, <2>6
      <4> HIDE DEF d
      <4> QED BY <1>3, <1>4, <4>1, AtIs
    <3>2. PICK v \in VarIntegerValues(d) : r = Gives(Object("Long", <<v>>, <<>>), q + size)
      <4>1. size \in 1..LongBytes /\ size # 0 /\ ~(size > LongBytes) /\ Has(q, size)
        BY <1>1, <2>3, <2>6
      <4>2. ReadVarInteger(p) = {Gives(Object("Long", <<v>>, <<>>), q + size) : v \in VarIntegerValues(At(q, size))}
        BY <2>2, <4>1 DEF ReadVarInteger
      <4> HIDE DEF q, d
      <4>3. r \in {Gives(Object("Long", <<v>>, <<>>), q + size) : v \in VarIntegerValues(d)}
        BY <4>2, <3>1
      <4> QED BY <4>3
    <3>3. v = n \/ Confuses(o)
      BY <1>1, <1>3 DEF VarIntegerValues
    <3>4. q + size = p + 1 + size
      OBVIOUS
    <3> HIDE DEF q
    <3> QED BY <2>6, <3>2, <3>3, <3>4 DEF Result
  <2> QED BY <2>4, <2>5, <2>6
<1> QED BY <1>7, <1>8
-----------------------------------------------------------------------------
(* What unmarshal finds where the bytes of an object without children stand. *)
LEMMA OpsAre ==
  \A op \in LeafOps \cup FixedOps \cup CountedOps :
    /\ op \in Nat /\ op % SharedFlag = op /\ (op + 0) % SharedFlag = op /\ (op + SharedFlag) % SharedFlag = op
    /\ (op \div SharedFlag) % 2 = 0 /\ ((op + SharedFlag) \div SharedFlag) % 2 = 1
<1>1. \A op \in LeafOps \cup FixedOps \cup CountedOps : op \in 0..63
  BY DEF LeafOps, FixedOps, CountedOps, SingletonOps, Op
<1>2. \A op \in 0..63 : /\ op % 64 = op /\ (op + 0) % 64 = op /\ (op + 64) % 64 = op
                        /\ op \div 64 = 0 /\ (op + 64) \div 64 = 1
  OBVIOUS
<1> QED BY <1>1, <1>2 DEF SharedFlag

(* b is an opcode and what follows it. *)
Begins(b, op, t) == b = <<op>> \o t

LEMMA FirstByte ==
  ASSUME Prefixed, NEW p \in Nat, p < Len(packet), NEW op \in Nat, NEW t \in Seq(Nat),
         NEW b, Begins(b, op, t), Stands(content, p, b)
  PROVE  /\ packet[p + 1] = op /\ Stands(content, p + 1, t) /\ p + 1 \in Nat /\ p + 1 <= Len(packet)
         /\ p + Len(b) = p + 1 + Len(t) /\ Len(t) \in Nat
<1> DEFINE x == <<op>>
<1>1. x \in Seq(Nat) /\ Len(x) = 1 /\ x[1] = op /\ content \in Seq(Nat) /\ Len(packet) \in Nat
  BY OneByte, LenProperties DEF Prefixed
<1>5. b = x \o t
  BY DEF x, Begins
<1> HIDE DEF x
<1>2. Stands(content, p, x) /\ Stands(content, p + 1, t) /\ Len(x \o t) = 1 + Len(t) /\ Len(t) \in Nat
  <2>1. Stands(content, p, x \o t)
    BY <1>5
  <2> QED BY <1>1, <2>1, StandsConcat, ConcatProperties, LenProperties
<1>3. content[p + 1] = op
  BY <1>1, <1>2 DEF Stands
<1>4. packet[p + 1] = content[p + 1]
  BY <1>1 DEF Prefixed
<1>6. Len(b) = 1 + Len(t)
  BY <1>2, <1>5
<1>7. packet[p + 1] = op
  BY <1>3, <1>4
<1> QED BY <1>1, <1>2, <1>6, <1>7

LEMMA OutcomeResult ==
  ASSUME NEW r, NEW q, NEW o, Outcome(r, q, o)
  PROVE  Result(r, q, o)
BY DEF Outcome, Result

(* The bytes b of o stand behind index p, of which there is at least one. *)
LeafAt(b, o, p) ==
  /\ packet[p + 1] \in LeafOps
  /\ \A r \in Leaf(packet[p + 1], p + 1) : Result(r, p + Len(b), o)

LEMMA LoneRead ==
  ASSUME Prefixed, NEW p \in Nat, p < Len(packet), NEW o, NEW b, IsLone(b, o), Stands(content, p, b)
  PROVE  LeafAt(b, o, p)
<1>1. PICK op \in SingletonOps : b = <<op>> /\ Singleton(op) = o
  BY DEF IsLone
<1>2. op \in Nat /\ op \in LeafOps
  BY OpsAre DEF LeafOps
<1>3. b \in Seq(Nat) /\ Len(b) = 1 /\ b[1] = op /\ Len(packet) \in Nat
  BY <1>1, <1>2, OneByte, LenProperties DEF Prefixed
<1>4. packet[p + 1] = op
  BY <1>3 DEF Prefixed, Stands
<1>5. ASSUME NEW r \in Leaf(op, p + 1) PROVE Result(r, p + Len(b), o)
  <2>1. r = Gives(o, p + 1)
    <3>1. Leaf(op, p + 1) = {Gives(Singleton(op), p + 1)}
      <4>1. op \notin {Op.LongLong, Op.Long, Op.SignedShort, Op.Byte, Op.Float, Op.CharString, Op.StringTableItem,
                       Op.Buffer, Op.Stream, Op.UnicodeUTF8String, Op.UnicodeString, Op.UnicodeCharString, Op.VarInteger}
        BY DEF SingletonOps, Op
      <4> QED BY <4>1 DEF Leaf
    <3> QED BY <1>1, <3>1
  <2>2. p + 1 <= Len(packet)
    BY <1>3
  <2> QED BY <1>3, <2>1, <2>2 DEF Result
<1> QED BY <1>2, <1>4, <1>5 DEF LeafAt

LEMMA NumeralRead ==
  ASSUME Prefixed, NEW p \in Nat, p < Len(packet), NEW o, NEW b, NEW op \in LeafOps, NEW k \in Nat, NEW type,
         Leaf(op, p + 1) = {ReadNumber(type, k, p + 1)},
         Numeral(b, o, op, k, type), Stands(content, p, b)
  PROVE  LeafAt(b, o, p)
<1>1. PICK n \in Int : o = Object(type, <<n>>, <<>>) /\ InBytes(n, k) /\ b = <<op>> \o Digits(n, k)
  BY DEF Numeral
<1> DEFINE d == Digits(n, k)
<1>2. op \in Nat /\ d \in Seq(Nat) /\ Len(d) = k
  BY OpsAre, DigitsAreBytes
<1> HIDE DEF d
<1>3. packet[p + 1] = op /\ Stands(content, p + 1, d) /\ p + 1 \in Nat /\ p + 1 <= Len(packet)
      /\ p + Len(b) = p + 1 + k
  <2>1. Begins(b, op, d)
    BY <1>1 DEF d, Begins
  <2>2. op \in Nat /\ d \in Seq(Nat)
    BY <1>2
  <2>3. p + Len(b) = p + 1 + Len(d) /\ packet[p + 1] = op /\ Stands(content, p + 1, d) /\ p + 1 \in Nat /\ p + 1 <= Len(packet)
    BY <2>1, <2>2, FirstByte
  <2> QED BY <1>2, <2>3
<1>4. Outcome(ReadNumber(type, k, p + 1), p + 1 + k, o)
  BY <1>1, <1>3, ReadNumberIs DEF d
<1> QED BY <1>3, <1>4, OutcomeResult DEF LeafAt

LEMMA NumeralsRead ==
  ASSUME Prefixed, NEW p \in Nat, p < Len(packet), NEW o, NEW b, IsNumeral(b, o), Stands(content, p, b)
  PROVE  LeafAt(b, o, p)
<1>0. LongBytes \in Nat /\ IntBytes \in Nat
  BY BaseFacts DEF IntBytes
<1>1. CASE Numeral(b, o, Op.LongLong, LongBytes, "Long")
  <2>1. Op.LongLong \in LeafOps /\ Leaf(Op.LongLong, p + 1) = {ReadNumber("Long", LongBytes, p + 1)}
    BY DEF LeafOps, Leaf, SingletonOps, Op
  <2> QED BY <1>0, <1>1, <2>1, NumeralRead
<1>2. CASE Numeral(b, o, Op.Long, IntBytes, "Int")
  <2>1. Op.Long \in LeafOps /\ Leaf(Op.Long, p + 1) = {ReadNumber("Int", IntBytes, p + 1)}
    BY DEF LeafOps, Leaf, SingletonOps, Op
  <2> QED BY <1>0, <1>2, <2>1, NumeralRead
<1>3. CASE Numeral(b, o, Op.SignedShort, 2, "Int")
  <2>1. Op.SignedShort \in LeafOps /\ Leaf(Op.SignedShort, p + 1) = {ReadNumber("Int", 2, p + 1)}
    BY DEF LeafOps, Leaf, SingletonOps, Op
  <2> QED BY <1>0, <1>3, <2>1, NumeralRead
<1>4. CASE Numeral(b, o, Op.Byte, 1, "Int")
  <2>1. Op.Byte \in LeafOps /\ Leaf(Op.Byte, p + 1) = {ReadNumber("Int", 1, p + 1)}
    BY DEF LeafOps, Leaf, SingletonOps, Op
  <2> QED BY <1>0, <1>4, <2>1, NumeralRead
<1>5. CASE Numeral(b, o, Op.Float, LongBytes, "Real")
  <2>1. Op.Float \in LeafOps /\ Leaf(Op.Float, p + 1) = {ReadNumber("Real", LongBytes, p + 1)}
    BY DEF LeafOps, Leaf, SingletonOps, Op
  <2> QED BY <1>0, <1>5, <2>1, NumeralRead
<1> QED BY <1>1, <1>2, <1>3, <1>4, <1>5 DEF IsNumeral

LEMMA VarRead ==
  ASSUME Prefixed, NEW p \in Nat, p < Len(packet), NEW o, NEW b, IsVar(b, o), Stands(content, p, b)
  PROVE  LeafAt(b, o, p)
<1>1. PICK n \in Nat, size \in 0..LongBytes :
        /\ o = Object("Long", <<n>>, <<>>) /\ n < Power(Base, size) /\ (size < LongBytes \/ Confuses(o))
        /\ b = <<Op.VarInteger>> \o (<<size>> \o Digits(n, size))
  BY DEF IsVar
<1> DEFINE op == Op.VarInteger
           d == Digits(n, size)
           t == <<size>> \o d
<1>2. op \in LeafOps /\ Leaf(op, p + 1) = ReadVarInteger(p + 1) /\ op \in Nat
  BY DEF LeafOps, Leaf, SingletonOps, Op
<1>3. size \in Nat /\ n \in Int
  BY BaseFacts
<1>4. d \in Seq(Nat) /\ Len(d) = size
  BY <1>3, DigitsAreBytes
<1> HIDE DEF d, op
<1>5. t \in Seq(Nat) /\ Len(t) = 1 + size
  BY <1>3, <1>4, OneByte, ConcatProperties
<1> HIDE DEF t
<1>6. Begins(b, op, t)
  BY <1>1 DEF t, d, op, Begins
<1>7. packet[p + 1] = op /\ Stands(content, p + 1, t) /\ p + 1 \in Nat /\ p + 1 <= Len(packet)
      /\ p + Len(b) = p + 1 + Len(t)
  <2>1. op \in Nat /\ t \in Seq(Nat)
    BY <1>2, <1>5
  <2> QED BY <1>6, <2>1, FirstByte
<1>8. ASSUME NEW r \in Leaf(op, p + 1) PROVE Result(r, p + Len(b), o)
  <2>1. Result(r, p + 1 + 1 + size, o)
    <3>1. r \in ReadVarInteger(p + 1)
      BY <1>2
    <3>2. Stands(content, p + 1, <<size>> \o Digits(n, size))
      BY <1>7 DEF t, d
    <3> QED BY <1>1, <1>7, <3>1, <3>2, ReadVarIs, Zenon
  <2>2. p + 1 + 1 + size = p + Len(b)
    BY <1>3, <1>5, <1>7
  <2> QED BY <2>1, <2>2
<1> QED BY <1>2, <1>7, <1>8 DEF LeafAt

LEMMA CharRead ==
  ASSUME Prefixed, NEW p \in Nat, p < Len(packet), NEW o, NEW b, IsChar(b, o), Stands(content, p, b)
  PROVE  LeafAt(b, o, p)
<1>1. PICK c \in Nat : o = Object("String", <<c>>, <<>>) /\ b = <<Op.CharString>> \o <<c>>
  BY DEF IsChar
<1> DEFINE op == Op.CharString
           t == <<c>>
           q == p + 1
<1>2. op \in LeafOps /\ op \in Nat
      /\ Leaf(op, q) = {IF Has(q, 1) THEN Gives(Object("String", At(q, 1), <<>>), q + 1) ELSE Nothing(q)}
  BY DEF LeafOps, Leaf, SingletonOps, Op
<1>3. t \in Seq(Nat) /\ Len(t) = 1 /\ Len(packet) \in Nat
  BY OneByte, LenProperties DEF Prefixed
<1> HIDE DEF t, op
<1>4. packet[q] = op /\ Stands(content, q, t) /\ q \in Nat /\ q <= Len(packet) /\ p + Len(b) = q + 1
  <2>1. Begins(b, op, t)
    BY <1>1 DEF t, op, Begins
  <2>2. op \in Nat /\ t \in Seq(Nat)
    BY <1>2, <1>3
  <2>3. p + Len(b) = p + 1 + Len(t) /\ packet[p + 1] = op /\ Stands(content, p + 1, t) /\ p + 1 \in Nat /\ p + 1 <= Len(packet)
    BY <2>1, <2>2, FirstByte
  <2> QED BY <1>2, <1>3, <2>3
<1>5. Has(q, 1) <=> q + 1 <= Len(packet)
  <2>1. q <= Len(packet) + 1
    BY <1>3, <1>4
  <2> QED BY <1>4, <2>1, HasSmall
<1>6. q + 1 <= Len(packet) => At(q, 1) = t
  BY <1>3, <1>4, AtIs
<1> HIDE DEF q
<1>7. ASSUME NEW r \in Leaf(op, q) PROVE Outcome(r, q + 1, o)
  BY <1>1, <1>2, <1>4, <1>5, <1>6 DEF Outcome, Nothing, t
<1> QED BY <1>2, <1>4, <1>7, OutcomeResult DEF LeafAt, q

LEMMA ItemRead ==
  ASSUME Prefixed, NEW p \in Nat, p < Len(packet), NEW o, NEW b, IsItem(b, o), Stands(content, p, b)
  PROVE  LeafAt(b, o, p)
<1>1. PICK i \in 1..Len(Table) : /\ o = Object("String", Table[i], <<>>) \/ Confuses(o)
                                 /\ b = <<Op.StringTableItem>> \o <<i>>
  BY DEF IsItem
<1> DEFINE op == Op.StringTableItem
           t == <<i>>
           q == p + 1
<1>2. op \in LeafOps /\ op \in Nat /\ Leaf(op, q) = {ReadStringTableItem(q)}
  BY DEF LeafOps, Leaf, SingletonOps, Op
<1>3. t \in Seq(Nat) /\ Len(t) = 1 /\ t[1] = i /\ Len(packet) \in Nat
  BY OneByte, LenProperties DEF Prefixed
<1> HIDE DEF t, op
<1>4. packet[q] = op /\ Stands(content, q, t) /\ q \in Nat /\ q <= Len(packet) /\ p + Len(b) = q + 1
  <2>1. Begins(b, op, t)
    BY <1>1 DEF t, op, Begins
  <2>2. op \in Nat /\ t \in Seq(Nat)
    BY <1>2, <1>3
  <2>3. p + Len(b) = p + 1 + Len(t) /\ packet[p + 1] = op /\ Stands(content, p + 1, t) /\ p + 1 \in Nat /\ p + 1 <= Len(packet)
    BY <2>1, <2>2, FirstByte
  <2> QED BY <1>2, <1>3, <2>3
<1>5. Has(q, 1) <=> q + 1 <= Len(packet)
  <2>1. q <= Len(packet) + 1
    BY <1>3, <1>4
  <2> QED BY <1>4, <2>1, HasSmall
<1>6. q + 1 <= Len(packet) => At(q, 1) = t
  BY <1>3, <1>4, AtIs
<1> HIDE DEF q
<1>7. ASSUME NEW r \in Leaf(op, q) PROVE Result(r, q + 1, o)
  <2>1. r = ReadStringTableItem(q)
    BY <1>2
  <2>2. CASE q + 1 <= Len(packet)
    <3>1. r = Gives(Object("String", Table[i], <<>>), q + 1)
      BY <1>3, <1>5, <1>6, <2>1, <2>2, Zenon DEF ReadStringTableItem
    <3> QED BY <1>1, <2>2, <3>1 DEF Result
  <2>3. CASE ~(q + 1 <= Len(packet))
    BY <1>4, <1>5, <2>1, <2>3 DEF ReadStringTableItem, Result, Nothing
  <2> QED BY <2>2, <2>3
<1> QED BY <1>2, <1>4, <1>7 DEF LeafAt, q

LEMMA TextRead ==
  ASSUME Prefixed, NEW p \in Nat, p < Len(packet), NEW o, NEW b, NEW op \in LeafOps, NEW type, NEW w \in {1, 2},
         Leaf(op, p + 1) = {ReadText(type, w, p + 1)}, NEW s, NEW c, Spells(c, s, w),
         o = Object(type, s, <<>>), Begins(b, op, SizeBytes(Len(s)) \o c), Stands(content, p, b)
  PROVE  LeafAt(b, o, p)
<1> DEFINE t == SizeBytes(Len(s)) \o c
<1>1. op \in Nat /\ t \in Seq(Nat)
  <2>1. Len(s) \in Nat /\ c \in Seq(Nat)
    BY LenProperties DEF Spells
  <2>2. SizeBytes(Len(s)) \in Seq(Nat)
    BY <2>1, SizeIs
  <2> QED BY <2>1, <2>2, OpsAre, ConcatProperties
<1>2. packet[p + 1] = op /\ Stands(content, p + 1, t) /\ p + 1 \in Nat /\ p + 1 <= Len(packet)
      /\ p + Len(b) = p + 1 + Len(t)
  <2> HIDE DEF t
  <2>1. Begins(b, op, t)
    BY DEF t
  <2>2. op \in Nat /\ t \in Seq(Nat)
    BY <1>1
  <2>3. p + Len(b) = p + 1 + Len(t) /\ packet[p + 1] = op /\ Stands(content, p + 1, t) /\ p + 1 \in Nat /\ p + 1 <= Len(packet)
    BY <2>1, <2>2, FirstByte
  <2> QED BY <1>1, <2>3
<1>3. Outcome(ReadText(type, w, p + 1), p + 1 + Len(t), o)
  BY <1>2, ReadTextIs
<1> HIDE DEF t
<1> QED BY <1>2, <1>3, OutcomeResult DEF LeafAt

LEMMA LetteredRead ==
  ASSUME Prefixed, NEW p \in Nat, p < Len(packet), NEW o, NEW b, IsLettered(b, o), Stands(content, p, b)
  PROVE  LeafAt(b, o, p)
<1>1. ASSUME NEW op \in LeafOps, NEW type, Leaf(op, p + 1) = {ReadText(type, 1, p + 1)}, Lettered(b, o, op, type)
      PROVE  LeafAt(b, o, p)
  <2>1. Spells(o.num, o.num, 1)
    BY <1>1, NarrowSpells DEF Lettered
  <2>2. o = Object(type, o.num, <<>>) /\ Begins(b, op, SizeBytes(Len(o.num)) \o o.num)
    BY <1>1 DEF Lettered, Begins
  <2>3. 1 \in {1, 2}
    OBVIOUS
  <2> QED BY <1>1, <2>1, <2>2, <2>3, TextRead, Zenon
<1>2. CASE Lettered(b, o, Op.Buffer, "String")
  <2>1. Op.Buffer \in LeafOps /\ Leaf(Op.Buffer, p + 1) = {ReadText("String", 1, p + 1)}
    BY DEF LeafOps, Leaf, SingletonOps, Op
  <2> QED BY <1>1, <1>2, <2>1
<1>3. CASE Lettered(b, o, Op.Stream, "SubStream")
  <2>1. Op.Stream \in LeafOps /\ Leaf(Op.Stream, p + 1) = {ReadText("SubStream", 1, p + 1)}
    BY DEF LeafOps, Leaf, SingletonOps, Op
  <2> QED BY <1>1, <1>3, <2>1
<1>4. CASE Lettered(b, o, Op.UnicodeUTF8String, "Unicode")
  <2>1. Op.UnicodeUTF8String \in LeafOps /\ Leaf(Op.UnicodeUTF8String, p + 1) = {ReadText("Unicode", 1, p + 1)}
    BY DEF LeafOps, Leaf, SingletonOps, Op
  <2> QED BY <1>1, <1>4, <2>1
<1> QED BY <1>2, <1>3, <1>4 DEF IsLettered

LEMMA WideRead ==
  ASSUME Prefixed, NEW p \in Nat, p < Len(packet), NEW o, NEW b, IsWide(b, o), Stands(content, p, b)
  PROVE  LeafAt(b, o, p)
<1>1. Op.UnicodeString \in LeafOps /\ Leaf(Op.UnicodeString, p + 1) = {ReadText("Unicode", 2, p + 1)}
  BY DEF LeafOps, Leaf, SingletonOps, Op
<1>2. Spells(Wide(o.num), o.num, 2)
  BY WideSpells DEF IsWide
<1>3. o = Object("Unicode", o.num, <<>>)
      /\ Begins(b, Op.UnicodeString, SizeBytes(Len(o.num)) \o Wide(o.num)) /\ 2 \in {1, 2}
  BY DEF IsWide, Begins
<1> QED BY <1>1, <1>2, <1>3, TextRead, Zenon

LEMMA WideCharRead ==
  ASSUME Prefixed, NEW p \in Nat, p < Len(packet), NEW o, NEW b, IsWideChar(b, o), Stands(content, p, b)
  PROVE  LeafAt(b, o, p)
<1>1. PICK c \in 0..(Base * Base - 1) : o = Object("Unicode", <<c>>, <<>>)
                                        /\ b = <<Op.UnicodeCharString>> \o Digits(c, 2)
  BY DEF IsWideChar
<1> DEFINE op == Op.UnicodeCharString
           t == Digits(c, 2)
           q == p + 1
<1>2. op \in LeafOps /\ op \in Nat
      /\ Leaf(op, q) = {IF Has(q, 2) THEN Gives(Object("Unicode", <<Unsigned(At(q, 2))>>, <<>>), q + 2)
                        ELSE Nothing(q)}
  BY DEF LeafOps, Leaf, SingletonOps, Op
<1>3. t \in Seq(Nat) /\ Len(t) = 2 /\ Unsigned(t) = c /\ Len(packet) \in Nat
  <2>1. c \in Int /\ c \in 0..(Power(Base, 2) - 1) /\ 2 \in Nat
    BY BaseFacts
  <2> QED BY <2>1, DigitsAreBytes, UnsignedDigits, LenProperties DEF Prefixed
<1> HIDE DEF t, op
<1>4. packet[q] = op /\ Stands(content, q, t) /\ q \in Nat /\ q <= Len(packet) /\ p + Len(b) = q + 2
  <2>1. Begins(b, op, t)
    BY <1>1 DEF t, op, Begins
  <2>2. op \in Nat /\ t \in Seq(Nat)
    BY <1>2, <1>3
  <2>3. p + Len(b) = p + 1 + Len(t) /\ packet[p + 1] = op /\ Stands(content, p + 1, t) /\ p + 1 \in Nat /\ p + 1 <= Len(packet)
    BY <2>1, <2>2, FirstByte
  <2> QED BY <1>2, <1>3, <2>3
<1>5. Has(q, 2) <=> q + 2 <= Len(packet)
  <2>1. q <= Len(packet) + 1
    BY <1>3, <1>4
  <2> QED BY <1>4, <2>1, HasSmall
<1>6. q + 2 <= Len(packet) => At(q, 2) = t
  BY <1>3, <1>4, AtIs
<1> HIDE DEF q
<1>7. ASSUME NEW r \in Leaf(op, q) PROVE Outcome(r, q + 2, o)
  BY <1>1, <1>2, <1>3, <1>4, <1>5, <1>6 DEF Outcome, Nothing
<1> QED BY <1>2, <1>4, <1>7, OutcomeResult DEF LeafAt, q

(* load finds an object without children where its bytes stand. *)
LEMMA LeafRead ==
  ASSUME Prefixed, NEW p \in Nat, p < Len(packet), NEW o, NEW b, LeafBytes(b, o), Stands(content, p, b)
  PROVE  LeafAt(b, o, p)
BY LoneRead, NumeralsRead, VarRead, CharRead, ItemRead, LetteredRead, WideRead, WideCharRead DEF LeafBytes
-----------------------------------------------------------------------------
(* What unmarshal finds for a container whose bytes b stand behind index p. *)
ContainerAt(b, o, p, fl) ==
  \E op \in FixedOps \cup CountedOps :
    /\ packet[p + 1] = op + fl
    /\ \/ op \in FixedOps /\ Fixed(op) = Frame(o.type, Len(o.kids)) /\ p + Len(b) = p + 1
       \/ /\ op \in CountedOps
          /\ \E n : /\ Counted(op, n) = Frame(o.type, Len(o.kids))
                    /\ Outcome(ReadSizeEx(p + 1), p + Len(b), n)

LEMMA ContainerRead ==
  ASSUME Prefixed, NEW p \in Nat, p < Len(packet), NEW flag \in {0, SharedFlag}, NEW o, NEW b,
         ContainerBytes(b, o, flag), Stands(content, p, b)
  PROVE  \E fl \in {0, flag} : (fl = 0 \/ o.type = "Tuple") /\ ContainerAt(b, o, p, fl)
<1>1. PICK fl \in {0, flag} : (fl = 0 \/ o.type = "Tuple") /\ (IsFixed(b, o, fl) \/ IsCounted(b, o, fl))
  BY Zenon DEF ContainerBytes
<1>2. fl \in Nat /\ Len(packet) \in Nat
  BY LenProperties DEF Prefixed, SharedFlag
<1>3. CASE IsFixed(b, o, fl)
  <2>1. PICK op \in FixedOps : b = <<op + fl>> /\ Fixed(op) = Frame(o.type, Len(o.kids))
    BY <1>3 DEF IsFixed
  <2> DEFINE x == op + fl
  <2>2. op \in Nat
    BY OpsAre
  <2>3. x \in Nat
    BY <1>2, <2>2
  <2> HIDE DEF x
  <2>4. b = <<x>>
    BY <2>1 DEF x
  <2>5. Len(b) = 1 /\ b[1] = x
    BY <2>3, <2>4, OneByte
  <2>6. packet[p + 1] = x
    <3>1. content[p + 1] = b[1]
      BY <2>5 DEF Stands
    <3>2. packet[p + 1] = content[p + 1]
      BY <1>2 DEF Prefixed
    <3> QED BY <2>5, <3>1, <3>2
  <2>7. p + Len(b) = p + 1
    BY <2>5
  <2> QED BY <1>1, <2>1, <2>6, <2>7 DEF ContainerAt, x
<1>4. CASE IsCounted(b, o, fl)
  <2>1. PICK op \in CountedOps, n \in Nat : /\ IsSize(n) /\ Counted(op, n) = Frame(o.type, Len(o.kids))
                                            /\ b = <<op + fl>> \o SizeBytes(n)
    BY <1>4 DEF IsCounted
  <2> DEFINE x == op + fl
             t == SizeBytes(n)
  <2>2. op \in Nat
    BY OpsAre
  <2>3. x \in Nat /\ t \in Seq(Nat)
    BY <1>2, <2>2, SizeIs
  <2> HIDE DEF x, t
  <2>4. Begins(b, x, t)
    BY <2>1 DEF x, t, Begins
  <2>5. /\ packet[p + 1] = x /\ Stands(content, p + 1, t) /\ p + 1 \in Nat /\ p + 1 <= Len(packet)
        /\ p + Len(b) = p + 1 + Len(t)
    BY <2>3, <2>4, FirstByte
  <2>6. Outcome(ReadSizeEx(p + 1), p + 1 + Len(t), n)
    BY <2>1, <2>5, ReadSizeIs DEF t
  <2>7. Outcome(ReadSizeEx(p + 1), p + Len(b), n)
    BY <2>5, <2>6
  <2> QED BY <1>1, <2>1, <2>5, <2>7 DEF ContainerAt, x
<1> QED BY <1>1, <1>3, <1>4

(* Bytes that were written as something else. *)
LEMMA UnsignedType ==
  ASSUME NEW s \in Seq(Nat)
  PROVE  Unsigned(s) \in Nat
<1> DEFINE n == Len(s)
           To(f, k) == f = [i \in 0..k |-> IF i = 0 THEN 0 ELSE f[i - 1] + s[i] * Power(Base, i - 1)]
           u[k \in 0..n] == IF k = 0 THEN 0 ELSE u[k - 1] + s[k] * Power(Base, k - 1)
<1>0. n \in Nat /\ \A i \in 1..n : s[i] \in Nat
  BY LenProperties, ElementOfSeq
<1>1. \A k \in Nat : \E f : To(f, k)
  <2> DEFINE T == {k \in Nat : ~ \E f : To(f, k)}
  <2> SUFFICES ASSUME T # {} PROVE FALSE
    OBVIOUS
  <2>1. PICK k \in T : \A j \in T : k <= j
    BY Least
  <2>2. CASE k = 0
    <3> DEFINE f == [i \in 0..0 |-> 0]
    <3>1. f = [i \in 0..0 |-> IF i = 0 THEN 0 ELSE f[i - 1] + s[i] * Power(Base, i - 1)]
      OBVIOUS
    <3> QED BY <2>2, <3>1
  <2>3. CASE k # 0
    <3>0. k \in Nat
      OBVIOUS
    <3>1. k - 1 \in Nat /\ k - 1 \notin T
      <4> HIDE DEF T
      <4> QED BY <2>1, <2>3, <3>0
    <3>2. PICK f : To(f, k - 1)
      BY <3>1
    <3> DEFINE g == [i \in 0..k |-> IF i = k THEN f[k - 1] + s[k] * Power(Base, k - 1) ELSE f[i]]
    <3>3. ASSUME NEW i \in 0..k
          PROVE  g[i] = IF i = 0 THEN 0 ELSE g[i - 1] + s[i] * Power(Base, i - 1)
      <4>1. k \in Nat
        OBVIOUS
      <4>2. CASE i = k
        BY <2>3, <4>1, <4>2
      <4>3. CASE i # k
        <5>1. i \in 0..(k - 1) /\ (i # 0 => i - 1 \in 0..k /\ i - 1 # k)
          BY <4>1, <4>3
        <5>2. f[i] = IF i = 0 THEN 0 ELSE f[i - 1] + s[i] * Power(Base, i - 1)
          BY <3>2, <5>1
        <5> QED BY <4>3, <5>1, <5>2
      <4> QED BY <4>2, <4>3
    <3>4. g = [i \in 0..k |-> IF i = 0 THEN 0 ELSE g[i - 1] + s[i] * Power(Base, i - 1)]
      <4>1. g = [i \in 0..k |-> g[i]]
        OBVIOUS
      <4> HIDE DEF g
      <4> QED BY <3>3, <4>1
    <3> HIDE DEF g
    <3>5. To(g, k)
      BY <3>4
    <3> QED BY <3>5
  <2> QED BY <2>2, <2>3
<1>2. \E f : To(f, n)
  BY <1>0, <1>1
<1>3. u = [i \in 0..n |-> IF i = 0 THEN 0 ELSE u[i - 1] + s[i] * Power(Base, i - 1)]
  BY <1>2
<1>4. Unsigned(s) = u[n]
  BY DEF Unsigned
<1> HIDE DEF u
<1>5. \A k \in 0..n : u[k] \in Nat
  <2> DEFINE T == {k \in 0..n : u[k] \notin Nat}
  <2> SUFFICES ASSUME T # {} PROVE FALSE
    OBVIOUS
  <2>1. T \subseteq Nat
    OBVIOUS
  <2>2. PICK k \in T : \A j \in T : k <= j
    BY <2>1, Least
  <2>3. CASE k = 0
    BY <1>3, <2>3
  <2>4. CASE k # 0
    <3>1. k - 1 \in 0..n /\ k \in 1..n /\ k - 1 \notin T /\ k - 1 \in Nat
      BY <1>0, <2>2, <2>4
    <3>2. u[k - 1] \in Nat /\ s[k] \in Nat /\ Power(Base, k - 1) \in Nat
      BY <1>0, <3>1, BaseFacts
    <3>3. u[k] = u[k - 1] + s[k] * Power(Base, k - 1)
      BY <1>3, <2>4
    <3> DEFINE a == u[k - 1]
               b == s[k]
               c == Power(Base, k - 1)
    <3>4. a + b * c \in Nat
      <4>1. a \in Nat /\ b \in Nat /\ c \in Nat
        BY <3>2
      <4> HIDE DEF a, b, c
      <4> QED BY <4>1
    <3> QED BY <3>3, <3>4
  <2> QED BY <2>3, <2>4
<1> QED BY <1>0, <1>4, <1>5

LEMMA AtType ==
  ASSUME Prefixed, NEW p \in Nat, NEW n \in Nat, p + n <= Len(packet)
  PROVE  At(p, n) \in Seq(Nat)
<1> DEFINE a == p + 1
           b == p + n
<1>1. Len(packet) \in Nat /\ packet \in Seq(Nat)
  BY LenProperties DEF Prefixed
<1>2. a \in Int /\ b \in Int /\ \A i \in a..b : packet[i] \in Nat
  BY <1>1, ElementOfSeq
<1> HIDE DEF a, b
<1>3. SubSeq(packet, a, b) \in Seq(Nat)
  BY <1>2, SubSeqProperties
<1> QED BY <1>3 DEF At, a, b

LEMMA ReadSizeType ==
  ASSUME Prefixed, NEW p \in Nat, p <= Len(packet)
  PROVE  LET r == ReadSizeEx(p) IN r.next \in Nat /\ (r.value # <<>> => r.value[1] \in Nat)
<1> DEFINE r == ReadSizeEx(p)
<1>1. Len(packet) \in Nat
  BY LenProperties DEF Prefixed
<1>2. Has(p, 1) => p + 1 <= Len(packet)
  BY <1>1, HasSmall
<1>3. CASE ~Has(p, 1)
  BY <1>3 DEF ReadSizeEx, Gives, Nothing
<1>4. CASE Has(p, 1) /\ At(p, 1) # <<Base - 1>>
  <2>1. r = Gives(At(p, 1)[1], p + 1)
    BY <1>4 DEF ReadSizeEx
  <2>2. At(p, 1)[1] \in Nat
    <3>1. At(p, 1) = <<packet[p + 1]>> /\ packet[p + 1] \in Nat
      BY <1>2, <1>4, AtByte
    <3> QED BY <3>1
  <2> QED BY <2>1, <2>2 DEF Gives, Nothing
<1>5. CASE Has(p, 1) /\ At(p, 1) = <<Base - 1>> /\ Has(p + 1, IntBytes)
  <2>1. r = Gives(Unsigned(At(p + 1, IntBytes)), p + 1 + IntBytes)
    BY <1>5, Zenon DEF ReadSizeEx
  <2>2. p + 1 + IntBytes <= Len(packet) /\ IntBytes \in Nat /\ p + 1 \in Nat /\ p + 1 + IntBytes \in Nat
    BY <1>1, <1>2, <1>5, HasSmall DEF IntBytes
  <2>3. At(p + 1, IntBytes) \in Seq(Nat)
    BY <2>2, AtType
  <2>4. Unsigned(At(p + 1, IntBytes)) \in Nat
    BY <2>3, UnsignedType
  <2> QED BY <2>1, <2>2, <2>4 DEF Gives, Nothing
<1>6. CASE Has(p, 1) /\ At(p, 1) = <<Base - 1>> /\ ~Has(p + 1, IntBytes)
  <2>1. r = Nothing(p + 1)
    BY <1>6, Zenon DEF ReadSizeEx
  <2> QED BY <2>1 DEF Gives, Nothing
<1> QED BY <1>3, <1>4, <1>5, <1>6

LEMMA ReadNext ==
  ASSUME Prefixed, NEW p \in Nat, p <= Len(packet)
  PROVE  /\ \A type : \A k \in Nat : ReadNumber(type, k, p).next \in Nat
         /\ \A type : \A w \in Nat : ReadText(type, w, p).next \in Nat
         /\ \A r \in ReadVarInteger(p) : r.next \in Nat
         /\ ReadStringTableItem(p).next \in Nat
<1> DEFINE size == ReadSizeEx(p)
           n == size.value[1]
<1>1. size.next \in Nat /\ (size.value # <<>> => n \in Nat)
  BY ReadSizeType
<1> HIDE DEF size
<1>2. ASSUME NEW type, NEW k \in Nat PROVE ReadNumber(type, k, p).next \in Nat
  BY DEF ReadNumber, Gives, Nothing
<1>3. ASSUME NEW type, NEW w \in Nat PROVE ReadText(type, w, p).next \in Nat
  <2> DEFINE r == ReadText(type, w, p)
  <2>1. \/ r = size
        \/ r = Nothing(size.next)
        \/ size.value # <<>> /\ \E v : r = Gives(v, size.next + n * w)
    BY DEF ReadText, size
  <2>2. size.value # <<>> => size.next + n * w \in Nat
    <3> SUFFICES ASSUME size.value # <<>> PROVE size.next + n * w \in Nat
      OBVIOUS
    <3>1. n \in Nat /\ size.next \in Nat
      BY <1>1
    <3> DEFINE a == size.next
    <3> HIDE DEF n, a
    <3>2. a \in Nat
      BY <3>1 DEF a
    <3>3. a + n * w \in Nat
      BY <3>1, <3>2
    <3> QED BY <3>3 DEF a
  <2> HIDE DEF r, n
  <2> QED BY <1>1, <2>1, <2>2 DEF r, Gives, Nothing
<1>4. ASSUME NEW r \in ReadVarInteger(p) PROVE r.next \in Nat
  <2>1. CASE size.value = <<>>
    BY <1>1, <2>1 DEF ReadVarInteger, size
  <2>2. CASE size.value # <<>>
    <3>1. n \in Nat /\ LongBytes \in Nat /\ size.next \in Nat
      BY <1>1, <2>2, BaseFacts
    <3>2. \/ r = Nothing(size.next) \/ \E v : r = Gives(v, size.next)
          \/ \E v : r = Gives(v, size.next + n)
      <4> DEFINE sn == size.next
      <4>0. n \in Nat /\ LongBytes \in Nat
        BY <3>1
      <4>a. size.value # <<>> /\ ReadSizeEx(p) = size
        BY <2>2 DEF size
      <4>1. CASE n > LongBytes
        BY <4>0, <4>1, <4>a DEF ReadVarInteger
      <4>2. CASE n = 0
        BY <4>0, <4>2, <4>a DEF ReadVarInteger
      <4>3. CASE n # 0 /\ ~(n > LongBytes) /\ ~Has(size.next, n)
        BY <4>0, <4>3, <4>a DEF ReadVarInteger
      <4>4. CASE n # 0 /\ ~(n > LongBytes) /\ Has(size.next, n)
        <5>1. ReadVarInteger(p) = {Gives(Object("Long", <<v>>, <<>>), size.next + n) : v \in VarIntegerValues(At(size.next, n))}
          <6>1. n = size.value[1] /\ n \in 1..LongBytes /\ n # 0 /\ ~(n > LongBytes) /\ Has(size.next, n)
            BY <4>0, <4>4
          <6> HIDE DEF n
          <6> QED BY <4>a, <6>1 DEF ReadVarInteger
        <5>2. r \in {Gives(Object("Long", <<v>>, <<>>), size.next + n) : v \in VarIntegerValues(At(size.next, n))}
          BY <5>1
        <5> QED BY <5>2
      <4> QED BY <4>1, <4>2, <4>3, <4>4
    <3>3. size.next + n \in Nat
      BY <3>1
    <3> QED BY <3>1, <3>2, <3>3 DEF Gives, Nothing
  <2> QED BY <2>1, <2>2
<1>5. ReadStringTableItem(p).next \in Nat
  BY DEF ReadStringTableItem, Gives, Nothing
<1> QED BY <1>2, <1>3, <1>4, <1>5

(* Whatever is read, the index behind it is a natural. *)
LEMMA LeafNext ==
  ASSUME Prefixed, NEW p \in Nat, p <= Len(packet), NEW op \in LeafOps, NEW r \in Leaf(op, p)
  PROVE  r.next \in Nat
<1>0. LongBytes \in Nat /\ IntBytes \in Nat /\ 1 \in Nat /\ 2 \in Nat
  BY BaseFacts DEF IntBytes
<1>1. CASE op \in SingletonOps
  <2>1. op \notin {Op.LongLong, Op.Long, Op.SignedShort, Op.Byte, Op.Float, Op.CharString, Op.StringTableItem,
                   Op.Buffer, Op.Stream, Op.UnicodeUTF8String, Op.UnicodeString, Op.UnicodeCharString, Op.VarInteger}
    BY <1>1 DEF SingletonOps, Op
  <2>2. Leaf(op, p) = {Gives(Singleton(op), p)}
    BY <1>1, <2>1 DEF Leaf
  <2> QED BY <2>2 DEF Gives, Nothing
<1>2. CASE op \in {Op.LongLong, Op.Long, Op.SignedShort, Op.Byte, Op.Float}
  <2>1. Leaf(op, p) \in {{ReadNumber("Long", LongBytes, p)}, {ReadNumber("Int", IntBytes, p)},
                         {ReadNumber("Int", 2, p)}, {ReadNumber("Int", 1, p)}, {ReadNumber("Real", LongBytes, p)}}
    BY <1>2 DEF Leaf, SingletonOps, Op
  <2>2. \A type : \A k \in Nat : ReadNumber(type, k, p).next \in Nat
    BY ReadNext
  <2> QED BY <1>0, <2>1, <2>2
<1>3. CASE op = Op.CharString
  <2>1. Leaf(op, p) = {IF Has(p, 1) THEN Gives(Object("String", At(p, 1), <<>>), p + 1) ELSE Nothing(p)}
    BY <1>3 DEF Leaf, SingletonOps, Op
  <2> QED BY <2>1 DEF Gives, Nothing
<1>4. CASE op = Op.StringTableItem
  <2>1. Leaf(op, p) = {ReadStringTableItem(p)}
    BY <1>4 DEF Leaf, SingletonOps, Op
  <2> QED BY <2>1, ReadNext
<1>5. CASE op \in {Op.Buffer, Op.Stream, Op.UnicodeUTF8String, Op.UnicodeString}
  <2>1. Leaf(op, p) \in {{ReadText("String", 1, p)}, {ReadText("SubStream", 1, p)}, {ReadText("Unicode", 1, p)},
                         {ReadText("Unicode", 2, p)}}
    BY <1>5 DEF Leaf, SingletonOps, Op
  <2>2. \A type : \A w \in Nat : ReadText(type, w, p).next \in Nat
    BY ReadNext
  <2> QED BY <1>0, <2>1, <2>2
<1>6. CASE op = Op.UnicodeCharString
  <2>1. Leaf(op, p) = {IF Has(p, 2) THEN Gives(Object("Unicode", <<Unsigned(At(p, 2))>>, <<>>), p + 2) ELSE Nothing(p)}
    BY <1>6 DEF Leaf, SingletonOps, Op
  <2> QED BY <2>1 DEF Gives, Nothing
<1>7. CASE op = Op.VarInteger
  <2>1. Leaf(op, p) = ReadVarInteger(p)
    BY <1>7 DEF Leaf, SingletonOps, Op
  <2> QED BY <2>1, ReadNext
<1> QED BY <1>1, <1>2, <1>3, <1>4, <1>5, <1>6, <1>7 DEF LeafOps
-----------------------------------------------------------------------------
LEMMA NotEmpty ==
  ASSUME NEW op \in Nat, NEW t \in Seq(Nat), NEW b, b = <<op>> \/ b = <<op>> \o t
  PROVE  b # <<>>
<1>1. CASE b = <<op>>
  BY <1>1
<1>2. CASE b = <<op>> \o t
  BY <1>2, FirstAndRest
<1> QED BY <1>1, <1>2

(* Every object is at least one byte. *)
LEMMA EncodesSome ==
  ASSUME NEW b \in Seq(Nat), NEW o, NEW flag \in {0, SharedFlag}, Encodes(b, o, flag)
  PROVE  Len(b) \in Nat /\ Len(b) > 0
<1>0. <<>> \in Seq(Nat)
  OBVIOUS
<1>1. SUFFICES b # <<>>
  BY EmptySeq, LenProperties
<1>2. CASE IsLone(b, o)
  <2>1. PICK op \in SingletonOps : b = <<op>>
    BY <1>2 DEF IsLone
  <2>2. op \in Nat
    BY OpsAre DEF LeafOps
  <2> QED BY <1>0, <2>1, <2>2, NotEmpty
<1>3. ASSUME NEW op \in Nat, NEW k \in Nat, NEW type, Numeral(b, o, op, k, type) PROVE b # <<>>
  <2>1. PICK n \in Int : b = <<op>> \o Digits(n, k)
    BY <1>3 DEF Numeral
  <2>2. Digits(n, k) \in Seq(Nat)
    BY DigitsAreBytes
  <2> QED BY <2>1, <2>2, NotEmpty
<1>4. CASE IsNumeral(b, o)
  BY <1>3, <1>4, BaseFacts DEF IsNumeral, IntBytes, Op
<1>5. CASE IsVar(b, o)
  <2>1. PICK n \in Nat, size \in 0..LongBytes : b = <<Op.VarInteger>> \o (<<size>> \o Digits(n, size))
    BY <1>5 DEF IsVar
  <2>2. Op.VarInteger \in Nat /\ n \in Int /\ size \in Nat
    BY BaseFacts DEF Op
  <2>3. Digits(n, size) \in Seq(Nat) /\ <<size>> \in Seq(Nat)
    BY <2>2, DigitsAreBytes, OneByte
  <2>4. <<size>> \o Digits(n, size) \in Seq(Nat)
    BY <2>3, ConcatProperties
  <2> QED BY <2>1, <2>2, <2>4, NotEmpty
<1>6. CASE IsChar(b, o)
  <2>1. PICK c \in Nat : b = <<Op.CharString>> \o <<c>>
    BY <1>6 DEF IsChar
  <2>2. Op.CharString \in Nat /\ <<c>> \in Seq(Nat)
    BY DEF Op
  <2> QED BY <2>1, <2>2, NotEmpty
<1>7. CASE IsItem(b, o)
  <2>1. PICK i \in 1..Len(Table) : b = <<Op.StringTableItem>> \o <<i>>
    BY <1>7 DEF IsItem
  <2>2. Op.StringTableItem \in Nat /\ <<i>> \in Seq(Nat)
    BY DEF Op
  <2> QED BY <2>1, <2>2, NotEmpty
<1>8. ASSUME NEW op \in Nat, NEW type, Lettered(b, o, op, type) PROVE b # <<>>
  <2>1. b = <<op>> \o (SizeBytes(Len(o.num)) \o o.num) /\ o.num \in Seq(0..(Base - 1))
    BY <1>8 DEF Lettered
  <2>2. o.num \in Seq(Nat) /\ Len(o.num) \in Nat
    <3>1. 0..(Base - 1) \subseteq Nat
      BY BaseFacts
    <3> QED BY <2>1, <3>1, SeqMonotonic, LenProperties
  <2>3. SizeBytes(Len(o.num)) \o o.num \in Seq(Nat)
    BY <2>2, SizeIs, ConcatProperties
  <2> QED BY <2>1, <2>3, NotEmpty
<1>9. CASE IsLettered(b, o)
  BY <1>8, <1>9 DEF IsLettered, Op
<1>10. CASE IsWide(b, o)
  <2>1. b = <<Op.UnicodeString>> \o (SizeBytes(Len(o.num)) \o Wide(o.num)) /\ o.num \in Seq(0..(Base * Base - 1))
    BY <1>10 DEF IsWide
  <2>2. Wide(o.num) \in Seq(Nat) /\ Len(o.num) \in Nat /\ Op.UnicodeString \in Nat
    BY <2>1, WideIs DEF Op
  <2>3. SizeBytes(Len(o.num)) \o Wide(o.num) \in Seq(Nat)
    BY <2>2, SizeIs, ConcatProperties
  <2> QED BY <2>1, <2>2, <2>3, NotEmpty
<1>11. CASE IsWideChar(b, o)
  <2>1. PICK c \in 0..(Base * Base - 1) : b = <<Op.UnicodeCharString>> \o Digits(c, 2)
    BY <1>11 DEF IsWideChar
  <2>2. Op.UnicodeCharString \in Nat /\ Digits(c, 2) \in Seq(Nat)
    BY DigitsAreBytes DEF Op
  <2> QED BY <2>1, <2>2, NotEmpty
<1>12. ASSUME NEW fl \in {0, flag}, IsFixed(b, o, fl) \/ IsCounted(b, o, fl) PROVE b # <<>>
  <2>0. fl \in Nat
    BY DEF SharedFlag
  <2>1. CASE IsFixed(b, o, fl)
    <3>1. PICK op \in FixedOps : b = <<op + fl>>
      BY <2>1 DEF IsFixed
    <3>2. op + fl \in Nat
      <4>1. op \in Nat
        BY OpsAre
      <4> QED BY <2>0, <4>1
    <3> QED BY <1>0, <3>1, <3>2, NotEmpty
  <2>2. CASE IsCounted(b, o, fl)
    <3>1. PICK op \in CountedOps, n \in Nat : b = <<op + fl>> \o SizeBytes(n)
      BY <2>2 DEF IsCounted
    <3>2. op + fl \in Nat /\ SizeBytes(n) \in Seq(Nat)
      <4>1. op \in Nat
        BY OpsAre
      <4> QED BY <2>0, <4>1, SizeIs
    <3> QED BY <3>1, <3>2, NotEmpty
  <2> QED BY <1>12, <2>1, <2>2
<1> QED BY <1>2, <1>4, <1>5, <1>6, <1>7, <1>9, <1>10, <1>11, <1>12 DEF Encodes, LeafBytes, ContainerBytes
-----------------------------------------------------------------------------
(* The calls that marshal still has to make for the objects behind it. *)
LEMMA NestedOf ==
  ASSUME NEW s \in Seq(Objects)
  PROVE  IsSeq(NestedAll(s)) /\ Len(NestedAll(s)) = Len(s) /\ \A i \in 1..Len(s) : NestedAll(s)[i] = Nested(s[i])
<1>1. Len(s) \in Nat
  BY LenProperties
<1> DEFINE X == {Nested(s[i]) : i \in 1..Len(s)}
<1>2. NestedAll(s) \in Seq(X) /\ Len(NestedAll(s)) = Len(s) /\ \A i \in 1..Len(s) : NestedAll(s)[i] = Nested(s[i])
  BY <1>1 DEF NestedAll
<1> HIDE DEF X
<1> QED BY <1>2, SeqIsSeq

LEMMA NestedConcat ==
  ASSUME NEW s \in Seq(Objects), NEW t \in Seq(Objects)
  PROVE  NestedAll(s \o t) = NestedAll(s) \o NestedAll(t)
<1> DEFINE a == NestedAll(s)
           b == NestedAll(t)
           u == s \o t
           c == NestedAll(u)
<1>1. u \in Seq(Objects) /\ Len(u) = Len(s) + Len(t) /\ Len(s) \in Nat /\ Len(t) \in Nat
      /\ \A i \in 1..(Len(s) + Len(t)) : u[i] = IF i <= Len(s) THEN s[i] ELSE t[i - Len(s)]
  BY ConcatProperties, LenProperties
<1> HIDE DEF u
<1>2. /\ IsSeq(a) /\ Len(a) = Len(s) /\ \A i \in 1..Len(s) : a[i] = Nested(s[i])
      /\ IsSeq(b) /\ Len(b) = Len(t) /\ \A i \in 1..Len(t) : b[i] = Nested(t[i])
      /\ IsSeq(c) /\ Len(c) = Len(u) /\ \A i \in 1..Len(u) : c[i] = Nested(u[i])
  BY <1>1, NestedOf
<1> HIDE DEF a, b, c
<1>3. /\ IsSeq(a \o b) /\ Len(a \o b) = Len(a) + Len(b)
      /\ \A i \in 1..Len(a \o b) : (a \o b)[i] = IF i <= Len(a) THEN a[i] ELSE b[i - Len(a)]
  BY <1>2, ConcatIs
<1>4. ASSUME NEW i \in 1..Len(c) PROVE c[i] = (a \o b)[i]
  <2>1. CASE i <= Len(s)
    BY <1>1, <1>2, <1>3, <2>1
  <2>2. CASE ~(i <= Len(s))
    <3>1. i - Len(s) \in 1..Len(t)
      BY <1>1, <1>2, <2>2
    <3> QED BY <1>1, <1>2, <1>3, <2>2, <3>1
  <2> QED BY <2>1, <2>2
<1>5. Len(c) = Len(a \o b)
  BY <1>1, <1>2, <1>3
<1>6. c = a \o b
  BY <1>2, <1>3, <1>4, <1>5, SameSeq
<1> QED BY <1>6 DEF a, b, c, u

(* Of calls that are not empty, the first and those behind it. *)
LEMMA CallsAre ==
  ASSUME NEW w, IsWriting(w), NEW R \in Seq(Objects)
  PROVE  LET c == w \o NestedAll(R) IN
         /\ w # <<>> => c # <<>> /\ c[1] = w[1] /\ Tail(c) = Tail(w) \o NestedAll(R)
         /\ w = <<>> => c = NestedAll(R)
         /\ w = <<>> /\ R # <<>> => c # <<>> /\ c[1] = Nested(R[1]) /\ Tail(c) = NestedAll(Tail(R))
         /\ w = <<>> /\ R = <<>> => c = <<>>
<1> DEFINE n == NestedAll(R)
           c == w \o n
           X == {n[i] : i \in 1..Len(n)}
           Y == Calls \cup X
<1>1. n \in Seq(X) /\ w \in Seq(Calls) /\ IsSeq(n)
  BY NestedOf DEF IsSeq, IsWriting
<1> HIDE DEF n, X
<1>2. n \in Seq(Y) /\ w \in Seq(Y)
  BY <1>1, SeqMonotonic
<1> HIDE DEF Y
<1>3. w = <<>> => c = n
  BY <1>2, ConcatEmptySeq
<1>4. ASSUME w # <<>> PROVE c # <<>> /\ c[1] = w[1] /\ Tail(c) = Tail(w) \o n
  <2>1. w[1] \in Y /\ w = <<w[1]>> \o Tail(w) /\ Tail(w) \in Seq(Y)
    BY <1>2, <1>4, RestIsTail
  <2> DEFINE a == w[1]
             t == Tail(w)
  <2>2. <<a>> \in Seq(Y)
    BY <2>1
  <2> HIDE DEF a, t
  <2>3. (<<a>> \o t) \o n = <<a>> \o (t \o n)
    BY <1>2, <2>1, <2>2, ConcatAssociative DEF t
  <2>4. t \o n \in Seq(Y)
    BY <1>2, <2>1, ConcatProperties DEF t
  <2>5. c = <<a>> \o (t \o n)
    <3>1. w = <<a>> \o t
      BY <2>1 DEF a, t
    <3> QED BY <2>3, <3>1
  <2>6. a \in Y
    BY <2>1 DEF a
  <2> HIDE DEF c
  <2> DEFINE z == t \o n
  <2> HIDE DEF z
  <2>7. <<a>> \o z # <<>> /\ (<<a>> \o z)[1] = a /\ Tail(<<a>> \o z) = z
    BY <2>4, <2>6, FirstAndRest DEF z
  <2> QED BY <2>5, <2>7 DEF a, t, z
<1>5. ASSUME w = <<>>, R # <<>> PROVE c # <<>> /\ c[1] = Nested(R[1]) /\ Tail(c) = NestedAll(Tail(R))
  <2>1. R[1] \in Objects /\ Tail(R) \in Seq(Objects) /\ Len(R) \in Nat \ {0} /\ Len(Tail(R)) = Len(R) - 1
        /\ \A i \in 1..Len(Tail(R)) : Tail(R)[i] = R[i + 1]
    BY <1>5, RestIsTail, EmptySeq, HeadTailProperties
  <2>2. Len(n) = Len(R) /\ \A i \in 1..Len(R) : n[i] = Nested(R[i])
    BY NestedOf DEF n
  <2>3. n # <<>> /\ n[1] = Nested(R[1])
    BY <2>1, <2>2, EmptySeq, <1>2
  <2>4. Tail(n) \in Seq(Y) /\ Len(Tail(n)) = Len(n) - 1 /\ \A i \in 1..Len(Tail(n)) : Tail(n)[i] = n[i + 1]
    BY <1>2, <2>3, HeadTailProperties
  <2>5. IsSeq(Tail(n))
    BY <2>4, SeqIsSeq
  <2> DEFINE m == NestedAll(Tail(R))
  <2>6. IsSeq(m) /\ Len(m) = Len(Tail(R)) /\ \A i \in 1..Len(Tail(R)) : m[i] = Nested(Tail(R)[i])
    BY <2>1, NestedOf
  <2> HIDE DEF m
  <2>7. \A i \in 1..Len(m) : Tail(n)[i] = m[i]
    BY <2>1, <2>2, <2>4, <2>6
  <2>8. Tail(n) = m
    BY <2>1, <2>2, <2>4, <2>5, <2>6, <2>7, SameSeq
  <2> QED BY <1>3, <1>5, <2>3, <2>8 DEF m
<1>6. w = <<>> /\ R = <<>> => c = <<>>
  <2> SUFFICES ASSUME w = <<>>, R = <<>> PROVE n = <<>>
    BY <1>3
  <2>1. Len(n) = 0
    BY NestedOf, EmptySeq DEF n
  <2> QED BY <1>2, <2>1, EmptySeq
<1> QED BY <1>3, <1>4, <1>5, <1>6 DEF n
-----------------------------------------------------------------------------
(* The marks of what is written: at which index F continues with which objects. *)
FlagOf(ob, sh, o) == IF sh /\ o = ob THEN SharedFlag ELSE 0
Leads(F, M, p, T, ob, sh, cf) ==
  /\ T # <<>>
  /\ \E c \in Writes(T[1], FlagOf(ob, sh, T[1])) :
       /\ Stands(F, p, Bytes(c))
       /\ <<p + Len(Bytes(c)), T[1].kids \o Tail(T)>> \in M
       /\ Confuses(T[1]) => cf
Marks(M, F, R, ob, sh, cf) ==
  /\ M \subseteq Nat \X Seq(Objects) /\ F \in Seq(Nat)
  /\ <<1 + IntBytes, <<ob>>>> \in M
  /\ \A p, T : <<p, T>> \in M => p <= Len(F) /\ (Leads(F, M, p, T, ob, sh, cf) \/ (p = Len(F) /\ T = R))

LEMMA KidsThen ==
  ASSUME NEW T \in Seq(Objects), T # <<>>
  PROVE  /\ T[1] \in Objects /\ Tail(T) \in Seq(Objects) /\ T = <<T[1]>> \o Tail(T)
         /\ T[1].kids \in Seq(Objects) /\ T[1].kids \o Tail(T) \in Seq(Objects)
<1>1. T[1] \in Objects /\ Tail(T) \in Seq(Objects) /\ T = <<T[1]>> \o Tail(T)
  BY RestIsTail
<1>2. T[1].kids \in Seq(Objects)
  BY <1>1, ObjectIs
<1>3. T[1].kids \o Tail(T) \in Seq(Objects)
  BY <1>1, <1>2, ConcatProperties
<1> QED BY <1>1, <1>2, <1>3

LEMMA FlagType ==
  ASSUME NEW ob, NEW sh \in BOOLEAN, NEW o
  PROVE  FlagOf(ob, sh, o) \in {0, SharedFlag}
BY DEF FlagOf

(* Writing the bytes of the first object left makes a mark behind them. *)
LEMMA MarksGrow ==
  ASSUME NEW M, NEW F, NEW R \in Seq(Objects), NEW ob \in Objects, NEW sh \in BOOLEAN, NEW cf \in BOOLEAN,
         Marks(M, F, R, ob, sh, cf), R # <<>>, NEW c \in Writes(R[1], FlagOf(ob, sh, R[1])),
         NEW cg \in BOOLEAN, cf => cg, Confuses(R[1]) => cg
  PROVE  \E N : Marks(N, F \o Bytes(c), R[1].kids \o Tail(R), ob, sh, cg)
<1> DEFINE b == Bytes(c)
           G == F \o b
           S == R[1].kids \o Tail(R)
           q == Len(F) + Len(b)
           N == M \cup {<<q, S>>}
<1>1. R[1] \in Objects /\ S \in Seq(Objects)
  BY KidsThen
<1>2. b \in Seq(Nat)
  <2>1. FlagOf(ob, sh, R[1]) \in {0, SharedFlag}
    BY FlagType
  <2>2. IsWriting(c)
    BY <1>1, <2>1, WritesEncode
  <2> QED BY <2>2, BytesType
<1>3. F \in Seq(Nat) /\ M \subseteq Nat \X Seq(Objects)
  BY DEF Marks
<1>4. G \in Seq(Nat) /\ Len(G) = q /\ q \in Nat /\ Len(F) \in Nat /\ Len(b) \in Nat
  BY <1>2, <1>3, ConcatProperties, LenProperties
<1>5. Stands(G, Len(F), b)
  BY <1>2, <1>3, StandsLast
<1> HIDE DEF b, G, S, q
<1>6. N \subseteq Nat \X Seq(Objects) /\ <<1 + IntBytes, <<ob>>>> \in N
  BY <1>1, <1>3, <1>4 DEF Marks
<1>7. ASSUME NEW p, NEW T, <<p, T>> \in N
      PROVE  p <= Len(G) /\ (Leads(G, N, p, T, ob, sh, cg) \/ (p = Len(G) /\ T = S))
  <2>1. CASE <<p, T>> \in M
    <3>0. p \in Nat /\ T \in Seq(Objects) /\ p <= Len(F)
      BY <1>3, <2>1 DEF Marks
    <3>1. p <= Len(G)
      BY <1>4, <3>0 DEF q
    <3>2. ASSUME Leads(F, M, p, T, ob, sh, cf) PROVE Leads(G, N, p, T, ob, sh, cg)
      <4>1. PICK e \in Writes(T[1], FlagOf(ob, sh, T[1])) :
               /\ Stands(F, p, Bytes(e))
               /\ <<p + Len(Bytes(e)), T[1].kids \o Tail(T)>> \in M
               /\ Confuses(T[1]) => cf
        BY <3>2, Zenon DEF Leads
      <4>2. T # <<>> /\ T[1] \in Objects
        BY <3>0, <3>2, KidsThen DEF Leads
      <4>3. Bytes(e) \in Seq(Nat)
        BY <4>2, FlagType, WritesEncode, BytesType
      <4>4. Stands(G, p, Bytes(e))
        BY <1>2, <1>3, <3>0, <4>1, <4>3, StandsLonger DEF G
      <4>5. Leads(G, N, p, T, ob, sh, cg)
        BY <4>1, <4>2, <4>4, Zenon DEF Leads
      <4> QED BY <4>5
    <3>3. ASSUME p = Len(F), T = R PROVE Leads(G, N, p, T, ob, sh, cg)
      <4>1. <<p + Len(b), T[1].kids \o Tail(T)>> \in N
        BY <3>3 DEF q, S
      <4>2. Leads(G, N, p, T, ob, sh, cg)
        BY <1>5, <3>3, <4>1, Zenon DEF Leads, b
      <4> QED BY <4>2
    <3>4. Leads(F, M, p, T, ob, sh, cf) \/ (p = Len(F) /\ T = R)
      BY <2>1, Zenon DEF Marks
    <3>5. Leads(G, N, p, T, ob, sh, cg)
      BY <3>2, <3>3, <3>4
    <3> QED BY <3>1, <3>5
  <2>2. CASE p = q /\ T = S
    BY <1>4, <2>2
  <2>3. <<p, T>> \in M \/ (p = q /\ T = S)
    BY <1>7, Zenon
  <2> QED BY <2>1, <2>2, <2>3, Zenon
<1> HIDE DEF N
<1>8. Marks(N, G, S, ob, sh, cg)
  BY <1>4, <1>6, <1>7, Zenon DEF Marks
<1> QED BY <1>8 DEF G, S, b

(* What stands at a mark, once everything is written. *)
LEMMA MarkIs ==
  ASSUME NEW M, NEW F, NEW ob \in Objects, NEW sh \in BOOLEAN, NEW cf \in BOOLEAN, Marks(M, F, <<>>, ob, sh, cf),
         NEW p, NEW T, <<p, T>> \in M
  PROVE  p \in Nat /\ T \in Seq(Objects) /\ p <= Len(F) /\ Len(F) \in Nat
BY LenProperties DEF Marks

LEMMA MarkEnds ==
  ASSUME NEW M, NEW F, NEW ob \in Objects, NEW sh \in BOOLEAN, NEW cf \in BOOLEAN, Marks(M, F, <<>>, ob, sh, cf),
         NEW p, <<p, <<>>>> \in M
  PROVE  p = Len(F)
BY DEF Marks, Leads

LeadsBy(b, F, M, p, T, ob, sh, cf) ==
  /\ b \in Seq(Nat) /\ Encodes(b, T[1], FlagOf(ob, sh, T[1])) /\ Stands(F, p, b)
  /\ <<p + Len(b), T[1].kids \o Tail(T)>> \in M /\ Len(b) \in Nat /\ Len(b) > 0
  /\ p + Len(b) <= Len(F) /\ (Confuses(T[1]) => cf)

(* At a mark with objects left stand the bytes of the first, and another mark behind them. *)
LEMMA MarkLeads ==
  ASSUME NEW M, NEW F, NEW ob \in Objects, NEW sh \in BOOLEAN, NEW cf \in BOOLEAN, Marks(M, F, <<>>, ob, sh, cf),
         NEW p, NEW T, <<p, T>> \in M, T # <<>>
  PROVE  \E b : LeadsBy(b, F, M, p, T, ob, sh, cf)
<1>1. p \in Nat /\ T \in Seq(Objects) /\ p <= Len(F) /\ Len(F) \in Nat
  BY MarkIs
<1>2. Leads(F, M, p, T, ob, sh, cf)
  BY DEF Marks
<1>3. PICK c \in Writes(T[1], FlagOf(ob, sh, T[1])) :
         /\ Stands(F, p, Bytes(c))
         /\ <<p + Len(Bytes(c)), T[1].kids \o Tail(T)>> \in M
         /\ Confuses(T[1]) => cf
  BY <1>2, Zenon DEF Leads
<1>4. T[1] \in Objects
  BY <1>1, KidsThen
<1> DEFINE b == Bytes(c)
<1>5. IsWriting(c) /\ Encodes(b, T[1], FlagOf(ob, sh, T[1]))
  BY <1>4, FlagType, WritesEncode
<1>6. b \in Seq(Nat)
  BY <1>5, BytesType
<1> HIDE DEF b
<1>7. Len(b) \in Nat /\ Len(b) > 0
  <2>1. FlagOf(ob, sh, T[1]) \in {0, SharedFlag}
    BY FlagType
  <2> QED BY <1>5, <1>6, <2>1, EncodesSome
<1>8. <<p + Len(b), T[1].kids \o Tail(T)>> \in M /\ Stands(F, p, b)
  BY <1>3 DEF b
<1>9. p + Len(b) <= Len(F)
  BY <1>8 DEF Marks
<1>10. LeadsBy(b, F, M, p, T, ob, sh, cf)
  BY <1>3, <1>5, <1>6, <1>7, <1>8, <1>9, Zenon DEF LeadsBy
<1> QED BY <1>10
-----------------------------------------------------------------------------
(* The frames of load while nothing is missing: for each the object it builds and *)
(* what follows that object; cf says that the objects read may be others.         *)
Entry == [obj : Objects, rest : Seq(Objects)]
Done(fr, E, k) == Len(E[k].obj.kids) - fr[k].left
Remain(fr, E, ob, k) == IF k = 0 THEN <<ob>> ELSE Rest(E[k].obj.kids, Done(fr, E, k)) \o E[k].rest
Follows(fr, E, ob, cf, k) ==
  /\ IsContainer(E[k].obj) /\ fr[k].type = E[k].obj.type /\ ~fr[k].bad
  /\ fr[k].left \in 0..Len(E[k].obj.kids)
  /\ cf \/ fr[k].kids = SubSeq(E[k].obj.kids, 1, Done(fr, E, k))
  /\ Remain(fr, E, ob, k - 1) = <<E[k].obj>> \o E[k].rest
  /\ k < Len(E) => fr[k].left > 0
Stack(fr, E, ob, cf) == E \in Seq(Entry) /\ Len(E) = Len(fr) /\ \A k \in 1..Len(E) : Follows(fr, E, ob, cf, k)

LEMMA EntryIs ==
  ASSUME NEW E \in Seq(Entry), NEW k \in 1..Len(E)
  PROVE  /\ E[k] \in Entry /\ E[k].obj \in Objects /\ E[k].rest \in Seq(Objects)
         /\ E[k].obj.kids \in Seq(Objects) /\ Len(E[k].obj.kids) \in Nat
         /\ E[k].obj = Object(E[k].obj.type, E[k].obj.num, E[k].obj.kids)
<1>1. E[k] \in Entry
  BY ElementOfSeq
<1>2. E[k].obj \in Objects /\ E[k].rest \in Seq(Objects)
  BY <1>1 DEF Entry
<1> QED BY <1>1, <1>2, ObjectIs, LenProperties

(* What a frame still expects, and what is left when it is done or when it is not. *)
LEMMA RemainIs ==
  ASSUME NEW fr, NEW E, NEW ob \in Objects, NEW cf \in BOOLEAN, Stack(fr, E, ob, cf), NEW k \in 1..Len(E)
  PROVE  /\ Remain(fr, E, ob, k) \in Seq(Objects)
         /\ fr[k].left \in Nat /\ Done(fr, E, k) = Len(E[k].obj.kids) - fr[k].left
         /\ Done(fr, E, k) \in 0..Len(E[k].obj.kids)
         /\ Remain(fr, E, ob, k) = Rest(E[k].obj.kids, Done(fr, E, k)) \o E[k].rest
<1> DEFINE kids == E[k].obj.kids
           d == Done(fr, E, k)
           t == E[k].rest
           l == fr[k].left
           r == Remain(fr, E, ob, k)
<1>1. E \in Seq(Entry) /\ k # 0
  BY DEF Stack
<1>2. kids \in Seq(Objects) /\ t \in Seq(Objects) /\ Len(kids) \in Nat
  BY <1>1, EntryIs
<1>3. l \in 0..Len(kids)
  BY <1>1 DEF Stack, Follows
<1>4. d = Len(kids) - l
  BY DEF Done
<1>5. r = Rest(kids, d) \o t
  BY <1>1, Zenon DEF Remain
<1> HIDE DEF kids, d, t, l, r
<1>6. d \in 0..Len(kids) /\ l \in Nat
  BY <1>2, <1>3, <1>4
<1>7. Rest(kids, d) \in Seq(Objects)
  BY <1>2, <1>6, RestIs
<1>8. r \in Seq(Objects)
  BY <1>2, <1>5, <1>7, ConcatProperties
<1> QED BY <1>4, <1>5, <1>6, <1>8, Zenon DEF kids, d, t, l, r

LEMMA RemainDone ==
  ASSUME NEW fr, NEW E, NEW ob \in Objects, NEW cf \in BOOLEAN, Stack(fr, E, ob, cf), NEW k \in 1..Len(E),
         fr[k].left = 0
  PROVE  Remain(fr, E, ob, k) = E[k].rest
<1> DEFINE kids == E[k].obj.kids
           d == Done(fr, E, k)
           t == E[k].rest
           r == Remain(fr, E, ob, k)
<1>1. kids \in Seq(Objects) /\ t \in Seq(Objects) /\ Len(kids) \in Nat
  BY EntryIs DEF Stack
<1>2. d = Len(kids) /\ r = Rest(kids, d) \o t
  <2>1. d = Len(kids) - fr[k].left /\ r = Rest(kids, d) \o t
    BY RemainIs, Zenon
  <2> HIDE DEF d, kids, r
  <2>2. d = Len(kids)
    BY <1>1, <2>1
  <2> QED BY <2>1, <2>2
<1> HIDE DEF d, kids, r, t
<1>3. Rest(kids, Len(kids)) = <<>>
  BY <1>1, RestAll
<1>4. r = t
  BY <1>1, <1>2, <1>3, ConcatEmptySeq
<1> QED BY <1>4 DEF r, t

LEMMA ConcatObjects ==
  ASSUME NEW x \in Seq(Objects), NEW y \in Seq(Objects), NEW t \in Seq(Objects)
  PROVE  (x \o y) \o t = x \o (y \o t)
BY ConcatAssociative

LEMMA RemainMore ==
  ASSUME NEW fr, NEW E, NEW ob \in Objects, NEW cf \in BOOLEAN, Stack(fr, E, ob, cf), NEW k \in 1..Len(E),
         fr[k].left > 0
  PROVE  /\ Done(fr, E, k) \in 0..(Len(E[k].obj.kids) - 1) /\ Remain(fr, E, ob, k) # <<>>
         /\ Begins(Remain(fr, E, ob, k), E[k].obj.kids[Done(fr, E, k) + 1],
                   Rest(E[k].obj.kids, Done(fr, E, k) + 1) \o E[k].rest)
<1> DEFINE kids == E[k].obj.kids
           d == Done(fr, E, k)
           t == E[k].rest
           l == fr[k].left
           r == Remain(fr, E, ob, k)
<1>1. kids \in Seq(Objects) /\ t \in Seq(Objects) /\ Len(kids) \in Nat
  BY EntryIs DEF Stack
<1>2. d = Len(kids) - l /\ r = Rest(kids, d) \o t /\ l \in Nat /\ d \in 0..Len(kids)
  BY RemainIs, Zenon
<1>3. l > 0
  OBVIOUS
<1> HIDE DEF d, kids, r, t, l
<1>4. d \in 0..(Len(kids) - 1) /\ d + 1 \in 0..Len(kids)
  BY <1>1, <1>2, <1>3
<1> DEFINE x == <<kids[d + 1]>>
           y == Rest(kids, d + 1)
<1>5. Rest(kids, d) = x \o y /\ kids[d + 1] \in Objects
  BY <1>1, <1>4, RestNext
<1>6. y \in Seq(Objects) /\ x \in Seq(Objects)
  BY <1>1, <1>4, <1>5, RestIs
<1> HIDE DEF x, y
<1>7. (x \o y) \o t = x \o (y \o t)
  BY <1>1, <1>6, ConcatObjects
<1>8. r = x \o (y \o t)
  BY <1>2, <1>5, <1>7, Zenon
<1> DEFINE z == y \o t
<1>9. z \in Seq(Objects)
  BY <1>1, <1>6, ConcatProperties
<1> HIDE DEF z
<1>10. <<kids[d + 1]>> \o z # <<>>
  BY <1>5, <1>9, FirstAndRest
<1>11. r # <<>> /\ r = <<kids[d + 1]>> \o (Rest(kids, d + 1) \o t)
  BY <1>8, <1>10, Zenon DEF x, y, z
<1> QED BY <1>4, <1>11, Zenon DEF kids, d, t, l, r, Begins
-----------------------------------------------------------------------------
(* The object that the last frame expects, and what follows it. *)
Expects(fr, E, ob, o, t) == Remain(fr, E, ob, Len(E)) = <<o>> \o t /\ (Len(E) = 0 \/ fr[Len(E)].left > 0)
(* The frame f after its call g returned v to frame f. *)
Took(f, g, v) == f.type = g.type /\ f.left = g.left - 1 /\ f.bad = FALSE /\ f.kids = g.kids \o <<v>>

(* All that is left to read for the frames. *)
Awaits(fr, E, ob, cf, U) == Stack(fr, E, ob, cf) /\ Remain(fr, E, ob, Len(E)) = U

(* unmarshal of a container, a container that is complete, and an entry taken. *)
LEMMA StackPush ==
  ASSUME NEW fr, IsSeq(fr), NEW E, NEW ob \in Objects, NEW cf \in BOOLEAN, Stack(fr, E, ob, cf),
         NEW o \in Objects, NEW t \in Seq(Objects), IsContainer(o),
         Expects(fr, E, ob, o, t)
  PROVE  \E G : Awaits(Append(fr, Frame(o.type, Len(o.kids))), G, ob, cf, o.kids \o t)
<1> DEFINE f == Frame(o.type, Len(o.kids))
           gr == Append(fr, f)
           e == [obj |-> o, rest |-> t]
           G == Append(E, e)
           n == Len(E)
<1> Remain(fr, E, ob, Len(E)) = <<o>> \o t /\ (Len(E) = 0 \/ fr[Len(E)].left > 0)
  BY DEF Expects
<1>1. E \in Seq(Entry) /\ n = Len(fr) /\ n \in Nat
  BY LenProperties DEF Stack
<1>2. e \in Entry /\ e.obj = o /\ e.rest = t
  BY DEF Entry
<1>3. f.type = o.type /\ f.left = Len(o.kids) /\ f.bad = FALSE /\ f.kids = <<>>
  BY DEF Frame
<1>4. o.kids \in Seq(Objects) /\ Len(o.kids) \in Nat
  BY ObjectIs, LenProperties
<1> HIDE DEF e, f
<1>5. G \in Seq(Entry) /\ Len(G) = n + 1 /\ G[n + 1] = e /\ \A i \in 1..n : G[i] = E[i]
  BY <1>1, <1>2, AppendProperties
<1>6. Len(gr) = n + 1 /\ gr[n + 1] = f /\ \A i \in 1..n : gr[i] = fr[i]
  BY <1>1, AppendIs
<1> HIDE DEF gr, G
<1>7. \A k \in 0..n : Remain(fr, E, ob, k) = Remain(gr, G, ob, k) /\ (k # 0 => Done(fr, E, k) = Done(gr, G, k))
  <2> TAKE k \in 0..n
  <2>1. k # 0 => k \in 1..n
    BY <1>1
  <2>2. k # 0 => fr[k] = gr[k] /\ E[k] = G[k]
    BY <1>5, <1>6, <2>1
  <2> QED BY <2>2 DEF Remain, Done
<1>8. Done(gr, G, n + 1) = 0
  BY <1>2, <1>3, <1>4, <1>5, <1>6 DEF Done
<1>9. Remain(gr, G, ob, n + 1) = o.kids \o t
  <2>1. Remain(gr, G, ob, n + 1) = Rest(o.kids, 0) \o t
    <3>1. n + 1 # 0 /\ G[n + 1].obj = o /\ G[n + 1].rest = t
      BY <1>1, <1>2, <1>5
    <3> QED BY <1>8, <3>1, Zenon DEF Remain
  <2>2. Rest(o.kids, 0) = o.kids
    BY <1>4, RestAll
  <2> QED BY <2>1, <2>2
<1>10. ASSUME NEW k \in 1..Len(G) PROVE Follows(gr, G, ob, cf, k)
  <2>1. CASE k \in 1..n
    <3>1. Follows(fr, E, ob, cf, k)
      BY <2>1 DEF Stack
    <3>2. gr[k] = fr[k] /\ G[k] = E[k]
      BY <1>5, <1>6, <2>1
    <3>3. Remain(gr, G, ob, k - 1) = Remain(fr, E, ob, k - 1) /\ Done(gr, G, k) = Done(fr, E, k)
      <4>1. k - 1 \in 0..n /\ k \in 0..n /\ k # 0
        BY <1>1, <2>1
      <4> QED BY <1>7, <4>1, Zenon
    <3>4. fr[k].left > 0
      <4>1. k = n \/ k < n
        BY <1>1, <2>1
      <4> QED BY <3>1, <4>1, <1>1, <2>1 DEF Follows
    <3> QED BY <3>1, <3>2, <3>3, <3>4 DEF Follows
  <2>2. CASE k = n + 1
    <3>1. Remain(gr, G, ob, k - 1) = <<o>> \o t
      <4>1. k - 1 = n /\ n \in 0..n
        BY <1>1, <2>2
      <4> QED BY <1>7, <4>1
    <3>2. SubSeq(o.kids, 1, 0) = <<>>
      BY <1>4, SubSeqEmpty
    <3>3. G[k] = e /\ gr[k] = f /\ Done(gr, G, k) = 0 /\ ~(k < Len(G))
      BY <1>1, <1>5, <1>6, <1>8, <2>2
    <3>4. Len(o.kids) \in 0..Len(o.kids)
      BY <1>4
    <3>5. IsContainer(e.obj)
      BY <1>2
    <3> QED BY <1>2, <1>3, <3>1, <3>2, <3>3, <3>4, <3>5 DEF Follows
  <2>3. k \in 1..n \/ k = n + 1
    BY <1>1, <1>5
  <2> QED BY <2>1, <2>2, <2>3
<1>11. Stack(gr, G, ob, cf)
  BY <1>5, <1>6, <1>10 DEF Stack
<1>12. Len(G) = n + 1
  BY <1>5
<1>13. Awaits(gr, G, ob, cf, o.kids \o t)
  BY <1>9, <1>11, <1>12 DEF Awaits
<1> QED BY <1>13, Zenon DEF gr, f

Popped(fr) == SubSeq(fr, 1, Len(fr) - 1)

LEMMA StackPop ==
  ASSUME NEW fr, IsSeq(fr), NEW E, NEW ob \in Objects, NEW cf \in BOOLEAN, Stack(fr, E, ob, cf),
         fr # <<>>, fr[Len(fr)].left = 0,
         NEW gr, gr = Popped(fr), NEW o, o = E[Len(E)].obj
  PROVE  /\ o \in Objects
         /\ cf \/ Object(fr[Len(fr)].type, <<>>, fr[Len(fr)].kids) = o
         /\ \E G : Stack(gr, G, ob, cf) /\ Expects(gr, G, ob, o, Remain(fr, E, ob, Len(E)))
<1> DEFINE G == Popped(E)
           n == Len(E)
           kids == o.kids
<1>1. E \in Seq(Entry) /\ n = Len(fr) /\ n \in Nat \ {0}
  <2>1. Len(fr) \in Nat \ {0}
    BY PopIs
  <2> QED BY <2>1 DEF Stack
<1>2. n \in 1..n /\ Follows(fr, E, ob, cf, n) /\ fr[n].left = 0
  BY <1>1 DEF Stack
<1>3. o \in Objects /\ kids \in Seq(Objects) /\ Len(kids) \in Nat /\ o = Object(o.type, o.num, kids)
  BY <1>1, <1>2, EntryIs
<1>4. cf \/ Object(fr[n].type, <<>>, fr[n].kids) = o
  <2>1. Done(fr, E, n) = Len(kids)
    BY <1>2, <1>3 DEF Done
  <2>2. SubSeq(kids, 1, Len(kids)) = kids
    BY <1>3, SubSeqFull
  <2>3. fr[n].type = o.type /\ o.num = <<>>
    BY <1>2 DEF Follows, IsContainer
  <2>4. cf \/ fr[n].kids = kids
    BY <1>2, <2>1, <2>2 DEF Follows
  <2> HIDE DEF kids
  <2> QED BY <1>3, <2>3, <2>4
<1>5. Len(gr) = n - 1 /\ \A i \in 1..(n - 1) : gr[i] = fr[i]
  BY <1>1, PopIs DEF Popped
<1>6. G \in Seq(Entry) /\ Len(G) = n - 1 /\ \A i \in 1..(n - 1) : G[i] = E[i]
  <2>1. IsSeq(E) /\ E # <<>>
    BY <1>1, SeqIsSeq, EmptySeq
  <2>2. Len(G) = n - 1 /\ \A i \in 1..(n - 1) : G[i] = E[i]
    BY <2>1, PopIs DEF Popped
  <2> DEFINE m == n - 1
  <2>3. 1 \in Int /\ m \in Int /\ \A i \in 1..m : E[i] \in Entry
    BY <1>1, ElementOfSeq
  <2> HIDE DEF m
  <2>4. SubSeq(E, 1, m) \in Seq(Entry)
    BY <2>3, SubSeqProperties
  <2> QED BY <2>2, <2>4 DEF m, Popped
<1> HIDE DEF G
<1>7. ASSUME NEW k \in 0..(n - 1)
      PROVE  Remain(gr, G, ob, k) = Remain(fr, E, ob, k) /\ (k # 0 => Done(gr, G, k) = Done(fr, E, k))
  <2>1. k # 0 => k \in 1..(n - 1)
    BY <1>1
  <2>2. k # 0 => gr[k] = fr[k] /\ G[k] = E[k]
    BY <1>5, <1>6, <2>1
  <2> QED BY <2>2 DEF Remain, Done
<1>8. ASSUME NEW k \in 1..Len(G) PROVE Follows(gr, G, ob, cf, k) /\ gr[k].left > 0
  <2>1. k \in 1..n /\ k \in 1..(n - 1) /\ k - 1 \in 0..(n - 1) /\ k \in 0..(n - 1) /\ k # 0 /\ k < n
    BY <1>1, <1>6
  <2>2. Follows(fr, E, ob, cf, k)
    BY <2>1 DEF Stack
  <2>3. gr[k] = fr[k] /\ G[k] = E[k]
    BY <1>5, <1>6, <2>1
  <2>4. Remain(gr, G, ob, k - 1) = Remain(fr, E, ob, k - 1) /\ Done(gr, G, k) = Done(fr, E, k)
    BY <1>7, <2>1, Zenon
  <2>5. fr[k].left > 0
    BY <2>1, <2>2 DEF Follows
  <2> QED BY <2>2, <2>3, <2>4, <2>5 DEF Follows
<1>9. Stack(gr, G, ob, cf)
  BY <1>5, <1>6, <1>8 DEF Stack
<1>10. Remain(gr, G, ob, Len(G)) = <<o>> \o Remain(fr, E, ob, n)
  <2>1. n - 1 \in 0..(n - 1)
    BY <1>1
  <2>2. Remain(gr, G, ob, n - 1) = Remain(fr, E, ob, n - 1)
    BY <1>7, <2>1, Zenon
  <2>3. Remain(fr, E, ob, n - 1) = <<o>> \o E[n].rest
    BY <1>2 DEF Follows
  <2>4. Remain(fr, E, ob, n) = E[n].rest
    <3>1. ASSUME NEW k \in 1..Len(E), fr[k].left = 0 PROVE Remain(fr, E, ob, k) = E[k].rest
      BY <3>1, RemainDone
    <3> QED BY <1>2, <3>1
  <2> QED BY <1>6, <2>2, <2>3, <2>4
<1>11. Len(G) = 0 \/ gr[Len(G)].left > 0
  <2>1. Len(G) = 0 \/ Len(G) \in 1..Len(G)
    BY <1>1, <1>6
  <2> QED BY <1>8, <2>1
<1>12. n = Len(fr)
  BY <1>1
<1>13. Expects(gr, G, ob, o, Remain(fr, E, ob, Len(E)))
  BY <1>10, <1>11 DEF Expects
<1> QED BY <1>3, <1>4, <1>9, <1>12, <1>13, Zenon

LEMMA StackTake ==
  ASSUME NEW fr, IsSeq(fr), NEW E, NEW ob \in Objects, NEW cf \in BOOLEAN, Stack(fr, E, ob, cf),
         fr # <<>>, NEW o \in Objects, NEW U \in Seq(Objects), Expects(fr, E, ob, o, U),
         NEW v, v = o \/ cf, NEW f, Took(f, fr[Len(fr)], v)
  PROVE  Awaits(Append(Popped(fr), f), E, ob, cf, U)
<1> DEFINE n == Len(E)
           p == Popped(fr)
           gr == Append(p, f)
           x == E[n].obj
           kids == x.kids
           d == Done(fr, E, n)
<1> f.type = fr[Len(fr)].type /\ f.left = fr[Len(fr)].left - 1 /\ f.bad = FALSE /\ f.kids = fr[Len(fr)].kids \o <<v>>
  BY DEF Took
<1>0. Remain(fr, E, ob, Len(E)) = <<o>> \o U /\ fr[Len(fr)].left > 0
  <2>1. Len(fr) \in Nat \ {0} /\ Len(E) = Len(fr)
    BY PopIs DEF Stack
  <2> QED BY <2>1 DEF Expects
<1>1. E \in Seq(Entry) /\ n = Len(fr) /\ n \in Nat \ {0}
  <2>1. Len(fr) \in Nat \ {0}
    BY PopIs
  <2> QED BY <2>1 DEF Stack
<1>2. n \in 1..n /\ Follows(fr, E, ob, cf, n) /\ fr[n].left > 0
  BY <1>0, <1>1 DEF Stack
<1>3. x \in Objects /\ kids \in Seq(Objects) /\ Len(kids) \in Nat /\ E[n].rest \in Seq(Objects)
  BY <1>1, <1>2, EntryIs
<1>4. IsSeq(p) /\ Len(p) = n - 1 /\ \A i \in 1..(n - 1) : p[i] = fr[i]
  BY <1>1, PopIs DEF Popped
<1>5. Len(gr) = n /\ gr[n] = f /\ \A i \in 1..(n - 1) : gr[i] = fr[i]
  <2> HIDE DEF p
  <2>1. Len(gr) = Len(p) + 1 /\ gr[Len(gr)] = f /\ \A i \in 1..Len(p) : gr[i] = p[i]
    BY <1>4, AppendIs
  <2> HIDE DEF gr
  <2> QED BY <1>1, <1>4, <2>1
<1> HIDE DEF gr, p
<1>6. /\ d \in 0..(Len(kids) - 1) /\ d = Len(kids) - fr[n].left /\ fr[n].left \in Nat
  BY <1>2, RemainIs, RemainMore, Zenon
<1>a. Remain(fr, E, ob, n) = <<kids[d + 1]>> \o (Rest(kids, d + 1) \o E[n].rest)
  <2>1. Begins(Remain(fr, E, ob, n), kids[d + 1], Rest(kids, d + 1) \o E[n].rest)
    BY <1>2, RemainMore, Zenon
  <2> QED BY <2>1, Zenon DEF Begins
<1>b. gr[n].left = fr[n].left - 1
  BY <1>1, <1>5
<1>c. Done(gr, E, n) = Len(kids) - gr[n].left
  BY Zenon DEF Done
<1>7. Done(gr, E, n) = d + 1
  <2> DEFINE y == Len(kids)
             l == fr[n].left
             z == Done(gr, E, n)
  <2>1. y \in Nat /\ l \in Nat /\ d = y - l /\ z = y - (l - 1)
    BY <1>3, <1>6, <1>b, <1>c
  <2> HIDE DEF d, y, l, z
  <2>2. z = d + 1
    BY <2>1
  <2> QED BY <2>2 DEF z
<1> HIDE DEF d
<1>e. d \in Nat /\ d + 1 \in 1..Len(kids) /\ d + 1 \in 0..Len(kids)
  <2> DEFINE y == Len(kids)
  <2>1. y \in Nat /\ d \in 0..(y - 1)
    BY <1>3, <1>6, Zenon
  <2> HIDE DEF y
  <2>2. d \in Nat /\ d + 1 \in 1..y /\ d + 1 \in 0..y
    BY <2>1
  <2> QED BY <2>2 DEF y
<1>8. kids[d + 1] = o /\ Rest(kids, d + 1) \o E[n].rest = U
  <2>1. d + 1 \in 1..Len(kids) /\ d + 1 \in 0..Len(kids)
    BY <1>e
  <2>2. kids[d + 1] \in Objects /\ Rest(kids, d + 1) \in Seq(Objects)
    BY <1>3, <2>1, ElementOfSeq, RestIs
  <2> DEFINE a == kids[d + 1]
             b == Rest(kids, d + 1) \o E[n].rest
  <2>3. a \in Objects /\ b \in Seq(Objects)
    BY <1>3, <2>2, ConcatProperties
  <2>4. <<a>> \o b = <<o>> \o U
    BY <1>0, <1>a
  <2> HIDE DEF a, b
  <2>5. a = o /\ b = U
    BY <2>3, <2>4, SameFirst
  <2> QED BY <2>5 DEF a, b
<1>9. Remain(gr, E, ob, n) = U
  BY <1>1, <1>7, <1>8 DEF Remain
<1>10. ASSUME NEW k \in 0..(n - 1)
       PROVE  Remain(gr, E, ob, k) = Remain(fr, E, ob, k) /\ (k # 0 => Done(gr, E, k) = Done(fr, E, k))
  <2>1. k # 0 => k \in 1..(n - 1)
    BY <1>1
  <2>2. k # 0 => gr[k] = fr[k] /\ E[k] = E[k]
    BY <1>5, <2>1
  <2> QED BY <2>2 DEF Remain, Done
<1>11. ASSUME NEW k \in 1..n PROVE Follows(gr, E, ob, cf, k)
  <2>0. Follows(fr, E, ob, cf, k)
    BY DEF Stack
  <2>1. CASE k # n
    <3>1. k \in 1..(n - 1) /\ k - 1 \in 0..(n - 1) /\ k \in 0..(n - 1) /\ k # 0
      BY <1>1, <2>1
    <3>2. gr[k] = fr[k]
      BY <1>5, <3>1
    <3>3. Remain(gr, E, ob, k - 1) = Remain(fr, E, ob, k - 1) /\ Done(gr, E, k) = Done(fr, E, k)
      BY <1>10, <3>1, Zenon
    <3> QED BY <2>0, <3>2, <3>3 DEF Follows
  <2>2. CASE k = n
    <3>1. n - 1 \in 0..(n - 1)
      BY <1>1
    <3>2. Remain(gr, E, ob, n - 1) = Remain(fr, E, ob, n - 1)
      BY <1>10, <3>1, Zenon
    <3>3. f.type = x.type /\ f.bad = FALSE /\ IsContainer(x) /\ Remain(gr, E, ob, n - 1) = <<x>> \o E[n].rest
      BY <1>1, <1>2, <3>2 DEF Follows
    <3>4. f.left \in 0..Len(kids)
      <4> DEFINE y == Len(kids)
                 l == fr[n].left
      <4>1. y \in Nat /\ l \in 0..y /\ l > 0 /\ f.left = l - 1
        BY <1>1, <1>2, <1>3 DEF Follows
      <4> HIDE DEF y, l
      <4>2. f.left \in 0..y
        BY <4>1
      <4> QED BY <4>2 DEF y
    <3>5. cf \/ f.kids = SubSeq(kids, 1, d + 1)
      <4>1. CASE cf
        BY <4>1
      <4>2. CASE ~cf
        <5>1. fr[n].kids = SubSeq(kids, 1, d) /\ v = kids[d + 1]
          BY <1>2, <1>8, <4>2 DEF Follows, d
        <5>2. d \in Nat /\ d + 1 \in 1..Len(kids)
          BY <1>e
        <5>3. SubSeq(kids, 1, d + 1) = SubSeq(kids, 1, d) \o <<kids[d + 1]>>
          <6> DEFINE m == d + 1
          <6>1. 1 \in 1..Len(kids) /\ m \in 1..Len(kids) /\ m - 1 = d
            BY <5>2, <1>3
          <6> HIDE DEF m
          <6>2. SubSeq(kids, 1, m) = SubSeq(kids, 1, m - 1) \o <<kids[m]>>
            BY <1>3, <6>1, SubSeqRecursiveSecond
          <6> QED BY <6>1, <6>2 DEF m
        <5> QED BY <1>1, <5>1, <5>3
      <4> QED BY <4>1, <4>2
    <3>6. gr[k] = f /\ Done(gr, E, k) = d + 1 /\ ~(k < Len(E)) /\ k - 1 = n - 1
      BY <1>1, <1>5, <1>7, <2>2
    <3> QED BY <2>2, <3>3, <3>4, <3>5, <3>6 DEF Follows
  <2> QED BY <2>1, <2>2
<1>12. Stack(gr, E, ob, cf)
  BY <1>1, <1>5, <1>11 DEF Stack
<1> QED BY <1>9, <1>12 DEF gr, p, Awaits
-----------------------------------------------------------------------------
(* What marshal has still to do: calls into the stream, then objects. *)
Pending(cs, F, ob, sh, cf, hl) ==
  \E w, R : /\ IsWriting(w) /\ R \in Seq(Objects) /\ cs = w \o NestedAll(R)
            /\ ~hl => \E M : Marks(M, F \o Bytes(w), R, ob, sh, cf)

(* The first call is one into the stream. *)
LEMMA PendingWrite ==
  ASSUME NEW cs, NEW F \in Seq(Nat), NEW ob \in Objects, NEW sh \in BOOLEAN, NEW cf \in BOOLEAN, NEW hl \in BOOLEAN,
         Pending(cs, F, ob, sh, cf, hl), cs # <<>>, cs[1].fn \in Stream
  PROVE  /\ cs[1].room \in Nat /\ cs[1].cells \in Seq(Nat) /\ Len(cs[1].cells) \in Nat
         /\ Len(cs[1].cells) <= cs[1].room
         /\ Pending(Tail(cs), F \o cs[1].cells, ob, sh, cf, hl)
         /\ Pending(Tail(cs), F, ob, sh, cf, TRUE)
<1>1. PICK w, R : /\ IsWriting(w) /\ R \in Seq(Objects) /\ cs = w \o NestedAll(R)
                  /\ ~hl => \E M : Marks(M, F \o Bytes(w), R, ob, sh, cf)
  BY Zenon DEF Pending
<1>2. w # <<>>
  <2> SUFFICES ASSUME w = <<>> PROVE FALSE
    OBVIOUS
  <2>1. cs[1] = Nested(R[1])
    BY <1>1, CallsAre
  <2> QED BY <2>1 DEF Nested, Stream
<1>3. cs[1] = w[1] /\ Tail(cs) = Tail(w) \o NestedAll(R)
  BY <1>1, <1>2, CallsAre
<1>4. IsWriting(Tail(w)) /\ w[1] \in Calls /\ w[1].cells \in Seq(Nat) /\ Bytes(w) = w[1].cells \o Bytes(Tail(w))
  BY <1>1, <1>2, BytesTail
<1>5. cs[1].room \in Nat /\ cs[1].cells \in Seq(Nat) /\ Len(cs[1].cells) \in Nat /\ Len(cs[1].cells) <= cs[1].room
  BY <1>3, <1>4, LenProperties DEF Calls, CallSet
<1> DEFINE x == cs[1].cells
           t == Bytes(Tail(w))
<1>6. x \in Seq(Nat) /\ t \in Seq(Nat) /\ Bytes(w) = x \o t
  BY <1>3, <1>4, BytesType
<1> HIDE DEF x, t
<1>7. F \o Bytes(w) = (F \o x) \o t
  <2>1. (F \o x) \o t = F \o (x \o t)
    BY <1>6, Associate, Zenon
  <2> QED BY <1>6, <2>1
<1>8. ~hl => \E M : Marks(M, (F \o x) \o t, R, ob, sh, cf)
  BY <1>1, <1>7, Zenon
<1>9. Pending(Tail(cs), F \o x, ob, sh, cf, hl)
  BY <1>1, <1>3, <1>4, <1>8, Zenon DEF Pending, t
<1>10. Pending(Tail(cs), F, ob, sh, cf, TRUE)
  BY <1>1, <1>3, <1>4, Zenon DEF Pending
<1> QED BY <1>5, <1>9, <1>10 DEF x

LEMMA MarksNext ==
  ASSUME NEW M, NEW F, NEW R \in Seq(Objects), NEW ob \in Objects, NEW sh \in BOOLEAN, NEW cf \in BOOLEAN,
         Marks(M, F, R, ob, sh, cf), R # <<>>
  PROVE  \A c \in Writes(R[1], FlagOf(ob, sh, R[1])) :
           \E N : Marks(N, F \o Bytes(c), R[1].kids \o Tail(R), ob, sh, cf \/ Confuses(R[1]))
<1> TAKE c \in Writes(R[1], FlagOf(ob, sh, R[1]))
<1> DEFINE cg == cf \/ Confuses(R[1])
<1>1. cg \in BOOLEAN /\ (cf => cg) /\ (Confuses(R[1]) => cg)
  OBVIOUS
<1> HIDE DEF cg
<1>2. \E N : Marks(N, F \o Bytes(c), R[1].kids \o Tail(R), ob, sh, cg)
  BY <1>1, MarksGrow
<1> QED BY <1>2 DEF cg

(* The first call is a nested one of marshal. *)
LEMMA PendingMarshal ==
  ASSUME NEW cs, NEW F \in Seq(Nat), NEW ob \in Objects, NEW sh \in BOOLEAN, NEW cf \in BOOLEAN, NEW hl \in BOOLEAN,
         Pending(cs, F, ob, sh, cf, hl), cs # <<>>, cs[1].fn = "marshal", NEW o, o = cs[1].obj,
         NEW c \in Writes(o, FlagOf(ob, sh, o))
  PROVE  o \in Objects /\ Pending(c \o NestedAll(o.kids) \o Tail(cs), F, ob, sh, cf \/ Confuses(o), hl)
<1> DEFINE cg == cf \/ Confuses(o)
<1>1. PICK w, R : /\ IsWriting(w) /\ R \in Seq(Objects) /\ cs = w \o NestedAll(R)
                  /\ ~hl => \E M : Marks(M, F \o Bytes(w), R, ob, sh, cf)
  BY Zenon DEF Pending
<1>2. w = <<>>
  <2> SUFFICES ASSUME w # <<>> PROVE FALSE
    OBVIOUS
  <2>1. cs[1] = w[1]
    BY <1>1, CallsAre
  <2>2. w[1] \in Calls
    BY <1>1, BytesTail
  <2> QED BY <2>1, <2>2 DEF Calls, CallSet, Stream
<1>3. R # <<>>
  BY <1>1, <1>2, CallsAre
<1>4. cs[1] = Nested(R[1]) /\ Tail(cs) = NestedAll(Tail(R))
  BY <1>1, <1>2, <1>3, CallsAre
<1>5. o = R[1] /\ o \in Objects /\ Tail(R) \in Seq(Objects) /\ o.kids \in Seq(Objects)
      /\ o.kids \o Tail(R) \in Seq(Objects)
  <2>1. o = R[1]
    BY <1>4 DEF Nested
  <2> QED BY <1>1, <1>3, <2>1, KidsThen, Zenon
<1>6. F \o Bytes(<<>>) = F
  BY BytesNone, ConcatEmptySeq
<1>7. IsWriting(c)
  BY <1>5, FlagType, WritesEncode
<1>8. ~hl => \E M : Marks(M, F \o Bytes(c), o.kids \o Tail(R), ob, sh, cg)
  <2> SUFFICES ASSUME ~hl PROVE \E M : Marks(M, F \o Bytes(c), o.kids \o Tail(R), ob, sh, cg)
    OBVIOUS
  <2>1. PICK M : Marks(M, F, R, ob, sh, cf)
    BY <1>1, <1>2, <1>6
  <2>2. \A d \in Writes(R[1], FlagOf(ob, sh, R[1])) :
          \E N : Marks(N, F \o Bytes(d), R[1].kids \o Tail(R), ob, sh, cf \/ Confuses(R[1]))
    <3>1. R \in Seq(Objects)
      BY <1>1
    <3> QED BY <1>3, <2>1, <3>1, MarksNext
  <2> QED BY <1>5, <2>2
<1> DEFINE n == NestedAll(o.kids)
           m == NestedAll(Tail(R))
           S == o.kids \o Tail(R)
<1>9. NestedAll(S) = n \o m
  BY <1>5, NestedConcat
<1>10. (c \o n) \o m = c \o (n \o m)
  <2> DEFINE Y == Calls \cup {n[i] : i \in 1..Len(n)} \cup {m[i] : i \in 1..Len(m)}
  <2>1. IsSeq(n) /\ IsSeq(m) /\ c \in Seq(Calls)
    BY <1>5, <1>7, NestedOf DEF IsWriting
  <2> HIDE DEF n, m
  <2>2. n \in Seq({n[i] : i \in 1..Len(n)}) /\ m \in Seq({m[i] : i \in 1..Len(m)})
    BY <2>1 DEF IsSeq
  <2>3. n \in Seq(Y) /\ m \in Seq(Y) /\ c \in Seq(Y)
    BY <2>1, <2>2, SeqMonotonic
  <2> HIDE DEF Y
  <2> QED BY <2>3, ConcatAssociative
<1>11. c \o n \o Tail(cs) = c \o NestedAll(S)
  BY <1>4, <1>9, <1>10
<1> HIDE DEF n, S, cg
<1>12. S \in Seq(Objects) /\ (~hl => \E M : Marks(M, F \o Bytes(c), S, ob, sh, cg))
  BY <1>5, <1>8 DEF S
<1>13. Pending(c \o n \o Tail(cs), F, ob, sh, cg, hl)
  BY <1>7, <1>11, <1>12, Zenon DEF Pending
<1> QED BY <1>5, <1>13 DEF n, cg

(* No call is left, and the first calls of save. *)
LEMMA PendingDone ==
  ASSUME NEW F \in Seq(Nat), NEW ob \in Objects, NEW sh \in BOOLEAN, NEW cf \in BOOLEAN,
         Pending(<<>>, F, ob, sh, cf, FALSE)
  PROVE  \E M : Marks(M, F, <<>>, ob, sh, cf)
<1>1. PICK w, R : /\ IsWriting(w) /\ R \in Seq(Objects) /\ <<>> = w \o NestedAll(R)
                  /\ \E M : Marks(M, F \o Bytes(w), R, ob, sh, cf)
  BY Zenon DEF Pending
<1>2. w = <<>>
  BY <1>1, CallsAre
<1>3. R = <<>>
  BY <1>1, <1>2, CallsAre
<1>4. F \o Bytes(<<>>) = F
  BY BytesNone, ConcatEmptySeq
<1> QED BY <1>1, <1>2, <1>3, <1>4

LEMMA PendingInit ==
  ASSUME NEW ob \in Objects, NEW sh \in BOOLEAN
  PROVE  Pending(<<Call("header", <<Tilde>>), Call("header", Digits(0, IntBytes)), Nested(ob)>>, <<>>, ob, sh, FALSE, FALSE)
<1> DEFINE a == Call("header", <<Tilde>>)
           b == Call("header", Digits(0, IntBytes))
           w == <<a, b>>
           R == <<ob>>
           F == <<>> \o Bytes(w)
           M == {<<1 + IntBytes, R>>}
<1>1. Digits(0, IntBytes) \in Seq(Nat) /\ Len(Digits(0, IntBytes)) = IntBytes /\ IntBytes \in Nat
  <2>1. 0 \in Int /\ IntBytes \in Nat
    BY DEF IntBytes
  <2> QED BY <2>1, DigitsAreBytes, Zenon
<1>2. a \in Calls /\ b \in Calls /\ a.cells = <<Tilde>> /\ b.cells = Digits(0, IntBytes)
  BY <1>1, OneByte, StreamCalls DEF Tilde
<1>3. IsWriting(w) /\ Bytes(w) = <<Tilde>> \o Digits(0, IntBytes)
  BY <1>2, Bytes2
<1>4. <<Tilde>> \in Seq(Nat) /\ Len(<<Tilde>>) = 1
  BY DEF Tilde
<1>5. Bytes(w) \in Seq(Nat) /\ Len(Bytes(w)) = 1 + IntBytes
  <2> DEFINE x == <<Tilde>>
             y == Digits(0, IntBytes)
  <2>1. x \in Seq(Nat) /\ y \in Seq(Nat) /\ Len(x) = 1 /\ Len(y) = IntBytes /\ Bytes(w) = x \o y
    BY <1>1, <1>3, <1>4
  <2> HIDE DEF x, y, w
  <2> QED BY <2>1, ConcatProperties
<1>6. F \in Seq(Nat) /\ Len(F) = 1 + IntBytes
  BY <1>5, ConcatEmptySeq
<1>7. R \in Seq(Objects) /\ R = <<ob>> /\ Len(R) = 1 /\ R[1] = ob
  OBVIOUS
<1>8. <<a, b, Nested(ob)>> = w \o NestedAll(R)
  <2>1. IsSeq(NestedAll(R)) /\ Len(NestedAll(R)) = 1 /\ NestedAll(R)[1] = Nested(ob)
    <3> HIDE DEF R
    <3>1. 1 \in 1..Len(R)
      BY <1>7
    <3> QED BY <1>7, <3>1, NestedOf
  <2> DEFINE c == Nested(ob)
             n == NestedAll(R)
  <2> HIDE DEF a, b, c, n, R
  <2>2. n = <<c>>
    BY <2>1 DEF IsSeq, n, c
  <2>3. <<a, b, c>> = <<a, b>> \o <<c>>
    OBVIOUS
  <2> QED BY <2>2, <2>3 DEF n, c
<1> HIDE DEF F, R, w, a, b
<1>9. Marks(M, F, R, ob, sh, FALSE)
  <2>1. M \subseteq Nat \X Seq(Objects) /\ <<1 + IntBytes, <<ob>>>> \in M
    <3>1. 1 + IntBytes \in Nat
      BY DEF IntBytes
    <3> DEFINE z == 1 + IntBytes
    <3> HIDE DEF z, R
    <3>2. <<z, R>> \in Nat \X Seq(Objects)
      BY <1>7, <3>1 DEF z
    <3>3. R = <<ob>>
      BY <1>7
    <3> QED BY <3>2, <3>3 DEF z
  <2>2. \A p, T : <<p, T>> \in M => p <= Len(F) /\ p = Len(F) /\ T = R
    BY <1>1, <1>6
  <2> HIDE DEF M
  <2>3. \A p, T : <<p, T>> \in M => p <= Len(F) /\ (Leads(F, M, p, T, ob, sh, FALSE) \/ (p = Len(F) /\ T = R))
    <3> TAKE p, T
    <3> HAVE <<p, T>> \in M
    <3>1. p <= Len(F) /\ p = Len(F) /\ T = R
      BY <2>2
    <3> QED BY <3>1
  <2> QED BY <1>6, <2>1, <2>3 DEF Marks
<1>10. Pending(<<a, b, Nested(ob)>>, <<>>, ob, sh, FALSE, FALSE)
  BY <1>3, <1>7, <1>8, <1>9, Zenon DEF Pending, F
<1> QED BY <1>10 DEF a, b
-----------------------------------------------------------------------------
(* What save keeps to: after it, or after each of its calls. *)
Written == \E M : Marks(M, content, <<>>, object, shared, confused)
WriterInv ==
  /\ mSize \in Nat /\ content \in Seq(Nat) /\ object \in Objects
  /\ shared \in BOOLEAN /\ confused \in BOOLEAN /\ headerLost \in BOOLEAN /\ ret \in BOOLEAN
  /\ mBuffer # "NULL" => Len(content) <= mSize /\ Allocatable(mSize)
  /\ mBuffer = "NULL" /\ ~headerLost => phase # "save" /\ ~ret
  /\ phase = "fault" => headerLost
  /\ phase = "save" => ~ret /\ Pending(calls, content, object, shared, confused, headerLost)
  /\ ret /\ ~headerLost => Written
  /\ phase \in {"header", "load", "loaded"} => ret /\ ~headerLost

LEMMA WriterInit == Init => WriterInv
<1> SUFFICES ASSUME Init PROVE WriterInv
  OBVIOUS
<1>1. mSize \in Nat /\ Allocatable(mSize)
  BY CodecAssumption, SizesAssumption DEF Init
<1>2. content = <<>> /\ content \in Seq(Nat) /\ Len(content) = 0
  BY EmptySeq DEF Init
<1>3. Pending(calls, content, object, shared, confused, headerLost)
  BY <1>2, PendingInit DEF Init
<1>4. /\ phase = "save" /\ mBuffer = "heap" /\ ret = FALSE /\ headerLost = FALSE /\ confused = FALSE
      /\ object \in Objects /\ shared \in BOOLEAN
  BY DEF Init
<1>5. /\ confused \in BOOLEAN /\ headerLost \in BOOLEAN /\ ret \in BOOLEAN /\ ~ret /\ ~headerLost /\ Len(content) <= mSize
      /\ phase \notin {"header", "load", "loaded", "fault"} /\ mBuffer # "NULL"
  <2>1. Len(content) <= mSize
    BY <1>1, <1>2
  <2>2. phase \notin {"header", "load", "loaded", "fault"} /\ mBuffer # "NULL"
    BY <1>4
  <2>3. confused \in BOOLEAN /\ headerLost \in BOOLEAN /\ ret \in BOOLEAN /\ ~ret /\ ~headerLost
    BY <1>4, Zenon
  <2> QED BY <2>1, <2>2, <2>3
<1> QED BY <1>1, <1>2, <1>3, <1>5 DEF WriterInv, Init

LEMMA SavingIs ==
  ASSUME WriterInv, NEW fns, Saving(fns)
  PROVE  /\ phase = "save" /\ calls # <<>> /\ calls[1].fn \in fns /\ ~ret
         /\ mSize \in Nat /\ content \in Seq(Nat) /\ Len(content) \in Nat
         /\ mBuffer = "NULL" => headerLost
         /\ Pending(calls, content, object, shared, confused, headerLost)
BY LenProperties DEF WriterInv, Saving

(* What a call into the stream does to the invariant, whether it writes or fails. *)
LEMMA StreamCall ==
  ASSUME WriterInv, Saving(Stream)
  PROVE  /\ phase = "save" /\ ~ret /\ mSize \in Nat /\ content \in Seq(Nat) /\ Len(content) \in Nat
         /\ mBuffer = "NULL" => headerLost
         /\ calls[1].room \in Nat /\ calls[1].cells \in Seq(Nat) /\ Len(calls[1].cells) \in Nat
         /\ Len(calls[1].cells) <= calls[1].room
         /\ content \o calls[1].cells \in Seq(Nat)
         /\ Len(content \o calls[1].cells) = Len(content) + Len(calls[1].cells)
         /\ Pending(Tail(calls), content \o calls[1].cells, object, shared, confused, headerLost)
         /\ Pending(Tail(calls), content, object, shared, confused, TRUE)
<1>1. /\ phase = "save" /\ calls # <<>> /\ calls[1].fn \in Stream /\ ~ret
      /\ mSize \in Nat /\ content \in Seq(Nat) /\ Len(content) \in Nat
      /\ mBuffer = "NULL" => headerLost
      /\ Pending(calls, content, object, shared, confused, headerLost)
  BY SavingIs
<1>2. object \in Objects /\ shared \in BOOLEAN /\ confused \in BOOLEAN /\ headerLost \in BOOLEAN
  BY DEF WriterInv
<1>3. /\ calls[1].room \in Nat /\ calls[1].cells \in Seq(Nat) /\ Len(calls[1].cells) \in Nat
      /\ Len(calls[1].cells) <= calls[1].room
      /\ Pending(Tail(calls), content \o calls[1].cells, object, shared, confused, headerLost)
      /\ Pending(Tail(calls), content, object, shared, confused, TRUE)
  BY <1>1, <1>2, PendingWrite
<1>4. content \o calls[1].cells \in Seq(Nat) /\ Len(content \o calls[1].cells) = Len(content) + Len(calls[1].cells)
  BY <1>1, <1>3, ConcatProperties
<1> QED BY <1>1, <1>3, <1>4

LEMMA MarshalKeeps == ASSUME WriterInv, Marshal PROVE WriterInv'
<1>1. /\ phase = "save" /\ calls # <<>> /\ calls[1].fn = "marshal" /\ ~ret /\ content \in Seq(Nat)
      /\ mBuffer = "NULL" => headerLost
      /\ Pending(calls, content, object, shared, confused, headerLost)
  BY SavingIs DEF Marshal
<1>2. object \in Objects /\ shared \in BOOLEAN /\ confused \in BOOLEAN /\ headerLost \in BOOLEAN
  BY DEF WriterInv
<1>3. UNCHANGED <<object, shared, ret, mSize, mBuffer, content, headerLost>>
  BY DEF Marshal, writer
<1> DEFINE o == calls[1].obj
<1>4. CASE phase' = "trapped" /\ UNCHANGED <<calls, confused>>
  BY <1>1, <1>3, <1>4 DEF WriterInv, Written, Allocatable
<1>5. ASSUME NEW c \in Writes(o, IF Held(o) THEN SharedFlag ELSE 0),
             calls' = c \o NestedAll(o.kids) \o Tail(calls), confused' = (confused \/ Confuses(o)), phase' = phase
      PROVE  WriterInv'
  <2>1. FlagOf(object, shared, o) = IF Held(o) THEN SharedFlag ELSE 0
    BY DEF FlagOf, Held
  <2>2. c \in Writes(o, FlagOf(object, shared, o))
    BY <2>1
  <2> HIDE DEF o
  <2>3. o = calls[1].obj
    BY DEF o
  <2>4. Pending(c \o NestedAll(o.kids) \o Tail(calls), content, object, shared, confused \/ Confuses(o), headerLost)
    BY <1>1, <1>2, <2>2, <2>3, PendingMarshal
  <2>5. Pending(calls', content', object', shared', confused', headerLost')
    BY <1>3, <1>5, <2>4
  <2>6. confused' \in BOOLEAN
    BY <1>5
  <2> QED BY <1>1, <1>3, <1>5, <2>5, <2>6 DEF WriterInv, Allocatable
<1> QED BY <1>4, <1>5 DEF Marshal

LEMMA WriteInPlaceKeeps == ASSUME WriterInv, WriteInPlace PROVE WriterInv'
<1> DEFINE c == calls[1]
<1>1. /\ phase = "save" /\ ~ret /\ mSize \in Nat /\ content \in Seq(Nat) /\ Len(content) \in Nat
      /\ mBuffer = "NULL" => headerLost
      /\ c.room \in Nat /\ c.cells \in Seq(Nat) /\ Len(c.cells) \in Nat
      /\ Len(c.cells) <= c.room
      /\ content \o c.cells \in Seq(Nat)
      /\ Len(content \o c.cells) = Len(content) + Len(c.cells)
      /\ Pending(Tail(calls), content \o c.cells, object, shared, confused, headerLost)
  BY StreamCall DEF WriteInPlace, Stream
<1>2. UNCHANGED <<object, shared, ret, mSize, mBuffer, confused, headerLost>>
  BY DEF WriteInPlace, ghosts
<1>3. mSize > Len(content) + c.room
  BY DEF WriteInPlace, HasRoom, mWriteIndex
<1> HIDE DEF c
<1>4. CASE mBuffer = "NULL" /\ c.cells # <<>>
  <2>1. phase' = "fault" /\ UNCHANGED <<calls, content>>
    BY <1>4 DEF WriteInPlace, c
  <2> QED BY <1>1, <1>2, <1>4, <2>1 DEF WriterInv
<1>5. CASE ~(mBuffer = "NULL" /\ c.cells # <<>>)
  <2>1. content' = content \o c.cells /\ calls' = Tail(calls) /\ phase' = phase
    BY <1>5 DEF WriteInPlace, c
  <2>2. Len(content') <= mSize'
    BY <1>1, <1>2, <1>3, <2>1
  <2>3. content' \in Seq(Nat) /\ Pending(calls', content', object', shared', confused', headerLost')
    BY <1>1, <1>2, <2>1
  <2> QED BY <1>1, <1>2, <2>1, <2>2, <2>3 DEF WriterInv, Allocatable
<1> QED BY <1>4, <1>5

LEMMA WriteReallocatedKeeps == ASSUME WriterInv, WriteReallocated PROVE WriterInv'
<1> DEFINE c == calls[1]
<1>1. /\ phase = "save" /\ ~ret /\ mSize \in Nat /\ content \in Seq(Nat) /\ Len(content) \in Nat
      /\ c.room \in Nat /\ c.cells \in Seq(Nat) /\ Len(c.cells) \in Nat
      /\ Len(c.cells) <= c.room
      /\ content \o c.cells \in Seq(Nat)
      /\ Len(content \o c.cells) = Len(content) + Len(c.cells)
      /\ Pending(Tail(calls), content \o c.cells, object, shared, confused, headerLost)
  BY StreamCall DEF WriteReallocated, Stream
<1>2. UNCHANGED <<phase, object, shared, ret, confused, headerLost>>
  BY DEF WriteReallocated, ghosts
<1>3. /\ Allocatable(mSize') /\ mSize' = Len(content) + c.room /\ mBuffer' = "heap"
      /\ content' = content \o c.cells /\ calls' = Tail(calls)
  BY DEF WriteReallocated, Grown, mWriteIndex
<1> HIDE DEF c
<1>4. Len(content') <= mSize' /\ mSize' \in Nat
  BY <1>1, <1>3
<1>5. content' \in Seq(Nat) /\ Pending(calls', content', object', shared', confused', headerLost')
  BY <1>1, <1>2, <1>3
<1> QED BY <1>1, <1>2, <1>3, <1>4, <1>5 DEF WriterInv, Allocatable

LEMMA ReallocFailsKeeps == ASSUME WriterInv, ReallocFails PROVE WriterInv'
<1> DEFINE c == calls[1]
<1>1. /\ phase = "save" /\ ~ret /\ mSize \in Nat /\ content \in Seq(Nat) /\ Len(content) \in Nat
      /\ c.room \in Nat
      /\ Pending(Tail(calls), content, object, shared, confused, TRUE)
  BY StreamCall DEF ReallocFails, Stream
<1>2. UNCHANGED <<object, shared, confused, content>> /\ mBuffer' = "NULL" /\ mSize' = Len(content) + c.room
  BY DEF ReallocFails, Grown, mWriteIndex
<1>3. mSize' \in Nat
  BY <1>1, <1>2
<1>4. CASE c.fn = "header"
  <2>1. calls' = Tail(calls) /\ headerLost' = TRUE /\ UNCHANGED <<phase, ret>>
    BY <1>4 DEF ReallocFails, WriteFailed
  <2>2. Pending(calls', content', object', shared', confused', headerLost')
    BY <1>1, <1>2, <2>1
  <2> QED BY <1>1, <1>2, <1>3, <2>1, <2>2 DEF WriterInv
<1>5. CASE c.fn # "header"
  <2>1. phase' = "saved" /\ ret' = FALSE /\ UNCHANGED headerLost
    BY <1>5 DEF ReallocFails, WriteFailed, SaveReturns
  <2> QED BY <1>1, <1>2, <1>3, <2>1 DEF WriterInv
<1> QED BY <1>4, <1>5

LEMMA WriterEnds == ASSUME WriterInv, WriteRefused \/ Saved PROVE WriterInv'
<1>1. UNCHANGED <<object, shared, mSize, mBuffer, content, confused, headerLost>> /\ phase' = "saved"
  BY DEF WriteRefused, Saved, SaveReturns, writer, ghosts
<1>2. CASE WriteRefused
  <2>1. ret' = FALSE
    BY <1>2 DEF WriteRefused, SaveReturns
  <2> QED BY <1>1, <2>1 DEF WriterInv, Allocatable
<1>3. CASE Saved
  <2>1. ret' = TRUE /\ phase = "save" /\ calls = <<>>
    BY <1>3 DEF Saved, SaveReturns
  <2>2. /\ Pending(<<>>, content, object, shared, confused, headerLost) /\ headerLost \in BOOLEAN
        /\ content \in Seq(Nat) /\ object \in Objects /\ shared \in BOOLEAN /\ confused \in BOOLEAN
    BY <2>1 DEF WriterInv
  <2>3. ~headerLost => Written
    <3> SUFFICES ASSUME headerLost = FALSE PROVE Written
      BY <2>2
    <3>1. Pending(<<>>, content, object, shared, confused, FALSE)
      BY <2>2
    <3> QED BY <2>2, <3>1, PendingDone DEF Written
  <2>4. ~headerLost' => Written'
    BY <1>1, <2>3 DEF Written
  <2> QED BY <1>1, <2>1, <2>4 DEF WriterInv, Allocatable
<1> QED BY <1>2, <1>3

LEMMA WriterRests ==
  ASSUME WriterInv, UNCHANGED <<object, shared, calls, ret, mSize, mBuffer, content, confused, headerLost>>,
         phase' = phase \/ (ret /\ ~headerLost /\ phase' \in {"header", "load", "loaded"})
  PROVE  WriterInv'
<1>1. Written => Written'
  BY DEF Written
<1>2. phase' = "save" => phase = "save"
  OBVIOUS
<1>3. phase' = "save" => ~ret' /\ Pending(calls, content, object, shared, confused, headerLost)'
  BY <1>2 DEF WriterInv
<1>4. phase' = "fault" => phase = "fault"
  OBVIOUS
<1> QED BY <1>1, <1>2, <1>3, <1>4 DEF WriterInv, Allocatable

(* Every step keeps WriterInv: those of load leave what was written alone. *)
LEMMA WriterNext == ASSUME WriterInv, [Next]_vars PROVE WriterInv'
<1>1. CASE Open
  BY <1>1, WriterRests DEF Open, writer, ghosts
<1>2. CASE Inflate
  <2>1. UNCHANGED <<object, shared, calls, ret, writer, ghosts>> /\ phase = "header" /\ phase' \in {"header", "load"}
    BY <1>2 DEF Inflate, LoadRefuses
  <2> QED BY <2>1, WriterRests DEF WriterInv, writer, ghosts
<1>3. CASE ReadMarshalHeader
  <2>1. UNCHANGED <<object, shared, calls, ret, writer, ghosts>> /\ phase = "header" /\ phase' = "load"
    BY <1>3 DEF ReadMarshalHeader, LoadRefuses
  <2> QED BY <2>1, WriterRests DEF WriterInv, writer, ghosts
<1>4. CASE OutOfData \/ UnmarshalLeaf \/ UnmarshalOther \/ UnmarshalContainer \/ TakeChild \/ CompleteContainer
  <2>1. UNCHANGED <<phase, object, shared, calls, ret, writer, ghosts>>
    BY <1>4 DEF OutOfData, UnmarshalLeaf, UnmarshalOther, UnmarshalContainer, TakeChild, CompleteContainer, Reads, Stays
  <2> QED BY <2>1, WriterRests DEF writer, ghosts
<1>5. CASE Loaded
  <2>1. UNCHANGED <<object, shared, calls, ret, writer, ghosts>> /\ phase = "load" /\ phase' = "loaded"
    BY <1>5 DEF Loaded
  <2> QED BY <2>1, WriterRests DEF WriterInv, writer, ghosts
<1>6. CASE UNCHANGED vars
  BY <1>6, WriterRests DEF vars, writer, ghosts
<1> QED BY <1>1, <1>2, <1>3, <1>4, <1>5, <1>6, MarshalKeeps, WriteInPlaceKeeps, WriteReallocatedKeeps,
           ReallocFailsKeeps, WriterEnds DEF Next

(* WritesInside, for every object and every sequence of failing reallocs: what   *)
(* WriteStream has written never exceeds mSize (WriteStream.cpp:129-141), and    *)
(* only a header whose loss save ignored is followed by a write through NULL.    *)
THEOREM BufferHolds == Spec => []WritesInside
<1>1. Init => WriterInv
  BY WriterInit
<1>2. WriterInv /\ [Next]_vars => WriterInv'
  BY WriterNext
<1>3. WriterInv => WritesInside
  BY DEF WriterInv, WritesInside, mWriteIndex
<1> QED BY <1>1, <1>2, <1>3, PTL DEF Spec
-----------------------------------------------------------------------------
(* What load keeps to: it is on the track of what was saved, or nothing can come *)
(* of it, and then the packet or the object is one of those excepted.            *)
Excused == ~complete \/ Ambiguous
Fed ==
  /\ Prefixed /\ deflated \in Nat /\ complete \in BOOLEAN
  /\ complete => Len(packet) = Len(content)
  /\ ~complete /\ deflated = 0 => Len(packet) < Len(content)
Going(fr, i, M, E, U) ==
  /\ Marks(M, content, <<>>, object, shared, confused) /\ <<i, U>> \in M
  /\ Stack(fr, E, object, confused)
Returning(fr, E, U, vl) ==
  \E o, v :
    o \in Objects /\ vl = <<v>> /\ (v = o \/ confused) /\ Expects(fr, E, object, o, U)
Tracks(fr, i, rt, vl) ==
  \E M, E, U : /\ Going(fr, i, M, E, U)
               /\ IF rt THEN Returning(fr, E, U, vl) ELSE U = Remain(fr, E, object, Len(E))
OnTrack == ~strayed /\ deflated = 0 /\ Tracks(frames, mReadIndex, returned, val)
Spoils(f) == f.type = "Dict" /\ f.bad /\ f.left % 2 = 1
Spoiled(fr) == \E k \in 1..Len(fr) : Spoils(fr[k])
Doomed == Excused /\ ((returned /\ val = <<>>) \/ (strayed /\ Spoiled(frames)))
IsFrame(f) == f = [x \in {"type", "left", "bad", "kids"} |-> f[x]] /\ f.left \in Int
AreFrames(fr) == IsSeq(fr) /\ \A i \in 1..Len(fr) : IsFrame(fr[i])
Reaches == /\ mReadIndex \in Nat /\ AreFrames(frames)
           /\ ~strayed => mReadIndex <= Len(packet)
LoadInv == Fed /\ Reaches /\ (OnTrack \/ Doomed)
Typed == object \in Objects /\ shared \in BOOLEAN /\ confused \in BOOLEAN
Same == UNCHANGED <<object, shared, confused, content, packet, deflated, complete>>

(* A step that leaves object and packet alone leaves the tracks where they are. *)
LEMMA SameKeeps ==
  ASSUME Same
  PROVE  /\ Fed => Fed'
         /\ Excused => Excused'
         /\ \A fr, i, rt, vl : Tracks(fr, i, rt, vl) => Tracks(fr, i, rt, vl)'
<1>1. Fed => Fed'
  BY DEF Same, Fed, Prefixed
<1>2. Excused => Excused'
  BY DEF Same, Excused, Ambiguous
<1>3. ASSUME NEW fr, NEW i, NEW rt, NEW vl, Tracks(fr, i, rt, vl) PROVE Tracks(fr, i, rt, vl)'
  <2>1. PICK M, E, U : /\ Going(fr, i, M, E, U)
                       /\ IF rt THEN Returning(fr, E, U, vl) ELSE U = Remain(fr, E, object, Len(E))
    BY <1>3, Zenon DEF Tracks
  <2>2. Going(fr, i, M, E, U)'
    BY <2>1 DEF Going, Same
  <2>3. Returning(fr, E, U, vl) => Returning(fr, E, U, vl)'
    BY DEF Returning, Same
  <2>4. Remain(fr, E, object, Len(E))' = Remain(fr, E, object, Len(E))
    BY DEF Same
  <2> QED BY <2>1, <2>2, <2>3, <2>4, Zenon DEF Tracks
<1> QED BY <1>1, <1>2, <1>3

(* What Reaches and OnTrack or Doomed come to after a step. *)
LEMMA StaysOnTrack ==
  ASSUME Same, Fed, ~strayed', deflated = 0, NEW fr, NEW i, NEW rt, NEW vl, Tracks(fr, i, rt, vl),
         frames' = fr, mReadIndex' = i, returned' = rt, val' = vl, i \in Nat, i <= Len(packet), AreFrames(fr)
  PROVE  LoadInv'
<1>1. Fed' /\ Tracks(fr, i, rt, vl)'
  BY SameKeeps
<1>2. OnTrack'
  BY <1>1 DEF OnTrack, Same
<1>3. Reaches'
  BY DEF Reaches, Same
<1> QED BY <1>1, <1>2, <1>3 DEF LoadInv

LEMMA StaysDoomed ==
  ASSUME Same, Fed, Excused, mReadIndex' \in Nat, AreFrames(frames'), ~strayed' => mReadIndex' <= Len(packet),
         (returned' /\ val' = <<>>) \/ (strayed' /\ Spoiled(frames'))
  PROVE  LoadInv'
<1>1. Fed' /\ Excused'
  BY SameKeeps
<1>2. Doomed'
  BY <1>1 DEF Doomed
<1>3. Reaches'
  BY DEF Reaches, Same
<1> QED BY <1>1, <1>2, <1>3 DEF LoadInv

LEMMA FramesPop ==
  ASSUME NEW fr, AreFrames(fr), fr # <<>>
  PROVE  /\ AreFrames(Popped(fr)) /\ Len(Popped(fr)) = Len(fr) - 1 /\ Len(fr) \in Nat \ {0}
         /\ \A i \in 1..(Len(fr) - 1) : Popped(fr)[i] = fr[i]
         /\ IsFrame(fr[Len(fr)])
<1> DEFINE t == Popped(fr)
<1>1. IsSeq(t) /\ Len(t) = Len(fr) - 1 /\ Len(fr) \in Nat \ {0} /\ \A i \in 1..Len(t) : t[i] = fr[i]
  BY PopIs DEF AreFrames, Popped
<1> HIDE DEF t
<1>2. AreFrames(t)
  BY <1>1 DEF AreFrames
<1>3. IsFrame(fr[Len(fr)])
  BY <1>1 DEF AreFrames
<1> QED BY <1>1, <1>2, <1>3 DEF t

LEMMA FramesPush ==
  ASSUME NEW fr, AreFrames(fr), NEW f, IsFrame(f)
  PROVE  /\ AreFrames(Append(fr, f)) /\ Len(Append(fr, f)) = Len(fr) + 1 /\ Len(fr) \in Nat
         /\ Append(fr, f)[Len(fr) + 1] = f
         /\ \A i \in 1..Len(fr) : Append(fr, f)[i] = fr[i]
<1> DEFINE t == Append(fr, f)
<1>1. IsSeq(t) /\ Len(t) = Len(fr) + 1 /\ Len(fr) \in Nat /\ t[Len(t)] = f /\ \A i \in 1..Len(fr) : t[i] = fr[i]
  BY AppendIs DEF AreFrames
<1> HIDE DEF t
<1>2. AreFrames(t)
  BY <1>1 DEF AreFrames
<1> QED BY <1>1, <1>2 DEF t
-----------------------------------------------------------------------------
(* The object whose bytes b stand where load is, with t behind it. *)
AtObject(M, E, o, t, b) ==
  /\ Marks(M, content, <<>>, object, shared, confused) /\ Stack(frames, E, object, confused)
  /\ o \in Objects /\ t \in Seq(Objects) /\ b \in Seq(Nat)
  /\ Expects(frames, E, object, o, t)
  /\ Encodes(b, o, FlagOf(object, shared, o)) /\ Stands(content, mReadIndex, b)
  /\ <<mReadIndex + Len(b), o.kids \o t>> \in M /\ Len(b) \in Nat /\ Len(b) > 0
  /\ mReadIndex + Len(b) <= Len(content) /\ (Confuses(o) => confused)

(* On the track, load stands at an object unless a container is complete. *)
LEMMA TrackLeads ==
  ASSUME Typed, OnTrack, ~returned, ~Complete, AreFrames(frames)
  PROVE  \E M, E, o, t, b : AtObject(M, E, o, t, b)
<1>1. PICK M, E, U : Going(frames, mReadIndex, M, E, U) /\ U = Remain(frames, E, object, Len(E))
  BY DEF OnTrack, Tracks
<1>2. Marks(M, content, <<>>, object, shared, confused) /\ <<mReadIndex, U>> \in M /\ Stack(frames, E, object, confused)
  BY <1>1 DEF Going
<1>3. object \in Objects /\ shared \in BOOLEAN /\ confused \in BOOLEAN
  BY DEF Typed
<1>4. Len(E) = Len(frames) /\ Len(E) \in Nat
  BY <1>2, LenProperties DEF Stack
<1>5. (Len(E) = 0 \/ frames[Len(E)].left > 0) /\ U # <<>>
  <2>1. CASE Len(E) = 0
    BY <1>1, <2>1 DEF Remain
  <2>2. CASE Len(E) # 0
    <3>1. Len(E) \in 1..Len(E) /\ frames # <<>>
      <4>1. frames = <<>> => Len(frames) = 0
        BY EmptySeq
      <4> QED BY <1>4, <2>2, <4>1
    <3>2. frames[Len(E)].left # 0
      BY <1>4, <3>1 DEF Complete, Top
    <3>3. frames[Len(E)].left \in Nat
      BY <1>2, <1>3, <3>1, RemainIs
    <3>4. frames[Len(E)].left > 0
      BY <3>2, <3>3
    <3>5. Remain(frames, E, object, Len(E)) # <<>>
      BY <1>2, <1>3, <3>1, <3>4, RemainMore
    <3> QED BY <1>1, <3>4, <3>5
  <2> QED BY <2>1, <2>2
<1>6. U \in Seq(Objects)
  BY <1>2, <1>3, MarkIs
<1>7. PICK b : LeadsBy(b, content, M, mReadIndex, U, object, shared, confused)
  BY <1>2, <1>3, <1>5, MarkLeads
<1>8. U[1] \in Objects /\ Tail(U) \in Seq(Objects) /\ U = <<U[1]>> \o Tail(U)
  BY <1>5, <1>6, KidsThen
<1>9. AtObject(M, E, U[1], Tail(U), b)
  BY <1>1, <1>2, <1>5, <1>7, <1>8 DEF AtObject, LeadsBy, Expects
<1> QED BY <1>9
-----------------------------------------------------------------------------
(* The steps of load keep to LoadInv. *)
LEMMA OpsApart ==
  /\ \A op \in LeafOps : op \notin FixedOps /\ op \notin CountedOps
  /\ \A op \in FixedOps : op \notin LeafOps /\ op \notin CountedOps
  /\ \A op \in CountedOps : op \notin LeafOps /\ op \notin FixedOps
BY DEF LeafOps, SingletonOps, FixedOps, CountedOps, Op

LEMMA OpcodeIs ==
  ASSUME NEW op \in LeafOps \cup FixedOps \cup CountedOps, NEW fl \in {0, SharedFlag}, packet[mReadIndex + 1] = op + fl
  PROVE  Opcode = op /\ (Flagged <=> fl = SharedFlag)
<1>1. /\ op \in Nat /\ op % SharedFlag = op /\ (op + 0) % SharedFlag = op /\ (op + SharedFlag) % SharedFlag = op
      /\ (op \div SharedFlag) % 2 = 0 /\ ((op + SharedFlag) \div SharedFlag) % 2 = 1 /\ op + 0 = op
  <2>1. op \in Nat
    BY OpsAre
  <2>2. op + 0 = op
    BY <2>1
  <2> QED BY <2>2, OpsAre
<1>2. CASE fl = 0
  <2>1. AtOpcode = op
    BY <1>1, <1>2 DEF AtOpcode
  <2>2. fl # SharedFlag
    BY <1>2 DEF SharedFlag
  <2>3. Opcode = op
    BY <1>1, <2>1 DEF Opcode
  <2>4. ~Flagged
    BY <1>1, <2>1 DEF Flagged
  <2> QED BY <2>2, <2>3, <2>4
<1>3. CASE fl = SharedFlag
  <2>1. AtOpcode = op + SharedFlag
    BY <1>3 DEF AtOpcode
  <2> DEFINE x == op + SharedFlag
  <2> HIDE DEF x
  <2>2. AtOpcode = x /\ x % SharedFlag = op /\ (x \div SharedFlag) % 2 = 1
    BY <1>1, <2>1 DEF x
  <2>3. Opcode = op
    BY <2>2 DEF Opcode
  <2>4. Flagged
    BY <2>2 DEF Flagged
  <2> QED BY <1>3, <2>3, <2>4
<1> QED BY <1>2, <1>3

(* At an object load finds an opcode without children, or that of a container. *)
LEMMA ObjectFound ==
  ASSUME Fed, NEW M, NEW E, NEW o, NEW t, NEW b, AtObject(M, E, o, t, b), mReadIndex \in Nat, mReadIndex < Len(packet)
  PROVE  \/ /\ o.kids = <<>> /\ Opcode \in LeafOps
            /\ \A r \in Leaf(Opcode, mReadIndex + 1) : Result(r, mReadIndex + Len(b), o)
         \/ /\ IsContainer(o) /\ Opcode \in FixedOps \cup CountedOps
            /\ Flagged => Ambiguous
            /\ \/ /\ Opcode \in FixedOps /\ Fixed(Opcode) = Frame(o.type, Len(o.kids))
                  /\ mReadIndex + Len(b) = mReadIndex + 1
               \/ /\ Opcode \in CountedOps
                  /\ \E n : /\ Counted(Opcode, n) = Frame(o.type, Len(o.kids))
                            /\ Outcome(ReadSizeEx(mReadIndex + 1), mReadIndex + Len(b), n)
<1> DEFINE flag == FlagOf(object, shared, o)
<1>1. Prefixed /\ Encodes(b, o, flag) /\ Stands(content, mReadIndex, b)
  BY DEF Fed, AtObject
<1>2. flag \in {0, SharedFlag} /\ (flag = 0 \/ (shared /\ o = object))
  BY DEF FlagOf
<1> HIDE DEF flag
<1>3. CASE o.kids = <<>> /\ LeafBytes(b, o)
  <2>1. LeafAt(b, o, mReadIndex)
    BY <1>1, <1>3, LeafRead
  <2>2. /\ packet[mReadIndex + 1] \in LeafOps
        /\ \A r \in Leaf(packet[mReadIndex + 1], mReadIndex + 1) : Result(r, mReadIndex + Len(b), o)
    BY <2>1 DEF LeafAt
  <2>3. Opcode = packet[mReadIndex + 1]
    BY <2>2, OpsAre DEF Opcode, AtOpcode
  <2> QED BY <1>3, <2>2, <2>3
<1>4. CASE ContainerBytes(b, o, flag)
  <2>1. PICK fl \in {0, flag} : (fl = 0 \/ o.type = "Tuple") /\ ContainerAt(b, o, mReadIndex, fl)
    BY <1>1, <1>2, <1>4, ContainerRead
  <2>2. PICK op \in FixedOps \cup CountedOps :
          /\ packet[mReadIndex + 1] = op + fl
          /\ \/ op \in FixedOps /\ Fixed(op) = Frame(o.type, Len(o.kids)) /\ mReadIndex + Len(b) = mReadIndex + 1
             \/ /\ op \in CountedOps
                /\ \E n : /\ Counted(op, n) = Frame(o.type, Len(o.kids))
                          /\ Outcome(ReadSizeEx(mReadIndex + 1), mReadIndex + Len(b), n)
    BY <2>1, Zenon DEF ContainerAt
  <2>3. fl \in {0, SharedFlag}
    BY <1>2
  <2>4. Opcode = op /\ (Flagged <=> fl = SharedFlag)
    BY <2>2, <2>3, OpcodeIs
  <2>5. Flagged => Ambiguous
    <3> SUFFICES ASSUME Flagged PROVE Ambiguous
      OBVIOUS
    <3>1. fl # 0 /\ flag # 0
      BY <2>4 DEF SharedFlag
    <3>2. o.type = "Tuple" /\ shared /\ o = object
      BY <1>2, <2>1, <3>1
    <3> QED BY <3>2 DEF Ambiguous
  <2>6. IsContainer(o)
    BY <1>4 DEF ContainerBytes
  <2> QED BY <2>2, <2>4, <2>5, <2>6
<1> QED BY <1>1, <1>3, <1>4 DEF Encodes

(* An object whose bytes end behind the packet is missing. *)
LEMMA EndsBehind ==
  ASSUME Fed, deflated = 0, NEW M, NEW E, NEW o, NEW t, NEW b, AtObject(M, E, o, t, b),
         mReadIndex \in Nat, ~(mReadIndex + Len(b) <= Len(packet))
  PROVE  Excused
<1>1. Len(packet) \in Nat /\ Len(content) \in Nat
  BY LenProperties DEF Fed, Prefixed
<1>2. mReadIndex + Len(b) <= Len(content) /\ Len(b) \in Nat
  BY DEF AtObject
<1>3. Len(packet) # Len(content)
  BY <1>1, <1>2
<1>4. ~complete
  BY <1>3 DEF Fed
<1> QED BY <1>4 DEF Excused

LEMMA StaysIs ==
  ASSUME UNCHANGED Stays
  PROVE  Same /\ phase' = phase
BY DEF Stays, Same, writer, inflater, ghosts

(* The end of the data, reached on the track, is an end that is missing. *)
LEMMA OutOfDataKeeps == ASSUME Typed, LoadInv, OutOfData PROVE LoadInv'
<1>1. /\ ~returned /\ ~Complete /\ mReadIndex = Len(packet) /\ returned' /\ val' = <<>>
      /\ strayed' = strayed /\ mReadIndex' = mReadIndex /\ frames' = frames /\ Same
  BY StaysIs DEF OutOfData, Unmarshals, Returns, Reads
<1>2. Fed /\ Reaches /\ (OnTrack \/ Doomed)
  BY DEF LoadInv
<1>3. Excused
  <2>1. CASE Doomed
    BY <2>1 DEF Doomed
  <2>2. CASE OnTrack
    <3>1. PICK M, E, o, t, b : AtObject(M, E, o, t, b)
      BY <1>1, <1>2, <2>2, TrackLeads DEF Reaches
    <3>2. deflated = 0 /\ mReadIndex \in Nat
      BY <1>2, <2>2 DEF OnTrack, Reaches
    <3>3. ~(mReadIndex + Len(b) <= Len(packet))
      <4>1. Len(b) \in Nat /\ Len(b) > 0
        BY <3>1 DEF AtObject
      <4> QED BY <1>1, <3>2, <4>1
    <3> QED BY <1>2, <3>1, <3>2, <3>3, EndsBehind
  <2> QED BY <1>2, <2>1, <2>2
<1>4. mReadIndex' \in Nat /\ AreFrames(frames') /\ (~strayed' => mReadIndex' <= Len(packet))
  BY <1>1, <1>2 DEF Reaches
<1> QED BY <1>1, <1>2, <1>3, <1>4, StaysDoomed

(* Off the track a read of something that is strayed returns anything. *)
LEMMA DoomedReads ==
  ASSUME Doomed, ~returned
  PROVE  strayed /\ Spoiled(frames) /\ Excused
BY DEF Doomed

(* No byte that save wrote is another opcode: only off the track is one met. *)
LEMMA UnmarshalOtherKeeps == ASSUME Typed, LoadInv, UnmarshalOther PROVE LoadInv'
<1>1. /\ ~returned /\ ~Complete /\ mReadIndex < Len(packet)
      /\ Opcode \notin LeafOps \cup FixedOps \cup CountedOps /\ mReadIndex' \in (mReadIndex + 1)..Len(packet)
      /\ strayed' = strayed /\ frames' = frames /\ Same
  BY StaysIs DEF UnmarshalOther, Unmarshals, Reads
<1>2. Fed /\ Reaches /\ (OnTrack \/ Doomed)
  BY DEF LoadInv
<1>3. ~OnTrack
  <2> SUFFICES ASSUME OnTrack PROVE FALSE
    OBVIOUS
  <2>1. PICK M, E, o, t, b : AtObject(M, E, o, t, b)
    BY <1>1, <1>2, TrackLeads DEF Reaches
  <2>2. Opcode \in LeafOps \/ Opcode \in FixedOps \cup CountedOps
    BY <1>1, <1>2, <2>1, ObjectFound DEF Reaches
  <2> QED BY <1>1, <2>2
<1>4. strayed' /\ Spoiled(frames') /\ Excused
  BY <1>1, <1>2, <1>3, DoomedReads
<1>5. mReadIndex' \in Nat /\ AreFrames(frames')
  BY <1>1, <1>2 DEF Reaches
<1> QED BY <1>1, <1>2, <1>4, <1>5, StaysDoomed

LEMMA UnmarshalLeafKeeps == ASSUME Typed, LoadInv, UnmarshalLeaf PROVE LoadInv'
<1>1. PICK r \in Leaf(Opcode, mReadIndex + 1) : returned' = TRUE /\ val' = r.value /\ mReadIndex' = r.next
  BY DEF UnmarshalLeaf, Returns
<1>2. /\ ~returned /\ ~Complete /\ mReadIndex < Len(packet) /\ Opcode \in LeafOps
      /\ strayed' = strayed /\ frames' = frames /\ Same
  BY StaysIs DEF UnmarshalLeaf, Unmarshals, Reads
<1>3. Fed /\ Reaches /\ (OnTrack \/ Doomed)
  BY DEF LoadInv
<1>4. mReadIndex \in Nat /\ AreFrames(frames) /\ Len(packet) \in Nat /\ Prefixed
  BY <1>3, LenProperties DEF Reaches, Fed, Prefixed
<1>5. CASE OnTrack
  <2>1. PICK M, E, o, t, b : AtObject(M, E, o, t, b)
    BY <1>2, <1>4, <1>5, TrackLeads
  <2>2. o.kids = <<>> /\ Result(r, mReadIndex + Len(b), o)
    BY <1>2, <1>3, <1>4, <2>1, ObjectFound, OpsApart
  <2> DEFINE q == mReadIndex + Len(b)
  <2>3. /\ Marks(M, content, <<>>, object, shared, confused) /\ Stack(frames, E, object, confused)
        /\ o \in Objects /\ t \in Seq(Objects) /\ Expects(frames, E, object, o, t)
        /\ <<q, o.kids \o t>> \in M /\ q \in Nat /\ (Confuses(o) => confused)
    BY <1>4, <2>1 DEF AtObject
  <2>4. deflated = 0 /\ ~strayed
    BY <1>5 DEF OnTrack
  <2>5. Result(r, q, o)
    BY <2>2
  <2>6. ~(q <= Len(packet)) => Excused
    BY <1>3, <1>4, <2>1, <2>4, EndsBehind
  <2> HIDE DEF q
  <2>7. CASE q <= Len(packet)
    <3>1. PICK v : r = Gives(v, q) /\ (v = o \/ Confuses(o))
      BY <2>5, <2>7 DEF Result
    <3>2. val' = <<v>> /\ mReadIndex' = q
      BY <1>1, <3>1 DEF Gives
    <3>3. o.kids \o t = t
      BY <2>2, <2>3, ConcatEmptySeq
    <3>4. Going(frames, q, M, E, t)
      BY <2>3, <3>3 DEF Going
    <3>5. Returning(frames, E, t, <<v>>)
      <4>1. v = o \/ confused
        BY <2>3, <3>1
      <4> QED BY <2>3, <4>1, Zenon DEF Returning
    <3>6. Tracks(frames, q, TRUE, <<v>>)
      BY <3>4, <3>5, Zenon DEF Tracks
    <3> QED BY <1>1, <1>2, <1>3, <1>4, <2>3, <2>4, <2>7, <3>2, <3>6, StaysOnTrack
  <2>8. CASE ~(q <= Len(packet))
    <3>1. r.value = <<>> /\ r.next \in Nat /\ r.next <= Len(packet)
      BY <2>5, <2>8 DEF Result
    <3> QED BY <1>1, <1>2, <1>3, <1>4, <2>6, <2>8, <3>1, StaysDoomed
  <2> QED BY <2>7, <2>8
<1>6. CASE Doomed
  <2>1. strayed' /\ Spoiled(frames') /\ Excused
    BY <1>2, <1>6, DoomedReads
  <2>2. mReadIndex' \in Nat
    <3>1. mReadIndex + 1 \in Nat /\ mReadIndex + 1 <= Len(packet)
      BY <1>2, <1>4
    <3> QED BY <1>1, <1>2, <1>4, <3>1, LeafNext
  <2> QED BY <1>2, <1>3, <1>4, <2>1, <2>2, StaysDoomed
<1> QED BY <1>3, <1>5, <1>6

LEMMA FrameIs ==
  ASSUME NEW type, NEW n \in Int
  PROVE  IsFrame(Frame(type, n))
BY DEF IsFrame, Frame

LEMMA EnterOnTrack ==
  ASSUME Typed, Fed, OnTrack, AreFrames(frames), ~returned, Same, strayed' = strayed, mReadIndex \in Nat,
         NEW M, NEW E, NEW o, NEW t, NEW b, AtObject(M, E, o, t, b), IsContainer(o), Flagged => Ambiguous,
         NEW q, q = mReadIndex + Len(b), q <= Len(packet), Enter(Frame(o.type, Len(o.kids)), q)
  PROVE  LoadInv'
<1> DEFINE f == Frame(o.type, Len(o.kids))
<1>1. mReadIndex' = q
  BY DEF Enter
<1>2. /\ Marks(M, content, <<>>, object, shared, confused) /\ Stack(frames, E, object, confused)
      /\ o \in Objects /\ t \in Seq(Objects) /\ Expects(frames, E, object, o, t)
      /\ <<q, o.kids \o t>> \in M /\ q \in Nat
  BY DEF AtObject
<1>3. deflated = 0 /\ ~strayed
  BY DEF OnTrack
<1>4. CASE Flagged
  <2>1. returned' /\ val' = <<>> /\ frames' = frames
    BY <1>4 DEF Enter, Returns
  <2>2. Excused
    BY <1>4 DEF Excused
  <2>3. mReadIndex' \in Nat /\ AreFrames(frames') /\ mReadIndex' <= Len(packet)
    BY <1>1, <1>2, <2>1
  <2> QED BY <2>1, <2>2, <2>3, StaysDoomed
<1>5. CASE ~Flagged
  <2> DEFINE gr == Append(frames, f)
  <2>1. frames' = gr /\ returned' = returned /\ val' = val
    BY <1>5 DEF Enter
  <2>2. IsSeq(frames) /\ object \in Objects /\ confused \in BOOLEAN
    BY DEF AreFrames, Typed
  <2>3. PICK G : Awaits(gr, G, object, confused, o.kids \o t)
    BY <1>2, <2>2, StackPush
  <2>4. Stack(gr, G, object, confused) /\ Remain(gr, G, object, Len(G)) = o.kids \o t
    BY <2>3 DEF Awaits
  <2>5. IsFrame(f)
    <3>1. Len(o.kids) \in Int
      BY <1>2, ObjectIs, LenProperties
    <3> QED BY <3>1, FrameIs
  <2> HIDE DEF f
  <2>6. AreFrames(gr)
    BY <2>5, FramesPush
  <2> HIDE DEF gr
  <2>7. Going(gr, q, M, G, o.kids \o t)
    BY <1>2, <2>4 DEF Going
  <2>8. Tracks(gr, q, returned, val)
    <3>1. \E X, Y, U : Going(gr, q, X, Y, U) /\ U = Remain(gr, Y, object, Len(Y))
      BY <2>4, <2>7
    <3> QED BY <3>1 DEF Tracks
  <2> QED BY <1>1, <1>2, <1>3, <2>1, <2>6, <2>8, StaysOnTrack
<1> QED BY <1>4, <1>5

LEMMA EnterDoomed ==
  ASSUME Fed, Excused, AreFrames(frames), Same, strayed' = strayed, strayed, Spoiled(frames),
         NEW f, IsFrame(f), NEW q \in Nat, Enter(f, q)
  PROVE  LoadInv'
<1>1. mReadIndex' = q
  BY DEF Enter
<1>2. AreFrames(frames') /\ Spoiled(frames')
  <2>1. CASE Flagged
    BY <2>1 DEF Enter
  <2>2. CASE ~Flagged
    <3> DEFINE gr == Append(frames, f)
    <3>1. frames' = gr
      BY <2>2 DEF Enter
    <3>2. AreFrames(gr) /\ Len(gr) = Len(frames) + 1 /\ Len(frames) \in Nat /\ \A i \in 1..Len(frames) : gr[i] = frames[i]
      BY FramesPush
    <3>3. PICK k \in 1..Len(frames) : Spoils(frames[k])
      BY DEF Spoiled
    <3> HIDE DEF gr
    <3>4. k \in 1..Len(gr) /\ gr[k] = frames[k]
      BY <3>2
    <3>5. Spoiled(gr)
      BY <3>3, <3>4 DEF Spoiled
    <3> QED BY <3>1, <3>2, <3>5
  <2> QED BY <2>1, <2>2
<1> QED BY <1>1, <1>2, StaysDoomed

LEMMA UnmarshalContainerKeeps == ASSUME Typed, LoadInv, UnmarshalContainer PROVE LoadInv'
<1> DEFINE size == ReadSizeEx(mReadIndex + 1)
           Fix == Opcode \in FixedOps /\ Enter(Fixed(Opcode), mReadIndex + 1)
           Count == /\ Opcode \in CountedOps /\ size.value # <<>>
                    /\ Enter(Counted(Opcode, size.value[1]), size.next)
           Fail == /\ Opcode \in CountedOps /\ size.value = <<>>
                   /\ returned' = TRUE /\ val' = <<>> /\ mReadIndex' = size.next /\ frames' = frames
<1>1. Fix \/ Count \/ Fail
  BY DEF UnmarshalContainer, Returns
<1>2. /\ ~returned /\ ~Complete /\ mReadIndex < Len(packet) /\ strayed' = strayed /\ Same
  BY StaysIs DEF UnmarshalContainer, Unmarshals, Reads
<1>3. Fed /\ Reaches /\ (OnTrack \/ Doomed)
  BY DEF LoadInv
<1>4. mReadIndex \in Nat /\ AreFrames(frames) /\ Len(packet) \in Nat /\ Prefixed
  BY <1>3, LenProperties DEF Reaches, Fed, Prefixed
<1>5. Opcode \in FixedOps \cup CountedOps
  BY <1>1
<1>6. mReadIndex + 1 \in Nat /\ mReadIndex + 1 <= Len(packet)
  BY <1>2, <1>4
<1>7. size.next \in Nat /\ (size.value # <<>> => size.value[1] \in Nat)
  BY <1>4, <1>6, ReadSizeType
<1> HIDE DEF size
<1>8. CASE OnTrack
  <2>1. PICK M, E, o, t, b : AtObject(M, E, o, t, b)
    BY <1>2, <1>4, <1>8, TrackLeads
  <2> DEFINE q == mReadIndex + Len(b)
  <2>2. /\ IsContainer(o) /\ (Flagged => Ambiguous)
        /\ \/ /\ Opcode \in FixedOps /\ Fixed(Opcode) = Frame(o.type, Len(o.kids))
              /\ q = mReadIndex + 1
           \/ /\ Opcode \in CountedOps
              /\ \E n : /\ Counted(Opcode, n) = Frame(o.type, Len(o.kids))
                        /\ Outcome(size, q, n)
    BY <1>2, <1>3, <1>4, <1>5, <2>1, ObjectFound, OpsApart DEF size
  <2>3. deflated = 0 /\ ~strayed
    BY <1>8 DEF OnTrack
  <2>4. ~(q <= Len(packet)) => Excused
    BY <1>3, <1>4, <2>1, <2>3, EndsBehind
  <2>5. ASSUME q <= Len(packet), Enter(Frame(o.type, Len(o.kids)), q) PROVE LoadInv'
    BY <1>2, <1>3, <1>4, <1>8, <2>1, <2>2, <2>5, EnterOnTrack
  <2> HIDE DEF q
  <2>6. CASE Opcode \in FixedOps
    <3>1. Enter(Fixed(Opcode), mReadIndex + 1) /\ Fixed(Opcode) = Frame(o.type, Len(o.kids)) /\ q = mReadIndex + 1
      BY <1>1, <2>2, <2>6, OpsApart
    <3> QED BY <1>6, <2>5, <3>1
  <2>7. CASE Opcode \in CountedOps
    <3>1. PICK n : Counted(Opcode, n) = Frame(o.type, Len(o.kids)) /\ Outcome(size, q, n)
      BY <2>2, <2>7, OpsApart
    <3>2. CASE q <= Len(packet)
      <4>1. size = Gives(n, q)
        BY <3>1, <3>2 DEF Outcome
      <4>2. size.value = <<n>> /\ size.next = q
        BY <4>1 DEF Gives
      <4>3. size.value # <<>> /\ size.value[1] = n
        BY <4>2
      <4>4. Enter(Counted(Opcode, n), q)
        BY <1>1, <2>7, <4>2, <4>3, OpsApart
      <4> QED BY <2>5, <3>1, <3>2, <4>4
    <3>3. CASE ~(q <= Len(packet))
      <4>1. size.value = <<>> /\ size.next \in Nat /\ size.next <= Len(packet)
        BY <3>1, <3>3 DEF Outcome
      <4>2. returned' = TRUE /\ val' = <<>> /\ mReadIndex' = size.next /\ frames' = frames
        BY <1>1, <2>7, <4>1, OpsApart
      <4> QED BY <1>2, <1>3, <1>4, <2>4, <3>3, <4>1, <4>2, StaysDoomed
    <3> QED BY <3>2, <3>3
  <2> QED BY <1>5, <2>6, <2>7
<1>9. CASE Doomed
  <2>1. strayed /\ Spoiled(frames) /\ Excused
    BY <1>2, <1>9, DoomedReads
  <2>2. CASE Fix
    <3>1. IsFrame(Fixed(Opcode))
      BY <2>2, FrameIs DEF Fixed, FixedOps, Op
    <3> QED BY <1>2, <1>3, <1>4, <1>6, <2>1, <2>2, <3>1, EnterDoomed
  <2>3. CASE Count
    <3>1. size.value[1] \in Int /\ 2 * size.value[1] \in Int
      BY <1>7, <2>3
    <3>2. IsFrame(Counted(Opcode, size.value[1]))
      BY <2>3, <3>1, FrameIs DEF Counted, CountedOps, Op
    <3> QED BY <1>2, <1>3, <1>4, <1>7, <2>1, <2>3, <3>2, EnterDoomed
  <2>4. CASE Fail
    BY <1>2, <1>3, <1>4, <1>7, <2>1, <2>4, StaysDoomed
  <2> QED BY <1>1, <2>2, <2>3, <2>4
<1> QED BY <1>3, <1>8, <1>9

LEMMA SpoiledPop ==
  ASSUME NEW fr, AreFrames(fr), fr # <<>>, Spoiled(fr), ~Spoils(fr[Len(fr)])
  PROVE  Spoiled(Popped(fr))
<1>1. PICK k \in 1..Len(fr) : Spoils(fr[k])
  BY DEF Spoiled
<1> DEFINE t == Popped(fr)
<1>2. Len(t) = Len(fr) - 1 /\ Len(fr) \in Nat \ {0} /\ \A i \in 1..(Len(fr) - 1) : t[i] = fr[i]
  BY FramesPop
<1> HIDE DEF t
<1>3. k \in 1..Len(t) /\ t[k] = fr[k]
  BY <1>1, <1>2
<1>4. Spoiled(t)
  BY <1>1, <1>3 DEF Spoiled
<1> QED BY <1>4 DEF t

LEMMA SpoiledTop ==
  ASSUME NEW fr, AreFrames(fr), NEW f, IsFrame(f), Spoils(f) \/ Spoiled(fr)
  PROVE  Spoiled(Append(fr, f))
<1> DEFINE t == Append(fr, f)
<1>1. Len(t) = Len(fr) + 1 /\ Len(fr) \in Nat /\ t[Len(fr) + 1] = f /\ \A i \in 1..Len(fr) : t[i] = fr[i]
  BY FramesPush
<1> HIDE DEF t
<1>2. ASSUME Spoils(f) PROVE Spoiled(Append(fr, f))
  <2> DEFINE k == Len(fr) + 1
  <2>1. k \in 1..Len(t) /\ t[k] = f
    BY <1>1
  <2> HIDE DEF k
  <2>2. Spoils(t[k])
    BY <1>2, <2>1
  <2>3. Spoiled(t)
    BY <2>1, <2>2 DEF Spoiled
  <2> QED BY <2>3 DEF t
<1>3. ASSUME Spoiled(fr) PROVE Spoiled(Append(fr, f))
  <2>1. PICK k \in 1..Len(fr) : Spoils(fr[k])
    BY <1>3 DEF Spoiled
  <2>2. k \in 1..Len(t) /\ t[k] = fr[k]
    BY <1>1
  <2>3. Spoils(t[k])
    BY <2>1, <2>2
  <2>4. Spoiled(t)
    BY <2>2, <2>3 DEF Spoiled
  <2> QED BY <2>4 DEF t
<1> QED BY <1>2, <1>3, Zenon

LEMMA TakeChildKeeps == ASSUME Typed, LoadInv, TakeChild PROVE LoadInv'
<1> DEFINE top == frames[Len(frames)]
           f == [top EXCEPT !.left = @ - 1, !.bad = @ \/ val = <<>>, !.kids = @ \o val]
           fr == Popped(frames)
           gr == Append(fr, f)
<1>1. /\ returned /\ frames # <<>> /\ Same /\ mReadIndex' = mReadIndex
      /\ strayed' = (strayed \/ (~GivesUp(top) /\ val = <<>>))
  BY StaysIs DEF TakeChild, Top
<1>2. GivesUp(top) => frames' = fr /\ returned' = TRUE /\ val' = <<>>
  BY DEF TakeChild, Returns, Pop, Top, Popped
<1>3. ~GivesUp(top) => frames' = gr /\ returned' = FALSE /\ val' = <<>>
  BY DEF TakeChild, Returns, Pop, Top, Popped
<1>4. Fed /\ Reaches /\ (OnTrack \/ Doomed)
  BY DEF LoadInv
<1>5. mReadIndex \in Nat /\ AreFrames(frames) /\ (~strayed => mReadIndex <= Len(packet))
  BY <1>4 DEF Reaches
<1>6. IsFrame(top) /\ AreFrames(fr) /\ Len(fr) = Len(frames) - 1 /\ Len(frames) \in Nat \ {0}
  BY <1>1, <1>5, FramesPop
<1> HIDE DEF top
<1>7. /\ f.type = top.type /\ f.left = top.left - 1 /\ f.kids = top.kids \o val
      /\ f.bad <=> top.bad \/ val = <<>>
  BY <1>6 DEF IsFrame
<1>8. IsFrame(f)
  <2>1. f = [x \in {"type", "left", "bad", "kids"} |-> f[x]]
    BY <1>6 DEF IsFrame
  <2>2. top.left - 1 \in Int /\ f.left = top.left - 1
    BY <1>6, <1>7 DEF IsFrame
  <2> QED BY <2>1, <2>2 DEF IsFrame
<1> HIDE DEF f
<1>9. AreFrames(gr)
  BY <1>6, <1>8, FramesPush
<1>10. CASE OnTrack
  <2>1. PICK M, E, U : Going(frames, mReadIndex, M, E, U) /\ Returning(frames, E, U, val)
    BY <1>1, <1>10 DEF OnTrack, Tracks
  <2>2. PICK o, v : o \in Objects /\ val = <<v>> /\ (v = o \/ confused) /\ Expects(frames, E, object, o, U)
    BY <2>1 DEF Returning
  <2>3. /\ Marks(M, content, <<>>, object, shared, confused) /\ <<mReadIndex, U>> \in M
        /\ Stack(frames, E, object, confused)
    BY <2>1 DEF Going
  <2>4. object \in Objects /\ shared \in BOOLEAN /\ confused \in BOOLEAN /\ IsSeq(frames)
    BY <1>5 DEF Typed, AreFrames
  <2>5. U \in Seq(Objects)
    BY <2>3, <2>4, MarkIs
  <2>6. val # <<>>
    BY <2>2
  <2>7. ~top.bad
    <3>1. Len(frames) \in 1..Len(E)
      BY <1>6, <2>3 DEF Stack
    <3> QED BY <2>3, <3>1 DEF Stack, Follows, top
  <2>8. ~GivesUp(top)
    BY <2>6, <2>7 DEF GivesUp
  <2>9. Took(f, top, v)
    <3>1. f.bad = FALSE
      BY <1>8, <1>7, <2>6, <2>7 DEF f
    <3> QED BY <1>7, <2>2, <3>1 DEF Took
  <2>10. Awaits(gr, E, object, confused, U)
    BY <1>1, <2>2, <2>3, <2>4, <2>5, <2>9, StackTake DEF top
  <2> HIDE DEF gr
  <2>11. Going(gr, mReadIndex, M, E, U) /\ U = Remain(gr, E, object, Len(E))
    BY <2>3, <2>10 DEF Going, Awaits
  <2>12. Tracks(gr, mReadIndex, FALSE, <<>>)
    BY <2>11 DEF Tracks
  <2>13. ~strayed /\ deflated = 0
    BY <1>10 DEF OnTrack
  <2> QED BY <1>1, <1>3, <1>4, <1>5, <1>9, <2>6, <2>8, <2>12, <2>13, StaysOnTrack
<1>11. CASE Doomed
  <2>1. Excused /\ (val = <<>> \/ (strayed /\ Spoiled(frames)))
    BY <1>11 DEF Doomed
  <2>2. CASE GivesUp(top)
    <3>1. frames' = fr /\ returned' /\ val' = <<>> /\ (~strayed' => ~strayed)
      BY <1>1, <1>2, <2>2
    <3> QED BY <1>1, <1>4, <1>5, <1>6, <2>1, <3>1, StaysDoomed
  <2>3. CASE ~GivesUp(top)
    <3>1. strayed'
      BY <1>1, <2>1, <2>3
    <3>2. Spoils(f) \/ Spoiled(fr)
      <4>1. CASE val = <<>>
        <5>1. top.type = "Dict" /\ ~(top.left % 2 = 1)
          BY <2>3, <4>1 DEF GivesUp
        <5>2. top.left \in Int
          BY <1>6 DEF IsFrame
        <5>3. (top.left - 1) % 2 = 1
          BY <5>1, <5>2
        <5> QED BY <1>7, <4>1, <5>1, <5>3 DEF Spoils
      <4>2. CASE strayed /\ Spoiled(frames)
        <5>1. ~Spoils(top)
          BY <2>3 DEF GivesUp, Spoils
        <5> QED BY <1>1, <1>5, <4>2, <5>1, SpoiledPop DEF top
      <4> QED BY <2>1, <4>1, <4>2
    <3>3. Spoiled(gr)
      BY <1>6, <1>8, <3>2, SpoiledTop
    <3> HIDE DEF gr
    <3>4. frames' = gr
      BY <1>3, <2>3
    <3> QED BY <1>1, <1>4, <1>5, <1>9, <2>1, <3>1, <3>3, <3>4, StaysDoomed
  <2> QED BY <2>2, <2>3
<1> QED BY <1>4, <1>10, <1>11

LEMMA CompleteContainerKeeps == ASSUME Typed, LoadInv, CompleteContainer PROVE LoadInv'
<1> DEFINE top == frames[Len(frames)]
           fr == Popped(frames)
           w == Object(top.type, <<>>, top.kids)
<1>1. /\ ~returned /\ frames # <<>> /\ top.left = 0 /\ Same /\ mReadIndex' = mReadIndex /\ strayed' = strayed
      /\ returned' = TRUE /\ val' = <<w>> /\ frames' = fr
  BY StaysIs DEF CompleteContainer, Complete, Top, Pop, Popped, Returns, Reads
<1>2. Fed /\ Reaches /\ (OnTrack \/ Doomed)
  BY DEF LoadInv
<1>3. mReadIndex \in Nat /\ AreFrames(frames) /\ (~strayed => mReadIndex <= Len(packet))
  BY <1>2 DEF Reaches
<1>4. AreFrames(fr)
  BY <1>1, <1>3, FramesPop
<1>5. CASE OnTrack
  <2>1. PICK M, E, U : Going(frames, mReadIndex, M, E, U) /\ U = Remain(frames, E, object, Len(E))
    BY <1>1, <1>5 DEF OnTrack, Tracks
  <2>2. /\ Marks(M, content, <<>>, object, shared, confused) /\ <<mReadIndex, U>> \in M
        /\ Stack(frames, E, object, confused)
    BY <2>1 DEF Going
  <2>3. object \in Objects /\ shared \in BOOLEAN /\ confused \in BOOLEAN /\ IsSeq(frames)
    BY <1>3 DEF Typed, AreFrames
  <2> DEFINE o == E[Len(E)].obj
  <2>4. /\ o \in Objects /\ (confused \/ w = o)
        /\ \E G : Stack(fr, G, object, confused) /\ Expects(fr, G, object, o, Remain(frames, E, object, Len(E)))
    BY <1>1, <2>2, <2>3, StackPop
  <2> HIDE DEF o, fr, w
  <2>5. PICK G : Stack(fr, G, object, confused) /\ Expects(fr, G, object, o, U)
    BY <2>1, <2>4
  <2>6. Going(fr, mReadIndex, M, G, U)
    BY <2>2, <2>5 DEF Going
  <2>7. Returning(fr, G, U, <<w>>)
    BY <2>4, <2>5, Zenon DEF Returning
  <2>8. Tracks(fr, mReadIndex, TRUE, <<w>>)
    BY <2>6, <2>7, Zenon DEF Tracks
  <2>9. ~strayed /\ deflated = 0
    BY <1>5 DEF OnTrack
  <2> QED BY <1>1, <1>2, <1>3, <1>4, <2>8, <2>9, StaysOnTrack
<1>6. CASE Doomed
  <2>1. strayed /\ Spoiled(frames) /\ Excused
    BY <1>1, <1>6, DoomedReads
  <2>2. ~Spoils(top)
    BY <1>1 DEF Spoils
  <2>3. Spoiled(fr)
    BY <1>1, <1>3, <2>1, <2>2, SpoiledPop
  <2> QED BY <1>1, <1>2, <1>3, <1>4, <2>1, <2>3, StaysDoomed
<1> QED BY <1>2, <1>5, <1>6
-----------------------------------------------------------------------------
(* The reader before it is given anything, at the head of the packet, and at the end. *)
Untouched ==
  /\ packet = <<>> /\ mReadIndex = 0 /\ deflated = 0 /\ complete = TRUE /\ multiplier = 4 /\ loops = 0
  /\ frames = <<>> /\ returned = FALSE /\ val = <<>> /\ strayed = FALSE
Opening ==
  /\ Fed /\ mReadIndex = 0 /\ frames = <<>> /\ ~returned /\ val = <<>> /\ ~strayed
  /\ loops \in 0..(MaxLoops + 1) /\ multiplier = 4 * Power(2, loops)
  /\ deflated * multiplier < Power(Base, IntBytes)
LoadedInv ==
  /\ ~strayed => mReadIndex <= Len(packet)
  /\ (val = <<>> /\ Excused) \/ (complete /\ (val = <<object>> \/ confused))
Before == {"save", "saved", "trapped", "fault"}
ReaderInv ==
  /\ phase \in Before \cup {"header", "load", "loaded"}
  /\ phase \in Before => Untouched
  /\ phase = "header" => Opening
  /\ phase = "load" => LoadInv
  /\ phase = "loaded" => LoadedInv

LEMMA ModSmall ==
  ASSUME NEW P \in Nat \ {0}, NEW x \in 0..(P - 1)
  PROVE  x % P = x
<1>1. (P * 0 + x) % P = x
  BY DivModUnique
<1> QED BY <1>1

LEMMA NoFrames == AreFrames(<<>>) /\ Len(<<>>) = 0
<1>1. <<>> \in Seq(Nat) /\ Len(<<>>) = 0
  BY EmptySeq
<1>2. IsSeq(<<>>)
  BY <1>1, SeqIsSeq
<1> QED BY <1>1, <1>2 DEF AreFrames

(* What was saved is given to the reader, whole, cut short or deflated. *)
LEMMA OpenKeeps == ASSUME WriterInv, Untouched, Open PROVE Opening'
<1>1. ret /\ ~headerLost /\ content' = content
  BY DEF Open, writer
<1>2. content \in Seq(Nat) /\ mSize \in Nat /\ Len(content) <= mSize /\ Allocatable(mSize)
  BY <1>1 DEF WriterInv
<1>3. Len(content) \in Nat /\ Power(Base, IntBytes) \in Nat \ {0}
  BY <1>2, LenProperties, SizesFit
<1>4. 2 * Len(content) <= Power(Base, IntBytes)
  <2> DEFINE P == Power(Base, IntBytes)
  <2>1. 2 * mSize <= P /\ P \in Nat
    BY <1>2, <1>3 DEF Allocatable
  <2> HIDE DEF P
  <2>2. 2 * Len(content) <= P
    BY <1>2, <1>3, <2>1
  <2> QED BY <2>2 DEF P
<1>5. /\ mReadIndex' = 0 /\ multiplier' = 4 /\ loops' = 0 /\ frames' = <<>> /\ returned' = FALSE
      /\ val' = <<>> /\ strayed' = FALSE
  BY DEF Open, Untouched
<1>6. Power(2, 0) = 1 /\ 0 \in 0..(MaxLoops + 1)
  BY PowerZero, CodecAssumption
<1>7. CASE /\ \E len \in 1..Len(content) : packet' = SubSeq(content, 1, len) /\ complete' = (len = Len(content))
           /\ deflated' = deflated
  <2>1. PICK len \in 1..Len(content) : packet' = SubSeq(content, 1, len) /\ (complete' <=> len = Len(content))
                                       /\ complete' \in BOOLEAN
    BY <1>7
  <2>2. deflated' = 0
    BY <1>7 DEF Untouched
  <2>3. 1 \in Int /\ len \in Int /\ \A i \in 1..len : content[i] \in Nat
    BY <1>2, <1>3, ElementOfSeq
  <2>4. /\ packet' \in Seq(Nat) /\ Len(packet') = IF 1 <= len THEN len - 1 + 1 ELSE 0
        /\ \A i \in 1..(len - 1 + 1) : packet'[i] = content[1 + i - 1]
    BY <2>1, <2>3, SubSeqProperties
  <2>5. Len(packet') = len /\ \A i \in 1..len : packet'[i] = content[i]
    BY <1>3, <2>3, <2>4
  <2>6. Prefixed'
    BY <1>1, <1>2, <1>3, <1>4, <2>4, <2>5 DEF Prefixed
  <2>7. Fed'
    BY <1>1, <1>3, <2>1, <2>2, <2>5, <2>6 DEF Fed
  <2>8. deflated' * multiplier' < Power(Base, IntBytes)
    BY <1>3, <1>5, <2>2
  <2> QED BY <1>5, <1>6, <2>7, <2>8 DEF Opening
<1>8. CASE deflated' \in Deflated /\ complete' \in BOOLEAN /\ packet' = content
  <2>1. deflated' \in Nat \ {0} /\ 4 * deflated' < Power(Base, IntBytes)
    BY <1>8, CodecAssumption, SizesAssumption
  <2>2. Prefixed'
    BY <1>1, <1>2, <1>3, <1>4, <1>8 DEF Prefixed
  <2>3. Fed'
    BY <1>1, <1>8, <2>1, <2>2 DEF Fed
  <2>4. deflated' * multiplier' < Power(Base, IntBytes)
    BY <1>5, <2>1
  <2> QED BY <1>5, <1>6, <2>3, <2>4 DEF Opening
<1> QED BY <1>7, <1>8 DEF Open

(* No product of checkAndInflate wraps while the output is too small. *)
LEMMA InflateKeeps == ASSUME Typed, Opening, Inflate PROVE (phase' = "header" /\ Opening') \/ (phase' = "load" /\ LoadInv')
<1> DEFINE P == Power(Base, IntBytes)
           x == deflated * multiplier
           y == Power(2, loops)
<1>1. /\ deflated > 0 /\ phase = "header" /\ mReadIndex' = 0 /\ frames' = <<>> /\ val' = <<>> /\ strayed' = strayed
      /\ UNCHANGED <<object, shared, confused, content, packet, complete>> /\ ~strayed'
  BY DEF Inflate, Opening, writer, ghosts
<1>2. /\ Fed /\ Prefixed /\ deflated \in Nat \ {0} /\ Len(packet) \in Nat /\ Len(content) \in Nat
      /\ Len(packet) <= Len(content) /\ 2 * Len(content) <= P
  BY <1>1, LenProperties DEF Opening, Fed, Prefixed
<1>3. /\ MaxLoops \in Nat /\ loops \in Nat /\ loops <= MaxLoops + 1 /\ multiplier = 4 * y /\ x < P
      /\ 2 \in Nat \ {0} /\ P \in Nat \ {0}
  BY CodecAssumption, SizesFit DEF Opening
<1>4. y \in Nat \ {0} /\ Power(2, loops + 1) = 2 * y
  BY <1>3, PowerPositive, PowerStep
<1> HIDE DEF y
<1>5. multiplier \in Nat \ {0}
  BY <1>3, <1>4
<1>6. x \in Nat \ {0} /\ x >= multiplier
  BY <1>2, <1>5, TimesPositive
<1>7. OutBuffer = x
  <2>1. x \in 0..(P - 1)
    BY <1>3, <1>6
  <2> HIDE DEF x, P
  <2>2. x % P = x
    BY <1>3, <2>1, ModSmall
  <2> QED BY <2>2 DEF x, P, OutBuffer
<1> HIDE DEF P
<1>8. CASE complete /\ deflated' = 0 /\ UNCHANGED <<phase, returned, multiplier, loops>>
  <2>1. Fed'
    BY <1>1, <1>2, <1>8 DEF Fed, Prefixed
  <2>2. deflated' * multiplier' < Power(Base, IntBytes)
    <3>1. deflated' * multiplier' = 0
      BY <1>5, <1>8
    <3> QED BY <1>3, <3>1 DEF P
  <2> QED BY <1>1, <1>8, <2>1, <2>2 DEF Opening
<1>9. CASE (~complete \/ OutBuffer = 0 \/ (~Fits /\ ~MoreLoops)) /\ LoadRefuses /\ UNCHANGED deflated
  <2>1. phase' = "load" /\ returned' = TRUE /\ Same
    BY <1>1, <1>9 DEF LoadRefuses, Same
  <2>2. Excused
    <3>1. CASE ~complete
      BY <3>1 DEF Excused
    <3>2. CASE complete /\ ~Fits /\ ~MoreLoops
      <4>1. Len(packet) = Len(content)
        BY <1>2, <3>2 DEF Fed
      <4>2. x < Len(content)
        BY <1>2, <1>6, <1>7, <3>2, <4>1 DEF Fits
      <4>3. loops = MaxLoops + 1
        BY <1>3, <3>2 DEF MoreLoops
      <4>4. x = deflated * 4 * Power(2, MaxLoops + 1)
        <5>1. deflated * (4 * y) = deflated * 4 * y
          BY <1>2, <1>4
        <5> QED BY <1>3, <4>3, <5>1 DEF y
      <4> QED BY <1>1, <4>2, <4>4 DEF Excused, Ambiguous
    <3>3. OutBuffer # 0
      BY <1>6, <1>7
    <3> QED BY <1>9, <3>1, <3>2, <3>3
  <2>3. mReadIndex' \in Nat /\ AreFrames(frames') /\ mReadIndex' <= Len(packet)
    BY <1>1, <1>2, NoFrames
  <2>4. LoadInv'
    BY <1>1, <1>2, <2>1, <2>2, <2>3, StaysDoomed
  <2> QED BY <2>1, <2>4
<1>10. CASE /\ ~Fits /\ MoreLoops
            /\ multiplier' = (2 * multiplier) % Power(Base, IntBytes) /\ loops' = loops + 1
            /\ UNCHANGED <<phase, returned, deflated>>
  <2>1. x < Len(packet)
    BY <1>2, <1>6, <1>7, <1>10 DEF Fits
  <2>2. 2 * x < P
    <3> HIDE DEF x
    <3> QED BY <1>2, <1>3, <1>6, <2>1
  <2>3. 2 * multiplier \in 0..(P - 1)
    <3> HIDE DEF x
    <3> QED BY <1>3, <1>5, <1>6, <2>2
  <2>4. multiplier' = 2 * multiplier
    <3> DEFINE z == 2 * multiplier
    <3>1. z \in 0..(P - 1)
      BY <2>3
    <3> HIDE DEF z
    <3>2. z % P = z
      BY <1>3, <3>1, ModSmall
    <3> QED BY <1>10, <3>2 DEF z, P
  <2>5. multiplier' = 4 * Power(2, loops')
    BY <1>3, <1>4, <1>10, <2>4
  <2>6. deflated' * multiplier' < P
    <3>1. deflated * (2 * multiplier) = 2 * x
      BY <1>2, <1>5
    <3> QED BY <1>10, <2>2, <2>4, <3>1
  <2>7. loops' \in 0..(MaxLoops + 1)
    BY <1>3, <1>10 DEF MoreLoops
  <2>8. Fed'
    BY <1>1, <1>2, <1>10 DEF Fed, Prefixed
  <2> QED BY <1>1, <1>10, <2>5, <2>6, <2>7, <2>8 DEF Opening, P
<1> QED BY <1>8, <1>9, <1>10 DEF Inflate
-----------------------------------------------------------------------------
(* Behind the header is the first mark, or the packet ends before it. *)
LEMMA ReadMarshalHeaderKeeps ==
  ASSUME Typed, Written, Opening, ReadMarshalHeader
  PROVE  phase' = "load" /\ LoadInv'
<1>1. /\ Fed /\ Prefixed /\ deflated = 0 /\ mReadIndex = 0 /\ frames = <<>> /\ ~returned /\ val = <<>> /\ ~strayed
      /\ phase' = "load" /\ frames' = <<>> /\ val' = <<>> /\ strayed' = strayed
      /\ Len(packet) \in Nat /\ Len(content) \in Nat /\ Len(packet) <= Len(content)
  BY LenProperties DEF Opening, Fed, Prefixed, ReadMarshalHeader, LoadRefuses
<1>2. Same /\ ~strayed'
  BY <1>1 DEF Same, ReadMarshalHeader, writer, ghosts, inflater
<1>3. PICK M : Marks(M, content, <<>>, object, shared, confused)
  BY DEF Written
<1>4. object \in Objects /\ shared \in BOOLEAN /\ confused \in BOOLEAN
  BY DEF Typed
<1>5. <<1 + IntBytes, <<object>>>> \in M
  BY <1>3 DEF Marks
<1>6. IntBytes = 4 /\ 1 + IntBytes \in Nat /\ 1 + IntBytes <= Len(content)
  BY <1>3, <1>4, <1>5, MarkIs DEF IntBytes
<1>7. CASE Has(0, 1) /\ Has(1, IntBytes)
  <2>1. mReadIndex' = 1 + IntBytes /\ returned' = returned
    BY <1>7 DEF ReadMarshalHeader
  <2>2. 0 + 1 <= Len(packet) /\ 1 + IntBytes <= Len(packet)
    <3>1. 0 + 1 <= Len(packet)
      BY <1>1, <1>7, HasSmall
    <3>2. Has(1, IntBytes) <=> 1 + IntBytes <= Len(packet)
      BY <1>1, <1>6, <3>1, HasSmall
    <3> QED BY <1>7, <3>1, <3>2
  <2>3. <<>> \in Seq(Entry) /\ Len(<<>>) = 0
    BY EmptySeq
  <2>4. Stack(<<>>, <<>>, object, confused)
    BY <2>3 DEF Stack
  <2>5. Remain(<<>>, <<>>, object, Len(<<>>)) = <<object>>
    BY <2>3 DEF Remain
  <2>6. Tracks(<<>>, 1 + IntBytes, FALSE, <<>>)
    BY <1>3, <1>5, <2>4, <2>5 DEF Tracks, Going
  <2>7. returned' = FALSE
    BY <1>1, <2>1 DEF ReadMarshalHeader, Opening, Untouched
  <2>8. AreFrames(<<>>)
    BY NoFrames
  <2> QED BY <1>1, <1>2, <1>6, <2>1, <2>2, <2>6, <2>7, <2>8, StaysOnTrack
<1>8. CASE ~(Has(0, 1) /\ Has(1, IntBytes))
  <2>1. mReadIndex' = 0 /\ returned' = TRUE
    BY <1>1, <1>8 DEF ReadMarshalHeader, LoadRefuses
  <2>2. ~(1 + IntBytes <= Len(packet))
    <3>1. Has(0, 1) <=> 0 + 1 <= Len(packet)
      BY <1>1, HasSmall
    <3>2. CASE Len(packet) = 0
      BY <1>6, <3>2
    <3>3. CASE Len(packet) >= 1
      <4>1. Has(1, IntBytes) <=> 1 + IntBytes <= Len(packet)
        BY <1>1, <1>6, <3>3, HasSmall
      <4> QED BY <1>8, <3>1, <3>3, <4>1
    <3> QED BY <1>1, <3>2, <3>3
  <2>3. Excused
    BY <1>1, <1>6, <2>2 DEF Fed, Excused
  <2>4. mReadIndex' \in Nat /\ AreFrames(frames') /\ mReadIndex' <= Len(packet)
    BY <1>1, <2>1, NoFrames
  <2> QED BY <1>1, <1>2, <2>1, <2>3, <2>4, StaysDoomed
<1> QED BY <1>7, <1>8

(* On the track, no object is left when the outermost call has returned. *)
LEMMA LoadedKeeps == ASSUME Typed, LoadInv, Loaded PROVE LoadedInv'
<1>1. UNCHANGED <<object, shared, confused, content, packet, mReadIndex, deflated, complete, val, strayed>>
      /\ returned /\ frames = <<>>
  BY DEF Loaded, writer, reader, ghosts, inflater
<1>2. object \in Objects /\ shared \in BOOLEAN /\ confused \in BOOLEAN /\ complete \in BOOLEAN
  BY DEF Typed, LoadInv, Fed
<1>3. LoadedInv
  <2>1. ~strayed => mReadIndex <= Len(packet)
    BY DEF LoadInv, Reaches
  <2>2. CASE OnTrack
    <3>1. ~strayed /\ deflated = 0 /\ Tracks(<<>>, mReadIndex, TRUE, val)
      BY <1>1, <2>2 DEF OnTrack, Tracks
    <3>2. PICK M, E, U : Going(<<>>, mReadIndex, M, E, U) /\ Returning(<<>>, E, U, val)
      BY <3>1 DEF Tracks
    <3>3. PICK o, v : o \in Objects /\ val = <<v>> /\ (v = o \/ confused) /\ Expects(<<>>, E, object, o, U)
      BY <3>2 DEF Returning
    <3>4. /\ Marks(M, content, <<>>, object, shared, confused) /\ <<mReadIndex, U>> \in M
          /\ Len(E) = 0
      BY <3>2, NoFrames DEF Going, Stack
    <3>5. U \in Seq(Objects) /\ <<>> \in Seq(Objects)
      BY <1>2, <3>4, MarkIs
    <3>6. <<object>> \o <<>> = <<o>> \o U
      <4>1. <<object>> = <<o>> \o U
        BY <3>3, <3>4 DEF Expects, Remain
      <4>2. <<object>> \o <<>> = <<object>>
        <5>1. <<object>> \in Seq(Objects)
          BY <1>2
        <5> QED BY <5>1, ConcatEmptySeq
      <4> QED BY <4>1, <4>2
    <3>7. o = object /\ U = <<>>
      BY <1>2, <3>5, <3>6, SameFirst
    <3>8. mReadIndex = Len(content)
      BY <1>2, <3>4, <3>7, MarkEnds
    <3>9. complete
      <4>1. Len(packet) \in Nat /\ Len(content) \in Nat
        BY LenProperties DEF LoadInv, Fed, Prefixed
      <4> QED BY <1>2, <2>1, <3>1, <3>8, <4>1 DEF LoadInv, Fed
    <3> QED BY <2>1, <3>3, <3>7, <3>9 DEF LoadedInv
  <2>3. CASE Doomed
    <3>1. ~Spoiled(frames)
      BY <1>1, NoFrames DEF Spoiled
    <3> QED BY <2>1, <2>3, <3>1 DEF Doomed, LoadedInv
  <2> QED BY <2>2, <2>3 DEF LoadInv
<1>4. (LoadedInv <=> LoadedInv')
  BY <1>1 DEF LoadedInv, Excused, Ambiguous
<1> QED BY <1>3, <1>4

LEMMA ReaderInit == Init => ReaderInv
BY DEF Init, ReaderInv, Untouched, Before

(* A step of save leaves what is to be read as it is. *)
LEMMA ReaderRests ==
  ASSUME ReaderInv, UNCHANGED reader, phase \in Before, phase' \in Before
  PROVE  ReaderInv'
<1>1. Untouched /\ phase' \notin {"header", "load", "loaded"}
  BY DEF ReaderInv, Before
<1>2. Untouched'
  BY <1>1 DEF Untouched, reader, inflater
<1> QED BY <1>1, <1>2 DEF ReaderInv

LEMMA ReaderNext == ASSUME WriterInv, ReaderInv, [Next]_vars PROVE ReaderInv'
<1>0. Typed
  BY DEF WriterInv, Typed
<1>1. CASE Marshal \/ WriteInPlace \/ WriteReallocated \/ ReallocFails \/ WriteRefused \/ Saved
  <2>1. UNCHANGED reader /\ phase = "save"
    BY <1>1 DEF Marshal, WriteInPlace, WriteReallocated, ReallocFails, WriteRefused, Saved, Saving
  <2>2. phase' \in {phase, "saved", "trapped", "fault"}
    BY <1>1 DEF Marshal, WriteInPlace, WriteReallocated, ReallocFails, WriteFailed, WriteRefused, Saved, SaveReturns
  <2> QED BY <2>1, <2>2, ReaderRests DEF Before
<1>2. CASE Open
  <2>1. phase = "saved" /\ phase' = "header"
    BY <1>2 DEF Open
  <2>2. Opening'
    BY <1>2, <2>1, OpenKeeps DEF ReaderInv, Before
  <2> QED BY <2>1, <2>2 DEF ReaderInv, Before
<1>3. CASE Inflate
  <2>1. Opening
    BY <1>3 DEF Inflate, ReaderInv
  <2>2. (phase' = "header" /\ Opening') \/ (phase' = "load" /\ LoadInv')
    BY <1>0, <1>3, <2>1, InflateKeeps
  <2> QED BY <2>2 DEF ReaderInv, Before
<1>4. CASE ReadMarshalHeader
  <2>1. phase = "header" /\ Opening
    BY <1>4 DEF ReadMarshalHeader, ReaderInv
  <2>2. Written
    BY <2>1 DEF WriterInv
  <2>3. phase' = "load" /\ LoadInv'
    BY <1>0, <1>4, <2>1, <2>2, ReadMarshalHeaderKeeps
  <2> QED BY <2>3 DEF ReaderInv, Before
<1>5. CASE OutOfData \/ UnmarshalLeaf \/ UnmarshalOther \/ UnmarshalContainer \/ TakeChild \/ CompleteContainer
  <2>1. phase = "load" /\ phase' = phase
    BY <1>5 DEF OutOfData, UnmarshalLeaf, UnmarshalOther, UnmarshalContainer, TakeChild, CompleteContainer,
                Unmarshals, Reads, Stays
  <2>2. LoadInv
    BY <2>1 DEF ReaderInv
  <2>3. LoadInv'
    BY <1>0, <1>5, <2>2, OutOfDataKeeps, UnmarshalLeafKeeps, UnmarshalOtherKeeps, UnmarshalContainerKeeps,
       TakeChildKeeps, CompleteContainerKeeps
  <2> QED BY <2>1, <2>3 DEF ReaderInv, Before
<1>6. CASE Loaded
  <2>1. phase = "load" /\ phase' = "loaded"
    BY <1>6 DEF Loaded
  <2>2. LoadedInv'
    BY <1>0, <1>6, <2>1, LoadedKeeps DEF ReaderInv
  <2> QED BY <2>1, <2>2 DEF ReaderInv, Before
<1>7. CASE UNCHANGED vars
  <2>1. /\ UNCHANGED <<phase, object, shared, confused, content, packet, mReadIndex, deflated, complete, multiplier,
                       loops, frames, returned, val, strayed>>
    BY <1>7 DEF vars, writer, reader, ghosts, inflater
  <2>2. Untouched => Untouched'
    BY <2>1 DEF Untouched
  <2>3. Opening => Opening'
    BY <2>1 DEF Opening, Fed, Prefixed
  <2>4. LoadInv => LoadInv'
    <3>1. Same
      BY <2>1 DEF Same
    <3>2. Fed => Fed'
      BY <3>1, SameKeeps
    <3>3. OnTrack => OnTrack'
      BY <2>1, <3>1, SameKeeps DEF OnTrack
    <3>4. Doomed => Doomed'
      BY <2>1 DEF Doomed, Excused, Ambiguous, Spoiled
    <3>5. Reaches => Reaches'
      BY <2>1 DEF Reaches
    <3> QED BY <3>2, <3>3, <3>4, <3>5 DEF LoadInv
  <2>5. LoadedInv => LoadedInv'
    BY <2>1 DEF LoadedInv, Excused, Ambiguous
  <2> QED BY <2>1, <2>2, <2>3, <2>4, <2>5 DEF ReaderInv
<1> QED BY <1>1, <1>2, <1>3, <1>4, <1>5, <1>6, <1>7 DEF Next

(* The inductive invariant of save and load. *)
LEMMA CodecKeeps == Spec => [](WriterInv /\ ReaderInv)
<1>1. Init => WriterInv /\ ReaderInv
  BY WriterInit, ReaderInit
<1>2. WriterInv /\ ReaderInv /\ [Next]_vars => (WriterInv /\ ReaderInv)'
  BY WriterNext, ReaderNext
<1> QED BY <1>1, <1>2, PTL DEF Spec

(* EndHolds, for every object and every place where its bytes may end: no read   *)
(* of ReadStream passes the end of the packet but behind a payload that is       *)
(* missing, and load returns NULL for every packet that is not whole.            *)
THEOREM TruncatedIsRefused == Spec => []EndHolds
<1>1. WriterInv /\ ReaderInv => EndHolds
  <2> SUFFICES ASSUME WriterInv, ReaderInv PROVE EndHolds
    OBVIOUS
  <2>1. CASE phase \in Before
    <3>1. packet = <<>> /\ mReadIndex = 0 /\ phase # "loaded"
      BY <2>1 DEF ReaderInv, Untouched, Before
    <3> QED BY <3>1, NoFrames DEF EndHolds
  <2>2. CASE phase = "header"
    <3>1. mReadIndex = 0 /\ Len(packet) \in Nat
      BY <2>2, LenProperties DEF ReaderInv, Opening, Fed, Prefixed
    <3> QED BY <2>2, <3>1 DEF EndHolds
  <2>3. CASE phase = "load"
    BY <2>3 DEF ReaderInv, LoadInv, Reaches, EndHolds
  <2>4. CASE phase = "loaded"
    BY <2>4 DEF ReaderInv, LoadedInv, EndHolds
  <2> QED BY <2>1, <2>2, <2>3, <2>4 DEF ReaderInv
<1> QED BY <1>1, CodecKeeps, PTL

(* RoundTrip, for every set of objects: load returns the object that save wrote, *)
(* or one of the three exceptions of Ambiguous applies.                          *)
THEOREM LoadReturnsWhatWasSaved == Spec => []RoundTrip
<1>1. WriterInv /\ ReaderInv => RoundTrip
  BY DEF ReaderInv, LoadedInv, RoundTrip, Excused, Ambiguous
<1> QED BY <1>1, CodecKeeps, PTL
=============================================================================
