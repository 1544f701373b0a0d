---------------------------- MODULE MarshalCodec ----------------------------
(***************************************************************************)
(* MarshalStream::save writes an object into a WriteStream whose buffer     *)
(* grows by realloc, and MarshalStream::load reads it back through a        *)
(* ReadStream: one object is saved and what was written, or the beginning   *)
(* of it, is loaded.                                                        *)
(*                                                                         *)
(* A byte of data is a digit 0..Base-1 (256 in the code), so every limit of *)
(* the format (the escape of a size, the ranges of the numbers, the sign    *)
(* digit of a var integer) keeps its place in terms of Base; opcodes have   *)
(* the numbers of the code.  Classes, packed rows and shared references are *)
(* the business of MarshalStream; allocations succeed while loading.        *)
(***************************************************************************)
EXTENDS Integers, Sequences, FiniteSets, SequencesExt

CONSTANTS Base,       (* values of a byte *)
          LongBytes,  (* bytes of an int64 or a double: 8 *)
          HashMod,    (* values of the hash of the string table: 2^32 *)
          Table,      (* the strings of PyMarshalStringTable, in order *)
          Objects,    (* the objects that may be saved, with those inside them *)
          Sizes,      (* what the buffer of the WriteStream may hold at first *)
          Deflated,   (* the lengths a packet may have after deflate *)
          MaxLoops    (* how often the room to inflate may be doubled: 100 *)

ASSUME CodecAssumption ==
  /\ Base \in Nat /\ Base % 2 = 0 /\ Base > LongBytes + 1
  /\ LongBytes \in Nat /\ LongBytes > 4
  /\ HashMod \in Nat \ {0}
  /\ Sizes \subseteq Nat \ {0} /\ Deflated \subseteq Nat \ {0} /\ MaxLoops \in Nat

(* WriteStream.h:29, and the bytes of an int32 or of a size. *)
IntBytes == 4

Power(b, k) == LET f[i \in 0..k] == IF i = 0 THEN 1 ELSE b * f[i - 1] IN f[k]
InBytes(n, k) == 2 * n >= -Power(Base, k) /\ 2 * n < Power(Base, k)
IsSize(n) == n < Power(Base, IntBytes)

(* No block of memory is larger than half of the addresses. *)
Allocatable(n) == 2 * n <= Power(Base, IntBytes)

ASSUME SizesAssumption ==
  /\ \A n \in Sizes : Allocatable(n)
  /\ \A n \in Deflated : 4 * n < Power(Base, IntBytes)
  /\ Table \in Seq(Seq(0..(Base - 1))) /\ Len(Table) < Base

Object(type, num, kids) == [type |-> type, num |-> num, kids |-> kids]
None == Object("None", <<>>, <<>>)

(* What num and kids hold: a number, a text (in one byte or two a character), or *)
(* the objects inside.                                                          *)
IsNumber(o, k) == Len(o.num) = 1 /\ InBytes(o.num[1], k) /\ o.kids = <<>>
IsText(o, chars) == o.num \in Seq(0..(chars - 1)) /\ IsSize(Len(o.num)) /\ o.kids = <<>>
Holds(o) == o.num = <<>> /\ IsSize(Len(o.kids))
WellFormed(o) ==
  /\ o \in [type : STRING, num : Seq(Int), kids : Seq(Objects)]
  /\ \/ o = None
     \/ o.type = "Bool" /\ o.num \in {<<0>>, <<1>>} /\ o.kids = <<>>
     \/ o.type \in {"Long", "Real"} /\ IsNumber(o, LongBytes)
     \/ o.type = "Int" /\ IsNumber(o, IntBytes)
     \/ o.type \in {"String", "SubStream"} /\ IsText(o, Base)
     \/ o.type = "Unicode" /\ IsText(o, Base * Base)
     \/ o.type \in {"Tuple", "List"} /\ Holds(o)
     \/ o.type = "Dict" /\ Holds(o) /\ Len(o.kids) % 2 = 0

ASSUME ObjectsAssumption == \A o \in Objects : WellFormed(o)

Op == [None |-> 1, LongLong |-> 3, Long |-> 4, SignedShort |-> 5, Byte |-> 6,
       MinusOne |-> 7, Zero |-> 8, One |-> 9, Float |-> 10, Float0 |-> 11,
       EmptyString |-> 14, CharString |-> 15, StringTableItem |-> 17,
       UnicodeString |-> 18, Buffer |-> 19, Tuple |-> 20, List |-> 21, Dict |-> 22,
       True |-> 31, False |-> 32, EmptyTuple |-> 36, OneTuple |-> 37,
       EmptyList |-> 38, OneList |-> 39, UnicodeEmptyString |-> 40,
       UnicodeCharString |-> 41, Stream |-> 43, TwoTuple |-> 44,
       UnicodeUTF8String |-> 46, VarInteger |-> 47]
SharedFlag == 64
Tilde == 126

(* Little endian, two's complement. *)
Digits(n, k) == [i \in 1..k |-> (n \div Power(Base, i - 1)) % Base]
Unsigned(s) == LET u[k \in 0..Len(s)] == IF k = 0 THEN 0 ELSE u[k - 1] + s[k] * Power(Base, k - 1)
               IN u[Len(s)]
Signed(s) == LET u == Unsigned(s) IN
             IF 2 * u >= Power(Base, Len(s)) THEN u - Power(Base, Len(s)) ELSE u

VARIABLES
  phase,        (* "save", "saved", "header", "load", "loaded", and "trapped" at a *)
                (* breakpoint or "fault" when NULL is written through              *)
  object,       (* the object to save *)
  shared,       (* it has other references than the caller's *)
  calls,        (* what marshal has still to do, the next call first *)
  ret,          (* what save returned *)
  mSize, mBuffer, content,        (* WriteStream; mWriteIndex is Len(content) *)
  packet, mReadIndex,             (* ReadStream; mSize is Len(packet) *)
  deflated, complete,             (* length of the packet while it is deflated, else 0, *)
                                  (* and whether all of it is there                     *)
  multiplier, loops,              (* checkAndInflate *)
  frames, returned, val,          (* the calls of unmarshal, and what the last returned *)
  headerLost,   (* ghost: a write of the header failed and was ignored *)
  confused,     (* ghost: something was saved that load may take for something else *)
  strayed       (* ghost: a key was read behind a payload that is missing *)

writer == <<mSize, mBuffer, content>>
inflater == <<deflated, complete, multiplier, loops>>
reader == <<packet, mReadIndex, inflater, frames, returned, val, strayed>>
ghosts == <<headerLost, confused>>
vars == <<phase, object, shared, calls, ret, writer, reader, ghosts>>
mWriteIndex == Len(content)
-----------------------------------------------------------------------------
(* A call into the stream, or a nested call of marshal. *)
Call(fn, cells) == [fn |-> fn, room |-> Len(cells), cells |-> cells, obj |-> None]
Write(cells) == Call("write", cells)      (* writeOpcode, write1, 2, 4 and 8 *)
Buffer(cells) == Call("buffer", cells)    (* write(buffer, len) *)
Reservation(n) == [fn |-> "reserve", room |-> n, cells |-> <<>>, obj |-> None]
Nested(o) == [fn |-> "marshal", room |-> 0, cells |-> <<>>, obj |-> o]
NestedAll(s) == [i \in 1..Len(s) |-> Nested(s[i])]

(* Mutant: the sizes that need the escape start one too late. *)
SizeExLate(n) == IF n > Base - 1 THEN <<Write(<<Base - 1>>), Write(Digits(n, IntBytes))>>
                 ELSE <<Write(<<n>>)>>
WriteSizeEx(n) == IF n > Base - 2 THEN <<Write(<<Base - 1>>), Write(Digits(n, IntBytes))>>
                  ELSE <<Write(<<n>>)>>

Sized(op, n, cells) == <<Write(<<op>>)>> \o WriteSizeEx(n) \o <<Buffer(cells)>>

(* The table is searched by the hash of the C string, which ends at the first *)
(* NUL; of two entries with one hash the first was inserted.                  *)
CString(s) == LET nul == SelectInSeq(s, LAMBDA c : c = 0) IN
              IF nul = 0 THEN s ELSE SubSeq(s, 1, nul - 1)
Hash(s) == FoldLeft(LAMBDA h, c : (33 * h + c) % HashMod, 5381 % HashMod, CString(s))
Hits(s) == {i \in 1..Len(Table) : Hash(Table[i]) = Hash(s)}

LookupIndex(s) == IF Hits(s) = {} THEN -1 ELSE CHOOSE i \in Hits(s) : \A j \in Hits(s) : i <= j

(* WriteVarInteger for a number that is not negative.  signed tells whether the *)
(* top bit of the last byte counted is set, which costs a byte of zero; for the *)
(* number zero no byte is counted and the byte before the number is looked at.  *)
IntegerSize(n) == Cardinality({i \in 0..(LongBytes - 1) : n >= Power(Base, i)})
VarInteger(n, size) == <<Reservation(size + 2), Write(<<Op.VarInteger>>), Write(<<size>>),
                         Buffer(Digits(n, size))>>
WriteVarInteger(n) ==
  LET k == IntegerSize(n)
      signed == IF k = 0 THEN BOOLEAN ELSE {2 * Digits(n, k)[k] >= Base}
  IN {VarInteger(n, IF s THEN k + 1 ELSE k) : s \in signed}

MarshalLong(n) == IF n < 0 THEN {<<Write(<<Op.LongLong>>), Write(Digits(n, LongBytes))>>}
                  ELSE WriteVarInteger(n)

MarshalInt(n) ==
  CASE n = -1 -> <<Write(<<Op.MinusOne>>)>>
    [] n = 0  -> <<Write(<<Op.Zero>>)>>
    [] n = 1  -> <<Write(<<Op.One>>)>>
    [] n \notin {-1, 0, 1} /\ InBytes(n, 1) -> <<Write(<<Op.Byte>>), Write(Digits(n, 1))>>
    [] ~InBytes(n, 1) /\ InBytes(n, 2) -> <<Write(<<Op.SignedShort>>), Write(Digits(n, 2))>>
    [] ~InBytes(n, 2) -> <<Write(<<Op.Long>>), Write(Digits(n, IntBytes))>>

MarshalReal(n) == IF n = 0 THEN <<Write(<<Op.Float0>>)>>
                  ELSE <<Write(<<Op.Float>>), Write(Digits(n, LongBytes))>>

MarshalString(s) ==
  CASE Len(s) = 0 -> <<Write(<<Op.EmptyString>>)>>
    [] Len(s) = 1 -> <<Write(<<Op.CharString>>), Write(s)>>
    [] Len(s) > 1 /\ LookupIndex(s) # -1 -> <<Write(<<Op.StringTableItem>>), Write(<<LookupIndex(s)>>)>>
    [] Len(s) > 1 /\ LookupIndex(s) = -1 -> Sized(Op.Buffer, Len(s), s)

(* wcstombs (C locale) gives one byte for each character that fits one and    *)
(* stops at a NUL; the copy for it may fail to be allocated.                  *)
Narrow(s) == \A i \in 1..Len(s) : s[i] \in 1..(Base - 1)
Wide(s) == [i \in 1..(2 * Len(s)) |-> Digits(s[(i + 1) \div 2], 2)[2 - (i % 2)]]
MarshalUnicode(s) ==
  CASE Len(s) = 0 -> {<<Write(<<Op.UnicodeEmptyString>>)>>}
    [] Len(s) = 1 -> {<<Write(<<Op.UnicodeCharString>>), Write(Digits(s[1], 2))>>}
    [] Len(s) > 1 -> {Sized(Op.UnicodeString, Len(s), Wide(s))}
                     \cup {Sized(Op.UnicodeUTF8String, Len(t), t) : t \in {u \in {s} : Narrow(u)}}

(* The entries of a dict are kept as payload, key, payload, key. *)
MarshalDict(kids) == <<Write(<<Op.Dict>>)>> \o WriteSizeEx(Len(kids) \div 2)

(* flag marks a tuple that is registered for its other references. *)
MarshalTuple(kids, flag) ==
  CASE Len(kids) = 0 -> <<Write(<<Op.EmptyTuple>>)>>
    [] Len(kids) = 1 -> <<Write(<<Op.OneTuple + flag>>)>>
    [] Len(kids) = 2 -> <<Write(<<Op.TwoTuple + flag>>)>>
    [] Len(kids) > 2 -> <<Write(<<Op.Tuple + flag>>)>> \o WriteSizeEx(Len(kids))

MarshalList(kids) ==
  CASE Len(kids) = 0 -> <<Write(<<Op.EmptyList>>)>>
    [] Len(kids) = 1 -> <<Write(<<Op.OneList>>)>>
    [] Len(kids) > 1 -> <<Write(<<Op.List>>)>> \o WriteSizeEx(Len(kids))

(* What marshal may write for an object before it turns to those inside. *)
Writes(o, flag) ==
  CASE o.type = "None"      -> {<<Write(<<Op.None>>)>>}
    [] o.type = "Bool"      -> {<<Write(<<IF o.num = <<1>> THEN Op.True ELSE Op.False>>)>>}
    [] o.type = "Long"      -> MarshalLong(o.num[1])
    [] o.type = "Int"       -> {MarshalInt(o.num[1])}
    [] o.type = "Real"      -> {MarshalReal(o.num[1])}
    [] o.type = "String"    -> {MarshalString(o.num)}
    [] o.type = "Unicode"   -> MarshalUnicode(o.num)
    [] o.type = "Dict"      -> {MarshalDict(o.kids)}
    [] o.type = "Tuple"     -> {MarshalTuple(o.kids, flag)}
    [] o.type = "List"      -> {MarshalList(o.kids)}
    [] o.type = "SubStream" -> {Sized(Op.Stream, Len(o.num), o.num)}
-----------------------------------------------------------------------------
(* save: the tilde, the place of the count of shared objects, the object. *)
Init ==
  /\ phase = "save"
  /\ object \in Objects /\ shared \in BOOLEAN
  /\ calls = <<Call("header", <<Tilde>>), Call("header", Digits(0, IntBytes)), Nested(object)>>
  /\ ret = FALSE
  /\ mSize \in Sizes /\ mBuffer = "heap" /\ content = <<>>
  /\ packet = <<>> /\ mReadIndex = 0
  /\ deflated = 0 /\ complete = TRUE /\ multiplier = 4 /\ loops = 0
  /\ frames = <<>> /\ returned = FALSE /\ val = <<>>
  /\ headerLost = FALSE /\ confused = FALSE /\ strayed = FALSE

Saving(fns) == phase = "save" /\ calls # <<>> /\ calls[1].fn \in fns

SaveReturns(r) == phase' = "saved" /\ ret' = r /\ calls' = <<>>

(* marshal: a breakpoint of the debug build stops it at an object that other   *)
(* references hold; without one only a tuple is treated differently.           *)
Held(o) == shared /\ o = object
Unshared(o) == o.type \in {"Dict", "Tuple", "List"} \/ (o.type = "Long" /\ o.num[1] >= 0)

(* A string is saved as another one of the table (PyStringTable.cpp:51 compares *)
(* hashes only); a number has LongBytes bytes (the shift in PyObjects.h:675).   *)
Misnamed(s) == Len(s) > 1 /\ LookupIndex(s) # -1 /\ Table[LookupIndex(s)] # s
Confuses(o) == \/ o.type = "String" /\ Misnamed(o.num)
               \/ o.type = "Long" /\ 2 * Base * o.num[1] >= Power(Base, LongBytes)

Marshal ==
  /\ Saving({"marshal"})
  /\ LET o == calls[1].obj IN
     \/ /\ Held(o) /\ Unshared(o)
        /\ phase' = "trapped"
        /\ UNCHANGED <<calls, confused>>
     \/ \E c \in Writes(o, IF Held(o) THEN SharedFlag ELSE 0) :
          /\ calls' = c \o NestedAll(o.kids) \o Tail(calls)
          /\ confused' = (confused \/ Confuses(o))
          /\ UNCHANGED phase
  /\ UNCHANGED <<object, shared, ret, writer, reader, headerLost>>

Grown(n) == mWriteIndex + n
HasRoom(n) == mSize > mWriteIndex + n

WriteInPlace ==
  /\ Saving({"header", "write", "buffer", "reserve"})
  /\ LET c == calls[1] IN
     /\ HasRoom(c.room)
     /\ c.fn = "buffer" => c.cells # <<>>
     /\ IF mBuffer = "NULL" /\ c.cells # <<>>
        THEN phase' = "fault" /\ UNCHANGED <<calls, content>>
        ELSE content' = content \o c.cells /\ calls' = Tail(calls) /\ UNCHANGED phase
  /\ UNCHANGED <<object, shared, ret, mSize, mBuffer, reader, ghosts>>

WriteReallocated ==
  /\ Saving({"header", "write", "buffer", "reserve"})
  /\ LET c == calls[1] IN
     /\ ~HasRoom(c.room) /\ Allocatable(Grown(c.room))
     /\ c.fn = "buffer" => c.cells # <<>>
     /\ mSize' = Grown(c.room) /\ mBuffer' = "heap"
     /\ content' = content \o c.cells /\ calls' = Tail(calls)
  /\ UNCHANGED <<phase, object, shared, ret, reader, ghosts>>

(* Mutant: a failed write only skips what it should have written. *)
GoesOnAnyway == calls' = Tail(calls) /\ UNCHANGED <<phase, ret, headerLost>>
(* The result of a failed write reaches the caller of save, but for the header's. *)
WriteFailed ==
  IF calls[1].fn = "header" THEN calls' = Tail(calls) /\ headerLost' = TRUE /\ UNCHANGED <<phase, ret>>
  ELSE SaveReturns(FALSE) /\ UNCHANGED headerLost

(* realloc leaves the old block alone, but mBuffer and mSize are overwritten. *)
ReallocFails ==
  /\ Saving({"header", "write", "buffer", "reserve"})
  /\ ~HasRoom(calls[1].room)
  /\ calls[1].fn = "buffer" => calls[1].cells # <<>>
  /\ mSize' = Grown(calls[1].room) /\ mBuffer' = "NULL"
  /\ WriteFailed
  /\ UNCHANGED <<object, shared, content, reader, confused>>

WriteRefused ==
  /\ Saving({"buffer"}) /\ calls[1].cells = <<>>
  /\ SaveReturns(FALSE)
  /\ UNCHANGED <<object, shared, writer, reader, ghosts>>

Saved ==
  /\ phase = "save" /\ calls = <<>>
  /\ SaveReturns(TRUE)
  /\ UNCHANGED <<object, shared, writer, reader, ghosts>>
-----------------------------------------------------------------------------
(* What was saved is given to a ReadStream: all of it or its beginning, as it is *)
(* or deflated.  A stream without its header is not followed further.            *)
Open ==
  /\ phase = "saved" /\ ret /\ ~headerLost
  /\ \/ \E len \in 1..Len(content) : packet' = SubSeq(content, 1, len) /\ complete' = (len = Len(content))
        /\ UNCHANGED deflated
     \/ deflated' \in Deflated /\ complete' \in BOOLEAN /\ packet' = content
  /\ phase' = "header"
  /\ UNCHANGED <<object, shared, calls, ret, writer, mReadIndex, multiplier, loops,
                 frames, returned, val, strayed, ghosts>>

LoadRefuses == phase' = "load" /\ returned' = TRUE

(* uncompress (zlib) reports Z_BUF_ERROR when the output is too small and bad data *)
(* when the input ends early; an output of no bytes is no output.  u_long has 32   *)
(* bits.                                                                           *)
OutBuffer == (deflated * multiplier) % Power(Base, IntBytes)
Fits == OutBuffer >= Len(packet)
MoreLoops == loops <= MaxLoops

Inflate ==
  /\ phase = "header" /\ deflated > 0
  /\ \/ Fits /\ complete /\ deflated' = 0 /\ UNCHANGED <<phase, returned, multiplier, loops>>
     \/ /\ ~complete \/ OutBuffer = 0 \/ (~Fits /\ ~MoreLoops)
        /\ LoadRefuses
        /\ UNCHANGED <<deflated, multiplier, loops>>
     \/ /\ ~Fits /\ OutBuffer > 0 /\ MoreLoops
        /\ multiplier' = (2 * multiplier) % Power(Base, IntBytes) /\ loops' = loops + 1
        /\ UNCHANGED <<phase, returned, deflated>>
  /\ UNCHANGED <<object, shared, calls, ret, writer, packet, mReadIndex, complete, frames, val, strayed, ghosts>>

(* The end of a read is computed in size_t, and may wrap.  mReadIndex would wrap *)
(* with it; here it is left behind the packet, to show that this read passed the *)
(* end: the bytes it was given are not those of the packet (SubSeq beyond its    *)
(* end, undefined in the code).                                                  *)
Has(p, n) == Len(packet) >= (p + n) % Power(Base, IntBytes)
At(p, n) == SubSeq(packet, p + 1, p + n)

(* What a read gives: nothing or a value, and the index behind it. *)
Gives(v, next) == [value |-> <<v>>, next |-> next]
Nothing(next) == [value |-> <<>>, next |-> next]

ReadSizeEx(p) ==
  IF ~Has(p, 1) THEN Nothing(p)
  ELSE IF At(p, 1) # <<Base - 1>> THEN Gives(At(p, 1)[1], p + 1)
  ELSE IF Has(p + 1, IntBytes) THEN Gives(Unsigned(At(p + 1, IntBytes)), p + 1 + IntBytes)
  ELSE Nothing(p + 1)

ReadNumber(type, k, p) ==
  IF Has(p, k) THEN Gives(Object(type, <<Signed(At(p, k))>>, <<>>), p + k) ELSE Nothing(p)

(* A size and as many characters of w bytes each.  (mbstowcs fails at a NUL: *)
(* save writes none in a UTF8 string.)                                       *)
ReadText(type, w, p) ==
  LET size == ReadSizeEx(p) IN
  IF size.value = <<>> THEN size
  ELSE LET n == size.value[1] IN
       IF Has(size.next, n * w)
       THEN Gives(Object(type, [i \in 1..n |-> Unsigned(At(size.next + (i - 1) * w, w))], <<>>),
                  size.next + n * w)
       ELSE Nothing(size.next)

(* _ByteArray_AsPyLong masks eight bytes down to the size; for a size of eight *)
(* the shift that makes the mask is undefined: all bits or none.               *)
VarIntegerValues(s) == IF Len(s) = LongBytes THEN {Signed(s), 0} ELSE {Unsigned(s)}
ReadVarInteger(p) ==
  LET size == ReadSizeEx(p) IN
  IF size.value = <<>> THEN {size}
  ELSE LET n == size.value[1] IN
       CASE n > LongBytes -> {Nothing(size.next)}
         [] n = 0 -> {Gives(Object("Long", <<0>>, <<>>), size.next)}
         [] n \in 1..LongBytes /\ ~Has(size.next, n) -> {Nothing(size.next)}
         [] n \in 1..LongBytes /\ Has(size.next, n) ->
              {Gives(Object("Long", <<v>>, <<>>), size.next + n) : v \in VarIntegerValues(At(size.next, n))}

(* save writes no index outside the table; LookupPyString writes through NULL there. *)
ReadStringTableItem(p) ==
  IF ~Has(p, 1) THEN Nothing(p)
  ELSE IF At(p, 1)[1] \in 1..Len(Table) THEN Gives(Object("String", Table[At(p, 1)[1]], <<>>), p + 1)
  ELSE Nothing(p + 1)

Singleton(op) ==
  CASE op = Op.None -> None
    [] op = Op.MinusOne -> Object("Int", <<-1>>, <<>>)
    [] op = Op.Zero -> Object("Int", <<0>>, <<>>)
    [] op = Op.One -> Object("Int", <<1>>, <<>>)
    [] op = Op.Float0 -> Object("Real", <<0>>, <<>>)
    [] op = Op.True -> Object("Bool", <<1>>, <<>>)
    [] op = Op.False -> Object("Bool", <<0>>, <<>>)
    [] op = Op.EmptyString -> Object("String", <<>>, <<>>)
    [] op = Op.UnicodeEmptyString -> Object("Unicode", <<>>, <<>>)
    [] op = Op.EmptyTuple -> Object("Tuple", <<>>, <<>>)
    [] op = Op.EmptyList -> Object("List", <<>>, <<>>)
SingletonOps == {Op.None, Op.MinusOne, Op.Zero, Op.One, Op.Float0, Op.True, Op.False,
                 Op.EmptyString, Op.UnicodeEmptyString, Op.EmptyTuple, Op.EmptyList}

(* What the opcodes without children return, read behind index p. *)
Leaf(op, p) ==
  CASE op \in SingletonOps -> {Gives(Singleton(op), p)}
    [] op = Op.LongLong -> {ReadNumber("Long", LongBytes, p)}
    [] op = Op.Long -> {ReadNumber("Int", IntBytes, p)}
    [] op = Op.SignedShort -> {ReadNumber("Int", 2, p)}
    [] op = Op.Byte -> {ReadNumber("Int", 1, p)}
    [] op = Op.Float -> {ReadNumber("Real", LongBytes, p)}
    [] op = Op.CharString -> {IF Has(p, 1) THEN Gives(Object("String", At(p, 1), <<>>), p + 1)
                              ELSE Nothing(p)}
    [] op = Op.StringTableItem -> {ReadStringTableItem(p)}
    [] op = Op.Buffer -> {ReadText("String", 1, p)}
    [] op = Op.Stream -> {ReadText("SubStream", 1, p)}
    [] op = Op.UnicodeUTF8String -> {ReadText("Unicode", 1, p)}
    [] op = Op.UnicodeString -> {ReadText("Unicode", 2, p)}
    [] op = Op.UnicodeCharString ->
         {IF Has(p, 2) THEN Gives(Object("Unicode", <<Unsigned(At(p, 2))>>, <<>>), p + 2)
          ELSE Nothing(p)}
    [] op = Op.VarInteger -> ReadVarInteger(p)
-----------------------------------------------------------------------------
(* The tilde says that the packet is neither byte code nor deflated; the count *)
(* of shared objects behind it is zero.                                        *)
ReadMarshalHeader ==
  /\ phase = "header" /\ deflated = 0
  /\ IF Has(0, 1) /\ Has(1, IntBytes)
     THEN mReadIndex' = 1 + IntBytes /\ phase' = "load" /\ UNCHANGED returned
     ELSE LoadRefuses /\ UNCHANGED mReadIndex
  /\ UNCHANGED <<object, shared, calls, ret, writer, packet, inflater, frames, val, strayed, ghosts>>

Top == frames[Len(frames)]
Pop == SubSeq(frames, 1, Len(frames) - 1)
Frame(type, left) == [type |-> type, left |-> left, bad |-> FALSE, kids |-> <<>>]
Complete == frames # <<>> /\ Top.left = 0
Unmarshals == phase = "load" /\ ~returned /\ ~Complete
AtOpcode == packet[mReadIndex + 1]
Opcode == AtOpcode % SharedFlag
Flagged == (AtOpcode \div SharedFlag) % 2 = 1
Stays == <<phase, object, shared, calls, ret, writer, packet, inflater, ghosts>>
Reads == <<Stays, strayed>>

Returns(v) == returned' = TRUE /\ val' = v

(* size() - tell() >= 1 *)
OutOfData ==
  /\ Unmarshals /\ mReadIndex = Len(packet)
  /\ Returns(<<>>)
  /\ UNCHANGED <<Reads, mReadIndex, frames>>

LeafOps == SingletonOps \cup
  {Op.LongLong, Op.Long, Op.SignedShort, Op.Byte, Op.Float, Op.CharString, Op.StringTableItem,
   Op.Buffer, Op.Stream, Op.UnicodeUTF8String, Op.UnicodeString, Op.UnicodeCharString, Op.VarInteger}
FixedOps == {Op.OneTuple, Op.TwoTuple, Op.OneList}
CountedOps == {Op.Tuple, Op.List, Op.Dict}

UnmarshalLeaf ==
  /\ Unmarshals /\ mReadIndex < Len(packet) /\ Opcode \in LeafOps
  /\ \E r \in Leaf(Opcode, mReadIndex + 1) : Returns(r.value) /\ mReadIndex' = r.next
  /\ UNCHANGED <<Reads, frames>>

(* save writes no other opcode; behind a payload that is missing load may take a *)
(* byte for any, and MarshalStream models what they do: there is an object or not. *)
UnmarshalOther ==
  /\ Unmarshals /\ mReadIndex < Len(packet) /\ Opcode \notin LeafOps \cup FixedOps \cup CountedOps
  /\ mReadIndex' \in (mReadIndex + 1)..Len(packet)
  /\ \E v \in {<<>>, <<None>>} : Returns(v)
  /\ UNCHANGED <<Reads, frames>>

Fixed(op) == CASE op = Op.OneTuple -> Frame("Tuple", 1)
               [] op = Op.TwoTuple -> Frame("Tuple", 2)
               [] op = Op.OneList -> Frame("List", 1)
Counted(op, n) == CASE op = Op.Tuple -> Frame("Tuple", n)
                    [] op = Op.List -> Frame("List", n)
                    [] op = Op.Dict -> Frame("Dict", 2 * n)

(* No shared object was announced, so none can be registered. *)
Enter(f, next) ==
  /\ mReadIndex' = next
  /\ IF Flagged THEN Returns(<<>>) /\ UNCHANGED frames
     ELSE frames' = Append(frames, f) /\ UNCHANGED <<returned, val>>

UnmarshalContainer ==
  /\ Unmarshals /\ mReadIndex < Len(packet)
  /\ LET size == ReadSizeEx(mReadIndex + 1) IN
     \/ Opcode \in FixedOps /\ Enter(Fixed(Opcode), mReadIndex + 1)
     \/ /\ Opcode \in CountedOps /\ size.value # <<>>
        /\ Enter(Counted(Opcode, size.value[1]), size.next)
     \/ /\ Opcode \in CountedOps /\ size.value = <<>>
        /\ Returns(<<>>) /\ mReadIndex' = size.next /\ UNCHANGED frames
  /\ UNCHANGED Reads

(* Mutant: a missing entry is left out. *)
SkipsMissing(f) == FALSE
(* A tuple or a list gives up at a missing entry; a dict has read the key by then. *)
GivesUp(f) == IF f.type = "Dict" THEN f.left % 2 = 1 /\ (f.bad \/ val = <<>>) ELSE val = <<>>

TakeChild ==
  /\ phase = "load" /\ returned /\ frames # <<>>
  /\ IF GivesUp(Top) THEN frames' = Pop /\ Returns(<<>>)
     ELSE /\ frames' = Append(Pop, [Top EXCEPT !.left = @ - 1, !.bad = @ \/ val = <<>>, !.kids = @ \o val])
          /\ returned' = FALSE /\ val' = <<>>
  /\ strayed' = (strayed \/ (~GivesUp(Top) /\ val = <<>>))
  /\ UNCHANGED <<Stays, mReadIndex>>

CompleteContainer ==
  /\ phase = "load" /\ ~returned /\ Complete
  /\ Returns(<<Object(Top.type, <<>>, Top.kids)>>)
  /\ frames' = Pop
  /\ UNCHANGED <<Reads, mReadIndex>>

Loaded ==
  /\ phase = "load" /\ returned /\ frames = <<>>
  /\ phase' = "loaded"
  /\ UNCHANGED <<object, shared, calls, ret, writer, reader, ghosts>>

Next == \/ Marshal \/ WriteInPlace \/ WriteReallocated \/ ReallocFails \/ WriteRefused \/ Saved
        \/ Open \/ Inflate \/ ReadMarshalHeader \/ OutOfData \/ UnmarshalLeaf \/ UnmarshalOther
        \/ UnmarshalContainer \/ TakeChild \/ CompleteContainer \/ Loaded

Spec == Init /\ [][Next]_vars
-----------------------------------------------------------------------------
(* What is written lies inside the buffer, and never at the NULL that a failed *)
(* realloc leaves: reserve has grown mSize by then, so the next call finds room *)
(* (WriteStream.cpp:136).  Only for the header is a failure ignored.            *)
WritesInside ==
  /\ mBuffer # "NULL" => mWriteIndex <= mSize
  /\ phase = "fault" => headerLost

(* What save reported as written is what load returns for it.  Excepted are     *)
(* objects that are not written apart from others (confused), a tuple marked as *)
(* shared (save announces no shared objects), and a packet that deflate made    *)
(* smaller than the doublings of the output make up for.                        *)
Ambiguous == \/ confused
             \/ shared /\ object.type = "Tuple"
             \/ deflated > 0 /\ deflated * 4 * Power(2, MaxLoops + 1) < Len(content)
RoundTrip ==
  phase = "loaded" /\ complete /\ ~Ambiguous => val = <<object>>

(* The end of the data holds: no read passes it, and the beginning of a packet   *)
(* is not taken for a packet, since every operand, entry or key that is missing  *)
(* makes load return NULL.  A dict goes on to the key of a payload that is       *)
(* missing (MarshalStream.cpp:541), wherever the payload's read stopped: what is *)
(* there may be taken for a size whose end wraps, so only the result counts then. *)
EndHolds ==
  /\ ~strayed => mReadIndex <= Len(packet)
  /\ phase = "loaded" /\ ~complete => val = <<>>
=============================================================================
