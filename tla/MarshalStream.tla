---------------------------- MODULE MarshalStream ----------------------------
(***************************************************************************)
(* MarshalStream::load (src/src/MarshalStream.cpp) and the loop of         *)
(* HandleFile that calls it: one packet is read, its object tree dumped    *)
(* and released, and the MarshalStream destroyed.                          *)
(*                                                                         *)
(* unmarshal is recursive; stack is its call stack, one frame for each     *)
(* call that waits for a nested one, and val is the pointer the innermost  *)
(* call returned.  The bytes of the packet are not modelled: an opcode is  *)
(* chosen when it is read, and ReadFails stands for every way the data can *)
(* be refused (truncated operand, unknown opcode, bad string-table index,  *)
(* checksum, end of the data).                                             *)
(***************************************************************************)
EXTENDS PyHeap

CONSTANTS MaxShared,   (* bound: shared objects announced by the header *)
          MaxOps,      (* bound: opcodes of one packet *)
          MaxItems,    (* bound: entries of one tuple, list or dict *)
          Ops,         (* the opcodes that may occur *)
          Classes      (* the sequence of classes registered in CallMgr *)

AllOps == {"singleton", "leaf", "tuple", "list", "dict", "global",
           "ref", "instance", "reduce", "newobj", "row"}

(* A class is named by what its init does with its argument:                *)
(*   "dict"     keeps a dict as its mDict (util.KeyVal, util.Rowset)        *)
(*   "items"    keeps the entries of a tuple (util.CachedObject)            *)
(*   "stub"     nothing, and reports failure (util.Row)                     *)
(*   "address"  "items", then releases its argument (macho.MachoAddress)    *)
(*   "packet"   the same and reports failure (the macho packet classes)     *)
(*   "closed"   only releases its argument (exceptions.GPSTransportClosed)  *)
AllClasses == {"dict", "items", "stub", "address", "packet", "closed"}

ASSUME BoundsAssumption == /\ MaxShared \in Nat /\ MaxOps \in Nat /\ MaxItems \in Nat
                           /\ Ops \subseteq AllOps
                           /\ Classes \in Seq(AllClasses)
                           /\ Len(Classes) + 1 <= MaxObj

VARIABLES mExpectedObjectsCount, mStoreObjectIndex, mOrderMap, mReferenceObjects,
          phase,   (* "load", "loaded", "dropped", "done", or "undefined" behaviour *)
          stack, val,
          reading, (* the innermost call has yet to read its opcode *)
          ops,     (* opcodes read so far *)
          failed,  (* ghost: some nested call returned NULL *)
          stored   (* ghost: the objects registered, in order *)

Refs == INSTANCE UnmarshalReferenceMap
mapVars == <<mExpectedObjectsCount, mStoreObjectIndex, mOrderMap, mReferenceObjects>>

control == <<phase, stack, val, reading, ops, failed>>
vars == <<heapVars, mapVars, control, stored>>

(* The singletons of the MarshalStream stand behind one object, PyNone; each *)
(* class has its prototype in CallMgr.  Both hold one reference from outside. *)
PyNone == 1
Prototype(i) == i + 1
Static == 1..(Len(Classes) + 1)

Init ==
  /\ heap = [o \in Obj |->
       IF o = PyNone THEN NewObject("leaf", 0, "none", 1)
       ELSE IF o \in Static THEN NewObject("class", 0, Classes[o - 1], 1)
       ELSE Unused]
  /\ pending = <<>>
  /\ surplus = [o \in Obj |-> 0]
  /\ Refs!Init
  /\ phase = "header" /\ stack = <<>> /\ val = NULL /\ reading = TRUE /\ ops = 0
  /\ failed = FALSE /\ stored = <<>>
-----------------------------------------------------------------------------
Running == phase = "load" /\ pending = <<>>

FrameOp == {"leaf", "tuple", "list", "dict", "key", "name", "sharedname", "bases",
            "newobj", "reduce", "dirlist", "dirdict", "listitr", "dictitr", "dictvalue", "row"}
Frame(op, obj, tmp, left) == [op |-> op, obj |-> obj, tmp |-> tmp, left |-> left]
Top == stack[Len(stack)]
Pop == SubSeq(stack, 1, Len(stack) - 1)

(* The call on top has all its children. *)
Finished == stack # <<>> /\ Top.op \in {"leaf", "tuple", "list", "dict"} /\ Top.left = 0
(* The next opcode is about to be read. *)
Unmarshals == /\ Running /\ reading /\ ~Finished
              /\ stack # <<>> => Top.op \notin {"dirlist", "dirdict"}
AtOpcode(op) == /\ Unmarshals /\ op \in Ops /\ ops < MaxOps /\ HasRoom
                /\ ops' = ops + 1
(* A nested call has just returned val to a frame of one of the kinds K. *)
Returned(K) == /\ Running /\ ~reading /\ stack # <<>> /\ Top.op \in K /\ HasRoom
               /\ UNCHANGED ops

Return(v) == /\ val' = v /\ reading' = FALSE /\ failed' = (failed \/ v = NULL)
             /\ UNCHANGED phase
ReturnFrom(v) == stack' = Pop /\ Return(v)
(* The current call goes on to a nested one, waiting in frame f. *)
Descend(f) == /\ stack' = Append(stack, f) /\ reading' = TRUE /\ val' = NULL
              /\ UNCHANGED <<phase, failed>>
Continue(f) == /\ stack' = [stack EXCEPT ![Len(stack)] = f] /\ reading' = TRUE /\ val' = NULL
               /\ UNCHANGED <<phase, failed>>

UnchangedMap == UNCHANGED <<mapVars, stored>>
UnchangedHeap == UNCHANGED heapVars

(* The program leaves what its source defines; nothing follows. *)
Undefined == /\ phase' = "undefined"
             /\ UNCHANGED <<heapVars, mapVars, stored, stack, val, reading, failed>>

Register(o) == Refs!Store(o) /\ stored' = Append(stored, o)
Displaced == <<Refs!Overwritten>>
-----------------------------------------------------------------------------
(* load: ReadMarshalHeader accepts the header and the order map, or load     *)
(* refuses the packet (byte code, inflate, missing tilde, bogus map data).   *)
ReadMarshalHeader ==
  /\ phase = "header"
  /\ \/ \E n \in 0..MaxShared : \E order \in [0..(n - 1) -> 1..n] :
          /\ Refs!SetOrder(n, order)
          /\ phase' = "load"
          /\ UNCHANGED failed
     \/ /\ phase' = "loaded"
        /\ failed' = TRUE
        /\ UNCHANGED mapVars
  /\ UNCHANGED <<heapVars, stored, stack, val, reading, ops>>

ReadFails ==
  /\ Unmarshals
  /\ Return(NULL)
  /\ UNCHANGED <<ops, stack>>
  /\ UnchangedHeap /\ UnchangedMap

(* An existing object is handed to the caller with a reference of its own,   *)
(* unless a reference too many was dropped before and it is gone.            *)
ReturnUncounted(o) == Return(o) /\ UNCHANGED heap
ReturnExisting(o) ==
  \/ Live(o) /\ Return(o) /\ heap' = IncRefs(heap, <<o>>)
  \/ ~Live(o) /\ Undefined

ReadSingleton ==
  /\ AtOpcode("singleton")
  /\ ReturnExisting(PyNone)
  /\ UNCHANGED <<pending, surplus, stack>> /\ UnchangedMap

(* The references of a registered object: its creator's and the map's. *)
UncountedSlot == 1
SharedRefs == 2

(* An object is created and, when its opcode carries the shared flag 0x40,   *)
(* registered before its n children are read.  A refused registration        *)
(* returns NULL and abandons the object.                                     *)
NewContainer(k, n, shared) ==
  LET o == Fresh
      object(r) == [heap EXCEPT ![o] = NewObject(k, n, "none", r)]
  IN
  \/ /\ ~shared
     /\ heap' = object(1)
     /\ Descend(Frame(k, o, NULL, n))
     /\ UNCHANGED <<pending, surplus>> /\ UnchangedMap
  \/ /\ shared /\ Refs!Refuses(o)
     /\ heap' = object(1)
     /\ surplus' = Abandon(surplus, <<o>>)
     /\ Return(NULL)
     /\ UNCHANGED <<pending, stack>> /\ UnchangedMap
  \/ /\ shared /\ ~Refs!Refuses(o) /\ Refs!StoreWraps
     /\ Undefined
  \/ /\ shared
     /\ Register(o)
     /\ heap' = object(SharedRefs)
     /\ surplus' = Abandon(surplus, Displaced)
     /\ Descend(Frame(k, o, NULL, n))
     /\ UNCHANGED pending

(* Op_PyBuffer, Op_PyVarInteger and the unshared numbers and strings; empty  *)
(* tuples and lists are never registered.                                    *)
ReadLeaf == AtOpcode("leaf") /\ \E s \in BOOLEAN : NewContainer("leaf", 0, s)
ReadTuple == /\ AtOpcode("tuple")
             /\ \E n \in 0..MaxItems, s \in BOOLEAN : NewContainer("tuple", n, s)
ReadList  == /\ AtOpcode("list")
             /\ \E n \in 0..MaxItems, s \in BOOLEAN : NewContainer("list", n, s)
ReadDict  == /\ AtOpcode("dict")
             /\ \E n \in 0..MaxItems, s \in BOOLEAN : NewContainer("dict", n, s)

(* All children are in: the container is returned. *)
Complete ==
  /\ Running /\ reading /\ Finished
  /\ ReturnFrom(Top.obj)
  /\ UNCHANGED ops
  /\ UnchangedHeap /\ UnchangedMap

(* ReadClassString: the prototype itself, or NULL and a lost name string. *)
ReadClassString ==
  /\ AtOpcode("global")
  /\ \/ /\ heap' = [heap EXCEPT ![Fresh] = NewObject("leaf", 0, "none", 1)]
        /\ surplus' = Abandon(surplus, <<Fresh>>)
        /\ Return(NULL)
        /\ UNCHANGED <<pending, stack>> /\ UnchangedMap
     \/ \E i \in DOMAIN Classes :
          /\ ReturnExisting(Prototype(i))
          /\ UNCHANGED <<pending, surplus, stack>> /\ UnchangedMap
     \/ \E i \in DOMAIN Classes :
          /\ Live(Prototype(i))
          /\ Register(Prototype(i))
          /\ heap' = IncRefs(heap, <<Prototype(i), Prototype(i)>>)
          /\ surplus' = Abandon(surplus, Displaced)
          /\ Return(Prototype(i))
          /\ UNCHANGED <<pending, stack>>
     \/ /\ ~Refs!Refuses(PyNone) /\ Refs!StoreWraps
        /\ Undefined

ReadRef ==
  /\ AtOpcode("ref")
  /\ \E location \in 0..(MaxShared + 2) :
       \/ /\ Refs!HasStoredObject(location)
          /\ ReturnExisting(Refs!StoredObject(location))
       \/ /\ ~Refs!HasStoredObject(location)
          /\ Return(NULL)
          /\ UNCHANGED heap
  /\ UNCHANGED <<pending, surplus, stack>> /\ UnchangedMap
-----------------------------------------------------------------------------
(* A child of a tuple or list: set_item takes a reference and the caller     *)
(* drops its own, so the child's count is as it was.                         *)
ItemAccepted == val \notin {NULL, Top.obj}

AddItemKeepsReference ==
  /\ Returned({"tuple", "list"}) /\ ItemAccepted
  /\ heap' = IncRefs([heap EXCEPT ![Top.obj].kids = Append(@, val)], <<val>>)
  /\ surplus' = Abandon(surplus, <<val>>)
  /\ Continue([Top EXCEPT !.left = @ - 1])
  /\ UNCHANGED pending /\ UnchangedMap

AddItem ==
  /\ Returned({"tuple", "list"}) /\ ItemAccepted
  /\ heap' = [heap EXCEPT ![Top.obj].kids = Append(@, val)]
  /\ Continue([Top EXCEPT !.left = @ - 1])
  /\ UNCHANGED <<pending, surplus>> /\ UnchangedMap

(* A failed child, or the container itself, fails the container; neither is  *)
(* released.                                                                 *)
RefuseItemSwallowed ==
  /\ Returned({"tuple", "list"}) /\ ~ItemAccepted
  /\ ReturnFrom(Top.obj)
  /\ UnchangedHeap /\ UnchangedMap

RefuseItem ==
  /\ Returned({"tuple", "list"}) /\ ~ItemAccepted
  /\ surplus' = Abandon(surplus, <<Top.obj, val>>)
  /\ ReturnFrom(NULL)
  /\ UNCHANGED <<heap, pending>> /\ UnchangedMap

(* The payload comes first and the key is read whatever it was. *)
DictPayload ==
  /\ Returned({"dict"})
  /\ Continue(Frame("key", Top.obj, val, Top.left))
  /\ UnchangedHeap /\ UnchangedMap

EntryAccepted == val # NULL /\ Top.tmp \notin {NULL, Top.obj}

RefuseEntry ==
  /\ Returned({"key"}) /\ ~EntryAccepted
  /\ surplus' = Abandon(surplus, <<Top.obj, Top.tmp, val>>)
  /\ ReturnFrom(NULL)
  /\ UNCHANGED <<heap, pending>> /\ UnchangedMap

(* PyDict::set_item: a new entry, or the payload of the entry whose key has  *)
(* the same hash (equal keys, or two keys that collide) is replaced and the  *)
(* old key stays.  The caller then drops its references to key and payload.  *)
SetItem(d, key, payload) ==
  LET kids == heap[d].kids
      Keys == {i \in DOMAIN kids : i % 2 = 1}
  IN
  \/ /\ \A i \in Keys : kids[i] # key
     /\ heap' = [heap EXCEPT ![d].kids = @ \o <<key, payload>>]
     /\ UNCHANGED pending
  \/ \E i \in Keys :
     /\ \A j \in Keys : kids[j] = key => j = i
     /\ heap' = [heap EXCEPT ![d].kids[i + 1] = payload]
     /\ pending' = <<kids[i + 1], key>>

DictEntry ==
  /\ Returned({"key"}) /\ EntryAccepted
  /\ SetItem(Top.obj, val, Top.tmp)
  /\ Continue(Frame("dict", Top.obj, NULL, Top.left - 1))
  /\ UNCHANGED surplus /\ UnchangedMap
-----------------------------------------------------------------------------
(* What init(arg) of a class keeps; accept is its test of the tuple's size.  *)
Kept(c, arg, accept) ==
  CASE c = "dict" /\ Is(arg, "dict") -> <<arg>>
    [] c \in {"items", "address", "packet"} /\ Is(arg, "tuple") /\ accept -> heap[arg].kids
    [] OTHER -> <<>>
Consumed(c, arg) == IF c \in {"address", "packet", "closed"} THEN <<arg>> ELSE <<>>
InitSucceeds(c, arg, accept) ==
  CASE c = "dict" -> Is(arg, "dict")
    [] c \in {"items", "address"} -> Is(arg, "tuple") /\ accept
    [] OTHER -> c = "closed"
(* MachoAddress::init traps on anything but a tuple. *)
InitTraps(c, arg) == c = "address" /\ ~Is(arg, "tuple")

(* ReadGlobalInstance: the class name, the new instance, then init's argument. *)
ReadInstance ==
  /\ AtOpcode("instance")
  /\ \E op \in {"name", "sharedname"} : Descend(Frame(op, NULL, NULL, 0))
  /\ UnchangedHeap /\ UnchangedMap

InstanceNameFails ==
  /\ Returned({"name", "sharedname"})
  /\ pending' = IF val = NULL THEN <<>> ELSE <<val>>
  /\ ReturnFrom(NULL)
  /\ UNCHANGED <<heap, surplus>> /\ UnchangedMap

InstanceName ==
  /\ Returned({"name", "sharedname"})
  /\ Is(val, "leaf") /\ val # PyNone
  /\ \E i \in DOMAIN Classes :
     LET o == Fresh
         instance(r) == [heap EXCEPT ![o] = NewObject("class", 0, Classes[i], r)]
         shared == Top.op = "sharedname"
     IN
     \/ /\ ~shared
        /\ heap' = instance(1)
        /\ Continue(Frame("bases", o, val, 0))
        /\ UNCHANGED <<pending, surplus>> /\ UnchangedMap
     \/ /\ shared /\ Refs!Refuses(o)
        /\ heap' = instance(1)
        /\ pending' = <<val, o>>
        /\ ReturnFrom(NULL)
        /\ UNCHANGED surplus /\ UnchangedMap
     \/ /\ shared /\ ~Refs!Refuses(o) /\ Refs!StoreWraps
        /\ Undefined
     \/ /\ shared
        /\ Register(o)
        /\ heap' = instance(SharedRefs)
        /\ surplus' = Abandon(surplus, Displaced)
        /\ Continue(Frame("bases", o, val, 0))
        /\ UNCHANGED pending

InstanceBasesFail ==
  /\ Returned({"bases"})
  /\ val = NULL
  /\ pending' = <<Top.tmp, Top.obj>>
  /\ ReturnFrom(NULL)
  /\ UNCHANGED <<heap, surplus>> /\ UnchangedMap

(* What init returns is ignored. *)
InstanceInit ==
  /\ Returned({"bases"})
  /\ val # NULL
  /\ LET c == heap[Top.obj].cls IN
     \/ InitTraps(c, val) /\ Undefined
     \/ \E accept \in BOOLEAN : ~AllLive(Kept(c, val, accept)) /\ Undefined
     \/ /\ ~InitTraps(c, val)
        /\ \E accept \in BOOLEAN :
             LET kept == Kept(c, val, accept) IN
             /\ AllLive(kept)
             /\ heap' = IncRefs([heap EXCEPT ![Top.obj].kids = kept], kept)
        /\ pending' = Consumed(c, val) \o <<Top.tmp, val>>
        /\ surplus' = Overdraw(surplus, Consumed(c, val))
        /\ ReturnFrom(Top.obj)
        /\ UnchangedMap
-----------------------------------------------------------------------------
(* ReadNewObj and ReadReducedClass.  With the shared flag both reserve a     *)
(* slot with a NULL object first; StoreReferencedObject refuses NULL.        *)
ReadCall ==
  /\ \E op \in {"newobj", "reduce"} :
     /\ AtOpcode(op)
     /\ \E shared \in BOOLEAN :
        \/ shared /\ Refs!Refuses(NULL) /\ Return(NULL) /\ UNCHANGED stack
        \/ ~shared /\ Descend(Frame(op, NULL, NULL, 0))
  /\ UnchangedHeap /\ UnchangedMap

CallNoTuple ==
  /\ Returned({"newobj", "reduce"})
  /\ ~Is(val, "tuple")
  /\ surplus' = Abandon(surplus, <<val>>)
  /\ ReturnFrom(NULL)
  /\ UNCHANGED <<heap, pending>> /\ UnchangedMap

(* The class to call and its argument: ((class, ...), state) for newobj,     *)
(* (class, argument) for reduce.  Both are borrowed from the tuple.          *)
Callee   == IF Top.op = "reduce" THEN Item(val, 0)
            ELSE IF Is(Item(val, 0), "tuple") THEN Item(Item(val, 0), 0) ELSE NULL
Argument == IF Top.op = "reduce" THEN Item(val, 1) ELSE Item(val, 0)

(* A missing part: the tuple is released, and reduce releases the class it   *)
(* had only borrowed as well.                                                *)
CallRefused ==
  /\ Returned({"newobj", "reduce"})
  /\ Is(val, "tuple")
  /\ \/ /\ Top.op = "newobj" /\ ~Is(Callee, "class")
        /\ pending' = <<val>>
        /\ UNCHANGED surplus
     \/ /\ Top.op = "reduce" /\ Callee = NULL
        /\ pending' = <<val>>
        /\ UNCHANGED surplus
     \/ /\ Top.op = "reduce" /\ Callee # NULL /\ Argument = NULL
        /\ pending' = <<val, Callee>>
        /\ surplus' = Overdraw(surplus, <<Callee>>)
  /\ ReturnFrom(NULL)
  /\ UNCHANGED heap /\ UnchangedMap

(* PyObject_CallObject: a new object of the class, released again and NULL   *)
(* when init reports failure.  setstate, called when newobj carries a state, *)
(* is a stub, but a call on NULL is not defined; nor is calling a non-class. *)
CallClass ==
  /\ Returned({"newobj", "reduce"})
  /\ Is(val, "tuple") /\ Callee # NULL /\ Argument # NULL
  /\ Top.op = "newobj" => Is(Callee, "class")
  /\ \E accept \in BOOLEAN :
     LET o == Fresh
         c == heap[Callee].cls
         kept == Kept(c, Argument, accept)
         ok == InitSucceeds(c, Argument, accept)
         result == IF ok THEN o ELSE NULL
         stateful == Top.op = "newobj" /\ heap[val].size > 1
     IN
     IF \/ ~Is(Callee, "class") \/ InitTraps(c, Argument) \/ ~AllLive(kept)
        \/ stateful /\ ~ok /\ Item(val, 1) # NULL
     THEN Undefined /\ UnchangedHeap
     ELSE /\ heap' = IF ok
                     THEN IncRefs([heap EXCEPT ![o] = [NewObject("class", 0, c, 1) EXCEPT !.kids = kept]],
                                  kept)
                     ELSE heap
          /\ pending' = Consumed(c, Argument)
          /\ LET overdrawn == Overdraw(surplus, Consumed(c, Argument)) IN
             IF stateful /\ Item(val, 1) = NULL
             THEN /\ surplus' = Abandon(overdrawn, <<val, result>>)
                  /\ ReturnFrom(NULL)
             ELSE /\ surplus' = overdrawn
                  /\ Continue(Frame("dirlist", result, val, 0))
  /\ UnchangedMap

(* ReadNewObjList, then ReadNewObjDict: each builds a container of its own   *)
(* until Op_PyStopIter and gives it to the object.  What they return is      *)
(* ignored.                                                                  *)
DirKind == IF Top.op = "dirlist" THEN "list" ELSE "dict"

DirStart ==
  /\ Running /\ reading /\ HasRoom /\ stack # <<>> /\ Top.op \in {"dirlist", "dirdict"}
  /\ heap' = [heap EXCEPT ![Fresh] = NewObject(DirKind, 0, "none", 1)]
  /\ Descend(Frame(IF Top.op = "dirlist" THEN "listitr" ELSE "dictitr", Fresh, NULL, 0))
  /\ UNCHANGED <<pending, surplus, ops>> /\ UnchangedMap

(* Where the caller goes once its list or dict is read: on to the dict, or   *)
(* back with the object, its argument tuple released.                        *)
DirNext(caller) ==
  IF caller.op = "dirlist"
  THEN /\ stack' = Append(SubSeq(stack, 1, Len(stack) - 2), [caller EXCEPT !.op = "dirdict"])
       /\ reading' = TRUE /\ val' = NULL
       /\ UNCHANGED <<phase, failed, pending>>
  ELSE /\ stack' = SubSeq(stack, 1, Len(stack) - 2)
       /\ pending' = <<caller.tmp>>
       /\ Return(caller.obj)

DirStop ==
  /\ Running /\ reading /\ stack # <<>> /\ Top.op \in {"listitr", "dictitr"}
  /\ ops < MaxOps /\ ops' = ops + 1
  /\ LET caller == stack[Len(stack) - 1] IN
     \/ caller.obj = NULL /\ Undefined
     \/ /\ caller.obj # NULL
        /\ heap' = [heap EXCEPT ![caller.obj].kids = Append(@, Top.obj)]
        /\ DirNext(caller)
        /\ UNCHANGED surplus /\ UnchangedMap

DirFails ==
  /\ Returned({"listitr", "dictitr"})
  /\ val = NULL
  /\ surplus' = Abandon(surplus, <<Top.obj>>)
  /\ DirNext(stack[Len(stack) - 1])
  /\ UNCHANGED heap /\ UnchangedMap

(* PyList::add takes a reference of its own; the caller's is not dropped. *)
ListAdd(list, o) == heap' = IncRefs([heap EXCEPT ![list].kids = Append(@, o)], <<o>>)

DirListItem ==
  /\ Returned({"listitr"})
  /\ val # NULL
  /\ \/ ~Live(val) /\ Undefined
     \/ /\ Live(val)
        /\ ListAdd(Top.obj, val)
        /\ surplus' = Abandon(surplus, <<val>>)
        /\ Continue(Top)
        /\ UNCHANGED pending /\ UnchangedMap

DirDictKey ==
  /\ Returned({"dictitr"})
  /\ val # NULL
  /\ Continue(Frame("dictvalue", Top.obj, val, 0))
  /\ UnchangedHeap /\ UnchangedMap

(* A NULL value is not stored, and then released through the NULL pointer. *)
DirDictValue ==
  /\ Returned({"dictvalue"})
  /\ \/ val = NULL /\ Undefined
     \/ /\ val # NULL
        /\ SetItem(Top.obj, Top.tmp, val)
        /\ Continue(Frame("dictitr", Top.obj, NULL, 0))
        /\ UNCHANGED surplus /\ UnchangedMap
-----------------------------------------------------------------------------
(* ReadPackedRow.  setbases is called nowhere, so the class has no bases and *)
(* any row data, which needs them, is read through NULL.                     *)
ReadPackedRow ==
  /\ AtOpcode("row")
  /\ Descend(Frame("row", NULL, NULL, 0))
  /\ UnchangedHeap /\ UnchangedMap

PackedRowHeader ==
  /\ Returned({"row"})
  /\ LET o == Fresh
         row == [heap EXCEPT ![o] = NewObject("row", 0, "none", 1)]
     IN
     \/ /\ val = NULL
        /\ ReturnFrom(NULL)
        /\ UnchangedHeap /\ UnchangedMap
     \/ /\ val # NULL /\ ~Is(val, "class")
        /\ heap' = row
        /\ surplus' = Abandon(surplus, <<val, o>>)
        /\ ReturnFrom(NULL)
        /\ UNCHANGED pending /\ UnchangedMap
     \/ /\ Is(val, "class")    \* the row data cannot be read
        /\ heap' = row
        /\ pending' = <<val, o>>
        /\ ReturnFrom(NULL)
        /\ UNCHANGED surplus /\ UnchangedMap
     \/ /\ Is(val, "class")    \* no row data
        /\ heap' = [row EXCEPT ![o].kids = <<val>>]
        /\ ReturnFrom(o)
        /\ UNCHANGED <<pending, surplus>> /\ UnchangedMap
     \/ Is(val, "class") /\ Undefined
-----------------------------------------------------------------------------
(* HandleFile: load returns, the object is dumped and released, and the end  *)
(* of the loop body destroys the MarshalStream with its reference map.       *)
LoadReturns ==
  /\ Running /\ ~reading /\ stack = <<>>
  /\ phase' = "loaded"
  /\ UNCHANGED <<stack, val, reading, ops, failed>>
  /\ UnchangedHeap /\ UnchangedMap

ReleaseResult ==
  /\ phase = "loaded"
  /\ phase' = "dropped" /\ val' = NULL
  /\ pending' = IF val = NULL THEN <<>> ELSE <<val>>
  /\ UNCHANGED <<heap, surplus, stack, reading, ops, failed>> /\ UnchangedMap

DestroyStream ==
  /\ phase = "dropped" /\ pending = <<>>
  /\ phase' = "done"
  /\ pending' = [i \in 1..mExpectedObjectsCount |-> mReferenceObjects[i - 1]]
  /\ Refs!Clear
  /\ UNCHANGED <<heap, surplus, stack, val, reading, ops, failed, stored>>

Release ==
  /\ phase # "undefined" /\ pending # <<>>
  /\ \/ ReleaseOne /\ UNCHANGED control
     \/ ~ReleaseDefined /\ Undefined /\ UNCHANGED ops
  /\ UnchangedMap

Next ==
  \/ ReadMarshalHeader \/ ReadFails \/ ReadSingleton
  \/ ReadLeaf \/ ReadTuple \/ ReadList \/ ReadDict \/ Complete
  \/ ReadClassString \/ ReadRef
  \/ AddItem \/ RefuseItem \/ DictPayload \/ RefuseEntry \/ DictEntry
  \/ ReadInstance \/ InstanceNameFails \/ InstanceName \/ InstanceBasesFail \/ InstanceInit
  \/ ReadCall \/ CallNoTuple \/ CallRefused \/ CallClass
  \/ DirStart \/ DirStop \/ DirFails \/ DirListItem \/ DirDictKey \/ DirDictValue
  \/ ReadPackedRow \/ PackedRowHeader
  \/ LoadReturns \/ ReleaseResult \/ DestroyStream \/ Release

Spec == Init /\ [][Next]_vars
-----------------------------------------------------------------------------
TypeOK ==
  /\ heap \in [Obj -> [kind : Kind, refcnt : Nat, kids : Seq(Obj), size : Nat,
                       cls : AllClasses \cup {"none"}]]
  /\ pending \in Seq(Obj \cup {NULL})
  /\ surplus \in [Obj -> Int]
  /\ Refs!TypeOK
  /\ phase \in {"header", "load", "loaded", "dropped", "done", "undefined"}
  /\ val \in Obj \cup {NULL}
  /\ stack \in Seq([op : FrameOp, obj : Obj \cup {NULL}, tmp : Obj \cup {NULL}, left : 0..MaxItems])
  /\ reading \in BOOLEAN /\ failed \in BOOLEAN /\ ops \in 0..MaxOps
  /\ stored \in Seq(Obj)

(* The references to o that somebody holds and will drop. *)
Holders(o) ==
  CountIn(o, pending)
  + Cardinality(UNION {{p} \X {i \in DOMAIN heap[p].kids : heap[p].kids[i] = o} : p \in Obj})
  + Cardinality({i \in DOMAIN mReferenceObjects : mReferenceObjects[i] = o})
  + Cardinality({i \in DOMAIN stack : stack[i].obj = o})
  + Cardinality({i \in DOMAIN stack : stack[i].tmp = o})
  + (IF val = o THEN 1 ELSE 0)
  + (IF o \in Static THEN 1 ELSE 0)

(* Reference counting is exact: the count of every live object is the number  *)
(* of references held to it, by containers, by the shared-object slots, by    *)
(* the calls in progress and by the release in progress, plus those some path *)
(* abandoned and less those some path dropped without holding them.           *)
(* (inc_ref/dec_ref pairing across unmarshal, the inits and the destructors.) *)
CountsExact ==
  phase # "undefined" =>
    \A o \in Obj : Live(o) => heap[o].refcnt = Holders(o) + surplus[o]

(* Nobody holds a pointer to a deleted object, unless a reference to it was   *)
(* dropped by somebody who did not hold one.  (No destructor, error path or   *)
(* teardown of HandleFile deletes what is still referenced.)                  *)
NoDangling ==
  phase # "undefined" =>
    \A o \in Obj : ~Live(o) /\ surplus[o] >= 0 => Holders(o) = 0

OrderIsOneToOne ==
  \A i, j \in 0..(mExpectedObjectsCount - 1) : mOrderMap[i] = mOrderMap[j] => i = j

(* A reference is abandoned only on a path that fails the load: a load that   *)
(* succeeds, its map naming every slot once, accounts for every reference it  *)
(* took.                                                                      *)
OnlyFailuresLeak ==
  phase # "undefined" /\ ~failed /\ OrderIsOneToOne => \A o \in Obj : surplus[o] <= 0

(* An unmarshal error anywhere in the packet makes load return NULL           *)
(* (MarshalStream.h: "if there was a error it returns NULL").                 *)
ErrorReturnsNull ==
  phase = "loaded" /\ failed => val = NULL

(* Where every slot is named once by the order map, slot k holds for good the *)
(* object registered when the map named k, so a later Op_PyRef to k gets it.  *)
RegisteredInPlace ==
  phase \in {"load", "loaded", "dropped"} /\ OrderIsOneToOne =>
    \A i \in 1..Len(stored) : mReferenceObjects[mOrderMap[i - 1] - 1] = stored[i]
=============================================================================
