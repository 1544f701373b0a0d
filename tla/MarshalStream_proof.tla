------------------------ MODULE MarshalStream_proof ------------------------
(***************************************************************************)
(* Loading a packet, for every bound, class registry and packet.           *)
(*                                                                         *)
(* The map of shared objects is used as its header says: theorem InPlace.  *)
(* RegisteredInPlace alone is not inductive: a store may only be known to  *)
(* miss the slots in use because the store index equals the number of      *)
(* objects registered and stays below the announced count, where the order *)
(* map is positive.  MapInv adds this.                                     *)
(*                                                                         *)
(* Reference counts: Exact and NothingDangles.  Sound adds to MapInv the   *)
(* shape of heap and stack, that every object held by a slot of the map is *)
(* allocated, and Balanced: the count of an object is the number of its    *)
(* holders (Paid) plus the surplus nobody will drop.  Each primitive of    *)
(* PyHeap (allocate, fill, take, drop, delete) changes count and holders   *)
(* by the same amount, and an action is a few of these with a change of    *)
(* the frame on top of the stack.                                          *)
(*                                                                         *)
(* Errors: ErrorsReach and FailuresOnly, for packets that call no object.  *)
(***************************************************************************)
EXTENDS MarshalStream, FiniteSetTheorems, FunctionTheorems, SequenceTheorems, TLAPS

Placed == \A i \in 1..Len(stored) : mReferenceObjects[mOrderMap[i - 1] - 1] = stored[i]

Active == {"header", "load", "loaded", "dropped"}

MapShape ==
  /\ mExpectedObjectsCount \in 0..MaxShared
  /\ stored \in Seq(Obj)
  /\ mStoreObjectIndex = Len(stored)
  /\ Len(stored) <= mExpectedObjectsCount
  /\ mOrderMap \in [0..MaxShared -> 0..MaxShared]
  /\ \A i \in 0..(mExpectedObjectsCount - 1) : mOrderMap[i] # 0
  /\ mOrderMap[mExpectedObjectsCount] = 0
  /\ mReferenceObjects \in [0..MaxShared -> Obj \cup {NULL}]

MapInv ==
  /\ MapShape
  /\ phase = "header" => mExpectedObjectsCount = 0
  /\ phase \in Active /\ OrderIsOneToOne => Placed

(* What a step may do to the map: nothing, or register one object. *)
KeepsMap ==
  /\ UNCHANGED <<mapVars, stored>>
  /\ phase' \in Active => phase \in Active
  /\ phase' = "header" => phase = "header"

AddsToMap ==
  /\ phase = "load" /\ phase' = "load"
  /\ \E o \in Obj : Register(o)

LEMMA FreshIsObj == HasRoom => Fresh \in Obj
BY DEF HasRoom, Fresh

LEMMA PrototypeIsObj == \A i \in DOMAIN Classes : Prototype(i) \in Obj
<1> SUFFICES ASSUME NEW i \in DOMAIN Classes PROVE Prototype(i) \in Obj
  OBVIOUS
<1>1. Classes \in Seq(AllClasses) /\ Len(Classes) + 1 <= MaxObj
  BY BoundsAssumption
<1>2. i \in 1..Len(Classes)
  BY <1>1
<1> QED
  BY <1>1, <1>2, MaxObjAssumption DEF Prototype, Obj

(* A container is registered at most once, when it is created. *)
LEMMA NewContainerStep ==
  ASSUME NEW k, NEW n, NEW shared \in BOOLEAN, Running, HasRoom,
         NewContainer(k, n, shared)
  PROVE  KeepsMap \/ AddsToMap
<1>1. CASE UnchangedMap /\ phase' = phase
  BY <1>1 DEF KeepsMap, UnchangedMap
<1>2. CASE Undefined
  BY <1>2 DEF Undefined, KeepsMap, Active, mapVars
<1>3. CASE Register(Fresh) /\ phase' = phase
  BY <1>3, FreshIsObj DEF AddsToMap, Running
<1> QED
  BY <1>1, <1>2, <1>3 DEF NewContainer, Descend, Return

(* The three actions that may register an object. *)
LEMMA RegisteringSteps ==
  ASSUME ReadLeaf \/ ReadTuple \/ ReadList \/ ReadDict \/ ReadClassString \/ InstanceName
  PROVE  KeepsMap \/ AddsToMap
<1>1. CASE ReadLeaf
  BY <1>1, NewContainerStep DEF ReadLeaf, AtOpcode, Unmarshals
<1>2. CASE ReadTuple
  BY <1>2, NewContainerStep DEF ReadTuple, AtOpcode, Unmarshals
<1>3. CASE ReadList
  BY <1>3, NewContainerStep DEF ReadList, AtOpcode, Unmarshals
<1>4. CASE ReadDict
  BY <1>4, NewContainerStep DEF ReadDict, AtOpcode, Unmarshals
<1>5. CASE ReadClassString
  <2>1. phase = "load"
    BY <1>5 DEF ReadClassString, AtOpcode, Unmarshals, Running
  <2>2. CASE UnchangedMap /\ phase' = phase
    BY <2>2 DEF KeepsMap, UnchangedMap
  <2>3. CASE \E i \in DOMAIN Classes : Register(Prototype(i)) /\ phase' = phase
    BY <2>1, <2>3, PrototypeIsObj DEF AddsToMap
  <2>4. CASE Undefined
    BY <2>4 DEF Undefined, KeepsMap, Active, mapVars
  <2> QED
    BY <1>5, <2>2, <2>3, <2>4 DEF ReadClassString, ReturnExisting, Return
<1>6. CASE InstanceName
  <2>1. phase = "load" /\ Fresh \in Obj
    BY <1>6, FreshIsObj DEF InstanceName, Returned, Running
  <2>2. CASE UnchangedMap /\ phase' = phase
    BY <2>2 DEF KeepsMap, UnchangedMap
  <2>3. CASE Register(Fresh) /\ phase' = phase
    BY <2>1, <2>3 DEF AddsToMap
  <2>4. CASE Undefined
    BY <2>4 DEF Undefined, KeepsMap, Active, mapVars
  <2> QED
    BY <1>6, <2>2, <2>3, <2>4 DEF InstanceName, Continue, ReturnFrom, Return
<1> QED
  BY <1>1, <1>2, <1>3, <1>4, <1>5, <1>6

(* Reading data without the shared flag, and every return. *)
LEMMA DataSteps ==
  ASSUME \/ ReadFails \/ ReadSingleton \/ Complete \/ ReadRef
         \/ AddItem \/ RefuseItem \/ DictPayload \/ RefuseEntry \/ DictEntry
  PROVE  KeepsMap
<1>0. CASE Undefined
  BY <1>0 DEF Undefined, KeepsMap, Active, mapVars
<1>1. CASE ~Undefined
  <2> SUFFICES UNCHANGED <<phase, mapVars, stored>>
    BY DEF KeepsMap
  <2>1. CASE ReadFails
    BY <2>1 DEF ReadFails, Return, UnchangedMap
  <2>2. CASE ReadSingleton
    BY <1>1, <2>2 DEF ReadSingleton, ReturnExisting, Return, UnchangedMap
  <2>3. CASE Complete
    BY <2>3 DEF Complete, ReturnFrom, Return, UnchangedMap
  <2>4. CASE ReadRef
    BY <1>1, <2>4 DEF ReadRef, ReturnExisting, Return, UnchangedMap
  <2>5. CASE AddItem
    BY <2>5 DEF AddItem, Continue, UnchangedMap
  <2>6. CASE RefuseItem
    BY <2>6 DEF RefuseItem, ReturnFrom, Return, UnchangedMap
  <2>7. CASE DictPayload
    BY <2>7 DEF DictPayload, Continue, UnchangedMap
  <2>8. CASE RefuseEntry
    BY <2>8 DEF RefuseEntry, ReturnFrom, Return, UnchangedMap
  <2>9. CASE DictEntry
    BY <2>9 DEF DictEntry, Continue, UnchangedMap
  <2> QED
    BY <2>1, <2>2, <2>3, <2>4, <2>5, <2>6, <2>7, <2>8, <2>9
<1> QED
  BY <1>0, <1>1

(* Instances after their name, calls and packed rows. *)
LEMMA ClassSteps ==
  ASSUME \/ ReadInstance \/ InstanceNameFails \/ InstanceBasesFail \/ InstanceInit
         \/ ReadCall \/ CallNoTuple \/ CallRefused \/ CallClass
         \/ ReadPackedRow \/ PackedRowHeader
  PROVE  KeepsMap
<1> DEFINE Same == UNCHANGED <<phase, mapVars, stored>>
<1>1. Same \/ Undefined
  <2>1. CASE ReadInstance
    BY <2>1 DEF ReadInstance, Descend, UnchangedMap
  <2>2. CASE InstanceNameFails
    BY <2>2 DEF InstanceNameFails, ReturnFrom, Return, UnchangedMap
  <2>3. CASE InstanceBasesFail
    BY <2>3 DEF InstanceBasesFail, ReturnFrom, Return, UnchangedMap
  <2>4. CASE InstanceInit
    BY <2>4 DEF InstanceInit, ReturnFrom, Return, UnchangedMap
  <2>5. CASE ReadCall
    BY <2>5 DEF ReadCall, Descend, Return, UnchangedMap
  <2>6. CASE CallNoTuple
    BY <2>6 DEF CallNoTuple, ReturnFrom, Return, UnchangedMap
  <2>7. CASE CallRefused
    BY <2>7 DEF CallRefused, ReturnFrom, Return, UnchangedMap
  <2>8. CASE CallClass
    BY <2>8 DEF CallClass, ReturnFrom, Return, Continue, UnchangedMap
  <2>9. CASE ReadPackedRow
    BY <2>9 DEF ReadPackedRow, Descend, UnchangedMap
  <2>10. CASE PackedRowHeader
    BY <2>10 DEF PackedRowHeader, ReturnFrom, Return, UnchangedMap
  <2> QED
    BY <2>1, <2>2, <2>3, <2>4, <2>5, <2>6, <2>7, <2>8, <2>9, <2>10
<1>2. Undefined => KeepsMap
  BY DEF Undefined, KeepsMap, Active, mapVars
<1>3. Same => KeepsMap
  BY DEF KeepsMap
<1> QED
  BY <1>1, <1>2, <1>3

(* The list and dict after newobj and reduce, and what HandleFile does next. *)
LEMMA ClosingSteps ==
  ASSUME \/ DirStart \/ DirStop \/ DirFails \/ DirListItem \/ DirDictKey \/ DirDictValue
         \/ LoadReturns \/ ReleaseResult \/ Release
  PROVE  KeepsMap
<1> DEFINE Same == UNCHANGED <<phase, mapVars, stored>>
<1>1. Undefined => KeepsMap
  BY DEF Undefined, KeepsMap, Active, mapVars
<1>2. Same => KeepsMap
  BY DEF KeepsMap
<1>3. \A f : DirNext(f) => phase' = phase
  BY DEF DirNext, Return
<1>4. CASE DirStart
  BY <1>2, <1>4 DEF DirStart, Descend, UnchangedMap
<1>5. CASE DirStop
  BY <1>1, <1>2, <1>3, <1>5 DEF DirStop, UnchangedMap
<1>6. CASE DirFails
  BY <1>2, <1>3, <1>6 DEF DirFails, UnchangedMap
<1>7. CASE DirListItem
  BY <1>1, <1>2, <1>7 DEF DirListItem, Continue, UnchangedMap
<1>8. CASE DirDictKey
  BY <1>2, <1>8 DEF DirDictKey, Continue, UnchangedMap
<1>9. CASE DirDictValue
  BY <1>1, <1>2, <1>9 DEF DirDictValue, Continue, UnchangedMap
<1>10. CASE LoadReturns
  BY <1>10 DEF LoadReturns, Running, KeepsMap, UnchangedMap, Active
<1>11. CASE ReleaseResult
  BY <1>11 DEF ReleaseResult, KeepsMap, UnchangedMap, Active
<1>12. CASE Release
  BY <1>1, <1>2, <1>12 DEF Release, UnchangedMap, control
<1> QED
  BY <1>4, <1>5, <1>6, <1>7, <1>8, <1>9, <1>10, <1>11, <1>12
-----------------------------------------------------------------------------
LEMMA NullIsNoObject == NULL \notin Obj
BY MaxObjAssumption DEF NULL, Obj

LEMMA InitMap == Init => MapInv
<1> SUFFICES ASSUME Init PROVE MapInv
  OBVIOUS
<1>1. MaxShared \in Nat
  BY BoundsAssumption
<1>2. /\ mExpectedObjectsCount = 0 /\ mStoreObjectIndex = 0 /\ stored = <<>>
      /\ mOrderMap = [i \in 0..MaxShared |-> 0]
      /\ mReferenceObjects = [i \in 0..MaxShared |-> NULL]
  BY DEF Init, Refs!Init, Refs!Slot
<1>3. MapShape
  BY <1>1, <1>2 DEF MapShape
<1>4. Placed
  BY <1>2 DEF Placed
<1> QED
  BY <1>2, <1>3, <1>4 DEF MapInv

LEMMA KeepsMapInv == MapInv /\ KeepsMap => MapInv'
BY DEF MapInv, KeepsMap, mapVars, MapShape, OrderIsOneToOne, Placed

LEMMA HeaderInv == MapInv /\ ReadMarshalHeader => MapInv'
<1> SUFFICES ASSUME MapInv, ReadMarshalHeader PROVE MapInv'
  OBVIOUS
<1>1. mExpectedObjectsCount = 0 /\ Len(stored) = 0 /\ stored \in Seq(Obj)
  <2>1. phase = "header"
    BY DEF ReadMarshalHeader
  <2> QED
    BY <2>1 DEF MapInv, MapShape
<1>2. stored' = stored /\ phase' # "header"
  BY DEF ReadMarshalHeader
<1>3. Placed'
  BY <1>1, <1>2 DEF Placed
<1>4. MapShape'
  <2>1. CASE UNCHANGED mapVars
    BY <1>2, <2>1 DEF MapInv, MapShape, mapVars
  <2>2. ASSUME NEW n \in 0..MaxShared, NEW order \in [0..(n - 1) -> 1..n], Refs!SetOrder(n, order)
        PROVE  MapShape'
    <3>1. MaxShared \in Nat
      BY BoundsAssumption
    <3>2. /\ mExpectedObjectsCount' = n
          /\ mOrderMap' = [i \in 0..MaxShared |-> IF i < n THEN order[i] ELSE 0]
          /\ UNCHANGED <<mStoreObjectIndex, mReferenceObjects>>
      BY <2>2 DEF Refs!SetOrder, Refs!Slot
    <3>3. \A i \in 0..MaxShared : i < n => order[i] \in 0..MaxShared
      BY <3>1
    <3>4. mOrderMap' \in [0..MaxShared -> 0..MaxShared]
      BY <3>1, <3>2, <3>3
    <3>5. mOrderMap'[n] = 0
      BY <3>1, <3>2
    <3>6. mStoreObjectIndex = Len(stored) /\ mReferenceObjects \in [0..MaxShared -> Obj \cup {NULL}]
      BY DEF MapInv, MapShape
    <3>7. \A i \in 0..(n - 1) : mOrderMap'[i] # 0
      BY <3>1, <3>2
    <3> QED
      BY <1>1, <1>2, <3>1, <3>2, <3>4, <3>5, <3>6, <3>7 DEF MapShape
  <2> QED
    BY <2>1, <2>2 DEF ReadMarshalHeader
<1> QED
  BY <1>2, <1>3, <1>4 DEF MapInv

LEMMA AddsInv == MapInv /\ AddsToMap => MapInv'
<1> SUFFICES ASSUME MapInv, phase = "load", phase' = "load", NEW o \in Obj, Register(o)
             PROVE  MapInv'
  BY DEF AddsToMap
<1> DEFINE at == mOrderMap[mStoreObjectIndex] - 1
<1>1. MapShape /\ MaxShared \in Nat
  BY BoundsAssumption DEF MapInv
<1>2. /\ mReferenceObjects' = [mReferenceObjects EXCEPT ![at] = o]
      /\ mStoreObjectIndex' = mStoreObjectIndex + 1
      /\ stored' = Append(stored, o)
      /\ UNCHANGED <<mExpectedObjectsCount, mOrderMap>>
  BY DEF Register, Refs!Store, Refs!StoreLocation
<1>3. /\ mStoreObjectIndex = Len(stored) /\ Len(stored) \in Nat
      /\ mExpectedObjectsCount \in Nat /\ mExpectedObjectsCount <= MaxShared
      /\ \A i \in 0..MaxShared : mOrderMap[i] \in 0..MaxShared
  BY <1>1 DEF MapShape
<1>4. mOrderMap[mStoreObjectIndex] # 0
  BY DEF Register, Refs!Store, Refs!StoreWraps
<1>5. mStoreObjectIndex < mExpectedObjectsCount
  <2>1. mStoreObjectIndex <= mExpectedObjectsCount /\ mOrderMap[mExpectedObjectsCount] = 0
    BY <1>1 DEF MapShape
  <2> QED
    BY <1>3, <1>4, <2>1
<1>6. at \in 0..MaxShared
  <2>1. mOrderMap[mStoreObjectIndex] \in 0..MaxShared
    BY <1>1, <1>3, <1>5
  <2> QED
    BY <1>1, <1>4, <2>1
<1>7. MapShape'
  <2>1. stored' \in Seq(Obj) /\ Len(stored') = Len(stored) + 1
    BY <1>1, <1>2 DEF MapShape
  <2>2. mReferenceObjects' \in [0..MaxShared -> Obj \cup {NULL}]
    BY <1>1, <1>2 DEF MapShape
  <2>3. mStoreObjectIndex' = Len(stored') /\ Len(stored') <= mExpectedObjectsCount'
    BY <1>2, <1>3, <1>5, <2>1
  <2>4. /\ mExpectedObjectsCount' \in 0..MaxShared
        /\ mOrderMap' \in [0..MaxShared -> 0..MaxShared]
        /\ \A i \in 0..(mExpectedObjectsCount' - 1) : mOrderMap'[i] # 0
        /\ mOrderMap'[mExpectedObjectsCount'] = 0
    BY <1>1, <1>2 DEF MapShape
  <2> QED
    BY <2>1, <2>2, <2>3, <2>4 DEF MapShape
<1>8. ASSUME OrderIsOneToOne' PROVE Placed'
  <2>1. OrderIsOneToOne /\ Placed
    BY <1>2, <1>8 DEF OrderIsOneToOne, MapInv, Active
  <2>2. /\ Len(stored') = Len(stored) + 1
        /\ stored'[Len(stored) + 1] = o
        /\ \A i \in 1..Len(stored) : stored'[i] = stored[i]
    BY <1>1, <1>2 DEF MapShape
  <2>3. /\ mReferenceObjects'[at] = o
        /\ \A j \in 0..MaxShared : j # at => mReferenceObjects'[j] = mReferenceObjects[j]
    BY <1>1, <1>2, <1>6 DEF MapShape
  <2> SUFFICES ASSUME NEW i \in 1..Len(stored')
               PROVE  mReferenceObjects'[mOrderMap'[i - 1] - 1] = stored'[i]
    BY DEF Placed
  <2>4. CASE i = Len(stored) + 1
    <3>1. i - 1 = mStoreObjectIndex
      BY <1>3, <2>4
    <3>2. mOrderMap'[i - 1] - 1 = at
      BY <1>2, <3>1
    <3> QED
      BY <2>2, <2>3, <2>4, <3>2
  <2>5. CASE i \in 1..Len(stored)
    <3> DEFINE slot == mOrderMap[i - 1]
    <3>1. slot # mOrderMap[mStoreObjectIndex]
      BY <1>3, <1>5, <2>1, <2>5 DEF OrderIsOneToOne
    <3>2. mReferenceObjects[slot - 1] = stored[i]
      BY <2>1, <2>5 DEF Placed
    <3>3. slot \in 0..MaxShared
      BY <1>1, <1>3, <1>5, <2>5
    <3>4. slot # 0 => mReferenceObjects'[slot - 1] = mReferenceObjects[slot - 1]
      <4> HIDE DEF slot
      <4>1. slot - 1 # at
        BY <1>1, <1>3, <1>5, <3>1, <3>3
      <4>2. slot # 0 => slot - 1 \in 0..MaxShared
        BY <1>1, <3>3
      <4> QED
        BY <2>3, <4>1, <4>2
    <3>5. slot # 0
      BY <1>1, <1>3, <1>5, <2>5 DEF MapShape
    <3> QED
      BY <1>2, <2>2, <2>5, <3>2, <3>4, <3>5
  <2> QED
    BY <1>3, <2>2, <2>4, <2>5
<1> QED
  BY <1>7, <1>8 DEF MapInv

LEMMA DestroyInv == MapInv /\ DestroyStream => MapInv'
<1> SUFFICES ASSUME MapInv, DestroyStream PROVE MapInv'
  OBVIOUS
<1>1. phase' = "done" /\ stored' = stored
  BY DEF DestroyStream
<1>2. /\ mReferenceObjects' = [i \in 0..MaxShared |-> NULL]
      /\ UNCHANGED <<mExpectedObjectsCount, mStoreObjectIndex, mOrderMap>>
  BY DEF DestroyStream, Refs!Clear, Refs!Slot
<1> QED
  BY <1>1, <1>2 DEF MapInv, MapShape, Active

LEMMA NextMap == MapInv /\ [Next]_vars => MapInv'
<1> SUFFICES ASSUME MapInv, [Next]_vars PROVE MapInv'
  OBVIOUS
<1>1. CASE UNCHANGED vars
  <2>1. KeepsMap
    BY <1>1 DEF vars, control, KeepsMap
  <2> QED
    BY <2>1, KeepsMapInv
<1>2. CASE Next
  BY <1>2, RegisteringSteps, DataSteps, ClassSteps, ClosingSteps,
     KeepsMapInv, AddsInv, HeaderInv, DestroyInv DEF Next
<1> QED
  BY <1>1, <1>2

(* The inductive invariant holds of load, whatever the packet. *)
THEOREM MapInvariant == Spec => []MapInv
<1>1. Init => MapInv
  BY InitMap
<1>2. MapInv /\ [Next]_vars => MapInv'
  BY NextMap
<1> QED
  BY <1>1, <1>2, PTL DEF Spec

(* Slot k of the map of shared objects holds for good the object that was    *)
(* registered when the order map named k (StoreReferencedObject, read back   *)
(* by Op_PyRef).                                                             *)
THEOREM InPlace == Spec => []RegisteredInPlace
<1>1. MapInv => RegisteredInPlace
  BY DEF MapInv, Active, RegisteredInPlace, Placed
<1> QED
  BY <1>1, MapInvariant, PTL

-----------------------------------------------------------------------------
(* How often a value occurs in a sequence, and in a function on a finite set. *)
One(x, o) == IF x = o THEN 1 ELSE 0
Places(o, s) == {i \in DOMAIN s : s[i] = o}

LEMMA CountFunction == ASSUME NEW D, IsFiniteSet(D), NEW T, NEW f \in [D -> T], NEW o
                       PROVE CountIn(o, f) \in Nat /\ IsFiniteSet(Places(o, f))
<1>1. Places(o, f) \in SUBSET D
  BY DEF Places
<1>2. IsFiniteSet(Places(o, f))
  BY <1>1, FS_Subset
<1>. QED
  BY <1>2, FS_CardinalityType DEF CountIn, Places

LEMMA CountType == ASSUME NEW T, NEW s \in Seq(T), NEW o
                   PROVE CountIn(o, s) \in Nat /\ IsFiniteSet(Places(o, s))
<1>1. s \in [1..Len(s) -> T] /\ IsFiniteSet(1..Len(s))
  BY LenProperties, FS_Interval
<1>. QED
  BY <1>1, CountFunction

LEMMA CountEmpty == ASSUME NEW o PROVE CountIn(o, <<>>) = 0
<1>1. {i \in DOMAIN <<>> : <<>>[i] = o} = {}
  OBVIOUS
<1>. QED
  BY <1>1, FS_EmptySet DEF CountIn

LEMMA CountReplace ==
  ASSUME NEW D, IsFiniteSet(D), NEW T, NEW f \in [D -> T], NEW d \in D, NEW x, NEW o,
         NEW g, DOMAIN g = D, g[d] = x, \A i \in D \ {d} : g[i] = f[i]
  PROVE  CountIn(o, g) = CountIn(o, f) - One(f[d], o) + One(x, o)
<1>. DEFINE A == {i \in DOMAIN f : f[i] = o}
            B == {i \in DOMAIN g : g[i] = o}
<1>2. IsFiniteSet(A) /\ Cardinality(A) \in Nat
  <2>1. CountIn(o, f) \in Nat /\ IsFiniteSet(Places(o, f))
    BY CountFunction, Zenon
  <2>. QED
    BY <2>1 DEF CountIn, Places
<1>3. /\ IsFiniteSet(A \ {d})
      /\ Cardinality(A \ {d}) = IF d \in A THEN Cardinality(A) - 1 ELSE Cardinality(A)
  BY <1>2, FS_RemoveElement
<1>4. /\ Cardinality((A \ {d}) \cup {d}) = Cardinality(A \ {d}) + 1
  BY <1>3, FS_AddElement
<1>5. B = IF x = o THEN (A \ {d}) \cup {d} ELSE A \ {d}
  OBVIOUS
<1>6. d \in A <=> f[d] = o
  OBVIOUS
<1>. HIDE DEF A, B
<1>7. Cardinality(B) = Cardinality(A) - One(f[d], o) + One(x, o)
  BY <1>2, <1>3, <1>4, <1>5, <1>6 DEF One
<1>. QED
  BY <1>7 DEF CountIn, A, B

LEMMA CountAppend == ASSUME NEW T, NEW s \in Seq(T), NEW x \in T, NEW o
                     PROVE CountIn(o, Append(s, x)) = CountIn(o, s) + One(x, o)
<1>. DEFINE t == Append(s, x)
            A == {i \in DOMAIN s : s[i] = o}
            B == {i \in DOMAIN t : t[i] = o}
<1>1. /\ DOMAIN s = 1..Len(s) /\ Len(s) \in Nat
      /\ DOMAIN t = 1..(Len(s) + 1) /\ t[Len(s) + 1] = x /\ \A i \in 1..Len(s) : t[i] = s[i]
  BY AppendProperties, LenProperties
<1>2. IsFiniteSet(A) /\ Cardinality(A) \in Nat
  BY CountType DEF CountIn, Places
<1>3. Len(s) + 1 \notin A
  BY <1>1
<1>4. B = IF x = o THEN A \cup {Len(s) + 1} ELSE A
  <2>1. ASSUME NEW i PROVE i \in B <=> \/ i \in A
                                       \/ i = Len(s) + 1 /\ x = o
    <3>1. CASE i \in 1..Len(s)
      BY <1>1, <3>1
    <3>2. CASE i = Len(s) + 1
      BY <1>1, <3>2
    <3>3. CASE i \notin 1..Len(s) /\ i # Len(s) + 1
      BY <1>1, <3>3
    <3>. QED
      BY <3>1, <3>2, <3>3
  <2>. QED
    BY <2>1
<1>5. Cardinality(A \cup {Len(s) + 1}) = Cardinality(A) + 1
  BY <1>2, <1>3, FS_AddElement
<1>. HIDE DEF A, B
<1>6. Cardinality(B) = Cardinality(A) + One(x, o)
  BY <1>2, <1>4, <1>5 DEF One
<1>. QED
  BY <1>6 DEF CountIn, A, B

(* Counting in a shifted copy. *)
LEMMA CountShift == ASSUME NEW A \in SUBSET Int, IsFiniteSet(A), NEW m \in Int, NEW B,
                           \A i : i \in B <=> (i \in Int /\ i - m \in A)
                    PROVE IsFiniteSet(B) /\ Cardinality(B) = Cardinality(A)
<1>. DEFINE f == [i \in A |-> i + m]
<1>1. f \in [A -> B]
  OBVIOUS
<1>2. \A a, b \in A : f[a] = f[b] => a = b
  OBVIOUS
<1>3. \A t \in B : \E a \in A : f[a] = t
  <2>1. ASSUME NEW t \in B PROVE t - m \in A /\ (t - m) + m = t
    BY <2>1
  <2>. QED
    BY <2>1
<1>4. f \in Bijection(A, B)
  BY <1>1, <1>2, <1>3, Fun_IsBij
<1>5. ExistsBijection(A, B)
  BY <1>4 DEF ExistsBijection
<1>. QED
  BY <1>5, FS_Bijection

LEMMA CountConcat == ASSUME NEW T, NEW s \in Seq(T), NEW t \in Seq(T), NEW o
                     PROVE CountIn(o, s \o t) = CountIn(o, s) + CountIn(o, t)
<1>. DEFINE A == {i \in DOMAIN s : s[i] = o}
            B == {i \in DOMAIN t : t[i] = o}
            C == {i \in DOMAIN (s \o t) : (s \o t)[i] = o}
            D == {i \in (Len(s) + 1)..(Len(s) + Len(t)) : t[i - Len(s)] = o}
<1>1. /\ DOMAIN s = 1..Len(s) /\ Len(s) \in Nat /\ DOMAIN t = 1..Len(t) /\ Len(t) \in Nat
      /\ DOMAIN (s \o t) = 1..(Len(s) + Len(t))
      /\ \A i \in 1..(Len(s) + Len(t)) : (s \o t)[i] = IF i <= Len(s) THEN s[i] ELSE t[i - Len(s)]
  <2>1. s \o t \in Seq(T) /\ Len(s \o t) = Len(s) + Len(t)
    BY ConcatProperties
  <2>2. \A i \in 1..(Len(s) + Len(t)) : (s \o t)[i] = IF i <= Len(s) THEN s[i] ELSE t[i - Len(s)]
    BY ConcatProperties
  <2>. QED
    BY <2>1, <2>2, LenProperties
<1>2. IsFiniteSet(A) /\ IsFiniteSet(B) /\ Cardinality(A) \in Nat
  BY CountType DEF CountIn, Places
<1>3. IsFiniteSet(D) /\ Cardinality(D) = Cardinality(B)
  <2>1. B \in SUBSET Int /\ Len(s) \in Int
    BY <1>1
  <2>2. ASSUME NEW i PROVE i \in D <=> (i \in Int /\ i - Len(s) \in B)
    BY <1>1
  <2>. HIDE DEF B, D
  <2>. QED
    BY <1>2, <2>1, <2>2, CountShift
<1>4. C = A \cup D /\ A \cap D = {}
  <2>1. ASSUME NEW i PROVE i \in C <=> i \in A \/ i \in D
    <3>1. CASE i \in 1..Len(s)
      BY <1>1, <3>1
    <3>2. CASE i \in (Len(s) + 1)..(Len(s) + Len(t))
      BY <1>1, <3>2
    <3>3. CASE i \notin 1..(Len(s) + Len(t))
      BY <1>1, <3>3
    <3>. QED
      BY <1>1, <3>1, <3>2, <3>3
  <2>2. A \cap D = {}
    BY <1>1
  <2>. QED
    BY <2>1, <2>2
<1>. HIDE DEF A, B, C, D
<1>5. Cardinality(C) = Cardinality(A) + Cardinality(D) - Cardinality({})
  BY <1>2, <1>3, <1>4, FS_Union
<1>6. Cardinality(C) = Cardinality(A) + Cardinality(B)
  BY <1>2, <1>3, <1>5, FS_EmptySet, FS_CardinalityType
<1>. QED
  BY <1>6 DEF CountIn, A, B, C

LEMMA CountTuples == ASSUME NEW T, NEW x \in T, NEW y \in T, NEW z \in T, NEW o
                     PROVE /\ CountIn(o, <<x>>) = One(x, o)
                           /\ CountIn(o, <<x, y>>) = One(x, o) + One(y, o)
                           /\ CountIn(o, <<x, y, z>>) = One(x, o) + One(y, o) + One(z, o)
<1>1. ASSUME NEW s \in Seq(T), NEW e \in T, NEW u, u = Append(s, e)
      PROVE u \in Seq(T) /\ CountIn(o, u) = CountIn(o, s) + One(e, o)
  <2>1. CountIn(o, Append(s, e)) = CountIn(o, s) + One(e, o)
    BY CountAppend
  <2>. QED
    BY <1>1, <2>1
<1>2. /\ <<>> \in Seq(T) /\ <<x>> = Append(<<>>, x) /\ <<x, y>> = Append(<<x>>, y)
      /\ <<x, y, z>> = Append(<<x, y>>, z)
  OBVIOUS
<1>3. <<x>> \in Seq(T) /\ CountIn(o, <<x>>) = CountIn(o, <<>>) + One(x, o)
  BY <1>1, <1>2, Zenon
<1>4. <<x, y>> \in Seq(T) /\ CountIn(o, <<x, y>>) = CountIn(o, <<x>>) + One(y, o)
  BY <1>1, <1>2, <1>3, Zenon
<1>5. CountIn(o, <<x, y, z>>) = CountIn(o, <<x, y>>) + One(z, o)
  BY <1>1, <1>2, <1>4, Zenon
<1>6. CountIn(o, <<>>) = 0
  BY CountEmpty
<1>. QED
  BY <1>3, <1>4, <1>5, <1>6 DEF One

LEMMA CountHead == ASSUME NEW T, NEW s \in Seq(T), s # <<>>, NEW o
                   PROVE CountIn(o, s) = One(Head(s), o) + CountIn(o, Tail(s))
<1>1. Head(s) \in T /\ Tail(s) \in Seq(T) /\ <<Head(s)>> \in Seq(T)
  BY HeadTailProperties
<1>2. s = <<Head(s)>> \o Tail(s)
  <2>. DEFINE u == <<Head(s)>> \o Tail(s)
  <2>1. /\ Len(<<Head(s)>>) = 1 /\ <<Head(s)>>[1] = s[1] /\ Len(Tail(s)) = Len(s) - 1
        /\ Len(s) \in Nat /\ \A i \in 1..(Len(s) - 1) : Tail(s)[i] = s[i + 1]
    BY HeadTailProperties, LenProperties
  <2>2. /\ u \in Seq(T) /\ Len(u) = Len(<<Head(s)>>) + Len(Tail(s))
        /\ \A i \in 1..(Len(<<Head(s)>>) + Len(Tail(s))) :
             u[i] = IF i <= Len(<<Head(s)>>) THEN <<Head(s)>>[i] ELSE Tail(s)[i - Len(<<Head(s)>>)]
    BY <1>1, ConcatProperties
  <2>. HIDE DEF u
  <2>3. ASSUME NEW i \in 1..Len(s) PROVE u[i] = s[i]
    <3>1. CASE i = 1
      BY <2>1, <2>2, <3>1
    <3>2. CASE i # 1
      <4>1. i - 1 \in 1..(Len(s) - 1) /\ ~(i <= 1) /\ (i - 1) + 1 = i
        BY <2>1, <3>2
      <4>. QED
        BY <2>1, <2>2, <4>1
    <3>. QED
      BY <3>1, <3>2
  <2>4. Len(u) = Len(s)
    BY <2>1, <2>2
  <2>5. u = s
    BY <2>2, <2>3, <2>4, SeqEqual
  <2>. QED
    BY <2>5 DEF u
<1>3. CountIn(o, <<Head(s)>> \o Tail(s)) = CountIn(o, <<Head(s)>>) + CountIn(o, Tail(s))
  BY <1>1, CountConcat
<1>4. CountIn(o, <<Head(s)>>) = One(Head(s), o)
  <2>1. PICK h \in T : h = Head(s)
    BY <1>1
  <2>2. CountIn(o, <<h>>) = One(h, o)
    BY CountTuples
  <2>. QED
    BY <2>1, <2>2
<1>. QED
  BY <1>2, <1>3, <1>4

-----------------------------------------------------------------------------
(* The references to o held by containers. *)
KidPlaces(h, o) == UNION {{p} \X {i \in DOMAIN h[p].kids : h[p].kids[i] = o} : p \in Obj}
OtherPlaces(h, p, o) == UNION {{q} \X Places(o, h[q].kids) : q \in Obj \ {p}}
Kids(h, o) == Cardinality(KidPlaces(h, o))
HasKids(h) == \A p \in Obj : h[p].kids \in Seq(Obj)

LEMMA OthersFinite == ASSUME NEW h, HasKids(h), NEW p, NEW o
                      PROVE IsFiniteSet(OtherPlaces(h, p, o)) /\ Cardinality(OtherPlaces(h, p, o)) \in Nat
<1>. DEFINE A(q) == {q} \X Places(o, h[q].kids)
            D == Obj \ {p}
            S == {A(q) : q \in D}
            f == [q \in D |-> A(q)]
<1>1. IsFiniteSet(D)
  <2>1. IsFiniteSet(Obj)
    BY FS_Interval, MaxObjAssumption DEF Obj
  <2>. QED
    BY <2>1, FS_Difference
<1>2. f \in Surjection(D, S)
  <2>1. f \in [D -> S] /\ \A t \in S : \E q \in D : f[q] = t
    OBVIOUS
  <2>. QED
    BY <2>1, Fun_IsSurj
<1>3. IsFiniteSet(S)
  BY <1>1, <1>2, FS_Surjection
<1>4. ASSUME NEW q \in D PROVE IsFiniteSet(A(q))
  <2>1. h[q].kids \in Seq(Obj)
    BY DEF HasKids
  <2>2. IsFiniteSet(Places(o, h[q].kids)) /\ IsFiniteSet({q})
    BY <2>1, CountType, FS_Singleton
  <2>. QED
    BY <2>2, FS_Product
<1>5. IsFiniteSet(UNION S)
  <2>1. \A t \in S : IsFiniteSet(t)
    BY <1>4
  <2>. HIDE DEF S
  <2>. QED
    BY <1>3, <2>1, FS_UNION
<1>. QED
  BY <1>5, FS_CardinalityType DEF OtherPlaces

LEMMA KidsSplit == ASSUME NEW h, HasKids(h), NEW p \in Obj, NEW o
                   PROVE Kids(h, o) = Cardinality(OtherPlaces(h, p, o)) + CountIn(o, h[p].kids)
<1>. DEFINE A == {p} \X Places(o, h[p].kids)
            B == OtherPlaces(h, p, o)
<1>1. h[p].kids \in Seq(Obj)
  BY DEF HasKids
<1>2. /\ IsFiniteSet(Places(o, h[p].kids)) /\ Cardinality(Places(o, h[p].kids)) = CountIn(o, h[p].kids)
      /\ CountIn(o, h[p].kids) \in Nat /\ IsFiniteSet({p}) /\ Cardinality({p}) = 1
  <2>1. IsFiniteSet(Places(o, h[p].kids)) /\ CountIn(o, h[p].kids) \in Nat
    BY <1>1, CountType
  <2>2. Cardinality(Places(o, h[p].kids)) = CountIn(o, h[p].kids)
    BY DEF CountIn, Places
  <2>. QED
    BY <2>1, <2>2, FS_Singleton
<1>3. IsFiniteSet(A) /\ Cardinality(A) = CountIn(o, h[p].kids)
  <2>1. Cardinality(A) = 1 * CountIn(o, h[p].kids) /\ IsFiniteSet(A)
    BY <1>2, FS_Product
  <2>. QED
    BY <1>2, <2>1
<1>4. IsFiniteSet(B) /\ Cardinality(B) \in Nat
  BY OthersFinite
<1>5. KidPlaces(h, o) = A \cup B
  <2>1. KidPlaces(h, o) = UNION {{q} \X Places(o, h[q].kids) : q \in Obj}
    BY DEF KidPlaces, Places
  <2>2. ASSUME NEW e PROVE e \in UNION {{q} \X Places(o, h[q].kids) : q \in Obj} <=> e \in A \cup B
    BY DEF OtherPlaces
  <2>. QED
    BY <2>1, <2>2
<1>6. A \cap B = {}
  BY DEF OtherPlaces
<1>7. Cardinality(A \cup B) = Cardinality(A) + Cardinality(B) - Cardinality({})
  BY <1>3, <1>4, <1>6, FS_Union
<1>. HIDE DEF A, B
<1>8. Cardinality(A \cup B) = Cardinality(A) + Cardinality(B)
  BY <1>2, <1>3, <1>4, <1>7, FS_EmptySet
<1>. QED
  BY <1>2, <1>3, <1>4, <1>5, <1>8 DEF B, Kids

LEMMA KidsType == ASSUME NEW h, HasKids(h), NEW o PROVE Kids(h, o) \in Nat
<1>1. PICK p : p \in Obj
  BY MaxObjAssumption DEF Obj
<1>2. CountIn(o, h[p].kids) \in Nat
  BY <1>1, CountType DEF HasKids
<1>. QED
  BY <1>1, <1>2, KidsSplit, OthersFinite

(* What changes at one container. *)
LEMMA KidsAt == ASSUME NEW h, HasKids(h), NEW g, HasKids(g), NEW p \in Obj, NEW o,
                       \A q \in Obj \ {p} : g[q].kids = h[q].kids
                PROVE Kids(g, o) = Kids(h, o) - CountIn(o, h[p].kids) + CountIn(o, g[p].kids)
<1>1. OtherPlaces(g, p, o) = OtherPlaces(h, p, o)
  BY DEF OtherPlaces
<1>2. Kids(h, o) = Cardinality(OtherPlaces(h, p, o)) + CountIn(o, h[p].kids)
  BY KidsSplit
<1>3. Kids(g, o) = Cardinality(OtherPlaces(g, p, o)) + CountIn(o, g[p].kids)
  BY KidsSplit
<1>4. /\ CountIn(o, h[p].kids) \in Nat /\ CountIn(o, g[p].kids) \in Nat
      /\ Cardinality(OtherPlaces(h, p, o)) \in Nat
  BY CountType, OthersFinite DEF HasKids
<1>. QED
  BY <1>1, <1>2, <1>3, <1>4

LEMMA KidsSame == ASSUME NEW h, NEW g, NEW o, \A q \in Obj : g[q].kids = h[q].kids
                  PROVE Kids(g, o) = Kids(h, o)
BY DEF Kids, KidPlaces

-----------------------------------------------------------------------------
(* The references held by the calls in progress. *)
Ref == Obj \cup {NULL}
FrameSet == [op : FrameOp, obj : Ref, tmp : Ref, left : 0..MaxItems]
ObjsOf(st) == [i \in DOMAIN st |-> st[i].obj]
TmpsOf(st) == [i \in DOMAIN st |-> st[i].tmp]
Inner(st, o) == CountIn(o, ObjsOf(st)) + CountIn(o, TmpsOf(st))
Held(f, o) == One(f.obj, o) + One(f.tmp, o)
Popped(st) == SubSeq(st, 1, Len(st) - 1)

LEMMA ShortSeqs ==
  /\ <<>> \in Seq(Ref)
  /\ \A x \in Ref : <<x>> \in Seq(Ref)
  /\ \A x, y \in Ref : <<x, y>> \in Seq(Ref)
  /\ \A x, y, z \in Ref : <<x, y, z>> \in Seq(Ref)
OBVIOUS

LEMMA ShortCounts ==
  ASSUME NEW o
  PROVE  /\ CountIn(o, <<>>) = 0
         /\ \A x \in Ref : CountIn(o, <<x>>) = One(x, o)
         /\ \A x, y \in Ref : CountIn(o, <<x, y>>) = One(x, o) + One(y, o)
         /\ \A x, y, z \in Ref : CountIn(o, <<x, y, z>>) = One(x, o) + One(y, o) + One(z, o)
<1>1. ASSUME NEW x \in Ref, NEW y \in Ref, NEW z \in Ref
      PROVE  /\ CountIn(o, <<x>>) = One(x, o) /\ CountIn(o, <<x, y>>) = One(x, o) + One(y, o)
             /\ CountIn(o, <<x, y, z>>) = One(x, o) + One(y, o) + One(z, o)
  BY CountTuples
<1>. QED
  BY <1>1, CountEmpty

LEMMA StackMaps == ASSUME NEW st \in Seq(FrameSet)
                   PROVE ObjsOf(st) \in Seq(Ref) /\ TmpsOf(st) \in Seq(Ref)
<1>1. Len(st) \in Nat /\ DOMAIN st = 1..Len(st) /\ \A i \in 1..Len(st) : st[i] \in FrameSet
  BY LenProperties
<1>2. ObjsOf(st) \in [1..Len(st) -> Ref] /\ TmpsOf(st) \in [1..Len(st) -> Ref]
  BY <1>1 DEF ObjsOf, TmpsOf, FrameSet
<1>. QED
  BY <1>1, <1>2, SeqDef

LEMMA InnerType == ASSUME NEW st \in Seq(FrameSet), NEW o PROVE Inner(st, o) \in Nat
<1>1. CountIn(o, ObjsOf(st)) \in Nat
  BY StackMaps, CountType
<1>2. CountIn(o, TmpsOf(st)) \in Nat
  BY StackMaps, CountType
<1>. QED
  BY <1>1, <1>2 DEF Inner

LEMMA StackPush == ASSUME NEW st \in Seq(FrameSet), NEW f \in FrameSet, NEW o
                   PROVE Inner(Append(st, f), o) = Inner(st, o) + Held(f, o)
<1>. DEFINE tt == Append(st, f)
<1>1. /\ tt \in Seq(FrameSet) /\ Len(tt) = Len(st) + 1 /\ Len(st) \in Nat /\ DOMAIN st = 1..Len(st)
      /\ DOMAIN tt = 1..(Len(st) + 1)
      /\ (\A i \in 1..Len(st) : tt[i] = st[i]) /\ tt[Len(st) + 1] = f
  BY AppendProperties, LenProperties
<1>2. /\ ObjsOf(st) \in Seq(Ref) /\ TmpsOf(st) \in Seq(Ref) /\ ObjsOf(tt) \in Seq(Ref) /\ TmpsOf(tt) \in Seq(Ref)
      /\ f.obj \in Ref /\ f.tmp \in Ref
  BY <1>1, StackMaps DEF FrameSet
<1>. HIDE DEF tt
<1>3. /\ Len(ObjsOf(st)) = Len(st) /\ Len(ObjsOf(tt)) = Len(st) + 1
      /\ Len(TmpsOf(st)) = Len(st) /\ Len(TmpsOf(tt)) = Len(st) + 1
  <2>1. /\ DOMAIN ObjsOf(st) = 1..Len(st) /\ DOMAIN ObjsOf(tt) = 1..(Len(st) + 1)
        /\ DOMAIN TmpsOf(st) = 1..Len(st) /\ DOMAIN TmpsOf(tt) = 1..(Len(st) + 1)
    BY <1>1 DEF ObjsOf, TmpsOf
  <2>. QED
    BY <1>1, <1>2, <2>1, LenProperties
<1>4. ObjsOf(tt) = Append(ObjsOf(st), f.obj)
  <2>1. PICK w \in Seq(Ref) : w = ObjsOf(st) /\ Len(w) = Len(st)
    BY <1>2, <1>3
  <2>2. /\ Append(w, f.obj) \in Seq(Ref) /\ Len(Append(w, f.obj)) = Len(st) + 1
        /\ (\A i \in 1..Len(st) : Append(w, f.obj)[i] = w[i]) /\ Append(w, f.obj)[Len(st) + 1] = f.obj
    BY <1>2, <2>1, AppendProperties
  <2>3. \A i \in 1..(Len(st) + 1) : ObjsOf(tt)[i] = Append(w, f.obj)[i]
    BY <1>1, <2>1, <2>2 DEF ObjsOf
  <2>4. ObjsOf(tt) = Append(w, f.obj)
    BY <1>2, <1>3, <2>2, <2>3, SeqEqual
  <2>. QED
    BY <2>1, <2>4
<1>5. TmpsOf(tt) = Append(TmpsOf(st), f.tmp)
  <2>1. PICK w \in Seq(Ref) : w = TmpsOf(st) /\ Len(w) = Len(st)
    BY <1>2, <1>3
  <2>2. /\ Append(w, f.tmp) \in Seq(Ref) /\ Len(Append(w, f.tmp)) = Len(st) + 1
        /\ (\A i \in 1..Len(st) : Append(w, f.tmp)[i] = w[i]) /\ Append(w, f.tmp)[Len(st) + 1] = f.tmp
    BY <1>2, <2>1, AppendProperties
  <2>3. \A i \in 1..(Len(st) + 1) : TmpsOf(tt)[i] = Append(w, f.tmp)[i]
    BY <1>1, <2>1, <2>2 DEF TmpsOf
  <2>4. TmpsOf(tt) = Append(w, f.tmp)
    BY <1>2, <1>3, <2>2, <2>3, SeqEqual
  <2>. QED
    BY <2>1, <2>4
<1>6. CountIn(o, Append(ObjsOf(st), f.obj)) = CountIn(o, ObjsOf(st)) + One(f.obj, o)
  BY <1>2, CountAppend
<1>7. CountIn(o, Append(TmpsOf(st), f.tmp)) = CountIn(o, TmpsOf(st)) + One(f.tmp, o)
  BY <1>2, CountAppend
<1>8. CountIn(o, ObjsOf(st)) \in Nat /\ CountIn(o, TmpsOf(st)) \in Nat
  BY <1>2, CountType
<1>9. Inner(tt, o) = Inner(st, o) + Held(f, o)
  BY <1>4, <1>5, <1>6, <1>7, <1>8 DEF Inner, Held, One
<1>. QED
  BY <1>9 DEF tt

LEMMA PoppedIs == ASSUME NEW st \in Seq(FrameSet), st # <<>>
                  PROVE /\ Popped(st) \in Seq(FrameSet) /\ Len(Popped(st)) = Len(st) - 1 /\ Len(st) \in Nat \ {0}
                        /\ st[Len(st)] \in FrameSet
                        /\ \A i \in 1..(Len(st) - 1) : Popped(st)[i] = st[i]
                        /\ st = Append(Popped(st), st[Len(st)])
                        /\ \A f \in FrameSet : [st EXCEPT ![Len(st)] = f] = Append(Popped(st), f)
<1>1. Len(st) \in Nat \ {0} /\ DOMAIN st = 1..Len(st) /\ \A i \in 1..Len(st) : st[i] \in FrameSet
  BY EmptySeq, LenProperties
<1>. DEFINE n == Len(st) - 1
<1>2. n \in Nat /\ Len(st) = n + 1
  BY <1>1
<1>. HIDE DEF n
<1>3. /\ SubSeq(st, 1, n) \in Seq(FrameSet) /\ Len(SubSeq(st, 1, n)) = n
      /\ \A i \in 1..n : SubSeq(st, 1, n)[i] = st[i]
  <2>1. \A i \in 1..n : st[i] \in FrameSet
    BY <1>1, <1>2
  <2>2. PICK a \in Int : a = 1
    OBVIOUS
  <2>3. n \in Int /\ \A i \in a..n : st[i] \in FrameSet
    BY <1>2, <2>1, <2>2
  <2>4. /\ SubSeq(st, a, n) \in Seq(FrameSet) /\ Len(SubSeq(st, a, n)) = (IF a <= n THEN n - a + 1 ELSE 0)
        /\ \A i \in 1..(n - a + 1) : SubSeq(st, a, n)[i] = st[a + i - 1]
    BY <2>3, SubSeqProperties
  <2>. QED
    BY <1>2, <2>2, <2>4
<1>4. PICK p \in Seq(FrameSet) : p = Popped(st) /\ Len(p) = n /\ \A i \in 1..n : p[i] = st[i]
  BY <1>2, <1>3 DEF Popped, n
<1>5. ASSUME NEW f \in FrameSet
      PROVE /\ Append(p, f) \in Seq(FrameSet) /\ Len(Append(p, f)) = n + 1
            /\ (\A i \in 1..n : Append(p, f)[i] = p[i]) /\ Append(p, f)[n + 1] = f
  BY <1>4, AppendProperties
<1>6. st = Append(p, st[Len(st)])
  <2>1. \A i \in 1..Len(st) : st[i] = Append(p, st[Len(st)])[i]
    BY <1>1, <1>2, <1>4, <1>5
  <2>2. Append(p, st[Len(st)]) \in Seq(FrameSet) /\ Len(st) = Len(Append(p, st[Len(st)]))
    BY <1>1, <1>2, <1>5
  <2>. QED
    BY <2>1, <2>2, SeqEqual
<1>7. ASSUME NEW f \in FrameSet PROVE [st EXCEPT ![Len(st)] = f] = Append(p, f)
  <2>. DEFINE g == [st EXCEPT ![Len(st)] = f]
  <2>1. /\ g \in Seq(FrameSet) /\ Len(g) = Len(st)
        /\ \A i \in 1..Len(st) : g[i] = IF i = Len(st) THEN f ELSE st[i]
    <3>1. Len(st) \in 1..Len(st)
      BY <1>1
    <3>. QED
      BY <3>1, ExceptSeq
  <2>. HIDE DEF g
  <2>2. \A i \in 1..Len(st) : g[i] = Append(p, f)[i]
    BY <1>1, <1>2, <1>4, <1>5, <2>1
  <2>3. Append(p, f) \in Seq(FrameSet) /\ Len(g) = Len(Append(p, f))
    BY <1>1, <1>2, <1>5, <2>1
  <2>4. g = Append(p, f)
    BY <2>1, <2>2, <2>3, SeqEqual
  <2>. QED
    BY <2>4 DEF g
<1>8. st[Len(st)] \in FrameSet
  BY <1>1
<1>9. Len(Popped(st)) = Len(st) - 1 /\ \A i \in 1..(Len(st) - 1) : Popped(st)[i] = st[i]
  BY <1>4 DEF n
<1>. QED
  BY <1>1, <1>4, <1>6, <1>7, <1>8, <1>9

LEMMA StackPop == ASSUME NEW st \in Seq(FrameSet), st # <<>>, NEW o
                  PROVE Inner(Popped(st), o) = Inner(st, o) - Held(st[Len(st)], o)
<1>1. PICK p \in Seq(FrameSet), f \in FrameSet : p = Popped(st) /\ f = st[Len(st)] /\ st = Append(p, f)
  BY PoppedIs
<1>2. Inner(Append(p, f), o) = Inner(p, o) + Held(f, o)
  BY StackPush
<1>3. Inner(p, o) \in Nat /\ Held(f, o) \in Nat
  BY InnerType DEF Held, One
<1>. QED
  BY <1>1, <1>2, <1>3

LEMMA StackSet == ASSUME NEW st \in Seq(FrameSet), st # <<>>, NEW f \in FrameSet, NEW o
                  PROVE Inner([st EXCEPT ![Len(st)] = f], o) = Inner(st, o) - Held(st[Len(st)], o) + Held(f, o)
<1>1. PICK p \in Seq(FrameSet), e \in FrameSet : p = Popped(st) /\ e = st[Len(st)]
  BY PoppedIs
<1>2. [st EXCEPT ![Len(st)] = f] = Append(p, f)
  BY <1>1, PoppedIs
<1>3. Inner(p, o) = Inner(st, o) - Held(e, o)
  BY <1>1, StackPop
<1>4. Inner(Append(p, f), o) = Inner(p, o) + Held(f, o)
  BY StackPush
<1>. QED
  BY <1>1, <1>2, <1>3, <1>4

LEMMA PoppedTwice == ASSUME NEW st \in Seq(FrameSet), Len(st) > 1
                     PROVE /\ Popped(st) # <<>> /\ Popped(st)[Len(Popped(st))] = st[Len(st) - 1]
                           /\ SubSeq(st, 1, Len(st) - 2) = Popped(Popped(st))
<1>1. Len(st) \in Nat /\ st # <<>>
  BY LenProperties
<1>2. PICK p \in Seq(FrameSet) : /\ p = Popped(st) /\ Len(p) = Len(st) - 1
                                 /\ \A i \in 1..(Len(st) - 1) : p[i] = st[i]
  BY <1>1, PoppedIs
<1>3. p # <<>> /\ Len(p) \in Nat
  BY <1>1, <1>2
<1>4. PICK q \in Seq(FrameSet) : /\ q = Popped(p) /\ Len(q) = Len(p) - 1
                                 /\ \A i \in 1..(Len(p) - 1) : q[i] = p[i]
  BY <1>3, PoppedIs
<1>5. PICK u : u = SubSeq(st, 1, Len(st) - 2)
  OBVIOUS
<1>6. u \in Seq(FrameSet) /\ Len(u) = Len(st) - 2 /\ \A i \in 1..(Len(st) - 2) : u[i] = st[i]
  <2>1. PICK a \in Int, n \in Int : a = 1 /\ n = Len(st) - 2
    BY <1>1
  <2>2. \A i \in a..n : st[i] \in FrameSet
    BY <1>1, <2>1
  <2>3. /\ SubSeq(st, a, n) \in Seq(FrameSet) /\ Len(SubSeq(st, a, n)) = (IF a <= n THEN n - a + 1 ELSE 0)
        /\ \A i \in 1..(n - a + 1) : SubSeq(st, a, n)[i] = st[a + i - 1]
    BY <2>2, SubSeqProperties
  <2>. QED
    BY <1>1, <1>5, <2>1, <2>3
<1>7. u = q
  <2>1. Len(u) = Len(q) /\ \A i \in 1..Len(u) : u[i] = q[i]
    BY <1>1, <1>2, <1>4, <1>6
  <2>. QED
    BY <1>4, <1>6, <2>1, SeqEqual
<1>. QED
  BY <1>1, <1>2, <1>3, <1>4, <1>5, <1>7

LEMMA CountZero == ASSUME NEW s, NEW o, \A i \in DOMAIN s : s[i] # o PROVE CountIn(o, s) = 0
<1>1. {i \in DOMAIN s : s[i] = o} = {}
  OBVIOUS
<1>. QED
  BY <1>1, FS_EmptySet DEF CountIn

-----------------------------------------------------------------------------
(* A heap in which what is gone counts no references and what was never      *)
(* allocated is blank.                                                       *)
Record == [kind : Kind, refcnt : Nat, kids : Seq(Obj), size : Nat, cls : AllClasses \cup {"none"}]
HeapFine(h) ==
  /\ h \in [Obj -> Record]
  /\ \A o \in Obj : /\ h[o].kind = "unused" => h[o] = Unused
                    /\ h[o].kind \in {"unused", "freed"} => h[o].refcnt = 0
Grows(h, g) == \A o \in Obj : h[o].kind # "unused" => g[o].kind # "unused"

(* The references an object counts beyond those containers hold to it. *)
Free(h, o) == h[o].refcnt - Kids(h, o)

LEMMA FineKids == ASSUME NEW h, HeapFine(h) PROVE HasKids(h)
BY DEF HeapFine, HasKids, Record

LEMMA FreeType == ASSUME NEW h, HeapFine(h), NEW o \in Obj PROVE Free(h, o) \in Int
<1>1. Kids(h, o) \in Nat
  BY FineKids, KidsType
<1>. QED
  BY <1>1 DEF HeapFine, Record, Free

LEMMA FreeAt ==
  ASSUME NEW h, HeapFine(h), NEW g, HeapFine(g), NEW p \in Obj, \A q \in Obj \ {p} : g[q].kids = h[q].kids,
         NEW o \in Obj, NEW d \in Int, g[o].refcnt = h[o].refcnt + d
  PROVE  Free(g, o) = Free(h, o) + d + CountIn(o, h[p].kids) - CountIn(o, g[p].kids)
<1>1. HasKids(h) /\ HasKids(g)
  BY FineKids
<1>2. Kids(g, o) = Kids(h, o) - CountIn(o, h[p].kids) + CountIn(o, g[p].kids)
  BY <1>1, KidsAt
<1>3. Kids(h, o) \in Nat /\ CountIn(o, g[p].kids) \in Nat /\ CountIn(o, h[p].kids) \in Nat /\ h[o].refcnt \in Nat
  BY <1>1, KidsType, CountType DEF Record, HasKids, HeapFine
<1>. QED
  BY <1>2, <1>3 DEF Free

Allocated(h, p, e) == [h EXCEPT ![p] = e]
Filled(h, p, ks)   == [h EXCEPT ![p].kids = ks]
Dropped(h, p)      == [h EXCEPT ![p].refcnt = @ - 1]
Deleted(h, p)      == [h EXCEPT ![p].kind = "freed", ![p].refcnt = 0, ![p].kids = <<>>]

LEMMA HeapNew ==
  ASSUME NEW h, HeapFine(h), NEW p \in Obj, h[p].kind = "unused",
         NEW e \in Record, e.kind \notin {"unused", "freed"}, NEW g
  PROVE  g = Allocated(h, p, e) =>
         /\ HeapFine(g) /\ Grows(h, g) /\ (\A q \in Obj \ {p} : g[q] = h[q])
         /\ g[p] = e
         /\ \A o \in Obj : Free(g, o) = Free(h, o) + e.refcnt * One(p, o) - CountIn(o, e.kids)
<1>0. ASSUME g = Allocated(h, p, e)
      PROVE  /\ HeapFine(g) /\ Grows(h, g) /\ (\A q \in Obj \ {p} : g[q] = h[q])
             /\ g[p] = e
             /\ \A o \in Obj : Free(g, o) = Free(h, o) + e.refcnt * One(p, o) - CountIn(o, e.kids)
  <2>1. /\ g[p] = e
        /\ (\A q \in Obj \ {p} : g[q] = h[q]) /\ g \in [Obj -> Record] /\ h \in [Obj -> Record]
    BY <1>0 DEF HeapFine, Record, Allocated
  <2>2. Grows(h, g)
    BY <2>1 DEF Grows
  <2>3. ASSUME NEW o \in Obj
        PROVE /\ g[o].kind = "unused" => g[o] = Unused
              /\ g[o].kind \in {"unused", "freed"} => g[o].refcnt = 0
    <3>1. CASE o = p
      BY <2>1, <3>1
    <3>2. CASE o # p
      BY <2>1, <2>2, <3>2 DEF HeapFine
    <3>. QED
      BY <3>1, <3>2
  <2>4. HeapFine(g)
    BY <2>1, <2>3 DEF HeapFine
  <2>5. ASSUME NEW o \in Obj PROVE Free(g, o) = Free(h, o) + e.refcnt * One(p, o) - CountIn(o, e.kids)
    <3>1. h[p] = Unused
      BY DEF HeapFine
    <3>3. CountIn(o, h[p].kids) = 0 /\ CountIn(o, g[p].kids) = CountIn(o, e.kids)
      BY <2>1, <3>1, CountEmpty DEF Unused
    <3>4. g[o].refcnt = h[o].refcnt + e.refcnt * One(p, o)
      <4>1. CASE o = p
        BY <2>1, <3>1, <4>1 DEF One, Unused, Record
      <4>2. CASE o # p
        BY <2>1, <4>2 DEF One, Record
      <4>. QED
        BY <4>1, <4>2
    <3>5. CountIn(o, e.kids) \in Nat /\ e.refcnt * One(p, o) \in Nat /\ Free(h, o) \in Int
      BY FreeType, CountType DEF One, Record
    <3>6. PICK d \in Int : d = e.refcnt * One(p, o)
      BY <3>5
    <3>7. Free(g, o) = Free(h, o) + d + CountIn(o, h[p].kids) - CountIn(o, g[p].kids)
      BY <2>1, <2>4, <3>4, <3>6, FreeAt
    <3>. QED
      BY <3>3, <3>5, <3>6, <3>7
  <2>. QED
    BY <2>1, <2>2, <2>4, <2>5
<1>. QED
  BY <1>0

LEMMA HeapInc ==
  ASSUME NEW h, HeapFine(h), NEW s \in Seq(Obj), \A i \in DOMAIN s : h[s[i]].kind \notin {"unused", "freed"},
         NEW g
  PROVE  g = IncRefs(h, s) =>
         /\ HeapFine(g) /\ Grows(h, g) /\ (\A q \in Obj : g[q].kids = h[q].kids /\ g[q].kind = h[q].kind)
         /\ \A o \in Obj : Free(g, o) = Free(h, o) + CountIn(o, s)
<1> SUFFICES ASSUME g = IncRefs(h, s)
             PROVE  /\ HeapFine(g) /\ Grows(h, g) /\ (\A q \in Obj : g[q].kids = h[q].kids /\ g[q].kind = h[q].kind)
                    /\ \A o \in Obj : Free(g, o) = Free(h, o) + CountIn(o, s)
  OBVIOUS
<1>1. /\ h \in [Obj -> Record] /\ DOMAIN h = Obj
      /\ \A q \in Obj : g[q] = [h[q] EXCEPT !.refcnt = h[q].refcnt + CountIn(q, s)]
      /\ \A q \in Obj : CountIn(q, s) \in Nat
  BY CountType DEF HeapFine, IncRefs
<1>2. \A q \in Obj : /\ g[q] \in Record /\ g[q].kids = h[q].kids /\ g[q].kind = h[q].kind
                     /\ g[q].refcnt = h[q].refcnt + CountIn(q, s)
  <2>. SUFFICES ASSUME NEW q \in Obj
                PROVE /\ g[q] \in Record /\ g[q].kids = h[q].kids /\ g[q].kind = h[q].kind
                      /\ g[q].refcnt = h[q].refcnt + CountIn(q, s)
    OBVIOUS
  <2>1. PICK e \in Record : e = h[q]
    BY <1>1
  <2>2. PICK n \in Nat : n = CountIn(q, s)
    BY <1>1
  <2>3. g[q] = [e EXCEPT !.refcnt = e.refcnt + n]
    BY <1>1, <2>1, <2>2
  <2>. QED
    BY <2>1, <2>2, <2>3 DEF Record
<1>3. Grows(h, g)
  BY <1>2 DEF Grows
<1>4. ASSUME NEW o \in Obj, h[o].kind \in {"unused", "freed"} PROVE CountIn(o, s) = 0 /\ g[o] = h[o]
  <2>1. CountIn(o, s) = 0
    BY <1>4, CountZero
  <2>2. g[o] = [h[o] EXCEPT !.refcnt = h[o].refcnt + 0] /\ h[o] \in Record
    BY <1>1, <2>1
  <2>. QED
    BY <2>1, <2>2 DEF Record
<1>5. HeapFine(g)
  <2>1. g \in [Obj -> Record]
    BY <1>1, <1>2 DEF IncRefs
  <2>2. ASSUME NEW o \in Obj
        PROVE /\ g[o].kind = "unused" => g[o] = Unused
              /\ g[o].kind \in {"unused", "freed"} => g[o].refcnt = 0
    BY <1>2, <1>3, <1>4 DEF HeapFine
  <2>. QED
    BY <2>1, <2>2 DEF HeapFine
<1>6. ASSUME NEW o \in Obj PROVE Free(g, o) = Free(h, o) + CountIn(o, s)
  <2>1. Kids(g, o) = Kids(h, o)
    BY <1>2, KidsSame
  <2>2. Kids(h, o) \in Nat /\ h[o].refcnt \in Nat
    BY <1>1, FineKids, KidsType DEF Record
  <2>. QED
    BY <1>1, <1>2, <2>1, <2>2 DEF Free
<1>. QED
  BY <1>2, <1>3, <1>5, <1>6

LEMMA HeapIncOne ==
  ASSUME NEW h, HeapFine(h), NEW v \in Obj, h[v].kind \notin {"unused", "freed"}, NEW g
  PROVE  g = IncRefs(h, <<v>>) =>
         /\ HeapFine(g) /\ Grows(h, g) /\ (\A q \in Obj : g[q].kids = h[q].kids /\ g[q].kind = h[q].kind)
         /\ \A o \in Obj : Free(g, o) = Free(h, o) + One(v, o)
<1>1. <<v>> \in Seq(Obj) /\ \A i \in DOMAIN <<v>> : <<v>>[i] = v
  OBVIOUS
<1>2. PICK s \in Seq(Obj) : s = <<v>> /\ \A i \in DOMAIN s : s[i] = v
  BY <1>1
<1>3. \A i \in DOMAIN s : h[s[i]].kind \notin {"unused", "freed"}
  BY <1>2
<1>4. g = IncRefs(h, s) =>
         /\ HeapFine(g) /\ Grows(h, g) /\ (\A q \in Obj : g[q].kids = h[q].kids /\ g[q].kind = h[q].kind)
         /\ \A o \in Obj : Free(g, o) = Free(h, o) + CountIn(o, s)
  BY <1>3, HeapInc
<1>5. ASSUME NEW o \in Obj PROVE CountIn(o, s) = One(v, o)
  <2>1. CountIn(o, <<v>>) = One(v, o)
    BY ShortCounts DEF Ref
  <2>. QED
    BY <1>2, <2>1
<1>. QED
  BY <1>2, <1>4, <1>5

LEMMA HeapKids ==
  ASSUME NEW h, HeapFine(h), NEW p \in Obj, h[p].kind # "unused",
         NEW ks \in Seq(Obj),
         NEW g
  PROVE  g = Filled(h, p, ks) =>
         /\ HeapFine(g) /\ Grows(h, g) /\ (\A q \in Obj \ {p} : g[q] = h[q])
         /\ g[p].kids = ks /\ (\A q \in Obj : g[q].kind = h[q].kind)
         /\ \A o \in Obj : Free(g, o) = Free(h, o) + CountIn(o, h[p].kids) - CountIn(o, ks)
<1>0. ASSUME g = Filled(h, p, ks)
      PROVE  /\ HeapFine(g) /\ Grows(h, g) /\ (\A q \in Obj \ {p} : g[q] = h[q])
             /\ g[p].kids = ks /\ (\A q \in Obj : g[q].kind = h[q].kind)
             /\ \A o \in Obj : Free(g, o) = Free(h, o) + CountIn(o, h[p].kids) - CountIn(o, ks)
  <2>1. /\ h \in [Obj -> Record] /\ g \in [Obj -> Record] /\ (\A q \in Obj \ {p} : g[q] = h[q])
        /\ g[p].kids = ks /\ g[p].refcnt = h[p].refcnt /\ (\A q \in Obj : g[q].kind = h[q].kind)
    BY <1>0 DEF HeapFine, Record, Filled
  <2>2. Grows(h, g)
    BY <2>1 DEF Grows
  <2>3. ASSUME NEW o \in Obj
        PROVE /\ g[o].kind = "unused" => g[o] = Unused
              /\ g[o].kind \in {"unused", "freed"} => g[o].refcnt = 0
    <3>1. CASE o = p
      BY <2>1, <2>2, <3>1 DEF HeapFine
    <3>2. CASE o # p
      BY <2>1, <2>2, <3>2 DEF HeapFine
    <3>. QED
      BY <3>1, <3>2
  <2>4. HeapFine(g)
    BY <2>1, <2>3 DEF HeapFine
  <2>5. ASSUME NEW o \in Obj PROVE Free(g, o) = Free(h, o) + CountIn(o, h[p].kids) - CountIn(o, ks)
    <3>1. g[o].refcnt = h[o].refcnt + 0
      <4>1. h[o] \in Record
        BY <2>1
      <4>2. g[o].refcnt = h[o].refcnt
        BY <2>1
      <4>. QED
        BY <4>1, <4>2 DEF Record
    <3>2. Free(g, o) = Free(h, o) + 0 + CountIn(o, h[p].kids) - CountIn(o, g[p].kids)
      BY <2>1, <2>4, <3>1, FreeAt
    <3>3. CountIn(o, ks) \in Nat /\ CountIn(o, h[p].kids) \in Nat /\ Free(h, o) \in Int
      BY FreeType, FineKids, CountType DEF HasKids
    <3>. QED
      BY <2>1, <3>2, <3>3
  <2>. QED
    BY <2>1, <2>2, <2>4, <2>5
<1>. QED
  BY <1>0

LEMMA HeapDec ==
  ASSUME NEW h, HeapFine(h), NEW p \in Obj, h[p].refcnt > 1, NEW g
  PROVE  g = Dropped(h, p) =>
         /\ HeapFine(g) /\ Grows(h, g) /\ (\A q \in Obj : g[q].kids = h[q].kids)
         /\ \A o \in Obj : Free(g, o) = Free(h, o) - One(p, o)
<1>0. ASSUME g = Dropped(h, p)
      PROVE  /\ HeapFine(g) /\ Grows(h, g) /\ (\A q \in Obj : g[q].kids = h[q].kids)
             /\ \A o \in Obj : Free(g, o) = Free(h, o) - One(p, o)
  <2>1. PICK e \in Record, n \in Nat : e = h[p] /\ n = e.refcnt - 1 /\ n > 0
    BY DEF HeapFine, Record
  <2>2. /\ h \in [Obj -> Record] /\ g \in [Obj -> Record] /\ (\A q \in Obj \ {p} : g[q] = h[q])
        /\ g[p].kids = h[p].kids /\ g[p].refcnt = n /\ g[p].kind = h[p].kind
    <3>1. h \in [Obj -> Record] /\ g = [h EXCEPT ![p] = [e EXCEPT !.refcnt = n]]
      BY <1>0, <2>1 DEF HeapFine, Dropped
    <3>2. [e EXCEPT !.refcnt = n] \in Record
      BY <2>1 DEF Record
    <3>. QED
      BY <2>1, <3>1, <3>2 DEF Record
  <2>3. Grows(h, g) /\ \A q \in Obj : g[q].kids = h[q].kids
    BY <2>2 DEF Grows
  <2>4. HeapFine(g)
    BY <2>1, <2>2 DEF HeapFine
  <2>5. ASSUME NEW o \in Obj PROVE Free(g, o) = Free(h, o) - One(p, o)
    <3>1. Kids(g, o) = Kids(h, o) /\ Kids(h, o) \in Nat
      BY <2>3, KidsSame, FineKids, KidsType
    <3>2. g[o].refcnt = h[o].refcnt - One(p, o) /\ h[o].refcnt \in Nat
      BY <2>1, <2>2 DEF One, Record
    <3>. QED
      BY <3>1, <3>2 DEF Free, One
  <2>. QED
    BY <2>3, <2>4, <2>5
<1>. QED
  BY <1>0

LEMMA HeapDelete ==
  ASSUME NEW h, HeapFine(h), NEW p \in Obj, h[p].refcnt = 1, NEW g
  PROVE  g = Deleted(h, p) =>
         /\ HeapFine(g) /\ Grows(h, g) /\ (\A q \in Obj \ {p} : g[q] = h[q]) /\ g[p].kids = <<>>
         /\ \A o \in Obj : Free(g, o) = Free(h, o) - One(p, o) + CountIn(o, h[p].kids)
<1>0. ASSUME g = Deleted(h, p)
      PROVE  /\ HeapFine(g) /\ Grows(h, g) /\ (\A q \in Obj \ {p} : g[q] = h[q]) /\ g[p].kids = <<>>
             /\ \A o \in Obj : Free(g, o) = Free(h, o) - One(p, o) + CountIn(o, h[p].kids)
  <2>2. /\ h \in [Obj -> Record] /\ g \in [Obj -> Record] /\ (\A q \in Obj \ {p} : g[q] = h[q])
        /\ g[p].kids = <<>> /\ g[p].refcnt = 0 /\ g[p].kind = "freed"
    BY <1>0 DEF HeapFine, Record, Kind, Deleted
  <2>3. Grows(h, g)
    BY <2>2 DEF Grows
  <2>4. HeapFine(g)
    BY <2>2 DEF HeapFine
  <2>5. ASSUME NEW o \in Obj PROVE Free(g, o) = Free(h, o) - One(p, o) + CountIn(o, h[p].kids)
    <3>1. PICK d \in Int : d = 0 - One(p, o)
      BY DEF One
    <3>2. g[o].refcnt = h[o].refcnt + d
      <4>1. CASE o = p
        BY <2>2, <3>1, <4>1 DEF One
      <4>2. CASE o # p
        BY <2>2, <3>1, <4>2 DEF One, Record
      <4>. QED
        BY <4>1, <4>2
    <3>3. Free(g, o) = Free(h, o) + d + CountIn(o, h[p].kids) - CountIn(o, g[p].kids)
      BY <2>2, <2>4, <3>2, FreeAt
    <3>4. CountIn(o, g[p].kids) = 0 /\ CountIn(o, h[p].kids) \in Nat /\ Free(h, o) \in Int /\ One(p, o) \in Nat
      BY <2>2, CountEmpty, FreeType, FineKids, CountType DEF HasKids, One
    <3>. QED
      BY <3>1, <3>3, <3>4
  <2>. QED
    BY <2>2, <2>3, <2>4, <2>5
<1>. QED
  BY <1>0

(* What an error path adds to, or takes from, the references nobody drops. *)
LEMMA SurplusMoves ==
  ASSUME NEW l \in [Obj -> Int], NEW s \in Seq(Ref)
  PROVE  /\ Abandon(l, s) \in [Obj -> Int] /\ (\A o \in Obj : Abandon(l, s)[o] = l[o] + CountIn(o, s))
         /\ Overdraw(l, s) \in [Obj -> Int] /\ (\A o \in Obj : Overdraw(l, s)[o] = l[o] - CountIn(o, s))
<1>1. \A o \in Obj : CountIn(o, s) \in Nat
  BY CountType
<1>. QED
  BY <1>1 DEF Abandon, Overdraw

LEMMA Abandons ==
  ASSUME surplus \in [Obj -> Int], NEW s \in Seq(Ref), surplus' = Abandon(surplus, s)
  PROVE  surplus' \in [Obj -> Int] /\ \A o \in Obj : surplus'[o] = surplus[o] + CountIn(o, s)
BY SurplusMoves

LEMMA Overdraws ==
  ASSUME surplus \in [Obj -> Int], NEW s \in Seq(Ref), surplus' = Overdraw(surplus, s)
  PROVE  surplus' \in [Obj -> Int] /\ \A o \in Obj : surplus'[o] = surplus[o] - CountIn(o, s)
BY SurplusMoves

LEMMA ClearedSlots ==
  ASSUME NEW f \in [0..MaxShared -> Ref], NEW n \in 0..MaxShared,
         \A i \in 0..MaxShared : i >= n => f[i] = NULL, NEW o \in Obj, NEW s
  PROVE  s = [i \in 1..n |-> f[i - 1]] => s \in Seq(Ref) /\ CountIn(o, s) = CountIn(o, f)
<1>0. ASSUME s = [i \in 1..n |-> f[i - 1]] PROVE s \in Seq(Ref) /\ CountIn(o, s) = CountIn(o, f)
  <2>1. MaxShared \in Nat
    BY BoundsAssumption
  <2>2. n \in Nat /\ \A i \in 1..n : i - 1 \in 0..MaxShared
    BY <2>1
  <2>3. s \in [1..n -> Ref]
    BY <1>0, <2>2
  <2>4. s \in Seq(Ref)
    BY <2>2, <2>3, SeqDef
  <2>. DEFINE A == {i \in DOMAIN f : f[i] = o}
              B == {i \in DOMAIN s : s[i] = o}
  <2>5. IsFiniteSet(0..MaxShared)
    BY <2>1, FS_Interval
  <2>6. IsFiniteSet(A) /\ A \in SUBSET Int
    <3>1. A \in SUBSET (0..MaxShared)
      OBVIOUS
    <3>. HIDE DEF A
    <3>2. A \in SUBSET Int
      <4>1. \A i \in 0..MaxShared : i \in Int
        BY <2>1
      <4>. QED
        BY <3>1, <4>1
    <3>3. IsFiniteSet(A)
      BY <2>5, <3>1, FS_Subset
    <3>. QED
      BY <3>2, <3>3
  <2>7. ASSUME NEW i PROVE i \in B <=> (i \in Int /\ i - 1 \in A)
    <3>1. o # NULL
      BY NullIsNoObject
    <3>2. ASSUME i \in Int, i - 1 \in A PROVE i \in B
      <4>1. i - 1 \in 0..MaxShared /\ f[i - 1] = o /\ ~(i - 1 >= n)
        BY <3>1, <3>2
      <4>. QED
        BY <1>0, <2>2, <3>2, <4>1
    <3>3. ASSUME i \in B PROVE i \in Int /\ i - 1 \in A
      BY <1>0, <2>2, <3>3
    <3>. QED
      BY <3>2, <3>3
  <2>. HIDE DEF A, B
  <2>8. Cardinality(B) = Cardinality(A)
    BY <2>6, <2>7, CountShift
  <2>. QED
    BY <2>4, <2>8 DEF CountIn, A, B
<1>. QED
  BY <1>0

-----------------------------------------------------------------------------
(* The calls in progress.  Each frame holds what its kind says, a frame that *)
(* waits for a nested call has a child to come, and no two frames build the  *)
(* same object.                                                              *)
NoObject   == {"name", "sharedname", "newobj", "reduce", "row"}
NoArgument == NoObject \cup {"leaf", "tuple", "list", "dict", "listitr", "dictitr"}
InDict     == {"dict", "key", "dictitr", "dictvalue"}

FrameOK(h, f) ==
  /\ f.op \in NoObject => f.obj = NULL
  /\ f.op \notin NoObject \cup {"dirlist", "dirdict"} => f.obj # NULL
  /\ f.op \in NoArgument => f.tmp = NULL
  /\ f.op \in {"bases", "dictvalue"} => f.tmp # NULL
  /\ f.op = "key" => f.left > 0
  /\ f.obj # NULL => h[f.obj].kind # "unused"
  /\ f.op = "bases" => h[f.obj].kids = <<>>
  /\ f.op \in InDict => Len(h[f.obj].kids) % 2 = 0
Waits(f) == f.op \in {"tuple", "list", "dict"} => f.left > 0
SitsOn(f, e) == /\ f.op = "listitr" => e.op = "dirlist"
                /\ f.op \in {"dictitr", "dictvalue"} => e.op = "dirdict"
Nested(f) == f.op \in {"listitr", "dictitr", "dictvalue"}

StackFine(h, st, rd) ==
  /\ st \in Seq(FrameSet)
  /\ \A i \in 1..Len(st) : /\ FrameOK(h, st[i])
                           /\ i < Len(st) \/ ~rd => Waits(st[i])
                           /\ Nested(st[i]) => i > 1
                           /\ i > 1 => SitsOn(st[i], st[i - 1])
  /\ \A i, j \in 1..Len(st) : i # j => st[i].obj = NULL \/ st[i].obj # st[j].obj

(* A frame for an object no other frame of st builds. *)
Own(st, x) == x = NULL \/ \A i \in 1..Len(st) : st[i].obj # x

LEMMA FinePop ==
  ASSUME NEW h, NEW st, NEW rd \in BOOLEAN, StackFine(h, st, rd), st # <<>>
  PROVE  /\ StackFine(h, Popped(st), FALSE) /\ Popped(st) \in Seq(FrameSet)
         /\ st[Len(st)] \in FrameSet /\ FrameOK(h, st[Len(st)]) /\ Own(Popped(st), st[Len(st)].obj)
         /\ rd \/ Waits(st[Len(st)])
         /\ \A f \in FrameSet : [st EXCEPT ![Len(st)] = f] = Append(Popped(st), f)
         /\ Nested(st[Len(st)]) => Popped(st) # <<>>
         /\ Popped(st) # <<>> => SitsOn(st[Len(st)], Popped(st)[Len(Popped(st))])
<1>1. st \in Seq(FrameSet)
  BY DEF StackFine
<1>2. PICK p \in Seq(FrameSet) :
        /\ p = Popped(st) /\ Len(p) = Len(st) - 1 /\ Len(st) \in Nat \ {0} /\ st[Len(st)] \in FrameSet
        /\ \A i \in 1..(Len(st) - 1) : p[i] = st[i]
        /\ \A f \in FrameSet : [st EXCEPT ![Len(st)] = f] = Append(p, f)
  BY <1>1, PoppedIs
<1>3. \A i \in 1..Len(p) : /\ i \in 1..Len(st) /\ i < Len(st) /\ p[i] = st[i]
                           /\ i > 1 => p[i - 1] = st[i - 1]
  BY <1>2
<1>4. Len(st) \in 1..Len(st) /\ \A i \in 1..Len(p) : i # Len(st)
  BY <1>2
<1>5. StackFine(h, p, FALSE)
  <2>1. ASSUME NEW i \in 1..Len(p)
        PROVE  /\ FrameOK(h, p[i]) /\ Waits(p[i]) /\ (Nested(p[i]) => i > 1)
               /\ i > 1 => SitsOn(p[i], p[i - 1])
    BY <1>3 DEF StackFine
  <2>2. ASSUME NEW i \in 1..Len(p), NEW j \in 1..Len(p), i # j
        PROVE  p[i].obj = NULL \/ p[i].obj # p[j].obj
    BY <1>3, <2>2 DEF StackFine
  <2>. QED
    BY <1>2, <2>1, <2>2 DEF StackFine
<1>6. Own(p, st[Len(st)].obj)
  BY <1>3, <1>4 DEF StackFine, Own
<1>7. FrameOK(h, st[Len(st)]) /\ (rd \/ Waits(st[Len(st)]))
  BY <1>4 DEF StackFine
<1>8. p # <<>> => Len(p) \in Nat \ {0}
  BY EmptySeq, LenProperties
<1>9. Nested(st[Len(st)]) => p # <<>>
  <2>1. Nested(st[Len(st)]) => Len(st) > 1
    BY <1>4 DEF StackFine
  <2>2. p = <<>> => Len(p) = 0
    OBVIOUS
  <2>. QED
    BY <1>2, <2>1, <2>2
<1>10. p # <<>> => SitsOn(st[Len(st)], p[Len(p)])
  <2>1. ASSUME p # <<>> PROVE Len(st) > 1 /\ p[Len(p)] = st[Len(st) - 1]
    BY <1>2, <1>3, <1>8, <2>1
  <2>. QED
    BY <1>4, <2>1 DEF StackFine
<1>. QED
  BY <1>2, <1>5, <1>6, <1>7, <1>9, <1>10

LEMMA FinePush ==
  ASSUME NEW h, NEW st, StackFine(h, st, FALSE), NEW f \in FrameSet, FrameOK(h, f), Own(st, f.obj),
         Nested(f) => st # <<>>, st # <<>> => SitsOn(f, st[Len(st)])
  PROVE  StackFine(h, Append(st, f), TRUE)
<1>1. st \in Seq(FrameSet)
  BY DEF StackFine
<1>2. PICK t \in Seq(FrameSet) :
        /\ t = Append(st, f) /\ Len(t) = Len(st) + 1 /\ Len(st) \in Nat
        /\ (\A i \in 1..Len(st) : t[i] = st[i]) /\ t[Len(st) + 1] = f
  BY <1>1, AppendProperties, LenProperties
<1>3. st = <<>> <=> Len(st) = 0
  BY <1>1, EmptySeq
<1>4. \A i \in 1..Len(t) : i \in 1..Len(st) \/ i = Len(st) + 1
  BY <1>2
<1>5. ASSUME NEW i \in 1..Len(t)
      PROVE  /\ FrameOK(h, t[i]) /\ (i < Len(t) => Waits(t[i])) /\ (Nested(t[i]) => i > 1)
             /\ i > 1 => SitsOn(t[i], t[i - 1])
  <2>1. CASE i \in 1..Len(st)
    <3>1. t[i] = st[i] /\ (i > 1 => t[i - 1] = st[i - 1])
      BY <1>2, <2>1
    <3>. QED
      BY <2>1, <3>1 DEF StackFine
  <2>2. CASE i = Len(st) + 1
    <3>1. t[i] = f /\ (i > 1 => st # <<>> /\ t[i - 1] = st[Len(st)]) /\ ~(i < Len(t)) /\ (st # <<>> => i > 1)
      BY <1>2, <1>3, <2>2
    <3>. QED
      BY <3>1
  <2>. QED
    BY <1>4, <2>1, <2>2
<1>6. ASSUME NEW i \in 1..Len(t), NEW j \in 1..Len(t), i # j
      PROVE  t[i].obj = NULL \/ t[i].obj # t[j].obj
  <2>1. CASE i \in 1..Len(st) /\ j \in 1..Len(st)
    BY <1>2, <1>6, <2>1 DEF StackFine
  <2>2. CASE i = Len(st) + 1 /\ j \in 1..Len(st)
    BY <1>2, <2>2 DEF Own
  <2>3. CASE i \in 1..Len(st) /\ j = Len(st) + 1
    BY <1>2, <2>3 DEF Own
  <2>. QED
    BY <1>4, <1>6, <2>1, <2>2, <2>3
<1>. QED
  BY <1>2, <1>5, <1>6 DEF StackFine

(* A step on the heap leaves the frames as they should be if it touches the  *)
(* contents of none of their objects, or only of one they do not build.      *)
LEMMA FineHeap ==
  ASSUME NEW h, NEW g, NEW st, NEW rd, StackFine(h, st, rd), Grows(h, g),
         \A i \in 1..Len(st) : st[i].obj # NULL =>
           g[st[i].obj].kids = h[st[i].obj].kids \/ g[st[i].obj].kids = <<>>
  PROVE  StackFine(g, st, rd)
<1>1. ASSUME NEW i \in 1..Len(st) PROVE FrameOK(g, st[i])
  <2>1. FrameOK(h, st[i]) /\ st[i] \in FrameSet
    BY DEF StackFine
  <2>2. st[i].obj # NULL => st[i].obj \in Obj
    BY <2>1 DEF FrameSet, Ref
  <2>3. st[i].obj # NULL => g[st[i].obj].kind # "unused"
    BY <2>1, <2>2 DEF FrameOK, Grows
  <2>4. Len(<<>>) % 2 = 0
    OBVIOUS
  <2>5. st[i].op = "bases" \/ st[i].op \in InDict => st[i].obj # NULL
    BY <2>1 DEF FrameOK, NoObject, InDict
  <2>. QED
    BY <2>1, <2>3, <2>4, <2>5 DEF FrameOK
<1>. QED
  BY <1>1 DEF StackFine

LEMMA FineReturn ==
  ASSUME NEW h, NEW st, StackFine(h, st, TRUE), st # <<>> => Waits(st[Len(st)])
  PROVE  StackFine(h, st, FALSE)
<1>1. st \in Seq(FrameSet) /\ Len(st) \in Nat /\ (st = <<>> <=> Len(st) = 0)
  BY EmptySeq, LenProperties DEF StackFine
<1>2. ASSUME NEW i \in 1..Len(st) PROVE Waits(st[i])
  <2>1. st # <<>> /\ (i < Len(st) \/ i = Len(st))
    BY <1>1
  <2>. QED
    BY <2>1 DEF StackFine
<1>. QED
  BY <1>2 DEF StackFine

(* A step of the heap that leaves every container as it is, or empties it;   *)
(* and one that may also change the container p.                             *)
Gentle(h, g) == Grows(h, g) /\ \A q \in Obj : h[q].kind # "unused" =>
                                 g[q].kids = h[q].kids \/ g[q].kids = <<>>
GentleBut(h, g, p) == Grows(h, g) /\ \A q \in Obj \ {p} : h[q].kind # "unused" =>
                                       g[q].kids = h[q].kids \/ g[q].kids = <<>>

LEMMA FineGentle ==
  ASSUME NEW h, NEW g, NEW st, NEW rd, StackFine(h, st, rd), NEW p,
         Gentle(h, g) \/ (GentleBut(h, g, p) /\ Own(st, p))
  PROVE  StackFine(g, st, rd)
<1>1. ASSUME NEW i \in 1..Len(st), st[i].obj # NULL
      PROVE  g[st[i].obj].kids = h[st[i].obj].kids \/ g[st[i].obj].kids = <<>>
  <2>1. st[i].obj \in Obj /\ h[st[i].obj].kind # "unused"
    <3>1. FrameOK(h, st[i]) /\ st[i] \in FrameSet
      BY DEF StackFine
    <3>. QED
      BY <1>1, <3>1 DEF FrameOK, FrameSet, Ref
  <2>2. Own(st, p) => st[i].obj # p
    BY <1>1 DEF Own
  <2>. QED
    BY <2>1, <2>2 DEF Gentle, GentleBut
<1>2. Grows(h, g)
  BY DEF Gentle, GentleBut
<1>. QED
  BY <1>1, <1>2, FineHeap

-----------------------------------------------------------------------------
(* The inductive invariant: every pointer the program holds is in its place, *)
(* and each object's count beyond the references of containers is paid for.  *)
Fixed(o) == IF o \in Static THEN 1 ELSE 0
Paid(o) == Free(heap, o) - CountIn(o, pending) - surplus[o] - Inner(stack, o) - One(val, o)

Shape ==
  /\ HeapFine(heap)
  /\ StackFine(heap, stack, reading)
  /\ val \in Ref /\ (reading => val = NULL)
  /\ pending \in Seq(Ref) /\ (phase \in {"header", "loaded"} => pending = <<>>)
  /\ surplus \in [Obj -> Int]
  /\ phase \in {"header", "load", "loaded", "dropped", "done", "undefined"}
  /\ reading \in BOOLEAN /\ failed \in BOOLEAN /\ ops \in 0..MaxOps
SlotsFine == \A i \in 0..MaxShared :
  /\ mOrderMap[i] <= mExpectedObjectsCount
  /\ i >= mExpectedObjectsCount => mReferenceObjects[i] = NULL
Balanced == \A o \in Obj : Paid(o) = CountIn(o, mReferenceObjects) + Fixed(o)
Sound == MapInv /\ Shape /\ SlotsFine /\ Balanced

LEMMA SoundTypes ==
  ASSUME Sound, NEW o \in Obj
  PROVE  /\ Free(heap, o) \in Int /\ CountIn(o, pending) \in Nat /\ surplus[o] \in Int
         /\ Inner(stack, o) \in Nat /\ One(val, o) \in Nat /\ CountIn(o, mReferenceObjects) \in Nat
         /\ pending = <<>> => CountIn(o, pending) = 0
<1>1. Free(heap, o) \in Int /\ CountIn(o, pending) \in Nat /\ surplus[o] \in Int
  BY FreeType, CountType DEF Sound, Shape
<1>2. stack \in Seq(FrameSet)
  BY DEF Sound, Shape, StackFine
<1>3. CountIn(o, mReferenceObjects) \in Nat
  <2>1. IsFiniteSet(0..MaxShared)
    BY FS_Interval, BoundsAssumption
  <2>. QED
    BY <2>1, CountFunction DEF Sound, MapInv, MapShape
<1>. QED
  BY <1>1, <1>2, <1>3, InnerType, CountEmpty DEF One

(* A step that leaves the slots alone and pays for what it moves. *)
LEMMA Assemble ==
  ASSUME Sound, Next, UNCHANGED mapVars, Shape', \A o \in Obj : Paid(o)' = Paid(o)
  PROVE  Sound'
<1>1. MapInv'
  BY NextMap DEF Sound
<1>2. SlotsFine' /\ Balanced'
  BY DEF Sound, SlotsFine, Balanced, mapVars, Fixed
<1>. QED
  BY <1>1, <1>2 DEF Sound

LEMMA FreshFacts ==
  ASSUME Sound, HasRoom
  PROVE  /\ Fresh \in Obj /\ Fresh # NULL /\ heap[Fresh] = Unused /\ heap[Fresh].kind = "unused"
         /\ heap[Fresh].kids = <<>> /\ Own(stack, Fresh)
<1>1. Fresh \in Obj /\ heap[Fresh].kind = "unused"
  BY DEF HasRoom, Fresh
<1>2. heap[Fresh] = Unused
  BY <1>1 DEF Sound, Shape, HeapFine
<1>3. Own(stack, Fresh)
  <2>1. ASSUME NEW i \in 1..Len(stack), stack[i].obj = Fresh PROVE FALSE
    BY <1>1, <2>1, NullIsNoObject DEF Sound, Shape, StackFine, FrameOK
  <2>. QED
    BY <2>1 DEF Own
<1>. QED
  BY <1>1, <1>2, <1>3, NullIsNoObject DEF Unused

LEMMA TopFacts ==
  ASSUME Sound, stack # <<>>
  PROVE  /\ Top \in FrameSet /\ FrameOK(heap, Top) /\ Top.obj \in Ref /\ Top.tmp \in Ref
         /\ reading \/ Waits(Top)
         /\ \A o \in Obj : Held(Top, o) \in Nat
<1>1. Top \in FrameSet /\ FrameOK(heap, Top) /\ (reading \/ Waits(Top))
  BY FinePop DEF Sound, Shape, Top
<1>. QED
  BY <1>1 DEF FrameSet, Held, One

-----------------------------------------------------------------------------
(* What the four ways to go on do to the calls in progress. *)
LEMMA ReturnHere ==
  ASSUME Sound, Unmarshals, NEW v \in Ref, Return(v), UNCHANGED stack, Gentle(heap, heap')
  PROVE  /\ StackFine(heap', stack', reading') /\ val' = v /\ reading' = FALSE /\ val = NULL
         /\ failed' \in BOOLEAN /\ phase' = phase
<1>1. StackFine(heap, stack, TRUE) /\ val = NULL /\ reading /\ failed \in BOOLEAN
  BY DEF Sound, Shape, Unmarshals
<1>2. stack # <<>> => Waits(stack[Len(stack)])
  <2>1. ASSUME stack # <<>> PROVE Waits(Top)
    <3>1. Top.left \in 0..MaxItems
      BY <2>1, TopFacts DEF FrameSet
    <3>. QED
      BY <2>1, <3>1, BoundsAssumption DEF Unmarshals, Finished, Waits
  <2>. QED
    BY <2>1 DEF Top
<1>3. StackFine(heap, stack, FALSE)
  BY <1>1, <1>2, FineReturn
<1>4. StackFine(heap', stack, FALSE)
  BY <1>3, FineGentle
<1>. QED
  BY <1>1, <1>4 DEF Return

LEMMA ReturnTop ==
  ASSUME Sound, stack # <<>>, NEW v \in Ref, ReturnFrom(v),
         Gentle(heap, heap') \/ GentleBut(heap, heap', Top.obj)
  PROVE  /\ StackFine(heap', stack', reading') /\ val' = v /\ reading' = FALSE
         /\ failed' \in BOOLEAN /\ phase' = phase
         /\ \A o \in Obj : Inner(stack', o) = Inner(stack, o) - Held(Top, o)
<1>1. /\ StackFine(heap, Popped(stack), FALSE) /\ Own(Popped(stack), Top.obj)
      /\ stack \in Seq(FrameSet) /\ failed \in BOOLEAN
  BY FinePop DEF Sound, Shape, Top, StackFine
<1>2. stack' = Popped(stack) /\ reading' = FALSE /\ val' = v /\ failed' \in BOOLEAN /\ phase' = phase
  BY <1>1 DEF ReturnFrom, Return, Pop, Popped
<1>3. StackFine(heap', Popped(stack), FALSE)
  BY <1>1, FineGentle
<1>. QED
  BY <1>1, <1>2, <1>3, StackPop DEF Top

LEMMA DescendStep ==
  ASSUME Sound, reading, stack # <<>> => Waits(Top), NEW f \in FrameSet, Descend(f),
         Gentle(heap, heap'), FrameOK(heap', f), Own(stack, f.obj), Nested(f) => stack # <<>>,
         stack # <<>> => SitsOn(f, Top)
  PROVE  /\ StackFine(heap', stack', reading') /\ val' = NULL /\ val = NULL /\ reading' = TRUE
         /\ failed' \in BOOLEAN /\ phase' = phase
         /\ \A o \in Obj : Inner(stack', o) = Inner(stack, o) + Held(f, o)
<1>1. StackFine(heap, stack, TRUE) /\ val = NULL /\ stack \in Seq(FrameSet) /\ failed \in BOOLEAN
  BY DEF Sound, Shape, StackFine
<1>2. StackFine(heap, stack, FALSE)
  BY <1>1, FineReturn DEF Top
<1>3. StackFine(heap', stack, FALSE)
  BY <1>2, FineGentle
<1>4. StackFine(heap', Append(stack, f), TRUE)
  BY <1>3, FinePush DEF Top
<1>. QED
  BY <1>1, <1>4, StackPush DEF Descend

LEMMA ContinueStep ==
  ASSUME Sound, stack # <<>>, NEW f \in FrameSet, Continue(f),
         Gentle(heap, heap') \/ GentleBut(heap, heap', Top.obj), FrameOK(heap', f),
         f.obj = Top.obj \/ f.obj = NULL \/ Own(stack, f.obj),
         Nested(f) => Nested(Top), f.op = "listitr" <=> Top.op = "listitr"
  PROVE  /\ StackFine(heap', stack', reading') /\ val' = NULL /\ reading' = TRUE
         /\ failed' \in BOOLEAN /\ phase' = phase
         /\ \A o \in Obj : Inner(stack', o) = Inner(stack, o) - Held(Top, o) + Held(f, o)
<1>1. /\ StackFine(heap, Popped(stack), FALSE) /\ Own(Popped(stack), Top.obj)
      /\ stack \in Seq(FrameSet) /\ failed \in BOOLEAN
      /\ Nested(Top) => Popped(stack) # <<>>
      /\ Popped(stack) # <<>> => SitsOn(Top, Popped(stack)[Len(Popped(stack))])
      /\ [stack EXCEPT ![Len(stack)] = f] = Append(Popped(stack), f)
  <2>1. StackFine(heap, stack, reading) /\ reading \in BOOLEAN /\ failed \in BOOLEAN
    BY DEF Sound, Shape
  <2>2. stack \in Seq(FrameSet)
    BY <2>1 DEF StackFine
  <2>3. /\ StackFine(heap, Popped(stack), FALSE) /\ Own(Popped(stack), stack[Len(stack)].obj)
        /\ Nested(stack[Len(stack)]) => Popped(stack) # <<>>
        /\ Popped(stack) # <<>> => SitsOn(stack[Len(stack)], Popped(stack)[Len(Popped(stack))])
    BY <2>1, FinePop
  <2>4. [stack EXCEPT ![Len(stack)] = f] = Append(Popped(stack), f)
    BY <2>2, PoppedIs
  <2>. QED
    BY <2>1, <2>2, <2>3, <2>4 DEF Top
<1>2. Own(Popped(stack), f.obj)
  <2>1. \A i \in 1..Len(Popped(stack)) : i \in 1..Len(stack) /\ Popped(stack)[i] = stack[i]
    BY <1>1, PoppedIs
  <2>. QED
    BY <1>1, <2>1 DEF Own
<1>3. StackFine(heap', Popped(stack), FALSE)
  BY <1>1, FineGentle
<1>4. Popped(stack) # <<>> => SitsOn(f, Popped(stack)[Len(Popped(stack))])
  BY <1>1 DEF SitsOn, Nested
<1>5. StackFine(heap', Append(Popped(stack), f), TRUE)
  BY <1>1, <1>2, <1>3, <1>4, FinePush
<1>. QED
  BY <1>1, <1>5, StackSet DEF Continue, Top

LEMMA SameHeap == ASSUME Sound, UNCHANGED heap PROVE HeapFine(heap') /\ Gentle(heap, heap')
BY DEF Sound, Shape, Gentle, Grows

LEMMA OnePlace == ASSUME NEW o \in Obj PROVE One(NULL, o) = 0 /\ \A x : One(x, o) \in 0..1
BY NullIsNoObject DEF One

-----------------------------------------------------------------------------
(* One lemma for each action: the invariant survives it. *)
LEMMA UndefinedSound == ASSUME Sound, Next, Undefined, ops' \in 0..MaxOps PROVE Sound'
<1>1. Shape'
  BY DEF Sound, Shape, Undefined, heapVars
<1>2. \A o \in Obj : Paid(o)' = Paid(o)
  BY DEF Paid, Undefined, heapVars
<1>. QED
  BY <1>1, <1>2, Assemble DEF Undefined

(* A call returns at once, with a reference of its own. *)
LEMMA ReturnSound ==
  ASSUME Sound, Next, Unmarshals, NEW v \in Ref, Return(v), ops' \in 0..MaxOps,
         (v = NULL /\ UNCHANGED heap) \/ (v \in Obj /\ Live(v) /\ heap' = IncRefs(heap, <<v>>)),
         UNCHANGED <<pending, surplus, stack>>, UnchangedMap
  PROVE  Sound'
<1>1. HeapFine(heap) /\ <<v>> \in Seq(Ref)
  BY ShortSeqs DEF Sound, Shape
<1>2. /\ HeapFine(heap') /\ Gentle(heap, heap')
      /\ \A o \in Obj : Free(heap', o) = Free(heap, o) + One(v, o)
  <2>1. CASE v = NULL /\ UNCHANGED heap
    BY <2>1, SameHeap, SoundTypes, OnePlace
  <2>2. CASE v \in Obj /\ Live(v) /\ heap' = IncRefs(heap, <<v>>)
    <3>1. /\ HeapFine(heap') /\ Grows(heap, heap') /\ (\A q \in Obj : heap'[q].kids = heap[q].kids)
          /\ \A o \in Obj : Free(heap', o) = Free(heap, o) + One(v, o)
      BY <1>1, <2>2, HeapIncOne DEF Live
    <3>. QED
      BY <3>1 DEF Gentle
  <2>. QED
    BY <2>1, <2>2
<1>3. /\ StackFine(heap', stack', reading') /\ val' = v /\ reading' = FALSE /\ val = NULL
      /\ failed' \in BOOLEAN /\ phase' = phase
  BY <1>2, ReturnHere
<1>4. Shape'
  BY <1>2, <1>3 DEF Sound, Shape, Unmarshals, Running
<1>5. ASSUME NEW o \in Obj PROVE Paid(o)' = Paid(o)
  BY <1>2, <1>3, SoundTypes, OnePlace DEF Paid
<1>. QED
  BY <1>4, <1>5, Assemble DEF UnchangedMap

LEMMA OpcodeFacts == ASSUME Sound, NEW op, AtOpcode(op) PROVE ops' \in 0..MaxOps /\ Unmarshals /\ HasRoom
BY BoundsAssumption DEF Sound, Shape, AtOpcode

LEMMA ExistingSound ==
  ASSUME Sound, Next, Unmarshals, ops' \in 0..MaxOps, NEW v \in Obj, ReturnExisting(v),
         UNCHANGED <<pending, surplus, stack>>, UnchangedMap
  PROVE  Sound'
BY ReturnSound, UndefinedSound DEF ReturnExisting, Ref

LEMMA ReadFailsSound == Sound /\ Next /\ ReadFails => Sound'
<1> SUFFICES ASSUME Sound, Next, ReadFails PROVE Sound'
  OBVIOUS
<1>1. Unmarshals /\ Return(NULL) /\ ops' \in 0..MaxOps /\ UnchangedMap /\ NULL \in Ref
      /\ UNCHANGED <<heap, pending, surplus, stack>>
  BY DEF Sound, Shape, ReadFails, UnchangedHeap, heapVars, Ref
<1>. QED
  BY <1>1, ReturnSound

LEMMA ReadSingletonSound == Sound /\ Next /\ ReadSingleton => Sound'
<1> SUFFICES ASSUME Sound, Next, ReadSingleton PROVE Sound'
  OBVIOUS
<1>1. PyNone \in Obj
  BY MaxObjAssumption DEF PyNone, Obj
<1>. QED
  BY <1>1, OpcodeFacts, ExistingSound DEF ReadSingleton

LEMMA ReadRefSound == Sound /\ Next /\ ReadRef => Sound'
<1> SUFFICES ASSUME Sound, Next, ReadRef PROVE Sound'
  OBVIOUS
<1>1. ops' \in 0..MaxOps /\ Unmarshals /\ NULL \in Ref
  BY OpcodeFacts DEF ReadRef, Ref
<1>2. UNCHANGED <<pending, surplus, stack>> /\ UnchangedMap
  BY DEF ReadRef
<1>3. PICK location \in 0..(MaxShared + 2) :
        \/ Refs!HasStoredObject(location) /\ ReturnExisting(Refs!StoredObject(location))
        \/ Return(NULL) /\ UNCHANGED heap
  BY DEF ReadRef
<1>4. CASE Return(NULL) /\ UNCHANGED heap
  BY <1>1, <1>2, <1>4, ReturnSound
<1>5. CASE Refs!HasStoredObject(location) /\ ReturnExisting(Refs!StoredObject(location))
  <2>1. location - 1 \in 0..MaxShared /\ mReferenceObjects[location - 1] # NULL
    <3>1. location # 0 /\ location - 1 <= mStoreObjectIndex /\ location <= Refs!SlotCount
          /\ mReferenceObjects[location - 1] # NULL
      BY <1>5 DEF Refs!HasStoredObject
    <3>2. mStoreObjectIndex \in Nat /\ mStoreObjectIndex <= MaxShared /\ MaxShared \in Nat
      BY BoundsAssumption, LenProperties DEF Sound, MapInv, MapShape
    <3>. QED
      BY <3>1, <3>2
  <2>2. Refs!StoredObject(location) \in Obj
    BY <2>1 DEF Refs!StoredObject, Sound, MapInv, MapShape
  <2>. QED
    BY <1>1, <1>2, <1>5, <2>2, ExistingSound
<1>. QED
  BY <1>3, <1>4, <1>5

LEMMA CompleteSound == Sound /\ Next /\ Complete => Sound'
<1> SUFFICES ASSUME Sound, Next, Complete PROVE Sound'
  OBVIOUS
<1>1. /\ Running /\ reading /\ stack # <<>> /\ Top.op \in {"leaf", "tuple", "list", "dict"}
      /\ ReturnFrom(Top.obj) /\ UNCHANGED <<heap, pending, surplus, ops, mapVars>>
  BY DEF Complete, Finished, UnchangedHeap, heapVars, UnchangedMap
<1>2. Top.obj \in Ref /\ Top.tmp = NULL /\ val = NULL
  BY <1>1, TopFacts DEF Sound, Shape, FrameOK, NoArgument
<1>3. HeapFine(heap') /\ Gentle(heap, heap')
  BY <1>1, SameHeap
<1>4. /\ StackFine(heap', stack', reading') /\ val' = Top.obj /\ reading' = FALSE
      /\ failed' \in BOOLEAN /\ phase' = phase
      /\ \A o \in Obj : Inner(stack', o) = Inner(stack, o) - Held(Top, o)
  BY <1>1, <1>2, <1>3, ReturnTop
<1>5. Shape'
  BY <1>1, <1>2, <1>3, <1>4 DEF Sound, Shape, Running
<1>6. ASSUME NEW o \in Obj PROVE Paid(o)' = Paid(o)
  BY <1>1, <1>2, <1>4, SoundTypes, OnePlace DEF Paid, Held
<1>. QED
  BY <1>1, <1>5, <1>6, Assemble

LEMMA LoadReturnsSound == Sound /\ Next /\ LoadReturns => Sound'
<1> SUFFICES ASSUME Sound, Next, LoadReturns PROVE Sound'
  OBVIOUS
<1>1. Shape'
  BY DEF Sound, Shape, LoadReturns, UnchangedHeap, heapVars, Running
<1>2. \A o \in Obj : Paid(o)' = Paid(o)
  BY DEF Paid, LoadReturns, UnchangedHeap, heapVars
<1>. QED
  BY <1>1, <1>2, Assemble DEF LoadReturns, UnchangedMap

LEMMA ReleaseResultSound == Sound /\ Next /\ ReleaseResult => Sound'
<1> SUFFICES ASSUME Sound, Next, ReleaseResult PROVE Sound'
  OBVIOUS
<1>1. /\ val \in Ref /\ val' = NULL /\ pending = <<>> /\ phase' = "dropped"
      /\ pending' = (IF val = NULL THEN <<>> ELSE <<val>>)
      /\ UNCHANGED <<heap, surplus, stack, reading, ops, failed, mapVars>>
  BY DEF Sound, Shape, ReleaseResult, UnchangedMap
<1>2. pending' \in Seq(Ref) /\ NULL \in Ref
  BY <1>1, ShortSeqs DEF Ref
<1>3. Shape'
  BY <1>1, <1>2 DEF Sound, Shape
<1>4. ASSUME NEW o \in Obj PROVE Paid(o)' = Paid(o)
  <2>1. CountIn(o, pending') = One(val, o)
    BY <1>1, ShortCounts, OnePlace
  <2>. QED
    BY <1>1, <2>1, SoundTypes, OnePlace DEF Paid
<1>. QED
  BY <1>1, <1>3, <1>4, Assemble

LEMMA HeaderSound == Sound /\ Next /\ ReadMarshalHeader => Sound'
<1> SUFFICES ASSUME Sound, Next, ReadMarshalHeader PROVE Sound'
  OBVIOUS
<1>1. /\ phase = "header" /\ phase' \in {"load", "loaded"} /\ failed' \in BOOLEAN
      /\ UNCHANGED <<heap, pending, surplus, stack, val, reading, ops, stored>>
  BY DEF Sound, Shape, ReadMarshalHeader, heapVars
<1>2. Shape'
  BY <1>1 DEF Sound, Shape
<1>3. \A o \in Obj : Paid(o)' = Paid(o)
  BY <1>1 DEF Paid
<1>4. UNCHANGED mReferenceObjects /\ mExpectedObjectsCount = 0
  BY <1>1 DEF Sound, MapInv, ReadMarshalHeader, mapVars, Refs!SetOrder
<1>5. SlotsFine'
  <2>1. CASE UNCHANGED mapVars
    BY <2>1 DEF Sound, SlotsFine, mapVars
  <2>2. ASSUME NEW n \in 0..MaxShared, NEW order \in [0..(n - 1) -> 1..n], Refs!SetOrder(n, order)
        PROVE  SlotsFine'
    <3>1. MaxShared \in Nat
      BY BoundsAssumption
    <3>2. ASSUME NEW i \in 0..MaxShared
          PROVE  mOrderMap'[i] <= mExpectedObjectsCount' /\ mReferenceObjects'[i] = NULL
      <4>1. mOrderMap'[i] = IF i < n THEN order[i] ELSE 0
        BY <2>2, <3>1 DEF Refs!SetOrder, Refs!Slot
      <4>2. i < n => order[i] \in 1..n
        BY <3>1
      <4>3. mExpectedObjectsCount' = n
        BY <2>2 DEF Refs!SetOrder
      <4>4. mReferenceObjects[i] = NULL
        BY <1>4, <3>1 DEF Sound, SlotsFine
      <4>. QED
        BY <1>4, <4>1, <4>2, <4>3, <4>4
    <3>. QED
      BY <3>2 DEF SlotsFine
  <2>. QED
    BY <2>1, <2>2 DEF ReadMarshalHeader
<1>6. MapInv'
  BY NextMap DEF Sound
<1>7. Balanced'
  BY <1>3, <1>4 DEF Sound, Balanced, Fixed
<1>. QED
  BY <1>2, <1>5, <1>6, <1>7 DEF Sound

LEMMA DestroySound == Sound /\ Next /\ DestroyStream => Sound'
<1> SUFFICES ASSUME Sound, Next, DestroyStream PROVE Sound'
  OBVIOUS
<1>1. /\ phase' = "done" /\ pending = <<>>
      /\ pending' = [i \in 1..mExpectedObjectsCount |-> mReferenceObjects[i - 1]]
      /\ UNCHANGED <<heap, surplus, stack, val, reading, ops, failed>>
      /\ UNCHANGED <<mExpectedObjectsCount, mOrderMap>>
      /\ mReferenceObjects' = [i \in 0..MaxShared |-> NULL]
  BY DEF DestroyStream, Refs!Clear, Refs!Slot
<1>2. ASSUME NEW o \in Obj PROVE pending' \in Seq(Ref) /\ CountIn(o, pending') = CountIn(o, mReferenceObjects)
  <2>1. mReferenceObjects \in [0..MaxShared -> Ref] /\ mExpectedObjectsCount \in 0..MaxShared
    BY DEF Sound, MapInv, MapShape, Ref
  <2>2. \A i \in 0..MaxShared : i >= mExpectedObjectsCount => mReferenceObjects[i] = NULL
    BY DEF Sound, SlotsFine
  <2>. QED
    BY <1>1, <2>1, <2>2, ClearedSlots
<1>3. pending' \in Seq(Ref)
  <2>1. PyNone \in Obj
    BY MaxObjAssumption DEF PyNone, Obj
  <2>. QED
    BY <1>2, <2>1
<1>4. Shape'
  BY <1>1, <1>3 DEF Sound, Shape
<1>5. SlotsFine'
  BY <1>1 DEF Sound, SlotsFine
<1>6. MapInv'
  BY NextMap DEF Sound
<1>7. ASSUME NEW o \in Obj PROVE Paid(o)' = CountIn(o, mReferenceObjects') + Fixed(o)
  <2>1. CountIn(o, mReferenceObjects') = 0
    BY <1>1, CountZero, NullIsNoObject
  <2>2. Paid(o)' = Paid(o) - CountIn(o, mReferenceObjects)
    <3>1. CountIn(o, pending) = 0
      BY <1>1, SoundTypes
    <3>2. UNCHANGED <<heap, surplus, stack, val>>
      BY <1>1
    <3>. QED
      BY <1>2, <3>1, <3>2, SoundTypes DEF Paid
  <2>3. Paid(o) = CountIn(o, mReferenceObjects) + Fixed(o) /\ Fixed(o) \in Nat
    BY DEF Sound, Balanced, Fixed
  <2>. QED
    BY <2>1, <2>2, <2>3, SoundTypes
<1>8. Balanced'
  BY <1>7 DEF Balanced, Fixed
<1>. QED
  BY <1>4, <1>5, <1>6, <1>8 DEF Sound

(* One reference is dropped, and the destructor passes its own on. *)
LEMMA ReleaseSound == Sound /\ Next /\ Release => Sound'
<1> SUFFICES ASSUME Sound, Next, Release PROVE Sound'
  OBVIOUS
<1>1. UnchangedMap /\ pending # <<>> /\ phase \notin {"header", "loaded"} /\ pending \in Seq(Ref)
      /\ HeapFine(heap) /\ StackFine(heap, stack, reading)
  BY DEF Release, Sound, Shape
<1>2. CASE ~ReleaseDefined /\ Undefined /\ UNCHANGED ops
  BY <1>2, UndefinedSound DEF Sound, Shape
<1>3. CASE ReleaseOne /\ UNCHANGED control
  <2>. DEFINE x == Head(pending)
  <2>1. /\ x \in Ref /\ Tail(pending) \in Seq(Ref)
        /\ \A o \in Obj : /\ CountIn(o, pending) = One(x, o) + CountIn(o, Tail(pending))
                          /\ CountIn(o, Tail(pending)) \in Nat
    BY <1>1, HeadTailProperties, CountHead, CountType
  <2>2. /\ HeapFine(heap') /\ Gentle(heap, heap') /\ pending' \in Seq(Ref)
        /\ \A o \in Obj : Free(heap', o) - CountIn(o, pending') = Free(heap, o) - CountIn(o, pending)
    <3>1. CASE x = NULL /\ pending' = Tail(pending) /\ UNCHANGED heap
      <4>1. HeapFine(heap') /\ Gentle(heap, heap')
        BY <3>1, SameHeap
      <4>. QED
        BY <2>1, <3>1, <4>1, OnePlace, SoundTypes
    <3>2. CASE /\ x # NULL /\ heap[x].refcnt > 1 /\ heap' = [heap EXCEPT ![x].refcnt = @ - 1]
               /\ pending' = Tail(pending)
      <4>1. x \in Obj
        BY <2>1, <3>2 DEF Ref
      <4>. HIDE DEF x
      <4>2. /\ HeapFine(heap') /\ Grows(heap, heap') /\ (\A q \in Obj : heap'[q].kids = heap[q].kids)
            /\ \A o \in Obj : Free(heap', o) = Free(heap, o) - One(x, o)
        <5>1. heap' = Dropped(heap, x)
          BY <3>2 DEF Dropped
        <5>2. heap[x].refcnt > 1
          BY <3>2
        <5>. QED
          BY <1>1, <4>1, <5>1, <5>2, HeapDec
      <4>3. Gentle(heap, heap')
        BY <4>2 DEF Gentle
      <4>4. ASSUME NEW o \in Obj
            PROVE  Free(heap', o) - CountIn(o, pending') = Free(heap, o) - CountIn(o, pending)
        <5>1. Free(heap', o) = Free(heap, o) - One(x, o) /\ Free(heap, o) \in Int /\ One(x, o) \in Int
          BY <4>2, OnePlace, SoundTypes
        <5>2. CountIn(o, pending) = One(x, o) + CountIn(o, Tail(pending)) /\ CountIn(o, Tail(pending)) \in Int
          BY <2>1
        <5>. QED
          BY <3>2, <5>1, <5>2
      <4>. QED
        BY <2>1, <3>2, <4>2, <4>3, <4>4
    <3>3. CASE /\ x # NULL /\ heap[x].refcnt = 1
               /\ heap' = [heap EXCEPT ![x].kind = "freed", ![x].refcnt = 0, ![x].kids = <<>>]
               /\ pending' = heap[x].kids \o Tail(pending)
      <4>1. x \in Obj
        BY <2>1, <3>3 DEF Ref
      <4>. HIDE DEF x
      <4>2. /\ HeapFine(heap') /\ Grows(heap, heap') /\ (\A q \in Obj \ {x} : heap'[q] = heap[q]) /\ heap'[x].kids = <<>>
            /\ \A o \in Obj : Free(heap', o) = Free(heap, o) - One(x, o) + CountIn(o, heap[x].kids)
        <5>1. heap' = Deleted(heap, x)
          BY <3>3 DEF Deleted
        <5>2. heap[x].refcnt = 1
          BY <3>3
        <5>. QED
          BY <1>1, <4>1, <5>1, <5>2, HeapDelete
      <4>3. Gentle(heap, heap')
        BY <4>2 DEF Gentle
      <4>4. heap[x].kids \in Seq(Obj) /\ heap[x].kids \in Seq(Ref)
        <5>1. heap[x].kids \in Seq(Obj)
          BY <1>1, <4>1 DEF HeapFine, Record
        <5>. QED
          BY <5>1 DEF Ref
      <4>5. PICK s \in Seq(Ref) : s = heap[x].kids
        BY <4>4
      <4>6. s \o Tail(pending) \in Seq(Ref)
        BY <2>1, ConcatProperties
      <4>7. ASSUME NEW o \in Obj
            PROVE  Free(heap', o) - CountIn(o, pending') = Free(heap, o) - CountIn(o, pending)
        <5>1. CountIn(o, s \o Tail(pending)) = CountIn(o, s) + CountIn(o, Tail(pending)) /\ CountIn(o, s) \in Nat
          BY <2>1, CountConcat, CountType
        <5>2. Free(heap', o) = Free(heap, o) - One(x, o) + CountIn(o, s) /\ Free(heap, o) \in Int /\ One(x, o) \in Int
          BY <4>2, <4>5, OnePlace, SoundTypes
        <5>3. CountIn(o, pending) = One(x, o) + CountIn(o, Tail(pending)) /\ CountIn(o, Tail(pending)) \in Int
          BY <2>1
        <5>4. CountIn(o, pending') = CountIn(o, s \o Tail(pending))
          BY <3>3, <4>5
        <5>. QED
          BY <5>1, <5>2, <5>3, <5>4
      <4>. QED
        BY <3>3, <4>2, <4>3, <4>5, <4>6, <4>7
    <3>. QED
      BY <1>3, <3>1, <3>2, <3>3 DEF ReleaseOne
  <2>3. UNCHANGED <<surplus, phase, stack, val, reading, ops, failed>>
    BY <1>3 DEF ReleaseOne, control
  <2>4. StackFine(heap', stack', reading')
    BY <1>1, <2>2, <2>3, FineGentle
  <2>5. Shape'
    BY <1>1, <2>2, <2>3, <2>4 DEF Sound, Shape
  <2>6. ASSUME NEW o \in Obj PROVE Paid(o)' = Paid(o)
    BY <2>2, <2>3, SoundTypes DEF Paid
  <2>. QED
    BY <1>1, <2>5, <2>6, Assemble DEF UnchangedMap
<1>. QED
  BY <1>2, <1>3 DEF Release

-----------------------------------------------------------------------------
LEMMA FreshHeap ==
  ASSUME Sound, HasRoom, NEW e \in Record, e.kind \notin {"unused", "freed"}, e.kids = <<>>, NEW g
  PROVE  g = Allocated(heap, Fresh, e) =>
         /\ HeapFine(g) /\ Gentle(heap, g) /\ g[Fresh] = e
         /\ \A o \in Obj : Free(g, o) = Free(heap, o) + e.refcnt * One(Fresh, o)
<1>. DEFINE p == Fresh
<1>1. p \in Obj /\ heap[p].kind = "unused" /\ HeapFine(heap)
  BY FreshFacts DEF Sound, Shape
<1>. HIDE DEF p
<1> SUFFICES ASSUME g = Allocated(heap, p, e)
             PROVE  /\ HeapFine(g) /\ Gentle(heap, g) /\ g[p] = e
                    /\ \A o \in Obj : Free(g, o) = Free(heap, o) + e.refcnt * One(p, o)
  BY DEF p
<1>5. /\ HeapFine(g) /\ Grows(heap, g) /\ (\A q \in Obj \ {p} : g[q] = heap[q]) /\ g[p] = e
      /\ \A o \in Obj : Free(g, o) = Free(heap, o) + e.refcnt * One(p, o) - CountIn(o, e.kids)
  BY <1>1, HeapNew
<1>6. Gentle(heap, g)
  BY <1>1, <1>5 DEF Gentle
<1>7. ASSUME NEW o \in Obj PROVE Free(g, o) = Free(heap, o) + e.refcnt * One(p, o)
  <2>1. CountIn(o, e.kids) = 0 /\ Free(heap, o) \in Int /\ e.refcnt * One(p, o) \in Int
    BY <1>1, CountEmpty, FreeType, OnePlace DEF Record
  <2>2. Free(g, o) = Free(heap, o) + e.refcnt * One(p, o) - CountIn(o, e.kids)
    BY <1>5
  <2>3. PICK d \in Int : d = e.refcnt * One(p, o)
    BY <2>1
  <2>. QED
    BY <2>1, <2>2, <2>3
<1>. QED
  BY <1>5, <1>6, <1>7

LEMMA FreshObject ==
  ASSUME Sound, HasRoom, NEW k \in Kind \ {"unused", "freed"}, NEW n \in Nat,
         NEW c \in AllClasses \cup {"none"}, NEW r \in Nat,
         heap' = Allocated(heap, Fresh, NewObject(k, n, c, r))
  PROVE  /\ HeapFine(heap') /\ Gentle(heap, heap') /\ heap'[Fresh].kind # "unused" /\ heap'[Fresh].kids = <<>>
         /\ \A o \in Obj : Free(heap', o) = Free(heap, o) + r * One(Fresh, o)
<1>1. NewObject(k, n, c, r) \in Record
  BY DEF NewObject, Record
<1>2. PICK e \in Record : e = NewObject(k, n, c, r)
  BY <1>1
<1>3. e.kind \notin {"unused", "freed"} /\ e.refcnt = r /\ e.kids = <<>>
  BY <1>2 DEF NewObject
<1>4. heap' = Allocated(heap, Fresh, e)
  BY <1>2
<1>5. /\ HeapFine(heap') /\ Gentle(heap, heap') /\ heap'[Fresh] = e
      /\ \A o \in Obj : Free(heap', o) = Free(heap, o) + e.refcnt * One(Fresh, o)
  BY <1>3, <1>4, FreshHeap
<1>. QED
  BY <1>3, <1>5

LEMMA OverwrittenFacts ==
  ASSUME Sound, ~Refs!StoreWraps
  PROVE  /\ Refs!StoreLocation \in 0..MaxShared /\ Refs!StoreLocation < mExpectedObjectsCount
         /\ Refs!Overwritten \in Ref /\ Displaced \in Seq(Ref)
         /\ \A o \in Obj : CountIn(o, Displaced) = One(Refs!Overwritten, o)
<1>1. MaxShared \in Nat
  BY BoundsAssumption
<1>2. /\ mStoreObjectIndex \in 0..MaxShared /\ mExpectedObjectsCount \in 0..MaxShared
      /\ mOrderMap \in [0..MaxShared -> 0..MaxShared] /\ mReferenceObjects \in [0..MaxShared -> Ref]
  <2>1. MapShape /\ Len(stored) \in Nat
    BY LenProperties DEF Sound, MapInv, MapShape
  <2>. QED
    BY <1>1, <2>1 DEF MapShape, Ref
<1>3. mOrderMap[mStoreObjectIndex] # 0 /\ mOrderMap[mStoreObjectIndex] <= mExpectedObjectsCount
  BY <1>2 DEF Sound, SlotsFine, Refs!StoreWraps
<1>4. Refs!StoreLocation \in 0..MaxShared /\ Refs!StoreLocation < mExpectedObjectsCount
  <2>1. mOrderMap[mStoreObjectIndex] \in 0..MaxShared
    BY <1>2
  <2>. QED
    BY <1>1, <1>2, <1>3, <2>1, SMTT(30) DEF Refs!StoreLocation
<1>5. Refs!Overwritten \in Ref
  BY <1>2, <1>4 DEF Refs!Overwritten
<1>. QED
  BY <1>4, <1>5, ShortSeqs, ShortCounts DEF Displaced

(* Registering x: the map takes a reference to x, and loses what the slot held. *)
LEMMA RegisterSound ==
  ASSUME Sound, Next, NEW x \in Obj, Register(x), Shape',
         \A o \in Obj : Paid(o)' = Paid(o) + One(x, o) - One(Refs!Overwritten, o)
  PROVE  Sound'
<1>1. /\ ~Refs!StoreWraps /\ mReferenceObjects' = [mReferenceObjects EXCEPT ![Refs!StoreLocation] = x]
      /\ UNCHANGED <<mExpectedObjectsCount, mOrderMap>>
  BY DEF Register, Refs!Store
<1>2. PICK d : d = Refs!StoreLocation
  OBVIOUS
<1>3. /\ d \in 0..MaxShared /\ d < mExpectedObjectsCount /\ mReferenceObjects[d] = Refs!Overwritten
      /\ mReferenceObjects \in [0..MaxShared -> Ref] /\ x \in Ref
  BY <1>1, <1>2, OverwrittenFacts DEF Refs!Overwritten, Sound, MapInv, MapShape, Ref
<1>4. SlotsFine'
  <2>1. ASSUME NEW i \in 0..MaxShared, i >= mExpectedObjectsCount PROVE mReferenceObjects'[i] = NULL
    <3>1. i # d
      BY <1>3, <2>1, BoundsAssumption DEF Sound, MapInv, MapShape
    <3>. QED
      BY <1>1, <1>2, <1>3, <2>1, <3>1 DEF Sound, SlotsFine
  <2>. QED
    BY <1>1, <2>1 DEF Sound, SlotsFine
<1>5. ASSUME NEW o \in Obj PROVE Paid(o)' = CountIn(o, mReferenceObjects') + Fixed(o)
  <2>1. IsFiniteSet(0..MaxShared)
    BY BoundsAssumption, FS_Interval
  <2>2. CountIn(o, mReferenceObjects') = CountIn(o, mReferenceObjects) - One(mReferenceObjects[d], o) + One(x, o)
    <3>1. PICK D : D = 0..MaxShared
      OBVIOUS
    <3>2. IsFiniteSet(D) /\ d \in D /\ mReferenceObjects \in [D -> Ref]
      BY <1>3, <2>1, <3>1
    <3>3. DOMAIN mReferenceObjects' = D /\ mReferenceObjects'[d] = x
          /\ \A i \in D \ {d} : mReferenceObjects'[i] = mReferenceObjects[i]
      BY <1>1, <1>2, <1>3, <3>1
    <3>. QED
      BY <3>2, <3>3, CountReplace
  <2>3. Paid(o) = CountIn(o, mReferenceObjects) + Fixed(o) /\ Fixed(o) \in Nat
    BY DEF Sound, Balanced, Fixed
  <2>4. CountIn(o, mReferenceObjects) \in Nat /\ One(x, o) \in Nat /\ One(Refs!Overwritten, o) \in Nat
    BY SoundTypes, OnePlace
  <2>. QED
    BY <1>1, <1>2, <1>3, <2>2, <2>3, <2>4
<1>6. MapInv'
  BY NextMap DEF Sound
<1>7. Balanced'
  BY <1>5 DEF Balanced, Fixed
<1>. QED
  BY <1>4, <1>6, <1>7 DEF Sound

(* An object is created and lost at once. *)
LEMMA LostObjectSound ==
  ASSUME Sound, Next, Unmarshals, HasRoom, ops' \in 0..MaxOps,
         NEW k \in Kind \ {"unused", "freed"}, NEW n \in Nat,
         heap' = Allocated(heap, Fresh, NewObject(k, n, "none", 1)),
         surplus' = Abandon(surplus, <<Fresh>>), Return(NULL), UNCHANGED <<pending, stack>>, UnchangedMap
  PROVE  Sound'
<1>0. /\ Fresh \in Obj /\ NULL \in Ref /\ Fresh \in Ref /\ "none" \in AllClasses \cup {"none"}
      /\ surplus \in [Obj -> Int] /\ phase = "load" /\ pending = <<>> /\ pending \in Seq(Ref)
  BY FreshFacts DEF Ref, Sound, Shape, Unmarshals, Running
<1>1. HeapFine(heap') /\ Gentle(heap, heap')
      /\ \A o \in Obj : Free(heap', o) = Free(heap, o) + 1 * One(Fresh, o)
  <2>1. PICK r \in Nat : r = 1
    OBVIOUS
  <2>2. heap' = Allocated(heap, Fresh, NewObject(k, n, "none", r))
    BY <2>1
  <2>3. HeapFine(heap') /\ Gentle(heap, heap')
        /\ \A o \in Obj : Free(heap', o) = Free(heap, o) + r * One(Fresh, o)
    BY <1>0, <2>2, FreshObject
  <2>. QED
    BY <2>1, <2>3
<1>2. /\ StackFine(heap', stack', reading') /\ val' = NULL /\ reading' = FALSE /\ val = NULL
      /\ failed' \in BOOLEAN /\ phase' = phase
  BY <1>0, <1>1, ReturnHere
<1>3. surplus' \in [Obj -> Int] /\ \A o \in Obj : surplus'[o] = surplus[o] + One(Fresh, o)
  <2>1. <<Fresh>> \in Seq(Ref) /\ \A o \in Obj : CountIn(o, <<Fresh>>) = One(Fresh, o)
    BY <1>0, ShortSeqs, ShortCounts
  <2>. QED
    BY <1>0, <2>1, SurplusMoves
<1>4. Shape'
  BY <1>0, <1>1, <1>2, <1>3 DEF Sound, Shape
<1>5. ASSUME NEW o \in Obj PROVE Paid(o)' = Paid(o)
  <2>1. UNCHANGED <<pending, stack>>
    OBVIOUS
  <2>2. /\ Free(heap', o) = Free(heap, o) + One(Fresh, o) /\ surplus'[o] = surplus[o] + One(Fresh, o)
        /\ One(val', o) = 0 /\ One(val, o) = 0 /\ One(Fresh, o) \in Int
    <3>1. One(Fresh, o) \in Int /\ One(NULL, o) = 0
      BY OnePlace
    <3>2. Free(heap', o) = Free(heap, o) + 1 * One(Fresh, o) /\ Free(heap, o) \in Int
      BY <1>1, SoundTypes
    <3>. QED
      BY <1>2, <1>3, <3>1, <3>2
  <2>. QED
    BY <2>1, <2>2, SoundTypes DEF Paid
<1>. QED
  BY <1>4, <1>5, Assemble DEF UnchangedMap

(* A new object and the call that builds it. *)
LEMMA NewContainerSound ==
  ASSUME Sound, Next, Unmarshals, HasRoom, ops' \in 0..MaxOps,
         NEW k \in {"leaf", "tuple", "list", "dict"}, NEW n \in 0..MaxItems, NEW shared \in BOOLEAN,
         NewContainer(k, n, shared)
  PROVE  Sound'
<1>. DEFINE f == Frame(k, Fresh, NULL, n)
<1>1. /\ Fresh \in Obj /\ Fresh # NULL /\ Own(stack, Fresh) /\ NULL \in Ref /\ Fresh \in Ref
      /\ k \in Kind \ {"unused", "freed"} /\ n \in Nat /\ "none" \in AllClasses \cup {"none"}
      /\ surplus \in [Obj -> Int] /\ phase = "load" /\ pending = <<>> /\ pending \in Seq(Ref) /\ reading
  BY FreshFacts, BoundsAssumption DEF Kind, Ref, Sound, Shape, Unmarshals, Running
<1>2. stack # <<>> => Waits(Top)
  <2>1. ASSUME stack # <<>> PROVE Waits(Top)
    <3>1. Top.left \in 0..MaxItems
      BY <2>1, TopFacts DEF FrameSet
    <3>. QED
      BY <2>1, <3>1, BoundsAssumption DEF Unmarshals, Finished, Waits
  <2>. QED
    BY <2>1
<1>3. /\ f \in FrameSet /\ f.obj = Fresh /\ f.tmp = NULL /\ f.op = k /\ f.left = n
      /\ ~Nested(f) /\ (stack # <<>> => SitsOn(f, Top))
  BY <1>1 DEF FrameSet, Frame, FrameOp, Nested, SitsOn
<1>. HIDE DEF f
<1>4. ASSUME NEW r \in Nat, heap' = Allocated(heap, Fresh, NewObject(k, n, "none", r))
      PROVE  /\ HeapFine(heap') /\ Gentle(heap, heap') /\ heap'[Fresh].kind # "unused" /\ heap'[Fresh].kids = <<>>
             /\ \A o \in Obj : Free(heap', o) = Free(heap, o) + r * One(Fresh, o)
  BY <1>1, <1>4, FreshObject
<1>5. ASSUME NEW r \in Nat, heap' = Allocated(heap, Fresh, NewObject(k, n, "none", r)), Descend(f)
      PROVE  /\ HeapFine(heap') /\ StackFine(heap', stack', reading') /\ val' = NULL /\ val = NULL /\ reading' = TRUE
             /\ failed' \in BOOLEAN /\ phase' = phase
             /\ \A o \in Obj : Inner(stack', o) = Inner(stack, o) + One(Fresh, o)
  <2>1. /\ HeapFine(heap') /\ Gentle(heap, heap') /\ heap'[Fresh].kind # "unused" /\ heap'[Fresh].kids = <<>>
    BY <1>4, <1>5
  <2>2. FrameOK(heap', f)
    <3>1. Len(<<>>) % 2 = 0
      OBVIOUS
    <3>. QED
      BY <1>1, <1>3, <2>1, <3>1 DEF FrameOK, NoObject, NoArgument
  <2>3. /\ StackFine(heap', stack', reading') /\ val' = NULL /\ val = NULL /\ reading' = TRUE
        /\ failed' \in BOOLEAN /\ phase' = phase
        /\ \A o \in Obj : Inner(stack', o) = Inner(stack, o) + Held(f, o)
    BY <1>1, <1>2, <1>3, <1>5, <2>1, <2>2, DescendStep
  <2>4. \A o \in Obj : Held(f, o) = One(Fresh, o)
    BY <1>3, OnePlace DEF Held
  <2>. QED
    BY <2>1, <2>3, <2>4
<1>6. CASE ~shared /\ heap' = Allocated(heap, Fresh, NewObject(k, n, "none", 1)) /\ Descend(f)
           /\ UNCHANGED <<pending, surplus>> /\ UnchangedMap
  <2>1. /\ HeapFine(heap') /\ StackFine(heap', stack', reading') /\ val' = NULL /\ val = NULL /\ reading' = TRUE
        /\ failed' \in BOOLEAN /\ phase' = phase
        /\ \A o \in Obj : Inner(stack', o) = Inner(stack, o) + One(Fresh, o)
    BY <1>5, <1>6
  <2>2. \A o \in Obj : Free(heap', o) = Free(heap, o) + 1 * One(Fresh, o)
    BY <1>4, <1>6
  <2>3. Shape'
    BY <1>1, <1>6, <2>1 DEF Sound, Shape
  <2>4. ASSUME NEW o \in Obj PROVE Paid(o)' = Paid(o)
    <3>1. UNCHANGED <<pending, surplus>>
      BY <1>6
    <3>2. /\ Free(heap', o) = Free(heap, o) + One(Fresh, o) /\ Inner(stack', o) = Inner(stack, o) + One(Fresh, o)
          /\ One(val', o) = 0 /\ One(val, o) = 0 /\ One(Fresh, o) \in Int
      BY <2>1, <2>2, OnePlace, SoundTypes
    <3>. QED
      BY <3>1, <3>2, SoundTypes DEF Paid
  <2>. QED
    BY <1>6, <2>3, <2>4, Assemble DEF UnchangedMap
<1>7. CASE heap' = Allocated(heap, Fresh, NewObject(k, n, "none", 1))
           /\ surplus' = Abandon(surplus, <<Fresh>>) /\ Return(NULL)
           /\ UNCHANGED <<pending, stack>> /\ UnchangedMap
  BY <1>1, <1>7, LostObjectSound
<1>8. CASE Register(Fresh) /\ heap' = Allocated(heap, Fresh, NewObject(k, n, "none", SharedRefs))
           /\ surplus' = Abandon(surplus, Displaced) /\ Descend(f) /\ UNCHANGED pending
  <2>1. /\ HeapFine(heap') /\ StackFine(heap', stack', reading') /\ val' = NULL /\ val = NULL /\ reading' = TRUE
        /\ failed' \in BOOLEAN /\ phase' = phase
        /\ \A o \in Obj : Inner(stack', o) = Inner(stack, o) + One(Fresh, o)
    BY <1>5, <1>8 DEF SharedRefs
  <2>2. \A o \in Obj : Free(heap', o) = Free(heap, o) + 2 * One(Fresh, o)
    BY <1>4, <1>8 DEF SharedRefs
  <2>3. /\ surplus' \in [Obj -> Int]
        /\ \A o \in Obj : surplus'[o] = surplus[o] + One(Refs!Overwritten, o)
    <3>1. Displaced \in Seq(Ref) /\ \A o \in Obj : CountIn(o, Displaced) = One(Refs!Overwritten, o)
      BY <1>8, OverwrittenFacts DEF Register, Refs!Store
    <3>. QED
      BY <1>1, <1>8, <3>1, SurplusMoves
  <2>4. Shape'
    BY <1>1, <1>8, <2>1, <2>3 DEF Sound, Shape
  <2>5. ASSUME NEW o \in Obj PROVE Paid(o)' = Paid(o) + One(Fresh, o) - One(Refs!Overwritten, o)
    <3>1. UNCHANGED pending
      BY <1>8
    <3>2. /\ Free(heap', o) = Free(heap, o) + 2 * One(Fresh, o) /\ Inner(stack', o) = Inner(stack, o) + One(Fresh, o)
          /\ surplus'[o] = surplus[o] + One(Refs!Overwritten, o)
          /\ One(val', o) = 0 /\ One(val, o) = 0 /\ One(Fresh, o) \in Int /\ One(Refs!Overwritten, o) \in Int
      BY <2>1, <2>2, <2>3, OnePlace, SoundTypes
    <3>3. /\ Free(heap, o) \in Int /\ CountIn(o, pending) \in Int /\ surplus[o] \in Int /\ Inner(stack, o) \in Int
      BY SoundTypes
    <3>4. CountIn(o, pending') = CountIn(o, pending)
      BY <3>1
    <3>. QED
      BY <3>2, <3>3, <3>4 DEF Paid
  <2>. QED
    BY <1>1, <1>8, <2>4, <2>5, RegisterSound
<1>. QED
  BY <1>6, <1>7, <1>8, UndefinedSound DEF NewContainer, f, Allocated

LEMMA ReadContainersSound == Sound /\ Next /\ (ReadLeaf \/ ReadTuple \/ ReadList \/ ReadDict) => Sound'
<1> SUFFICES ASSUME Sound, Next, ReadLeaf \/ ReadTuple \/ ReadList \/ ReadDict PROVE Sound'
  OBVIOUS
<1>1. 0 \in 0..MaxItems
  BY BoundsAssumption
<1>2. CASE ReadLeaf
  BY <1>1, <1>2, OpcodeFacts, NewContainerSound DEF ReadLeaf
<1>3. CASE ReadTuple
  BY <1>3, OpcodeFacts, NewContainerSound DEF ReadTuple
<1>4. CASE ReadList
  BY <1>4, OpcodeFacts, NewContainerSound DEF ReadList
<1>5. CASE ReadDict
  BY <1>5, OpcodeFacts, NewContainerSound DEF ReadDict
<1>. QED
  BY <1>2, <1>3, <1>4, <1>5

LEMMA HeapIncTwice ==
  ASSUME NEW h, HeapFine(h), NEW v \in Obj, h[v].kind \notin {"unused", "freed"}, NEW g
  PROVE  g = IncRefs(h, <<v, v>>) =>
         /\ HeapFine(g) /\ Grows(h, g) /\ (\A q \in Obj : g[q].kids = h[q].kids)
         /\ \A o \in Obj : Free(g, o) = Free(h, o) + 2 * One(v, o)
<1>1. <<v, v>> \in Seq(Obj) /\ \A i \in DOMAIN <<v, v>> : <<v, v>>[i] = v
  OBVIOUS
<1>2. PICK s \in Seq(Obj) : s = <<v, v>> /\ \A i \in DOMAIN s : s[i] = v
  BY <1>1
<1>3. \A i \in DOMAIN s : h[s[i]].kind \notin {"unused", "freed"}
  BY <1>2
<1>4. g = IncRefs(h, s) =>
         /\ HeapFine(g) /\ Grows(h, g) /\ (\A q \in Obj : g[q].kids = h[q].kids /\ g[q].kind = h[q].kind)
         /\ \A o \in Obj : Free(g, o) = Free(h, o) + CountIn(o, s)
  BY <1>3, HeapInc
<1>5. ASSUME NEW o \in Obj PROVE CountIn(o, s) = 2 * One(v, o)
  <2>1. CountIn(o, <<v, v>>) = One(v, o) + One(v, o)
    BY ShortCounts DEF Ref
  <2>. QED
    BY <1>2, <2>1 DEF One
<1>. QED
  BY <1>2, <1>4, <1>5

LEMMA ReadClassStringSound == Sound /\ Next /\ ReadClassString => Sound'
<1> SUFFICES ASSUME Sound, Next, ReadClassString PROVE Sound'
  OBVIOUS
<1>1. ops' \in 0..MaxOps /\ Unmarshals /\ HasRoom
  BY OpcodeFacts DEF ReadClassString
<1>2. CASE /\ heap' = Allocated(heap, Fresh, NewObject("leaf", 0, "none", 1))
           /\ surplus' = Abandon(surplus, <<Fresh>>) /\ Return(NULL)
           /\ UNCHANGED <<pending, stack>> /\ UnchangedMap
  <2>1. "leaf" \in Kind \ {"unused", "freed"} /\ 0 \in Nat
    BY DEF Kind
  <2>. QED
    BY <1>1, <1>2, <2>1, LostObjectSound
<1>3. ASSUME NEW i \in DOMAIN Classes, ReturnExisting(Prototype(i)),
             UNCHANGED <<pending, surplus, stack>>, UnchangedMap
      PROVE  Sound'
  BY <1>1, <1>3, PrototypeIsObj, ExistingSound
<1>4. ASSUME NEW i \in DOMAIN Classes, Live(Prototype(i)), Register(Prototype(i)),
             heap' = IncRefs(heap, <<Prototype(i), Prototype(i)>>),
             surplus' = Abandon(surplus, Displaced), Return(Prototype(i)), UNCHANGED <<pending, stack>>
      PROVE  Sound'
  <2>1. PICK v \in Obj : v = Prototype(i)
    BY PrototypeIsObj
  <2>2. /\ HeapFine(heap') /\ Grows(heap, heap') /\ (\A q \in Obj : heap'[q].kids = heap[q].kids)
        /\ \A o \in Obj : Free(heap', o) = Free(heap, o) + 2 * One(v, o)
    <3>1. HeapFine(heap) /\ heap' = IncRefs(heap, <<v, v>>) /\ heap[v].kind \notin {"unused", "freed"}
      BY <1>4, <2>1 DEF Sound, Shape, Live
    <3>. QED
      BY <3>1, HeapIncTwice
  <2>3. Gentle(heap, heap') /\ v \in Ref
    BY <2>2 DEF Gentle, Ref
  <2>4. /\ StackFine(heap', stack', reading') /\ val' = v /\ reading' = FALSE /\ val = NULL
        /\ failed' \in BOOLEAN /\ phase' = phase
    BY <1>1, <1>4, <2>1, <2>3, ReturnHere
  <2>5. /\ surplus' \in [Obj -> Int]
        /\ \A o \in Obj : surplus'[o] = surplus[o] + One(Refs!Overwritten, o)
    <3>1. Displaced \in Seq(Ref) /\ \A o \in Obj : CountIn(o, Displaced) = One(Refs!Overwritten, o)
      BY <1>4, OverwrittenFacts DEF Register, Refs!Store
    <3>2. surplus \in [Obj -> Int]
      BY DEF Sound, Shape
    <3>. QED
      BY <1>4, <3>1, <3>2, SurplusMoves
  <2>6. Shape'
    BY <1>1, <1>4, <2>2, <2>3, <2>4, <2>5 DEF Sound, Shape, Unmarshals, Running
  <2>7. ASSUME NEW o \in Obj PROVE Paid(o)' = Paid(o) + One(v, o) - One(Refs!Overwritten, o)
    <3>1. UNCHANGED <<pending, stack>>
      BY <1>4
    <3>2. /\ Free(heap', o) = Free(heap, o) + 2 * One(v, o)
          /\ surplus'[o] = surplus[o] + One(Refs!Overwritten, o)
          /\ One(val', o) = One(v, o) /\ One(val, o) = 0 /\ One(v, o) \in Int /\ One(Refs!Overwritten, o) \in Int
      BY <2>2, <2>4, <2>5, OnePlace, SoundTypes
    <3>3. /\ Free(heap, o) \in Int /\ CountIn(o, pending) \in Int /\ surplus[o] \in Int /\ Inner(stack, o) \in Int
      BY SoundTypes
    <3>. QED
      BY <3>1, <3>2, <3>3 DEF Paid
  <2>. QED
    BY <1>4, <2>1, <2>6, <2>7, RegisterSound
<1>5. CASE Undefined
  BY <1>1, <1>5, UndefinedSound
<1>. QED
  BY <1>2, <1>3, <1>4, <1>5 DEF ReadClassString, Allocated

-----------------------------------------------------------------------------
(* A container gets new contents. *)
LEMMA FillFacts ==
  ASSUME Sound, NEW p \in Obj, heap[p].kind # "unused", NEW ks \in Seq(Obj),
         heap' = Filled(heap, p, ks)
  PROVE  /\ HeapFine(heap') /\ GentleBut(heap, heap', p) /\ heap'[p].kids = ks
         /\ \A q \in Obj : heap'[q].kind = heap[q].kind
         /\ \A o \in Obj : Free(heap', o) = Free(heap, o) + CountIn(o, heap[p].kids) - CountIn(o, ks)
<1>1. HeapFine(heap)
  BY DEF Sound, Shape
<1>2. /\ HeapFine(heap') /\ Grows(heap, heap') /\ (\A q \in Obj \ {p} : heap'[q] = heap[q])
      /\ heap'[p].kids = ks /\ (\A q \in Obj : heap'[q].kind = heap[q].kind)
      /\ \A o \in Obj : Free(heap', o) = Free(heap, o) + CountIn(o, heap[p].kids) - CountIn(o, ks)
  BY <1>1, HeapKids
<1>. QED
  BY <1>2 DEF GentleBut

(* A container gets one more entry. *)
LEMMA AppendFacts ==
  ASSUME Sound, NEW p \in Obj, heap[p].kind # "unused", NEW x \in Obj,
         heap' = Filled(heap, p, Append(heap[p].kids, x))
  PROVE  /\ HeapFine(heap') /\ GentleBut(heap, heap', p)
         /\ \A q \in Obj : heap'[q].kind = heap[q].kind
         /\ \A o \in Obj : Free(heap', o) = Free(heap, o) - One(x, o)
<1>1. heap[p].kids \in Seq(Obj)
  BY DEF Sound, Shape, HeapFine, Record
<1>0. Append(heap[p].kids, x) \in Seq(Obj)
  BY <1>1, AppendProperties
<1>2. PICK ks \in Seq(Obj) : ks = Append(heap[p].kids, x)
  BY <1>0
<1>3. heap' = Filled(heap, p, ks)
  BY <1>2
<1>4. /\ HeapFine(heap') /\ GentleBut(heap, heap', p)
      /\ \A q \in Obj : heap'[q].kind = heap[q].kind
      /\ \A o \in Obj : Free(heap', o) = Free(heap, o) + CountIn(o, heap[p].kids) - CountIn(o, ks)
  BY <1>3, FillFacts
<1>5. ASSUME NEW o \in Obj PROVE Free(heap', o) = Free(heap, o) - One(x, o)
  <2>1. CountIn(o, ks) = CountIn(o, heap[p].kids) + One(x, o)
    BY <1>1, <1>2, CountAppend
  <2>2. CountIn(o, heap[p].kids) \in Nat /\ One(x, o) \in Nat /\ Free(heap, o) \in Int
    <3>1. CountIn(o, heap[p].kids) \in Nat
      BY <1>1, CountType
    <3>2. Free(heap, o) \in Int
      BY SoundTypes
    <3>. QED
      BY <3>1, <3>2 DEF One
  <2>. QED
    BY <1>4, <2>1, <2>2
<1>. QED
  BY <1>4, <1>5

LEMMA AddItemSound == Sound /\ Next /\ AddItem => Sound'
<1> SUFFICES ASSUME Sound, Next, AddItem PROVE Sound'
  OBVIOUS
<1>. DEFINE f == [Top EXCEPT !.left = @ - 1]
<1>1. /\ Running /\ ~reading /\ stack # <<>> /\ Top.op \in {"tuple", "list"} /\ UNCHANGED ops
      /\ val \notin {NULL, Top.obj} /\ heap' = Filled(heap, Top.obj, Append(heap[Top.obj].kids, val))
      /\ Continue(f) /\ UNCHANGED <<pending, surplus>> /\ UnchangedMap
  BY DEF AddItem, Returned, ItemAccepted, Filled
<1>2. /\ val \in Obj /\ Top.obj \in Obj /\ heap[Top.obj].kind # "unused" /\ Top.left > 0 /\ Top.left \in 0..MaxItems
      /\ Top \in FrameSet /\ Top.tmp = NULL
  <2>1. Top \in FrameSet /\ FrameOK(heap, Top) /\ Waits(Top)
    BY <1>1, TopFacts
  <2>2. val \in Obj
    BY <1>1 DEF Sound, Shape, Ref
  <2>. QED
    BY <1>1, <2>1, <2>2 DEF FrameOK, NoObject, NoArgument, FrameSet, Ref, Waits
<1>3. /\ HeapFine(heap') /\ GentleBut(heap, heap', Top.obj)
      /\ (\A q \in Obj : heap'[q].kind = heap[q].kind)
      /\ \A o \in Obj : Free(heap', o) = Free(heap, o) - One(val, o)
  BY <1>1, <1>2, AppendFacts
<1>4. f \in FrameSet /\ f.op = Top.op /\ f.obj = Top.obj /\ f.tmp = NULL
  BY <1>2, BoundsAssumption DEF FrameSet
<1>. HIDE DEF f
<1>5. FrameOK(heap', f)
  <2>1. heap[Top.obj].kind # "unused" => heap'[Top.obj].kind # "unused"
    BY <1>2, <1>3
  <2>. QED
    BY <1>1, <1>2, <1>4, <2>1, NullIsNoObject DEF FrameOK, NoObject, NoArgument, InDict
<1>6. /\ StackFine(heap', stack', reading') /\ val' = NULL /\ reading' = TRUE
      /\ failed' \in BOOLEAN /\ phase' = phase
      /\ \A o \in Obj : Inner(stack', o) = Inner(stack, o) - Held(Top, o) + Held(f, o)
  BY <1>1, <1>3, <1>4, <1>5, ContinueStep DEF Nested
<1>7. Shape'
  BY <1>1, <1>3, <1>6 DEF Sound, Shape, Running, Ref
<1>8. ASSUME NEW o \in Obj PROVE Paid(o)' = Paid(o)
  <2>1. UNCHANGED <<pending, surplus>>
    BY <1>1
  <2>2. /\ Free(heap', o) = Free(heap, o) - One(val, o) /\ Held(f, o) = Held(Top, o) /\ Held(Top, o) \in Int
        /\ Inner(stack', o) = Inner(stack, o) - Held(Top, o) + Held(f, o)
        /\ One(val', o) = 0 /\ One(val, o) \in Int
    BY <1>1, <1>2, <1>3, <1>4, <1>6, OnePlace, TopFacts DEF Held
  <2>3. /\ Free(heap, o) \in Int /\ CountIn(o, pending) \in Int /\ surplus[o] \in Int /\ Inner(stack, o) \in Int
    BY SoundTypes
  <2>. QED
    BY <2>1, <2>2, <2>3 DEF Paid
<1>. QED
  BY <1>1, <1>7, <1>8, Assemble DEF UnchangedMap

-----------------------------------------------------------------------------
(* A nested call has returned: the waiting call returns in its turn, or goes *)
(* on in another frame.  What the heap gives, somebody takes.                *)
LEMMA ReturnsSound ==
  ASSUME Sound, Next, NEW K, Returned(K), NEW v \in Ref, ReturnFrom(v), UnchangedMap, HeapFine(heap'),
         Gentle(heap, heap') \/ GentleBut(heap, heap', Top.obj),
         pending' \in Seq(Ref), surplus' \in [Obj -> Int],
         \A o \in Obj : Free(heap', o) = Free(heap, o) + CountIn(o, pending') + surplus'[o] - surplus[o]
                                         - Held(Top, o) - One(val, o) + One(v, o)
  PROVE  Sound'
<1>1. phase = "load" /\ pending = <<>> /\ stack # <<>> /\ UNCHANGED ops
  BY DEF Returned, Running
<1>2. /\ StackFine(heap', stack', reading') /\ val' = v /\ reading' = FALSE
      /\ failed' \in BOOLEAN /\ phase' = phase
      /\ \A o \in Obj : Inner(stack', o) = Inner(stack, o) - Held(Top, o)
  BY <1>1, ReturnTop
<1>3. Shape'
  BY <1>1, <1>2 DEF Sound, Shape
<1>4. ASSUME NEW o \in Obj PROVE Paid(o)' = Paid(o)
  <2>1. Free(heap', o) = Free(heap, o) + CountIn(o, pending') + surplus'[o] - surplus[o]
                         - Held(Top, o) - One(val, o) + One(v, o)
    OBVIOUS
  <2>2. Inner(stack', o) = Inner(stack, o) - Held(Top, o) /\ One(val', o) = One(v, o)
    BY <1>2
  <2>3. /\ Free(heap, o) \in Int /\ CountIn(o, pending) = 0 /\ surplus[o] \in Int /\ Inner(stack, o) \in Int
        /\ Held(Top, o) \in Int /\ One(val, o) \in Int /\ One(v, o) \in Int /\ surplus'[o] \in Int
        /\ CountIn(o, pending') \in Int
    BY <1>1, SoundTypes, TopFacts, OnePlace, CountType
  <2>4. /\ Paid(o)' = Free(heap', o) - CountIn(o, pending') - surplus'[o] - Inner(stack', o) - One(val', o)
        /\ Paid(o) = Free(heap, o) - CountIn(o, pending) - surplus[o] - Inner(stack, o) - One(val, o)
    BY DEF Paid
  <2>5. Free(heap', o) - CountIn(o, pending') - surplus'[o] - Inner(stack', o) - One(v, o)
          = Free(heap, o) - 0 - surplus[o] - Inner(stack, o) - One(val, o)
    BY <2>1, <2>2, <2>3, SMTT(60)
  <2>. QED
    BY <2>2, <2>3, <2>4, <2>5
<1>. QED
  BY <1>3, <1>4, Assemble DEF UnchangedMap

LEMMA ContinueMoves ==
  ASSUME Sound, NEW K, Returned(K), NEW f \in FrameSet, Continue(f), HeapFine(heap'), FrameOK(heap', f),
         Gentle(heap, heap') \/ GentleBut(heap, heap', Top.obj),
         f.obj = Top.obj \/ f.obj = NULL \/ Own(stack, f.obj),
         Nested(f) => Nested(Top), f.op = "listitr" <=> Top.op = "listitr",
         pending' \in Seq(Ref), surplus' \in [Obj -> Int],
         NEW o \in Obj, NEW d \in Int,
         Free(heap', o) = Free(heap, o) + CountIn(o, pending') + surplus'[o] - surplus[o]
                          - Held(Top, o) + Held(f, o) - One(val, o) + d
  PROVE  Shape' /\ Paid(o)' = Paid(o) + d
<1>1. phase = "load" /\ pending = <<>> /\ stack # <<>> /\ UNCHANGED ops
  BY DEF Returned, Running
<1>2. /\ StackFine(heap', stack', reading') /\ val' = NULL /\ reading' = TRUE
      /\ failed' \in BOOLEAN /\ phase' = phase
      /\ Inner(stack', o) = Inner(stack, o) - Held(Top, o) + Held(f, o)
  BY <1>1, ContinueStep
<1>3. Shape'
  BY <1>1, <1>2 DEF Sound, Shape, Ref
<1>4. /\ Free(heap, o) \in Int /\ CountIn(o, pending) = 0 /\ surplus[o] \in Int /\ Inner(stack, o) \in Int
      /\ Held(Top, o) \in Int /\ One(val, o) \in Int /\ surplus'[o] \in Int
      /\ CountIn(o, pending') \in Int /\ One(val', o) = 0 /\ Held(f, o) \in Int
  BY <1>1, <1>2, SoundTypes, TopFacts, OnePlace, CountType DEF Held, One
<1>5. /\ Paid(o)' = Free(heap', o) - CountIn(o, pending') - surplus'[o] - Inner(stack', o) - One(val', o)
      /\ Paid(o) = Free(heap, o) - CountIn(o, pending) - surplus[o] - Inner(stack, o) - One(val, o)
  BY DEF Paid
<1>6. Free(heap', o) - CountIn(o, pending') - surplus'[o] - Inner(stack', o) - 0
        = (Free(heap, o) - 0 - surplus[o] - Inner(stack, o) - One(val, o)) + d
  BY <1>2, <1>4, SMTT(60)
<1>. QED
  BY <1>3, <1>4, <1>5, <1>6

LEMMA ContinuesSound ==
  ASSUME Sound, Next, NEW K, Returned(K), NEW f \in FrameSet, Continue(f), UnchangedMap,
         HeapFine(heap'), FrameOK(heap', f),
         Gentle(heap, heap') \/ GentleBut(heap, heap', Top.obj),
         f.obj = Top.obj \/ f.obj = NULL \/ Own(stack, f.obj),
         Nested(f) => Nested(Top), f.op = "listitr" <=> Top.op = "listitr",
         pending' \in Seq(Ref), surplus' \in [Obj -> Int],
         \A o \in Obj : Free(heap', o) = Free(heap, o) + CountIn(o, pending') + surplus'[o] - surplus[o]
                                         - Held(Top, o) + Held(f, o) - One(val, o)
  PROVE  Sound'
<1>1. ASSUME NEW o \in Obj PROVE Shape' /\ Paid(o)' = Paid(o)
  <2>1. /\ Free(heap, o) \in Int /\ surplus[o] \in Int /\ stack # <<>>
        /\ Held(Top, o) \in Int /\ One(val, o) \in Int /\ surplus'[o] \in Int
        /\ CountIn(o, pending') \in Int /\ Held(f, o) \in Int /\ Inner(stack, o) \in Int
        /\ CountIn(o, pending) \in Int
    BY SoundTypes, TopFacts, OnePlace, CountType DEF Held, One, Returned
  <2>2. PICK d \in Int : d = 0
    OBVIOUS
  <2>3. Free(heap', o) = Free(heap, o) + CountIn(o, pending') + surplus'[o] - surplus[o]
                         - Held(Top, o) + Held(f, o) - One(val, o) + d
    BY <2>1, <2>2
  <2>4. Shape' /\ Paid(o)' = Paid(o) + d
    BY <2>3, ContinueMoves
  <2>5. Paid(o) \in Int
    BY <2>1 DEF Paid
  <2>. QED
    BY <2>2, <2>4, <2>5
<1>2. PyNone \in Obj
  BY MaxObjAssumption DEF PyNone, Obj
<1>. QED
  BY <1>1, <1>2, Assemble DEF UnchangedMap

(* A call that reads its opcode and waits for a first nested call, holding   *)
(* nothing yet.                                                              *)
LEMMA WaitsSound ==
  ASSUME Sound, Next, Unmarshals, ops' \in 0..MaxOps, NEW op \in NoObject, Descend(Frame(op, NULL, NULL, 0)),
         UNCHANGED <<heap, pending, surplus>>, UnchangedMap
  PROVE  Sound'
<1>. DEFINE f == Frame(op, NULL, NULL, 0)
<1>1. /\ phase = "load" /\ pending = <<>> /\ reading /\ HeapFine(heap') /\ Gentle(heap, heap')
  BY SameHeap DEF Unmarshals, Running
<1>2. stack # <<>> => Waits(Top)
  <2>1. ASSUME stack # <<>> PROVE Waits(Top)
    <3>1. Top.left \in 0..MaxItems
      BY <2>1, TopFacts DEF FrameSet
    <3>. QED
      BY <2>1, <3>1, BoundsAssumption DEF Unmarshals, Finished, Waits
  <2>. QED
    BY <2>1
<1>3. /\ f \in FrameSet /\ FrameOK(heap', f) /\ Own(stack, f.obj) /\ ~Nested(f) /\ f.obj = NULL /\ f.tmp = NULL
      /\ (stack # <<>> => SitsOn(f, Top)) /\ Descend(f)
  <2>1. f.op = op /\ f.obj = NULL /\ f.tmp = NULL /\ f.left = 0
    BY DEF Frame
  <2>2. f \in FrameSet
    BY BoundsAssumption DEF Frame, FrameSet, FrameOp, NoObject, Ref
  <2>3. Descend(f)
    OBVIOUS
  <2>. HIDE DEF f
  <2>4. FrameOK(heap', f) /\ Own(stack, f.obj)
    BY <2>1 DEF FrameOK, NoObject, NoArgument, InDict, Own
  <2>5. ~Nested(f) /\ (stack # <<>> => SitsOn(f, Top))
    BY <2>1 DEF NoObject, Nested, SitsOn
  <2>. QED
    BY <2>1, <2>2, <2>3, <2>4, <2>5
<1>. HIDE DEF f
<1>4. /\ StackFine(heap', stack', reading') /\ val' = NULL /\ val = NULL /\ reading' = TRUE
      /\ failed' \in BOOLEAN /\ phase' = phase
      /\ \A o \in Obj : Inner(stack', o) = Inner(stack, o) + Held(f, o)
  BY <1>1, <1>2, <1>3, DescendStep
<1>5. Shape'
  BY <1>1, <1>4 DEF Sound, Shape
<1>6. ASSUME NEW o \in Obj PROVE Paid(o)' = Paid(o)
  <2>1. Held(f, o) = 0
    BY <1>3, OnePlace DEF Held
  <2>2. Inner(stack', o) = Inner(stack, o)
    BY <1>4, <2>1, SoundTypes
  <2>. QED
    BY <1>4, <2>2 DEF Paid
<1>. QED
  BY <1>5, <1>6, Assemble DEF UnchangedMap

LEMMA WaitingSound == Sound /\ Next /\ (ReadInstance \/ ReadCall \/ ReadPackedRow) => Sound'
<1> SUFFICES ASSUME Sound, Next, ReadInstance \/ ReadCall \/ ReadPackedRow PROVE Sound'
  OBVIOUS
<1>1. UNCHANGED <<heap, pending, surplus>> /\ UnchangedMap /\ ops' \in 0..MaxOps /\ Unmarshals /\ NULL \in Ref
  BY OpcodeFacts DEF ReadInstance, ReadCall, ReadPackedRow, UnchangedHeap, heapVars, Ref
<1>2. CASE \E op \in NoObject : Descend(Frame(op, NULL, NULL, 0))
  BY <1>1, <1>2, WaitsSound
<1>3. CASE Return(NULL) /\ UNCHANGED stack
  BY <1>1, <1>3, ReturnSound
<1>. QED
  BY <1>2, <1>3 DEF ReadInstance, ReadCall, ReadPackedRow, NoObject

(* The same where only what is still to be dropped, or is lost, changes. *)
LEMMA DropsSound ==
  ASSUME Sound, Next, NEW K, Returned(K), NEW v \in Ref, ReturnFrom(v), UnchangedMap, UNCHANGED heap,
         pending' \in Seq(Ref), surplus' \in [Obj -> Int],
         \A o \in Obj : CountIn(o, pending') + surplus'[o] + One(v, o)
                          = surplus[o] + Held(Top, o) + One(val, o)
  PROVE  Sound'
<1>1. HeapFine(heap') /\ Gentle(heap, heap') /\ stack # <<>>
  BY SameHeap DEF Returned
<1>2. ASSUME NEW o \in Obj
      PROVE  Free(heap', o) = Free(heap, o) + CountIn(o, pending') + surplus'[o] - surplus[o]
                              - Held(Top, o) - One(val, o) + One(v, o)
  <2>1. /\ Free(heap, o) \in Int /\ surplus[o] \in Int /\ Held(Top, o) \in Int /\ One(val, o) \in Int
        /\ One(v, o) \in Int /\ surplus'[o] \in Int /\ CountIn(o, pending') \in Int
    BY <1>1, SoundTypes, TopFacts, OnePlace, CountType
  <2>2. Free(heap', o) = Free(heap, o)
    OBVIOUS
  <2>3. CountIn(o, pending') + surplus'[o] + One(v, o) = surplus[o] + Held(Top, o) + One(val, o)
    OBVIOUS
  <2>. QED
    BY <2>1, <2>2, <2>3, SMTT(60)
<1>. QED
  BY <1>1, <1>2, ReturnsSound

LEMMA RefuseItemSound == Sound /\ Next /\ RefuseItem => Sound'
<1> SUFFICES ASSUME Sound, Next, RefuseItem PROVE Sound'
  OBVIOUS
<1>1. /\ Returned({"tuple", "list"}) /\ stack # <<>> /\ Top.op \in {"tuple", "list"} /\ ReturnFrom(NULL)
      /\ surplus' = Abandon(surplus, <<Top.obj, val>>) /\ UNCHANGED <<heap, pending>> /\ UnchangedMap
      /\ pending = <<>> /\ pending \in Seq(Ref) /\ surplus \in [Obj -> Int] /\ val \in Ref /\ NULL \in Ref
  BY DEF RefuseItem, Returned, Running, Sound, Shape, Ref
<1>2. Top.obj \in Ref /\ Top.tmp = NULL
  BY <1>1, TopFacts DEF FrameOK, NoArgument
<1>3. surplus' \in [Obj -> Int] /\ \A o \in Obj : surplus'[o] = surplus[o] + (One(Top.obj, o) + One(val, o))
  <2>1. <<Top.obj, val>> \in Seq(Ref) /\ \A o \in Obj : CountIn(o, <<Top.obj, val>>) = One(Top.obj, o) + One(val, o)
    BY <1>1, <1>2, ShortSeqs, ShortCounts
  <2>2. PICK s \in Seq(Ref) : s = <<Top.obj, val>>
    BY <2>1
  <2>3. surplus' = Abandon(surplus, s) /\ \A o \in Obj : CountIn(o, s) = One(Top.obj, o) + One(val, o)
    BY <1>1, <2>1, <2>2
  <2>. QED
    BY <1>1, <2>3, Abandons
<1>4. ASSUME NEW o \in Obj
      PROVE  CountIn(o, pending') + surplus'[o] + One(NULL, o) = surplus[o] + Held(Top, o) + One(val, o)
  <2>1. CountIn(o, pending') = 0 /\ One(NULL, o) = 0 /\ Held(Top, o) = One(Top.obj, o)
    BY <1>1, <1>2, CountEmpty, OnePlace DEF Held
  <2>2. surplus[o] \in Int /\ One(Top.obj, o) \in Int /\ One(val, o) \in Int
    BY SoundTypes, OnePlace
  <2>. QED
    BY <1>3, <2>1, <2>2
<1>. QED
  BY <1>1, <1>3, <1>4, DropsSound

LEMMA RefuseEntrySound == Sound /\ Next /\ RefuseEntry => Sound'
<1> SUFFICES ASSUME Sound, Next, RefuseEntry PROVE Sound'
  OBVIOUS
<1>1. /\ Returned({"key"}) /\ stack # <<>> /\ ReturnFrom(NULL)
      /\ surplus' = Abandon(surplus, <<Top.obj, Top.tmp, val>>) /\ UNCHANGED <<heap, pending>> /\ UnchangedMap
      /\ pending = <<>> /\ pending \in Seq(Ref) /\ surplus \in [Obj -> Int] /\ val \in Ref /\ NULL \in Ref
  BY DEF RefuseEntry, Returned, Running, Sound, Shape, Ref
<1>2. Top.obj \in Ref /\ Top.tmp \in Ref
  BY <1>1, TopFacts
<1>3. surplus' \in [Obj -> Int]
      /\ \A o \in Obj : surplus'[o] = surplus[o] + (One(Top.obj, o) + One(Top.tmp, o) + One(val, o))
  <2>1. <<Top.obj, Top.tmp, val>> \in Seq(Ref) /\ \A o \in Obj : CountIn(o, <<Top.obj, Top.tmp, val>>) = One(Top.obj, o) + One(Top.tmp, o) + One(val, o)
    BY <1>1, <1>2, ShortSeqs, ShortCounts
  <2>2. PICK s \in Seq(Ref) : s = <<Top.obj, Top.tmp, val>>
    BY <2>1
  <2>3. surplus' = Abandon(surplus, s) /\ \A o \in Obj : CountIn(o, s) = One(Top.obj, o) + One(Top.tmp, o) + One(val, o)
    BY <1>1, <2>1, <2>2
  <2>. QED
    BY <1>1, <2>3, Abandons
<1>4. ASSUME NEW o \in Obj
      PROVE  CountIn(o, pending') + surplus'[o] + One(NULL, o) = surplus[o] + Held(Top, o) + One(val, o)
  <2>1. CountIn(o, pending') = 0 /\ One(NULL, o) = 0 /\ Held(Top, o) = One(Top.obj, o) + One(Top.tmp, o)
    BY <1>1, CountEmpty, OnePlace DEF Held
  <2>2. surplus[o] \in Int /\ One(Top.obj, o) \in Int /\ One(Top.tmp, o) \in Int /\ One(val, o) \in Int
    BY SoundTypes, OnePlace
  <2>. QED
    BY <1>3, <2>1, <2>2
<1>. QED
  BY <1>1, <1>3, <1>4, DropsSound

LEMMA InstanceNameFailsSound == Sound /\ Next /\ InstanceNameFails => Sound'
<1> SUFFICES ASSUME Sound, Next, InstanceNameFails PROVE Sound'
  OBVIOUS
<1>1. /\ Returned({"name", "sharedname"}) /\ stack # <<>> /\ Top.op \in NoObject /\ ReturnFrom(NULL)
      /\ pending' = (IF val = NULL THEN <<>> ELSE <<val>>) /\ UNCHANGED <<heap, surplus>> /\ UnchangedMap
      /\ surplus' \in [Obj -> Int] /\ val \in Ref /\ NULL \in Ref
  BY DEF InstanceNameFails, Returned, Running, Sound, Shape, Ref, NoObject
<1>2. Top.obj = NULL /\ Top.tmp = NULL
  BY <1>1, TopFacts DEF FrameOK, NoArgument
<1>3. pending' \in Seq(Ref) /\ \A o \in Obj : CountIn(o, pending') = One(val, o)
  BY <1>1, ShortSeqs, ShortCounts, OnePlace
<1>4. ASSUME NEW o \in Obj
      PROVE  CountIn(o, pending') + surplus'[o] + One(NULL, o) = surplus[o] + Held(Top, o) + One(val, o)
  <2>1. One(NULL, o) = 0 /\ Held(Top, o) = 0
    BY <1>2, OnePlace DEF Held
  <2>2. surplus[o] \in Int /\ One(val, o) \in Int
    BY SoundTypes, OnePlace
  <2>. QED
    BY <1>1, <1>3, <2>1, <2>2
<1>. QED
  BY <1>1, <1>3, <1>4, DropsSound

LEMMA InstanceBasesFailSound == Sound /\ Next /\ InstanceBasesFail => Sound'
<1> SUFFICES ASSUME Sound, Next, InstanceBasesFail PROVE Sound'
  OBVIOUS
<1>1. /\ Returned({"bases"}) /\ stack # <<>> /\ ReturnFrom(NULL) /\ val = NULL
      /\ pending' = <<Top.tmp, Top.obj>> /\ UNCHANGED <<heap, surplus>> /\ UnchangedMap
      /\ surplus' \in [Obj -> Int] /\ NULL \in Ref
  BY DEF InstanceBasesFail, Returned, Running, Sound, Shape, Ref
<1>2. Top.obj \in Ref /\ Top.tmp \in Ref
  BY <1>1, TopFacts
<1>3. pending' \in Seq(Ref) /\ \A o \in Obj : CountIn(o, pending') = One(Top.tmp, o) + One(Top.obj, o)
  BY <1>1, <1>2, ShortSeqs, ShortCounts
<1>4. ASSUME NEW o \in Obj
      PROVE  CountIn(o, pending') + surplus'[o] + One(NULL, o) = surplus[o] + Held(Top, o) + One(val, o)
  <2>1. One(NULL, o) = 0 /\ Held(Top, o) = One(Top.obj, o) + One(Top.tmp, o)
    BY OnePlace DEF Held
  <2>2. surplus[o] \in Int /\ One(Top.tmp, o) \in Int /\ One(Top.obj, o) \in Int
    BY SoundTypes, OnePlace
  <2>. QED
    BY <1>1, <1>3, <2>1, <2>2
<1>. QED
  BY <1>1, <1>3, <1>4, DropsSound

LEMMA CallNoTupleSound == Sound /\ Next /\ CallNoTuple => Sound'
<1> SUFFICES ASSUME Sound, Next, CallNoTuple PROVE Sound'
  OBVIOUS
<1>1. /\ Returned({"newobj", "reduce"}) /\ stack # <<>> /\ Top.op \in NoObject /\ ReturnFrom(NULL)
      /\ surplus' = Abandon(surplus, <<val>>) /\ UNCHANGED <<heap, pending>> /\ UnchangedMap
      /\ pending = <<>> /\ pending \in Seq(Ref) /\ surplus \in [Obj -> Int] /\ val \in Ref /\ NULL \in Ref
  BY DEF CallNoTuple, Returned, Running, Sound, Shape, Ref, NoObject
<1>2. Top.obj = NULL /\ Top.tmp = NULL
  BY <1>1, TopFacts DEF FrameOK, NoArgument
<1>3. surplus' \in [Obj -> Int] /\ \A o \in Obj : surplus'[o] = surplus[o] + One(val, o)
  <2>1. <<val>> \in Seq(Ref) /\ \A o \in Obj : CountIn(o, <<val>>) = One(val, o)
    BY <1>1, ShortSeqs, ShortCounts
  <2>2. PICK s \in Seq(Ref) : s = <<val>>
    BY <2>1
  <2>3. surplus' = Abandon(surplus, s) /\ \A o \in Obj : CountIn(o, s) = One(val, o)
    BY <1>1, <2>1, <2>2
  <2>. QED
    BY <1>1, <2>3, Abandons
<1>4. ASSUME NEW o \in Obj
      PROVE  CountIn(o, pending') + surplus'[o] + One(NULL, o) = surplus[o] + Held(Top, o) + One(val, o)
  <2>1. CountIn(o, pending') = 0 /\ One(NULL, o) = 0 /\ Held(Top, o) = 0
    BY <1>1, <1>2, CountEmpty, OnePlace DEF Held
  <2>2. surplus[o] \in Int /\ One(val, o) \in Int
    BY SoundTypes, OnePlace
  <2>. QED
    BY <1>3, <2>1, <2>2
<1>. QED
  BY <1>1, <1>3, <1>4, DropsSound

LEMMA ItemIsRef == ASSUME Sound, NEW p \in Obj, NEW i \in Nat PROVE Item(p, i) \in Ref
<1>1. heap[p].kids \in Seq(Obj)
  BY DEF Sound, Shape, HeapFine, Record
<1>2. ASSUME i < Len(heap[p].kids) PROVE heap[p].kids[i + 1] \in Obj
  <2>1. i + 1 \in 1..Len(heap[p].kids)
    BY <1>1, <1>2, LenProperties
  <2>. QED
    BY <1>1, <2>1
<1>. QED
  BY <1>2 DEF Item, Ref

LEMMA CallRefusedSound == Sound /\ Next /\ CallRefused => Sound'
<1> SUFFICES ASSUME Sound, Next, CallRefused PROVE Sound'
  OBVIOUS
<1>1. /\ Returned({"newobj", "reduce"}) /\ stack # <<>> /\ Top.op \in NoObject /\ ReturnFrom(NULL)
      /\ UNCHANGED heap /\ UnchangedMap /\ val # NULL /\ val \in Obj
      /\ surplus \in [Obj -> Int] /\ val \in Ref /\ NULL \in Ref
  BY DEF CallRefused, Returned, Running, Sound, Shape, Ref, NoObject, Is
<1>2. Top.obj = NULL /\ Top.tmp = NULL
  BY <1>1, TopFacts DEF FrameOK, NoArgument
<1>3. \A o \in Obj : One(NULL, o) = 0 /\ Held(Top, o) = 0 /\ surplus[o] \in Int /\ One(val, o) \in Int
  BY <1>2, SoundTypes, OnePlace DEF Held
<1>4. CASE pending' = <<val>> /\ UNCHANGED surplus
  <2>1. pending' \in Seq(Ref) /\ \A o \in Obj : CountIn(o, pending') = One(val, o)
    BY <1>1, <1>4, ShortSeqs, ShortCounts
  <2>2. ASSUME NEW o \in Obj
        PROVE  CountIn(o, pending') + surplus'[o] + One(NULL, o) = surplus[o] + Held(Top, o) + One(val, o)
    BY <1>3, <1>4, <2>1
  <2>. QED
    BY <1>1, <1>4, <2>1, <2>2, DropsSound
<1>5. CASE Top.op = "reduce" /\ pending' = <<val, Callee>> /\ surplus' = Overdraw(surplus, <<Callee>>)
  <2>1. Callee \in Ref
    BY <1>1, <1>5, ItemIsRef DEF Callee
  <2>2. pending' \in Seq(Ref) /\ \A o \in Obj : CountIn(o, pending') = One(val, o) + One(Callee, o)
    BY <1>1, <1>5, <2>1, ShortSeqs, ShortCounts
  <2>3. surplus' \in [Obj -> Int] /\ \A o \in Obj : surplus'[o] = surplus[o] - One(Callee, o)
    <3>1. <<Callee>> \in Seq(Ref) /\ \A o \in Obj : CountIn(o, <<Callee>>) = One(Callee, o)
      BY <2>1, ShortSeqs, ShortCounts
    <3>2. PICK s \in Seq(Ref) : s = <<Callee>>
      BY <3>1
    <3>3. surplus' = Overdraw(surplus, s) /\ \A o \in Obj : CountIn(o, s) = One(Callee, o)
      BY <1>5, <3>1, <3>2
    <3>. QED
      BY <1>1, <3>3, Overdraws
  <2>4. ASSUME NEW o \in Obj
        PROVE  CountIn(o, pending') + surplus'[o] + One(NULL, o) = surplus[o] + Held(Top, o) + One(val, o)
    <3>1. One(Callee, o) \in Int
      BY OnePlace
    <3>. QED
      BY <1>3, <2>2, <2>3, <3>1
  <2>. QED
    BY <1>1, <2>2, <2>3, <2>4, DropsSound
<1>. QED
  BY <1>4, <1>5 DEF CallRefused

-----------------------------------------------------------------------------
(* PyDict::set_item: a dict's keys and payloads stay paired, and what the    *)
(* caller held, or the old entry, is released.                               *)
LEMMA Pairs ==
  ASSUME NEW n \in Nat, n % 2 = 0
  PROVE  (n + 2) % 2 = 0 /\ \A i \in 1..n : i % 2 = 1 => i + 1 \in 1..n
  OBVIOUS

LEMMA SetItemFacts ==
  ASSUME Sound, pending = <<>>, NEW d \in Obj, heap[d].kind # "unused", Len(heap[d].kids) % 2 = 0,
         NEW key \in Obj, NEW payload \in Obj
  PROVE  SetItem(d, key, payload) =>
         /\ HeapFine(heap') /\ GentleBut(heap, heap', d) /\ heap'[d].kind # "unused"
         /\ Len(heap'[d].kids) % 2 = 0 /\ pending' \in Seq(Ref)
         /\ \A o \in Obj : Free(heap', o) = Free(heap, o) + CountIn(o, pending') - One(key, o) - One(payload, o)
<1>1. PICK kids \in Seq(Obj) : kids = heap[d].kids
  BY DEF Sound, Shape, HeapFine, Record
<1>2. Len(kids) \in Nat /\ DOMAIN kids = 1..Len(kids) /\ <<key, payload>> \in Seq(Obj) /\ <<>> \in Seq(Ref)
  BY LenProperties
<1>3. \A o \in Obj : /\ Free(heap, o) \in Int /\ CountIn(o, kids) \in Nat
                     /\ One(key, o) \in Int /\ One(payload, o) \in Int
  BY SoundTypes, CountType, OnePlace
<1>4. ASSUME NEW ks \in Seq(Obj), heap' = Filled(heap, d, ks), Len(ks) % 2 = 0
      PROVE  /\ HeapFine(heap') /\ GentleBut(heap, heap', d) /\ heap'[d].kind # "unused"
             /\ Len(heap'[d].kids) % 2 = 0
             /\ \A o \in Obj : Free(heap', o) = Free(heap, o) + CountIn(o, kids) - CountIn(o, ks)
  BY <1>1, <1>4, FillFacts
<1>5. ASSUME heap' = [heap EXCEPT ![d].kids = @ \o <<key, payload>>], UNCHANGED pending
      PROVE  /\ HeapFine(heap') /\ GentleBut(heap, heap', d) /\ heap'[d].kind # "unused"
             /\ Len(heap'[d].kids) % 2 = 0 /\ pending' \in Seq(Ref)
             /\ \A o \in Obj : Free(heap', o) = Free(heap, o) + CountIn(o, pending') - One(key, o) - One(payload, o)
  <2>1. PICK two \in Seq(Obj) : two = <<key, payload>> /\ Len(two) = 2
    BY <1>2
  <2>2. kids \o two \in Seq(Obj) /\ Len(kids \o two) = Len(kids) + Len(two)
    BY ConcatProperties
  <2>3. PICK ks \in Seq(Obj) : ks = kids \o two
    BY <2>2
  <2>4. heap' = Filled(heap, d, ks)
    BY <1>1, <1>5, <2>1, <2>3 DEF Filled
  <2>5. Len(ks) % 2 = 0
    <3>1. Len(kids) % 2 = 0 /\ Len(ks) = Len(kids) + 2
      BY <1>1, <2>1, <2>2, <2>3
    <3>. QED
      BY <1>2, <3>1, Pairs
  <2>6. ASSUME NEW o \in Obj PROVE CountIn(o, ks) = CountIn(o, kids) + (One(key, o) + One(payload, o))
    <3>1. CountIn(o, kids \o two) = CountIn(o, kids) + CountIn(o, two)
      BY CountConcat
    <3>2. CountIn(o, two) = One(key, o) + One(payload, o)
      BY <2>1, ShortCounts DEF Ref
    <3>. QED
      BY <2>3, <3>1, <3>2
  <2>7. /\ HeapFine(heap') /\ GentleBut(heap, heap', d) /\ heap'[d].kind # "unused"
        /\ Len(heap'[d].kids) % 2 = 0
        /\ \A o \in Obj : Free(heap', o) = Free(heap, o) + CountIn(o, kids) - CountIn(o, ks)
    BY <1>4, <2>4, <2>5
  <2>8. pending' = <<>>
    BY <1>5
  <2>9. ASSUME NEW o \in Obj
        PROVE  Free(heap', o) = Free(heap, o) + CountIn(o, pending') - One(key, o) - One(payload, o)
    <3>1. CountIn(o, pending') = 0
      BY <2>8, CountEmpty
    <3>2. /\ Free(heap', o) = Free(heap, o) + CountIn(o, kids) - CountIn(o, ks)
          /\ CountIn(o, ks) = CountIn(o, kids) + (One(key, o) + One(payload, o))
      BY <2>6, <2>7
    <3>3. Free(heap, o) \in Int /\ CountIn(o, kids) \in Int /\ One(key, o) \in Int /\ One(payload, o) \in Int
      BY <1>3
    <3>. QED
      BY <3>1, <3>2, <3>3
  <2>. QED
    BY <1>2, <2>7, <2>8, <2>9
<1>6. ASSUME NEW i \in DOMAIN kids, i % 2 = 1, heap' = [heap EXCEPT ![d].kids[i + 1] = payload],
             pending' = <<kids[i + 1], key>>
      PROVE  /\ HeapFine(heap') /\ GentleBut(heap, heap', d) /\ heap'[d].kind # "unused"
             /\ Len(heap'[d].kids) % 2 = 0 /\ pending' \in Seq(Ref)
             /\ \A o \in Obj : Free(heap', o) = Free(heap, o) + CountIn(o, pending') - One(key, o) - One(payload, o)
  <2>1. i + 1 \in 1..Len(kids)
    <3>1. Len(kids) % 2 = 0 /\ i \in 1..Len(kids)
      BY <1>1, <1>2
    <3>. QED
      BY <1>2, <1>6, <3>1, Pairs
  <2>2. PICK j \in 1..Len(kids) : j = i + 1
    BY <2>1
  <2>. DEFINE ks == [kids EXCEPT ![j] = payload]
  <2>3. /\ ks \in Seq(Obj) /\ Len(ks) = Len(kids) /\ DOMAIN ks = 1..Len(kids)
        /\ ks[j] = payload /\ \A u \in 1..Len(kids) \ {j} : ks[u] = kids[u]
    BY <1>2, ExceptSeq
  <2>4. heap' = Filled(heap, d, ks)
    BY <1>1, <1>6, <2>2 DEF Filled
  <2>. HIDE DEF ks
  <2>5. Len(ks) % 2 = 0
    BY <1>1, <2>3
  <2>6. kids[j] \in Obj /\ pending' = <<kids[j], key>>
    BY <1>2, <1>6, <2>2
  <2>7. pending' \in Seq(Ref) /\ \A o \in Obj : CountIn(o, pending') = One(kids[j], o) + One(key, o)
    BY <2>6, ShortSeqs, ShortCounts DEF Ref
  <2>8. ASSUME NEW o \in Obj PROVE CountIn(o, ks) = CountIn(o, kids) - One(kids[j], o) + One(payload, o)
    <3>1. PICK D : D = 1..Len(kids)
      OBVIOUS
    <3>2. IsFiniteSet(D) /\ j \in D
      <4>1. PICK n \in Nat : n = Len(kids)
        BY <1>2, LenProperties
      <4>2. IsFiniteSet(1..n)
        BY FS_Interval
      <4>. QED
        BY <3>1, <4>1, <4>2
    <3>4. kids \in [D -> Obj]
      BY <1>2, <3>1, LenProperties
    <3>3. DOMAIN ks = D /\ ks[j] = payload /\ \A u \in D \ {j} : ks[u] = kids[u]
      BY <2>3, <3>1
    <3>. QED
      BY <3>2, <3>3, <3>4, CountReplace
  <2>9. /\ HeapFine(heap') /\ GentleBut(heap, heap', d) /\ heap'[d].kind # "unused"
        /\ Len(heap'[d].kids) % 2 = 0
        /\ \A o \in Obj : Free(heap', o) = Free(heap, o) + CountIn(o, kids) - CountIn(o, ks)
    BY <1>4, <2>3, <2>4, <2>5
  <2>10. ASSUME NEW o \in Obj
         PROVE  Free(heap', o) = Free(heap, o) + CountIn(o, pending') - One(key, o) - One(payload, o)
    <3>1. /\ Free(heap', o) = Free(heap, o) + CountIn(o, kids) - CountIn(o, ks)
          /\ CountIn(o, ks) = CountIn(o, kids) - One(kids[j], o) + One(payload, o)
          /\ CountIn(o, pending') = One(kids[j], o) + One(key, o)
      BY <2>7, <2>8, <2>9
    <3>2. /\ Free(heap, o) \in Int /\ CountIn(o, kids) \in Int /\ One(key, o) \in Int /\ One(payload, o) \in Int
          /\ One(kids[j], o) \in Int
      BY <1>3 DEF One
    <3>. QED
      BY <3>1, <3>2
  <2>. QED
    BY <2>7, <2>9, <2>10
<1>. QED
  BY <1>1, <1>5, <1>6 DEF SetItem

LEMMA DictEntrySound == Sound /\ Next /\ DictEntry => Sound'
<1> SUFFICES ASSUME Sound, Next, DictEntry PROVE Sound'
  OBVIOUS
<1>. DEFINE f == Frame("dict", Top.obj, NULL, Top.left - 1)
<1>1. /\ Returned({"key"}) /\ pending = <<>> /\ stack # <<>> /\ Top.op = "key"
      /\ val # NULL /\ Top.tmp # NULL
      /\ Continue(f) /\ UNCHANGED surplus /\ surplus' \in [Obj -> Int] /\ UnchangedMap
  BY DEF DictEntry, Returned, Running, EntryAccepted, Sound, Shape
<1>2. SetItem(Top.obj, val, Top.tmp)
  BY DEF DictEntry
<1>3. /\ Top.obj \in Obj /\ Top.obj # NULL /\ Top.tmp \in Obj /\ val \in Obj /\ heap[Top.obj].kind # "unused" /\ Top.left > 0
      /\ Top.left \in 0..MaxItems /\ Len(heap[Top.obj].kids) % 2 = 0
  <2>1. Top \in FrameSet /\ FrameOK(heap, Top)
    BY <1>1, TopFacts
  <2>2. val \in Obj
    BY <1>1 DEF Sound, Shape, Ref
  <2>. QED
    BY <1>1, <2>1, <2>2 DEF FrameOK, NoObject, InDict, FrameSet, Ref
<1>4. /\ HeapFine(heap') /\ GentleBut(heap, heap', Top.obj) /\ heap'[Top.obj].kind # "unused"
      /\ Len(heap'[Top.obj].kids) % 2 = 0 /\ pending' \in Seq(Ref)
      /\ \A o \in Obj : Free(heap', o) = Free(heap, o) + CountIn(o, pending') - One(val, o) - One(Top.tmp, o)
  BY <1>1, <1>2, <1>3, SetItemFacts
<1>5. f \in FrameSet /\ f.op = "dict" /\ f.obj = Top.obj /\ f.tmp = NULL
  BY <1>3, BoundsAssumption DEF Frame, FrameSet, FrameOp, Ref
<1>. HIDE DEF f
<1>6. FrameOK(heap', f) /\ ~Nested(f)
  BY <1>3, <1>4, <1>5 DEF FrameOK, NoObject, NoArgument, InDict, Nested
<1>7. ASSUME NEW o \in Obj
      PROVE  Free(heap', o) = Free(heap, o) + CountIn(o, pending') + surplus'[o] - surplus[o]
                              - Held(Top, o) + Held(f, o) - One(val, o)
  <2>1. Held(Top, o) = One(Top.obj, o) + One(Top.tmp, o) /\ Held(f, o) = One(Top.obj, o)
    BY <1>5, OnePlace DEF Held
  <2>2. /\ Free(heap, o) \in Int /\ surplus[o] \in Int /\ One(Top.obj, o) \in Int /\ One(Top.tmp, o) \in Int
        /\ One(val, o) \in Int /\ CountIn(o, pending') \in Int
    BY <1>4, SoundTypes, OnePlace, CountType
  <2>. QED
    BY <1>1, <1>4, <2>1, <2>2
<1>. QED
  BY <1>1, <1>4, <1>5, <1>6, <1>7, ContinuesSound

LEMMA DirDictValueSound == Sound /\ Next /\ DirDictValue => Sound'
<1> SUFFICES ASSUME Sound, Next, DirDictValue PROVE Sound'
  OBVIOUS
<1>0. CASE Undefined
  <2>1. ops' \in 0..MaxOps
    BY DEF DirDictValue, Returned, Sound, Shape
  <2>. QED
    BY <1>0, <2>1, UndefinedSound
<1> SUFFICES ASSUME ~Undefined PROVE Sound'
  BY <1>0
<1>. DEFINE f == Frame("dictitr", Top.obj, NULL, 0)
<1>1. /\ Returned({"dictvalue"}) /\ pending = <<>> /\ stack # <<>> /\ Top.op = "dictvalue"
      /\ val # NULL
      /\ Continue(f) /\ UNCHANGED surplus /\ surplus' \in [Obj -> Int] /\ UnchangedMap
  BY DEF DirDictValue, Returned, Running, Sound, Shape
<1>2. SetItem(Top.obj, Top.tmp, val)
  BY DEF DirDictValue
<1>3. /\ Top.obj \in Obj /\ Top.obj # NULL /\ Top.tmp \in Obj /\ val \in Obj /\ heap[Top.obj].kind # "unused"
      /\ Len(heap[Top.obj].kids) % 2 = 0
  <2>1. Top \in FrameSet /\ FrameOK(heap, Top)
    BY <1>1, TopFacts
  <2>2. val \in Obj
    BY <1>1 DEF Sound, Shape, Ref
  <2>. QED
    BY <1>1, <2>1, <2>2 DEF FrameOK, NoObject, InDict, FrameSet, Ref
<1>4. /\ HeapFine(heap') /\ GentleBut(heap, heap', Top.obj) /\ heap'[Top.obj].kind # "unused"
      /\ Len(heap'[Top.obj].kids) % 2 = 0 /\ pending' \in Seq(Ref)
      /\ \A o \in Obj : Free(heap', o) = Free(heap, o) + CountIn(o, pending') - One(Top.tmp, o) - One(val, o)
  BY <1>1, <1>2, <1>3, SetItemFacts
<1>5. f \in FrameSet /\ f.op = "dictitr" /\ f.obj = Top.obj /\ f.tmp = NULL
  BY <1>3, BoundsAssumption DEF Frame, FrameSet, FrameOp, Ref
<1>. HIDE DEF f
<1>6. FrameOK(heap', f) /\ Nested(Top)
  BY <1>1, <1>3, <1>4, <1>5 DEF FrameOK, NoObject, NoArgument, InDict, Nested
<1>7. ASSUME NEW o \in Obj
      PROVE  Free(heap', o) = Free(heap, o) + CountIn(o, pending') + surplus'[o] - surplus[o]
                              - Held(Top, o) + Held(f, o) - One(val, o)
  <2>1. Held(Top, o) = One(Top.obj, o) + One(Top.tmp, o) /\ Held(f, o) = One(Top.obj, o)
    BY <1>5, OnePlace DEF Held
  <2>2. /\ Free(heap, o) \in Int /\ surplus[o] \in Int /\ One(Top.obj, o) \in Int /\ One(Top.tmp, o) \in Int
        /\ One(val, o) \in Int /\ CountIn(o, pending') \in Int
    BY <1>4, SoundTypes, OnePlace, CountType
  <2>. QED
    BY <1>1, <1>4, <2>1, <2>2
<1>. QED
  BY <1>1, <1>4, <1>5, <1>6, <1>7, ContinuesSound

-----------------------------------------------------------------------------
LEMMA DictPayloadSound == Sound /\ Next /\ DictPayload => Sound'
<1> SUFFICES ASSUME Sound, Next, DictPayload PROVE Sound'
  OBVIOUS
<1>. DEFINE f == Frame("key", Top.obj, val, Top.left)
<1>1. /\ Returned({"dict"}) /\ pending = <<>> /\ stack # <<>> /\ Top.op = "dict" /\ ~reading
      /\ Continue(f) /\ UNCHANGED <<heap, pending, surplus>> /\ UnchangedMap
      /\ surplus' \in [Obj -> Int] /\ pending' \in Seq(Ref)
  BY DEF DictPayload, Returned, Running, UnchangedHeap, heapVars, Sound, Shape
<1>2. Top \in FrameSet /\ FrameOK(heap, Top) /\ Top.tmp = NULL /\ Top.left > 0 /\ val \in Ref
  BY <1>1, TopFacts DEF FrameOK, NoArgument, Waits, Sound, Shape
<1>3. HeapFine(heap') /\ Gentle(heap, heap')
  BY <1>1, SameHeap
<1>4. f \in FrameSet /\ f.op = "key" /\ f.obj = Top.obj /\ f.tmp = val /\ f.left = Top.left
  BY <1>2 DEF Frame, FrameSet, FrameOp
<1>. HIDE DEF f
<1>5. FrameOK(heap', f) /\ ~Nested(f)
  BY <1>1, <1>2, <1>4 DEF FrameOK, NoObject, NoArgument, InDict, Nested
<1>6. ASSUME NEW o \in Obj
      PROVE  Free(heap', o) = Free(heap, o) + CountIn(o, pending') + surplus'[o] - surplus[o]
                              - Held(Top, o) + Held(f, o) - One(val, o)
  <2>1. Held(Top, o) = One(Top.obj, o) /\ Held(f, o) = One(Top.obj, o) + One(val, o)
    BY <1>2, <1>4, OnePlace DEF Held
  <2>2. /\ Free(heap, o) \in Int /\ surplus[o] \in Int /\ One(Top.obj, o) \in Int
        /\ One(val, o) \in Int /\ CountIn(o, pending') = 0 /\ Free(heap', o) = Free(heap, o)
    BY <1>1, SoundTypes, OnePlace
  <2>. QED
    BY <1>1, <2>1, <2>2
<1>. QED
  BY <1>1, <1>3, <1>4, <1>5, <1>6, ContinuesSound

LEMMA DirDictKeySound == Sound /\ Next /\ DirDictKey => Sound'
<1> SUFFICES ASSUME Sound, Next, DirDictKey PROVE Sound'
  OBVIOUS
<1>. DEFINE f == Frame("dictvalue", Top.obj, val, 0)
<1>1. /\ Returned({"dictitr"}) /\ pending = <<>> /\ stack # <<>> /\ Top.op = "dictitr" /\ val # NULL
      /\ Continue(f) /\ UNCHANGED <<heap, pending, surplus>> /\ UnchangedMap
      /\ surplus' \in [Obj -> Int] /\ pending' \in Seq(Ref)
  BY DEF DirDictKey, Returned, Running, UnchangedHeap, heapVars, Sound, Shape
<1>2. Top \in FrameSet /\ FrameOK(heap, Top) /\ Top.tmp = NULL /\ val \in Ref
  BY <1>1, TopFacts DEF FrameOK, NoArgument, Sound, Shape
<1>3. HeapFine(heap') /\ Gentle(heap, heap')
  BY <1>1, SameHeap
<1>4. f \in FrameSet /\ f.op = "dictvalue" /\ f.obj = Top.obj /\ f.tmp = val
  BY <1>2, BoundsAssumption DEF Frame, FrameSet, FrameOp
<1>. HIDE DEF f
<1>5. FrameOK(heap', f) /\ Nested(Top)
  BY <1>1, <1>2, <1>4 DEF FrameOK, NoObject, NoArgument, InDict, Nested
<1>6. ASSUME NEW o \in Obj
      PROVE  Free(heap', o) = Free(heap, o) + CountIn(o, pending') + surplus'[o] - surplus[o]
                              - Held(Top, o) + Held(f, o) - One(val, o)
  <2>1. Held(Top, o) = One(Top.obj, o) /\ Held(f, o) = One(Top.obj, o) + One(val, o)
    BY <1>2, <1>4, OnePlace DEF Held
  <2>2. /\ Free(heap, o) \in Int /\ surplus[o] \in Int /\ One(Top.obj, o) \in Int
        /\ One(val, o) \in Int /\ CountIn(o, pending') = 0 /\ Free(heap', o) = Free(heap, o)
    BY <1>1, SoundTypes, OnePlace
  <2>. QED
    BY <1>1, <2>1, <2>2
<1>. QED
  BY <1>1, <1>3, <1>4, <1>5, <1>6, ContinuesSound

(* Containers that take references of their own to what they are given. *)
LEMMA FillAndInc ==
  ASSUME NEW h, HeapFine(h), NEW p \in Obj, h[p].kind # "unused", NEW ks \in Seq(Obj),
         NEW s \in Seq(Obj), \A i \in DOMAIN s : h[s[i]].kind \notin {"unused", "freed"}, NEW g
  PROVE  g = IncRefs(Filled(h, p, ks), s) =>
         /\ HeapFine(g) /\ GentleBut(h, g, p)
         /\ \A o \in Obj : Free(g, o) = Free(h, o) + CountIn(o, h[p].kids) - CountIn(o, ks) + CountIn(o, s)
<1>1. PICK m : m = Filled(h, p, ks)
  OBVIOUS
<1>2. /\ HeapFine(m) /\ Grows(h, m) /\ (\A q \in Obj \ {p} : m[q] = h[q])
      /\ m[p].kids = ks /\ (\A q \in Obj : m[q].kind = h[q].kind)
      /\ \A o \in Obj : Free(m, o) = Free(h, o) + CountIn(o, h[p].kids) - CountIn(o, ks)
  BY <1>1, HeapKids
<1>3. \A i \in DOMAIN s : m[s[i]].kind \notin {"unused", "freed"}
  BY <1>2
<1>4. g = IncRefs(m, s) =>
         /\ HeapFine(g) /\ Grows(m, g) /\ (\A q \in Obj : g[q].kids = m[q].kids /\ g[q].kind = m[q].kind)
         /\ \A o \in Obj : Free(g, o) = Free(m, o) + CountIn(o, s)
  BY <1>2, <1>3, HeapInc
<1>5. ASSUME /\ HeapFine(g) /\ Grows(m, g) /\ (\A q \in Obj : g[q].kids = m[q].kids /\ g[q].kind = m[q].kind)
             /\ \A o \in Obj : Free(g, o) = Free(m, o) + CountIn(o, s)
      PROVE  /\ HeapFine(g) /\ GentleBut(h, g, p)
             /\ \A o \in Obj : Free(g, o) = Free(h, o) + CountIn(o, h[p].kids) - CountIn(o, ks) + CountIn(o, s)
  <2>1. GentleBut(h, g, p)
    BY <1>2, <1>5 DEF GentleBut, Grows
  <2>2. ASSUME NEW o \in Obj
        PROVE  Free(g, o) = Free(h, o) + CountIn(o, h[p].kids) - CountIn(o, ks) + CountIn(o, s)
    <3>1. Free(g, o) = Free(m, o) + CountIn(o, s)
      BY <1>5
    <3>2. Free(m, o) = Free(h, o) + CountIn(o, h[p].kids) - CountIn(o, ks)
      BY <1>2
    <3>. QED
      BY <3>1, <3>2
  <2>. QED
    BY <1>5, <2>1, <2>2
<1>. QED
  BY <1>1, <1>4, <1>5

LEMMA NewAndInc ==
  ASSUME Sound, HasRoom, NEW e \in Record, e.kind \notin {"unused", "freed"}, e.refcnt = 1,
         \A i \in DOMAIN e.kids : heap[e.kids[i]].kind \notin {"unused", "freed"}, NEW g
  PROVE  g = IncRefs(Allocated(heap, Fresh, e), e.kids) =>
         /\ HeapFine(g) /\ Gentle(heap, g) /\ g[Fresh].kind # "unused"
         /\ \A o \in Obj : Free(g, o) = Free(heap, o) + One(Fresh, o)
<1>0. PICK p : p = Fresh
  OBVIOUS
<1>1. p \in Obj /\ heap[p].kind = "unused" /\ HeapFine(heap) /\ e.kids \in Seq(Obj)
  BY <1>0, FreshFacts DEF Sound, Shape, Record
<1>2. PICK m : m = Allocated(heap, p, e)
  OBVIOUS
<1>3. /\ HeapFine(m) /\ Grows(heap, m) /\ (\A q \in Obj \ {p} : m[q] = heap[q]) /\ m[p] = e
      /\ \A o \in Obj : Free(m, o) = Free(heap, o) + e.refcnt * One(p, o) - CountIn(o, e.kids)
  BY <1>1, <1>2, HeapNew
<1>4. PICK s \in Seq(Obj) : s = e.kids
  BY <1>1
<1>5. \A i \in DOMAIN s : m[s[i]].kind \notin {"unused", "freed"}
  <2>1. \A i \in DOMAIN s : s[i] \in Obj
    BY <1>4
  <2>. QED
    BY <1>1, <1>3, <1>4, <2>1
<1>6. g = IncRefs(m, s) =>
         /\ HeapFine(g) /\ Grows(m, g) /\ (\A q \in Obj : g[q].kids = m[q].kids /\ g[q].kind = m[q].kind)
         /\ \A o \in Obj : Free(g, o) = Free(m, o) + CountIn(o, s)
  BY <1>3, <1>5, HeapInc
<1>7. ASSUME /\ HeapFine(g) /\ Grows(m, g) /\ (\A q \in Obj : g[q].kids = m[q].kids /\ g[q].kind = m[q].kind)
             /\ \A o \in Obj : Free(g, o) = Free(m, o) + CountIn(o, s)
      PROVE  /\ HeapFine(g) /\ Gentle(heap, g) /\ g[p].kind # "unused"
             /\ \A o \in Obj : Free(g, o) = Free(heap, o) + One(p, o)
  <2>1. Gentle(heap, g) /\ g[p].kind # "unused"
    BY <1>1, <1>3, <1>7 DEF Gentle, Grows
  <2>2. ASSUME NEW o \in Obj PROVE Free(g, o) = Free(heap, o) + One(p, o)
    <3>1. Free(g, o) = Free(m, o) + CountIn(o, s)
      BY <1>7
    <3>2. Free(m, o) = Free(heap, o) + e.refcnt * One(p, o) - CountIn(o, s)
      BY <1>3, <1>4
    <3>3. Free(heap, o) \in Int /\ CountIn(o, s) \in Int /\ One(p, o) \in 0..1
      BY SoundTypes, CountType, OnePlace
    <3>4. e.refcnt * One(p, o) = One(p, o)
      BY <3>3
    <3>. QED
      BY <3>1, <3>2, <3>3, <3>4
  <2>. QED
    BY <1>7, <2>1, <2>2
<1>. QED
  BY <1>0, <1>2, <1>4, <1>6, <1>7

LEMMA DirListItemSound == Sound /\ Next /\ DirListItem => Sound'
<1> SUFFICES ASSUME Sound, Next, DirListItem PROVE Sound'
  OBVIOUS
<1>0. CASE Undefined
  <2>1. ops' \in 0..MaxOps
    BY DEF DirListItem, Returned, Sound, Shape
  <2>. QED
    BY <1>0, <2>1, UndefinedSound
<1> SUFFICES ASSUME ~Undefined PROVE Sound'
  BY <1>0
<1>1. /\ Returned({"listitr"}) /\ pending = <<>> /\ stack # <<>> /\ Top.op = "listitr" /\ val # NULL
      /\ surplus' = Abandon(surplus, <<val>>) /\ Continue(Top) /\ UNCHANGED pending /\ UnchangedMap
      /\ pending' \in Seq(Ref) /\ surplus \in [Obj -> Int] /\ Live(val) /\ val \in Obj /\ val \in Ref
  BY DEF DirListItem, Returned, Running, Sound, Shape, Ref
<1>2. heap' = IncRefs(Filled(heap, Top.obj, Append(heap[Top.obj].kids, val)), <<val>>)
  BY DEF DirListItem, ListAdd, Filled
<1>3. /\ Top \in FrameSet /\ FrameOK(heap, Top) /\ Top.obj \in Obj /\ heap[Top.obj].kind # "unused" /\ HeapFine(heap)
      /\ Nested(Top) /\ Top.op \notin InDict /\ Top.op # "bases" /\ Top.op # "key"
  BY <1>1, TopFacts DEF FrameOK, NoObject, Ref, Nested, InDict, Sound, Shape
<1>4. /\ HeapFine(heap') /\ GentleBut(heap, heap', Top.obj)
      /\ \A o \in Obj : Free(heap', o) = Free(heap, o)
  <2>1. PICK kids \in Seq(Obj) : kids = heap[Top.obj].kids
    BY <1>3 DEF HeapFine, Record
  <2>2. Append(kids, val) \in Seq(Obj) /\ <<val>> \in Seq(Obj) /\ \A i \in DOMAIN <<val>> : <<val>>[i] = val
    BY <1>1, AppendProperties
  <2>3. PICK ks \in Seq(Obj) : ks = Append(kids, val)
    BY <2>2
  <2>4. PICK s \in Seq(Obj) : s = <<val>> /\ \A i \in DOMAIN s : s[i] = val
    BY <2>2
  <2>5. \A i \in DOMAIN s : heap[s[i]].kind \notin {"unused", "freed"}
    BY <1>1, <2>4 DEF Live
  <2>6. heap' = IncRefs(Filled(heap, Top.obj, ks), s)
    BY <1>2, <2>1, <2>3, <2>4
  <2>7. PICK p \in Obj : p = Top.obj
    BY <1>3
  <2>8. /\ HeapFine(heap') /\ GentleBut(heap, heap', p)
        /\ \A o \in Obj : Free(heap', o) = Free(heap, o) + CountIn(o, heap[p].kids) - CountIn(o, ks) + CountIn(o, s)
    BY <1>3, <2>5, <2>6, <2>7, FillAndInc
  <2>9. ASSUME NEW o \in Obj PROVE Free(heap', o) = Free(heap, o)
    <3>1. Free(heap', o) = Free(heap, o) + CountIn(o, kids) - CountIn(o, ks) + CountIn(o, s)
      BY <2>1, <2>7, <2>8
    <3>2. CountIn(o, ks) = CountIn(o, kids) + One(val, o)
      BY <1>1, <2>3, CountAppend
    <3>3. CountIn(o, s) = One(val, o)
      <4>1. CountIn(o, <<val>>) = One(val, o)
        BY <1>1, ShortCounts
      <4>. QED
        BY <2>4, <4>1
    <3>4. Free(heap, o) \in Int /\ CountIn(o, kids) \in Int /\ One(val, o) \in Int
      BY SoundTypes, CountType, OnePlace
    <3>. QED
      BY <3>1, <3>2, <3>3, <3>4
  <2>. QED
    BY <2>7, <2>8, <2>9
<1>5. FrameOK(heap', Top)
  BY <1>3, <1>4 DEF FrameOK, GentleBut, Grows
<1>6. surplus' \in [Obj -> Int] /\ \A o \in Obj : surplus'[o] = surplus[o] + One(val, o)
  <2>1. <<val>> \in Seq(Ref) /\ \A o \in Obj : CountIn(o, <<val>>) = One(val, o)
    BY <1>1, ShortSeqs, ShortCounts
  <2>2. PICK s \in Seq(Ref) : s = <<val>>
    BY <2>1
  <2>3. surplus' = Abandon(surplus, s) /\ \A o \in Obj : CountIn(o, s) = One(val, o)
    BY <1>1, <2>1, <2>2
  <2>. QED
    BY <1>1, <2>3, Abandons
<1>7. PICK f \in FrameSet : f = Top
  BY <1>3
<1>8. ASSUME NEW o \in Obj
      PROVE  Free(heap', o) = Free(heap, o) + CountIn(o, pending') + surplus'[o] - surplus[o]
                              - Held(Top, o) + Held(f, o) - One(val, o)
  <2>1. /\ Free(heap, o) \in Int /\ surplus[o] \in Int /\ Held(Top, o) \in Int /\ Held(f, o) = Held(Top, o)
        /\ One(val, o) \in Int /\ CountIn(o, pending') = 0
    BY <1>1, <1>7, SoundTypes, OnePlace, TopFacts
  <2>2. Free(heap', o) = Free(heap, o) /\ surplus'[o] = surplus[o] + One(val, o)
    BY <1>4, <1>6
  <2>. QED
    BY <2>1, <2>2
<1>9. Continue(f) /\ FrameOK(heap', f) /\ f.obj = Top.obj /\ f.op = Top.op
  BY <1>1, <1>5, <1>7
<1>. QED
  BY <1>1, <1>3, <1>4, <1>6, <1>8, <1>9, ContinuesSound

LEMMA DirStartSound == Sound /\ Next /\ DirStart => Sound'
<1> SUFFICES ASSUME Sound, Next, DirStart PROVE Sound'
  OBVIOUS
<1>. DEFINE op == IF Top.op = "dirlist" THEN "listitr" ELSE "dictitr"
            f == Frame(op, Fresh, NULL, 0)
<1>1. /\ Running /\ reading /\ HasRoom /\ stack # <<>> /\ Top.op \in {"dirlist", "dirdict"}
      /\ heap' = Allocated(heap, Fresh, NewObject(DirKind, 0, "none", 1))
      /\ Descend(f) /\ UNCHANGED <<pending, surplus, ops>> /\ UnchangedMap
  BY DEF DirStart, Allocated
<1>2. /\ Fresh \in Obj /\ Fresh # NULL /\ Own(stack, Fresh) /\ NULL \in Ref /\ Fresh \in Ref
      /\ DirKind \in Kind \ {"unused", "freed"} /\ 0 \in Nat /\ "none" \in AllClasses \cup {"none"}
      /\ surplus \in [Obj -> Int] /\ phase = "load" /\ pending = <<>> /\ pending \in Seq(Ref)
  BY <1>1, FreshFacts DEF DirKind, Kind, Ref, Sound, Shape, Running
<1>3. Waits(Top) /\ op \in {"listitr", "dictitr"}
  BY <1>1 DEF Waits
<1>4. /\ f \in FrameSet /\ f.obj = Fresh /\ f.tmp = NULL /\ f.op = op
      /\ SitsOn(f, Top)
  BY <1>1, <1>2, <1>3, BoundsAssumption DEF FrameSet, Frame, FrameOp, Nested, SitsOn
<1>. HIDE DEF f, op
<1>5. /\ HeapFine(heap') /\ Gentle(heap, heap') /\ heap'[Fresh].kind # "unused" /\ heap'[Fresh].kids = <<>>
      /\ \A o \in Obj : Free(heap', o) = Free(heap, o) + 1 * One(Fresh, o)
  <2>1. PICK r \in Nat : r = 1
    OBVIOUS
  <2>2. PICK k \in Kind \ {"unused", "freed"} : k = DirKind
    BY <1>2
  <2>3. heap' = Allocated(heap, Fresh, NewObject(k, 0, "none", r))
    BY <1>1, <2>1, <2>2
  <2>4. /\ HeapFine(heap') /\ Gentle(heap, heap') /\ heap'[Fresh].kind # "unused" /\ heap'[Fresh].kids = <<>>
        /\ \A o \in Obj : Free(heap', o) = Free(heap, o) + r * One(Fresh, o)
    BY <1>1, <1>2, <2>3, FreshObject
  <2>. QED
    BY <2>1, <2>4
<1>6. FrameOK(heap', f)
  <2>1. Len(<<>>) % 2 = 0
    OBVIOUS
  <2>. QED
    BY <1>2, <1>3, <1>4, <1>5, <2>1 DEF FrameOK, NoObject, NoArgument
<1>7. /\ StackFine(heap', stack', reading') /\ val' = NULL /\ val = NULL /\ reading' = TRUE
      /\ failed' \in BOOLEAN /\ phase' = phase
      /\ \A o \in Obj : Inner(stack', o) = Inner(stack, o) + Held(f, o)
  BY <1>1, <1>2, <1>3, <1>4, <1>5, <1>6, DescendStep
<1>8. Shape'
  BY <1>1, <1>2, <1>5, <1>7 DEF Sound, Shape
<1>9. ASSUME NEW o \in Obj PROVE Paid(o)' = Paid(o)
  <2>1. UNCHANGED <<pending, surplus>>
    BY <1>1
  <2>2. /\ Held(f, o) = One(Fresh, o) /\ One(val', o) = 0 /\ One(val, o) = 0 /\ One(Fresh, o) \in Int
        /\ Free(heap', o) = Free(heap, o) + 1 * One(Fresh, o)
        /\ Inner(stack', o) = Inner(stack, o) + Held(f, o)
    BY <1>4, <1>5, <1>7, OnePlace DEF Held
  <2>3. Free(heap', o) = Free(heap, o) + One(Fresh, o)
    BY <2>2, SoundTypes
  <2>. QED
    BY <2>1, <2>2, <2>3, SoundTypes DEF Paid
<1>. QED
  BY <1>1, <1>8, <1>9, Assemble DEF UnchangedMap

(* The caller of ReadNewObjList or ReadNewObjDict goes on, or returns. *)
Caller == stack[Len(stack) - 1]

LEMMA CallerFacts ==
  ASSUME Sound, stack # <<>>, Top.op \in {"listitr", "dictitr"}
  PROVE  /\ Popped(stack) \in Seq(FrameSet) /\ Popped(stack) # <<>>
         /\ Popped(stack)[Len(Popped(stack))] = Caller
         /\ SubSeq(stack, 1, Len(stack) - 2) = Popped(Popped(stack))
         /\ StackFine(heap, Popped(Popped(stack)), FALSE) /\ Own(Popped(Popped(stack)), Caller.obj)
         /\ Caller \in FrameSet /\ FrameOK(heap, Caller) /\ Caller.op \in {"dirlist", "dirdict"}
         /\ Top.obj \in Obj /\ Top.obj # NULL /\ Top.tmp = NULL
         /\ \A o \in Obj : Inner(Popped(Popped(stack)), o) = Inner(stack, o) - One(Top.obj, o) - Held(Caller, o)
<1>1. stack \in Seq(FrameSet) /\ StackFine(heap, stack, reading) /\ reading \in BOOLEAN
  BY DEF Sound, Shape, StackFine
<1>2. Len(stack) > 1
  <2>1. Len(stack) \in Nat /\ Len(stack) # 0
    BY <1>1, EmptySeq, LenProperties
  <2>2. Len(stack) \in 1..Len(stack)
    BY <2>1
  <2>. QED
    BY <1>1, <2>2 DEF StackFine, Nested, Top
<1>3. /\ Popped(stack) # <<>> /\ Popped(stack)[Len(Popped(stack))] = Caller
      /\ SubSeq(stack, 1, Len(stack) - 2) = Popped(Popped(stack))
  BY <1>1, <1>2, PoppedTwice DEF Caller
<1>4. /\ StackFine(heap, Popped(stack), FALSE) /\ Popped(stack) \in Seq(FrameSet)
      /\ Popped(stack) # <<>> => SitsOn(stack[Len(stack)], Popped(stack)[Len(Popped(stack))])
  BY <1>1, FinePop
<1>5. PICK p \in Seq(FrameSet) : p = Popped(stack)
  BY <1>4
<1>6. /\ StackFine(heap, Popped(p), FALSE) /\ p[Len(p)] \in FrameSet /\ FrameOK(heap, p[Len(p)])
      /\ Own(Popped(p), p[Len(p)].obj)
  BY <1>3, <1>4, <1>5, FinePop
<1>7. p[Len(p)] = Caller /\ p # <<>>
  BY <1>3, <1>5
<1>8. Caller.op \in {"dirlist", "dirdict"}
  BY <1>3, <1>4 DEF SitsOn, Top
<1>9. Top.obj \in Obj /\ Top.obj # NULL /\ Top.tmp = NULL
  BY TopFacts DEF FrameOK, NoObject, NoArgument, Ref
<1>10. ASSUME NEW o \in Obj
       PROVE  Inner(Popped(Popped(stack)), o) = Inner(stack, o) - One(Top.obj, o) - Held(Caller, o)
  <2>1. Inner(Popped(stack), o) = Inner(stack, o) - Held(Top, o)
    BY <1>1, StackPop DEF Top
  <2>2. Inner(Popped(p), o) = Inner(p, o) - Held(p[Len(p)], o)
    BY <1>7, StackPop
  <2>3. Held(Top, o) = One(Top.obj, o)
    BY <1>9, OnePlace DEF Held
  <2>. QED
    BY <1>5, <1>7, <2>1, <2>2, <2>3
<1>. QED
  BY <1>3, <1>4, <1>5, <1>6, <1>7, <1>8, <1>9, <1>10

LEMMA DirNextSound ==
  ASSUME Sound, Next, Running, stack # <<>>, Top.op \in {"listitr", "dictitr"}, val = NULL,
         DirNext(Caller), UnchangedMap, ops' \in 0..MaxOps, surplus' \in [Obj -> Int], HeapFine(heap'),
         Gentle(heap, heap') \/ GentleBut(heap, heap', Caller.obj),
         \A o \in Obj : Free(heap', o) = Free(heap, o) + surplus'[o] - surplus[o] - One(Top.obj, o)
  PROVE  Sound'
<1>1. phase = "load" /\ pending = <<>> /\ pending \in Seq(Ref) /\ failed \in BOOLEAN /\ NULL \in Ref
  BY DEF Running, Sound, Shape, Ref
<1>2. PICK q : q = Popped(Popped(stack))
  OBVIOUS
<1>3. /\ SubSeq(stack, 1, Len(stack) - 2) = q
      /\ StackFine(heap, q, FALSE) /\ Own(q, Caller.obj) /\ q \in Seq(FrameSet)
      /\ Caller \in FrameSet /\ FrameOK(heap, Caller) /\ Caller.op \in {"dirlist", "dirdict"}
      /\ \A o \in Obj : Inner(q, o) = Inner(stack, o) - One(Top.obj, o) - Held(Caller, o)
  BY <1>2, CallerFacts DEF StackFine
<1>4. StackFine(heap', q, FALSE)
  BY <1>3, FineGentle
<1>5. \A o \in Obj : /\ Free(heap, o) \in Int /\ CountIn(o, pending) = 0 /\ surplus[o] \in Int /\ Inner(stack, o) \in Int
                     /\ One(val, o) = 0 /\ One(Top.obj, o) \in Int /\ surplus'[o] \in Int
                     /\ Held(Caller, o) = One(Caller.obj, o) + One(Caller.tmp, o)
                     /\ One(Caller.obj, o) \in Int /\ One(Caller.tmp, o) \in Int /\ Inner(q, o) \in Int
  BY <1>1, <1>3, SoundTypes, OnePlace, InnerType DEF Held
<1>6. CASE Caller.op = "dirlist"
  <2>. DEFINE f == [Caller EXCEPT !.op = "dirdict"]
  <2>1. stack' = Append(q, f) /\ reading' = TRUE /\ val' = NULL /\ UNCHANGED <<phase, failed, pending>>
    BY <1>3, <1>6 DEF DirNext
  <2>2. f \in FrameSet /\ f.op = "dirdict" /\ f.obj = Caller.obj /\ f.tmp = Caller.tmp
    BY <1>3 DEF FrameSet, FrameOp
  <2>. HIDE DEF f
  <2>3. FrameOK(heap', f) /\ ~Nested(f) /\ (q # <<>> => SitsOn(f, q[Len(q)]))
    <3>1. f.obj # NULL => heap'[f.obj].kind # "unused"
      <4>1. f.obj # NULL => f.obj \in Obj /\ heap[f.obj].kind # "unused"
        BY <1>3, <2>2 DEF FrameOK, FrameSet, Ref
      <4>. QED
        BY <4>1 DEF Gentle, GentleBut, Grows
    <3>. QED
      BY <2>2, <3>1 DEF FrameOK, NoObject, NoArgument, InDict, Nested, SitsOn
  <2>4. StackFine(heap', Append(q, f), TRUE)
    BY <1>3, <1>4, <2>2, <2>3, FinePush
  <2>5. Shape'
    BY <1>1, <2>1, <2>4 DEF Sound, Shape
  <2>6. ASSUME NEW o \in Obj PROVE Paid(o)' = Paid(o)
    <3>1. Inner(Append(q, f), o) = Inner(q, o) + Held(f, o)
      BY <1>3, <2>2, StackPush
    <3>2. Held(f, o) = Held(Caller, o)
      BY <2>2 DEF Held
    <3>3. Inner(stack', o) = Inner(stack, o) - One(Top.obj, o)
      BY <1>3, <1>5, <2>1, <3>1, <3>2
    <3>4. One(val', o) = 0 /\ CountIn(o, pending') = 0
      BY <1>1, <2>1, OnePlace, CountEmpty
    <3>5. Free(heap', o) = Free(heap, o) + surplus'[o] - surplus[o] - One(Top.obj, o)
      OBVIOUS
    <3>6. /\ Free(heap, o) \in Int /\ CountIn(o, pending) = 0 /\ surplus[o] \in Int /\ Inner(stack, o) \in Int
          /\ One(val, o) = 0 /\ One(Top.obj, o) \in Int /\ surplus'[o] \in Int
      BY <1>5
    <3>. QED
      BY <3>3, <3>4, <3>5, <3>6, SMTT(60) DEF Paid
  <2>. QED
    BY <2>5, <2>6, Assemble DEF UnchangedMap
<1>7. CASE Caller.op # "dirlist"
  <2>1. stack' = q /\ pending' = <<Caller.tmp>> /\ Return(Caller.obj)
    BY <1>3, <1>7 DEF DirNext
  <2>2. Caller.tmp \in Ref /\ Caller.obj \in Ref
    BY <1>3 DEF FrameSet
  <2>3. pending' \in Seq(Ref) /\ \A o \in Obj : CountIn(o, pending') = One(Caller.tmp, o)
    BY <2>1, <2>2, ShortSeqs, ShortCounts
  <2>4. val' = Caller.obj /\ reading' = FALSE /\ failed' \in BOOLEAN /\ phase' = phase
    BY <1>1, <2>1 DEF Return
  <2>5. Shape'
    BY <1>1, <1>4, <2>1, <2>2, <2>3, <2>4 DEF Sound, Shape
  <2>6. ASSUME NEW o \in Obj PROVE Paid(o)' = Paid(o)
    <3>1. Inner(stack', o) = Inner(stack, o) - One(Top.obj, o) - Held(Caller, o)
      BY <1>3, <2>1
    <3>2. One(val', o) = One(Caller.obj, o) /\ CountIn(o, pending') = One(Caller.tmp, o)
      BY <2>3, <2>4
    <3>5. Free(heap', o) = Free(heap, o) + surplus'[o] - surplus[o] - One(Top.obj, o)
      OBVIOUS
    <3>6. /\ Free(heap, o) \in Int /\ CountIn(o, pending) = 0 /\ surplus[o] \in Int /\ Inner(stack, o) \in Int
          /\ One(val, o) = 0 /\ One(Top.obj, o) \in Int /\ surplus'[o] \in Int
          /\ Held(Caller, o) = One(Caller.obj, o) + One(Caller.tmp, o)
          /\ One(Caller.obj, o) \in Int /\ One(Caller.tmp, o) \in Int
      BY <1>5
    <3>. QED
      BY <3>1, <3>2, <3>5, <3>6, SMTT(60) DEF Paid
  <2>. QED
    BY <2>5, <2>6, Assemble DEF UnchangedMap
<1>. QED
  BY <1>6, <1>7

LEMMA DirStopSound == Sound /\ Next /\ DirStop => Sound'
<1> SUFFICES ASSUME Sound, Next, DirStop PROVE Sound'
  OBVIOUS
<1>0. ops' \in 0..MaxOps
  BY BoundsAssumption DEF DirStop, Sound, Shape
<1>1. CASE Undefined
  BY <1>0, <1>1, UndefinedSound
<1> SUFFICES ASSUME ~Undefined PROVE Sound'
  BY <1>1
<1>2. /\ Running /\ reading /\ stack # <<>> /\ Top.op \in {"listitr", "dictitr"}
      /\ Caller.obj # NULL /\ DirNext(Caller) /\ UNCHANGED surplus /\ UnchangedMap
      /\ heap' = Filled(heap, Caller.obj, Append(heap[Caller.obj].kids, Top.obj))
  BY DEF DirStop, Caller, Filled
<1>3. val = NULL /\ surplus' \in [Obj -> Int]
  BY <1>2 DEF Sound, Shape
<1>4. Caller.obj \in Obj /\ heap[Caller.obj].kind # "unused" /\ Top.obj \in Obj
  BY <1>2, CallerFacts DEF FrameOK, FrameSet, Ref
<1>5. /\ HeapFine(heap') /\ GentleBut(heap, heap', Caller.obj)
      /\ \A o \in Obj : Free(heap', o) = Free(heap, o) - One(Top.obj, o)
  BY <1>2, <1>4, AppendFacts
<1>6. ASSUME NEW o \in Obj
      PROVE  Free(heap', o) = Free(heap, o) + surplus'[o] - surplus[o] - One(Top.obj, o)
  <2>1. Free(heap, o) \in Int /\ surplus[o] \in Int /\ One(Top.obj, o) \in Int /\ surplus'[o] = surplus[o]
    BY <1>2, SoundTypes, OnePlace
  <2>. QED
    BY <1>5, <2>1
<1>. QED
  BY <1>0, <1>2, <1>3, <1>5, <1>6, DirNextSound

LEMMA DirFailsSound == Sound /\ Next /\ DirFails => Sound'
<1> SUFFICES ASSUME Sound, Next, DirFails PROVE Sound'
  OBVIOUS
<1>1. /\ Running /\ stack # <<>> /\ Top.op \in {"listitr", "dictitr"} /\ val = NULL
      /\ surplus' = Abandon(surplus, <<Top.obj>>) /\ DirNext(Caller) /\ UNCHANGED heap /\ UnchangedMap
      /\ ops' \in 0..MaxOps /\ surplus \in [Obj -> Int]
  BY DEF DirFails, Returned, Caller, Sound, Shape
<1>2. HeapFine(heap') /\ Gentle(heap, heap') /\ Top.obj \in Ref
  BY <1>1, SameHeap, TopFacts
<1>3. surplus' \in [Obj -> Int] /\ \A o \in Obj : surplus'[o] = surplus[o] + One(Top.obj, o)
  <2>1. <<Top.obj>> \in Seq(Ref) /\ \A o \in Obj : CountIn(o, <<Top.obj>>) = One(Top.obj, o)
    BY <1>2, ShortSeqs, ShortCounts
  <2>2. PICK s \in Seq(Ref) : s = <<Top.obj>>
    BY <2>1
  <2>3. surplus' = Abandon(surplus, s) /\ \A o \in Obj : CountIn(o, s) = One(Top.obj, o)
    BY <1>1, <2>1, <2>2
  <2>. QED
    BY <1>1, <2>3, Abandons
<1>4. ASSUME NEW o \in Obj
      PROVE  Free(heap', o) = Free(heap, o) + surplus'[o] - surplus[o] - One(Top.obj, o)
  <2>1. /\ Free(heap, o) \in Int /\ surplus[o] \in Int /\ One(Top.obj, o) \in Int
        /\ Free(heap', o) = Free(heap, o) /\ surplus'[o] = surplus[o] + One(Top.obj, o)
    BY <1>1, <1>3, SoundTypes, OnePlace
  <2>. QED
    BY <2>1
<1>. QED
  BY <1>1, <1>2, <1>3, <1>4, DirNextSound

-----------------------------------------------------------------------------
LEMMA PackedRowHeaderSound == Sound /\ Next /\ PackedRowHeader => Sound'
<1> SUFFICES ASSUME Sound, Next, PackedRowHeader PROVE Sound'
  OBVIOUS
<1>0. CASE Undefined
  <2>1. ops' \in 0..MaxOps
    BY DEF PackedRowHeader, Returned, Sound, Shape
  <2>. QED
    BY <1>0, <2>1, UndefinedSound
<1> SUFFICES ASSUME ~Undefined PROVE Sound'
  BY <1>0
<1>. DEFINE e == [NewObject("row", 0, "none", 1) EXCEPT !.kids = <<val>>]
<1>1. /\ Returned({"row"}) /\ HasRoom /\ stack # <<>> /\ Top.op \in NoObject /\ UnchangedMap
      /\ pending = <<>> /\ pending \in Seq(Ref) /\ surplus \in [Obj -> Int] /\ val \in Ref /\ NULL \in Ref
      /\ HeapFine(heap)
  BY DEF PackedRowHeader, Returned, Running, Sound, Shape, Ref, NoObject
<1>2. /\ Top.obj = NULL /\ Top.tmp = NULL /\ Fresh \in Obj /\ Fresh \in Ref /\ Fresh # NULL
      /\ heap[Fresh].kind = "unused"
  BY <1>1, TopFacts, FreshFacts DEF FrameOK, NoArgument, Ref
<1>3. \A o \in Obj : /\ One(NULL, o) = 0 /\ Held(Top, o) = 0 /\ surplus[o] \in Int /\ One(val, o) \in Int
                     /\ One(Fresh, o) \in Int /\ Free(heap, o) \in Int /\ CountIn(o, pending) = 0
  BY <1>1, <1>2, SoundTypes, OnePlace DEF Held
<1>4. \/ val = NULL /\ ReturnFrom(NULL) /\ UNCHANGED <<heap, pending, surplus>>
      \/ /\ heap' = Allocated(heap, Fresh, NewObject("row", 0, "none", 1)) /\ ReturnFrom(NULL)
         /\ \/ surplus' = Abandon(surplus, <<val, Fresh>>) /\ UNCHANGED pending
            \/ pending' = <<val, Fresh>> /\ UNCHANGED surplus
      \/ /\ val # NULL /\ heap' = Allocated(heap, Fresh, e) /\ ReturnFrom(Fresh)
         /\ UNCHANGED <<pending, surplus>>
  <2>1. ASSUME NEW h, NEW o PROVE [[h EXCEPT ![o] = NewObject("row", 0, "none", 1)] EXCEPT ![o].kids = <<val>>]
                                  = Allocated(h, o, e)
    BY DEF Allocated
  <2>. HIDE DEF e
  <2>. QED
    BY <2>1, Zenon DEF PackedRowHeader, UnchangedHeap, heapVars, Allocated, Is
<1>. HIDE DEF e
<1>5. CASE val = NULL /\ ReturnFrom(NULL) /\ UNCHANGED <<heap, pending, surplus>>
  <2>1. ASSUME NEW o \in Obj
        PROVE  CountIn(o, pending') + surplus'[o] + One(NULL, o) = surplus[o] + Held(Top, o) + One(val, o)
    BY <1>3, <1>5
  <2>. QED
    BY <1>1, <1>5, <2>1, DropsSound
<1>6. ASSUME heap' = Allocated(heap, Fresh, NewObject("row", 0, "none", 1))
      PROVE  /\ HeapFine(heap') /\ Gentle(heap, heap')
             /\ \A o \in Obj : Free(heap', o) = Free(heap, o) + 1 * One(Fresh, o)
  <2>1. PICK r \in Nat : r = 1
    OBVIOUS
  <2>2. PICK k \in Kind \ {"unused", "freed"} : k = "row"
    BY DEF Kind
  <2>3. heap' = Allocated(heap, Fresh, NewObject(k, 0, "none", r)) /\ 0 \in Nat /\ "none" \in AllClasses \cup {"none"}
    BY <1>6, <2>1, <2>2
  <2>4. /\ HeapFine(heap') /\ Gentle(heap, heap')
        /\ \A o \in Obj : Free(heap', o) = Free(heap, o) + r * One(Fresh, o)
    BY <1>1, <2>3, FreshObject
  <2>. QED
    BY <2>1, <2>4
<1>7. <<val, Fresh>> \in Seq(Ref) /\ \A o \in Obj : CountIn(o, <<val, Fresh>>) = One(val, o) + One(Fresh, o)
  BY <1>1, <1>2, ShortSeqs, ShortCounts
<1>8. PICK s \in Seq(Ref) : s = <<val, Fresh>>
  BY <1>7
<1>9. \A o \in Obj : CountIn(o, s) = One(val, o) + One(Fresh, o)
  BY <1>7, <1>8
<1>10. CASE /\ heap' = Allocated(heap, Fresh, NewObject("row", 0, "none", 1)) /\ ReturnFrom(NULL)
            /\ surplus' = Abandon(surplus, <<val, Fresh>>) /\ UNCHANGED pending
  <2>1. surplus' \in [Obj -> Int] /\ \A o \in Obj : surplus'[o] = surplus[o] + CountIn(o, s)
    <3>1. surplus' = Abandon(surplus, s)
      BY <1>8, <1>10
    <3>. QED
      BY <1>1, <3>1, Abandons
  <2>2. /\ HeapFine(heap') /\ Gentle(heap, heap') /\ pending' = pending
        /\ \A o \in Obj : Free(heap', o) = Free(heap, o) + 1 * One(Fresh, o)
    BY <1>6, <1>10
  <2>3. ASSUME NEW o \in Obj
        PROVE  Free(heap', o) = Free(heap, o) + CountIn(o, pending') + surplus'[o] - surplus[o]
                                - Held(Top, o) - One(val, o) + One(NULL, o)
    <3>1. /\ Free(heap', o) = Free(heap, o) + 1 * One(Fresh, o) /\ CountIn(o, pending') = 0
          /\ surplus'[o] = surplus[o] + (One(val, o) + One(Fresh, o))
      BY <1>3, <1>9, <2>1, <2>2
    <3>2. /\ One(NULL, o) = 0 /\ Held(Top, o) = 0 /\ surplus[o] \in Int /\ One(val, o) \in Int
          /\ One(Fresh, o) \in Int /\ Free(heap, o) \in Int
      BY <1>3
    <3>. QED
      BY <3>1, <3>2
  <2>4. pending' \in Seq(Ref) /\ ReturnFrom(NULL)
    BY <1>1, <1>10
  <2>. QED
    BY <1>1, <2>1, <2>2, <2>3, <2>4, ReturnsSound
<1>11. CASE /\ heap' = Allocated(heap, Fresh, NewObject("row", 0, "none", 1)) /\ ReturnFrom(NULL)
            /\ pending' = <<val, Fresh>> /\ UNCHANGED surplus
  <2>2. /\ HeapFine(heap') /\ Gentle(heap, heap') /\ surplus' = surplus /\ pending' = s
        /\ \A o \in Obj : Free(heap', o) = Free(heap, o) + 1 * One(Fresh, o)
    BY <1>6, <1>8, <1>11
  <2>3. ASSUME NEW o \in Obj
        PROVE  Free(heap', o) = Free(heap, o) + CountIn(o, pending') + surplus'[o] - surplus[o]
                                - Held(Top, o) - One(val, o) + One(NULL, o)
    <3>1. /\ Free(heap', o) = Free(heap, o) + 1 * One(Fresh, o) /\ surplus'[o] = surplus[o]
          /\ CountIn(o, pending') = One(val, o) + One(Fresh, o)
      BY <1>3, <1>9, <2>2
    <3>2. /\ One(NULL, o) = 0 /\ Held(Top, o) = 0 /\ surplus[o] \in Int /\ One(val, o) \in Int
          /\ One(Fresh, o) \in Int /\ Free(heap, o) \in Int
      BY <1>3
    <3>. QED
      BY <3>1, <3>2
  <2>4. pending' \in Seq(Ref) /\ ReturnFrom(NULL) /\ surplus' \in [Obj -> Int]
    BY <1>1, <1>11, <2>2
  <2>. QED
    BY <1>1, <2>2, <2>3, <2>4, ReturnsSound
<1>12. CASE /\ val # NULL /\ heap' = Allocated(heap, Fresh, e) /\ ReturnFrom(Fresh)
            /\ UNCHANGED <<pending, surplus>>
  <2>1. PICK x \in Record : x = e /\ x.kids = <<val>> /\ x.refcnt = 1 /\ x.kind = "row"
    <3>1. val \in Obj
      BY <1>1, <1>12 DEF Ref
    <3>2. <<val>> \in Seq(Obj)
      BY <3>1
    <3>3. PICK ks \in Seq(Obj) : ks = <<val>>
      BY <3>2
    <3>4. e = [kind |-> "row", refcnt |-> 1, kids |-> ks, size |-> 0, cls |-> "none"]
      BY <3>3 DEF e, NewObject
    <3>5. e \in Record /\ e.kids = ks /\ e.refcnt = 1 /\ e.kind = "row"
      BY <3>4 DEF Record, Kind
    <3>. QED
      BY <3>3, <3>5
  <2>2. PICK p : p = Fresh
    OBVIOUS
  <2>3. /\ HeapFine(heap') /\ Grows(heap, heap') /\ (\A q \in Obj \ {p} : heap'[q] = heap[q])
        /\ \A o \in Obj : Free(heap', o) = Free(heap, o) + x.refcnt * One(p, o) - CountIn(o, x.kids)
    <3>1. heap' = Allocated(heap, p, x) /\ x.kind \notin {"unused", "freed"} /\ p \in Obj /\ heap[p].kind = "unused"
      BY <1>2, <1>12, <2>1, <2>2
    <3>. QED
      BY <1>1, <3>1, HeapNew
  <2>4. Gentle(heap, heap')
    BY <1>2, <2>2, <2>3 DEF Gentle
  <2>5. ASSUME NEW o \in Obj
        PROVE  Free(heap', o) = Free(heap, o) + CountIn(o, pending') + surplus'[o] - surplus[o]
                                - Held(Top, o) - One(val, o) + One(Fresh, o)
    <3>1. CountIn(o, x.kids) = One(val, o)
      <4>1. CountIn(o, <<val>>) = One(val, o)
        BY <1>1, ShortCounts
      <4>. QED
        BY <2>1, <4>1
    <3>2. /\ One(NULL, o) = 0 /\ Held(Top, o) = 0 /\ surplus[o] \in Int /\ One(val, o) \in Int
          /\ One(Fresh, o) \in Int /\ Free(heap, o) \in Int /\ surplus'[o] = surplus[o] /\ CountIn(o, pending') = 0
      BY <1>3, <1>12
    <3>3. x.refcnt * One(p, o) = One(Fresh, o)
      BY <2>1, <2>2, <3>2
    <3>4. Free(heap', o) = Free(heap, o) + x.refcnt * One(p, o) - CountIn(o, x.kids)
      BY <2>3
    <3>. QED
      BY <3>1, <3>2, <3>3, <3>4
  <2>6. pending' \in Seq(Ref) /\ ReturnFrom(Fresh) /\ surplus' \in [Obj -> Int]
    BY <1>1, <1>12
  <2>. QED
    BY <1>1, <1>2, <2>3, <2>4, <2>5, <2>6, ReturnsSound
<1>. QED
  BY <1>4, <1>5, <1>10, <1>11, <1>12

-----------------------------------------------------------------------------
(* An instance and a call of a class. *)
LEMMA KeptFacts ==
  ASSUME Sound, NEW c, NEW arg \in Obj, NEW accept \in BOOLEAN
  PROVE  Kept(c, arg, accept) \in Seq(Obj) /\ Consumed(c, arg) \in Seq(Ref)
<1>1. /\ heap[arg].kids \in Seq(Obj) /\ <<arg>> \in Seq(Obj) /\ <<>> \in Seq(Obj)
      /\ <<arg>> \in Seq(Ref) /\ <<>> \in Seq(Ref)
  BY ShortSeqs DEF Sound, Shape, HeapFine, Record, Ref
<1>. QED
  BY <1>1 DEF Kept, Consumed

LEMMA InstanceInitSound == Sound /\ Next /\ InstanceInit => Sound'
<1> SUFFICES ASSUME Sound, Next, InstanceInit PROVE Sound'
  OBVIOUS
<1>0. CASE Undefined
  <2>1. ops' \in 0..MaxOps
    BY DEF InstanceInit, Returned, Sound, Shape
  <2>. QED
    BY <1>0, <2>1, UndefinedSound
<1> SUFFICES ASSUME ~Undefined PROVE Sound'
  BY <1>0
<1>1. /\ Returned({"bases"}) /\ stack # <<>> /\ Top.op = "bases" /\ val # NULL /\ val \in Obj /\ val \in Ref
      /\ surplus \in [Obj -> Int] /\ HeapFine(heap)
  BY DEF InstanceInit, Returned, Sound, Shape, Ref
<1>2. /\ Top \in FrameSet /\ Top.obj \in Obj /\ Top.obj \in Ref /\ Top.tmp \in Ref /\ heap[Top.obj].kind # "unused"
      /\ heap[Top.obj].kids = <<>>
  BY <1>1, TopFacts DEF FrameOK, NoObject, Ref
<1>3. PICK c : c = heap[Top.obj].cls
  OBVIOUS
<1>4. \E accept \in BOOLEAN :
        /\ AllLive(Kept(c, val, accept))
        /\ heap' = IncRefs(Filled(heap, Top.obj, Kept(c, val, accept)), Kept(c, val, accept))
  BY <1>3, Zenon DEF InstanceInit, Filled
<1>5. /\ pending' = Consumed(c, val) \o <<Top.tmp, val>>
      /\ surplus' = Overdraw(surplus, Consumed(c, val))
      /\ ReturnFrom(Top.obj) /\ UnchangedMap
  BY <1>3 DEF InstanceInit
<1>6. PICK accept \in BOOLEAN : /\ AllLive(Kept(c, val, accept))
                                /\ heap' = IncRefs(Filled(heap, Top.obj, Kept(c, val, accept)), Kept(c, val, accept))
  BY <1>4
<1>7. PICK ks \in Seq(Obj) : ks = Kept(c, val, accept)
  BY <1>1, KeptFacts
<1>8. PICK used \in Seq(Ref) : used = Consumed(c, val)
  BY <1>1, KeptFacts
<1>9. /\ HeapFine(heap') /\ GentleBut(heap, heap', Top.obj)
      /\ \A o \in Obj : Free(heap', o) = Free(heap, o)
  <2>1. PICK p \in Obj : p = Top.obj
    BY <1>2
  <2>2. heap' = IncRefs(Filled(heap, p, ks), ks) /\ \A i \in DOMAIN ks : heap[ks[i]].kind \notin {"unused", "freed"}
    BY <1>6, <1>7, <2>1 DEF AllLive, Live
  <2>3. /\ HeapFine(heap') /\ GentleBut(heap, heap', p)
        /\ \A o \in Obj : Free(heap', o) = Free(heap, o) + CountIn(o, heap[p].kids) - CountIn(o, ks) + CountIn(o, ks)
    BY <1>1, <1>2, <2>1, <2>2, FillAndInc
  <2>4. ASSUME NEW o \in Obj PROVE Free(heap', o) = Free(heap, o)
    <3>1. CountIn(o, heap[p].kids) = 0 /\ CountIn(o, ks) \in Int /\ Free(heap, o) \in Int
      BY <1>2, <2>1, CountEmpty, CountType, SoundTypes
    <3>. QED
      BY <2>3, <3>1
  <2>. QED
    BY <2>1, <2>3, <2>4
<1>10. surplus' \in [Obj -> Int] /\ \A o \in Obj : surplus'[o] = surplus[o] - CountIn(o, used)
  <2>1. surplus' = Overdraw(surplus, used)
    BY <1>5, <1>8
  <2>. QED
    BY <1>1, <2>1, Overdraws
<1>11. pending' \in Seq(Ref) /\ \A o \in Obj : CountIn(o, pending') = CountIn(o, used) + (One(Top.tmp, o) + One(val, o))
  <2>1. <<Top.tmp, val>> \in Seq(Ref) /\ \A o \in Obj : CountIn(o, <<Top.tmp, val>>) = One(Top.tmp, o) + One(val, o)
    BY <1>1, <1>2, ShortSeqs, ShortCounts
  <2>2. PICK two \in Seq(Ref) : two = <<Top.tmp, val>>
    BY <2>1
  <2>3. pending' = used \o two /\ used \o two \in Seq(Ref)
    BY <1>5, <1>8, <2>2, ConcatProperties
  <2>4. \A o \in Obj : CountIn(o, used \o two) = CountIn(o, used) + CountIn(o, two)
    BY CountConcat
  <2>. QED
    BY <2>1, <2>2, <2>3, <2>4
<1>12. ASSUME NEW o \in Obj
       PROVE  Free(heap', o) = Free(heap, o) + CountIn(o, pending') + surplus'[o] - surplus[o]
                               - Held(Top, o) - One(val, o) + One(Top.obj, o)
  <2>1. /\ Free(heap', o) = Free(heap, o) /\ surplus'[o] = surplus[o] - CountIn(o, used)
        /\ CountIn(o, pending') = CountIn(o, used) + (One(Top.tmp, o) + One(val, o))
        /\ Held(Top, o) = One(Top.obj, o) + One(Top.tmp, o)
    BY <1>9, <1>10, <1>11 DEF Held
  <2>2. /\ Free(heap, o) \in Int /\ surplus[o] \in Int /\ CountIn(o, used) \in Int /\ One(Top.tmp, o) \in Int
        /\ One(val, o) \in Int /\ One(Top.obj, o) \in Int
    BY SoundTypes, OnePlace, CountType
  <2>. QED
    BY <2>1, <2>2, SMTT(60)
<1>. QED
  BY <1>1, <1>2, <1>5, <1>9, <1>10, <1>11, <1>12, ReturnsSound

LEMMA InstanceNameSound == Sound /\ Next /\ InstanceName => Sound'
<1> SUFFICES ASSUME Sound, Next, InstanceName PROVE Sound'
  OBVIOUS
<1>0. CASE Undefined
  <2>1. ops' \in 0..MaxOps
    BY DEF InstanceName, Returned, Sound, Shape
  <2>. QED
    BY <1>0, <2>1, UndefinedSound
<1> SUFFICES ASSUME ~Undefined PROVE Sound'
  BY <1>0
<1>. DEFINE f == Frame("bases", Fresh, val, 0)
<1>1. /\ Returned({"name", "sharedname"}) /\ HasRoom /\ stack # <<>> /\ Top.op \in {"name", "sharedname"}
      /\ pending = <<>> /\ pending \in Seq(Ref) /\ surplus \in [Obj -> Int]
      /\ val # NULL /\ val \in Ref /\ NULL \in Ref
  BY DEF InstanceName, Returned, Running, Is, Sound, Shape, Ref
<1>2. /\ Top.obj = NULL /\ Top.tmp = NULL /\ Fresh \in Obj /\ Fresh \in Ref /\ Fresh # NULL /\ Own(stack, Fresh)
  BY <1>1, TopFacts, FreshFacts DEF FrameOK, NoObject, NoArgument, Ref
<1>3. \A o \in Obj : /\ One(NULL, o) = 0 /\ Held(Top, o) = 0 /\ surplus[o] \in Int /\ One(val, o) \in Int
                     /\ One(Fresh, o) \in Int /\ Free(heap, o) \in Int /\ CountIn(o, pending) = 0
                     /\ One(Refs!Overwritten, o) \in Int
  BY <1>1, <1>2, SoundTypes, OnePlace DEF Held
<1>4. PICK c \in AllClasses :
      \/ /\ heap' = Allocated(heap, Fresh, NewObject("class", 0, c, 1))
         /\ Continue(f) /\ UNCHANGED <<pending, surplus>> /\ UnchangedMap
      \/ /\ heap' = Allocated(heap, Fresh, NewObject("class", 0, c, 1))
         /\ pending' = <<val, Fresh>> /\ ReturnFrom(NULL) /\ UNCHANGED surplus /\ UnchangedMap
      \/ /\ Register(Fresh)
         /\ heap' = Allocated(heap, Fresh, NewObject("class", 0, c, SharedRefs))
         /\ surplus' = Abandon(surplus, Displaced) /\ Continue(f) /\ UNCHANGED pending
  <2>1. \A i \in DOMAIN Classes : Classes[i] \in AllClasses
    BY BoundsAssumption
  <2>. QED
    BY <2>1, Zenon DEF InstanceName, Allocated
<1>5. f \in FrameSet /\ f.op = "bases" /\ f.obj = Fresh /\ f.tmp = val
  BY <1>1, <1>2, BoundsAssumption DEF Frame, FrameSet, FrameOp
<1>. HIDE DEF f
<1>6. ASSUME NEW r \in Nat, heap' = Allocated(heap, Fresh, NewObject("class", 0, c, r))
      PROVE  /\ HeapFine(heap') /\ Gentle(heap, heap') /\ FrameOK(heap', f)
             /\ \A o \in Obj : Free(heap', o) = Free(heap, o) + r * One(Fresh, o)
  <2>1. PICK k \in Kind \ {"unused", "freed"} : k = "class"
    BY DEF Kind
  <2>2. heap' = Allocated(heap, Fresh, NewObject(k, 0, c, r)) /\ 0 \in Nat /\ c \in AllClasses \cup {"none"}
    BY <1>6, <2>1
  <2>3. /\ HeapFine(heap') /\ Gentle(heap, heap') /\ heap'[Fresh].kind # "unused" /\ heap'[Fresh].kids = <<>>
        /\ \A o \in Obj : Free(heap', o) = Free(heap, o) + r * One(Fresh, o)
    BY <1>1, <2>2, FreshObject
  <2>4. FrameOK(heap', f)
    BY <1>1, <1>2, <1>5, <2>3 DEF FrameOK, NoObject, NoArgument, InDict
  <2>. QED
    BY <2>3, <2>4
<1>7. \A o \in Obj : Held(f, o) = One(Fresh, o) + One(val, o)
  BY <1>5 DEF Held
<1>8. ~Nested(f) /\ f.op # "listitr" /\ Top.op # "listitr"
  BY <1>1, <1>5 DEF Nested
<1>9. CASE /\ heap' = Allocated(heap, Fresh, NewObject("class", 0, c, 1))
           /\ Continue(f) /\ UNCHANGED <<pending, surplus>> /\ UnchangedMap
  <2>1. /\ HeapFine(heap') /\ Gentle(heap, heap') /\ FrameOK(heap', f)
        /\ \A o \in Obj : Free(heap', o) = Free(heap, o) + 1 * One(Fresh, o)
    BY <1>6, <1>9
  <2>2. ASSUME NEW o \in Obj
        PROVE  Free(heap', o) = Free(heap, o) + CountIn(o, pending') + surplus'[o] - surplus[o]
                                - Held(Top, o) + Held(f, o) - One(val, o)
    <3>1. /\ Free(heap', o) = Free(heap, o) + 1 * One(Fresh, o) /\ CountIn(o, pending') = 0
          /\ surplus'[o] = surplus[o] /\ Held(f, o) = One(Fresh, o) + One(val, o)
      BY <1>3, <1>7, <1>9, <2>1
    <3>2. /\ Held(Top, o) = 0 /\ surplus[o] \in Int /\ One(val, o) \in Int
          /\ One(Fresh, o) \in Int /\ Free(heap, o) \in Int
      BY <1>3
    <3>. QED
      BY <3>1, <3>2
  <2>3. pending' \in Seq(Ref) /\ surplus' \in [Obj -> Int]
    BY <1>1, <1>9
  <2>. QED
    BY <1>1, <1>2, <1>5, <1>8, <1>9, <2>1, <2>2, <2>3, ContinuesSound
<1>10. CASE /\ heap' = Allocated(heap, Fresh, NewObject("class", 0, c, 1))
            /\ pending' = <<val, Fresh>> /\ ReturnFrom(NULL) /\ UNCHANGED surplus /\ UnchangedMap
  <2>1. /\ HeapFine(heap') /\ Gentle(heap, heap')
        /\ \A o \in Obj : Free(heap', o) = Free(heap, o) + 1 * One(Fresh, o)
    BY <1>6, <1>10
  <2>2. pending' \in Seq(Ref) /\ \A o \in Obj : CountIn(o, pending') = One(val, o) + One(Fresh, o)
    BY <1>1, <1>2, <1>10, ShortSeqs, ShortCounts
  <2>3. ASSUME NEW o \in Obj
        PROVE  Free(heap', o) = Free(heap, o) + CountIn(o, pending') + surplus'[o] - surplus[o]
                                - Held(Top, o) - One(val, o) + One(NULL, o)
    <3>1. /\ Free(heap', o) = Free(heap, o) + 1 * One(Fresh, o) /\ surplus'[o] = surplus[o]
          /\ CountIn(o, pending') = One(val, o) + One(Fresh, o)
      BY <1>10, <2>1, <2>2
    <3>2. /\ Held(Top, o) = 0 /\ surplus[o] \in Int /\ One(val, o) \in Int /\ One(NULL, o) = 0
          /\ One(Fresh, o) \in Int /\ Free(heap, o) \in Int
      BY <1>3
    <3>. QED
      BY <3>1, <3>2
  <2>4. surplus' \in [Obj -> Int] /\ ReturnFrom(NULL) /\ UnchangedMap
    BY <1>1, <1>10
  <2>. QED
    BY <1>1, <2>1, <2>2, <2>3, <2>4, ReturnsSound
<1>11. CASE /\ Register(Fresh)
            /\ heap' = Allocated(heap, Fresh, NewObject("class", 0, c, SharedRefs))
            /\ surplus' = Abandon(surplus, Displaced) /\ Continue(f) /\ UNCHANGED pending
  <2>1. /\ HeapFine(heap') /\ Gentle(heap, heap') /\ FrameOK(heap', f)
        /\ \A o \in Obj : Free(heap', o) = Free(heap, o) + 2 * One(Fresh, o)
    BY <1>6, <1>11 DEF SharedRefs
  <2>2. /\ surplus' \in [Obj -> Int]
        /\ \A o \in Obj : surplus'[o] = surplus[o] + One(Refs!Overwritten, o)
    <3>1. Displaced \in Seq(Ref) /\ \A o \in Obj : CountIn(o, Displaced) = One(Refs!Overwritten, o)
      BY <1>11, OverwrittenFacts DEF Register, Refs!Store
    <3>. QED
      BY <1>1, <1>11, <3>1, SurplusMoves
  <2>3. pending' \in Seq(Ref) /\ Continue(f)
    BY <1>1, <1>11
  <2>4. ASSUME NEW o \in Obj
        PROVE  Shape' /\ Paid(o)' = Paid(o) + One(Fresh, o) - One(Refs!Overwritten, o)
    <3>1. /\ Free(heap', o) = Free(heap, o) + 2 * One(Fresh, o) /\ CountIn(o, pending') = 0
          /\ surplus'[o] = surplus[o] + One(Refs!Overwritten, o) /\ Held(f, o) = One(Fresh, o) + One(val, o)
      BY <1>3, <1>7, <1>11, <2>1, <2>2
    <3>2. /\ Held(Top, o) = 0 /\ surplus[o] \in Int /\ One(val, o) \in Int
          /\ One(Fresh, o) \in Int /\ Free(heap, o) \in Int /\ One(Refs!Overwritten, o) \in Int
      BY <1>3
    <3>3. PICK d \in Int : d = One(Fresh, o) - One(Refs!Overwritten, o)
      BY <3>2
    <3>4. Free(heap', o) = Free(heap, o) + CountIn(o, pending') + surplus'[o] - surplus[o]
                           - Held(Top, o) + Held(f, o) - One(val, o) + d
      BY <3>1, <3>2, <3>3
    <3>5. Shape' /\ Paid(o)' = Paid(o) + d
      BY <1>1, <1>2, <1>5, <1>8, <2>1, <2>2, <2>3, <3>4, ContinueMoves
    <3>6. Paid(o) \in Int
      BY SoundTypes DEF Paid
    <3>. QED
      BY <3>2, <3>3, <3>5, <3>6
  <2>. QED
    BY <1>2, <1>11, <2>4, RegisterSound
<1>. QED
  BY <1>4, <1>9, <1>10, <1>11

LEMMA CalleeFacts ==
  ASSUME Sound, val # NULL, Argument # NULL, Is(Callee, "class")
  PROVE  Callee \in Obj /\ Argument \in Obj /\ Argument \in Ref /\ heap[Callee].cls \in AllClasses \cup {"none"}
<1>1. val \in Obj
  BY DEF Sound, Shape, Ref
<1>2. \A p \in Obj, i \in Nat : Item(p, i) \in Ref
  BY ItemIsRef
<1>3. Item(val, 0) \in Ref /\ Item(val, 1) \in Ref
  BY <1>1, <1>2
<1>4. Argument \in Ref
  BY <1>3 DEF Argument
<1>5. Callee \in Ref
  <2>1. ASSUME Is(Item(val, 0), "tuple") PROVE Item(Item(val, 0), 0) \in Ref
    <3>1. Item(val, 0) \in Obj
      BY <1>3, <2>1 DEF Is, Ref
    <3>. QED
      BY <1>2, <3>1
  <2>. QED
    BY <1>3, <2>1 DEF Callee, Ref
<1>6. Callee \in Obj
  BY <1>5 DEF Is, Ref
<1>. QED
  BY <1>4, <1>6 DEF Ref, Sound, Shape, HeapFine, Record

Instance(c, kept) == [NewObject("class", 0, c, 1) EXCEPT !.kids = kept]

LEMMA CallClassSteps ==
  ASSUME CallClass, ~Undefined
  PROVE  /\ Is(Callee, "class")
         /\ \E accept \in BOOLEAN, result \in {NULL, Fresh} :
              /\ AllLive(Kept(heap[Callee].cls, Argument, accept))
              /\ IF result = NULL THEN UNCHANGED heap
                 ELSE heap' = IncRefs(Allocated(heap, Fresh,
                                                Instance(heap[Callee].cls, Kept(heap[Callee].cls, Argument, accept))),
                                      Kept(heap[Callee].cls, Argument, accept))
              /\ pending' = Consumed(heap[Callee].cls, Argument)
              /\ \/ /\ surplus' = Abandon(Overdraw(surplus, Consumed(heap[Callee].cls, Argument)), <<val, result>>)
                    /\ ReturnFrom(NULL)
                 \/ /\ surplus' = Overdraw(surplus, Consumed(heap[Callee].cls, Argument))
                    /\ Continue(Frame("dirlist", result, val, 0))
<1>1. PICK c : c = heap[Callee].cls
  OBVIOUS
<1>2. PICK accept \in BOOLEAN :
        /\ Is(Callee, "class") /\ AllLive(Kept(c, Argument, accept))
        /\ heap' = IF InitSucceeds(c, Argument, accept)
                   THEN IncRefs(Allocated(heap, Fresh, Instance(c, Kept(c, Argument, accept))), Kept(c, Argument, accept))
                   ELSE heap
        /\ pending' = Consumed(c, Argument)
        /\ \/ /\ surplus' = Abandon(Overdraw(surplus, Consumed(c, Argument)),
                                    <<val, IF InitSucceeds(c, Argument, accept) THEN Fresh ELSE NULL>>)
              /\ ReturnFrom(NULL)
           \/ /\ surplus' = Overdraw(surplus, Consumed(c, Argument))
              /\ Continue(Frame("dirlist", IF InitSucceeds(c, Argument, accept) THEN Fresh ELSE NULL, val, 0))
  BY <1>1, Zenon DEF CallClass, Allocated, Instance
<1>3. Fresh # NULL
  BY FreshIsObj, NullIsNoObject DEF CallClass, Returned
<1>4. CASE InitSucceeds(c, Argument, accept)
  <2>1. PICK result \in {NULL, Fresh} : result = Fresh
    OBVIOUS
  <2>. QED
    BY <1>1, <1>2, <1>3, <1>4, <2>1
<1>5. CASE ~InitSucceeds(c, Argument, accept)
  <2>1. PICK result \in {NULL, Fresh} : result = NULL
    OBVIOUS
  <2>. QED
    BY <1>1, <1>2, <1>5, <2>1
<1>. QED
  BY <1>4, <1>5

LEMMA CallClassSound == Sound /\ Next /\ CallClass => Sound'
<1> SUFFICES ASSUME Sound, Next, CallClass PROVE Sound'
  OBVIOUS
<1>0. CASE Undefined
  <2>1. ops' \in 0..MaxOps
    BY DEF CallClass, Returned, Sound, Shape
  <2>. QED
    BY <1>0, <2>1, UndefinedSound
<1> SUFFICES ASSUME ~Undefined PROVE Sound'
  BY <1>0
<1>1. /\ Returned({"newobj", "reduce"}) /\ HasRoom /\ stack # <<>> /\ Top.op \in {"newobj", "reduce"}
      /\ val # NULL /\ val \in Ref /\ NULL \in Ref /\ Argument # NULL /\ UnchangedMap
      /\ surplus \in [Obj -> Int] /\ HeapFine(heap)
  BY DEF CallClass, Returned, Is, Sound, Shape, Ref
<1>2. /\ Top.obj = NULL /\ Top.tmp = NULL /\ Fresh \in Obj /\ Fresh \in Ref /\ Fresh # NULL /\ Own(stack, Fresh)
  BY <1>1, TopFacts, FreshFacts DEF FrameOK, NoObject, NoArgument, Ref
<1>3. \A o \in Obj : /\ One(NULL, o) = 0 /\ Held(Top, o) = 0 /\ surplus[o] \in Int /\ One(val, o) \in Int
                     /\ One(Fresh, o) \in Int /\ Free(heap, o) \in Int
  BY <1>2, SoundTypes, OnePlace DEF Held
<1>4. Is(Callee, "class")
  BY CallClassSteps
<1>5. Callee \in Obj /\ Argument \in Obj /\ heap[Callee].cls \in AllClasses \cup {"none"}
  BY <1>1, <1>4, CalleeFacts
<1>6. PICK c \in AllClasses \cup {"none"} : c = heap[Callee].cls
  BY <1>5
<1>7. PICK accept \in BOOLEAN, result \in {NULL, Fresh} :
        /\ AllLive(Kept(c, Argument, accept))
        /\ IF result = NULL THEN UNCHANGED heap
           ELSE heap' = IncRefs(Allocated(heap, Fresh, Instance(c, Kept(c, Argument, accept))), Kept(c, Argument, accept))
        /\ pending' = Consumed(c, Argument)
        /\ \/ /\ surplus' = Abandon(Overdraw(surplus, Consumed(c, Argument)), <<val, result>>)
              /\ ReturnFrom(NULL)
           \/ /\ surplus' = Overdraw(surplus, Consumed(c, Argument))
              /\ Continue(Frame("dirlist", result, val, 0))
  BY <1>6, CallClassSteps
<1>8. PICK ks \in Seq(Obj) : ks = Kept(c, Argument, accept)
  BY <1>5, KeptFacts
<1>9. PICK used \in Seq(Ref) : used = Consumed(c, Argument)
  BY <1>5, KeptFacts
<1>10. result \in Ref /\ \A o \in Obj : One(result, o) \in Int
  BY <1>1, <1>2, OnePlace
<1>11. /\ HeapFine(heap') /\ Gentle(heap, heap') /\ (result # NULL => heap'[result].kind # "unused")
       /\ \A o \in Obj : Free(heap', o) = Free(heap, o) + One(result, o)
  <2>1. CASE result = NULL
    <3>1. UNCHANGED heap
      BY <1>7, <2>1
    <3>2. HeapFine(heap') /\ Gentle(heap, heap')
      BY <3>1, SameHeap
    <3>. QED
      BY <1>3, <2>1, <3>1, <3>2
  <2>2. CASE result # NULL
    <3>1. PICK e \in Record : /\ e = Instance(c, ks) /\ e.kind = "class" /\ e.refcnt = 1 /\ e.kids = ks
      <4>1. Instance(c, ks) = [kind |-> "class", refcnt |-> 1, kids |-> ks, size |-> 0, cls |-> c]
        BY DEF Instance, NewObject
      <4>2. Instance(c, ks) \in Record
        BY <4>1 DEF Record, Kind
      <4>. QED
        BY <4>1, <4>2
    <3>2. heap' = IncRefs(Allocated(heap, Fresh, e), e.kids)
      BY <1>7, <1>8, <2>2, <3>1
    <3>3. \A i \in DOMAIN e.kids : heap[e.kids[i]].kind \notin {"unused", "freed"}
      BY <1>7, <1>8, <3>1 DEF AllLive, Live
    <3>4. /\ HeapFine(heap') /\ Gentle(heap, heap') /\ heap'[Fresh].kind # "unused"
          /\ \A o \in Obj : Free(heap', o) = Free(heap, o) + One(Fresh, o)
      BY <1>1, <3>1, <3>2, <3>3, NewAndInc
    <3>. QED
      BY <2>2, <3>4
  <2>. QED
    BY <2>1, <2>2
<1>12. PICK over \in [Obj -> Int] : /\ over = Overdraw(surplus, used)
                                    /\ \A o \in Obj : over[o] = surplus[o] - CountIn(o, used)
  BY <1>1, SurplusMoves
<1>13. \A o \in Obj : CountIn(o, used) \in Int
  BY CountType
<1>14. pending' = used /\ pending' \in Seq(Ref)
  BY <1>7, <1>9
<1>15. CASE surplus' = Abandon(over, <<val, result>>) /\ ReturnFrom(NULL)
  <2>1. <<val, result>> \in Seq(Ref) /\ \A o \in Obj : CountIn(o, <<val, result>>) = One(val, o) + One(result, o)
    BY <1>1, <1>10, ShortSeqs, ShortCounts
  <2>2. PICK s \in Seq(Ref) : s = <<val, result>>
    BY <2>1
  <2>3. surplus' \in [Obj -> Int] /\ \A o \in Obj : surplus'[o] = over[o] + CountIn(o, s)
    <3>1. surplus' = Abandon(over, s)
      BY <1>15, <2>2
    <3>2. Abandon(over, s) \in [Obj -> Int] /\ \A o \in Obj : Abandon(over, s)[o] = over[o] + CountIn(o, s)
      BY SurplusMoves
    <3>. QED
      BY <3>1, <3>2
  <2>4. ASSUME NEW o \in Obj
        PROVE  Free(heap', o) = Free(heap, o) + CountIn(o, pending') + surplus'[o] - surplus[o]
                                - Held(Top, o) - One(val, o) + One(NULL, o)
    <3>1. /\ Free(heap', o) = Free(heap, o) + One(result, o) /\ CountIn(o, pending') = CountIn(o, used)
          /\ surplus'[o] = over[o] + CountIn(o, s) /\ over[o] = surplus[o] - CountIn(o, used)
          /\ CountIn(o, s) = One(val, o) + One(result, o)
      BY <1>11, <1>12, <1>14, <2>1, <2>2, <2>3
    <3>2. /\ Held(Top, o) = 0 /\ surplus[o] \in Int /\ One(val, o) \in Int /\ One(NULL, o) = 0
          /\ One(result, o) \in Int /\ Free(heap, o) \in Int /\ CountIn(o, used) \in Int
      BY <1>3, <1>10, <1>13
    <3>. QED
      BY <3>1, <3>2, SMTT(60)
  <2>5. ReturnFrom(NULL)
    BY <1>15
  <2>. QED
    BY <1>1, <1>11, <1>14, <2>3, <2>4, <2>5, ReturnsSound
<1>16. CASE surplus' = over /\ Continue(Frame("dirlist", result, val, 0))
  <2>. DEFINE f == Frame("dirlist", result, val, 0)
  <2>1. f \in FrameSet /\ f.op = "dirlist" /\ f.obj = result /\ f.tmp = val
    BY <1>1, <1>10, BoundsAssumption DEF Frame, FrameSet, FrameOp
  <2>2. Continue(f)
    BY <1>16
  <2>. HIDE DEF f
  <2>3. FrameOK(heap', f) /\ ~Nested(f) /\ Top.op # "listitr"
    BY <1>1, <1>11, <2>1 DEF FrameOK, NoObject, NoArgument, InDict, Nested
  <2>4. f.obj = NULL \/ Own(stack, f.obj)
    BY <1>2, <2>1
  <2>5. ASSUME NEW o \in Obj
        PROVE  Free(heap', o) = Free(heap, o) + CountIn(o, pending') + surplus'[o] - surplus[o]
                                - Held(Top, o) + Held(f, o) - One(val, o)
    <3>1. /\ Free(heap', o) = Free(heap, o) + One(result, o) /\ CountIn(o, pending') = CountIn(o, used)
          /\ surplus'[o] = surplus[o] - CountIn(o, used) /\ Held(f, o) = One(result, o) + One(val, o)
      BY <1>11, <1>12, <1>14, <1>16, <2>1 DEF Held
    <3>2. /\ Held(Top, o) = 0 /\ surplus[o] \in Int /\ One(val, o) \in Int /\ One(NULL, o) = 0
          /\ One(result, o) \in Int /\ Free(heap, o) \in Int /\ CountIn(o, used) \in Int
      BY <1>3, <1>10, <1>13
    <3>. QED
      BY <3>1, <3>2, SMTT(60)
  <2>6. surplus' \in [Obj -> Int] /\ f.op # "listitr"
    BY <1>16, <2>1
  <2>. QED
    BY <1>1, <1>11, <1>14, <2>1, <2>2, <2>3, <2>4, <2>5, <2>6, ContinuesSound
<1>. QED
  BY <1>7, <1>9, <1>12, <1>15, <1>16

-----------------------------------------------------------------------------
LEMMA InitSound == Init => Sound
<1> SUFFICES ASSUME Init PROVE Sound
  OBVIOUS
<1>1. MapInv
  BY InitMap
<1>2. /\ pending = <<>> /\ surplus = [o \in Obj |-> 0] /\ phase = "header" /\ stack = <<>> /\ val = NULL
      /\ reading = TRUE /\ ops = 0 /\ failed = FALSE
  BY DEF Init
<1>3. /\ mExpectedObjectsCount = 0 /\ mOrderMap = [i \in 0..MaxShared |-> 0]
      /\ mReferenceObjects = [i \in 0..MaxShared |-> NULL]
  BY DEF Init, Refs!Init, Refs!Slot
<1>4. \A o \in Obj : heap[o] = IF o = PyNone THEN NewObject("leaf", 0, "none", 1)
                               ELSE IF o \in Static THEN NewObject("class", 0, Classes[o - 1], 1)
                               ELSE Unused
  BY DEF Init
<1>5. ASSUME NEW o \in Obj
      PROVE  /\ heap[o] \in Record /\ heap[o].kids = <<>> /\ heap[o].refcnt = Fixed(o)
             /\ heap[o].kind = "unused" => heap[o] = Unused
             /\ heap[o].kind # "freed" /\ (heap[o].kind = "unused" => heap[o].refcnt = 0)
  <2>0. ASSUME NEW k \in Kind, NEW c \in AllClasses \cup {"none"}, NEW n \in Nat
        PROVE  [kind |-> k, refcnt |-> n, kids |-> <<>>, size |-> 0, cls |-> c] \in Record
    <3>1. <<>> \in Seq(Obj) /\ 0 \in Nat
      OBVIOUS
    <3>. QED
      BY <3>1 DEF Record
  <2>1. CASE o = PyNone
    <3>1. o \in Static
      BY <2>1, BoundsAssumption, LenProperties DEF PyNone, Static
    <3>2. heap[o] = [kind |-> "leaf", refcnt |-> 1, kids |-> <<>>, size |-> 0, cls |-> "none"]
      BY <1>4, <2>1 DEF NewObject
    <3>3. "leaf" \in Kind /\ 1 \in Nat /\ "none" \in AllClasses \cup {"none"}
      BY DEF Kind
    <3>4. heap[o] \in Record
      BY <2>0, <3>2, <3>3
    <3>. QED
      BY <3>1, <3>2, <3>4 DEF Fixed
  <2>2. CASE o # PyNone /\ o \in Static
    <3>1. Classes[o - 1] \in AllClasses
      <4>1. Classes \in Seq(AllClasses) /\ Len(Classes) \in Nat
        BY BoundsAssumption, LenProperties
      <4>2. o - 1 \in 1..Len(Classes)
        BY <2>2, <4>1 DEF PyNone, Static
      <4>. QED
        BY <4>1, <4>2
    <3>2. heap[o] = [kind |-> "class", refcnt |-> 1, kids |-> <<>>, size |-> 0, cls |-> Classes[o - 1]]
      BY <1>4, <2>2 DEF NewObject
    <3>3. "class" \in Kind /\ 1 \in Nat /\ Classes[o - 1] \in AllClasses \cup {"none"}
      BY <3>1 DEF Kind
    <3>4. heap[o] \in Record
      BY <2>0, <3>2, <3>3
    <3>. QED
      BY <2>2, <3>2, <3>4 DEF Fixed
  <2>3. CASE o # PyNone /\ o \notin Static
    BY <1>4, <2>0, <2>3 DEF Unused, Kind, Fixed, PyNone
  <2>. QED
    BY <2>1, <2>2, <2>3
<1>6. HeapFine(heap)
  <2>1. DOMAIN heap = Obj /\ heap = [o \in Obj |-> heap[o]]
    BY DEF Init
  <2>. QED
    BY <1>5, <2>1 DEF HeapFine
<1>7. StackFine(heap, stack, reading)
  <2>1. stack \in Seq(FrameSet) /\ Len(stack) = 0
    BY <1>2
  <2>. QED
    BY <2>1 DEF StackFine
<1>8. Shape
  <2>1. pending \in Seq(Ref) /\ NULL \in Ref /\ 0 \in 0..MaxOps /\ surplus \in [Obj -> Int]
    BY <1>2, BoundsAssumption DEF Ref
  <2>. QED
    BY <1>2, <1>6, <1>7, <2>1 DEF Shape
<1>9. SlotsFine
  BY <1>3, BoundsAssumption DEF SlotsFine
<1>10. ASSUME NEW o \in Obj PROVE Paid(o) = CountIn(o, mReferenceObjects) + Fixed(o)
  <2>1. Kids(heap, o) = 0
    <3>1. KidPlaces(heap, o) = {}
      BY <1>5 DEF KidPlaces
    <3>. QED
      BY <3>1, FS_EmptySet DEF Kids
  <2>2. CountIn(o, pending) = 0 /\ surplus[o] = 0 /\ One(val, o) = 0
    BY <1>2, CountEmpty, OnePlace
  <2>3. Inner(stack, o) = 0
    BY <1>2, CountEmpty DEF Inner, ObjsOf, TmpsOf
  <2>4. CountIn(o, mReferenceObjects) = 0
    <3>1. \A i \in DOMAIN mReferenceObjects : mReferenceObjects[i] # o
      BY <1>3, NullIsNoObject
    <3>. QED
      BY <3>1, CountZero
  <2>5. heap[o].refcnt = Fixed(o) /\ Fixed(o) \in Int
    BY <1>5 DEF Fixed
  <2>. QED
    BY <2>1, <2>2, <2>3, <2>4, <2>5 DEF Paid, Free
<1>. QED
  BY <1>1, <1>8, <1>9, <1>10 DEF Sound, Balanced

LEMMA NextSound == Sound /\ [Next]_vars => Sound'
<1> SUFFICES ASSUME Sound, [Next]_vars PROVE Sound'
  OBVIOUS
<1>1. CASE UNCHANGED vars
  <2>1. UNCHANGED <<heap, pending, surplus, mExpectedObjectsCount, mOrderMap, mReferenceObjects,
                    phase, stack, val, reading, ops, failed>>
    BY <1>1 DEF vars, heapVars, mapVars, control
  <2>2. MapInv'
    BY NextMap DEF Sound
  <2>3. Shape' /\ SlotsFine'
    BY <2>1 DEF Sound, Shape, SlotsFine
  <2>4. Balanced'
    BY <2>1 DEF Sound, Balanced, Paid, Fixed
  <2>. QED
    BY <2>2, <2>3, <2>4 DEF Sound
<1>2. CASE Next
  BY <1>2, HeaderSound, ReadFailsSound, ReadSingletonSound, ReadContainersSound, CompleteSound,
     ReadClassStringSound, ReadRefSound, AddItemSound, RefuseItemSound, DictPayloadSound, RefuseEntrySound,
     DictEntrySound, WaitingSound, InstanceNameFailsSound, InstanceNameSound, InstanceBasesFailSound,
     InstanceInitSound, CallNoTupleSound, CallRefusedSound, CallClassSound, DirStartSound, DirStopSound,
     DirFailsSound, DirListItemSound, DirDictKeySound, DirDictValueSound, PackedRowHeaderSound,
     LoadReturnsSound, ReleaseResultSound, DestroySound, ReleaseSound DEF Next
<1>. QED
  BY <1>1, <1>2

(* Every pointer the program holds is in its place, and each object's count   *)
(* is paid for, from the header of the packet to the end of its stream.       *)
THEOREM SoundAlways == Spec => []Sound
<1>. QED
  BY InitSound, NextSound, PTL DEF Spec

-----------------------------------------------------------------------------
LEMMA HoldersAre ==
  ASSUME NEW o
  PROVE  Holders(o) = CountIn(o, pending) + Kids(heap, o) + CountIn(o, mReferenceObjects)
                      + CountIn(o, ObjsOf(stack)) + CountIn(o, TmpsOf(stack)) + One(val, o) + Fixed(o)
<1>1. CountIn(o, ObjsOf(stack)) = Cardinality({i \in DOMAIN stack : stack[i].obj = o})
  <2>1. {i \in DOMAIN ObjsOf(stack) : ObjsOf(stack)[i] = o} = {i \in DOMAIN stack : stack[i].obj = o}
    BY DEF ObjsOf
  <2>. QED
    BY <2>1 DEF CountIn
<1>2. CountIn(o, TmpsOf(stack)) = Cardinality({i \in DOMAIN stack : stack[i].tmp = o})
  <2>1. {i \in DOMAIN TmpsOf(stack) : TmpsOf(stack)[i] = o} = {i \in DOMAIN stack : stack[i].tmp = o}
    BY DEF TmpsOf
  <2>. QED
    BY <2>1 DEF CountIn
<1>3. Kids(heap, o) = Cardinality(UNION {{p} \X {i \in DOMAIN heap[p].kids : heap[p].kids[i] = o} : p \in Obj})
  BY DEF Kids, KidPlaces
<1>4. CountIn(o, mReferenceObjects) = Cardinality({i \in DOMAIN mReferenceObjects : mReferenceObjects[i] = o})
  BY DEF CountIn
<1>. QED
  BY <1>1, <1>2, <1>3, <1>4, Zenon DEF Holders, One, Fixed

LEMMA SoundCounts ==
  ASSUME Sound, NEW o \in Obj
  PROVE  heap[o].refcnt = Holders(o) + surplus[o] /\ Holders(o) \in Nat /\ surplus[o] \in Int
<1>1. /\ Free(heap, o) \in Int /\ CountIn(o, pending) \in Nat /\ surplus[o] \in Int
      /\ One(val, o) \in Nat /\ CountIn(o, mReferenceObjects) \in Nat
  BY SoundTypes
<1>2. CountIn(o, ObjsOf(stack)) \in Nat /\ CountIn(o, TmpsOf(stack)) \in Nat
  <2>1. ObjsOf(stack) \in Seq(Ref) /\ TmpsOf(stack) \in Seq(Ref)
    BY StackMaps DEF Sound, Shape, StackFine
  <2>. QED
    BY <2>1, CountType
<1>3. Kids(heap, o) \in Nat /\ heap[o].refcnt \in Nat
  BY FineKids, KidsType DEF Sound, Shape, HeapFine, Record
<1>4. Fixed(o) \in Nat
  BY DEF Fixed
<1>5. Paid(o) = CountIn(o, mReferenceObjects) + Fixed(o)
  BY DEF Sound, Balanced
<1>6. (heap[o].refcnt - Kids(heap, o)) - CountIn(o, pending) - surplus[o]
        - (CountIn(o, ObjsOf(stack)) + CountIn(o, TmpsOf(stack))) - One(val, o)
      = CountIn(o, mReferenceObjects) + Fixed(o)
  BY <1>5 DEF Paid, Free, Inner
<1>7. Holders(o) = CountIn(o, pending) + Kids(heap, o) + CountIn(o, mReferenceObjects)
                   + CountIn(o, ObjsOf(stack)) + CountIn(o, TmpsOf(stack)) + One(val, o) + Fixed(o)
  BY HoldersAre
<1>8. Holders(o) \in Nat
  BY <1>1, <1>2, <1>3, <1>4, <1>7
<1>9. heap[o].refcnt = Holders(o) + surplus[o]
  <2>1. ASSUME NEW r \in Int, NEW k \in Int, NEW p \in Int, NEW l \in Int, NEW a \in Int, NEW b \in Int,
               NEW v \in Int, NEW m \in Int, NEW x \in Int, NEW h \in Int,
               (r - k) - p - l - (a + b) - v = m + x, h = p + k + m + a + b + v + x
        PROVE  r = h + l
    BY <2>1
  <2>. QED
    BY <1>1, <1>2, <1>3, <1>4, <1>6, <1>7, <1>8, <2>1
<1>. QED
  BY <1>1, <1>8, <1>9

(* The count of an object is the number of references held to it, plus those *)
(* that a path abandoned and less those that a path dropped without holding  *)
(* them: inc_ref and dec_ref pair up on every path through unmarshal, the    *)
(* inits of the classes and the destructors, for every bound and packet.     *)
THEOREM Exact == Spec => []CountsExact
<1>1. Sound => CountsExact
  BY SoundCounts DEF CountsExact
<1>. QED
  BY <1>1, SoundAlways, PTL

(* Nobody holds a pointer to a deleted object, on the stack of calls, in a   *)
(* container, in the map or in a release in progress, unless a reference to  *)
(* it was dropped by somebody who did not hold one.                          *)
THEOREM NothingDangles == Spec => []NoDangling
<1>1. Sound => NoDangling
  <2> SUFFICES ASSUME Sound, NEW o \in Obj, ~Live(o), surplus[o] >= 0 PROVE Holders(o) = 0
    BY DEF NoDangling
  <2>1. heap[o].refcnt = 0
    BY DEF Live, Sound, Shape, HeapFine
  <2>. QED
    BY <2>1, SoundCounts
<1>. QED
  BY <1>1, SoundAlways, PTL

(* Every variable of load keeps its type, for every bound and packet. *)
THEOREM Types == Spec => []TypeOK
<1>1. Sound => TypeOK
  <2> SUFFICES ASSUME Sound PROVE TypeOK
    OBVIOUS
  <2>1. MaxShared \in Nat /\ Len(stored) \in Nat
    BY BoundsAssumption, LenProperties DEF Sound, MapInv, MapShape
  <2>2. Refs!TypeOK
    BY <2>1 DEF Sound, MapInv, MapShape, Refs!TypeOK, Refs!Slot
  <2>3. stack \in Seq(FrameSet) /\ FrameSet = [op : FrameOp, obj : Obj \cup {NULL}, tmp : Obj \cup {NULL}, left : 0..MaxItems]
    BY DEF Sound, Shape, StackFine, FrameSet, Ref
  <2>. QED
    BY <2>2, <2>3, Zenon DEF TypeOK, Sound, Shape, MapInv, MapShape, HeapFine, Record, Ref
<1>. QED
  BY <1>1, SoundAlways, PTL

-----------------------------------------------------------------------------
(* Where no object is called (newobj and reduce, after which ReadNewObjList  *)
(* and ReadNewObjDict lose what they could not read, as the runs show), a    *)
(* failure reaches the caller: until then it is the value that has just come *)
(* back, or the payload of a dict entry whose key is being read.             *)
NoCalls == Ops \cap {"newobj", "reduce"} = {}
DataFrames == {"leaf", "tuple", "list", "dict", "key", "name", "sharedname", "bases", "row"}

NullPayload(f) == f.op = "key" /\ f.tmp = NULL
SomeNullPayload(st) == \E i \in 1..Len(st) : NullPayload(st[i])
OnlyData(st) == \A i \in 1..Len(st) : st[i].op \in DataFrames

Reported ==
  /\ OnlyData(stack)
  /\ phase = "header" => ~failed /\ stack = <<>> /\ reading /\ val = NULL
  /\ phase = "load" /\ failed => (~reading /\ val = NULL) \/ SomeNullPayload(stack)
  /\ ErrorReturnsNull

LEMMA DataPush ==
  ASSUME NEW st \in Seq(FrameSet), NEW f \in FrameSet
  PROVE  /\ OnlyData(st) /\ f.op \in DataFrames => OnlyData(Append(st, f))
         /\ SomeNullPayload(st) \/ NullPayload(f) => SomeNullPayload(Append(st, f))
<1>1. /\ Len(Append(st, f)) = Len(st) + 1 /\ Len(st) \in Nat
      /\ (\A i \in 1..Len(st) : Append(st, f)[i] = st[i]) /\ Append(st, f)[Len(st) + 1] = f
  BY AppendProperties, LenProperties
<1>2. PICK t : t = Append(st, f)
  OBVIOUS
<1>3. OnlyData(st) /\ f.op \in DataFrames => OnlyData(t)
  BY <1>1, <1>2 DEF OnlyData
<1>4. SomeNullPayload(st) \/ NullPayload(f) => SomeNullPayload(t)
  <2>1. ASSUME NEW i \in 1..Len(st), NullPayload(st[i]) PROVE SomeNullPayload(t)
    <3>1. i \in 1..Len(t) /\ t[i] = st[i]
      BY <1>1, <1>2
    <3>. QED
      BY <2>1, <3>1 DEF SomeNullPayload
  <2>2. ASSUME NullPayload(f) PROVE SomeNullPayload(t)
    <3>1. Len(st) + 1 \in 1..Len(t) /\ t[Len(st) + 1] = f
      BY <1>1, <1>2
    <3>. QED
      BY <2>2, <3>1 DEF SomeNullPayload
  <2>. QED
    BY <2>1, <2>2 DEF SomeNullPayload
<1>. QED
  BY <1>2, <1>3, <1>4

LEMMA DataPop ==
  ASSUME NEW st \in Seq(FrameSet), st # <<>>
  PROVE  /\ OnlyData(st) => OnlyData(Popped(st)) /\ st[Len(st)].op \in DataFrames
         /\ SomeNullPayload(st) => SomeNullPayload(Popped(st)) \/ NullPayload(st[Len(st)])
<1>1. PICK p \in Seq(FrameSet) :
        /\ p = Popped(st) /\ Len(p) = Len(st) - 1 /\ Len(st) \in Nat \ {0}
        /\ \A i \in 1..(Len(st) - 1) : p[i] = st[i]
  BY PoppedIs
<1>2. OnlyData(st) => OnlyData(p) /\ st[Len(st)].op \in DataFrames
  BY <1>1 DEF OnlyData
<1>3. ASSUME NEW i \in 1..Len(st), NullPayload(st[i]) PROVE SomeNullPayload(p) \/ NullPayload(st[Len(st)])
  <2>1. CASE i = Len(st)
    BY <1>3, <2>1
  <2>2. CASE i # Len(st)
    <3>1. i \in 1..Len(p) /\ p[i] = st[i]
      BY <1>1, <2>2
    <3>. QED
      BY <1>3, <3>1 DEF SomeNullPayload
  <2>. QED
    BY <2>1, <2>2
<1>. QED
  BY <1>1, <1>2, <1>3 DEF SomeNullPayload

(* How the four ways to go on report a failure. *)
LEMMA ReportHere ==
  ASSUME Reported, phase = "load", reading, NEW v, Return(v), UNCHANGED stack
  PROVE  Reported'
BY DEF Reported, Return, ErrorReturnsNull, SomeNullPayload, OnlyData

LEMMA ReportTop ==
  ASSUME Sound, Reported, phase = "load", stack # <<>>, NEW v, ReturnFrom(v),
         v = NULL \/ ((reading \/ val # NULL) /\ ~NullPayload(Top))
  PROVE  Reported'
<1>1. stack' = Popped(stack) /\ Return(v) /\ stack \in Seq(FrameSet)
  BY DEF ReturnFrom, Pop, Popped, Sound, Shape, StackFine
<1>2. OnlyData(Popped(stack))
  BY <1>1, DataPop DEF Reported
<1>3. failed /\ v # NULL => SomeNullPayload(Popped(stack))
  BY <1>1, DataPop DEF Reported, Top
<1>. QED
  BY <1>1, <1>2, <1>3 DEF Reported, Return, ErrorReturnsNull

LEMMA ReportDescend ==
  ASSUME Sound, Reported, phase = "load", reading, NEW f \in FrameSet, f.op \in DataFrames, Descend(f)
  PROVE  Reported'
<1>1. stack' = Append(stack, f) /\ UNCHANGED <<phase, failed>> /\ stack \in Seq(FrameSet)
  BY DEF Descend, Sound, Shape, StackFine
<1>. QED
  BY <1>1, DataPush DEF Reported, ErrorReturnsNull

LEMMA ReportContinue ==
  ASSUME Sound, Reported, phase = "load", stack # <<>>, NEW f \in FrameSet, f.op \in DataFrames, Continue(f),
         NullPayload(f) \/ (val # NULL /\ ~NullPayload(Top))
  PROVE  Reported'
<1>1. stack' = [stack EXCEPT ![Len(stack)] = f] /\ UNCHANGED <<phase, failed>> /\ stack \in Seq(FrameSet)
  BY DEF Continue, Sound, Shape, StackFine
<1>2. stack' = Append(Popped(stack), f) /\ Popped(stack) \in Seq(FrameSet)
  BY <1>1, PoppedIs
<1>3. OnlyData(stack')
  BY <1>1, <1>2, DataPop, DataPush DEF Reported
<1>4. failed => SomeNullPayload(stack')
  BY <1>1, <1>2, DataPop, DataPush DEF Reported, Top
<1>. QED
  BY <1>1, <1>3, <1>4 DEF Reported, ErrorReturnsNull

LEMMA ReportUndefined == ASSUME Reported, Undefined PROVE Reported'
BY DEF Reported, Undefined, ErrorReturnsNull, OnlyData

LEMMA NoCallFrames ==
  ASSUME Sound, Reported, stack # <<>>
  PROVE  Top.op \in DataFrames
BY DataPop DEF Reported, Top, Sound, Shape, StackFine

LEMMA ContainerReports ==
  ASSUME Sound, Reported, Unmarshals, HasRoom, NEW k \in {"leaf", "tuple", "list", "dict"}, NEW n \in 0..MaxItems,
         NEW shared \in BOOLEAN, NewContainer(k, n, shared)
  PROVE  Reported'
<1>. DEFINE f == Frame(k, Fresh, NULL, n)
<1>1. phase = "load" /\ reading
  BY DEF Unmarshals, Running
<1>2. f \in FrameSet /\ f.op \in DataFrames
  BY FreshIsObj DEF Frame, FrameSet, FrameOp, Ref, DataFrames
<1>3. \/ Descend(f) \/ Undefined
      \/ Return(NULL) /\ UNCHANGED stack
  BY DEF NewContainer
<1>. HIDE DEF f
<1>. QED
  BY <1>1, <1>2, <1>3, ReportDescend, ReportUndefined, ReportHere

LEMMA ReadsReport ==
  ASSUME Sound, Reported, NoCalls,
         \/ ReadFails \/ ReadSingleton \/ ReadLeaf \/ ReadTuple \/ ReadList \/ ReadDict \/ Complete
         \/ ReadClassString \/ ReadRef \/ ReadInstance \/ ReadCall \/ ReadPackedRow
  PROVE  Reported'
<1>1. CASE ReadFails
  BY <1>1, ReportHere DEF ReadFails, Unmarshals, Running
<1>2. CASE ReadSingleton
  BY <1>2, ReportHere, ReportUndefined DEF ReadSingleton, AtOpcode, Unmarshals, Running, ReturnExisting
<1>3. CASE ReadLeaf
  <2>1. 0 \in 0..MaxItems
    BY BoundsAssumption
  <2>. QED
    BY <1>3, <2>1, ContainerReports DEF ReadLeaf, AtOpcode
<1>4. CASE ReadTuple
  BY <1>4, ContainerReports DEF ReadTuple, AtOpcode
<1>5. CASE ReadList
  BY <1>5, ContainerReports DEF ReadList, AtOpcode
<1>6. CASE ReadDict
  BY <1>6, ContainerReports DEF ReadDict, AtOpcode
<1>7. CASE Complete
  <2>1. phase = "load" /\ reading /\ stack # <<>> /\ ~NullPayload(Top) /\ ReturnFrom(Top.obj)
    BY <1>7 DEF Complete, Running, Finished, NullPayload
  <2>. QED
    BY <2>1, ReportTop
<1>8. CASE ReadClassString
  <2>1. phase = "load" /\ reading
    BY <1>8 DEF ReadClassString, AtOpcode, Unmarshals, Running
  <2>2. (\E v : Return(v) /\ UNCHANGED stack) \/ Undefined
    BY <1>8, Zenon DEF ReadClassString, ReturnExisting
  <2>. QED
    BY <2>1, <2>2, ReportHere, ReportUndefined
<1>9. CASE ReadRef
  <2>1. phase = "load" /\ reading
    BY <1>9 DEF ReadRef, AtOpcode, Unmarshals, Running
  <2>2. (\E v : Return(v) /\ UNCHANGED stack) \/ Undefined
    BY <1>9, Zenon DEF ReadRef, ReturnExisting
  <2>. QED
    BY <2>1, <2>2, ReportHere, ReportUndefined
<1>10. CASE ReadInstance \/ ReadPackedRow
  <2>1. PICK op \in {"name", "sharedname", "row"} : Descend(Frame(op, NULL, NULL, 0))
    BY <1>10 DEF ReadInstance, ReadPackedRow
  <2>2. phase = "load" /\ reading
    BY <1>10 DEF ReadInstance, ReadPackedRow, AtOpcode, Unmarshals, Running
  <2>. DEFINE f == Frame(op, NULL, NULL, 0)
  <2>3. f.op = op /\ f.obj = NULL /\ f.tmp = NULL /\ f.left = 0
    BY DEF Frame
  <2>4. f \in FrameSet
    BY BoundsAssumption DEF Frame, FrameSet, FrameOp, Ref
  <2>5. Descend(f) /\ f.op \in DataFrames
    BY <2>1, <2>3 DEF DataFrames
  <2>. HIDE DEF f
  <2>. QED
    BY <2>2, <2>4, <2>5, ReportDescend
<1>11. CASE ReadCall
  BY <1>11 DEF ReadCall, AtOpcode, NoCalls
<1>. QED
  BY <1>1, <1>2, <1>3, <1>4, <1>5, <1>6, <1>7, <1>8, <1>9, <1>10, <1>11

LEMMA ReturnsReport ==
  ASSUME Sound, Reported,
         \/ AddItem \/ RefuseItem \/ DictPayload \/ RefuseEntry \/ DictEntry
         \/ InstanceNameFails \/ InstanceName \/ InstanceBasesFail \/ InstanceInit \/ PackedRowHeader
  PROVE  Reported'
<1>1. CASE RefuseItem \/ RefuseEntry \/ InstanceNameFails \/ InstanceBasesFail
  BY <1>1, ReportTop DEF RefuseItem, RefuseEntry, InstanceNameFails, InstanceBasesFail, Returned, Running
<1>2. CASE AddItem
  <2>1. PICK f : f = [Top EXCEPT !.left = @ - 1]
    OBVIOUS
  <2>2. /\ phase = "load" /\ ~reading /\ stack # <<>> /\ Top.op \in {"tuple", "list"} /\ val # NULL /\ Continue(f)
    BY <1>2, <2>1 DEF AddItem, Returned, Running, ItemAccepted
  <2>3. Top \in FrameSet /\ Top.left > 0
    BY <2>2, TopFacts DEF Waits
  <2>4. f \in FrameSet /\ f.op \in DataFrames
    BY <2>1, <2>2, <2>3, BoundsAssumption DEF FrameSet, DataFrames
  <2>. QED
    BY <2>2, <2>4, ReportContinue DEF NullPayload
<1>3. CASE DictPayload
  <2>1. PICK f : f = Frame("key", Top.obj, val, Top.left)
    OBVIOUS
  <2>2. /\ phase = "load" /\ ~reading /\ stack # <<>> /\ Top.op = "dict" /\ Continue(f)
    BY <1>3, <2>1 DEF DictPayload, Returned, Running
  <2>3. Top \in FrameSet /\ val \in Ref
    BY <2>2, TopFacts DEF Sound, Shape
  <2>4. f \in FrameSet /\ f.op = "key" /\ f.tmp = val /\ f.op \in DataFrames
    BY <2>1, <2>3 DEF Frame, FrameSet, FrameOp, DataFrames
  <2>. QED
    BY <2>2, <2>4, ReportContinue DEF NullPayload
<1>4. CASE DictEntry
  <2>1. PICK f : f = Frame("dict", Top.obj, NULL, Top.left - 1)
    OBVIOUS
  <2>2. /\ phase = "load" /\ stack # <<>> /\ Top.op = "key" /\ val # NULL /\ Top.tmp # NULL /\ Continue(f)
    BY <1>4, <2>1 DEF DictEntry, Returned, Running, EntryAccepted
  <2>3. Top \in FrameSet /\ FrameOK(heap, Top) /\ Top.left > 0
    BY <2>2, TopFacts DEF FrameOK
  <2>4. f \in FrameSet /\ f.op \in DataFrames
    BY <2>1, <2>3, BoundsAssumption DEF Frame, FrameSet, FrameOp, DataFrames, Ref
  <2>. QED
    BY <2>2, <2>4, ReportContinue DEF NullPayload
<1>5. CASE InstanceName
  <2>1. PICK f : f = Frame("bases", Fresh, val, 0)
    OBVIOUS
  <2>2. /\ phase = "load" /\ stack # <<>> /\ Top.op # "key" /\ val # NULL /\ HasRoom
        /\ Continue(f) \/ ReturnFrom(NULL) \/ Undefined
    BY <1>5, <2>1, Zenon DEF InstanceName, Returned, Running, Is
  <2>3. f \in FrameSet /\ f.op \in DataFrames
    BY <2>1, <2>2, FreshIsObj, BoundsAssumption DEF Frame, FrameSet, FrameOp, DataFrames, Ref, Sound, Shape
  <2>. QED
    BY <2>2, <2>3, ReportContinue, ReportTop, ReportUndefined DEF NullPayload
<1>6. CASE InstanceInit
  <2>1. /\ phase = "load" /\ stack # <<>> /\ Top.op = "bases" /\ val # NULL
        /\ ReturnFrom(Top.obj) \/ Undefined
    BY <1>6 DEF InstanceInit, Returned, Running
  <2>. QED
    BY <2>1, ReportTop, ReportUndefined DEF NullPayload
<1>7. CASE PackedRowHeader
  <2>1. /\ phase = "load" /\ stack # <<>> /\ Top.op = "row"
        /\ ReturnFrom(NULL) \/ (val # NULL /\ ReturnFrom(Fresh)) \/ Undefined
    BY <1>7 DEF PackedRowHeader, Returned, Running, Is
  <2>. QED
    BY <2>1, ReportTop, ReportUndefined DEF NullPayload
<1>. QED
  BY <1>1, <1>2, <1>3, <1>4, <1>5, <1>6, <1>7

LEMMA FileReports ==
  ASSUME Sound, Reported, ReadMarshalHeader \/ LoadReturns \/ ReleaseResult \/ DestroyStream \/ Release
  PROVE  Reported'
<1>1. CASE ReadMarshalHeader
  BY <1>1 DEF ReadMarshalHeader, Reported, ErrorReturnsNull, OnlyData
<1>2. CASE LoadReturns
  <2>1. ~SomeNullPayload(stack)
    <3>1. Len(stack) = 0
      BY <1>2 DEF LoadReturns
    <3>. QED
      BY <3>1 DEF SomeNullPayload
  <2>. QED
    BY <1>2, <2>1 DEF LoadReturns, Running, Reported, ErrorReturnsNull, OnlyData
<1>3. CASE ReleaseResult
  BY <1>3 DEF ReleaseResult, Reported, ErrorReturnsNull, OnlyData
<1>4. CASE DestroyStream
  BY <1>4 DEF DestroyStream, Reported, ErrorReturnsNull, OnlyData
<1>5. CASE Release
  <2>1. UNCHANGED control \/ Undefined
    BY <1>5 DEF Release
  <2>2. CASE UNCHANGED control
    BY <2>2 DEF control, Reported, ErrorReturnsNull, OnlyData, SomeNullPayload
  <2>. QED
    BY <2>1, <2>2, ReportUndefined
<1>. QED
  BY <1>1, <1>2, <1>3, <1>4, <1>5

(* No step of a call of an object is possible. *)
LEMMA NoCallSteps ==
  ASSUME Sound, Reported
  PROVE  ~(CallNoTuple \/ CallRefused \/ CallClass \/ DirStart \/ DirStop \/ DirFails
           \/ DirListItem \/ DirDictKey \/ DirDictValue)
BY NoCallFrames DEF DataFrames, CallNoTuple, CallRefused, CallClass, DirStart, DirStop, DirFails,
   DirListItem, DirDictKey, DirDictValue, Returned

LEMMA NextReports == ASSUME NoCalls PROVE Sound /\ Reported /\ [Next]_vars => Reported'
<1> SUFFICES ASSUME Sound, Reported, [Next]_vars PROVE Reported'
  OBVIOUS
<1>1. CASE UNCHANGED vars
  BY <1>1 DEF vars, control, Reported, ErrorReturnsNull, OnlyData, SomeNullPayload
<1>2. CASE Next
  BY <1>2, ReadsReport, ReturnsReport, FileReports, NoCallSteps DEF Next
<1>. QED
  BY <1>1, <1>2

(* Where no object is called, an error anywhere in the packet makes load     *)
(* return NULL (MarshalStream.h), however deep in which containers it was    *)
(* met.  bug_swallowed shows why calls have to be left out.                  *)
THEOREM ErrorsReach == ASSUME NoCalls PROVE Spec => []ErrorReturnsNull
<1>1. Init => Reported
  <2> SUFFICES ASSUME Init PROVE Reported
    OBVIOUS
  <2>1. stack = <<>> /\ phase = "header" /\ ~failed /\ reading /\ val = NULL
    BY DEF Init
  <2>2. Len(stack) = 0
    BY <2>1
  <2>. QED
    BY <2>1, <2>2 DEF Reported, ErrorReturnsNull, OnlyData
<1>2. Sound /\ Reported /\ [Next]_vars => Reported'
  BY NextReports
<1>3. Reported => ErrorReturnsNull
  BY DEF Reported
<1>. QED
  BY <1>1, <1>2, <1>3, SoundAlways, PTL DEF Spec

-----------------------------------------------------------------------------
(* Only a failed load loses references.  Beside the property itself: a slot  *)
(* that is in use was named by the order map for an object registered        *)
(* before, so with every slot named once nothing is displaced.               *)
SlotsNamed == \A j \in 0..MaxShared :
  mReferenceObjects[j] # NULL => \E k \in 1..Len(stored) : mOrderMap[k - 1] = j + 1

Accounted ==
  /\ OnlyFailuresLeak
  /\ phase \in {"header", "load"} /\ OrderIsOneToOne => SlotsNamed
  /\ phase = "header" => /\ \A j \in 0..MaxShared : mReferenceObjects[j] = NULL
                         /\ \A o \in Obj : surplus[o] <= 0

(* What an action may do to the references that nobody will drop. *)
Loses == failed' /\ phase = "load" /\ phase' = "load" /\ UNCHANGED <<mapVars, stored>>
Keeps == /\ UNCHANGED <<mapVars, stored>>
         /\ (phase' \in {"header", "load"} => phase = phase') /\ phase # "undefined"
         /\ failed => failed'
         /\ \A o \in Obj : surplus'[o] <= surplus[o]
Registers == /\ phase = "load" /\ phase' = "load" /\ (failed => failed')
           /\ \E x \in Obj : Register(x)
           /\ surplus' = Abandon(surplus, Displaced)

LEMMA LosesAccounted == ASSUME Accounted, Loses PROVE Accounted'
BY DEF Accounted, Loses, OnlyFailuresLeak, OrderIsOneToOne, SlotsNamed, mapVars

LEMMA KeepsAccounted ==
  ASSUME Sound, Accounted, Keeps, surplus' \in [Obj -> Int] PROVE Accounted'
<1>1. ASSUME OrderIsOneToOne', ~failed', NEW o \in Obj PROVE surplus'[o] <= 0
  <2>1. surplus[o] <= 0 /\ surplus[o] \in Int /\ surplus'[o] \in Int
    BY <1>1 DEF Accounted, Keeps, OnlyFailuresLeak, OrderIsOneToOne, mapVars, Sound, Shape
  <2>. QED
    BY <2>1 DEF Keeps
<1>2. phase' \in {"header", "load"} /\ OrderIsOneToOne' => SlotsNamed'
  BY DEF Accounted, Keeps, OrderIsOneToOne, SlotsNamed, mapVars
<1>3. ASSUME phase' = "header", NEW o \in Obj PROVE surplus'[o] <= 0
  <2>1. surplus[o] <= 0 /\ surplus[o] \in Int /\ surplus'[o] \in Int
    BY <1>3 DEF Accounted, Keeps, Sound, Shape
  <2>. QED
    BY <2>1 DEF Keeps
<1>4. phase' = "header" => \A j \in 0..MaxShared : mReferenceObjects'[j] = NULL
  BY DEF Accounted, Keeps, mapVars
<1>. QED
  BY <1>1, <1>2, <1>3, <1>4 DEF Accounted, OnlyFailuresLeak

LEMMA PlacesAccounted == ASSUME Sound, Accounted, Registers PROVE Accounted'
<1>1. PICK x \in Obj : Register(x)
  BY DEF Registers
<1>2. PICK d : d = Refs!StoreLocation
  OBVIOUS
<1>3. /\ ~Refs!StoreWraps /\ mReferenceObjects' = [mReferenceObjects EXCEPT ![d] = x]
      /\ mStoreObjectIndex' = mStoreObjectIndex + 1 /\ UNCHANGED <<mExpectedObjectsCount, mOrderMap>>
      /\ stored' = Append(stored, x)
  BY <1>1, <1>2 DEF Register, Refs!Store
<1>4. /\ d \in 0..MaxShared /\ d < mExpectedObjectsCount /\ d = mOrderMap[mStoreObjectIndex] - 1
      /\ mReferenceObjects \in [0..MaxShared -> Ref] /\ mReferenceObjects[d] = Refs!Overwritten
      /\ Displaced \in Seq(Ref) /\ \A o \in Obj : CountIn(o, Displaced) = One(Refs!Overwritten, o)
  BY <1>2, <1>3, OverwrittenFacts DEF Refs!StoreLocation, Refs!Overwritten, Sound, MapInv, MapShape, Ref
<1>5. /\ stored \in Seq(Obj) /\ Len(stored) \in Nat /\ mStoreObjectIndex = Len(stored)
      /\ Len(stored) <= mExpectedObjectsCount /\ mExpectedObjectsCount \in 0..MaxShared /\ MaxShared \in Nat
      /\ mOrderMap \in [0..MaxShared -> 0..MaxShared] /\ mOrderMap[mExpectedObjectsCount] = 0
  BY BoundsAssumption, LenProperties DEF Sound, MapInv, MapShape
<1>6. Len(stored) < mExpectedObjectsCount
  <2>1. mOrderMap[mStoreObjectIndex] # 0
    BY <1>3 DEF Refs!StoreWraps
  <2>. QED
    BY <1>5, <2>1
<1>7. Len(stored') = Len(stored) + 1
  BY <1>3, <1>5, AppendProperties
<1>8. ASSUME OrderIsOneToOne PROVE SlotsNamed' /\ Refs!Overwritten = NULL
  <2>1. SlotsNamed
    BY <1>8 DEF Accounted, Registers
  <2>2. Refs!Overwritten = NULL
    <3>1. ASSUME NEW k \in 1..Len(stored), mOrderMap[k - 1] = d + 1 PROVE FALSE
      <4>1. /\ k - 1 \in 0..(mExpectedObjectsCount - 1) /\ Len(stored) \in 0..(mExpectedObjectsCount - 1)
            /\ k - 1 # Len(stored)
        <5>1. PICK m : m = Len(stored)
          OBVIOUS
        <5>2. PICK c : c = mExpectedObjectsCount
          OBVIOUS
        <5>3. m \in Nat /\ c \in Nat /\ m < c
          BY <1>5, <1>6, <5>1, <5>2
        <5>4. k \in 1..m
          BY <3>1, <5>1
        <5>5. k - 1 \in 0..(c - 1) /\ m \in 0..(c - 1) /\ k - 1 # m
          BY <5>3, <5>4
        <5>. QED
          BY <5>1, <5>2, <5>5
      <4>2. mOrderMap[Len(stored)] = d + 1
        <5>1. mOrderMap[Len(stored)] \in 0..MaxShared
          BY <1>5, <1>6
        <5>. QED
          BY <1>4, <1>5, <5>1
      <4>. QED
        BY <1>8, <3>1, <4>1, <4>2 DEF OrderIsOneToOne
    <3>. QED
      BY <1>4, <2>1, <3>1 DEF SlotsNamed
  <2>3. ASSUME NEW j \in 0..MaxShared, mReferenceObjects'[j] # NULL
        PROVE  \E k \in 1..Len(stored') : mOrderMap'[k - 1] = j + 1
    <3>1. CASE j = d
      <4>1. Len(stored) + 1 \in 1..Len(stored') /\ (Len(stored) + 1) - 1 = Len(stored)
        BY <1>5, <1>7
      <4>2. mOrderMap[Len(stored)] = d + 1
        <5>1. mOrderMap[Len(stored)] \in 0..MaxShared
          BY <1>5, <1>6
        <5>. QED
          BY <1>4, <1>5, <5>1
      <4>. QED
        BY <1>3, <3>1, <4>1, <4>2
    <3>2. CASE j # d
      <4>1. mReferenceObjects[j] # NULL
        BY <1>3, <1>4, <2>3, <3>2
      <4>2. PICK k \in 1..Len(stored) : mOrderMap[k - 1] = j + 1
        BY <2>1, <4>1 DEF SlotsNamed
      <4>3. k \in 1..Len(stored')
        BY <1>5, <1>7
      <4>. QED
        BY <1>3, <4>2, <4>3
    <3>. QED
      BY <3>1, <3>2
  <2>. QED
    BY <2>2, <2>3 DEF SlotsNamed
<1>9. OrderIsOneToOne' => OrderIsOneToOne
  BY <1>3 DEF OrderIsOneToOne
<1>10. ASSUME OrderIsOneToOne', ~failed', NEW o \in Obj PROVE surplus'[o] <= 0
  <2>1. surplus[o] <= 0 /\ surplus \in [Obj -> Int]
    BY <1>9, <1>10 DEF Accounted, OnlyFailuresLeak, Registers, Sound, Shape
  <2>2. surplus'[o] = surplus[o] + CountIn(o, Displaced)
    BY <1>4, <2>1, Abandons DEF Registers
  <2>3. CountIn(o, Displaced) = 0
    BY <1>4, <1>8, <1>9, <1>10, OnePlace
  <2>. QED
    BY <2>1, <2>2, <2>3
<1>. QED
  BY <1>8, <1>9, <1>10 DEF Accounted, OnlyFailuresLeak, Registers

LEMMA HeaderAccounted == ASSUME Sound, Accounted, ReadMarshalHeader PROVE Accounted'
<1>1. phase = "header" /\ phase' \in {"load", "loaded"} /\ surplus' = surplus
      /\ mReferenceObjects' = mReferenceObjects
  BY DEF ReadMarshalHeader, heapVars, Refs!SetOrder, mapVars
<1>2. OnlyFailuresLeak'
  BY <1>1 DEF Accounted, OnlyFailuresLeak
<1>3. SlotsNamed'
  BY <1>1 DEF Accounted, SlotsNamed
<1>. QED
  BY <1>1, <1>2, <1>3 DEF Accounted

LEMMA DestroyAccounted == ASSUME Sound, Accounted, DestroyStream PROVE Accounted'
<1>1. /\ phase = "dropped" /\ phase' = "done" /\ surplus' = surplus /\ failed' = failed
      /\ UNCHANGED <<mExpectedObjectsCount, mOrderMap>>
  BY DEF DestroyStream, Refs!Clear
<1>. QED
  BY <1>1 DEF Accounted, OnlyFailuresLeak, OrderIsOneToOne

LEMMA UndefinedAccounted == ASSUME Undefined PROVE Accounted'
BY DEF Undefined, Accounted, OnlyFailuresLeak

LEMMA ContainerLoses ==
  ASSUME Sound, Unmarshals, NEW k, NEW n, NEW shared, HasRoom, NewContainer(k, n, shared)
  PROVE  Undefined \/ Loses \/ Keeps \/ Registers
<1>1. phase = "load" /\ Fresh \in Obj /\ surplus \in [Obj -> Int]
  BY FreshIsObj DEF Unmarshals, Running, Sound, Shape
<1>2. CASE /\ UNCHANGED <<phase, failed, surplus>> /\ UnchangedMap
  BY <1>1, <1>2 DEF Keeps, UnchangedMap
<1>3. CASE Return(NULL) /\ UnchangedMap
  BY <1>1, <1>3 DEF Loses, Return, UnchangedMap
<1>4. CASE Register(Fresh) /\ surplus' = Abandon(surplus, Displaced) /\ UNCHANGED <<phase, failed>>
  BY <1>1, <1>4 DEF Registers
<1>. QED
  BY <1>2, <1>3, <1>4, Zenon DEF NewContainer, Descend

(* No action that this leaves out can be taken. *)
LEMMA LosesOrKeeps ==
  ASSUME NoCalls, Sound, Reported, Next, ~ReadMarshalHeader, ~DestroyStream
  PROVE  Undefined \/ Loses \/ Keeps \/ Registers
<1>1. surplus \in [Obj -> Int]
  BY DEF Sound, Shape
<1>2. CASE ReadLeaf \/ ReadTuple \/ ReadList \/ ReadDict
  BY <1>2, ContainerLoses DEF ReadLeaf, ReadTuple, ReadList, ReadDict, AtOpcode
<1>3. CASE \/ ReadFails \/ RefuseItem \/ RefuseEntry \/ InstanceNameFails \/ InstanceBasesFail
  BY <1>3 DEF ReadFails, RefuseItem, RefuseEntry, InstanceNameFails, InstanceBasesFail, Returned, Unmarshals,
     Running, ReturnFrom, Return, Loses, UnchangedMap
<1>4. CASE \/ ReadSingleton \/ Complete \/ ReadRef \/ AddItem \/ DictPayload \/ DictEntry \/ ReadInstance \/ ReadPackedRow
  <2>1. (UNCHANGED <<surplus, phase>> /\ UnchangedMap /\ (failed => failed')) \/ Undefined
    BY <1>4, Zenon DEF ReadSingleton, Complete, ReadRef, AddItem, DictPayload, DictEntry, ReadInstance, ReadPackedRow,
       ReturnExisting, ReturnFrom, Return, Continue, Descend, UnchangedHeap, heapVars
  <2>2. phase = "load"
    BY <1>4 DEF ReadSingleton, Complete, ReadRef, AddItem, DictPayload, DictEntry, ReadInstance, ReadPackedRow,
       Returned, AtOpcode, Unmarshals, Running
  <2>. QED
    BY <1>1, <2>1, <2>2 DEF Keeps, UnchangedMap
<1>5. CASE ReadClassString
  <2>1. phase = "load"
    BY <1>5 DEF ReadClassString, AtOpcode, Unmarshals, Running
  <2>2. \/ Return(NULL) /\ UnchangedMap
        \/ Undefined
        \/ UNCHANGED <<surplus, phase>> /\ UnchangedMap /\ (failed => failed')
        \/ \E i \in DOMAIN Classes : /\ Register(Prototype(i)) /\ surplus' = Abandon(surplus, Displaced)
                                     /\ UNCHANGED phase /\ (failed => failed')
    BY <1>5, Zenon DEF ReadClassString, ReturnExisting, Return
  <2>3. CASE Return(NULL) /\ UnchangedMap
    BY <2>1, <2>3 DEF Loses, Return, UnchangedMap
  <2>4. CASE UNCHANGED <<surplus, phase>> /\ UnchangedMap /\ (failed => failed')
    BY <1>1, <2>1, <2>4 DEF Keeps, UnchangedMap
  <2>5. CASE \E i \in DOMAIN Classes : /\ Register(Prototype(i)) /\ surplus' = Abandon(surplus, Displaced)
                                       /\ UNCHANGED phase /\ (failed => failed')
    <3>1. PICK i \in DOMAIN Classes : /\ Register(Prototype(i)) /\ surplus' = Abandon(surplus, Displaced)
                                      /\ UNCHANGED phase /\ (failed => failed')
      BY <2>5
    <3>2. Prototype(i) \in Obj
      BY PrototypeIsObj
    <3>. QED
      BY <2>1, <3>1, <3>2, Zenon DEF Registers
  <2>. QED
    BY <2>2, <2>3, <2>4, <2>5
<1>6. CASE InstanceName
  <2>1. phase = "load" /\ Fresh \in Obj
    BY <1>6, FreshIsObj DEF InstanceName, Returned, Running
  <2>2. \/ ReturnFrom(NULL) /\ UnchangedMap
        \/ Undefined
        \/ UNCHANGED <<surplus, phase, failed>> /\ UnchangedMap
        \/ /\ Register(Fresh) /\ surplus' = Abandon(surplus, Displaced)
           /\ UNCHANGED <<phase, failed>>
    BY <1>6, Zenon DEF InstanceName, Continue
  <2>3. CASE ReturnFrom(NULL) /\ UnchangedMap
    BY <2>1, <2>3 DEF Loses, ReturnFrom, Return, UnchangedMap
  <2>4. CASE UNCHANGED <<surplus, phase, failed>> /\ UnchangedMap
    BY <1>1, <2>1, <2>4 DEF Keeps, UnchangedMap
  <2>5. CASE /\ Register(Fresh) /\ surplus' = Abandon(surplus, Displaced)
             /\ UNCHANGED <<phase, failed>>
    BY <2>1, <2>5 DEF Registers
  <2>. QED
    BY <2>2, <2>3, <2>4, <2>5
<1>7. CASE InstanceInit
  <2>1. CASE Undefined
    BY <2>1
  <2>2. CASE ~Undefined
    <3>1. PICK c : c = heap[Top.obj].cls
      OBVIOUS
    <3>2. /\ surplus' = Overdraw(surplus, Consumed(c, val)) /\ ReturnFrom(Top.obj) /\ UnchangedMap
          /\ phase = "load" /\ val # NULL
      BY <1>7, <2>2, <3>1, Zenon DEF InstanceInit, Returned, Running
    <3>3. val \in Obj
      BY <3>2 DEF Sound, Shape, Ref
    <3>4. PICK used \in Seq(Ref) : used = Consumed(c, val)
      BY <3>3, KeptFacts
    <3>5. \A o \in Obj : surplus'[o] = surplus[o] - CountIn(o, used) /\ CountIn(o, used) \in Nat
      <4>1. surplus' = Overdraw(surplus, used)
        BY <3>2, <3>4
      <4>. QED
        BY <1>1, <4>1, Overdraws, CountType
    <3>6. ASSUME NEW o \in Obj PROVE surplus'[o] <= surplus[o]
      <4>1. surplus[o] \in Int /\ surplus'[o] = surplus[o] - CountIn(o, used) /\ CountIn(o, used) \in Nat
        BY <1>1, <3>5
      <4>. QED
        BY <4>1
    <3>. QED
      BY <3>2, <3>6 DEF Keeps, ReturnFrom, Return, UnchangedMap
  <2>. QED
    BY <2>1, <2>2
<1>8. CASE PackedRowHeader
  <2>1. phase = "load"
    BY <1>8 DEF PackedRowHeader, Returned, Running
  <2>2. \/ ReturnFrom(NULL) /\ UnchangedMap
        \/ Undefined
        \/ ReturnFrom(Fresh) /\ UNCHANGED surplus /\ UnchangedMap
    BY <1>8, Zenon DEF PackedRowHeader
  <2>3. CASE ReturnFrom(NULL) /\ UnchangedMap
    BY <2>1, <2>3 DEF Loses, ReturnFrom, Return, UnchangedMap
  <2>4. CASE ReturnFrom(Fresh) /\ UNCHANGED surplus /\ UnchangedMap
    <3>1. UNCHANGED <<phase, surplus, mapVars, stored>> /\ (failed => failed')
      BY <2>4, Zenon DEF ReturnFrom, Return, UnchangedMap
    <3>2. \A o \in Obj : surplus'[o] <= surplus[o]
      BY <1>1, <3>1
    <3>. QED
      BY <2>1, <3>1, <3>2 DEF Keeps
  <2>. QED
    BY <2>2, <2>3, <2>4
<1>9. CASE ReadCall
  BY <1>9 DEF ReadCall, AtOpcode, NoCalls
<1>10. CASE LoadReturns \/ ReleaseResult
  BY <1>1, <1>10 DEF LoadReturns, ReleaseResult, Running, UnchangedHeap, heapVars, UnchangedMap, Keeps
<1>11. CASE Release
  <2>1. Undefined \/ (UNCHANGED <<surplus, phase, failed>> /\ UnchangedMap /\ phase # "undefined")
    BY <1>11 DEF Release, ReleaseOne, control
  <2>. QED
    BY <1>1, <2>1 DEF Keeps, UnchangedMap
<1>. QED
  BY <1>2, <1>3, <1>4, <1>5, <1>6, <1>7, <1>8, <1>9, <1>10, <1>11, NoCallSteps DEF Next

LEMMA NextAccounted == ASSUME NoCalls PROVE Sound /\ Sound' /\ Reported /\ Accounted /\ [Next]_vars => Accounted'
<1> SUFFICES ASSUME Sound, Sound', Reported, Accounted, [Next]_vars PROVE Accounted'
  OBVIOUS
<1>0. surplus' \in [Obj -> Int]
  BY DEF Sound, Shape
<1>1. CASE UNCHANGED vars
  BY <1>1 DEF vars, heapVars, mapVars, control, Accounted, OnlyFailuresLeak, OrderIsOneToOne, SlotsNamed
<1>2. CASE ReadMarshalHeader
  BY <1>2, HeaderAccounted
<1>3. CASE DestroyStream
  BY <1>3, DestroyAccounted
<1>4. CASE Next /\ ~ReadMarshalHeader /\ ~DestroyStream
  <2>. QED
    BY <1>0, <1>4, LosesOrKeeps, LosesAccounted, KeepsAccounted, PlacesAccounted, UndefinedAccounted
<1>. QED
  BY <1>1, <1>2, <1>3, <1>4

(* Where no object is called, a load that succeeds, its map naming every     *)
(* slot once, accounts for every reference that unmarshal, the inits of the  *)
(* classes and the shared-object map took.                                   *)
THEOREM FailuresOnly == ASSUME NoCalls PROVE Spec => []OnlyFailuresLeak
<1>1. Init => Reported /\ Accounted
  <2> SUFFICES ASSUME Init PROVE Reported /\ Accounted
    OBVIOUS
  <2>1. /\ stack = <<>> /\ phase = "header" /\ ~failed /\ reading /\ val = NULL
        /\ surplus = [o \in Obj |-> 0] /\ mReferenceObjects = [i \in 0..MaxShared |-> NULL]
    BY DEF Init, Refs!Init, Refs!Slot
  <2>2. Len(stack) = 0
    BY <2>1
  <2>3. \A o \in Obj : surplus[o] <= 0
    BY <2>1
  <2>. QED
    BY <2>1, <2>2, <2>3 DEF Reported, ErrorReturnsNull, OnlyData, Accounted, OnlyFailuresLeak, SlotsNamed
<1>2. Sound /\ Reported /\ [Next]_vars => Reported'
  BY NextReports
<1>3. Sound /\ Sound' /\ Reported /\ Accounted /\ [Next]_vars => Accounted'
  BY NextAccounted
<1>4. Accounted => OnlyFailuresLeak
  BY DEF Accounted
<1>. QED
  BY <1>1, <1>2, <1>3, <1>4, SoundAlways, PTL DEF Spec
=============================================================================
