------------------------ MODULE UnmarshalReferenceMap ------------------------
(***************************************************************************)
(* The map of shared objects of src/src/MarshalReferenceMap.h.  The header *)
(* of a marshal stream announces how many shared objects follow and, at    *)
(* the end of the buffer, the slot each of them goes to; objects are       *)
(* registered in the order they are met and read back by slot number.      *)
(***************************************************************************)
EXTENDS Naturals

CONSTANTS MaxShared,  (* bound: the shared-object count of the header, 0x1000 in the code *)
          Obj, NULL   (* what the map holds, and the empty slot *)

VARIABLES mExpectedObjectsCount, mStoreObjectIndex,
          mOrderMap,           (* slot number, from 1, of the i-th registered object *)
          mReferenceObjects    (* the slots *)

mapVars == <<mExpectedObjectsCount, mStoreObjectIndex, mOrderMap, mReferenceObjects>>

Slot == 0..MaxShared

(* std::vector::resize(count + 1); both vectors are empty until the header is read. *)
SlotCount == IF mExpectedObjectsCount = 0 THEN 0 ELSE mExpectedObjectsCount + 1

Init ==
  /\ mExpectedObjectsCount = 0
  /\ mStoreObjectIndex = 0
  /\ mOrderMap = [i \in Slot |-> 0]
  /\ mReferenceObjects = [i \in Slot |-> NULL]

(* SetOrderMapSize, SetSharedObjectCount and a SetObjectOrder for each entry *)
(* of the trailer; entry count of the order map keeps the 0 of resize.       *)
SetOrder(count, order) ==
  /\ mExpectedObjectsCount' = count
  /\ mOrderMap' = [i \in Slot |-> IF i < count THEN order[i] ELSE 0]
  /\ UNCHANGED <<mStoreObjectIndex, mReferenceObjects>>

(* StoreReferencedObject returns -1: nothing was announced, or the store     *)
(* index has passed the announced count.  A NULL object is refused as well.  *)
Refuses(object) ==
  \/ object = NULL
  \/ mExpectedObjectsCount = 0
  \/ mStoreObjectIndex > mExpectedObjectsCount

(* objectloc is uint32: an order entry of 0 makes it 2^32 - 1, outside the vector. *)
StoreWraps == mOrderMap[mStoreObjectIndex] = 0
StoreLocationStuck == mOrderMap[0] - 1
StoreLocation == mOrderMap[mStoreObjectIndex] - 1

(* The slot is overwritten whether or not it was in use. *)
Store(object) ==
  /\ ~Refuses(object)
  /\ ~StoreWraps
  /\ mReferenceObjects' = [mReferenceObjects EXCEPT ![StoreLocation] = object]
  /\ mStoreObjectIndex' = mStoreObjectIndex + 1
  /\ UNCHANGED <<mExpectedObjectsCount, mOrderMap>>

(* What Store replaces without releasing it. *)
Overwritten == mReferenceObjects[StoreLocation]

(* GetStoredObject; mStoredObjectCount always equals mStoreObjectIndex. *)
HasStoredObject(location) ==
  /\ location # 0
  /\ location - 1 <= mStoreObjectIndex
  /\ location <= SlotCount
  /\ mReferenceObjects[location - 1] # NULL

StoredObject(location) == mReferenceObjects[location - 1]

(* The destructor releases the slots 0 .. count-1. *)
Clear ==
  /\ mReferenceObjects' = [i \in Slot |-> NULL]
  /\ UNCHANGED <<mExpectedObjectsCount, mStoreObjectIndex, mOrderMap>>

TypeOK ==
  /\ mExpectedObjectsCount \in Slot
  /\ mStoreObjectIndex \in 0..(MaxShared + 1)
  /\ mOrderMap \in [Slot -> 0..MaxShared]
  /\ mReferenceObjects \in [Slot -> Obj \cup {NULL}]
=============================================================================
