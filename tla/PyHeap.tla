------------------------------- MODULE PyHeap -------------------------------
(***************************************************************************)
(* The reference-counted objects of src/src/PyObjects.cpp: every PyObject  *)
(* starts with one reference, inc_ref adds one, dec_ref takes one and      *)
(* deletes the object at zero, and the destructor of a container releases  *)
(* what the container holds.  The values of leaf objects (numbers,         *)
(* strings, embedded streams) are not modelled, only their existence.      *)
(*                                                                         *)
(* dec_ref recurses through destructors.  Here the references still to be  *)
(* released stand in the sequence pending, in the order the destructors    *)
(* reach them, and ReleaseOne takes the next one; a module that uses this  *)
(* one lets nothing else happen while pending is not empty.                *)
(***************************************************************************)
EXTENDS Integers, Sequences, FiniteSets

CONSTANT MaxObj     (* bound: objects ever allocated, addresses are not reused *)

ASSUME MaxObjAssumption == MaxObj \in Nat \ {0}

VARIABLES heap,     (* the objects, by address *)
          pending,  (* references the running release has still to drop *)
          surplus      (* ghost: references of each object that nobody will drop *)

heapVars == <<heap, pending, surplus>>

NULL == 0
Obj  == 1..MaxObj
Kind == {"unused", "freed", "leaf", "tuple", "list", "dict", "class", "row"}

Unused == [kind |-> "unused", refcnt |-> 0, kids |-> <<>>, size |-> 0, cls |-> "none"]

(* A new object.  kids are the references it holds so far, in order; a     *)
(* tuple or list of size n whose kids are fewer has NULL entries left.     *)
NewObject(k, n, c, refs) ==
  [kind |-> k, refcnt |-> refs, kids |-> <<>>, size |-> n, cls |-> c]

Live(o) == heap[o].kind \notin {"unused", "freed"}
AllLive(s) == \A i \in DOMAIN s : Live(s[i])
Is(o, k) == o # NULL /\ heap[o].kind = k

HasRoom == \E o \in Obj : heap[o].kind = "unused"
Fresh   == CHOOSE o \in Obj : heap[o].kind = "unused"

(* PyTuple::get_item, borrowed; i counts from 0. *)
Item(o, i) == IF i < Len(heap[o].kids) THEN heap[o].kids[i + 1] ELSE NULL

(* PyTuple, PyDict and PyClass destructors skip empty entries (PySafeDecRef, *)
(* or a test), PyList::clear does not: releasing a list whose entries were   *)
(* not all filled dereferences NULL.                                         *)
UnfinishedList(o) == heap[o].kind = "list" /\ Len(heap[o].kids) < heap[o].size

(* dec_ref on the next reference, defined while the object is still there;  *)
(* PySafeDecRef skips NULL.                                                 *)
ReleaseDefined ==
  Head(pending) # NULL =>
    /\ Live(Head(pending))
    /\ heap[Head(pending)].refcnt = 1 => ~UnfinishedList(Head(pending))

ReleaseOne ==
  /\ pending # <<>>
  /\ ReleaseDefined
  /\ LET o == Head(pending) IN
       \/ /\ o = NULL
          /\ pending' = Tail(pending)
          /\ UNCHANGED heap
       \/ /\ o # NULL /\ heap[o].refcnt > 1
          /\ heap' = [heap EXCEPT ![o].refcnt = @ - 1]
          /\ pending' = Tail(pending)
       \/ /\ o # NULL /\ heap[o].refcnt = 1
          /\ heap' = [heap EXCEPT ![o].kind = "freed", ![o].refcnt = 0, ![o].kids = <<>>]
          /\ pending' = heap[o].kids \o Tail(pending)
  /\ UNCHANGED surplus

(* One more reference to each element of the sequence s. *)
CountIn(o, s)   == Cardinality({i \in DOMAIN s : s[i] = o})
IncRefs(h, s)   == [o \in DOMAIN h |-> [h[o] EXCEPT !.refcnt = @ + CountIn(o, s)]]
(* The holders of the references in s forget them, or drop more than they hold. *)
Abandon(l, s)   == [o \in DOMAIN l |-> l[o] + CountIn(o, s)]
Overdraw(l, s)  == [o \in DOMAIN l |-> l[o] - CountIn(o, s)]
=============================================================================
