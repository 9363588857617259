---------------------------- MODULE PointerPool ----------------------------
(***************************************************************************)
(* The pointer pool of crates/liw-input/src/touch.rs: which touch pointer  *)
(* (equivalently, which multi-touch slot) belongs to which pool key.       *)
(*                                                                         *)
(* A pool is a record of the two fields of the Rust struct. `assigned' is  *)
(* a HashMap there and a total function with NoId for an absent key here.  *)
(* The operations are pure operators pool -> pool, so that the engine,     *)
(* whose handlers make several pool calls in a row, composes them.         *)
(***************************************************************************)
EXTENDS Integers

CONSTANTS
  MaxPointers,  \* MAX_POINTERS, the number of simultaneous touches (10)
  Keys          \* the strings the pool is ever asked about

ASSUME MaxPointersAssumption == MaxPointers \in Nat \ {0}

Ids  == 0 .. (MaxPointers - 1)
NoId == -1

Pools == [assigned : [Keys -> Ids \cup {NoId}], inUse : [Ids -> BOOLEAN]]

NewPool == [assigned |-> [k \in Keys |-> NoId], inUse |-> [i \in Ids |-> FALSE]]

----------------------------------------------------------------------------
(* The id `in_use.iter().position(|used| !used)' finds, if there is one.   *)

FreeIds(p) == {i \in Ids : ~p.inUse[i]}

LowestFree(p) ==
  IF FreeIds(p) = {} THEN NoId
  ELSE CHOOSE i \in FreeIds(p) : \A j \in FreeIds(p) : i <= j

(* The result of acquire: the key's own id, else a free one, else NoId.    *)
AcquiredId(p, k) ==
  IF p.assigned[k] # NoId THEN p.assigned[k] ELSE LowestFree(p)

Grant(p, k, i) ==
  [assigned |-> [p.assigned EXCEPT ![k] = i], inUse |-> [p.inUse EXCEPT ![i] = TRUE]]

(* acquire: idempotent, and a full pool is left as it is.                  *)
Acquire(p, k) ==
  IF AcquiredId(p, k) = NoId THEN p ELSE Grant(p, k, AcquiredId(p, k))

(* release of every key in K (most callers release one).                   *)
Release(p, K) ==
  [assigned |-> [k \in Keys |-> IF k \in K THEN NoId ELSE p.assigned[k]],
   inUse    |-> [i \in Ids  |-> p.inUse[i] /\ \A k \in K : p.assigned[k] # i]]

(* rotate: the fresh id is chosen while the old one is still held, and     *)
(* without a fresh id nothing changes.                                     *)
CanRotate(p, k) == p.assigned[k] # NoId /\ LowestFree(p) # NoId

Rotate(p, k) ==
  IF ~CanRotate(p, k) THEN p
  ELSE [assigned |-> [p.assigned EXCEPT ![k] = LowestFree(p)],
        inUse    |-> [p.inUse EXCEPT ![LowestFree(p)] = TRUE, ![p.assigned[k]] = FALSE]]

(* rename: the id changes owner, the slot does not change.                 *)
Rename(p, from, to) ==
  IF p.assigned[from] = NoId THEN p
  ELSE [p EXCEPT !.assigned = [@ EXCEPT ![from] = NoId, ![to] = p.assigned[from]]]

(* release_all: the pool part; the Ups it returns are the held ids.        *)
HeldIds(p) == {i \in Ids : \E k \in Keys : p.assigned[k] = i}

(* The two fields agree: an id is in use exactly when some key holds it,   *)
(* and no two keys hold the same id.                                       *)
Consistent(p) ==
  /\ \A i \in Ids : p.inUse[i] <=> \E k \in Keys : p.assigned[k] = i
  /\ \A j, k \in Keys : j # k /\ p.assigned[j] # NoId => p.assigned[j] # p.assigned[k]
=============================================================================
