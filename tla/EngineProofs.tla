---------------------------- MODULE EngineProofs ----------------------------
(***************************************************************************)
(* The engine's safety, for every profile, pool size and backend.          *)
(*                                                                         *)
(* Inside an arm the engine goes through intermediate records; the lemmas  *)
(* say of each helper that it keeps two predicates:                        *)
(*   Frame(e, s)  the actions emitted so far are legal for a receiver that *)
(*                had the ids s down, and lead to the pool's view of the   *)
(*                fingers;                                                 *)
(*   Sound(e)     the engine's own bookkeeping agrees with its pool.       *)
(***************************************************************************)
EXTENDS Engine, FiniteSetTheorems, NaturalsInduction, TLAPS

----------------------------------------------------------------------------
(* The pointer pool: what each of its operations returns, and that each of *)
(* them keeps the pool's two fields consistent.                            *)

(* The strict order on Nat as the set of pairs the library's theorem on    *)
(* minimal elements speaks about.                                          *)
Below == {ss \in Nat \X Nat : ss[1] < ss[2]}

(* A set of naturals has a least element, so `position' finds the first    *)
(* free id whenever some id is free.                                       *)
LEMMA SmallestId ==
  ASSUME NEW S, S \subseteq Nat, S # {}
  PROVE  \E i \in S : \A j \in S : i <= j
<1>1. IsWellFoundedOn(Below, Nat)
  BY NatLessThanWellFounded DEF OpToRel, Below
<1>2. PICK i \in S : \A j \in S : ~(<<j, i>> \in Below)
  BY <1>1, WFMin
<1>3. ASSUME NEW j \in S PROVE i <= j
  <2>1. i \in Nat /\ j \in Nat
    OBVIOUS
  <2>2. ~(<<j, i>> \in Below)
    BY <1>2
  <2>3. ~(j < i)
    BY <2>1, <2>2 DEF Below
  <2> QED BY <2>1, <2>3
<1> QED BY <1>3

(* The `position' of acquire and rotate: an id nobody uses, or NoId.       *)
LEMMA LowestFreeIsFree ==
  ASSUME NEW p \in Pools
  PROVE  /\ LowestFree(p) \in Ids \cup {NoId}
         /\ LowestFree(p) # NoId => LowestFree(p) \in Ids /\ ~p.inUse[LowestFree(p)]
<1>1. CASE FreeIds(p) = {}
  BY <1>1 DEF LowestFree
<1>2. CASE FreeIds(p) # {}
  <2>1. FreeIds(p) \subseteq Nat
    BY MaxPointersAssumption DEF FreeIds, Ids
  <2>2. \E i \in FreeIds(p) : \A j \in FreeIds(p) : i <= j
    BY <1>2, <2>1, SmallestId
  <2>3. LowestFree(p) \in FreeIds(p)
    BY <1>2, <2>2 DEF LowestFree
  <2> QED BY <2>3 DEF FreeIds
<1> QED BY <1>1, <1>2

(* NoId is not a pointer id.                                               *)
LEMMA NoIdIsNoId == NoId \notin Ids
BY MaxPointersAssumption DEF Ids, NoId

(* acquire returns an id that the key holds already or nobody holds.       *)
LEMMA AcquiredIdType ==
  ASSUME NEW p \in Pools, NEW k \in Keys
  PROVE  AcquiredId(p, k) \in Ids \cup {NoId}
BY LowestFreeIsFree DEF AcquiredId, Pools

(* A new pool is typed and consistent: no key holds an id.                 *)
LEMMA NewPoolConsistent == NewPool \in Pools /\ Consistent(NewPool)
BY NoIdIsNoId DEF NewPool, Pools, Consistent

(* acquire: the key holds the id it returns, that id is in use, and        *)
(* nothing else of the pool changes.                                       *)
LEMMA AcquireEffect ==
  ASSUME NEW p \in Pools, Consistent(p), NEW k \in Keys
  PROVE  /\ Acquire(p, k) \in Pools
         /\ Consistent(Acquire(p, k))
         /\ \A j \in Keys : Acquire(p, k).assigned[j] =
                              IF j = k THEN AcquiredId(p, k) ELSE p.assigned[j]
         /\ \A i \in Ids : Acquire(p, k).inUse[i] <=> p.inUse[i] \/ i = AcquiredId(p, k)
         /\ p.assigned[k] = NoId /\ AcquiredId(p, k) # NoId =>
              ~p.inUse[AcquiredId(p, k)]
<1> DEFINE id == AcquiredId(p, k)
           q  == Acquire(p, k)
<1>0. id \in Ids \cup {NoId}
  BY AcquiredIdType
<1>1. CASE id = NoId
  <2>1. q = p /\ p.assigned[k] = NoId
    BY <1>1 DEF Acquire, AcquiredId
  <2> QED BY <1>1, <2>1, NoIdIsNoId
<1>2. CASE id # NoId
  <2>1. q = Grant(p, k, id) /\ id \in Ids
    BY <1>0, <1>2 DEF Acquire
  <2>2. q.assigned = [p.assigned EXCEPT ![k] = id] /\ q.inUse = [p.inUse EXCEPT ![id] = TRUE]
    BY <2>1 DEF Grant
  <2>3. q \in Pools
    BY <2>1 DEF Pools, Grant
  <2>4. \A j \in Keys : q.assigned[j] = IF j = k THEN id ELSE p.assigned[j]
    BY <2>2 DEF Pools
  <2>5. \A i \in Ids : q.inUse[i] <=> p.inUse[i] \/ i = id
    BY <2>2 DEF Pools
  <2>6. p.assigned[k] = NoId => ~p.inUse[id]
    BY <1>2, LowestFreeIsFree DEF AcquiredId
  <2>7. p.assigned[k] # NoId => id = p.assigned[k]
    BY DEF AcquiredId
  <2>8. \A j \in Keys : j # k => p.assigned[j] # id
    BY <1>2, <2>1, <2>6, <2>7 DEF Consistent
  <2>9. Consistent(q)
    BY <2>1, <2>4, <2>5, <2>7, <2>8, NoIdIsNoId DEF Consistent
  <2> QED BY <2>3, <2>4, <2>5, <2>6, <2>9
<1> QED BY <1>1, <1>2

(* release: the keys hold nothing, their ids are free.                     *)
LEMMA ReleaseEffect ==
  ASSUME NEW p \in Pools, Consistent(p), NEW K, K \subseteq Keys
  PROVE  /\ Release(p, K) \in Pools
         /\ Consistent(Release(p, K))
         /\ \A j \in Keys : Release(p, K).assigned[j] = IF j \in K THEN NoId ELSE p.assigned[j]
         /\ \A i \in Ids : Release(p, K).inUse[i] <=>
                             p.inUse[i] /\ i \notin {p.assigned[k] : k \in K}
<1> DEFINE q == Release(p, K)
<1>1. \A j \in Keys : q.assigned[j] = IF j \in K THEN NoId ELSE p.assigned[j]
  BY DEF Release
<1>2. \A i \in Ids : q.inUse[i] <=> p.inUse[i] /\ \A k \in K : p.assigned[k] # i
  BY DEF Release
<1>3. q \in Pools
  <2>1. [k \in Keys |-> IF k \in K THEN NoId ELSE p.assigned[k]] \in [Keys -> Ids \cup {NoId}]
    BY DEF Pools
  <2>2. [i \in Ids |-> p.inUse[i] /\ \A k \in K : p.assigned[k] # i] \in [Ids -> BOOLEAN]
    OBVIOUS
  <2> QED BY <2>1, <2>2 DEF Release, Pools
<1>4. Consistent(q)
  BY <1>1, <1>2, NoIdIsNoId DEF Consistent, Pools
<1> QED BY <1>1, <1>2, <1>3, <1>4

(* rotate: the key moves to an id that was free, and its old id is free.   *)
LEMMA RotateEffect ==
  ASSUME NEW p \in Pools, Consistent(p), NEW k \in Keys, CanRotate(p, k)
  PROVE  /\ Rotate(p, k) \in Pools
         /\ Consistent(Rotate(p, k))
         /\ LowestFree(p) \in Ids /\ ~p.inUse[LowestFree(p)]
         /\ p.assigned[k] \in Ids /\ p.inUse[p.assigned[k]]
         /\ \A j \in Keys : Rotate(p, k).assigned[j] =
                              IF j = k THEN LowestFree(p) ELSE p.assigned[j]
         /\ \A i \in Ids : Rotate(p, k).inUse[i] <=>
              (p.inUse[i] /\ i # p.assigned[k]) \/ i = LowestFree(p)
<1> DEFINE q == Rotate(p, k)
           new == LowestFree(p)
           old == p.assigned[k]
<1>1. new \in Ids /\ ~p.inUse[new]
  BY LowestFreeIsFree DEF CanRotate
<1>2. old \in Ids /\ p.inUse[old]
  BY DEF CanRotate, Consistent, Pools
<1>3. q.assigned = [p.assigned EXCEPT ![k] = new] /\
      q.inUse = [p.inUse EXCEPT ![new] = TRUE, ![old] = FALSE]
  BY DEF Rotate
<1>4. \A j \in Keys : q.assigned[j] = IF j = k THEN new ELSE p.assigned[j]
  BY <1>3 DEF Pools
<1>5. new # old
  BY <1>1, <1>2
<1>6. \A i \in Ids : q.inUse[i] <=> (p.inUse[i] /\ i # old) \/ i = new
  BY <1>1, <1>2, <1>3, <1>5 DEF Pools
<1>7. q \in Pools
  BY <1>1, <1>2 DEF Rotate, Pools
<1>8. \A j \in Keys : j # k => p.assigned[j] # new /\ p.assigned[j] # old
  BY <1>1, <1>2, NoIdIsNoId DEF Consistent
<1>9. Consistent(q)
  BY <1>1, <1>2, <1>4, <1>5, <1>6, <1>8 DEF Consistent
<1> QED BY <1>1, <1>2, <1>4, <1>6, <1>7, <1>9

(* rename: only the owner of the id changes, provided the new owner held   *)
(* nothing; without that condition an id in use would have no owner.       *)
LEMMA RenameEffect ==
  ASSUME NEW p \in Pools, Consistent(p), NEW from \in Keys, NEW to \in Keys,
         from # to, p.assigned[to] = NoId, p.assigned[from] # NoId
  PROVE  /\ Rename(p, from, to) \in Pools
         /\ Consistent(Rename(p, from, to))
         /\ \A j \in Keys : Rename(p, from, to).assigned[j] =
                              IF j = from THEN NoId
                              ELSE IF j = to THEN p.assigned[from] ELSE p.assigned[j]
         /\ Rename(p, from, to).inUse = p.inUse
<1> DEFINE q == Rename(p, from, to)
<1>1. q = [p EXCEPT !.assigned = [p.assigned EXCEPT ![from] = NoId, ![to] = p.assigned[from]]]
  BY DEF Rename
<1>2. q.inUse = p.inUse /\ q \in Pools
  BY <1>1 DEF Pools
<1>3. \A j \in Keys : q.assigned[j] =
        IF j = from THEN NoId ELSE IF j = to THEN p.assigned[from] ELSE p.assigned[j]
  BY <1>1 DEF Pools
<1>4. Consistent(q)
  BY <1>2, <1>3, NoIdIsNoId DEF Consistent
<1> QED BY <1>2, <1>3, <1>4

----------------------------------------------------------------------------
(* The predicates.                                                         *)

Frame(e, s) ==
  /\ e \in Engines
  /\ Consistent(e.pool)
  /\ \A i \in Ids : /\ Legal(e.acts[i], i \in s)
                    /\ After(e.acts[i], i \in s) <=> e.pool.inUse[i]

Own(e) == \A n \in Names : e.swipe[n] = IF n \in Swipes THEN IdOf(e, n) ELSE NoId

AimTracked(e) ==
  /\ AimName # NoName /\ IdOf(e, AimName) # NoId => e.aimPos # NoPos /\ ~e.aimDownAt
  /\ e.second <=> IdOf(e, SecondKey) # NoId

JoyPendingIsJoystick(e) == e.joyPending \in Joysticks \cup {NoName}

HeldBy(e) ==
  \A n \in HoldBindings \cup Joysticks :
    IdOf(e, n) # NoId => Profile[n].triggers \cap e.held # {}

(* The aim finger, or its delayed press, needs the toggle to be held.      *)
ToggleHeld(e) ==
  AimHasToggle /\ (IdOf(e, AimName) # NoId \/ e.aimDownAt) =>
    Profile[AimName].triggers \cap e.held # {}

OffMeansUp(e) == ~e.enabled => \A k \in Keys : IdOf(e, k) = NoId

Sound(e) ==
  /\ Own(e) /\ AimTracked(e) /\ JoyPendingIsJoystick(e)
  /\ HeldBy(e) /\ ToggleHeld(e) /\ OffMeansUp(e)

(* Two records that differ in their fingers at most.                       *)
SameButFingers(e, f) ==
  /\ f.held = e.held /\ f.swipe = e.swipe /\ f.joyPending = e.joyPending
  /\ f.aimPos = e.aimPos /\ f.second = e.second /\ f.aimPending = e.aimPending
  /\ f.aimAccum = e.aimAccum /\ f.aimDownAt = e.aimDownAt /\ f.enabled = e.enabled

----------------------------------------------------------------------------
(* The profile.                                                            *)

(* Each binding is of one kind, and the second finger's key is of none.    *)
LEMMA KindsDiffer ==
  /\ Swipes \cap Joysticks = {} /\ Swipes \cap HoldBindings = {}
  /\ Joysticks \cap HoldBindings = {}
  /\ SecondKey \notin Swipes \cup Joysticks \cup HoldBindings
  /\ AimName \notin Swipes \cup Joysticks \cup HoldBindings
  /\ Swipes \subseteq Names /\ Joysticks \subseteq Names /\ HoldBindings \subseteq Names
  /\ NoName \notin Names
<1>1. AimName # NoName => AimName \in Names /\ Profile[AimName].kind = "aim"
  BY DEF AimName, Of
<1> QED BY <1>1, ProfileAssumption DEF Swipes, Joysticks, HoldBindings, Of

(* The Aim binding, if the profile has one.                                *)
LEMMA AimIsAim ==
  /\ AimName # NoName => AimName \in Names /\ Profile[AimName].kind = "aim"
  /\ \A n \in Names : n \notin HoldBindings \cup Joysticks \cup Swipes => n = AimName
<1>1. AimName # NoName => AimName \in Names /\ Profile[AimName].kind = "aim"
  BY DEF AimName, Of
<1>2. ASSUME NEW n \in Names, n \notin HoldBindings \cup Joysticks \cup Swipes
      PROVE  n = AimName
  <2>1. Profile[n].kind = "aim"
    BY <1>2, ProfileAssumption DEF HoldBindings, Joysticks, Swipes, Of, Kinds
  <2>2. AimName \in Names /\ Profile[AimName].kind = "aim"
    BY <2>1, <1>1, <1>2, ProfileAssumption DEF AimName, Of
  <2> QED BY <2>1, <2>2, ValidatedProfile DEF Of
<1> QED BY <1>1, <1>2

(* A trigger belongs to its owner and to no other binding.                 *)
LEMMA OwnerOwns ==
  ASSUME NEW t \in Triggers, Owner(t) # NoName
  PROVE  /\ Owner(t) \in Names /\ t \in Profile[Owner(t)].triggers
         /\ \A n \in Names : n # Owner(t) => t \notin Profile[n].triggers
<1>1. Owner(t) \in Names /\ t \in Profile[Owner(t)].triggers
  BY DEF Owner
<1> QED BY <1>1, ValidatedProfile

(* Outside a joystick the owner has no other trigger.                      *)
LEMMA SingleTrigger ==
  ASSUME NEW t \in Triggers, Owner(t) # NoName, Owner(t) \notin Joysticks
  PROVE  Profile[Owner(t)].triggers = {t}
BY OwnerOwns, ValidatedProfile

(* A stick leans only while one of its keys is held.                       *)
LEMMA NetNeedsAKey ==
  ASSUME NEW e, NEW j, Net(e, j) # Still
  PROVE  Profile[j].triggers \cap e.held # {}
BY DEF Net, Still, HeldDir

----------------------------------------------------------------------------
(* Actions of a frame.                                                     *)

(* One more action on an id: legal when it is a Down of an id that is up,  *)
(* or another action on an id that is down.                                *)
LEMMA AppendAct ==
  ASSUME NEW s \in Seq(Acts), NEW before \in BOOLEAN, NEW a \in Acts,
         Legal(s, before), (a = "Down") <=> ~After(s, before)
  PROVE  /\ Append(s, a) \in Seq(Acts)
         /\ Legal(Append(s, a), before)
         /\ After(Append(s, a), before) <=> a # "Up"
<1> DEFINE r == Append(s, a)
<1>1. r \in Seq(Acts) /\ Len(r) = Len(s) + 1 /\ Len(s) \in Nat
      /\ r[Len(r)] = a /\ \A k \in 1 .. Len(s) : r[k] = s[k]
  OBVIOUS
<1>2. DOMAIN r = 1 .. (Len(s) + 1) /\ DOMAIN s = 1 .. Len(s)
  BY <1>1
<1>3. ASSUME NEW k \in DOMAIN r
      PROVE  (r[k] = "Down") <=> ~(IF k = 1 THEN before ELSE r[k - 1] # "Up")
  <2>1. CASE k \in DOMAIN s
    <3>1. r[k] = s[k] /\ (k # 1 => r[k - 1] = s[k - 1])
      BY <1>1, <1>2, <2>1
    <3> QED BY <2>1, <3>1 DEF Legal
  <2>2. CASE k \notin DOMAIN s
    <3>1. k = Len(s) + 1 /\ r[k] = a
      BY <1>1, <1>2, <2>2
    <3>2. CASE s = <<>>
      <4>1. k = 1
        BY <3>1, <3>2
      <4>2. (a = "Down") <=> ~before
        BY <3>2 DEF After
      <4> QED BY <3>1, <4>1, <4>2
    <3>3. CASE s # <<>>
      <4>1. k # 1 /\ r[k - 1] = s[Len(s)]
        BY <1>1, <3>1, <3>3
      <4>2. (a = "Down") <=> ~(s[Len(s)] # "Up")
        BY <3>3 DEF After
      <4> QED BY <3>1, <4>1, <4>2
    <3> QED BY <3>2, <3>3
  <2> QED BY <2>1, <2>2
<1>4. After(r, before) <=> a # "Up"
  BY <1>1 DEF After
<1> QED BY <1>1, <1>3, <1>4 DEF Legal

(* Emit appends to the given ids' sequences and changes nothing else.      *)
LEMMA EmitEffect ==
  ASSUME NEW e \in Engines, NEW a \in Acts, NEW I, I \subseteq Ids
  PROVE  /\ Emit(e, a, I) \in Engines
         /\ SameButFingers(e, Emit(e, a, I))
         /\ Emit(e, a, I).pool = e.pool /\ Emit(e, a, I).stick = e.stick
         /\ \A i \in Ids : Emit(e, a, I).acts[i] =
                             IF i \in I THEN Append(e.acts[i], a) ELSE e.acts[i]
<1> DEFINE acts == [i \in Ids |-> IF i \in I THEN Append(e.acts[i], a) ELSE e.acts[i]]
<1>1. Emit(e, a, I) = [e EXCEPT !.acts = acts]
  BY DEF Emit
<1>2. acts \in [Ids -> Seq(Acts)]
  BY DEF Engines
<1>3. Emit(e, a, I) \in Engines
  BY <1>1, <1>2 DEF Engines
<1>4. /\ SameButFingers(e, Emit(e, a, I))
      /\ Emit(e, a, I).pool = e.pool /\ Emit(e, a, I).stick = e.stick
  BY <1>1 DEF Engines, SameButFingers
<1>5. Emit(e, a, I).acts = acts
  BY <1>1 DEF Engines
<1> QED BY <1>3, <1>4, <1>5

(* The general frame step: if the ids of I receive an action that fits     *)
(* their state, and the pool of f says what the actions did, f is in frame. *)
LEMMA FrameStep ==
  ASSUME NEW s, NEW e, Frame(e, s), NEW f \in Engines, Consistent(f.pool),
         NEW a \in Acts, NEW I, I \subseteq Ids,
         \A i \in Ids : f.acts[i] = IF i \in I THEN Append(e.acts[i], a) ELSE e.acts[i],
         \A i \in I : (a = "Down") <=> ~e.pool.inUse[i],
         \A i \in Ids : f.pool.inUse[i] <=> IF i \in I THEN a # "Up" ELSE e.pool.inUse[i]
  PROVE  Frame(f, s)
<1>1. SUFFICES ASSUME NEW i \in Ids
               PROVE  /\ Legal(f.acts[i], i \in s)
                      /\ After(f.acts[i], i \in s) <=> f.pool.inUse[i]
  BY DEF Frame
<1>2. /\ e.acts[i] \in Seq(Acts) /\ Legal(e.acts[i], i \in s)
      /\ After(e.acts[i], i \in s) <=> e.pool.inUse[i]
  BY DEF Frame, Engines
<1>3. CASE i \in I
  <2>1. (a = "Down") <=> ~After(e.acts[i], i \in s)
    BY <1>2, <1>3
  <2>2. (i \in s) \in BOOLEAN
    OBVIOUS
  <2>3. /\ Legal(Append(e.acts[i], a), i \in s)
        /\ After(Append(e.acts[i], a), i \in s) <=> a # "Up"
    BY <1>2, <2>1, <2>2, AppendAct
  <2> QED BY <1>3, <2>3
<1>4. CASE i \notin I
  BY <1>2, <1>4
<1> QED BY <1>3, <1>4

(* A record with the same pool and actions is in frame as well.            *)
LEMMA FrameSame ==
  ASSUME NEW s, NEW e, Frame(e, s), NEW f \in Engines,
         f.pool = e.pool, f.acts = e.acts
  PROVE  Frame(f, s)
BY DEF Frame

----------------------------------------------------------------------------
(* The finger operations.                                                  *)

(* A Move of fingers that are down.                                        *)
LEMMA MoveEffect ==
  ASSUME NEW s, NEW e, Frame(e, s), NEW I, I \subseteq Ids,
         \A i \in I : e.pool.inUse[i]
  PROVE  /\ Frame(Emit(e, "Move", I), s)
         /\ SameButFingers(e, Emit(e, "Move", I))
         /\ Emit(e, "Move", I).pool = e.pool
<1> DEFINE f == Emit(e, "Move", I)
<1>1. e \in Engines /\ Consistent(e.pool)
  BY DEF Frame
<1>2. "Move" \in Acts
  BY DEF Acts
<1>3. /\ f \in Engines /\ SameButFingers(e, f) /\ f.pool = e.pool
      /\ \A i \in Ids : f.acts[i] = IF i \in I THEN Append(e.acts[i], "Move") ELSE e.acts[i]
  BY <1>1, <1>2, EmitEffect
<1>4. Frame(f, s)
  <2>1. \A i \in I : ("Move" = "Down") <=> ~e.pool.inUse[i]
    OBVIOUS
  <2>2. \A i \in Ids : f.pool.inUse[i] <=> IF i \in I THEN "Move" # "Up" ELSE e.pool.inUse[i]
    BY <1>3
  <2> QED BY <1>1, <1>2, <1>3, <2>1, <2>2, FrameStep
<1> QED BY <1>3, <1>4

(* The id a key holds is in use.                                           *)
LEMMA HeldIdInUse ==
  ASSUME NEW e \in Engines, Consistent(e.pool), NEW k \in Keys
  PROVE  /\ IdOf(e, k) \in Ids \cup {NoId}
         /\ IdOf(e, k) # NoId => IdOf(e, k) \in Ids /\ e.pool.inUse[IdOf(e, k)]
BY DEF Engines, Pools, Consistent, IdOf

(* Moving the finger of one key.                                           *)
LEMMA MoveKeyEffect ==
  ASSUME NEW s, NEW e, Frame(e, s), NEW k \in Keys, IdOf(e, k) # NoId
  PROVE  /\ Frame(Emit(e, "Move", {IdOf(e, k)}), s)
         /\ SameButFingers(e, Emit(e, "Move", {IdOf(e, k)}))
         /\ Emit(e, "Move", {IdOf(e, k)}).pool = e.pool
<1>1. e \in Engines /\ Consistent(e.pool)
  BY DEF Frame
<1>2. {IdOf(e, k)} \subseteq Ids /\ \A i \in {IdOf(e, k)} : e.pool.inUse[i]
  BY <1>1, HeldIdInUse
<1> QED BY <1>2, MoveEffect

(* Putting a finger down for a key that has none: with a full pool nothing *)
(* happens.                                                                *)
LEMMA TouchEffect ==
  ASSUME NEW s, NEW e, Frame(e, s), NEW k \in Keys, IdOf(e, k) = NoId
  PROVE  /\ Frame(Touch(e, k), s)
         /\ SameButFingers(e, Touch(e, k))
         /\ \A j \in Keys : IdOf(Touch(e, k), j) =
                              IF j = k THEN AcquiredId(e.pool, k) ELSE IdOf(e, j)
<1> DEFINE id == AcquiredId(e.pool, k)
           I  == {id}
           g  == [e EXCEPT !.pool = Acquire(e.pool, k)]
           f  == Touch(e, k)
<1>1. e \in Engines /\ e.pool \in Pools /\ Consistent(e.pool) /\ e.pool.assigned[k] = NoId
  BY DEF Frame, Engines, IdOf
<1>2. CASE id = NoId
  <2>1. f = e
    BY <1>2 DEF Touch
  <2> QED BY <1>1, <1>2, <2>1 DEF SameButFingers, IdOf
<1>3. CASE id # NoId
  <2>1. /\ Acquire(e.pool, k) \in Pools /\ Consistent(Acquire(e.pool, k))
        /\ \A j \in Keys : Acquire(e.pool, k).assigned[j] =
                             IF j = k THEN id ELSE e.pool.assigned[j]
        /\ \A i \in Ids : Acquire(e.pool, k).inUse[i] <=> e.pool.inUse[i] \/ i = id
        /\ ~e.pool.inUse[id]
    BY <1>1, <1>3, AcquireEffect
  <2>2. id \in Ids
    BY <1>1, <1>3, AcquiredIdType
  <2>3. /\ g \in Engines /\ SameButFingers(e, g)
        /\ g.pool = Acquire(e.pool, k) /\ g.acts = e.acts
    BY <1>1, <2>1 DEF Engines, SameButFingers
  <2>4. f = Emit(g, "Down", I)
    BY <1>3 DEF Touch
  <2>5. "Down" \in Acts /\ I \subseteq Ids
    BY <2>2 DEF Acts
  <2> HIDE DEF f, g, I, id
  <2>6. /\ f \in Engines /\ SameButFingers(g, f) /\ f.pool = g.pool
        /\ \A i \in Ids : f.acts[i] = IF i \in I THEN Append(g.acts[i], "Down") ELSE g.acts[i]
    BY <2>3, <2>4, <2>5, EmitEffect
  <2>7. Frame(f, s)
    <3>1. \A i \in Ids : f.acts[i] = IF i \in I THEN Append(e.acts[i], "Down") ELSE e.acts[i]
      BY <2>3, <2>6
    <3>2. \A i \in I : ("Down" = "Down") <=> ~e.pool.inUse[i]
      BY <2>1 DEF I
    <3>3. \A i \in Ids : f.pool.inUse[i] <=> IF i \in I THEN "Down" # "Up" ELSE e.pool.inUse[i]
      BY <2>1, <2>3, <2>6 DEF I
    <3>4. f \in Engines /\ Consistent(f.pool)
      BY <2>1, <2>3, <2>6
    <3> QED BY <2>5, <3>1, <3>2, <3>3, <3>4, FrameStep
  <2>8. SameButFingers(e, f)
    BY <2>3, <2>6 DEF SameButFingers
  <2>9. \A j \in Keys : IdOf(f, j) = IF j = k THEN id ELSE IdOf(e, j)
    BY <2>1, <2>3, <2>6 DEF IdOf
  <2> QED BY <2>7, <2>8, <2>9 DEF f, id
<1> QED BY <1>2, <1>3

(* The ids that the keys of K hold.                                        *)
IdsOf(e, K) == {IdOf(e, k) : k \in K} \ {NoId}

(* Lifting the fingers of a set of keys; keys without one are ignored. g   *)
(* is any record that released the keys and changed nothing else of the    *)
(* pool, which is what Lift and EndSwipes have in common.                  *)
LEMMA UpEffect ==
  ASSUME NEW s, NEW e, Frame(e, s), NEW K, K \subseteq Keys,
         NEW g \in Engines, g.pool = Release(e.pool, K), g.acts = e.acts
  PROVE  LET f == Emit(g, "Up", IdsOf(e, K)) IN
         /\ Frame(f, s) /\ SameButFingers(g, f)
         /\ \A j \in Keys : IdOf(f, j) = IF j \in K THEN NoId ELSE IdOf(e, j)
<1> DEFINE I == IdsOf(e, K)
           f == Emit(g, "Up", I)
<1>1. e \in Engines /\ e.pool \in Pools /\ Consistent(e.pool)
  BY DEF Frame, Engines
<1>2. /\ g.pool \in Pools /\ Consistent(g.pool)
      /\ \A j \in Keys : g.pool.assigned[j] = IF j \in K THEN NoId ELSE e.pool.assigned[j]
      /\ \A i \in Ids : g.pool.inUse[i] <=>
                          e.pool.inUse[i] /\ i \notin {e.pool.assigned[k] : k \in K}
  BY <1>1, ReleaseEffect
<1>3. I \subseteq Ids /\ \A i \in I : e.pool.inUse[i]
  BY <1>1, HeldIdInUse DEF IdsOf
<1>4. "Up" \in Acts
  BY DEF Acts
<1> HIDE DEF I
<1>5. /\ f \in Engines /\ SameButFingers(g, f) /\ f.pool = g.pool
      /\ \A i \in Ids : f.acts[i] = IF i \in I THEN Append(g.acts[i], "Up") ELSE g.acts[i]
  BY <1>3, <1>4, EmitEffect
<1>6. \A i \in Ids : f.pool.inUse[i] <=> IF i \in I THEN "Up" # "Up" ELSE e.pool.inUse[i]
  BY <1>2, <1>5, NoIdIsNoId DEF IdOf, I, IdsOf
<1>7. Frame(f, s)
  <2>1. \A i \in Ids : f.acts[i] = IF i \in I THEN Append(e.acts[i], "Up") ELSE e.acts[i]
    BY <1>5
  <2>2. \A i \in I : ("Up" = "Down") <=> ~e.pool.inUse[i]
    BY <1>3
  <2> QED BY <1>2, <1>3, <1>4, <1>5, <1>6, <2>1, <2>2, FrameStep
<1> QED BY <1>2, <1>5, <1>7 DEF IdOf, I

(* Lift takes the fingers of K from the pool and the screen, no other.     *)
LEMMA LiftEffect ==
  ASSUME NEW s, NEW e, Frame(e, s), NEW K, K \subseteq Keys
  PROVE  /\ Frame(Lift(e, K), s)
         /\ SameButFingers(e, Lift(e, K))
         /\ \A j \in Keys : IdOf(Lift(e, K), j) = IF j \in K THEN NoId ELSE IdOf(e, j)
<1> DEFINE stick == [n \in Names |-> IF n \in K THEN Still ELSE e.stick[n]]
           g == [e EXCEPT !.pool = Release(e.pool, K), !.stick = stick]
<1>1. e \in Engines /\ e.pool \in Pools /\ Consistent(e.pool)
  BY DEF Frame, Engines
<1>2. Release(e.pool, K) \in Pools
  BY <1>1, ReleaseEffect
<1>3. stick \in [Names -> Vectors]
  BY <1>1 DEF Engines, Still, Vectors
<1>4. /\ g \in Engines /\ g.pool = Release(e.pool, K) /\ g.acts = e.acts
      /\ SameButFingers(e, g)
  BY <1>1, <1>2, <1>3 DEF Engines, SameButFingers
<1>5. Lift(e, K) = Emit(g, "Up", IdsOf(e, K))
  BY DEF Lift, IdsOf
<1> HIDE DEF g, stick
<1>6. /\ Frame(Lift(e, K), s) /\ SameButFingers(g, Lift(e, K))
      /\ \A j \in Keys : IdOf(Lift(e, K), j) = IF j \in K THEN NoId ELSE IdOf(e, j)
  BY <1>4, <1>5, UpEffect
<1>7. SameButFingers(e, Lift(e, K))
  BY <1>4, <1>6 DEF SameButFingers
<1> QED BY <1>6, <1>7

(* The same for the swipes that play.                                      *)
SameButSwipes(e, f) ==
  /\ f.held = e.held /\ f.joyPending = e.joyPending
  /\ f.aimPos = e.aimPos /\ f.second = e.second /\ f.aimPending = e.aimPending
  /\ f.aimAccum = e.aimAccum /\ f.aimDownAt = e.aimDownAt /\ f.enabled = e.enabled

(* Ending swipes whose stored ids are their own.                           *)
LEMMA EndSwipesEffect ==
  ASSUME NEW s, NEW e, Frame(e, s), Own(e), NEW S, S \subseteq Swipes
  PROVE  LET f == EndSwipes(e, S) IN
         /\ Frame(f, s) /\ Own(f) /\ SameButSwipes(e, f)
         /\ \A j \in Keys : IdOf(f, j) = IF j \in S THEN NoId ELSE IdOf(e, j)
<1> DEFINE swipe == [n \in Names |-> IF n \in S THEN NoId ELSE e.swipe[n]]
           g == [e EXCEPT !.pool = Release(e.pool, S), !.swipe = swipe]
           I == {e.swipe[n] : n \in S} \ {NoId}
           f == EndSwipes(e, S)
<1>0. S \subseteq Keys /\ S \subseteq Names /\ Names \subseteq Keys
  BY KindsDiffer, ProfileAssumption
<1>1. e \in Engines /\ e.pool \in Pools /\ Consistent(e.pool)
  BY DEF Frame, Engines
<1>2. Release(e.pool, S) \in Pools
  BY <1>0, <1>1, ReleaseEffect
<1>3. swipe \in [Names -> Ids \cup {NoId}]
  BY <1>1 DEF Engines
<1>4. /\ g \in Engines /\ g.pool = Release(e.pool, S) /\ g.acts = e.acts /\ g.swipe = swipe
      /\ SameButSwipes(e, g)
  BY <1>1, <1>2, <1>3 DEF Engines, SameButSwipes
<1>5. I = IdsOf(e, S)
  BY <1>0 DEF Own, IdsOf
<1>6. f = Emit(g, "Up", IdsOf(e, S))
  BY <1>5 DEF EndSwipes
<1> HIDE DEF f, g, I
<1>7. /\ Frame(f, s) /\ SameButFingers(g, f)
      /\ \A j \in Keys : IdOf(f, j) = IF j \in S THEN NoId ELSE IdOf(e, j)
  BY <1>0, <1>4, <1>6, UpEffect
<1>8. Own(f)
  BY <1>0, <1>4, <1>7 DEF Own, SameButFingers
<1>9. SameButSwipes(e, f)
  BY <1>4, <1>7 DEF SameButFingers, SameButSwipes
<1> QED BY <1>7, <1>8, <1>9 DEF f

----------------------------------------------------------------------------
(* Joysticks, presses and releases.                                        *)

Good(e, s) == Frame(e, s) /\ Sound(e)

(* Sound(f) when only the fingers of e's keys in K changed, K a set of     *)
(* joysticks and holding bindings whose keys are held.                     *)
LEMMA SoundAfterTouch ==
  ASSUME NEW e, Sound(e), NEW f, SameButFingers(e, f),
         NEW k \in HoldBindings \cup Joysticks, Profile[k].triggers \cap e.held # {},
         e.enabled, \A j \in Keys : j # k => IdOf(f, j) = IdOf(e, j)
  PROVE  Sound(f)
<1>1. Names \subseteq Keys /\ SecondKey \in Keys
  BY ProfileAssumption
<1>2. Own(f)
  BY <1>1, KindsDiffer DEF Sound, Own, SameButFingers
<1>3. AimTracked(f)
  BY <1>1, KindsDiffer, AimIsAim DEF Sound, AimTracked, SameButFingers
<1>4. JoyPendingIsJoystick(f) /\ OffMeansUp(f)
  BY DEF Sound, JoyPendingIsJoystick, OffMeansUp, SameButFingers
<1>5. HeldBy(f)
  BY <1>1, KindsDiffer DEF Sound, HeldBy, SameButFingers
<1>6. ToggleHeld(f)
  BY <1>1, KindsDiffer, AimIsAim DEF Sound, ToggleHeld, SameButFingers, AimHasToggle
<1> QED BY <1>2, <1>3, <1>4, <1>5, <1>6 DEF Sound

(* Sound(f) when only fingers were lifted and nothing but their keys'      *)
(* fingers changed; the held keys may have lost a trigger of a lifted key. *)
LEMMA SoundAfterLift ==
  ASSUME NEW e, Sound(e), NEW f, NEW K, K \subseteq HoldBindings \cup Joysticks,
         f.swipe = e.swipe, f.joyPending = e.joyPending, f.aimPos = e.aimPos,
         f.second = e.second, f.aimDownAt = e.aimDownAt, f.enabled = e.enabled,
         \A n \in Names \ K : Profile[n].triggers \cap f.held = Profile[n].triggers \cap e.held,
         \A j \in Keys : IdOf(f, j) = IF j \in K THEN NoId ELSE IdOf(e, j)
  PROVE  Sound(f)
<1>1. Names \subseteq Keys /\ SecondKey \in Keys
  BY ProfileAssumption
<1>2. Own(f)
  BY <1>1, KindsDiffer DEF Sound, Own
<1>3. AimTracked(f)
  BY <1>1, KindsDiffer, AimIsAim DEF Sound, AimTracked
<1>4. JoyPendingIsJoystick(f) /\ OffMeansUp(f)
  BY DEF Sound, JoyPendingIsJoystick, OffMeansUp
<1>5. HeldBy(f)
  BY <1>1, KindsDiffer DEF Sound, HeldBy
<1>6. ToggleHeld(f)
  BY <1>1, KindsDiffer, AimIsAim DEF Sound, ToggleHeld, AimHasToggle
<1> QED BY <1>2, <1>3, <1>4, <1>5, <1>6 DEF Sound

(* recompute_joystick keeps both predicates while a key of j is held.      *)
LEMMA RecomputeJoystickGood ==
  ASSUME NEW s, NEW e, Good(e, s), e.enabled, NEW j \in Joysticks
  PROVE  LET f == RecomputeJoystick(e, j) IN
         Good(f, s) /\ f.enabled /\ f.held = e.held
<1> DEFINE f == RecomputeJoystick(e, j)
<1>0. j \in Names /\ j \in Keys /\ e \in Engines
  BY KindsDiffer, ProfileAssumption DEF Good, Frame
<1>1. CASE NoJoystickAct(e, j)
  <2>1. f = e
    BY <1>1 DEF RecomputeJoystick
  <2> QED BY <2>1
<1>2. CASE ~NoJoystickAct(e, j)
  <2>1. Net(e, j) # Still
    BY <1>2 DEF NoJoystickAct
  <2>2. Profile[j].triggers \cap e.held # {}
    BY <2>1, NetNeedsAKey
  <2>3. CASE IdOf(e, j) = NoId
    <3> DEFINE h == [e EXCEPT !.joyPending = j, !.stick = [e.stick EXCEPT ![j] = Still]]
    <3>1. [e.stick EXCEPT ![j] = Still] \in [Names -> Vectors]
      BY <1>0 DEF Engines, Still, Vectors
    <3>2. /\ h \in Engines /\ h.pool = e.pool /\ h.acts = e.acts /\ h.joyPending = j
          /\ h.held = e.held /\ h.swipe = e.swipe /\ h.aimPos = e.aimPos
          /\ h.second = e.second /\ h.aimDownAt = e.aimDownAt /\ h.enabled = e.enabled
      BY <1>0, <3>1 DEF Engines
    <3>3. Frame(h, s)
      BY <3>2, FrameSame DEF Good
    <3>4. Sound(h)
      BY <1>0, <3>2 DEF Good, Sound, Own, AimTracked, JoyPendingIsJoystick, HeldBy,
                        ToggleHeld, OffMeansUp, IdOf
    <3>5. f = Touch(h, j) /\ IdOf(h, j) = NoId
      BY <1>2, <2>3, <3>2 DEF RecomputeJoystick, IdOf
    <3> HIDE DEF h, f
    <3>6. /\ Frame(f, s) /\ SameButFingers(h, f)
          /\ \A i \in Keys : i # j => IdOf(f, i) = IdOf(h, i)
      BY <1>0, <3>3, <3>5, TouchEffect
    <3>7. Sound(f)
      <4>1. h.enabled /\ Profile[j].triggers \cap h.held # {}
        BY <2>2, <3>2
      <4> QED BY <3>4, <3>6, <4>1, SoundAfterTouch
    <3> QED BY <3>2, <3>6, <3>7 DEF Good, SameButFingers, f
  <2>4. CASE IdOf(e, j) # NoId
    <3> DEFINE h == [e EXCEPT !.stick = [e.stick EXCEPT ![j] = Net(e, j)]]
    <3>1. Net(e, j) \in Vectors
      BY DEF Net, HeldDir, Vectors
    <3>2. [e.stick EXCEPT ![j] = Net(e, j)] \in [Names -> Vectors]
      BY <1>0, <3>1 DEF Engines
    <3>3. h \in Engines /\ h.pool = e.pool /\ h.acts = e.acts /\ SameButFingers(e, h)
      BY <1>0, <3>2 DEF Engines, SameButFingers
    <3>4. Frame(h, s)
      BY <3>3, FrameSame DEF Good
    <3>5. f = Emit(h, "Move", {IdOf(h, j)}) /\ IdOf(h, j) # NoId
      BY <1>2, <2>4, <3>3 DEF RecomputeJoystick, IdOf
    <3> HIDE DEF h, f
    <3>6. Frame(f, s) /\ SameButFingers(h, f) /\ f.pool = h.pool
      BY <1>0, <3>4, <3>5, MoveKeyEffect
    <3>7. SameButFingers(e, f) /\ \A i \in Keys : IdOf(f, i) = IdOf(e, i)
      BY <3>3, <3>6 DEF SameButFingers, IdOf
    <3>8. Sound(f)
      BY <2>2, <3>7, SoundAfterTouch DEF Good
    <3> QED BY <3>6, <3>7, <3>8 DEF Good, SameButFingers, f
  <2> QED BY <2>3, <2>4
<1> QED BY <1>1, <1>2

(* The deferred joystick direction keeps both predicates.                  *)
LEMMA PendingJoystickGood ==
  ASSUME NEW s, NEW e, Good(e, s), e.enabled
  PROVE  LET f == PendingJoystick(e) IN
         Good(f, s) /\ f.enabled /\ f.held = e.held
<1>1. CASE e.joyPending = NoName
  BY <1>1 DEF PendingJoystick
<1>2. CASE e.joyPending # NoName
  <2> DEFINE h == [e EXCEPT !.joyPending = NoName]
             j == e.joyPending
  <2>1. e \in Engines /\ j \in Joysticks
    BY <1>2 DEF Good, Frame, Sound, JoyPendingIsJoystick
  <2>2. /\ h \in Engines /\ h.pool = e.pool /\ h.acts = e.acts /\ h.joyPending = NoName
        /\ h.held = e.held /\ h.swipe = e.swipe /\ h.aimPos = e.aimPos
        /\ h.second = e.second /\ h.aimDownAt = e.aimDownAt /\ h.enabled = e.enabled
    BY <2>1 DEF Engines
  <2>3. Frame(h, s)
    BY <2>2, FrameSame DEF Good
  <2>4. Sound(h)
    BY <2>2 DEF Good, Sound, Own, AimTracked, JoyPendingIsJoystick, HeldBy,
                ToggleHeld, OffMeansUp, IdOf
  <2>5. PendingJoystick(e) = RecomputeJoystick(h, j)
    BY <1>2 DEF PendingJoystick
  <2> HIDE DEF h, j
  <2>6. Good(h, s) /\ h.enabled
    BY <2>2, <2>3, <2>4 DEF Good
  <2>7. LET f == RecomputeJoystick(h, j) IN
        Good(f, s) /\ f.enabled /\ f.held = h.held
    BY <2>1, <2>6, RecomputeJoystickGood
  <2> QED BY <2>2, <2>5, <2>7
<1> QED BY <1>1, <1>2

(* A Tap or a Toggle goes down when its key does.                          *)
LEMMA HoldPressGood ==
  ASSUME NEW s, NEW e, Good(e, s), e.enabled, NEW n \in HoldBindings,
         IdOf(e, n) = NoId, Profile[n].triggers \cap e.held # {}
  PROVE  Good(Touch(e, n), s) /\ Touch(e, n).enabled
<1> DEFINE f == Touch(e, n)
<1>1. n \in Keys
  BY KindsDiffer, ProfileAssumption
<1>2. /\ Frame(f, s) /\ SameButFingers(e, f)
      /\ \A j \in Keys : j # n => IdOf(f, j) = IdOf(e, j)
  BY <1>1, TouchEffect DEF Good
<1> HIDE DEF f
<1>3. Sound(f)
  BY <1>2, SoundAfterTouch DEF Good
<1>4. f.enabled
  BY <1>2 DEF SameButFingers
<1> QED BY <1>2, <1>3, <1>4 DEF Good, f

(* The aim goes down under its toggle.                                     *)
LEMMA PressAimGood ==
  ASSUME NEW s, NEW e, Good(e, s), e.enabled, AimName # NoName,
         IdOf(e, AimName) = NoId,
         AimHasToggle => Profile[AimName].triggers \cap e.held # {}
  PROVE  Good(PressAim(e, AimName), s) /\ PressAim(e, AimName).enabled
<1> DEFINE h == [e EXCEPT !.aimDownAt = FALSE, !.aimPos = "centre"]
           f == PressAim(e, AimName)
<1>0. AimName \in Names /\ AimName \in Keys /\ AimName # SecondKey /\ e \in Engines
      /\ Names \subseteq Keys /\ SecondKey \in Keys
  BY AimIsAim, ProfileAssumption DEF Good, Frame
<1>1. /\ h \in Engines /\ h.pool = e.pool /\ h.acts = e.acts /\ h.joyPending = e.joyPending
      /\ h.held = e.held /\ h.swipe = e.swipe /\ h.aimPos = "centre"
      /\ h.second = e.second /\ h.aimDownAt = FALSE /\ h.enabled = e.enabled
  BY <1>0 DEF Engines, Zones
<1>2. Frame(h, s) /\ IdOf(h, AimName) = NoId
  BY <1>1, FrameSame DEF Good, IdOf
<1>3. f = Touch(h, AimName)
  BY DEF PressAim
<1> HIDE DEF h, f
<1>4. /\ Frame(f, s) /\ SameButFingers(h, f)
      /\ \A j \in Keys : j # AimName => IdOf(f, j) = IdOf(h, j)
  BY <1>0, <1>2, <1>3, TouchEffect
<1>5. \A j \in Keys : j # AimName => IdOf(f, j) = IdOf(e, j)
  BY <1>1, <1>4 DEF IdOf
<1>6. /\ f.held = e.held /\ f.swipe = e.swipe /\ f.joyPending = e.joyPending
      /\ f.second = e.second /\ f.aimPos # NoPos /\ ~f.aimDownAt /\ f.enabled
  BY <1>1, <1>4 DEF SameButFingers, NoPos
<1>7. Sound(f)
  <2>1. Own(f)
    BY <1>0, <1>5, <1>6, KindsDiffer DEF Good, Sound, Own
  <2>2. AimTracked(f)
    BY <1>0, <1>5, <1>6 DEF Good, Sound, AimTracked
  <2>3. HeldBy(f)
    BY <1>0, <1>5, <1>6, KindsDiffer DEF Good, Sound, HeldBy
  <2> QED BY <1>6, <2>1, <2>2, <2>3 DEF Good, Sound, JoyPendingIsJoystick, ToggleHeld, OffMeansUp
<1> QED BY <1>4, <1>6, <1>7 DEF Good, f

(* Ending swipes keeps the bookkeeping.                                    *)
LEMMA EndSwipesGood ==
  ASSUME NEW s, NEW e, Good(e, s), e.enabled, NEW S, S \subseteq Swipes
  PROVE  LET f == EndSwipes(e, S) IN
         /\ Good(f, s) /\ f.enabled /\ f.held = e.held
         /\ \A j \in Keys : IdOf(f, j) = IF j \in S THEN NoId ELSE IdOf(e, j)
<1> DEFINE f == EndSwipes(e, S)
<1>0. Frame(e, s) /\ Own(e)
  BY DEF Good, Sound
<1>ended. /\ Frame(f, s) /\ Own(f) /\ SameButSwipes(e, f)
      /\ \A j \in Keys : IdOf(f, j) = IF j \in S THEN NoId ELSE IdOf(e, j)
  BY <1>0, EndSwipesEffect
<1> HIDE DEF f
<1>1. /\ Frame(f, s) /\ Own(f)
      /\ \A j \in Keys : IdOf(f, j) = IF j \in S THEN NoId ELSE IdOf(e, j)
      /\ f.held = e.held /\ f.joyPending = e.joyPending
      /\ f.aimPos = e.aimPos /\ f.second = e.second
      /\ f.aimDownAt = e.aimDownAt /\ f.enabled = e.enabled
  BY <1>ended DEF SameButSwipes
<1>2. Names \subseteq Keys /\ SecondKey \in Keys
  BY ProfileAssumption
<1>3. f.enabled
  BY <1>1
<1>4. AimTracked(f)
  BY <1>1, <1>2, KindsDiffer, AimIsAim DEF Good, Sound, AimTracked
<1>5. HeldBy(f)
  BY <1>1, <1>2, KindsDiffer DEF Good, Sound, HeldBy
<1>6. ToggleHeld(f)
  BY <1>1, <1>2, KindsDiffer, AimIsAim DEF Good, Sound, ToggleHeld, AimHasToggle
<1>7. Sound(f)
  BY <1>1, <1>3, <1>4, <1>5, <1>6 DEF Good, Sound, JoyPendingIsJoystick, OffMeansUp
<1> QED BY <1>1, <1>3, <1>7 DEF Good, f

(* Pressing a swipe, with the cancelling of its group, keeps both.         *)
LEMMA PressSwipeGood ==
  ASSUME NEW s, NEW e, Good(e, s), e.enabled, NEW n \in Swipes
  PROVE  Good(PressSwipe(e, n), s) /\ PressSwipe(e, n).enabled
<1> DEFINE S == {m \in Playing(e) : SameGroup(m, n)}
           c == EndSwipes(e, S)
           d == Touch(c, n)
           f == PressSwipe(e, n)
<1>0. n \in Names /\ n \in Keys /\ Names \subseteq Keys /\ SecondKey \in Keys
  BY KindsDiffer, ProfileAssumption
<1>1. CASE e.swipe[n] # NoId
  BY <1>1 DEF PressSwipe
<1>2. CASE e.swipe[n] = NoId
  <2>1. IdOf(e, n) = NoId /\ S \subseteq Swipes
    BY <1>0, <1>2 DEF Good, Sound, Own, Playing
  <2>2. f = [d EXCEPT !.swipe = [d.swipe EXCEPT ![n] = AcquiredId(c.pool, n)]]
    BY <1>2 DEF PressSwipe
  <2> HIDE DEF S
  <2>3. /\ Good(c, s) /\ c.enabled
        /\ \A j \in Keys : IdOf(c, j) = IF j \in S THEN NoId ELSE IdOf(e, j)
    BY <2>1, EndSwipesGood
  <2>4. IdOf(c, n) = NoId
    BY <1>0, <2>1, <2>3
  <2> HIDE DEF c
  <2>5. /\ Frame(d, s) /\ SameButFingers(c, d)
        /\ \A j \in Keys : IdOf(d, j) = IF j = n THEN AcquiredId(c.pool, n) ELSE IdOf(c, j)
    BY <1>0, <2>3, <2>4, TouchEffect DEF Good
  <2>6. d \in Engines /\ AcquiredId(c.pool, n) \in Ids \cup {NoId}
    BY <1>0, <2>3, <2>5, AcquiredIdType DEF Good, Frame, Engines
  <2> HIDE DEF d, f
  <2>7. /\ f \in Engines /\ f.pool = d.pool /\ f.acts = d.acts
        /\ f.held = d.held /\ f.joyPending = d.joyPending /\ f.aimPos = d.aimPos
        /\ f.second = d.second /\ f.aimDownAt = d.aimDownAt /\ f.enabled = d.enabled
        /\ \A m \in Names : f.swipe[m] = IF m = n THEN AcquiredId(c.pool, n) ELSE d.swipe[m]
    BY <2>2, <2>6 DEF Engines
  <2>8. Frame(f, s)
    BY <2>5, <2>7, FrameSame
  <2>9. /\ f.held = c.held /\ f.joyPending = c.joyPending /\ f.aimPos = c.aimPos
        /\ f.second = c.second /\ f.aimDownAt = c.aimDownAt /\ f.enabled
        /\ \A m \in Names : f.swipe[m] = IF m = n THEN AcquiredId(c.pool, n) ELSE c.swipe[m]
        /\ \A j \in Keys : IdOf(f, j) = IF j = n THEN AcquiredId(c.pool, n) ELSE IdOf(c, j)
    BY <2>3, <2>5, <2>7 DEF SameButFingers, IdOf
  <2>10. Sound(f)
    <3>1. Own(f)
      BY <1>0, <2>3, <2>9 DEF Good, Sound, Own
    <3>2. AimTracked(f)
      BY <1>0, <2>3, <2>9, KindsDiffer, AimIsAim DEF Good, Sound, AimTracked
    <3>3. HeldBy(f)
      BY <1>0, <2>3, <2>9, KindsDiffer DEF Good, Sound, HeldBy
    <3>4. ToggleHeld(f)
      BY <1>0, <2>3, <2>9, KindsDiffer, AimIsAim DEF Good, Sound, ToggleHeld, AimHasToggle
    <3> QED BY <2>3, <2>9, <3>1, <3>2, <3>3, <3>4
            DEF Good, Sound, JoyPendingIsJoystick, OffMeansUp
  <2> QED BY <2>8, <2>9, <2>10 DEF Good, f
<1> QED BY <1>1, <1>2

(* on_press keeps both predicates, whatever the kind of the binding.       *)
LEMMA OnPressGood ==
  ASSUME NEW s, NEW e, Good(e, s), e.enabled, NEW t \in Triggers
  PROVE  Good(OnPress(e, t), s) /\ OnPress(e, t).enabled
<1> DEFINE n == Owner(t)
           h == [e EXCEPT !.held = e.held \cup {t}]
<1>1. CASE t \in e.held
  BY <1>1 DEF OnPress
<1>2. CASE t \notin e.held
  <2>1. e \in Engines /\ e.held \subseteq Triggers
    BY DEF Good, Frame, Engines
  <2>2. /\ h \in Engines /\ h.pool = e.pool /\ h.acts = e.acts /\ h.held = e.held \cup {t}
        /\ h.swipe = e.swipe /\ h.joyPending = e.joyPending /\ h.aimPos = e.aimPos
        /\ h.second = e.second /\ h.aimDownAt = e.aimDownAt /\ h.enabled = e.enabled
        /\ h.enabled
    BY <2>1 DEF Engines
  <2>3. Good(h, s)
    <3>1. Frame(h, s)
      BY <2>2, FrameSame DEF Good
    <3>2. HeldBy(h) /\ ToggleHeld(h)
      BY <2>2 DEF Good, Sound, HeldBy, ToggleHeld, IdOf
    <3>3. Own(h) /\ AimTracked(h) /\ JoyPendingIsJoystick(h) /\ OffMeansUp(h)
      BY <2>2 DEF Good, Sound, Own, AimTracked, JoyPendingIsJoystick, OffMeansUp, IdOf
    <3> QED BY <3>1, <3>2, <3>3 DEF Good, Sound
  <2>4. OnPress(e, t) =
          IF n = NoName THEN h
          ELSE CASE n \in HoldBindings -> Touch(h, n)
                 [] n \in Joysticks    -> RecomputeJoystick(h, n)
                 [] n \in Swipes       -> PressSwipe(h, n)
                 [] OTHER              -> PressAim(h, n)
    BY <1>2 DEF OnPress
  <2>5. n # NoName => n \in Names /\ t \in Profile[n].triggers
    BY OwnerOwns
  <2> HIDE DEF h
  <2>6. CASE n = NoName
    BY <2>2, <2>3, <2>4, <2>6
  <2>7. CASE n # NoName /\ n \in HoldBindings
    <3>1. Profile[n].triggers = {t} /\ Profile[n].triggers \cap h.held # {}
      BY <2>2, <2>5, <2>7, SingleTrigger, KindsDiffer
    <3>2. IdOf(h, n) = NoId
      <4>1. IdOf(e, n) = NoId
        BY <1>2, <2>7, <3>1 DEF Good, Sound, HeldBy
      <4> QED BY <2>2, <4>1 DEF IdOf
    <3>3. OnPress(e, t) = Touch(h, n)
      BY <2>4, <2>7, KindsDiffer
    <3> QED BY <2>2, <2>3, <2>7, <3>1, <3>2, <3>3, HoldPressGood
  <2>8. CASE n # NoName /\ n \in Joysticks
    <3>1. OnPress(e, t) = RecomputeJoystick(h, n)
      BY <2>4, <2>8, KindsDiffer
    <3> QED BY <2>2, <2>3, <2>8, <3>1, RecomputeJoystickGood
  <2>9. CASE n # NoName /\ n \in Swipes
    <3>1. OnPress(e, t) = PressSwipe(h, n)
      BY <2>4, <2>9, KindsDiffer
    <3> QED BY <2>2, <2>3, <2>9, <3>1, PressSwipeGood
  <2>10. CASE n # NoName /\ n \notin HoldBindings \cup Joysticks \cup Swipes
    <3>1. n = AimName /\ AimHasToggle
      BY <2>5, <2>10, AimIsAim DEF AimHasToggle
    <3>2. Profile[n].triggers = {t} /\ Profile[n].triggers \cap h.held # {}
      BY <2>2, <2>5, <2>10, SingleTrigger
    <3>3. IdOf(h, n) = NoId
      <4>1. IdOf(e, n) = NoId
        BY <1>2, <3>1, <3>2 DEF Good, Sound, ToggleHeld
      <4> QED BY <2>2, <4>1 DEF IdOf
    <3>4. OnPress(e, t) = PressAim(h, AimName)
      BY <2>4, <2>10, <3>1
    <3> QED BY <2>2, <2>3, <2>10, <3>1, <3>2, <3>3, <3>4, PressAimGood
  <2> QED BY <2>6, <2>7, <2>8, <2>9, <2>10
<1> QED BY <1>1, <1>2

(* A joystick key going up keeps both predicates.                          *)
LEMMA ReleaseJoystickGood ==
  ASSUME NEW s, NEW e, Good(e, s), e.enabled, NEW n \in Joysticks,
         NEW h, Frame(h, s), h.swipe = e.swipe, h.joyPending = e.joyPending,
         h.aimPos = e.aimPos, h.second = e.second, h.aimDownAt = e.aimDownAt,
         h.enabled, \A j \in Keys : IdOf(h, j) = IdOf(e, j),
         \A m \in Names : m # n =>
           Profile[m].triggers \cap h.held = Profile[m].triggers \cap e.held
  PROVE  Good(ReleaseJoystick(h, n), s) /\ ReleaseJoystick(h, n).enabled
<1>0. n \in Names /\ n \in Keys /\ Names \subseteq Keys
  BY KindsDiffer, ProfileAssumption
<1>1. CASE NoJoystickAct(h, n)
  <2> DEFINE f == Lift(h, {n})
  <2>1. ReleaseJoystick(h, n) = f
    BY <1>1 DEF ReleaseJoystick
  <2>2. {n} \subseteq Keys
    BY <1>0
  <2>3. /\ Frame(f, s) /\ SameButFingers(h, f)
        /\ \A j \in Keys : IdOf(f, j) = IF j \in {n} THEN NoId ELSE IdOf(h, j)
    BY <2>2, LiftEffect
  <2> HIDE DEF f
  <2>4. e.enabled = f.enabled /\ f.enabled
    BY <2>3 DEF SameButFingers, Good, Frame, Engines
  <2>5. /\ f.swipe = e.swipe /\ f.joyPending = e.joyPending /\ f.aimPos = e.aimPos
        /\ f.second = e.second /\ f.aimDownAt = e.aimDownAt
        /\ \A m \in Names \ {n} :
             Profile[m].triggers \cap f.held = Profile[m].triggers \cap e.held
    BY <2>3 DEF SameButFingers
  <2>6. \A j \in Keys : IdOf(f, j) = IF j \in {n} THEN NoId ELSE IdOf(e, j)
    BY <2>3
  <2>7. Sound(f)
    <3>1. {n} \subseteq HoldBindings \cup Joysticks /\ Sound(e)
      BY DEF Good
    <3> QED BY <2>4, <2>5, <2>6, <3>1, SoundAfterLift
  <2> QED BY <2>1, <2>3, <2>4, <2>7 DEF Good
<1>2. CASE ~NoJoystickAct(h, n)
  <2>1. Profile[n].triggers \cap h.held # {}
    BY <1>2, NetNeedsAKey DEF NoJoystickAct
  <2>2. HeldBy(h)
    BY <1>0, <2>1, KindsDiffer DEF Good, Sound, HeldBy
  <2>3. ToggleHeld(h) /\ AimTracked(h)
    BY <1>0, KindsDiffer, AimIsAim, ProfileAssumption
       DEF Good, Sound, ToggleHeld, AimTracked, AimHasToggle
  <2>4. Own(h) /\ JoyPendingIsJoystick(h) /\ OffMeansUp(h)
    BY <1>0 DEF Good, Sound, Own, JoyPendingIsJoystick, OffMeansUp
  <2>5. ReleaseJoystick(h, n) = RecomputeJoystick(h, n)
    BY <1>2 DEF ReleaseJoystick
  <2>6. Good(h, s)
    BY <2>2, <2>3, <2>4 DEF Good, Sound
  <2> QED BY <2>5, <2>6, RecomputeJoystickGood
<1> QED BY <1>1, <1>2

(* Releasing a toggle: the aim finger, its position and its delayed press  *)
(* all go.                                                                 *)
LEMMA ReleaseAimGood ==
  ASSUME NEW s, NEW e, Good(e, s), e.enabled, AimName # NoName,
         NEW h, Frame(h, s), h.swipe = e.swipe, h.joyPending = e.joyPending,
         h.second = e.second, h.enabled, \A j \in Keys : IdOf(h, j) = IdOf(e, j),
         \A m \in Names : m # AimName =>
           Profile[m].triggers \cap h.held = Profile[m].triggers \cap e.held
  PROVE  Good(ReleaseAim(h, AimName), s) /\ ReleaseAim(h, AimName).enabled
<1> DEFINE g == [h EXCEPT !.aimDownAt = FALSE, !.aimPos = NoPos, !.aimAccum = FALSE]
           f == ReleaseAim(h, AimName)
<1>0. /\ AimName \in Names /\ AimName \in Keys /\ AimName # SecondKey
      /\ Names \subseteq Keys /\ SecondKey \in Keys /\ {AimName} \subseteq Keys
  BY AimIsAim, ProfileAssumption
<1>1. /\ g \in Engines /\ g.pool = h.pool /\ g.acts = h.acts /\ g.held = h.held
      /\ g.swipe = h.swipe /\ g.joyPending = h.joyPending /\ g.second = h.second
      /\ g.aimDownAt = FALSE /\ g.enabled = h.enabled /\ g.enabled
  BY DEF Frame, Engines
<1>2. Frame(g, s)
  BY <1>1, FrameSame
<1>3. f = Lift(g, {AimName})
  BY DEF ReleaseAim
<1> HIDE DEF f, g
<1>4. /\ Frame(f, s) /\ SameButFingers(g, f)
      /\ \A j \in Keys : IdOf(f, j) = IF j \in {AimName} THEN NoId ELSE IdOf(g, j)
  BY <1>0, <1>2, <1>3, LiftEffect
<1>5. /\ f.swipe = e.swipe /\ f.joyPending = e.joyPending /\ f.second = e.second
      /\ f.aimDownAt = FALSE /\ f.held = h.held /\ f.enabled
      /\ \A j \in Keys : IdOf(f, j) = IF j = AimName THEN NoId ELSE IdOf(e, j)
  BY <1>1, <1>4 DEF SameButFingers, IdOf
<1>6. Own(f)
  BY <1>0, <1>5, KindsDiffer DEF Good, Sound, Own
<1>7. AimTracked(f)
  BY <1>0, <1>5 DEF Good, Sound, AimTracked
<1>8. HeldBy(f)
  BY <1>0, <1>5, KindsDiffer DEF Good, Sound, HeldBy
<1>9. ToggleHeld(f) /\ JoyPendingIsJoystick(f) /\ OffMeansUp(f)
  BY <1>0, <1>5 DEF Good, Sound, ToggleHeld, JoyPendingIsJoystick, OffMeansUp
<1> QED BY <1>4, <1>5, <1>6, <1>7, <1>8, <1>9 DEF Good, Sound, f

(* on_release keeps both predicates, whatever the kind of the binding.     *)
LEMMA OnReleaseGood ==
  ASSUME NEW s, NEW e, Good(e, s), e.enabled, NEW t \in Triggers
  PROVE  Good(OnRelease(e, t), s) /\ OnRelease(e, t).enabled
<1> DEFINE n == Owner(t)
           h == [e EXCEPT !.held = e.held \ {t}]
           f == OnRelease(e, t)
<1>1. CASE t \notin e.held
  BY <1>1 DEF OnRelease
<1>2. CASE t \in e.held
  <2>1. e \in Engines /\ e.held \subseteq Triggers /\ Names \subseteq Keys
    BY ProfileAssumption DEF Good, Frame, Engines
  <2>2. /\ h \in Engines /\ h.pool = e.pool /\ h.acts = e.acts /\ h.held = e.held \ {t}
        /\ h.swipe = e.swipe /\ h.joyPending = e.joyPending /\ h.aimPos = e.aimPos
        /\ h.second = e.second /\ h.aimDownAt = e.aimDownAt /\ h.enabled = e.enabled
        /\ h.enabled
    BY <2>1 DEF Engines
  <2>3. Frame(h, s) /\ \A j \in Keys : IdOf(h, j) = IdOf(e, j)
    BY <2>2, FrameSame DEF Good, IdOf
  <2>4. f = IF n = NoName THEN h
            ELSE CASE n \in HoldBindings -> Lift(h, {n})
                   [] n \in Joysticks    -> ReleaseJoystick(h, n)
                   [] n \in Swipes       -> h
                   [] OTHER              -> ReleaseAim(h, n)
    BY <1>2 DEF OnRelease
  <2>5. n # NoName => n \in Names
    BY OwnerOwns
  <2>6. \A m \in Names : m # n =>
          Profile[m].triggers \cap h.held = Profile[m].triggers \cap e.held
    <3>1. \A m \in Names : m # n => t \notin Profile[m].triggers
      BY OwnerOwns DEF Owner
    <3> QED BY <2>2, <3>1
  <2> HIDE DEF h, f
  <2>7. CASE n = NoName \/ n \in Swipes
    <3>1. f = h
      BY <2>4, <2>7, KindsDiffer
    <3>2. HeldBy(h)
      BY <2>1, <2>3, <2>6, <2>7, KindsDiffer DEF Good, Sound, HeldBy
    <3>3. AimTracked(h) /\ Own(h) /\ JoyPendingIsJoystick(h) /\ OffMeansUp(h)
      BY <2>2 DEF Good, Sound, Own, AimTracked, JoyPendingIsJoystick, OffMeansUp, IdOf
    <3>4. ToggleHeld(h)
      BY <2>1, <2>2, <2>3, <2>6, <2>7, KindsDiffer, AimIsAim
         DEF Good, Sound, ToggleHeld, AimHasToggle
    <3> QED BY <2>2, <2>3, <3>1, <3>2, <3>3, <3>4 DEF Good, Sound, f
  <2>8. CASE n # NoName /\ n \in HoldBindings
    <3>1. f = Lift(h, {n})
      BY <2>4, <2>8, KindsDiffer
    <3>2. {n} \subseteq Keys /\ {n} \subseteq HoldBindings \cup Joysticks
      BY <2>1, <2>5, <2>8
    <3>3. /\ Frame(f, s) /\ SameButFingers(h, f)
          /\ \A j \in Keys : IdOf(f, j) = IF j \in {n} THEN NoId ELSE IdOf(h, j)
      BY <2>3, <3>1, <3>2, LiftEffect
    <3>4. /\ f.swipe = e.swipe /\ f.joyPending = e.joyPending /\ f.aimPos = e.aimPos
          /\ f.second = e.second /\ f.aimDownAt = e.aimDownAt /\ f.enabled = e.enabled
          /\ f.enabled
          /\ \A m \in Names \ {n} :
               Profile[m].triggers \cap f.held = Profile[m].triggers \cap e.held
          /\ \A j \in Keys : IdOf(f, j) = IF j \in {n} THEN NoId ELSE IdOf(e, j)
      BY <2>2, <2>3, <2>6, <3>3 DEF SameButFingers
    <3>5. Sound(e)
      BY DEF Good
    <3>6. Sound(f)
      BY <3>2, <3>4, <3>5, SoundAfterLift
    <3> QED BY <3>3, <3>4, <3>6 DEF Good, f
  <2>9. CASE n # NoName /\ n \in Joysticks
    <3>1. f = ReleaseJoystick(h, n)
      BY <2>4, <2>9, KindsDiffer
    <3>2. Good(ReleaseJoystick(h, n), s) /\ ReleaseJoystick(h, n).enabled
      BY <2>2, <2>3, <2>6, <2>9, ReleaseJoystickGood
    <3> QED BY <3>1, <3>2 DEF f
  <2>10. CASE n # NoName /\ n \notin HoldBindings \cup Joysticks \cup Swipes
    <3>1. n = AimName
      BY <2>5, <2>10, AimIsAim
    <3>2. f = ReleaseAim(h, AimName)
      BY <2>4, <2>10, <3>1
    <3>3. Good(ReleaseAim(h, AimName), s) /\ ReleaseAim(h, AimName).enabled
      BY <2>2, <2>3, <2>6, <2>10, <3>1, ReleaseAimGood
    <3> QED BY <3>2, <3>3 DEF f
  <2> QED BY <2>7, <2>8, <2>9, <2>10
<1> QED BY <1>1, <1>2

----------------------------------------------------------------------------
(* The tick.                                                               *)

LEMMA ReconcileGood ==
  ASSUME NEW s, NEW e, Good(e, s), e.enabled
  PROVE  LET f == Reconcile(e) IN Good(f, s) /\ f.enabled
<1> DEFINE K == {n \in HoldBindings : IdOf(e, n) # NoId /\ Profile[n].triggers \cap e.held = {}}
           f == Reconcile(e)
<1>1. K \subseteq HoldBindings \cup Joysticks /\ K \subseteq Keys
  BY KindsDiffer, ProfileAssumption
<1>2. f = Lift(e, K)
  BY DEF Reconcile
<1> HIDE DEF f, K
<1>3. /\ Frame(f, s) /\ SameButFingers(e, f)
      /\ \A j \in Keys : IdOf(f, j) = IF j \in K THEN NoId ELSE IdOf(e, j)
  BY <1>1, <1>2, LiftEffect DEF Good
<1>4. /\ f.swipe = e.swipe /\ f.joyPending = e.joyPending /\ f.aimPos = e.aimPos
      /\ f.second = e.second /\ f.aimDownAt = e.aimDownAt /\ f.enabled = e.enabled
      /\ f.enabled
      /\ \A n \in Names \ K : Profile[n].triggers \cap f.held = Profile[n].triggers \cap e.held
  BY <1>3 DEF SameButFingers
<1>5. Sound(f)
  BY <1>1, <1>3, <1>4, SoundAfterLift DEF Good
<1> QED BY <1>3, <1>4, <1>5 DEF Good, f

(* The fields and fingers that are no business of the aim.                 *)
SameButAim(e, f) ==
  /\ f.held = e.held /\ f.swipe = e.swipe /\ f.joyPending = e.joyPending
  /\ f.enabled
  /\ \A j \in Keys \ {AimName, SecondKey} : IdOf(f, j) = IdOf(e, j)

(* A step that touches only the aim fields and the aim keys keeps Sound.   *)
LEMMA SoundAfterAim ==
  ASSUME NEW e, Sound(e), AimName # NoName, NEW f, SameButAim(e, f),
         AimTracked(f), ToggleHeld(f)
  PROVE  Sound(f)
<1>1. Names \subseteq Keys
  BY ProfileAssumption
<1>2. Own(f)
  BY <1>1, KindsDiffer DEF Sound, Own, SameButAim
<1>3. HeldBy(f)
  BY <1>1, KindsDiffer DEF Sound, HeldBy, SameButAim
<1> QED BY <1>2, <1>3 DEF Sound, SameButAim, JoyPendingIsJoystick, OffMeansUp

(* The keys of the two aim fingers.                                        *)
LEMMA AimKeys ==
  ASSUME AimName # NoName
  PROVE  AimName \in Keys /\ SecondKey \in Keys /\ AimName # SecondKey
BY AimIsAim, ProfileAssumption

(* The aim's first finger goes down and its position is set.               *)
LEMMA AimDown ==
  ASSUME NEW s, NEW e, Good(e, s), e.enabled, AimName # NoName,
         IdOf(e, AimName) = NoId, ~AimHasToggle \/ e.aimDownAt,
         NEW h \in Engines, h.pool = e.pool, h.acts = e.acts, h.held = e.held,
         h.swipe = e.swipe, h.joyPending = e.joyPending, h.second = e.second,
         h.enabled, h.aimPos # NoPos, ~h.aimDownAt
  PROVE  /\ Good(Touch(h, AimName), s) /\ Touch(h, AimName).enabled
         /\ SameButFingers(h, Touch(h, AimName))
<1> DEFINE f == Touch(h, AimName)
<1>1. Frame(h, s) /\ IdOf(h, AimName) = NoId
  BY FrameSame DEF Good, IdOf
<1>2. /\ Frame(f, s) /\ SameButFingers(h, f)
      /\ \A j \in Keys : j # AimName => IdOf(f, j) = IdOf(h, j)
  BY <1>1, AimKeys, TouchEffect
<1> HIDE DEF f
<1>3. SameButAim(e, f) /\ f.second = e.second /\ f.aimPos # NoPos /\ ~f.aimDownAt
      /\ IdOf(f, SecondKey) = IdOf(e, SecondKey)
  BY <1>2, AimKeys DEF SameButFingers, SameButAim, IdOf
<1>4. AimTracked(f)
  BY <1>3 DEF Good, Sound, AimTracked
<1>5. ToggleHeld(f)
  BY <1>3 DEF Good, Sound, ToggleHeld, SameButAim
<1>6. Sound(f)
  BY <1>3, <1>4, <1>5, SoundAfterAim DEF Good
<1> QED BY <1>2, <1>3, <1>6 DEF Good, f, SameButAim

(* The press half of a reset keeps both predicates.                        *)
LEMMA DelayedPressGood ==
  ASSUME NEW s, NEW e, Good(e, s), e.enabled, e.aimDownAt, NEW c
  PROVE  LET f == DelayedPress(e, c) IN Good(f, s) /\ f.enabled
<1> DEFINE f == DelayedPress(e, c)
           g == [e EXCEPT !.aimDownAt = FALSE]
           h == [g EXCEPT !.aimPos = "centre"]
<1>1. CASE ~c.late
  BY <1>1 DEF DelayedPress
<1>2. CASE c.late
  <2>0. e \in Engines
    BY DEF Good, Frame
  <2>1. /\ g \in Engines /\ g.pool = e.pool /\ g.acts = e.acts /\ g.held = e.held
        /\ g.swipe = e.swipe /\ g.joyPending = e.joyPending /\ g.second = e.second
        /\ g.enabled /\ ~g.aimDownAt /\ g.aimPos = e.aimPos
    BY <2>0 DEF Engines
  <2>2. /\ h \in Engines /\ h.pool = e.pool /\ h.acts = e.acts /\ h.held = e.held
        /\ h.swipe = e.swipe /\ h.joyPending = e.joyPending /\ h.second = e.second
        /\ h.enabled /\ ~h.aimDownAt /\ h.aimPos # NoPos
    BY <2>0, <2>1 DEF Engines, Zones, NoPos
  <2>3. f = g \/ (AimName # NoName /\ f = Touch(h, AimName))
    BY <1>2 DEF DelayedPress
  <2> HIDE DEF f, g, h
  <2>4. CASE f = g
    <3>1. Frame(g, s)
      BY <2>1, FrameSame DEF Good
    <3>2. Sound(g)
      BY <2>1 DEF Good, Sound, Own, AimTracked, JoyPendingIsJoystick, HeldBy, ToggleHeld,
                  OffMeansUp, IdOf
    <3> QED BY <2>1, <2>4, <3>1, <3>2 DEF Good, f
  <2>5. CASE AimName # NoName /\ f = Touch(h, AimName)
    <3>1. IdOf(e, AimName) = NoId
      BY <2>5 DEF Good, Sound, AimTracked
    <3> QED BY <2>2, <2>5, <3>1, AimDown DEF f
  <2> QED BY <2>3, <2>4, <2>5
<1> QED BY <1>1, <1>2

(* The lift half of a reset, of an aim finger that is down.                *)
LEMMA LiftForResetGood ==
  ASSUME NEW s, NEW e, Good(e, s), e.enabled, AimName # NoName, IdOf(e, AimName) # NoId
  PROVE  LET f == LiftForReset(e) IN Good(f, s) /\ f.enabled
<1> DEFINE h == [e EXCEPT !.aimPos = NoPos, !.aimDownAt = TRUE]
           f == LiftForReset(e)
<1>0. e \in Engines /\ {AimName} \subseteq Keys
  BY AimKeys DEF Good, Frame
<1>1. /\ h \in Engines /\ h.pool = e.pool /\ h.acts = e.acts /\ h.held = e.held
      /\ h.swipe = e.swipe /\ h.joyPending = e.joyPending /\ h.second = e.second
      /\ h.enabled
  BY <1>0 DEF Engines
<1>2. Frame(h, s)
  BY <1>1, FrameSame DEF Good
<1>3. f = Lift(h, {AimName})
  BY DEF LiftForReset
<1> HIDE DEF f, h
<1>4. /\ Frame(f, s) /\ SameButFingers(h, f)
      /\ \A j \in Keys : IdOf(f, j) = IF j \in {AimName} THEN NoId ELSE IdOf(h, j)
  BY <1>0, <1>2, <1>3, LiftEffect
<1>5. /\ SameButAim(e, f) /\ f.second = e.second /\ IdOf(f, AimName) = NoId
      /\ IdOf(f, SecondKey) = IdOf(e, SecondKey)
  BY <1>1, <1>4, AimKeys DEF SameButFingers, SameButAim, IdOf
<1>6. AimTracked(f) /\ ToggleHeld(f)
  BY <1>5 DEF Good, Sound, AimTracked, ToggleHeld, SameButAim
<1>7. Sound(f)
  BY <1>5, <1>6, SoundAfterAim DEF Good
<1> QED BY <1>4, <1>5, <1>7 DEF Good, f, SameButAim

(* Another record with the same fingers and tracking.                      *)
LEMMA GoodSame ==
  ASSUME NEW s, NEW e, Good(e, s), e.enabled, NEW f \in Engines,
         f.pool = e.pool, f.acts = e.acts, f.held = e.held, f.swipe = e.swipe,
         f.joyPending = e.joyPending, f.second = e.second, f.aimDownAt = e.aimDownAt,
         f.enabled, f.aimPos = e.aimPos \/ f.aimPos # NoPos
  PROVE  Good(f, s)
<1>1. Frame(f, s)
  BY FrameSame DEF Good
<1>2. \A k \in Keys : IdOf(f, k) = IdOf(e, k)
  BY DEF IdOf
<1>3. Own(f) /\ AimTracked(f) /\ JoyPendingIsJoystick(f)
  BY DEF Good, Sound, Own, AimTracked, JoyPendingIsJoystick, IdOf
<1>4. HeldBy(f) /\ ToggleHeld(f) /\ OffMeansUp(f)
  BY DEF Good, Sound, HeldBy, ToggleHeld, OffMeansUp, IdOf
<1> QED BY <1>1, <1>3, <1>4 DEF Good, Sound

(* Moving the finger of a key keeps everything.                            *)
LEMMA MoveKeyGood ==
  ASSUME NEW s, NEW e, Good(e, s), e.enabled, NEW k \in Keys, IdOf(e, k) # NoId
  PROVE  LET f == Emit(e, "Move", {IdOf(e, k)}) IN
         /\ Good(f, s) /\ f.enabled /\ SameButFingers(e, f) /\ f.pool = e.pool
<1> DEFINE f == Emit(e, "Move", {IdOf(e, k)})
<1>1. Frame(f, s) /\ SameButFingers(e, f) /\ f.pool = e.pool
  BY MoveKeyEffect DEF Good
<1> HIDE DEF f
<1>2. Own(f) /\ AimTracked(f) /\ JoyPendingIsJoystick(f)
  BY <1>1 DEF Good, Sound, Own, AimTracked, JoyPendingIsJoystick, IdOf, SameButFingers
<1>3. HeldBy(f) /\ ToggleHeld(f) /\ OffMeansUp(f) /\ f.enabled
  BY <1>1 DEF Good, Sound, HeldBy, ToggleHeld, OffMeansUp, IdOf, SameButFingers
<1> QED BY <1>1, <1>2, <1>3 DEF Good, Sound, f

(* The aim finger moves to a zone.                                         *)
LEMMA AimMoveGood ==
  ASSUME NEW s, NEW e, Good(e, s), e.enabled, AimName # NoName,
         IdOf(e, AimName) # NoId, NEW z \in Zones
  PROVE  LET f == Emit([e EXCEPT !.aimPos = z], "Move", {IdOf(e, AimName)}) IN
         Good(f, s) /\ f.enabled
<1> DEFINE h == [e EXCEPT !.aimPos = z]
<1>1. /\ h \in Engines /\ h.pool = e.pool /\ h.acts = e.acts /\ h.held = e.held
      /\ h.swipe = e.swipe /\ h.joyPending = e.joyPending /\ h.second = e.second
      /\ h.aimDownAt = e.aimDownAt /\ h.enabled /\ h.aimPos # NoPos
  BY DEF Good, Frame, Engines, Zones, NoPos
<1> HIDE DEF h
<1>2. Good(h, s) /\ IdOf(h, AimName) = IdOf(e, AimName)
  BY <1>1, GoodSame DEF IdOf
<1>3. LET f == Emit(h, "Move", {IdOf(h, AimName)}) IN Good(f, s) /\ f.enabled
  BY <1>1, <1>2, AimKeys, MoveKeyGood
<1> QED BY <1>2, <1>3 DEF h

(* apply_aim_delta keeps both predicates.                                  *)
LEMMA ApplyAimDeltaGood ==
  ASSUME NEW s, NEW e, Good(e, s), e.enabled, NEW c, c.zone \in Zones
  PROVE  LET f == ApplyAimDelta(e, c) IN Good(f, s) /\ f.enabled
BY AimMoveGood DEF ApplyAimDelta

(* on_mouse_free keeps both predicates.                                    *)
LEMMA MoveFreeGood ==
  ASSUME NEW s, NEW e, Good(e, s), e.enabled, AimName # NoName, NEW c, c.zone \in Zones,
         ~(AimHasToggle /\ e.aimPos = NoPos)
  PROVE  LET f == MoveFree(e, c) IN Good(f, s) /\ f.enabled
<1> DEFINE h == [e EXCEPT !.aimPos = "centre", !.aimPending = TRUE]
<1>1. CASE e.aimPos = NoPos
  <2>1. MoveFree(e, c) = e \/ (~e.aimDownAt /\ MoveFree(e, c) = Touch(h, AimName))
    BY <1>1 DEF MoveFree
  <2>2. /\ h \in Engines /\ h.pool = e.pool /\ h.acts = e.acts /\ h.held = e.held
        /\ h.swipe = e.swipe /\ h.joyPending = e.joyPending /\ h.second = e.second
        /\ h.aimDownAt = e.aimDownAt /\ h.enabled /\ h.aimPos # NoPos
    BY DEF Good, Frame, Engines, Zones, NoPos
  <2> HIDE DEF h
  <2>3. IdOf(e, AimName) = NoId
    BY <1>1 DEF Good, Sound, AimTracked
  <2>4. CASE ~e.aimDownAt /\ MoveFree(e, c) = Touch(h, AimName)
    <3>1. Good(Touch(h, AimName), s) /\ Touch(h, AimName).enabled
      BY <1>1, <2>2, <2>3, <2>4, AimDown
    <3> QED BY <2>4, <3>1
  <2> QED BY <2>1, <2>4
<1>2. CASE e.aimPos # NoPos
  BY <1>2, AimMoveGood DEF MoveFree
<1> QED BY <1>1, <1>2

(* The bounded path at the margin.                                         *)
LEMMA MoveBoundedGood ==
  ASSUME NEW s, NEW e, Good(e, s), e.enabled, AimName # NoName,
         IdOf(e, AimName) # NoId, NEW c, c.zone \in Zones
  PROVE  LET f == MoveBounded(e, c) IN Good(f, s) /\ f.enabled
<1> DEFINE g == Emit(e, "Move", {IdOf(e, AimName)})
<1>1. CASE ~Outside(c)
  BY <1>1, AimMoveGood DEF MoveBounded
<1>2. CASE Outside(c)
  <2>1. Good(g, s) /\ g.enabled /\ g.pool = e.pool
    BY AimKeys, MoveKeyGood
  <2>2. IdOf(g, AimName) # NoId
    BY <2>1 DEF IdOf
  <2>3. MoveBounded(e, c) = LiftForReset(g) \/ MoveBounded(e, c) = LiftForReset(e)
    BY <1>2 DEF MoveBounded
  <2> HIDE DEF g
  <2>4. LET f == LiftForReset(g) IN Good(f, s) /\ f.enabled
    BY <2>1, <2>2, LiftForResetGood
  <2>5. LET f == LiftForReset(e) IN Good(f, s) /\ f.enabled
    BY LiftForResetGood
  <2> QED BY <2>3, <2>4, <2>5
<1> QED BY <1>1, <1>2

(* Preparing the second finger keeps both predicates.                      *)
LEMMA PrepareSecondGood ==
  ASSUME NEW s, NEW e, Good(e, s), e.enabled, AimName # NoName,
         IdOf(e, AimName) # NoId
  PROVE  LET f == PrepareSecond(e) IN
         Good(f, s) /\ f.enabled /\ IdOf(f, AimName) # NoId
<1> DEFINE d == Touch(e, SecondKey)
           f == PrepareSecond(e)
<1>1. CASE ~(e.aimPos = "far" /\ ~e.second)
  BY <1>1 DEF PrepareSecond
<1>2. CASE e.aimPos = "far" /\ ~e.second
  <2>1. f = [d EXCEPT !.second = AcquiredId(e.pool, SecondKey) # NoId]
    BY <1>2 DEF PrepareSecond
  <2>2. IdOf(e, SecondKey) = NoId
    BY <1>2 DEF Good, Sound, AimTracked
  <2>3. /\ Frame(d, s) /\ SameButFingers(e, d)
        /\ \A j \in Keys : IdOf(d, j) = IF j = SecondKey THEN AcquiredId(e.pool, SecondKey)
                                         ELSE IdOf(e, j)
    BY <2>2, AimKeys, TouchEffect DEF Good
  <2> HIDE DEF d, f
  <2>4. /\ f \in Engines /\ f.pool = d.pool /\ f.acts = d.acts /\ f.held = d.held
        /\ f.swipe = d.swipe /\ f.joyPending = d.joyPending /\ f.aimPos = d.aimPos
        /\ f.aimDownAt = d.aimDownAt /\ f.enabled = d.enabled
        /\ f.second <=> AcquiredId(e.pool, SecondKey) # NoId
    BY <2>1, <2>3 DEF Frame, Engines
  <2>5. Frame(f, s)
    BY <2>3, <2>4, FrameSame
  <2>6. /\ SameButAim(e, f) /\ IdOf(f, AimName) = IdOf(e, AimName)
        /\ IdOf(f, SecondKey) = AcquiredId(e.pool, SecondKey)
        /\ f.aimPos = e.aimPos /\ f.aimDownAt = e.aimDownAt
    BY <2>3, <2>4, AimKeys DEF SameButFingers, SameButAim, IdOf
  <2>7. AimTracked(f) /\ ToggleHeld(f)
    BY <2>4, <2>6 DEF Good, Sound, AimTracked, ToggleHeld, SameButAim
  <2>8. Sound(f)
    BY <2>6, <2>7, SoundAfterAim DEF Good
  <2> QED BY <2>5, <2>6, <2>8 DEF Good, f, SameButAim
<1> QED BY <1>1, <1>2

(* The takeover: the first finger's Up, then rename. The pool stays        *)
(* consistent because the release comes first.                             *)
LEMMA TakeOverGood ==
  ASSUME NEW s, NEW e, Good(e, s), e.enabled, AimName # NoName,
         IdOf(e, AimName) # NoId, e.second, NEW c, c.zone \in Zones
  PROVE  LET f == TakeOver(e, c) IN Good(f, s) /\ f.enabled
<1> DEFINE d == Lift(e, {AimName})
           f == TakeOver(e, c)
           pool == Rename(d.pool, SecondKey, AimName)
<1>1. {AimName} \subseteq Keys /\ AimName \in Keys /\ SecondKey \in Keys
      /\ SecondKey # AimName
  BY AimKeys
<1>2. /\ Frame(d, s) /\ SameButFingers(e, d)
      /\ \A j \in Keys : IdOf(d, j) = IF j \in {AimName} THEN NoId ELSE IdOf(e, j)
  BY <1>1, LiftEffect DEF Good
<1>3. f = [d EXCEPT !.pool = pool, !.second = FALSE, !.aimPos = c.zone]
  BY DEF TakeOver
<1> HIDE DEF d, f
<1>4. d \in Engines /\ d.pool \in Pools /\ Consistent(d.pool)
  BY <1>2 DEF Frame, Engines
<1>5. d.pool.assigned[AimName] = NoId /\ d.pool.assigned[SecondKey] # NoId
  BY <1>1, <1>2 DEF IdOf, Good, Sound, AimTracked
<1>6. /\ pool \in Pools /\ Consistent(pool) /\ pool.inUse = d.pool.inUse
      /\ \A j \in Keys : pool.assigned[j] =
           IF j = SecondKey THEN NoId
           ELSE IF j = AimName THEN d.pool.assigned[SecondKey] ELSE d.pool.assigned[j]
  BY <1>1, <1>4, <1>5, RenameEffect
<1> HIDE DEF pool
<1>7. /\ f \in Engines /\ f.pool = pool /\ f.acts = d.acts /\ f.held = d.held
      /\ f.swipe = d.swipe /\ f.joyPending = d.joyPending /\ f.aimPos = c.zone
      /\ f.aimDownAt = d.aimDownAt /\ f.enabled = d.enabled /\ f.second = FALSE
  BY <1>3, <1>4, <1>6 DEF Engines
<1>8. Frame(f, s)
  BY <1>2, <1>6, <1>7 DEF Frame
<1>9. /\ SameButAim(e, f) /\ IdOf(f, SecondKey) = NoId
      /\ f.aimPos # NoPos /\ f.aimDownAt = e.aimDownAt
  BY <1>1, <1>2, <1>6, <1>7 DEF SameButFingers, SameButAim, IdOf, Zones, NoPos
<1>10. AimTracked(f) /\ ToggleHeld(f)
  BY <1>7, <1>9 DEF Good, Sound, AimTracked, ToggleHeld, SameButAim
<1>11. Sound(f)
  BY <1>9, <1>10, SoundAfterAim DEF Good
<1> QED BY <1>8, <1>9, <1>11 DEF Good, f, SameButAim

(* The in-frame swap: Up of the old id, Down of another one.               *)
LEMMA RotateAimGood ==
  ASSUME NEW s, NEW e, Good(e, s), e.enabled, AimName # NoName, IdOf(e, AimName) # NoId
  PROVE  LET f == RotateAim(e) IN Good(f, s) /\ f.enabled
<1> DEFINE old  == IdOf(e, AimName)
           new  == LowestFree(e.pool)
           pool == Rotate(e.pool, AimName)
           r    == [e EXCEPT !.pool = pool, !.aimPos = "centre", !.aimPending = TRUE]
           Old  == {old}
           New  == {new}
           up   == Emit(r, "Up", Old)
           f    == RotateAim(e)
<1>0. /\ e \in Engines /\ e.pool \in Pools /\ Consistent(e.pool) /\ AimName \in Keys
      /\ AimName # SecondKey /\ SecondKey \in Keys /\ "Up" \in Acts /\ "Down" \in Acts
  BY AimKeys DEF Good, Frame, Engines, Acts
<1>1. CASE ~CanRotate(e.pool, AimName)
  BY <1>1 DEF RotateAim
<1>2. CASE CanRotate(e.pool, AimName)
  <2>1. /\ pool \in Pools /\ Consistent(pool)
        /\ new \in Ids /\ ~e.pool.inUse[new] /\ old \in Ids /\ e.pool.inUse[old]
        /\ \A j \in Keys : pool.assigned[j] = IF j = AimName THEN new ELSE e.pool.assigned[j]
        /\ \A i \in Ids : pool.inUse[i] <=> (e.pool.inUse[i] /\ i # old) \/ i = new
    BY <1>0, <1>2, RotateEffect DEF IdOf
  <2>2. /\ r \in Engines /\ r.pool = pool /\ r.acts = e.acts /\ r.held = e.held
        /\ r.swipe = e.swipe /\ r.joyPending = e.joyPending /\ r.aimPos # NoPos
        /\ r.aimDownAt = e.aimDownAt /\ r.enabled /\ r.second = e.second
    BY <1>0, <2>1 DEF Engines, Zones, NoPos
  <2>3. IdOf(r, AimName) = new
    BY <1>0, <2>1, <2>2 DEF IdOf
  <2>4. f = Emit(up, "Down", New)
    BY <1>2, <2>3 DEF RotateAim
  <2>5. Old \subseteq Ids /\ New \subseteq Ids /\ old # new
    BY <2>1
  <2>6. /\ \A i \in Ids : i \in Old <=> i = old
        /\ \A i \in Ids : i \in New <=> i = new
    OBVIOUS
  <2> HIDE DEF f, r, pool, Old, New
  <2>7. /\ up \in Engines /\ SameButFingers(r, up) /\ up.pool = pool
        /\ \A i \in Ids : up.acts[i] = IF i \in Old THEN Append(r.acts[i], "Up") ELSE r.acts[i]
    BY <1>0, <2>2, <2>5, EmitEffect
  <2> HIDE DEF up
  <2>8. /\ f \in Engines /\ SameButFingers(up, f) /\ f.pool = pool
        /\ \A i \in Ids : f.acts[i] = IF i \in New THEN Append(up.acts[i], "Down") ELSE up.acts[i]
    BY <1>0, <2>4, <2>5, <2>7, EmitEffect
  <2>9. Frame(f, s)
    <3>1. ASSUME NEW i \in Ids
          PROVE  /\ Legal(f.acts[i], i \in s)
                 /\ After(f.acts[i], i \in s) <=> f.pool.inUse[i]
      <4>1. /\ e.acts[i] \in Seq(Acts) /\ Legal(e.acts[i], i \in s)
            /\ After(e.acts[i], i \in s) <=> e.pool.inUse[i]
        BY DEF Good, Frame, Engines
      <4>2. (i \in s) \in BOOLEAN
        OBVIOUS
      <4>3. CASE i = old
        <5>1. f.acts[i] = Append(e.acts[i], "Up") /\ ~f.pool.inUse[i]
          BY <2>1, <2>2, <2>5, <2>6, <2>7, <2>8, <4>3
        <5>2. ("Up" = "Down") <=> ~After(e.acts[i], i \in s)
          BY <2>1, <4>1, <4>3
        <5>3. /\ Legal(Append(e.acts[i], "Up"), i \in s)
              /\ After(Append(e.acts[i], "Up"), i \in s) <=> "Up" # "Up"
          BY <1>0, <4>1, <4>2, <5>2, AppendAct
        <5> QED BY <5>1, <5>3
      <4>4. CASE i = new
        <5>0. i \in New /\ i \notin Old
          BY <2>5, <2>6, <4>4
        <5>a. up.acts[i] = e.acts[i]
          BY <2>2, <2>7, <5>0
        <5>b. f.acts[i] = Append(up.acts[i], "Down")
          BY <2>8, <5>0
        <5>c. f.pool.inUse[i]
          BY <2>1, <2>8, <4>4
        <5>1. f.acts[i] = Append(e.acts[i], "Down") /\ f.pool.inUse[i]
          BY <5>a, <5>b, <5>c
        <5>2. ("Down" = "Down") <=> ~After(e.acts[i], i \in s)
          BY <2>1, <4>1, <4>4
        <5>3. /\ Legal(Append(e.acts[i], "Down"), i \in s)
              /\ After(Append(e.acts[i], "Down"), i \in s) <=> "Down" # "Up"
          BY <1>0, <4>1, <4>2, <5>2, AppendAct
        <5> QED BY <5>1, <5>3
      <4>5. CASE i # old /\ i # new
        <5>1. f.acts[i] = e.acts[i] /\ (f.pool.inUse[i] <=> e.pool.inUse[i])
          BY <2>1, <2>2, <2>6, <2>7, <2>8, <4>5
        <5> QED BY <4>1, <5>1
      <4> QED BY <4>3, <4>4, <4>5
    <3> QED BY <2>1, <2>8, <3>1 DEF Frame
  <2>10. /\ SameButAim(e, f) /\ IdOf(f, SecondKey) = IdOf(e, SecondKey)
         /\ f.aimPos # NoPos /\ f.aimDownAt = e.aimDownAt /\ f.second = e.second
    BY <1>0, <2>1, <2>2, <2>7, <2>8 DEF SameButFingers, SameButAim, IdOf
  <2>11. AimTracked(f) /\ ToggleHeld(f)
    BY <2>10 DEF Good, Sound, AimTracked, ToggleHeld, SameButAim
  <2>12. Sound(f)
    BY <2>10, <2>11, SoundAfterAim DEF Good
  <2> QED BY <2>9, <2>10, <2>12 DEF Good, f, SameButAim
<1> QED BY <1>1, <1>2

(* The handoff path of on_mouse keeps both predicates.                     *)
LEMMA MoveHandoffGood ==
  ASSUME NEW s, NEW e, Good(e, s), e.enabled, AimName # NoName,
         IdOf(e, AimName) # NoId, NEW c, c.zone \in Zones
  PROVE  LET f == MoveHandoff(e, c) IN Good(f, s) /\ f.enabled
<1> DEFINE p == PrepareSecond(e)
           m == MoveSecond(p)
<1>1. Good(p, s) /\ p.enabled /\ IdOf(p, AimName) # NoId
  BY PrepareSecondGood
<1> HIDE DEF p
<1>2. Good(m, s) /\ m.enabled /\ IdOf(m, AimName) # NoId
  <2>1. CASE p.second /\ IdOf(p, SecondKey) # NoId
    <3> DEFINE g == Emit(p, "Move", {IdOf(p, SecondKey)})
    <3>1. Good(g, s) /\ g.enabled /\ g.pool = p.pool
      BY <1>1, <2>1, AimKeys, MoveKeyGood
    <3>2. m = g
      BY <2>1 DEF MoveSecond
    <3> HIDE DEF g, m
    <3> QED BY <1>1, <3>1, <3>2 DEF IdOf
  <2>2. CASE ~(p.second /\ IdOf(p, SecondKey) # NoId)
    BY <1>1, <2>2 DEF MoveSecond
  <2> QED BY <2>1, <2>2
<1>3. MoveHandoff(e, c) =
        IF ~Outside(c) THEN Emit([m EXCEPT !.aimPos = c.zone], "Move", {IdOf(m, AimName)})
        ELSE IF m.second THEN TakeOver(m, c) ELSE RotateAim(m)
  BY DEF MoveHandoff, p
<1> HIDE DEF m
<1>4. LET f == Emit([m EXCEPT !.aimPos = c.zone], "Move", {IdOf(m, AimName)}) IN
      Good(f, s) /\ f.enabled
  BY <1>2, AimMoveGood
<1>5. m.second => LET f == TakeOver(m, c) IN Good(f, s) /\ f.enabled
  BY <1>2, TakeOverGood
<1>6. LET f == RotateAim(m) IN Good(f, s) /\ f.enabled
  BY <1>2, RotateAimGood
<1>7. CASE ~Outside(c)
  BY <1>3, <1>4, <1>7
<1>8. CASE Outside(c) /\ m.second
  BY <1>3, <1>5, <1>8
<1>9. CASE Outside(c) /\ ~m.second
  BY <1>3, <1>6, <1>9
<1> QED BY <1>7, <1>8, <1>9

(* While no delayed press is due; in the tick it never is.                 *)
LEMMA MoveOnScreenGood ==
  ASSUME NEW s, NEW e, Good(e, s), e.enabled, ~e.aimDownAt, AimName # NoName,
         NEW c, c.zone \in Zones
  PROVE  LET f == MoveOnScreen(e, c) IN Good(f, s) /\ f.enabled
<1> DEFINE h == [e EXCEPT !.aimPos = "centre"]
           p == IF e.aimPos = NoPos THEN Touch(h, AimName) ELSE e
<1>1. CASE e.aimPos = NoPos /\ (AimHasToggle \/ AcquiredId(e.pool, AimName) = NoId)
  BY <1>1 DEF MoveOnScreen
<1>2. CASE ~(e.aimPos = NoPos /\ (AimHasToggle \/ AcquiredId(e.pool, AimName) = NoId))
  <2>1. MoveOnScreen(e, c) =
          IF IdOf(p, AimName) = NoId THEN p
          ELSE IF Handoff THEN MoveHandoff(p, c) ELSE MoveBounded(p, c)
    BY <1>2 DEF MoveOnScreen
  <2>2. Good(p, s) /\ p.enabled
    <3>1. CASE e.aimPos # NoPos
      BY <3>1
    <3>2. CASE e.aimPos = NoPos
      <4>1. ~AimHasToggle /\ IdOf(e, AimName) = NoId
        BY <1>2, <3>2 DEF Good, Sound, AimTracked
      <4>2. p = Touch(h, AimName)
        BY <3>2
      <4>3. /\ h \in Engines /\ h.pool = e.pool /\ h.acts = e.acts /\ h.held = e.held
            /\ h.swipe = e.swipe /\ h.joyPending = e.joyPending /\ h.second = e.second
            /\ h.enabled /\ ~h.aimDownAt /\ h.aimPos # NoPos
        BY DEF Good, Frame, Engines, Zones, NoPos
      <4> HIDE DEF h, p
      <4>4. Good(Touch(h, AimName), s) /\ Touch(h, AimName).enabled
        BY <4>1, <4>3, AimDown
      <4> QED BY <4>2, <4>4 DEF p
    <3> QED BY <3>1, <3>2
  <2> HIDE DEF p
  <2>3. CASE IdOf(p, AimName) = NoId
    BY <2>1, <2>2, <2>3
  <2>4. CASE IdOf(p, AimName) # NoId /\ Handoff
    <3>1. LET f == MoveHandoff(p, c) IN Good(f, s) /\ f.enabled
      BY <2>2, <2>4, MoveHandoffGood
    <3> QED BY <2>1, <2>4, <3>1
  <2>5. CASE IdOf(p, AimName) # NoId /\ ~Handoff
    <3>1. LET f == MoveBounded(p, c) IN Good(f, s) /\ f.enabled
      BY <2>2, <2>5, MoveBoundedGood
    <3> QED BY <2>1, <2>5, <3>1
  <2> QED BY <2>3, <2>4, <2>5
<1> QED BY <1>1, <1>2

(* on_mouse keeps both predicates on each of its paths.                    *)
LEMMA OnMouseGood ==
  ASSUME NEW s, NEW e, Good(e, s), e.enabled, ~e.aimDownAt, NEW c, c.zone \in Zones
  PROVE  LET f == OnMouse(e, c) IN Good(f, s) /\ f.enabled
<1>1. CASE AimName = NoName \/ c.move = "dead"
  BY <1>1 DEF OnMouse
<1>2. CASE ~(AimName = NoName \/ c.move = "dead") /\ ~Unbounded
  <2>1. OnMouse(e, c) = MoveOnScreen(e, c)
    BY <1>2 DEF OnMouse
  <2> QED BY <1>2, <2>1, MoveOnScreenGood
<1>3. CASE ~(AimName = NoName \/ c.move = "dead") /\ Unbounded
  <2>1. CASE AimHasToggle /\ e.aimPos = NoPos
    BY <1>3, <2>1 DEF OnMouse
  <2>2. CASE ~(AimHasToggle /\ e.aimPos = NoPos)
    <3>1. OnMouse(e, c) = MoveFree(e, c)
      BY <1>3, <2>2 DEF OnMouse
    <3> QED BY <1>3, <2>2, <3>1, MoveFreeGood
  <2> QED BY <2>1, <2>2
<1> QED BY <1>1, <1>2, <1>3

(* idle_recenter keeps both predicates.                                    *)
LEMMA IdleRecenterGood ==
  ASSUME NEW s, NEW e, Good(e, s), e.enabled, NEW c
  PROVE  LET f == IdleRecenter(e, c) IN Good(f, s) /\ f.enabled
<1> DEFINE h == [e EXCEPT !.aimAccum = FALSE]
<1>1. IdleRecenter(e, c) = e \/
      (AimName # NoName /\ IdOf(e, AimName) # NoId /\ IdleRecenter(e, c) = LiftForReset(h))
  BY DEF IdleRecenter
<1>2. /\ h \in Engines /\ h.pool = e.pool /\ h.acts = e.acts /\ h.held = e.held
      /\ h.swipe = e.swipe /\ h.joyPending = e.joyPending /\ h.second = e.second
      /\ h.aimDownAt = e.aimDownAt /\ h.enabled /\ h.aimPos = e.aimPos
  BY DEF Good, Frame, Engines
<1> HIDE DEF h
<1>3. Good(h, s) /\ IdOf(h, AimName) = IdOf(e, AimName)
  BY <1>2, GoodSame DEF IdOf
<1>4. CASE AimName # NoName /\ IdOf(e, AimName) # NoId /\ IdleRecenter(e, c) = LiftForReset(h)
  <2>1. LET f == LiftForReset(h) IN Good(f, s) /\ f.enabled
    BY <1>2, <1>3, <1>4, LiftForResetGood
  <2> QED BY <1>4, <2>1
<1> QED BY <1>1, <1>4

(* The aim part of a tick keeps both predicates.                           *)
LEMMA AimStepGood ==
  ASSUME NEW s, NEW e, Good(e, s), e.enabled, ~e.aimDownAt, NEW c, c.zone \in Zones
  PROVE  LET f == AimStep(e, c) IN Good(f, s) /\ f.enabled
<1> DEFINE g == [e EXCEPT !.aimPending = FALSE, !.aimAccum = FALSE]
           h == [e EXCEPT !.aimAccum = FALSE]
<1>1. /\ g \in Engines /\ g.pool = e.pool /\ g.acts = e.acts /\ g.held = e.held
      /\ g.swipe = e.swipe /\ g.joyPending = e.joyPending /\ g.second = e.second
      /\ g.aimDownAt = e.aimDownAt /\ g.enabled /\ g.aimPos = e.aimPos
  BY DEF Good, Frame, Engines
<1>2. /\ h \in Engines /\ h.pool = e.pool /\ h.acts = e.acts /\ h.held = e.held
      /\ h.swipe = e.swipe /\ h.joyPending = e.joyPending /\ h.second = e.second
      /\ h.aimDownAt = e.aimDownAt /\ h.enabled /\ ~h.aimDownAt /\ h.aimPos = e.aimPos
  BY DEF Good, Frame, Engines
<1>3. AimStep(e, c) \in {ApplyAimDelta(g, c), OnMouse(h, c), IdleRecenter(e, c)}
  <2>1. CASE e.aimPending
    BY <2>1 DEF AimStep
  <2>2. CASE ~e.aimPending /\ e.aimAccum
    BY <2>2 DEF AimStep
  <2>3. CASE ~e.aimPending /\ ~e.aimAccum
    BY <2>3 DEF AimStep
  <2> QED BY <2>1, <2>2, <2>3
<1> HIDE DEF g, h
<1>4. Good(g, s) /\ Good(h, s)
  BY <1>1, <1>2, GoodSame
<1>5. LET f == ApplyAimDelta(g, c) IN Good(f, s) /\ f.enabled
  BY <1>1, <1>4, ApplyAimDeltaGood
<1>6. LET f == OnMouse(h, c) IN Good(f, s) /\ f.enabled
  BY <1>2, <1>4, OnMouseGood
<1>7. LET f == IdleRecenter(e, c) IN Good(f, s) /\ f.enabled
  BY IdleRecenterGood
<1> QED BY <1>3, <1>5, <1>6, <1>7

(* Advancing and ending the playing swipes keeps both predicates.          *)
LEMMA SwipeStepsGood ==
  ASSUME NEW s, NEW e, Good(e, s), e.enabled, NEW c
  PROVE  LET f == SwipeSteps(e, c) IN Good(f, s) /\ f.enabled
<1> DEFINE stepped == {n \in Playing(e) : c.adv[n] # "stay"}
           last == {n \in Playing(e) : c.adv[n] = "final"}
           I == {e.swipe[n] : n \in stepped}
           m == Emit(e, "Move", I)
<1>0. e \in Engines /\ Consistent(e.pool) /\ Swipes \subseteq Names /\ Names \subseteq Keys
  BY KindsDiffer, ProfileAssumption DEF Good, Frame
<1>1. \A n \in Playing(e) : n \in Swipes /\ n \in Keys /\ e.swipe[n] = IdOf(e, n)
                            /\ IdOf(e, n) # NoId
  BY <1>0 DEF Playing, Good, Sound, Own
<1>2. I \subseteq Ids /\ \A i \in I : e.pool.inUse[i]
  BY <1>0, <1>1, HeldIdInUse
<1>3. last \subseteq Swipes
  BY <1>1
<1>4. SwipeSteps(e, c) = EndSwipes(m, last)
  BY DEF SwipeSteps
<1> HIDE DEF I, last
<1>5. Frame(m, s) /\ SameButFingers(e, m) /\ m.pool = e.pool
  BY <1>2, MoveEffect DEF Good
<1> HIDE DEF m
<1>6. Good(m, s) /\ m.enabled
  <2>1. /\ m \in Engines /\ \A j \in Keys : IdOf(m, j) = IdOf(e, j)
        /\ m.enabled
    BY <1>5 DEF Frame, IdOf, SameButFingers
  <2>2. Own(m) /\ AimTracked(m) /\ JoyPendingIsJoystick(m)
    BY <1>5 DEF Good, Sound, Own, AimTracked, JoyPendingIsJoystick, IdOf, SameButFingers
  <2>3. HeldBy(m) /\ ToggleHeld(m) /\ OffMeansUp(m)
    BY <1>5 DEF Good, Sound, HeldBy, ToggleHeld, OffMeansUp, IdOf, SameButFingers
  <2> QED BY <1>5, <2>1, <2>2, <2>3 DEF Good, Sound
<1>7. LET f == EndSwipes(m, last) IN Good(f, s) /\ f.enabled
  BY <1>3, <1>6, EndSwipesGood
<1> QED BY <1>4, <1>7

(* A whole tick: legal actions, and the bookkeeping agrees at its end.     *)
LEMMA TickGood ==
  ASSUME NEW s, NEW e, Good(e, s), NEW c, c.zone \in Zones
  PROVE  LET f == Tick(e, c) IN Good(f, s) /\ (e.enabled => f.enabled)
<1> DEFINE p == PendingJoystick(e)
           r == Reconcile(p)
           d == DelayedPress(r, c)
           q == PendingJoystick(d)
           a == AimStep(r, c)
<1>1. CASE ~e.enabled
  BY <1>1 DEF Tick
<1>2. CASE e.enabled
  <2>1. Good(p, s) /\ p.enabled
    BY <1>2, PendingJoystickGood
  <2>2. Tick(e, c) = IF r.aimDownAt THEN SwipeSteps(q, c) ELSE SwipeSteps(a, c)
    BY <1>2 DEF Tick
  <2> HIDE DEF p
  <2>3. Good(r, s) /\ r.enabled
    BY <2>1, ReconcileGood
  <2> HIDE DEF r
  <2>4. CASE r.aimDownAt
    <3>1. Good(d, s) /\ d.enabled
      BY <2>3, <2>4, DelayedPressGood
    <3> HIDE DEF d
    <3>2. Good(q, s) /\ q.enabled
      BY <3>1, PendingJoystickGood
    <3> HIDE DEF q
    <3>3. LET f == SwipeSteps(q, c) IN Good(f, s) /\ f.enabled
      BY <3>2, SwipeStepsGood
    <3> QED BY <2>2, <2>4, <3>3
  <2>5. CASE ~r.aimDownAt
    <3>1. Good(a, s) /\ a.enabled
      BY <2>3, <2>5, AimStepGood
    <3> HIDE DEF a
    <3>2. LET f == SwipeSteps(a, c) IN Good(f, s) /\ f.enabled
      BY <3>1, SwipeStepsGood
    <3> QED BY <2>2, <2>5, <3>2
  <2> QED BY <2>4, <2>5
<1> QED BY <1>1, <1>2

----------------------------------------------------------------------------
(* The specification.                                                      *)

(* The inductive invariant: the types, the bookkeeping, and the receiver's *)
(* view of the fingers.                                                    *)
IInv == TypeOK /\ Sound(eng) /\ FingersMatchPool

(* At the start of an arm no action has been emitted yet.                  *)
LEMMA FreshGood ==
  ASSUME IInv
  PROVE  /\ Good(Fresh(eng), screen) /\ Fresh(eng).enabled = eng.enabled
         /\ Fresh(eng).aimAccum = eng.aimAccum /\ Fresh(eng).aimPending = eng.aimPending
<1> DEFINE e == Fresh(eng)
<1>1. NoActs \in [Ids -> Seq(Acts)] /\ \A i \in Ids : NoActs[i] = <<>>
  BY DEF NoActs
<1>2. /\ e \in Engines /\ SameButFingers(eng, e) /\ e.pool = eng.pool /\ e.acts = NoActs
  BY <1>1 DEF IInv, TypeOK, Engines, Fresh, SameButFingers
<1> HIDE DEF e
<1>3. \A i \in Ids : Legal(<<>>, i \in screen) /\ (After(<<>>, i \in screen) <=> i \in screen)
  BY DEF Legal, After
<1>4. Frame(e, screen)
  BY <1>1, <1>2, <1>3 DEF Frame, IInv, FingersMatchPool
<1>5. Own(e) /\ AimTracked(e) /\ JoyPendingIsJoystick(e)
  BY <1>2 DEF IInv, Sound, Own, AimTracked, JoyPendingIsJoystick, IdOf, SameButFingers
<1>6. HeldBy(e) /\ ToggleHeld(e) /\ OffMeansUp(e)
  BY <1>2 DEF IInv, Sound, HeldBy, ToggleHeld, OffMeansUp, IdOf, SameButFingers
<1> QED BY <1>2, <1>4, <1>5, <1>6 DEF Good, Sound, e, SameButFingers

(* handle keeps both predicates for a press, in an enabled engine or not.  *)
LEMMA PressGood ==
  ASSUME NEW s, NEW e, Good(e, s), NEW t \in Triggers
  PROVE  Good(Press(e, t), s)
BY OnPressGood DEF Press

(* handle keeps both predicates for a release.                             *)
LEMMA UnpressGood ==
  ASSUME NEW s, NEW e, Good(e, s), NEW t \in Triggers
  PROVE  Good(Unpress(e, t), s)
BY OnReleaseGood DEF Unpress

(* handle keeps both predicates for mouse motion.                          *)
LEMMA MotionGood ==
  ASSUME NEW s, NEW e, Good(e, s), NEW nonzero \in BOOLEAN
  PROVE  Good(Motion(e, nonzero), s)
<1>1. CASE ~e.enabled
  BY <1>1 DEF Motion
<1>2. CASE e.enabled
  <2> DEFINE f == [e EXCEPT !.aimAccum = nonzero]
  <2>1. /\ f \in Engines /\ f.pool = e.pool /\ f.acts = e.acts /\ f.held = e.held
        /\ f.swipe = e.swipe /\ f.joyPending = e.joyPending /\ f.second = e.second
        /\ f.aimDownAt = e.aimDownAt /\ f.enabled /\ f.aimPos = e.aimPos
    BY <1>2 DEF Good, Frame, Engines
  <2>2. Motion(e, nonzero) = f
    BY <1>2 DEF Motion
  <2> HIDE DEF f
  <2> QED BY <1>2, <2>1, <2>2, GoodSame
<1> QED BY <1>1, <1>2

(* set_enabled(false) lifts every finger there is and forgets everything.  *)
LEMMA DisableGood ==
  ASSUME NEW s, NEW e, Good(e, s), e.enabled
  PROVE  /\ Good(Disable(e), s) /\ ~Disable(e).enabled
         /\ Disable(e).pool = NewPool
<1> DEFINE I == HeldIds(e.pool)
           swipe == [n \in Names |-> NoId]
           stick == [n \in Names |-> Still]
           g == Emit(e, "Up", I)
           f == Disable(e)
<1>0. e \in Engines /\ Consistent(e.pool) /\ "Up" \in Acts
  BY DEF Good, Frame, Acts
<1>1. I \subseteq Ids /\ \A i \in Ids : i \in I <=> e.pool.inUse[i]
  BY <1>0 DEF HeldIds, Consistent
<1>2. NewPool \in Pools /\ Consistent(NewPool) /\ \A i \in Ids : ~NewPool.inUse[i]
      /\ \A k \in Keys : NewPool.assigned[k] = NoId
  BY NewPoolConsistent DEF NewPool
<1>3. swipe \in [Names -> Ids \cup {NoId}] /\ stick \in [Names -> Vectors]
      /\ \A n \in Names : swipe[n] = NoId
  BY DEF Still, Vectors
<1>4. f = [g EXCEPT
             !.enabled = FALSE, !.held = {}, !.aimPos = NoPos, !.aimPending = FALSE,
             !.aimAccum = FALSE, !.aimDownAt = FALSE, !.second = FALSE,
             !.joyPending = NoName, !.swipe = swipe, !.stick = stick, !.pool = NewPool]
  BY DEF Disable
<1> HIDE DEF I, f, swipe, stick
<1>5. /\ g \in Engines
      /\ \A i \in Ids : g.acts[i] = IF i \in I THEN Append(e.acts[i], "Up") ELSE e.acts[i]
  BY <1>0, <1>1, EmitEffect
<1> HIDE DEF g
<1>6. /\ f \in Engines /\ f.acts = g.acts /\ f.pool = NewPool /\ ~f.enabled /\ f.held = {}
      /\ ~f.aimDownAt /\ ~f.second /\ f.joyPending = NoName /\ f.swipe = swipe
  BY <1>2, <1>3, <1>4, <1>5 DEF Engines
<1>7. Frame(f, s)
  <2>1. \A i \in Ids : f.acts[i] = IF i \in I THEN Append(e.acts[i], "Up") ELSE e.acts[i]
    BY <1>5, <1>6
  <2>2. \A i \in I : ("Up" = "Down") <=> ~e.pool.inUse[i]
    BY <1>1
  <2>3. \A i \in Ids : f.pool.inUse[i] <=> IF i \in I THEN "Up" # "Up" ELSE e.pool.inUse[i]
    BY <1>1, <1>2, <1>6
  <2>4. Frame(e, s) /\ Consistent(f.pool)
    BY <1>2, <1>6 DEF Good
  <2> QED BY <1>0, <1>1, <1>6, <2>1, <2>2, <2>3, <2>4, FrameStep
<1>8. \A k \in Keys : IdOf(f, k) = NoId
  BY <1>6 DEF IdOf, NewPool
<1>9. Names \subseteq Keys /\ SecondKey \in Keys
  BY ProfileAssumption
<1>10. Sound(f)
  <2>1. Own(f) /\ AimTracked(f) /\ JoyPendingIsJoystick(f)
    BY <1>3, <1>6, <1>8, <1>9, AimIsAim DEF Own, AimTracked, JoyPendingIsJoystick
  <2>2. HeldBy(f) /\ ToggleHeld(f) /\ OffMeansUp(f)
    BY <1>6, <1>8, <1>9, KindsDiffer, AimIsAim DEF HeldBy, ToggleHeld, OffMeansUp, AimHasToggle
  <2> QED BY <2>1, <2>2 DEF Sound
<1> QED BY <1>6, <1>7, <1>10 DEF Good, f

(* The inputs of a tick are well formed.                                   *)
LEMMA ChoiceType ==
  ASSUME NEW e, NEW c \in Choices(e)
  PROVE  c.zone \in Zones
BY DEF Choices, Motions, NoMotion, Zones

(* Dispatching a good frame: the receiver ends where the pool says.        *)
LEMMA DispatchGood ==
  ASSUME TypeOK, NEW a \in {"ticker", "keyboard", "mouse", "stop"}, NEW e,
         Good(e, screen), Dispatch(a, e), down' \subseteq Triggers
  PROVE  IInv' /\ \A i \in Ids : Legal(eng'.acts[i], i \in screen)
<1>1. eng' = e /\ arm' = a /\ screen' = {i \in Ids : After(e.acts[i], i \in screen)}
  BY DEF Dispatch
<1>2. e \in Engines /\ Consistent(e.pool)
      /\ \A i \in Ids : Legal(e.acts[i], i \in screen)
                         /\ (After(e.acts[i], i \in screen) <=> e.pool.inUse[i])
  BY DEF Good, Frame
<1>3. screen' = {i \in Ids : e.pool.inUse[i]} /\ screen' \subseteq Ids
  BY <1>1, <1>2
<1>4. TypeOK'
  BY <1>1, <1>2, <1>3 DEF TypeOK
<1>5. FingersMatchPool'
  BY <1>1, <1>2, <1>3 DEF FingersMatchPool
<1>6. Sound(eng)'
  BY <1>1 DEF Good
<1> QED BY <1>1, <1>2, <1>4, <1>5, <1>6 DEF IInv

(* A new engine has no finger and nothing pending.                         *)
LEMMA NewEngineSound == NewEngine \in Engines /\ Sound(NewEngine)
<1> DEFINE e == NewEngine
<1>1. NewPool \in Pools /\ \A k \in Keys : NewPool.assigned[k] = NoId
  BY NewPoolConsistent DEF NewPool
<1>2. NewEngine \in Engines
  <2>1. [n \in Names |-> NoId] \in [Names -> Ids \cup {NoId}]
    OBVIOUS
  <2>2. [n \in Names |-> Still] \in [Names -> Vectors]
    BY DEF Still, Vectors
  <2>3. NoActs \in [Ids -> Seq(Acts)]
    BY DEF NoActs
  <2> QED BY <1>1, <2>1, <2>2, <2>3 DEF NewEngine, Engines
<1>3. /\ e.held = {} /\ e.joyPending = NoName /\ ~e.second /\ ~e.aimDownAt
      /\ e.enabled /\ (\A n \in Names : e.swipe[n] = NoId)
      /\ \A k \in Keys : IdOf(e, k) = NoId
  BY <1>1 DEF NewEngine, IdOf
<1>4. Names \subseteq Keys /\ SecondKey \in Keys
  BY ProfileAssumption
<1> HIDE DEF e
<1>5. Own(e) /\ AimTracked(e) /\ JoyPendingIsJoystick(e)
  BY <1>3, <1>4, AimIsAim DEF Own, AimTracked, JoyPendingIsJoystick
<1>6. HeldBy(e) /\ ToggleHeld(e) /\ OffMeansUp(e)
  BY <1>3, <1>4, KindsDiffer, AimIsAim DEF HeldBy, ToggleHeld, OffMeansUp, AimHasToggle
<1> QED BY <1>2, <1>5, <1>6 DEF Sound, e

(* The initial states satisfy the invariant.                               *)
LEMMA InitIInv == Init => IInv
<1> SUFFICES ASSUME Init PROVE IInv
  OBVIOUS
<1>1. Consistent(NewPool) /\ \A i \in Ids : ~NewPool.inUse[i]
  BY NewPoolConsistent DEF NewPool
<1>2. TypeOK /\ Sound(eng)
  BY NewEngineSound DEF Init, TypeOK
<1>3. FingersMatchPool
  BY <1>1 DEF Init, FingersMatchPool, NewEngine
<1> QED BY <1>2, <1>3 DEF IInv

(* Every step keeps the invariant, and its frame is legal.                 *)
LEMMA StepIInv ==
  ASSUME IInv, [Next]_vars
  PROVE  IInv' /\ (vars' # vars => \A i \in Ids : Legal(eng'.acts[i], i \in screen))
<1> DEFINE Lawful == \A i \in Ids : Legal(eng'.acts[i], i \in screen)
<1>0. Good(Fresh(eng), screen) /\ Fresh(eng).enabled = eng.enabled /\ TypeOK
  BY FreshGood DEF IInv
<1>1. CASE Ticker
  <2>1. PICK c \in Choices(eng) : Dispatch("ticker", Tick(Fresh(eng), c))
    BY <1>1 DEF Ticker
  <2>2. Good(Tick(Fresh(eng), c), screen)
    BY <1>0, ChoiceType, TickGood
  <2>3. down' \subseteq Triggers
    BY <1>0, <1>1 DEF Ticker, TypeOK
  <2> QED BY <1>0, <2>1, <2>2, <2>3, DispatchGood
<1>2. ASSUME NEW t \in Triggers, KeyPress(t)
      PROVE  IInv' /\ Lawful
  <2>1. PICK c \in Choices(eng) : Dispatch("keyboard", Press(Tick(Fresh(eng), c), t))
    BY <1>2 DEF KeyPress
  <2>2. Good(Tick(Fresh(eng), c), screen)
    BY <1>0, ChoiceType, TickGood
  <2>3. Good(Press(Tick(Fresh(eng), c), t), screen)
    BY <2>2, PressGood
  <2>4. down' \subseteq Triggers
    BY <1>0, <1>2 DEF KeyPress, TypeOK
  <2> QED BY <1>0, <2>1, <2>3, <2>4, DispatchGood
<1>3. ASSUME NEW t \in Triggers, KeyRelease(t)
      PROVE  IInv' /\ Lawful
  <2>1. PICK c \in Choices(eng) : Dispatch("keyboard", Unpress(Tick(Fresh(eng), c), t))
    BY <1>3 DEF KeyRelease
  <2>2. Good(Tick(Fresh(eng), c), screen)
    BY <1>0, ChoiceType, TickGood
  <2>3. Good(Unpress(Tick(Fresh(eng), c), t), screen)
    BY <2>2, UnpressGood
  <2>4. down' \subseteq Triggers
    BY <1>0, <1>3 DEF KeyRelease, TypeOK
  <2> QED BY <1>0, <2>1, <2>3, <2>4, DispatchGood
<1>4. ASSUME NEW t \in Triggers, MousePress(t)
      PROVE  IInv' /\ Lawful
  <2>1. Dispatch("mouse", Press(Fresh(eng), t)) /\ Good(Press(Fresh(eng), t), screen)
    BY <1>0, <1>4, PressGood DEF MousePress
  <2>2. down' \subseteq Triggers
    BY <1>0, <1>4 DEF MousePress, TypeOK
  <2> QED BY <1>0, <2>1, <2>2, DispatchGood
<1>5. ASSUME NEW t \in Triggers, MouseRelease(t)
      PROVE  IInv' /\ Lawful
  <2>1. Dispatch("mouse", Unpress(Fresh(eng), t)) /\ Good(Unpress(Fresh(eng), t), screen)
    BY <1>0, <1>5, UnpressGood DEF MouseRelease
  <2>2. down' \subseteq Triggers
    BY <1>0, <1>5 DEF MouseRelease, TypeOK
  <2> QED BY <1>0, <2>1, <2>2, DispatchGood
<1>6. CASE MouseMotion
  <2>1. PICK nonzero \in BOOLEAN : Dispatch("mouse", Motion(Fresh(eng), nonzero))
    BY <1>6 DEF MouseMotion
  <2>2. Good(Motion(Fresh(eng), nonzero), screen)
    BY <1>0, MotionGood
  <2>3. down' \subseteq Triggers
    BY <1>0, <1>6 DEF MouseMotion, TypeOK
  <2> QED BY <1>0, <2>1, <2>2, <2>3, DispatchGood
<1>7. CASE Stop
  <2>1. Dispatch("stop", Disable(Fresh(eng))) /\ Good(Disable(Fresh(eng)), screen)
    BY <1>0, <1>7, DisableGood DEF Stop
  <2>2. down' \subseteq Triggers
    BY <1>0, <1>7 DEF Stop, TypeOK
  <2> QED BY <1>0, <2>1, <2>2, DispatchGood
<1>8. ASSUME NEW e, eng' = e, e \in Engines, e.enabled, e.acts = NoActs, e.pool = NewPool,
             screen' = {}, Sound(e), arm' \in {"rebuild", "renew"}, down' = down
      PROVE  IInv' /\ Lawful
  <2>1. Consistent(NewPool) /\ \A i \in Ids : ~NewPool.inUse[i]
    BY NewPoolConsistent DEF NewPool
  <2>2. TypeOK'
    BY <1>0, <1>8 DEF TypeOK
  <2>3. FingersMatchPool'
    BY <1>8, <2>1 DEF FingersMatchPool
  <2>4. Sound(eng)'
    BY <1>8
  <2>5. Lawful
    BY <1>8 DEF NoActs, Legal
  <2> QED BY <2>2, <2>3, <2>4, <2>5 DEF IInv
<1>9. CASE Rebuild
  <2>1. screen = {}
    <3>1. \A k \in Keys : eng.pool.assigned[k] = NoId
      BY <1>9 DEF Rebuild, IInv, Sound, OffMeansUp, IdOf
    <3>2. \A i \in Ids : ~eng.pool.inUse[i]
      BY <3>1, NoIdIsNoId DEF IInv, FingersMatchPool, Consistent
    <3> QED BY <3>2 DEF IInv, FingersMatchPool
  <2>2. /\ eng' = NewEngine /\ arm' = "rebuild" /\ down' = down
        /\ screen' = {i \in Ids : After(NewEngine.acts[i], i \in screen)}
    BY <1>9 DEF Rebuild, Dispatch
  <2>3. \A i \in Ids : NewEngine.acts[i] = <<>>
    BY DEF NewEngine, NoActs
  <2>4. screen' = {}
    BY <2>1, <2>2, <2>3 DEF After
  <2>5. NewEngine \in Engines /\ Sound(NewEngine) /\ NewEngine.enabled
        /\ NewEngine.acts = NoActs /\ NewEngine.pool = NewPool
    <3>1. NewEngine.enabled /\ NewEngine.acts = NoActs /\ NewEngine.pool = NewPool
      BY DEF NewEngine
    <3> QED BY <3>1, NewEngineSound
  <2> QED BY <1>8, <2>2, <2>4, <2>5
<1>10. CASE RenewPipe
  <2> DEFINE d == Disable(Fresh(eng))
             e == Fresh(Enable(d))
  <2>1. eng' = e /\ screen' = {} /\ arm' = "renew" /\ down' = down
    BY <1>10 DEF RenewPipe
  <2>2. Good(d, screen) /\ ~d.enabled /\ d.pool = NewPool
    BY <1>0, <1>10, DisableGood DEF RenewPipe
  <2> HIDE DEF d
  <2>3. /\ e \in Engines /\ e.pool = NewPool /\ e.acts = NoActs /\ e.held = d.held
        /\ e.swipe = d.swipe /\ e.joyPending = d.joyPending /\ e.second = d.second
        /\ e.aimPos = d.aimPos /\ e.aimDownAt = d.aimDownAt /\ e.enabled
    <3>1. NoActs \in [Ids -> Seq(Acts)]
      BY DEF NoActs
    <3> QED BY <2>2, <3>1 DEF Good, Frame, Engines, Fresh, Enable
  <2> HIDE DEF e
  <2>4. Sound(e)
    BY <2>2, <2>3 DEF Good, Sound, Own, AimTracked, JoyPendingIsJoystick, HeldBy,
                      ToggleHeld, OffMeansUp, IdOf
  <2> QED BY <1>8, <2>1, <2>3, <2>4
<1>11. CASE UNCHANGED vars
  <2>1. IInv'
    BY <1>11 DEF vars, IInv, TypeOK, FingersMatchPool
  <2> QED BY <1>11, <2>1
<1> QED
  BY <1>1, <1>2, <1>3, <1>4, <1>5, <1>6, <1>7, <1>9, <1>10, <1>11 DEF Next

(* The inductive invariant holds of every behaviour.                       *)
THEOREM InvariantHolds == Spec => []IInv
<1>1. IInv /\ [Next]_vars => IInv'
  BY StepIInv
<1> QED BY InitIInv, <1>1, PTL DEF Spec

(* Type correctness, for every profile, pool size and backend.             *)
THEOREM TypeCorrect == Spec => []TypeOK
<1>1. IInv => TypeOK
  BY DEF IInv
<1> QED BY InvariantHolds, <1>1, PTL

(* No finger is forgotten on the screen and no id is lost: after every     *)
(* arm the receiver's fingers are the pool's.                              *)
THEOREM NoStuckFinger == Spec => []FingersMatchPool
<1>1. IInv => FingersMatchPool
  BY DEF IInv
<1> QED BY InvariantHolds, <1>1, PTL

(* A playing swipe addresses its own finger.                               *)
THEOREM SwipesAddressTheirOwn == Spec => []SwipeOwnsItsFinger
<1>1. IInv => SwipeOwnsItsFinger
  BY KindsDiffer DEF IInv, Sound, Own, SwipeOwnsItsFinger
<1> QED BY InvariantHolds, <1>1, PTL

(* The aim finger is tracked by its position and its deadline.             *)
THEOREM AimIsTracked == Spec => []AimFingerTracked
<1>1. IInv => AimFingerTracked
  BY DEF IInv, Sound, AimTracked, AimFingerTracked
<1> QED BY InvariantHolds, <1>1, PTL

(* A Tap, Toggle or Joystick finger is down only while a key of it is held.*)
THEOREM FingersAreHeld == Spec => []FingerNeedsAHeldKey
<1>1. IInv => FingerNeedsAHeldKey
  BY DEF IInv, Sound, HeldBy, FingerNeedsAHeldKey
<1> QED BY InvariantHolds, <1>1, PTL

(* Every frame is a legal run of touch actions for the receiver.           *)
THEOREM FramesAreLegal == Spec => LegalFrames
<1>1. IInv /\ [Next]_vars => [\A i \in Ids : Legal(eng'.acts[i], i \in screen)]_vars
  BY StepIInv
<1> QED BY InvariantHolds, <1>1, PTL DEF Spec, LegalFrames

(* Behind a toggle the aim is the hand's: with no key of the toggle held   *)
(* there is no aim finger, and none is about to be pressed by a reset that *)
(* came due after the release (engine.rs, release and tick).               *)
THEOREM AimGoesWithItsToggle ==
  Spec => [](AimHasToggle /\ Profile[AimName].triggers \cap eng.held = {} =>
             IdOf(eng, AimName) = NoId /\ ~eng.aimDownAt)
<1>1. IInv => (AimHasToggle /\ Profile[AimName].triggers \cap eng.held = {} =>
                 IdOf(eng, AimName) = NoId /\ ~eng.aimDownAt)
  BY DEF IInv, Sound, ToggleHeld
<1> QED BY InvariantHolds, <1>1, PTL

(* The three together: types, the pool and the aim finger.                 *)
THEOREM EveryFingerIsAccountedFor == Spec => []FingersAccounted
<1>1. IInv => FingersAccounted
  BY DEF IInv, Sound, AimTracked, AimFingerTracked, FingersAccounted
<1> QED BY InvariantHolds, <1>1, PTL
----------------------------------------------------------------------------
(* What each helper leaves alone. The helpers work on disjoint sets of     *)
(* pool keys; these relations say so, so that a predicate about the other  *)
(* keys survives without another look at the code.                         *)

(* f is e but for the keys of K, and the fields of the aim.                *)
Aside(e, f, K) ==
  /\ f \in Engines
  /\ f.held = e.held /\ f.joyPending = e.joyPending /\ f.enabled = e.enabled
  /\ \A k \in Keys \ K : IdOf(f, k) = IdOf(e, k)
  /\ \A n \in Names \ K : f.stick[n] = e.stick[n] /\ f.swipe[n] = e.swipe[n]

SameAim(e, f) ==
  /\ f.aimPos = e.aimPos /\ f.second = e.second /\ f.aimPending = e.aimPending
  /\ f.aimAccum = e.aimAccum /\ f.aimDownAt = e.aimDownAt

(* The ids a frame has pressed so far, and whether none of them moved.     *)
Pressed(e) == {i \in Ids : \E k \in DOMAIN e.acts[i] : e.acts[i][k] = "Down"}
Alone(e) == \A i \in Ids : ~Follows(e.acts[i], "Down", "Move")

(* Two helpers in a row.                                                   *)
LEMMA AsideTwice ==
  ASSUME NEW e, NEW f, NEW g, NEW K, NEW L, NEW M,
         Aside(e, f, K), Aside(f, g, L), K \subseteq M, L \subseteq M
  PROVE  Aside(e, g, M)
BY DEF Aside

(* Setting fields of the aim, or the frame, leaves every key alone.        *)
LEMMA AsideFields ==
  ASSUME NEW e \in Engines, NEW f \in Engines, NEW K, f.held = e.held,
         f.joyPending = e.joyPending, f.enabled = e.enabled, f.stick = e.stick,
         f.swipe = e.swipe, f.pool = e.pool
  PROVE  Aside(e, f, K)
BY DEF Aside, IdOf

(* The places of a longer sequence: the old ones and the last.             *)
LEMMA AppendPlaces ==
  ASSUME NEW S, NEW s \in Seq(S), NEW a \in S, NEW k \in DOMAIN Append(s, a)
  PROVE  /\ k = Len(s) + 1 => Append(s, a)[k] = a
         /\ k # Len(s) + 1 => /\ k \in DOMAIN s /\ Append(s, a)[k] = s[k]
                              /\ k < Len(s) + 1
         /\ k \in Int
OBVIOUS

(* One more action: a press moves nothing, and a move is alone unless its  *)
(* id was pressed in this frame.                                           *)
LEMMA EmitAlone ==
  ASSUME NEW e \in Engines, NEW a \in Acts, NEW I, I \subseteq Ids
  PROVE  LET f == Emit(e, a, I) IN
         /\ Pressed(f) \subseteq IF a = "Down" THEN Pressed(e) \cup I ELSE Pressed(e)
         /\ Alone(e) /\ (a = "Move" => I \cap Pressed(e) = {}) => Alone(f)
<1> DEFINE f == Emit(e, a, I)
<1>1. \A i \in Ids : f.acts[i] = IF i \in I THEN Append(e.acts[i], a) ELSE e.acts[i]
  BY EmitEffect
<1> HIDE DEF f
<1>2. ASSUME NEW i \in Ids, i \in I, NEW k \in DOMAIN f.acts[i]
      PROVE  /\ k = Len(e.acts[i]) + 1 => f.acts[i][k] = a
             /\ k # Len(e.acts[i]) + 1 => /\ k \in DOMAIN e.acts[i]
                                          /\ f.acts[i][k] = e.acts[i][k]
                                          /\ k < Len(e.acts[i]) + 1
             /\ k \in Int /\ Len(e.acts[i]) \in Int
  <2>1. e.acts[i] \in Seq(Acts) /\ f.acts[i] = Append(e.acts[i], a)
    BY <1>1, <1>2 DEF Engines
  <2>2. Len(e.acts[i]) \in Int
    BY <2>1
  <2> QED BY <2>1, <2>2, AppendPlaces
<1>3. ASSUME NEW i \in Pressed(f)
      PROVE  i \in IF a = "Down" THEN Pressed(e) \cup I ELSE Pressed(e)
  <2>0. i \in Ids
    BY DEF Pressed
  <2>1. PICK k \in DOMAIN f.acts[i] : f.acts[i][k] = "Down"
    BY DEF Pressed
  <2>2. CASE i \notin I
    BY <1>1, <2>0, <2>1, <2>2 DEF Pressed
  <2>3. CASE i \in I /\ k = Len(e.acts[i]) + 1
    BY <1>2, <2>0, <2>1, <2>3
  <2>4. CASE i \in I /\ k # Len(e.acts[i]) + 1
    <3>1. k \in DOMAIN e.acts[i] /\ e.acts[i][k] = "Down"
      BY <1>2, <2>0, <2>1, <2>4
    <3> QED BY <2>0, <3>1 DEF Pressed
  <2> QED BY <2>2, <2>3, <2>4
<1>4. ASSUME Alone(e), a = "Move" => I \cap Pressed(e) = {}, NEW i \in Ids,
             NEW j \in DOMAIN f.acts[i], NEW k \in DOMAIN f.acts[i],
             j < k, f.acts[i][j] = "Down", f.acts[i][k] = "Move"
      PROVE  FALSE
  <2>1. CASE i \notin I
    BY <1>1, <1>4, <2>1 DEF Alone, Follows
  <2>2. CASE i \in I
    <3>0. j # Len(e.acts[i]) + 1
      <4>1. k = Len(e.acts[i]) + 1 \/ k < Len(e.acts[i]) + 1
        BY <1>2, <2>2
      <4>2. k \in Int /\ j \in Int /\ Len(e.acts[i]) \in Int
        BY <1>2, <2>2
      <4> QED BY <1>4, <4>1, <4>2
    <3>1. j \in DOMAIN e.acts[i] /\ e.acts[i][j] = "Down"
      BY <1>2, <1>4, <2>2, <3>0
    <3>2. CASE k = Len(e.acts[i]) + 1
      <4>1. a = "Move" /\ i \in Pressed(e)
        BY <1>2, <1>4, <2>2, <3>1, <3>2 DEF Pressed
      <4> QED BY <1>4, <2>2, <4>1
    <3>3. CASE k # Len(e.acts[i]) + 1
      <4>1. k \in DOMAIN e.acts[i] /\ e.acts[i][k] = "Move"
        BY <1>2, <1>4, <2>2, <3>3
      <4> QED BY <1>4, <3>1, <4>1 DEF Alone, Follows
    <3> QED BY <3>2, <3>3
  <2> QED BY <2>1, <2>2
<1>5. Alone(e) /\ (a = "Move" => I \cap Pressed(e) = {}) => Alone(f)
  BY <1>4 DEF Alone, Follows
<1> QED BY <1>3, <1>5 DEF f

(* A finger that goes down: its key holds the id acquire returned, and     *)
(* only that id is pressed.                                                *)
LEMMA TouchAside ==
  ASSUME NEW e \in Engines, NEW k \in Keys
  PROVE  LET f == Touch(e, k) IN
         /\ Aside(e, f, {k}) /\ SameAim(e, f) /\ f.stick = e.stick /\ f.swipe = e.swipe
         /\ IdOf(f, k) = AcquiredId(e.pool, k)
         /\ Pressed(f) \subseteq Pressed(e) \cup ({IdOf(f, k)} \ {NoId})
         /\ Alone(e) => Alone(f)
<1> DEFINE id == AcquiredId(e.pool, k)
           I  == {id}
           g  == [e EXCEPT !.pool = Acquire(e.pool, k)]
           f  == Touch(e, k)
<1>1. e.pool \in Pools /\ id \in Ids \cup {NoId}
  BY AcquiredIdType DEF Engines
<1>2. CASE id = NoId
  <2>1. f = e
    BY <1>2 DEF Touch
  <2>2. e.pool.assigned[k] = NoId
    BY <1>2 DEF AcquiredId
  <2> HIDE DEF f
  <2> QED BY <1>2, <2>1, <2>2 DEF Aside, SameAim, IdOf, f
<1>3. CASE id # NoId
  <2>1. /\ Acquire(e.pool, k) \in Pools
        /\ \A j \in Keys : Acquire(e.pool, k).assigned[j] =
                             IF j = k THEN id ELSE e.pool.assigned[j]
    BY <1>1, <1>3 DEF Acquire, Grant, Pools
  <2>2. id \in Ids /\ I \subseteq Ids /\ "Down" \in Acts
    BY <1>1, <1>3 DEF Acts
  <2>3. /\ g \in Engines /\ SameButFingers(e, g) /\ g.stick = e.stick
        /\ g.pool = Acquire(e.pool, k) /\ g.acts = e.acts
    BY <2>1 DEF Engines, SameButFingers
  <2>4. f = Emit(g, "Down", I)
    BY <1>3 DEF Touch
  <2> HIDE DEF f, g, id
  <2>5. /\ f \in Engines /\ SameButFingers(g, f) /\ f.pool = g.pool /\ f.stick = g.stick
        /\ Pressed(f) \subseteq Pressed(g) \cup I
        /\ Alone(g) => Alone(f)
    <3>1. /\ f \in Engines /\ SameButFingers(g, f) /\ f.pool = g.pool /\ f.stick = g.stick
      BY <2>2, <2>3, <2>4, EmitEffect
    <3>2. /\ Pressed(f) \subseteq Pressed(g) \cup I
          /\ Alone(g) => Alone(f)
      BY <2>2, <2>3, <2>4, EmitAlone
    <3> QED BY <3>1, <3>2
  <2>6. Pressed(g) = Pressed(e) /\ (Alone(g) <=> Alone(e))
    BY <2>3 DEF Pressed, Alone
  <2>7. IdOf(f, k) = id /\ \A j \in Keys \ {k} : IdOf(f, j) = IdOf(e, j)
    BY <2>1, <2>3, <2>5 DEF IdOf
  <2>8. /\ f.held = e.held /\ f.joyPending = e.joyPending /\ f.enabled = e.enabled
        /\ f.swipe = e.swipe /\ f.stick = e.stick /\ SameAim(e, f)
    BY <2>3, <2>5 DEF SameButFingers, SameAim
  <2>9. Aside(e, f, {k})
    BY <2>5, <2>7, <2>8 DEF Aside
  <2>10. Pressed(f) \subseteq Pressed(e) \cup ({IdOf(f, k)} \ {NoId})
    BY <1>3, <2>5, <2>6, <2>7
  <2> QED BY <2>5, <2>6, <2>7, <2>8, <2>9, <2>10 DEF f, id
<1> QED BY <1>2, <1>3

(* The record in which the keys of K are released.                         *)
LEMMA ReleaseAside ==
  ASSUME NEW e \in Engines, NEW K, K \subseteq Keys,
         NEW g \in Engines, g.pool = Release(e.pool, K), g.acts = e.acts,
         NEW I, I \subseteq Ids
  PROVE  LET f == Emit(g, "Up", I) IN
         /\ f \in Engines /\ SameButFingers(g, f) /\ f.stick = g.stick
         /\ \A k \in Keys : IdOf(f, k) = IF k \in K THEN NoId ELSE IdOf(e, k)
         /\ Pressed(f) \subseteq Pressed(e)
         /\ Alone(e) => Alone(f)
<1> DEFINE f == Emit(g, "Up", I)
<1>1. "Up" \in Acts
  BY DEF Acts
<1>2. /\ f \in Engines /\ SameButFingers(g, f) /\ f.stick = g.stick /\ f.pool = g.pool
  BY <1>1, EmitEffect
<1>3. /\ Pressed(f) \subseteq Pressed(g)
      /\ Alone(g) => Alone(f)
  BY <1>1, EmitAlone
<1> HIDE DEF f
<1>4. Pressed(g) = Pressed(e) /\ (Alone(g) <=> Alone(e))
  BY DEF Pressed, Alone
<1>5. \A k \in Keys : IdOf(f, k) = IF k \in K THEN NoId ELSE IdOf(e, k)
  BY <1>2 DEF IdOf, Release
<1> QED BY <1>2, <1>3, <1>4, <1>5 DEF f

(* Fingers that go up: their keys hold nothing.                            *)
LEMMA LiftAside ==
  ASSUME NEW e \in Engines, NEW K, K \subseteq Keys
  PROVE  LET f == Lift(e, K) IN
         /\ Aside(e, f, K) /\ SameAim(e, f) /\ f.swipe = e.swipe
         /\ \A k \in K : IdOf(f, k) = NoId
         /\ Pressed(f) \subseteq Pressed(e)
         /\ Alone(e) => Alone(f)
<1> DEFINE stick == [n \in Names |-> IF n \in K THEN Still ELSE e.stick[n]]
           g == [e EXCEPT !.pool = Release(e.pool, K), !.stick = stick]
           I == {IdOf(e, k) : k \in K} \ {NoId}
           f == Lift(e, K)
<1>1. Release(e.pool, K) \in Pools /\ I \subseteq Ids
  BY DEF Engines, Pools, Release, IdOf
<1>2. stick \in [Names -> Vectors] /\ \A n \in Names \ K : stick[n] = e.stick[n]
  BY DEF Engines, Still, Vectors
<1>3. /\ g \in Engines /\ g.pool = Release(e.pool, K) /\ g.acts = e.acts
      /\ SameButFingers(e, g) /\ g.stick = stick
  BY <1>1, <1>2 DEF Engines, SameButFingers
<1>4. f = Emit(g, "Up", I)
  BY DEF Lift
<1>0. K \subseteq Keys
  OBVIOUS
<1> HIDE DEF f, g, I, stick
<1>5. /\ f \in Engines /\ SameButFingers(g, f) /\ f.stick = g.stick
      /\ \A k \in Keys : IdOf(f, k) = IF k \in K THEN NoId ELSE IdOf(e, k)
      /\ Pressed(f) \subseteq Pressed(e)
      /\ Alone(e) => Alone(f)
  BY <1>0, <1>1, <1>3, <1>4, ReleaseAside
<1>6. Aside(e, f, K) /\ SameAim(e, f) /\ f.swipe = e.swipe
  BY <1>2, <1>3, <1>5 DEF Aside, SameAim, SameButFingers
<1> QED BY <1>5, <1>6 DEF f

(* Swipes that end: their stored ids go as well.                           *)
LEMMA EndSwipesAside ==
  ASSUME NEW e \in Engines, NEW S, S \subseteq Swipes
  PROVE  LET f == EndSwipes(e, S) IN
         /\ Aside(e, f, S) /\ SameAim(e, f)
         /\ \A k \in S : IdOf(f, k) = NoId
         /\ Pressed(f) \subseteq Pressed(e)
         /\ Alone(e) => Alone(f)
<1> DEFINE swipe == [n \in Names |-> IF n \in S THEN NoId ELSE e.swipe[n]]
           g == [e EXCEPT !.pool = Release(e.pool, S), !.swipe = swipe]
           I == {e.swipe[n] : n \in S} \ {NoId}
           f == EndSwipes(e, S)
<1>0. S \subseteq Names /\ S \subseteq Keys
  BY KindsDiffer, ProfileAssumption
<1>1. Release(e.pool, S) \in Pools /\ I \subseteq Ids
  BY <1>0 DEF Engines, Pools, Release
<1>2. swipe \in [Names -> Ids \cup {NoId}] /\ \A n \in Names \ S : swipe[n] = e.swipe[n]
  BY DEF Engines
<1>3. /\ g \in Engines /\ g.pool = Release(e.pool, S) /\ g.acts = e.acts
      /\ g.held = e.held /\ g.joyPending = e.joyPending /\ g.enabled = e.enabled
      /\ g.stick = e.stick /\ g.swipe = swipe /\ SameAim(e, g)
  BY <1>1, <1>2 DEF Engines, SameAim
<1>4. f = Emit(g, "Up", I)
  BY DEF EndSwipes
<1> HIDE DEF f, g, I, swipe
<1>5. /\ f \in Engines /\ SameButFingers(g, f) /\ f.stick = g.stick
      /\ \A k \in Keys : IdOf(f, k) = IF k \in S THEN NoId ELSE IdOf(e, k)
      /\ Pressed(f) \subseteq Pressed(e)
      /\ Alone(e) => Alone(f)
  BY <1>0, <1>1, <1>3, <1>4, ReleaseAside
<1>6. Aside(e, f, S) /\ SameAim(e, f)
  BY <1>2, <1>3, <1>5 DEF Aside, SameAim, SameButFingers
<1> QED BY <1>0, <1>5, <1>6 DEF f

(* Fingers that move.                                                      *)
LEMMA MoveAside ==
  ASSUME NEW e \in Engines, NEW I, I \subseteq Ids
  PROVE  LET f == Emit(e, "Move", I) IN
         /\ Aside(e, f, {}) /\ SameAim(e, f) /\ f.pool = e.pool /\ f.swipe = e.swipe
         /\ Pressed(f) \subseteq Pressed(e)
         /\ Alone(e) /\ I \cap Pressed(e) = {} => Alone(f)
<1> DEFINE f == Emit(e, "Move", I)
<1>1. "Move" \in Acts
  BY DEF Acts
<1>2. /\ f \in Engines /\ SameButFingers(e, f) /\ f.stick = e.stick /\ f.pool = e.pool
  BY <1>1, EmitEffect
<1>3. /\ Pressed(f) \subseteq Pressed(e)
      /\ Alone(e) /\ I \cap Pressed(e) = {} => Alone(f)
  BY <1>1, EmitAlone
<1> HIDE DEF f
<1>4. Aside(e, f, {}) /\ SameAim(e, f)
  BY <1>2 DEF Aside, SameAim, SameButFingers, IdOf
<1> QED BY <1>2, <1>3, <1>4 DEF f, SameButFingers
----------------------------------------------------------------------------
(* The aim's helpers. They leave every other key alone; without the second *)
(* finger they keep position and finger together; and where the motion is  *)
(* deferred after a press they do not move what they have pressed.         *)

AimFingers == {AimName, SecondKey}

(* The handoff belongs to the bounded path: otherwise no second finger.    *)
OneFinger == Unbounded \/ ~Handoff

(* The paths on which the motion that presses the finger, or that lifts it *)
(* for a reset, does not also move the pressed one in the same frame.      *)
Deferred == Unbounded \/ (AimHasToggle /\ ~Handoff)

AimPart(e) ==
  /\ AimName = NoName => e.aimPos = NoPos
  /\ e.aimPos # NoPos => IdOf(e, AimName) # NoId
  /\ ~e.second

(* Nothing pressed in this frame yet; nothing but the aim finger pressed.  *)
Calm(e) == Pressed(e) = {}
Tidy(e) == Alone(e) /\ \A i \in Pressed(e) : AimName # NoName /\ i = IdOf(e, AimName)

AimKept(e, f) ==
  /\ Aside(e, f, AimFingers)
  /\ OneFinger /\ AimPart(e) => AimPart(f)
  /\ Deferred /\ Calm(e) => Tidy(f)

(* h is e with other fields of the aim.                                    *)
OnlyAim(e, h) ==
  /\ h \in Engines /\ h.pool = e.pool /\ h.acts = e.acts /\ h.held = e.held
  /\ h.joyPending = e.joyPending /\ h.enabled = e.enabled /\ h.stick = e.stick
  /\ h.swipe = e.swipe /\ h.second = e.second

(* A frame without a press moves nothing it pressed.                       *)
LEMMA CalmTidy ==
  ASSUME NEW e, Calm(e)
  PROVE  Alone(e) /\ Tidy(e)
BY DEF Calm, Tidy, Alone, Pressed, Follows

(* Fields of the aim alone change neither keys nor actions.                *)
LEMMA OnlyAimAside ==
  ASSUME NEW e \in Engines, NEW h, OnlyAim(e, h), NEW K
  PROVE  Aside(e, h, K) /\ (Calm(h) <=> Calm(e)) /\ \A k \in Keys : IdOf(h, k) = IdOf(e, k)
BY DEF Aside, OnlyAim, Calm, Pressed, IdOf

(* The aim finger goes down after fields were set.                         *)
LEMMA AimTouchAside ==
  ASSUME NEW e \in Engines, NEW h, OnlyAim(e, h), AimName # NoName
  PROVE  LET f == Touch(h, AimName) IN
         /\ Aside(e, f, AimFingers) /\ SameAim(h, f)
         /\ IdOf(f, AimName) = AcquiredId(e.pool, AimName)
         /\ Calm(e) => Tidy(f)
<1> DEFINE f == Touch(h, AimName)
<1>1. AimName \in Keys /\ h \in Engines /\ h.pool = e.pool
  BY AimKeys DEF OnlyAim
<1>2. /\ Aside(h, f, {AimName}) /\ SameAim(h, f)
      /\ IdOf(f, AimName) = AcquiredId(h.pool, AimName)
      /\ Pressed(f) \subseteq Pressed(h) \cup ({IdOf(f, AimName)} \ {NoId})
      /\ Alone(h) => Alone(f)
  BY <1>1, TouchAside
<1> HIDE DEF f
<1>3. Aside(e, f, AimFingers)
  BY <1>2, OnlyAimAside, AsideTwice DEF AimFingers
<1>4. Calm(e) => Calm(h) /\ Alone(h)
  BY OnlyAimAside, CalmTidy
<1>5. Calm(e) => Tidy(f)
  BY <1>2, <1>4 DEF Tidy, Calm
<1> QED BY <1>1, <1>2, <1>3, <1>5 DEF f

(* The aim finger moves after fields were set.                             *)
LEMMA AimMoveAside ==
  ASSUME NEW e \in Engines, NEW h, OnlyAim(e, h), AimName # NoName,
         IdOf(e, AimName) # NoId
  PROVE  LET f == Emit(h, "Move", {IdOf(e, AimName)}) IN
         /\ Aside(e, f, AimFingers) /\ SameAim(h, f) /\ f.pool = e.pool
         /\ Calm(e) => Calm(f)
<1> DEFINE I == {IdOf(e, AimName)}
           f == Emit(h, "Move", I)
<1>1. AimName \in Keys /\ h \in Engines /\ h.pool = e.pool
  BY AimKeys DEF OnlyAim
<1>2. I \subseteq Ids
  BY <1>1 DEF Engines, Pools, IdOf
<1> HIDE DEF I
<1>3. /\ Aside(h, f, {}) /\ SameAim(h, f) /\ f.pool = h.pool
      /\ Pressed(f) \subseteq Pressed(h)
  BY <1>1, <1>2, MoveAside
<1> HIDE DEF f
<1>4. Aside(e, f, AimFingers)
  BY <1>3, OnlyAimAside, AsideTwice DEF AimFingers
<1>5. Calm(e) => Calm(f)
  BY <1>3, OnlyAimAside DEF Calm
<1> QED BY <1>1, <1>3, <1>4, <1>5 DEF f, I

(* The aim finger is lifted after fields were set.                         *)
LEMMA AimLiftAside ==
  ASSUME NEW e \in Engines, NEW h, OnlyAim(e, h), AimName # NoName
  PROVE  LET f == Lift(h, {AimName}) IN
         /\ Aside(e, f, AimFingers) /\ SameAim(h, f) /\ IdOf(f, AimName) = NoId
         /\ Calm(e) => Calm(f)
<1> DEFINE K == {AimName}
           f == Lift(h, K)
<1>1. K \subseteq Keys /\ h \in Engines /\ AimName \in K
  BY AimKeys DEF OnlyAim
<1> HIDE DEF K
<1>2. /\ Aside(h, f, K) /\ SameAim(h, f) /\ IdOf(f, AimName) = NoId
      /\ Pressed(f) \subseteq Pressed(h)
  BY <1>1, LiftAside
<1> HIDE DEF f
<1>3. Aside(e, f, AimFingers)
  <2>1. K \subseteq AimFingers
    BY DEF K, AimFingers
  <2> QED BY <1>2, <2>1, OnlyAimAside, AsideTwice
<1>4. Calm(e) => Calm(f)
  BY <1>2, OnlyAimAside DEF Calm
<1> QED BY <1>2, <1>3, <1>4 DEF f, K

(* Setting nothing but fields.                                             *)
LEMMA AimKeptFields ==
  ASSUME NEW e \in Engines, NEW h, OnlyAim(e, h), h.aimPos = e.aimPos
  PROVE  AimKept(e, h)
<1>1. Aside(e, h, AimFingers) /\ (Calm(h) <=> Calm(e)) /\ IdOf(h, AimName) = IdOf(e, AimName)
  BY OnlyAimAside DEF OnlyAim, IdOf
<1>2. AimPart(e) => AimPart(h)
  BY <1>1 DEF AimPart, OnlyAim
<1> QED BY <1>1, <1>2, CalmTidy DEF AimKept

(* A helper that does nothing at all.                                     *)
LEMMA AimKeptSame ==
  ASSUME NEW e \in Engines
  PROVE  AimKept(e, e)
BY AimKeptFields DEF OnlyAim

(* A press that took an id: the position may be set.                       *)
LEMMA AimKeptPress ==
  ASSUME NEW e \in Engines, NEW h, OnlyAim(e, h), AimName # NoName,
         AcquiredId(e.pool, AimName) # NoId
  PROVE  AimKept(e, Touch(h, AimName)) /\ SameAim(h, Touch(h, AimName))
<1> DEFINE f == Touch(h, AimName)
<1>1. /\ Aside(e, f, AimFingers) /\ SameAim(h, f) /\ IdOf(f, AimName) # NoId
      /\ Calm(e) => Tidy(f)
  BY AimTouchAside
<1> HIDE DEF f
<1>2. AimPart(e) => AimPart(f)
  BY <1>1 DEF AimPart, SameAim, OnlyAim
<1> QED BY <1>1, <1>2 DEF AimKept, f

(* A move of a finger that is down.                                        *)
LEMMA AimKeptMove ==
  ASSUME NEW e \in Engines, NEW h, OnlyAim(e, h), AimName # NoName,
         IdOf(e, AimName) # NoId
  PROVE  LET f == Emit(h, "Move", {IdOf(e, AimName)}) IN
         /\ AimKept(e, f) /\ SameAim(h, f) /\ f.pool = e.pool /\ (Calm(e) => Calm(f))
<1> DEFINE f == Emit(h, "Move", {IdOf(e, AimName)})
<1>1. /\ Aside(e, f, AimFingers) /\ SameAim(h, f) /\ f.pool = e.pool
      /\ Calm(e) => Calm(f)
  BY AimMoveAside
<1> HIDE DEF f
<1>2. AimPart(e) => AimPart(f)
  BY <1>1 DEF AimPart, SameAim, OnlyAim, IdOf
<1> QED BY <1>1, <1>2, CalmTidy DEF AimKept, f

(* A lift that takes the position away.                                    *)
LEMMA AimKeptLift ==
  ASSUME NEW e \in Engines, NEW h, OnlyAim(e, h), AimName # NoName, h.aimPos = NoPos
  PROVE  LET f == Lift(h, {AimName}) IN
         AimKept(e, f) /\ SameAim(h, f)
<1> DEFINE f == Lift(h, {AimName})
<1>1. /\ Aside(e, f, AimFingers) /\ SameAim(h, f)
      /\ Calm(e) => Calm(f)
  BY AimLiftAside
<1> HIDE DEF f
<1>2. AimPart(e) => AimPart(f)
  BY <1>1 DEF AimPart, SameAim, OnlyAim
<1> QED BY <1>1, <1>2, CalmTidy DEF AimKept, f
(* A record update of the aim's own fields is OnlyAim.                     *)
LEMMA AimUpdate ==
  ASSUME NEW e \in Engines, NEW pos \in Zones \cup {NoPos}, NEW pending \in BOOLEAN,
         NEW accum \in BOOLEAN, NEW at \in BOOLEAN
  PROVE  LET h == [e EXCEPT !.aimPos = pos, !.aimPending = pending, !.aimAccum = accum,
                            !.aimDownAt = at] IN
         /\ OnlyAim(e, h) /\ h.aimPos = pos /\ h.aimAccum = accum /\ h.aimPending = pending
         /\ h.aimDownAt = at
BY DEF Engines, OnlyAim

(* The press half of a reset; the accumulated motion stays.                *)
LEMMA DelayedPressKept ==
  ASSUME NEW e \in Engines, NEW c
  PROVE  LET f == DelayedPress(e, c) IN AimKept(e, f) /\ f.aimAccum = e.aimAccum
<1> DEFINE g == [e EXCEPT !.aimDownAt = FALSE]
           h == [g EXCEPT !.aimPos = "centre"]
           f == DelayedPress(e, c)
<1>1. /\ OnlyAim(e, g) /\ g.aimPos = e.aimPos /\ g.aimAccum = e.aimAccum
  BY DEF Engines, OnlyAim
<1>2. /\ OnlyAim(e, h) /\ h.aimAccum = e.aimAccum
  BY DEF Engines, OnlyAim, Zones
<1>3. \/ f = e \/ f = g
      \/ AimName # NoName /\ AcquiredId(e.pool, AimName) # NoId /\ f = Touch(h, AimName)
  BY <1>1 DEF DelayedPress, OnlyAim
<1> HIDE DEF f, g, h
<1>4. CASE f = e
  BY <1>4, AimKeptSame DEF f
<1>5. CASE f = g
  <2>1. AimKept(e, g)
    BY <1>1, AimKeptFields
  <2> QED BY <1>1, <1>5, <2>1 DEF f
<1>6. CASE AimName # NoName /\ AcquiredId(e.pool, AimName) # NoId /\ f = Touch(h, AimName)
  <2>1. AimKept(e, f) /\ SameAim(h, f)
    BY <1>2, <1>6, AimKeptPress
  <2> QED BY <1>2, <2>1 DEF f, SameAim
<1> QED BY <1>3, <1>4, <1>5, <1>6

(* apply_aim_delta.                                                        *)
LEMMA ApplyAimDeltaKept ==
  ASSUME NEW e \in Engines, NEW c, c.zone \in Zones
  PROVE  AimKept(e, ApplyAimDelta(e, c))
<1> DEFINE h == [e EXCEPT !.aimPos = c.zone]
<1>1. OnlyAim(e, h)
  BY DEF Engines, OnlyAim
<1>2. \/ ApplyAimDelta(e, c) = e
      \/ /\ AimName # NoName /\ IdOf(e, AimName) # NoId
         /\ ApplyAimDelta(e, c) = Emit(h, "Move", {IdOf(e, AimName)})
  BY DEF ApplyAimDelta
<1> HIDE DEF h
<1> QED BY <1>1, <1>2, AimKeptSame, AimKeptMove

(* on_mouse_free.                                                          *)
LEMMA MoveFreeKept ==
  ASSUME NEW e \in Engines, AimName # NoName, NEW c, c.zone \in Zones
  PROVE  AimKept(e, MoveFree(e, c))
<1> DEFINE h == [e EXCEPT !.aimPos = c.zone]
           g == [e EXCEPT !.aimPos = "centre", !.aimPending = TRUE]
<1>1. OnlyAim(e, h) /\ OnlyAim(e, g)
  BY DEF Engines, OnlyAim, Zones
<1>2. \/ MoveFree(e, c) = e
      \/ IdOf(e, AimName) # NoId /\ MoveFree(e, c) = Emit(h, "Move", {IdOf(e, AimName)})
      \/ AcquiredId(e.pool, AimName) # NoId /\ MoveFree(e, c) = Touch(g, AimName)
  BY DEF MoveFree
<1> HIDE DEF h, g
<1> QED BY <1>1, <1>2, AimKeptSame, AimKeptMove, AimKeptPress

(* The lift half of a reset.                                               *)
LEMMA LiftForResetKept ==
  ASSUME NEW e \in Engines, AimName # NoName
  PROVE  AimKept(e, LiftForReset(e))
<1> DEFINE h == [e EXCEPT !.aimPos = NoPos, !.aimDownAt = TRUE]
<1>1. OnlyAim(e, h) /\ h.aimPos = NoPos
  BY DEF Engines, OnlyAim
<1>2. LiftForReset(e) = Lift(h, {AimName})
  BY DEF LiftForReset
<1> HIDE DEF h
<1> QED BY <1>1, <1>2, AimKeptLift

(* Two aim helpers in a row, the first of which presses nothing.           *)
LEMMA AimKeptTwice ==
  ASSUME NEW e, NEW f, NEW g, AimKept(e, f), AimKept(f, g), Deferred /\ Calm(e) => Calm(f)
  PROVE  AimKept(e, g)
<1>1. Aside(e, g, AimFingers)
  BY AsideTwice DEF AimKept
<1> QED BY <1>1 DEF AimKept

(* The bounded path at the margin.                                         *)
LEMMA MoveBoundedKept ==
  ASSUME NEW e \in Engines, AimName # NoName, IdOf(e, AimName) # NoId,
         NEW c, c.zone \in Zones
  PROVE  AimKept(e, MoveBounded(e, c))
<1> DEFINE h == [e EXCEPT !.aimPos = c.zone]
           g == Emit(e, "Move", {IdOf(e, AimName)})
<1>1. OnlyAim(e, h) /\ OnlyAim(e, e)
  BY DEF Engines, OnlyAim
<1>2. \/ MoveBounded(e, c) = Emit(h, "Move", {IdOf(e, AimName)})
      \/ MoveBounded(e, c) = LiftForReset(g)
      \/ MoveBounded(e, c) = LiftForReset(e)
  BY DEF MoveBounded
<1>3. AimKept(e, g) /\ (Calm(e) => Calm(g)) /\ g \in Engines
  BY <1>1, AimKeptMove DEF AimKept, Aside
<1> HIDE DEF h, g
<1>4. AimKept(e, Emit(h, "Move", {IdOf(e, AimName)}))
  BY <1>1, AimKeptMove
<1>5. AimKept(e, LiftForReset(g))
  BY <1>3, LiftForResetKept, AimKeptTwice
<1>6. AimKept(e, LiftForReset(e))
  BY LiftForResetKept
<1> QED BY <1>2, <1>4, <1>5, <1>6

(* The handoff path works on the two aim fingers only.                     *)
LEMMA MoveHandoffAside ==
  ASSUME NEW e \in Engines, AimName # NoName, IdOf(e, AimName) # NoId,
         NEW c, c.zone \in Zones
  PROVE  Aside(e, MoveHandoff(e, c), AimFingers)
<1> DEFINE d == Touch(e, SecondKey)
           p == PrepareSecond(e)
           m == MoveSecond(p)
           t == TakeOver(m, c)
           r == RotateAim(m)
           h == [m EXCEPT !.aimPos = c.zone]
           z == Emit(h, "Move", {IdOf(m, AimName)})
<1>0. AimName \in Keys /\ SecondKey \in Keys /\ {AimName} \subseteq Keys
      /\ AimName # SecondKey /\ {AimName} \subseteq AimFingers
      /\ {SecondKey} \subseteq AimFingers /\ {} \subseteq AimFingers
  BY AimKeys DEF AimFingers
<1>1. Aside(e, p, AimFingers) /\ IdOf(p, AimName) = IdOf(e, AimName)
  <2>1. Aside(e, d, {SecondKey})
    BY <1>0, TouchAside
  <2>2. p = e \/ p = [d EXCEPT !.second = AcquiredId(e.pool, SecondKey) # NoId]
    BY DEF PrepareSecond
  <2>3. Aside(e, e, AimFingers)
    BY DEF Aside
  <2> HIDE DEF d
  <2>4. d \in Engines
    BY <2>1 DEF Aside
  <2>5. CASE p = [d EXCEPT !.second = AcquiredId(e.pool, SecondKey) # NoId]
    <3>1. /\ p \in Engines /\ p.held = d.held /\ p.joyPending = d.joyPending
          /\ p.enabled = d.enabled /\ p.stick = d.stick /\ p.swipe = d.swipe /\ p.pool = d.pool
      BY <2>4, <2>5 DEF Engines
    <3> HIDE DEF p
    <3>2. Aside(d, p, {SecondKey})
      BY <2>4, <3>1, AsideFields
    <3>3. Aside(e, p, AimFingers)
      BY <1>0, <2>1, <3>2, AsideTwice
    <3>4. IdOf(p, AimName) = IdOf(e, AimName)
      BY <1>0, <2>1, <3>1 DEF Aside, IdOf
    <3> QED BY <3>3, <3>4 DEF p
  <2> QED BY <2>2, <2>3, <2>5
<1>2. p \in Engines
  BY <1>1 DEF Aside
<1> HIDE DEF p
<1>3. Aside(e, m, AimFingers) /\ IdOf(m, AimName) # NoId
  <2>1. CASE m = p
    BY <1>1, <2>1
  <2>2. CASE m # p
    <3> DEFINE I == {IdOf(p, SecondKey)}
    <3>1. m = Emit(p, "Move", I) /\ IdOf(p, SecondKey) # NoId
      BY <2>2 DEF MoveSecond
    <3>2. I \subseteq Ids
      BY <1>0, <1>2, <3>1 DEF Engines, Pools, IdOf
    <3> HIDE DEF I, m
    <3>3. Aside(p, m, {}) /\ m.pool = p.pool
      BY <1>2, <3>1, <3>2, MoveAside
    <3>4. Aside(e, m, AimFingers)
      BY <1>0, <1>1, <3>3, AsideTwice
    <3> QED BY <1>1, <3>3, <3>4 DEF IdOf, m
  <2> QED BY <2>1, <2>2
<1>4. m \in Engines
  BY <1>3 DEF Aside
<1>5. MoveHandoff(e, c) = z \/ MoveHandoff(e, c) = t \/ MoveHandoff(e, c) = r
  BY DEF MoveHandoff, p
<1> HIDE DEF m
<1>6. Aside(e, z, AimFingers)
  <2>1. OnlyAim(m, h)
    BY <1>4 DEF Engines, OnlyAim
  <2> HIDE DEF h
  <2>2. Aside(m, z, AimFingers)
    BY <1>3, <1>4, <2>1, AimMoveAside
  <2> QED BY <1>3, <2>2, AsideTwice
<1>7. Aside(e, t, AimFingers)
  <2> DEFINE l == Lift(m, {AimName})
             pool == Rename(l.pool, SecondKey, AimName)
  <2>1. Aside(m, l, {AimName})
    BY <1>0, <1>4, LiftAside
  <2>2. t = [l EXCEPT !.pool = pool, !.second = FALSE, !.aimPos = c.zone]
    BY DEF TakeOver
  <2> HIDE DEF l, t
  <2>3. l \in Engines /\ l.pool \in Pools
    BY <2>1 DEF Aside, Engines
  <2>4. pool \in Pools /\ \A k \in Keys \ AimFingers : pool.assigned[k] = l.pool.assigned[k]
    BY <1>0, <2>3 DEF Rename, Pools, AimFingers
  <2> HIDE DEF pool
  <2>5. /\ t \in Engines /\ t.pool = pool /\ t.held = l.held /\ t.joyPending = l.joyPending
        /\ t.enabled = l.enabled /\ t.stick = l.stick /\ t.swipe = l.swipe
    BY <2>2, <2>3, <2>4 DEF Engines
  <2>6. Aside(l, t, AimFingers)
    BY <2>3, <2>4, <2>5 DEF Aside, IdOf
  <2>7. Aside(m, t, AimFingers)
    BY <1>0, <2>1, <2>6, AsideTwice
  <2> QED BY <1>3, <2>7, AsideTwice DEF t
<1>8. Aside(e, r, AimFingers)
  <2>1. CASE ~CanRotate(m.pool, AimName)
    BY <1>3, <2>1 DEF RotateAim
  <2>2. CASE CanRotate(m.pool, AimName)
    <3> DEFINE pool == Rotate(m.pool, AimName)
               g == [m EXCEPT !.pool = pool, !.aimPos = "centre", !.aimPending = TRUE]
               Old == {IdOf(m, AimName)}
               New == {IdOf(g, AimName)}
               u == Emit(g, "Up", Old)
    <3>1. m.pool \in Pools /\ LowestFree(m.pool) \in Ids
      BY <1>4, <2>2, LowestFreeIsFree DEF CanRotate, Engines
    <3>2. /\ pool \in Pools /\ pool.assigned[AimName] = LowestFree(m.pool)
          /\ \A k \in Keys \ AimFingers : pool.assigned[k] = m.pool.assigned[k]
      BY <1>0, <2>2, <3>1 DEF Rotate, Pools, AimFingers
    <3>3. r = Emit(u, "Down", New)
      BY <2>2 DEF RotateAim
    <3> HIDE DEF pool
    <3>4. /\ g \in Engines /\ g.pool = pool /\ g.held = m.held /\ g.joyPending = m.joyPending
          /\ g.enabled = m.enabled /\ g.stick = m.stick /\ g.swipe = m.swipe
      BY <1>4, <3>2 DEF Engines, Zones
    <3>5. Old \subseteq Ids /\ New \subseteq Ids /\ "Up" \in Acts /\ "Down" \in Acts
      BY <1>0, <1>3, <1>4, <3>1, <3>2, <3>4 DEF Engines, Pools, IdOf, Acts
    <3> HIDE DEF g, Old, New, r
    <3>6. /\ u \in Engines /\ SameButFingers(g, u) /\ u.pool = g.pool /\ u.stick = g.stick
      BY <3>4, <3>5, EmitEffect
    <3> HIDE DEF u
    <3>7. /\ r \in Engines /\ SameButFingers(u, r) /\ r.pool = u.pool /\ r.stick = u.stick
      BY <3>3, <3>5, <3>6, EmitEffect
    <3>8. Aside(m, r, AimFingers)
      BY <3>2, <3>4, <3>6, <3>7 DEF Aside, SameButFingers, IdOf
    <3> QED BY <1>3, <3>8, AsideTwice DEF r
  <2> QED BY <2>1, <2>2
<1> QED BY <1>5, <1>6, <1>7, <1>8
(* The bounded part of on_mouse.                                           *)
LEMMA MoveOnScreenKept ==
  ASSUME NEW e \in Engines, AimName # NoName, ~Unbounded, NEW c, c.zone \in Zones
  PROVE  AimKept(e, MoveOnScreen(e, c))
<1> DEFINE h == [e EXCEPT !.aimPos = "centre"]
           p == IF e.aimPos = NoPos THEN Touch(h, AimName) ELSE e
<1>1. CASE e.aimPos = NoPos /\ (AimHasToggle \/ AcquiredId(e.pool, AimName) = NoId)
  <2>1. MoveOnScreen(e, c) = e
    BY <1>1 DEF MoveOnScreen
  <2> QED BY <2>1, AimKeptSame
<1>2. CASE ~(e.aimPos = NoPos /\ (AimHasToggle \/ AcquiredId(e.pool, AimName) = NoId))
  <2>1. MoveOnScreen(e, c) =
          IF IdOf(p, AimName) = NoId THEN p
          ELSE IF Handoff THEN MoveHandoff(p, c) ELSE MoveBounded(p, c)
    BY <1>2 DEF MoveOnScreen
  <2>2. AimKept(e, p) /\ (Deferred => p = e)
    <3>1. CASE e.aimPos # NoPos
      BY <3>1, AimKeptSame
    <3>2. CASE e.aimPos = NoPos
      <4>1. OnlyAim(e, h)
        BY DEF Engines, OnlyAim, Zones
      <4>2. p = Touch(h, AimName) /\ AcquiredId(e.pool, AimName) # NoId /\ ~Deferred
        BY <1>2, <3>2 DEF Deferred
      <4> HIDE DEF h, p
      <4> QED BY <4>1, <4>2, AimKeptPress
    <3> QED BY <3>1, <3>2
  <2> HIDE DEF p
  <2>3. p \in Engines
    BY <2>2 DEF AimKept, Aside
  <2>4. CASE IdOf(p, AimName) = NoId
    BY <2>1, <2>2, <2>4
  <2>5. CASE IdOf(p, AimName) # NoId /\ Handoff
    <3>1. Aside(p, MoveHandoff(p, c), AimFingers)
      BY <2>3, <2>5, MoveHandoffAside
    <3>2. Aside(e, MoveHandoff(p, c), AimFingers)
      BY <2>2, <3>1, AsideTwice DEF AimKept
    <3> QED BY <2>1, <2>5, <3>2 DEF AimKept, OneFinger, Deferred
  <2>6. CASE IdOf(p, AimName) # NoId /\ ~Handoff
    <3>1. AimKept(p, MoveBounded(p, c))
      BY <2>3, <2>6, MoveBoundedKept
    <3>2. AimKept(e, MoveBounded(p, c))
      BY <2>2, <3>1, AimKeptTwice
    <3> QED BY <2>1, <2>6, <3>2
  <2> QED BY <2>4, <2>5, <2>6
<1> QED BY <1>1, <1>2

(* on_mouse.                                                               *)
LEMMA OnMouseKept ==
  ASSUME NEW e \in Engines, NEW c, c.zone \in Zones
  PROVE  AimKept(e, OnMouse(e, c))
<1>1. \/ OnMouse(e, c) = e
      \/ AimName # NoName /\ ~Unbounded /\ OnMouse(e, c) = MoveOnScreen(e, c)
      \/ AimName # NoName /\ OnMouse(e, c) = MoveFree(e, c)
  BY DEF OnMouse
<1> QED BY <1>1, AimKeptSame, MoveOnScreenKept, MoveFreeKept

(* idle_recenter.                                                          *)
LEMMA IdleRecenterKept ==
  ASSUME NEW e \in Engines, NEW c
  PROVE  AimKept(e, IdleRecenter(e, c))
<1> DEFINE h == [e EXCEPT !.aimAccum = FALSE]
<1>1. IdleRecenter(e, c) = e \/ (AimName # NoName /\ IdleRecenter(e, c) = LiftForReset(h))
  BY DEF IdleRecenter
<1>2. OnlyAim(e, h) /\ h.aimPos = e.aimPos /\ h \in Engines
  BY DEF Engines, OnlyAim
<1> HIDE DEF h
<1>3. AimKept(e, h) /\ (Calm(e) => Calm(h))
  BY <1>2, AimKeptFields, OnlyAimAside
<1>4. AimName # NoName => AimKept(h, LiftForReset(h))
  BY <1>2, LiftForResetKept
<1> QED BY <1>1, <1>3, <1>4, AimKeptSame, AimKeptTwice

(* The aim part of a tick.                                                 *)
LEMMA AimStepKept ==
  ASSUME NEW e \in Engines, NEW c, c.zone \in Zones
  PROVE  AimKept(e, AimStep(e, c))
<1> DEFINE g == [e EXCEPT !.aimPending = FALSE, !.aimAccum = FALSE]
           h == [e EXCEPT !.aimAccum = FALSE]
<1>1. AimStep(e, c) \in {ApplyAimDelta(g, c), OnMouse(h, c), IdleRecenter(e, c)}
  <2>1. CASE e.aimPending
    BY <2>1 DEF AimStep
  <2>2. CASE ~e.aimPending /\ e.aimAccum
    BY <2>2 DEF AimStep
  <2>3. CASE ~e.aimPending /\ ~e.aimAccum
    BY <2>3 DEF AimStep
  <2> QED BY <2>1, <2>2, <2>3
<1>2. /\ OnlyAim(e, g) /\ g.aimPos = e.aimPos /\ g \in Engines
      /\ OnlyAim(e, h) /\ h.aimPos = e.aimPos /\ h \in Engines
  BY DEF Engines, OnlyAim
<1> HIDE DEF g, h
<1>3. AimKept(e, g) /\ (Calm(e) => Calm(g)) /\ AimKept(e, h) /\ (Calm(e) => Calm(h))
  BY <1>2, AimKeptFields, OnlyAimAside
<1>4. AimKept(e, ApplyAimDelta(g, c))
  BY <1>2, <1>3, ApplyAimDeltaKept, AimKeptTwice
<1>5. AimKept(e, OnMouse(h, c))
  BY <1>2, <1>3, OnMouseKept, AimKeptTwice
<1>6. AimKept(e, IdleRecenter(e, c))
  BY IdleRecenterKept
<1> QED BY <1>1, <1>4, <1>5, <1>6

----------------------------------------------------------------------------
(* The other helpers of an arm: joysticks, taps and swipes.                *)

(* recompute_joystick works on its stick. If it presses, the direction is  *)
(* left to the next tick; if it moves, the stick stands where the keys     *)
(* point.                                                                  *)
StickStep(e, f, j) ==
  /\ f \in Engines /\ SameAim(e, f)
  /\ f.held = e.held /\ f.enabled = e.enabled /\ f.swipe = e.swipe
  /\ \A k \in Keys \ {j} : IdOf(f, k) = IdOf(e, k)
  /\ \A n \in Names \ {j} : f.stick[n] = e.stick[n]

LEMMA RecomputeJoystickAside ==
  ASSUME NEW e \in Engines, NEW j \in Joysticks
  PROVE  LET f == RecomputeJoystick(e, j) IN
         /\ StickStep(e, f, j)
         /\ Alone(e) /\ IdOf(e, j) \notin Pressed(e) => Alone(f)
         /\ NoJoystickAct(e, j) => f = e
         /\ ~NoJoystickAct(e, j) =>
              /\ IdOf(f, j) # NoId
              /\ IdOf(e, j) = NoId => f.joyPending = j
              /\ IdOf(e, j) # NoId =>
                   /\ f.stick[j] = Net(e, j) /\ f.joyPending = e.joyPending
                   /\ IdOf(f, j) = IdOf(e, j) /\ Pressed(f) \subseteq Pressed(e)
<1> DEFINE f == RecomputeJoystick(e, j)
<1>0. j \in Names /\ j \in Keys
  BY KindsDiffer, ProfileAssumption
<1>1. CASE NoJoystickAct(e, j)
  <2>1. f = e
    BY <1>1 DEF RecomputeJoystick
  <2> HIDE DEF f
  <2> QED BY <1>1, <2>1 DEF StickStep, SameAim, f
<1>2. CASE ~NoJoystickAct(e, j) /\ IdOf(e, j) = NoId
  <2> DEFINE h == [e EXCEPT !.joyPending = j, !.stick = [e.stick EXCEPT ![j] = Still]]
  <2>1. [e.stick EXCEPT ![j] = Still] \in [Names -> Vectors]
    BY <1>0 DEF Engines, Still, Vectors
  <2>2. /\ h \in Engines /\ h.pool = e.pool /\ h.acts = e.acts /\ h.joyPending = j
        /\ h.held = e.held /\ h.enabled = e.enabled /\ h.swipe = e.swipe /\ SameAim(e, h)
        /\ \A n \in Names \ {j} : h.stick[n] = e.stick[n]
    BY <1>0, <2>1 DEF Engines, SameAim
  <2>3. f = Touch(h, j) /\ AcquiredId(e.pool, j) # NoId
    BY <1>2 DEF RecomputeJoystick, NoJoystickAct
  <2> HIDE DEF h, f
  <2>4. /\ Aside(h, f, {j}) /\ SameAim(h, f) /\ f.stick = h.stick /\ f.swipe = h.swipe
        /\ IdOf(f, j) = AcquiredId(h.pool, j)
        /\ Alone(h) => Alone(f)
    BY <1>0, <2>2, <2>3, TouchAside
  <2>5. StickStep(e, f, j) /\ f.joyPending = j /\ IdOf(f, j) # NoId
    BY <2>2, <2>3, <2>4 DEF StickStep, Aside, SameAim, IdOf
  <2>6. Alone(e) => Alone(f)
    BY <2>2, <2>4 DEF Alone
  <2> QED BY <1>2, <2>5, <2>6 DEF f
<1>3. CASE ~NoJoystickAct(e, j) /\ IdOf(e, j) # NoId
  <2> DEFINE h == [e EXCEPT !.stick = [e.stick EXCEPT ![j] = Net(e, j)]]
             I == {IdOf(e, j)}
  <2>1. Net(e, j) \in Vectors
    BY DEF Net, HeldDir, Vectors
  <2>2. [e.stick EXCEPT ![j] = Net(e, j)] \in [Names -> Vectors]
    BY <1>0, <2>1 DEF Engines
  <2>3. /\ h \in Engines /\ h.pool = e.pool /\ h.acts = e.acts /\ h.joyPending = e.joyPending
        /\ h.held = e.held /\ h.enabled = e.enabled /\ h.swipe = e.swipe /\ SameAim(e, h)
        /\ h.stick[j] = Net(e, j) /\ \A n \in Names \ {j} : h.stick[n] = e.stick[n]
    BY <1>0, <2>2 DEF Engines, SameAim
  <2>4. f = Emit(h, "Move", I) /\ I \subseteq Ids
    BY <1>0, <1>3 DEF RecomputeJoystick, Engines, Pools, IdOf
  <2>5. IdOf(e, j) \notin Pressed(e) <=> I \cap Pressed(e) = {}
    OBVIOUS
  <2> HIDE DEF h, f, I
  <2>6. /\ Aside(h, f, {}) /\ SameAim(h, f) /\ f.pool = h.pool /\ f.swipe = h.swipe
        /\ Pressed(f) \subseteq Pressed(h)
        /\ Alone(h) /\ I \cap Pressed(h) = {} => Alone(f)
    BY <2>3, <2>4, MoveAside
  <2>7. /\ StickStep(e, f, j) /\ f.stick[j] = Net(e, j) /\ f.joyPending = e.joyPending
        /\ IdOf(f, j) = IdOf(e, j)
    BY <1>0, <2>3, <2>6 DEF StickStep, Aside, SameAim, IdOf
  <2>8. Pressed(h) = Pressed(e) /\ (Alone(h) <=> Alone(e))
    BY <2>3 DEF Pressed, Alone
  <2>9. Pressed(f) \subseteq Pressed(e)
    BY <2>6, <2>8
  <2>10. Alone(e) /\ IdOf(e, j) \notin Pressed(e) => Alone(f)
    BY <2>5, <2>6, <2>8
  <2> QED BY <1>3, <2>7, <2>9, <2>10 DEF f
<1> QED BY <1>1, <1>2, <1>3

(* Taps and toggles whose keys went up without the engine.                 *)
LEMMA ReconcileAside ==
  ASSUME NEW e \in Engines
  PROVE  LET f == Reconcile(e) IN
         /\ Aside(e, f, HoldBindings) /\ SameAim(e, f) /\ f.swipe = e.swipe
         /\ Pressed(f) \subseteq Pressed(e)
         /\ Alone(e) => Alone(f)
<1> DEFINE K == {n \in HoldBindings : IdOf(e, n) # NoId /\ Profile[n].triggers \cap e.held = {}}
           f == Reconcile(e)
<1>1. K \subseteq HoldBindings /\ K \subseteq Keys
  BY KindsDiffer, ProfileAssumption
<1>2. f = Lift(e, K)
  BY DEF Reconcile
<1> HIDE DEF f, K
<1>3. /\ Aside(e, f, K) /\ SameAim(e, f) /\ f.swipe = e.swipe
      /\ Pressed(f) \subseteq Pressed(e)
      /\ Alone(e) => Alone(f)
  BY <1>1, <1>2, LiftAside
<1>4. Aside(e, f, HoldBindings)
  BY <1>1, <1>3 DEF Aside
<1> QED BY <1>3, <1>4 DEF f

(* The swipes of a tick move or lift their own fingers.                    *)
LEMMA SwipeStepsAside ==
  ASSUME NEW s, NEW e, Good(e, s), NEW c
  PROVE  LET f == SwipeSteps(e, c) IN
         /\ Aside(e, f, Swipes) /\ SameAim(e, f)
         /\ \A n \in Swipes : IdOf(f, n) \in {IdOf(e, n), NoId}
         /\ Pressed(f) \subseteq Pressed(e)
         /\ Alone(e) /\ (\A n \in Swipes : IdOf(e, n) \notin Pressed(e)) => Alone(f)
<1> DEFINE stepped == {n \in Playing(e) : c.adv[n] # "stay"}
           S == {n \in Playing(e) : c.adv[n] = "final"}
           I == {e.swipe[n] : n \in stepped}
           m == Emit(e, "Move", I)
           f == SwipeSteps(e, c)
<1>0. e \in Engines /\ Swipes \subseteq Names /\ Names \subseteq Keys
  BY KindsDiffer, ProfileAssumption DEF Good, Frame
<1>1. \A n \in Playing(e) : n \in Swipes /\ n \in Keys /\ e.swipe[n] = IdOf(e, n)
                            /\ IdOf(e, n) # NoId
  BY <1>0 DEF Playing, Good, Sound, Own
<1>2. I \subseteq Ids
  BY <1>0, <1>1 DEF Engines, Pools, IdOf
<1>3. (\A n \in Swipes : IdOf(e, n) \notin Pressed(e)) => I \cap Pressed(e) = {}
  BY <1>1
<1>4. S \subseteq Swipes
  BY <1>1
<1>5. f = EndSwipes(m, S)
  BY DEF SwipeSteps
<1> HIDE DEF I, S, f
<1>6. /\ Aside(e, m, {}) /\ SameAim(e, m) /\ m.pool = e.pool
      /\ Pressed(m) \subseteq Pressed(e)
      /\ Alone(e) /\ I \cap Pressed(e) = {} => Alone(m)
  BY <1>0, <1>2, MoveAside
<1> HIDE DEF m
<1>7. m \in Engines
  BY <1>6 DEF Aside
<1>8. /\ Aside(m, f, S) /\ SameAim(m, f)
      /\ \A k \in S : IdOf(f, k) = NoId
      /\ Pressed(f) \subseteq Pressed(m)
      /\ Alone(m) => Alone(f)
  BY <1>4, <1>5, <1>7, EndSwipesAside
<1>9. Aside(e, f, Swipes) /\ SameAim(e, f)
  <2>1. {} \subseteq Swipes
    OBVIOUS
  <2>2. Aside(e, f, Swipes)
    BY <1>4, <1>6, <1>8, <2>1, AsideTwice
  <2>3. SameAim(e, f)
    BY <1>6, <1>8 DEF SameAim
  <2> QED BY <2>2, <2>3
<1>10. \A n \in Swipes : IdOf(f, n) \in {IdOf(e, n), NoId}
  BY <1>0, <1>6, <1>8 DEF Aside
<1>11. Alone(e) /\ (\A n \in Swipes : IdOf(e, n) \notin Pressed(e)) => Alone(f)
  BY <1>3, <1>6, <1>8
<1>12. Pressed(f) \subseteq Pressed(e)
  BY <1>6, <1>8
<1> QED BY <1>9, <1>10, <1>11, <1>12 DEF f
----------------------------------------------------------------------------
(* Three predicates about single parts of the engine, and what keeps them. *)

(* A joystick finger stands where its keys point, once its direction was   *)
(* applied.                                                                *)
StickTrue(e) ==
  \A j \in Joysticks :
    IdOf(e, j) # NoId /\ e.joyPending # j /\ Net(e, j) # Still => e.stick[j] = Net(e, j)

(* The profile has one joystick at most: joystick_pending is one slot, and *)
(* a second stick overwrites the first one's deferred direction.           *)
OneStick == \A i, j \in Joysticks : i = j

(* A joystick whose keys point somewhere has a finger.                     *)
StickHasFinger(e) == \A j \in Joysticks : Net(e, j) # Still => IdOf(e, j) # NoId

(* Of the swipes of one group at most one has a finger.                    *)
OneEach(e) ==
  \A m, n \in Swipes : m # n /\ SameGroup(m, n) => IdOf(e, m) = NoId \/ IdOf(e, n) = NoId

Keeps(e, f) ==
  /\ OneStick /\ StickTrue(e) => StickTrue(f)
  /\ StickHasFinger(e) => StickHasFinger(f)
  /\ OneFinger /\ AimPart(e) => AimPart(f)
  /\ OneEach(e) => OneEach(f)

(* Helpers in a row.                                                       *)
LEMMA KeepsTwice ==
  ASSUME NEW e, NEW f, NEW g, Keeps(e, f), Keeps(f, g)
  PROVE  Keeps(e, g)
BY DEF Keeps

(* A helper that works on no joystick, and only lifts swipes.              *)
LEMMA AsideKeeps ==
  ASSUME NEW e, NEW f, NEW K, Aside(e, f, K), K \cap Joysticks = {},
         \A n \in Swipes : IdOf(f, n) \in {IdOf(e, n), NoId},
         OneFinger /\ AimPart(e) => AimPart(f)
  PROVE  Keeps(e, f)
<1>1. \A j \in Joysticks : j \in Keys \ K /\ j \in Names \ K
  BY KindsDiffer, ProfileAssumption
<1>2. \A j \in Joysticks : Net(f, j) = Net(e, j)
  BY DEF Net, HeldDir, Aside
<1>3. StickTrue(e) => StickTrue(f)
  BY <1>1, <1>2 DEF StickTrue, Aside
<1>4. StickHasFinger(e) => StickHasFinger(f)
  BY <1>1, <1>2 DEF StickHasFinger, Aside
<1>5. OneEach(e) => OneEach(f)
  BY DEF OneEach
<1> QED BY <1>3, <1>4, <1>5 DEF Keeps

(* The aim part survives helpers that work on other keys.                  *)
LEMMA SameAimPart ==
  ASSUME NEW e, NEW f, SameAim(e, f), AimName \in Keys => IdOf(f, AimName) = IdOf(e, AimName)
  PROVE  AimPart(e) => AimPart(f)
BY AimKeys DEF AimPart, SameAim

(* The helpers of the aim.                                                 *)
LEMMA AimKeptKeeps ==
  ASSUME NEW e, NEW f, AimKept(e, f)
  PROVE  Keeps(e, f)
<1>1. AimFingers \cap Joysticks = {} /\ AimFingers \cap Swipes = {}
  BY KindsDiffer DEF AimFingers
<1>2. \A n \in Swipes : IdOf(f, n) \in {IdOf(e, n), NoId}
  BY <1>1, KindsDiffer, ProfileAssumption DEF AimKept, Aside
<1> QED BY <1>1, <1>2, AsideKeeps DEF AimKept

(* Reconciling taps and toggles.                                           *)
LEMMA ReconcileKeeps ==
  ASSUME NEW e \in Engines
  PROVE  Keeps(e, Reconcile(e))
<1> DEFINE f == Reconcile(e)
<1>1. Aside(e, f, HoldBindings) /\ SameAim(e, f)
  BY ReconcileAside
<1> HIDE DEF f
<1>2. \A n \in Swipes : IdOf(f, n) \in {IdOf(e, n), NoId}
  BY <1>1, KindsDiffer, ProfileAssumption DEF Aside
<1>3. AimPart(e) => AimPart(f)
  BY <1>1, SameAimPart, KindsDiffer DEF Aside
<1>4. HoldBindings \cap Joysticks = {}
  BY KindsDiffer
<1> QED BY <1>1, <1>2, <1>3, <1>4, AsideKeeps DEF f

(* Advancing the swipes.                                                   *)
LEMMA SwipeStepsKeeps ==
  ASSUME NEW s, NEW e, Good(e, s), NEW c
  PROVE  Keeps(e, SwipeSteps(e, c))
<1> DEFINE f == SwipeSteps(e, c)
<1>1. /\ Aside(e, f, Swipes) /\ SameAim(e, f)
      /\ \A n \in Swipes : IdOf(f, n) \in {IdOf(e, n), NoId}
  BY SwipeStepsAside
<1> HIDE DEF f
<1>2. AimPart(e) => AimPart(f)
  BY <1>1, SameAimPart, KindsDiffer DEF Aside
<1>3. Swipes \cap Joysticks = {}
  BY KindsDiffer
<1> QED BY <1>1, <1>2, <1>3, AsideKeeps DEF f

(* A step of one stick that leaves it true, and with a finger if its keys  *)
(* point somewhere.                                                        *)
LEMMA StickStepKeeps ==
  ASSUME NEW e, NEW f, NEW j \in Joysticks, StickStep(e, f, j),
         IdOf(f, j) # NoId /\ f.joyPending # j /\ Net(f, j) # Still => f.stick[j] = Net(f, j),
         StickHasFinger(e) /\ Net(f, j) # Still => IdOf(f, j) # NoId
  PROVE  Keeps(e, f)
<1>1. OneStick => StickTrue(f)
  BY DEF OneStick, StickTrue
<1>2. \A i \in Joysticks : Net(f, i) = Net(e, i)
  BY DEF Net, HeldDir, StickStep
<1>3. StickHasFinger(e) => StickHasFinger(f)
  BY <1>2, KindsDiffer, ProfileAssumption DEF StickHasFinger, StickStep
<1>4. AimPart(e) => AimPart(f)
  BY SameAimPart, KindsDiffer DEF StickStep
<1>5. OneEach(e) => OneEach(f)
  BY KindsDiffer, ProfileAssumption DEF OneEach, StickStep
<1> QED BY <1>1, <1>3, <1>4, <1>5 DEF Keeps

(* recompute_joystick makes its stick true.                                *)
LEMMA RecomputeJoystickTrue ==
  ASSUME NEW e \in Engines, NEW j \in Joysticks
  PROVE  LET f == RecomputeJoystick(e, j) IN
         /\ IdOf(f, j) # NoId /\ f.joyPending # j /\ Net(f, j) # Still => f.stick[j] = Net(f, j)
         /\ StickHasFinger(e) /\ Net(f, j) # Still => IdOf(f, j) # NoId
         /\ Keeps(e, f)
<1> DEFINE f == RecomputeJoystick(e, j)
<1>1. /\ StickStep(e, f, j)
      /\ NoJoystickAct(e, j) => f = e
      /\ ~NoJoystickAct(e, j) =>
           /\ IdOf(f, j) # NoId
           /\ IdOf(e, j) = NoId => f.joyPending = j
           /\ IdOf(e, j) # NoId => f.stick[j] = Net(e, j)
  BY RecomputeJoystickAside
<1> HIDE DEF f
<1>2. Net(f, j) = Net(e, j)
  BY <1>1 DEF Net, HeldDir, StickStep
<1>3. NoJoystickAct(e, j) => Net(e, j) = Still \/ IdOf(e, j) = NoId
  BY DEF NoJoystickAct, AcquiredId, IdOf
<1>4. IdOf(f, j) # NoId /\ f.joyPending # j /\ Net(f, j) # Still => f.stick[j] = Net(f, j)
  BY <1>1, <1>2, <1>3
<1>5. StickHasFinger(e) /\ Net(f, j) # Still => IdOf(f, j) # NoId
  BY <1>1, <1>2 DEF StickHasFinger
<1> QED BY <1>1, <1>4, <1>5, StickStepKeeps DEF f

(* The deferred direction; with a finger for every stick nothing is        *)
(* pressed.                                                                *)
LEMMA PendingJoystickKeeps ==
  ASSUME NEW s, NEW e, Good(e, s)
  PROVE  LET f == PendingJoystick(e) IN
         /\ Keeps(e, f) /\ SameAim(e, f) /\ f \in Engines
         /\ StickHasFinger(e) /\ Calm(e) => Calm(f)
         /\ StickHasFinger(e) /\ Tidy(e) => Tidy(f)
<1> DEFINE j == e.joyPending
           h == [e EXCEPT !.joyPending = NoName]
           f == PendingJoystick(e)
<1>0. e \in Engines /\ Consistent(e.pool)
  BY DEF Good, Frame
<1>1. CASE e.joyPending = NoName
  <2>1. f = e
    BY <1>1 DEF PendingJoystick
  <2> HIDE DEF f
  <2>2. Keeps(e, e) /\ SameAim(e, e)
    BY DEF Keeps, SameAim
  <2> QED BY <1>0, <2>1, <2>2 DEF f
<1>2. CASE e.joyPending # NoName
  <2>1. j \in Joysticks /\ j \in Keys /\ j # AimName
    BY <1>2, KindsDiffer, ProfileAssumption DEF Good, Sound, JoyPendingIsJoystick
  <2>2. /\ h \in Engines /\ h.pool = e.pool /\ h.acts = e.acts /\ h.held = e.held
        /\ h.enabled = e.enabled /\ h.swipe = e.swipe /\ h.stick = e.stick
        /\ SameAim(e, h)
    BY <1>0 DEF Engines, SameAim
  <2>3. f = RecomputeJoystick(h, j)
    BY <1>2 DEF PendingJoystick
  <2> HIDE DEF h, j, f
  <2>4. /\ StickStep(h, f, j)
        /\ Alone(h) /\ IdOf(h, j) \notin Pressed(h) => Alone(f)
        /\ NoJoystickAct(h, j) => f = h
        /\ ~NoJoystickAct(h, j) /\ IdOf(h, j) # NoId => Pressed(f) \subseteq Pressed(h)
    BY <2>1, <2>2, <2>3, RecomputeJoystickAside
  <2>5. /\ IdOf(f, j) # NoId /\ f.joyPending # j /\ Net(f, j) # Still => f.stick[j] = Net(f, j)
        /\ StickHasFinger(h) /\ Net(f, j) # Still => IdOf(f, j) # NoId
    BY <2>1, <2>2, <2>3, RecomputeJoystickTrue
  <2>6. StickHasFinger(h) <=> StickHasFinger(e)
    BY <2>2 DEF StickHasFinger, Net, HeldDir, IdOf
  <2>7. StickStep(e, f, j)
    BY <2>2, <2>4 DEF StickStep, SameAim, IdOf
  <2>8. Keeps(e, f)
    BY <2>1, <2>5, <2>6, <2>7, StickStepKeeps
  <2>9. Pressed(h) = Pressed(e) /\ (Alone(h) <=> Alone(e)) /\ IdOf(h, j) = IdOf(e, j)
    BY <2>2 DEF Pressed, Alone, IdOf
  <2>10. StickHasFinger(e) => Pressed(f) \subseteq Pressed(e)
    <3>1. StickHasFinger(e) /\ ~NoJoystickAct(h, j) => IdOf(h, j) # NoId
      BY <2>1, <2>6 DEF StickHasFinger, NoJoystickAct
    <3> QED BY <2>4, <2>9, <3>1
  <2>11. ASSUME Tidy(e)
         PROVE  Alone(f) /\ (AimName # NoName => IdOf(f, AimName) = IdOf(e, AimName))
    <3>1. IdOf(e, j) \notin Pressed(e)
      <4>1. ASSUME IdOf(e, j) \in Pressed(e)
            PROVE  FALSE
        <5>1. /\ AimName # NoName /\ IdOf(e, j) = IdOf(e, AimName) /\ AimName \in Keys
              /\ IdOf(e, j) \in Ids
          BY <2>11, <4>1, AimKeys DEF Tidy, Pressed
        <5> QED BY <1>0, <2>1, <5>1, NoIdIsNoId DEF Consistent, IdOf
      <4> QED BY <4>1
    <3>2. Alone(f)
      BY <2>4, <2>9, <2>11, <3>1 DEF Tidy
    <3>3. AimName # NoName => IdOf(f, AimName) = IdOf(e, AimName)
      BY <2>1, <2>7, AimKeys DEF StickStep
    <3> QED BY <3>2, <3>3
  <2>12. StickHasFinger(e) /\ Tidy(e) => Tidy(f)
    BY <2>10, <2>11 DEF Tidy
  <2>13. StickHasFinger(e) /\ Calm(e) => Calm(f)
    BY <2>10 DEF Calm
  <2> QED BY <2>7, <2>8, <2>12, <2>13 DEF StickStep, f
<1> QED BY <1>1, <1>2
----------------------------------------------------------------------------
(* Room in the pool. A full pool drops a press (acquire returns None), so  *)
(* what follows from a press needs room for every binding that can have a  *)
(* finger at the same time; swipes of one group never have.                *)

Room ==
  \A K \in SUBSET Names :
    (\A m, n \in K : m # n /\ m \in Swipes /\ n \in Swipes => ~SameGroup(m, n)) =>
      IsFiniteSet(K) /\ Cardinality(K) <= MaxPointers

(* With room, a binding without a finger gets one.                         *)
LEMMA RoomForOneMore ==
  ASSUME Room, NEW s, NEW e, Good(e, s), ~e.second, OneEach(e), NEW n \in Names,
         IdOf(e, n) = NoId,
         \A m \in Swipes : m # n /\ n \in Swipes /\ SameGroup(m, n) => IdOf(e, m) = NoId
  PROVE  AcquiredId(e.pool, n) # NoId
<1> SUFFICES ASSUME AcquiredId(e.pool, n) = NoId
             PROVE  FALSE
  OBVIOUS
<1> DEFINE H == {k \in Names : IdOf(e, k) # NoId}
           K == H \cup {n}
<1>0. e.pool \in Pools /\ Consistent(e.pool) /\ Names \subseteq Keys
      /\ Keys = Names \cup {SecondKey}
  BY ProfileAssumption DEF Good, Frame, Engines
<1>1. \A i \in Ids : e.pool.inUse[i]
  <2>1. LowestFree(e.pool) = NoId
    BY DEF AcquiredId, IdOf
  <2>2. CASE FreeIds(e.pool) # {}
    <3>1. FreeIds(e.pool) \subseteq Ids /\ FreeIds(e.pool) \subseteq Nat
      BY MaxPointersAssumption DEF FreeIds, Ids
    <3>2. \E i \in FreeIds(e.pool) : \A j \in FreeIds(e.pool) : i <= j
      BY <2>2, <3>1, SmallestId
    <3>3. LowestFree(e.pool) \in FreeIds(e.pool)
      BY <2>2, <3>2 DEF LowestFree
    <3> QED BY <2>1, <3>1, <3>3, NoIdIsNoId
  <2>3. CASE FreeIds(e.pool) = {}
    BY <2>3 DEF FreeIds
  <2> QED BY <2>2, <2>3
<1>2. \A i \in Ids : \E k \in H : IdOf(e, k) = i
  <2>1. IdOf(e, SecondKey) = NoId
    BY DEF Good, Sound, AimTracked
  <2>2. \A i \in Ids : \E k \in Keys : IdOf(e, k) = i
    BY <1>0, <1>1 DEF Consistent, IdOf
  <2> QED BY <1>0, <2>1, <2>2, NoIdIsNoId
<1>3. IsFiniteSet(K) /\ Cardinality(K) <= MaxPointers
  <2>1. K \in SUBSET Names
    OBVIOUS
  <2>2. ASSUME NEW m \in K, NEW k \in K, m # k, m \in Swipes, k \in Swipes
        PROVE  ~SameGroup(m, k)
    BY <2>2 DEF OneEach, SameGroup
  <2> QED BY <2>1, <2>2 DEF Room
<1>4. IsFiniteSet(H) /\ Cardinality(H) \in Nat /\ Cardinality(H) + 1 <= MaxPointers
  <2>1. n \notin H
    OBVIOUS
  <2>2. IsFiniteSet(H) /\ H \in SUBSET K
    BY <1>3, FS_Subset
  <2>3. Cardinality(K) = Cardinality(H) + 1
    BY <2>1, <2>2, FS_AddElement
  <2>4. Cardinality(H) \in Nat
    BY <2>2, FS_CardinalityType
  <2> QED BY <1>3, <2>2, <2>3, <2>4
<1>5. IsFiniteSet(Ids) /\ Cardinality(Ids) = MaxPointers
  <2>1. 0 \in Int /\ MaxPointers - 1 \in Int /\ MaxPointers \in Nat /\ MaxPointers # 0
    BY MaxPointersAssumption
  <2>2. IsFiniteSet(0 .. (MaxPointers - 1))
        /\ Cardinality(0 .. (MaxPointers - 1)) =
             IF 0 > MaxPointers - 1 THEN 0 ELSE MaxPointers - 1 - 0 + 1
    BY <2>1, FS_Interval
  <2> QED BY <2>1, <2>2 DEF Ids
<1> DEFINE owner == [i \in Ids |-> CHOOSE k \in H : IdOf(e, k) = i]
<1>6. owner \in [Ids -> H] /\ \A i \in Ids : IdOf(e, owner[i]) = i
  BY <1>2
<1> HIDE DEF owner, H
<1>7. Cardinality(H) < Cardinality(Ids)
  BY <1>4, <1>5, MaxPointersAssumption
<1>8. \E i, j \in Ids : i # j /\ owner[i] = owner[j]
  BY <1>4, <1>5, <1>6, <1>7, FS_PigeonHole
<1> QED BY <1>6, <1>8
----------------------------------------------------------------------------
(* The tick and the handlers.                                              *)

(* A key that is not the aim's has a finger of an earlier frame.           *)
LEMMA TidyOther ==
  ASSUME NEW s, NEW e, Good(e, s), Tidy(e), NEW k \in Keys, k # AimName
  PROVE  IdOf(e, k) \notin Pressed(e)
<1>1. Consistent(e.pool)
  BY DEF Good, Frame
<1>2. SUFFICES ASSUME IdOf(e, k) \in Pressed(e)
               PROVE  FALSE
  OBVIOUS
<1>3. /\ AimName # NoName /\ IdOf(e, k) = IdOf(e, AimName) /\ AimName \in Keys
      /\ IdOf(e, k) \in Ids
  BY <1>2, AimKeys DEF Tidy, Pressed
<1> QED BY <1>1, <1>3, NoIdIsNoId DEF Consistent, IdOf

(* A whole tick keeps the three predicates, presses the aim finger at most *)
(* and moves nothing it pressed; and while a reset is in flight it keeps   *)
(* the accumulated motion.                                                 *)
LEMMA TickKeeps ==
  ASSUME NEW s, NEW e, Good(e, s), NEW c, c.zone \in Zones
  PROVE  LET f == Tick(e, c) IN
         /\ Keeps(e, f)
         /\ e.aimDownAt => f.aimAccum = e.aimAccum
         /\ Deferred /\ StickHasFinger(e) /\ Calm(e) => Tidy(f)
<1> DEFINE p == PendingJoystick(e)
           r == Reconcile(p)
           d == DelayedPress(r, c)
           q == PendingJoystick(d)
           a == AimStep(r, c)
           f == Tick(e, c)
<1>1. CASE ~e.enabled
  <2>1. f = e
    BY <1>1 DEF Tick
  <2> HIDE DEF f
  <2> QED BY <2>1, CalmTidy DEF Keeps, f
<1>2. CASE e.enabled
  <2>1. Good(p, s) /\ p.enabled
    BY <1>2, PendingJoystickGood
  <2>2. /\ Keeps(e, p) /\ SameAim(e, p)
        /\ StickHasFinger(e) /\ Calm(e) => Calm(p)
    BY PendingJoystickKeeps
  <2>3. f = IF r.aimDownAt THEN SwipeSteps(q, c) ELSE SwipeSteps(a, c)
    BY <1>2 DEF Tick
  <2> HIDE DEF p, f
  <2>4. Good(r, s) /\ r.enabled
    BY <2>1, ReconcileGood
  <2>5. Keeps(p, r) /\ SameAim(p, r) /\ (Calm(p) => Calm(r))
    <3>1. p \in Engines
      BY <2>1 DEF Good, Frame
    <3>2. SameAim(p, r) /\ Pressed(r) \subseteq Pressed(p)
      BY <3>1, ReconcileAside
    <3>3. Keeps(p, r)
      BY <3>1, ReconcileKeeps
    <3> QED BY <3>2, <3>3 DEF Calm
  <2> HIDE DEF r
  <2>6. Keeps(e, r) /\ SameAim(e, r) /\ (StickHasFinger(e) /\ Calm(e) => Calm(r))
    <3>1. Keeps(e, r)
      BY <2>2, <2>5, KeepsTwice
    <3> QED BY <2>2, <2>5, <3>1 DEF SameAim
  <2>7. r \in Engines
    BY <2>4 DEF Good, Frame
  <2>8. ASSUME NEW g, Good(g, s), Tidy(g)
        PROVE  Tidy(SwipeSteps(g, c))
    <3> DEFINE w == SwipeSteps(g, c)
    <3>1. \A n \in Swipes : IdOf(g, n) \notin Pressed(g)
      BY <2>8, TidyOther, KindsDiffer, ProfileAssumption
    <3>2. /\ Aside(g, w, Swipes) /\ Pressed(w) \subseteq Pressed(g)
          /\ Alone(g) /\ (\A n \in Swipes : IdOf(g, n) \notin Pressed(g)) => Alone(w)
      BY <2>8, SwipeStepsAside
    <3> HIDE DEF w
    <3>3. AimName # NoName => IdOf(w, AimName) = IdOf(g, AimName)
      BY <3>2, AimKeys, KindsDiffer DEF Aside
    <3> QED BY <2>8, <3>1, <3>2, <3>3 DEF Tidy, w
  <2>9. CASE r.aimDownAt
    <3>1. Good(d, s) /\ d.enabled
      BY <2>4, <2>9, DelayedPressGood
    <3>2. AimKept(r, d) /\ d.aimAccum = r.aimAccum
      BY <2>7, DelayedPressKept
    <3> HIDE DEF d
    <3>3. Good(q, s) /\ q.enabled
      BY <3>1, PendingJoystickGood
    <3>4. /\ Keeps(d, q) /\ SameAim(d, q)
          /\ StickHasFinger(d) /\ Tidy(d) => Tidy(q)
      BY <3>1, PendingJoystickKeeps
    <3> HIDE DEF q
    <3>5. Keeps(q, f) /\ SameAim(q, f) /\ f = SwipeSteps(q, c)
      BY <2>3, <2>9, <3>3, SwipeStepsKeeps, SwipeStepsAside
    <3>6. Keeps(r, d)
      BY <3>2, AimKeptKeeps
    <3>7. Keeps(e, d)
      BY <2>6, <3>6, KeepsTwice
    <3>8. Keeps(e, f)
      BY <3>4, <3>5, <3>7, KeepsTwice
    <3>9. f.aimAccum = e.aimAccum
      BY <2>6, <3>2, <3>4, <3>5 DEF SameAim
    <3>10. ASSUME Deferred, StickHasFinger(e), Calm(e)
           PROVE  Tidy(f)
      <4>1. Tidy(d) /\ StickHasFinger(d)
        BY <2>6, <3>2, <3>7, <3>10 DEF AimKept, Keeps
      <4> QED BY <2>8, <3>3, <3>4, <3>5, <4>1
    <3> QED BY <3>8, <3>9, <3>10 DEF f
  <2>10. CASE ~r.aimDownAt
    <3>1. Good(a, s) /\ a.enabled
      BY <2>4, <2>10, AimStepGood
    <3>2. AimKept(r, a)
      BY <2>7, AimStepKept
    <3> HIDE DEF a
    <3>3. Keeps(a, f) /\ f = SwipeSteps(a, c)
      BY <2>3, <2>10, <3>1, SwipeStepsKeeps
    <3>4. Keeps(r, a)
      BY <3>2, AimKeptKeeps
    <3>5. Keeps(e, f)
      BY <2>6, <3>3, <3>4, KeepsTwice
    <3>6. ~e.aimDownAt
      BY <2>6, <2>10 DEF SameAim
    <3>7. ASSUME Deferred, StickHasFinger(e), Calm(e)
          PROVE  Tidy(f)
      <4>1. Tidy(a)
        BY <2>6, <3>2, <3>7 DEF AimKept
      <4> QED BY <2>8, <3>1, <3>3, <4>1
    <3> QED BY <3>5, <3>6, <3>7 DEF f
  <2> QED BY <2>9, <2>10
<1> QED BY <1>1, <1>2

(* What a handler keeps: true sticks; with room and one aim finger, the    *)
(* predicates that need them; and a press of the frame stays alone.        *)
Tight(e) == StickHasFinger(e) /\ AimPart(e) /\ OneEach(e)

Handles(e, f) ==
  /\ OneStick /\ StickTrue(e) => StickTrue(f)
  /\ Room /\ OneFinger /\ Tight(e) => Tight(f)
  /\ Tidy(e) => Alone(f)

(* h is e with other keys held.                                            *)
OtherKeys(e, h) ==
  /\ h \in Engines /\ h.pool = e.pool /\ h.acts = e.acts /\ h.joyPending = e.joyPending
  /\ h.enabled = e.enabled /\ h.stick = e.stick /\ h.swipe = e.swipe /\ SameAim(e, h)

(* Keys of no joystick make no difference to any of it.                    *)
LEMMA OtherKeysKeep ==
  ASSUME NEW e, NEW h, OtherKeys(e, h), \A j \in Joysticks : Net(h, j) = Net(e, j)
  PROVE  Keeps(e, h) /\ (Tidy(e) => Tidy(h)) /\ (Tidy(h) => Alone(h))
<1>1. \A k \in Keys : IdOf(h, k) = IdOf(e, k)
  BY DEF OtherKeys, IdOf
<1>2. IdOf(h, AimName) = IdOf(e, AimName)
  BY DEF OtherKeys, IdOf
<1>3. StickTrue(e) => StickTrue(h)
  BY DEF StickTrue, OtherKeys, IdOf
<1>4. (StickHasFinger(e) => StickHasFinger(h)) /\ (OneEach(e) => OneEach(h))
  BY DEF StickHasFinger, OneEach, OtherKeys, IdOf
<1>5. AimPart(e) => AimPart(h)
  BY SameAimPart, <1>1 DEF OtherKeys
<1>6. Tidy(e) => Tidy(h)
  BY <1>2 DEF Tidy, Alone, Pressed, OtherKeys
<1> QED BY <1>3, <1>4, <1>5, <1>6 DEF Keeps, Tidy

(* After other keys, a helper that keeps the predicates.                   *)
LEMMA HandlesKeeps ==
  ASSUME NEW e, NEW h, NEW f, OtherKeys(e, h), \A j \in Joysticks : Net(h, j) = Net(e, j),
         Keeps(h, f), Alone(h) => Alone(f)
  PROVE  Handles(e, f)
<1>1. Keeps(e, h) /\ (Tidy(e) => Alone(h))
  BY OtherKeysKeep
<1>2. Keeps(e, f)
  BY <1>1, KeepsTwice
<1> QED BY <1>1, <1>2 DEF Keeps, Handles, Tight

(* With room the stick of j acts unless its keys point nowhere.            *)
LEMMA RoomForStick ==
  ASSUME Room, NEW s, NEW e, Good(e, s), Tight(e), NEW h, OtherKeys(e, h),
         NEW j \in Joysticks, NoJoystickAct(h, j)
  PROVE  Net(h, j) = Still
<1>1. j \in Names /\ j \notin Swipes
  BY KindsDiffer
<1>2. AcquiredId(e.pool, j) # NoId
  <2>1. CASE IdOf(e, j) = NoId
    BY <1>1, <2>1, RoomForOneMore DEF Tight, AimPart
  <2>2. CASE IdOf(e, j) # NoId
    BY <2>2 DEF AcquiredId, IdOf
  <2> QED BY <2>1, <2>2
<1> QED BY <1>2 DEF NoJoystickAct, OtherKeys

(* A joystick key went up or down: recompute_joystick, or the lift.        *)
LEMMA JoystickHandles ==
  ASSUME NEW s, NEW e, Good(e, s), NEW h, OtherKeys(e, h), NEW j \in Joysticks,
         \A i \in Joysticks : i # j => Net(h, i) = Net(e, i)
  PROVE  /\ Handles(e, RecomputeJoystick(h, j))
         /\ NoJoystickAct(h, j) => Handles(e, Lift(h, {j}))
<1>0. j \in Names /\ j \in Keys /\ {j} \subseteq Keys /\ h \in Engines /\ j # AimName
  BY KindsDiffer, ProfileAssumption DEF OtherKeys
<1>1. ASSUME NEW f, StickStep(h, f, j),
             IdOf(f, j) # NoId /\ f.joyPending # j /\ Net(f, j) # Still => f.stick[j] = Net(f, j),
             NoJoystickAct(h, j) \/ IdOf(f, j) # NoId,
             Tidy(e) => Alone(f)
      PROVE  Handles(e, f)
  <2>1. OneStick => StickTrue(f)
    BY <1>1 DEF OneStick, StickTrue
  <2>2. \A i \in Joysticks : Net(f, i) = Net(h, i)
    BY <1>1 DEF Net, HeldDir, StickStep
  <2>3. ASSUME Room, Tight(e)
        PROVE  Tight(f)
    <3>1. Net(h, j) # Still => IdOf(f, j) # NoId
      BY <1>1, <2>3, RoomForStick
    <3>2. \A k \in Keys \ {j} : IdOf(f, k) = IdOf(e, k)
      BY <1>1 DEF StickStep, OtherKeys, IdOf
    <3>3. StickHasFinger(f)
      BY <2>2, <2>3, <3>1, <3>2, KindsDiffer, ProfileAssumption DEF Tight, StickHasFinger
    <3>4. AimPart(f)
      <4>1. SameAim(e, f)
        BY <1>1 DEF StickStep, OtherKeys, SameAim
      <4> QED BY <1>0, <2>3, <3>2, <4>1, SameAimPart DEF Tight
    <3>5. OneEach(f)
      BY <2>3, <3>2, KindsDiffer, ProfileAssumption DEF Tight, OneEach
    <3> QED BY <3>3, <3>4, <3>5 DEF Tight
  <2> QED BY <1>1, <2>1, <2>3 DEF Handles
<1>2. Tidy(e) => Alone(h) /\ IdOf(h, j) \notin Pressed(h)
  <2>1. Tidy(e) => IdOf(e, j) \notin Pressed(e)
    BY <1>0, TidyOther
  <2>2. IdOf(h, j) = IdOf(e, j) /\ Pressed(h) = Pressed(e) /\ (Alone(h) <=> Alone(e))
    BY DEF OtherKeys, IdOf, Pressed, Alone
  <2> QED BY <2>1, <2>2 DEF Tidy
<1>3. Handles(e, RecomputeJoystick(h, j))
  <2> DEFINE f == RecomputeJoystick(h, j)
  <2>1. /\ StickStep(h, f, j)
        /\ Alone(h) /\ IdOf(h, j) \notin Pressed(h) => Alone(f)
        /\ NoJoystickAct(h, j) \/ IdOf(f, j) # NoId
    BY <1>0, RecomputeJoystickAside
  <2>2. IdOf(f, j) # NoId /\ f.joyPending # j /\ Net(f, j) # Still => f.stick[j] = Net(f, j)
    BY <1>0, RecomputeJoystickTrue
  <2> HIDE DEF f
  <2>3. Handles(e, f)
    BY <1>1, <1>2, <2>1, <2>2
  <2> QED BY <2>3 DEF f
<1>4. ASSUME NoJoystickAct(h, j)
      PROVE  Handles(e, Lift(h, {j}))
  <2> DEFINE f == Lift(h, {j})
             K == {j}
  <2>1. /\ Aside(h, f, K) /\ SameAim(h, f) /\ f.swipe = h.swipe
        /\ \A k \in K : IdOf(f, k) = NoId
        /\ Alone(h) => Alone(f)
    BY <1>0, LiftAside
  <2> HIDE DEF f
  <2>2. StickStep(h, f, j) /\ IdOf(f, j) = NoId
    BY <2>1 DEF StickStep, Aside
  <2>3. Handles(e, f)
    BY <1>1, <1>2, <1>4, <2>1, <2>2
  <2> QED BY <2>3 DEF f
<1> QED BY <1>3, <1>4
(* Pressing a swipe lifts the others of its group, so one of them plays.   *)
LEMMA PressSwipeKeeps ==
  ASSUME NEW s, NEW e, Good(e, s), NEW h, OtherKeys(e, h), NEW n \in Swipes
  PROVE  Keeps(h, PressSwipe(h, n)) /\ (Alone(h) => Alone(PressSwipe(h, n)))
<1> DEFINE S == {m \in Playing(h) : SameGroup(m, n)}
           c == EndSwipes(h, S)
           d == Touch(c, n)
           f == PressSwipe(h, n)
<1>0. n \in Names /\ n \in Keys /\ Names \subseteq Keys /\ Swipes \subseteq Names
      /\ n # AimName /\ h \in Engines
  BY KindsDiffer, ProfileAssumption DEF OtherKeys
<1>1. CASE h.swipe[n] # NoId
  BY <1>1 DEF PressSwipe, Keeps
<1>2. CASE h.swipe[n] = NoId
  <2>1. S \subseteq Swipes /\ \A m \in Swipes \ S : SameGroup(m, n) => h.swipe[m] = NoId
    BY DEF Playing
  <2>2. f = [d EXCEPT !.swipe = [d.swipe EXCEPT ![n] = AcquiredId(c.pool, n)]]
    BY <1>2 DEF PressSwipe
  <2> HIDE DEF S
  <2>3. /\ Aside(h, c, S) /\ SameAim(h, c) /\ (Alone(h) => Alone(c))
        /\ \A k \in S : IdOf(c, k) = NoId
    BY <1>0, <2>1, EndSwipesAside
  <2> HIDE DEF c
  <2>4. c \in Engines /\ AcquiredId(c.pool, n) \in Ids \cup {NoId}
    BY <1>0, <2>3, AcquiredIdType DEF Aside, Engines
  <2>5. Aside(c, d, {n}) /\ SameAim(c, d) /\ (Alone(c) => Alone(d))
    BY <1>0, <2>4, TouchAside
  <2> HIDE DEF d, f
  <2>6. d \in Engines
    BY <2>5 DEF Aside
  <2>7. /\ f \in Engines /\ f.pool = d.pool /\ f.acts = d.acts /\ f.held = d.held
        /\ f.joyPending = d.joyPending /\ f.enabled = d.enabled /\ f.stick = d.stick
        /\ SameAim(d, f) /\ \A m \in Names \ {n} : f.swipe[m] = d.swipe[m]
    BY <2>2, <2>4, <2>6 DEF Engines, SameAim
  <2>8. Aside(d, f, {n})
    BY <2>7 DEF Aside, IdOf
  <2>9. Aside(h, f, Swipes)
    <3>1. {n} \subseteq Swipes
      OBVIOUS
    <3>2. Aside(h, d, Swipes)
      BY <2>1, <2>3, <2>5, <3>1, AsideTwice
    <3> QED BY <2>8, <3>1, <3>2, AsideTwice
  <2>10. Alone(h) => Alone(f)
    <3>1. Alone(d) => Alone(f)
      BY <2>7 DEF Alone
    <3> QED BY <2>3, <2>5, <3>1
  <2>11. AimPart(h) => AimPart(f)
    <3>1. SameAim(h, f)
      BY <2>3, <2>5, <2>7 DEF SameAim
    <3>2. AimName \in Keys => IdOf(f, AimName) = IdOf(h, AimName)
      BY <2>9, KindsDiffer DEF Aside
    <3> QED BY <3>1, <3>2, SameAimPart
  <2>12. \A m \in Swipes \ {n} : IdOf(f, m) \in {IdOf(h, m), NoId}
    <3>1. \A m \in Swipes \ {n} : IdOf(f, m) = IdOf(c, m)
      BY <1>0, <2>5, <2>8 DEF Aside
    <3>2. \A m \in Swipes : IdOf(c, m) \in {IdOf(h, m), NoId}
      BY <1>0, <2>3 DEF Aside
    <3> QED BY <3>1, <3>2
  <2>13. \A m \in Swipes \ {n} : SameGroup(m, n) => IdOf(f, m) = NoId
    <3>1. \A m \in Swipes : h.swipe[m] = IdOf(h, m)
      BY <1>0 DEF Good, Sound, Own, OtherKeys, IdOf
    <3>2. \A m \in Swipes \ {n} : SameGroup(m, n) => IdOf(c, m) = NoId
      BY <1>0, <2>1, <2>3, <3>1 DEF Aside
    <3> QED BY <1>0, <2>5, <2>8, <3>2 DEF Aside
  <2>14. OneEach(h) => OneEach(f)
    <3>1. \A k, m \in Swipes : SameGroup(k, m) <=> SameGroup(m, k)
      BY DEF SameGroup
    <3> QED BY <2>12, <2>13, <3>1 DEF OneEach
  <2>15. \A j \in Joysticks : Net(f, j) = Net(h, j) /\ IdOf(f, j) = IdOf(h, j)
                              /\ f.stick[j] = h.stick[j]
    BY <1>0, <2>9, KindsDiffer DEF Aside, Net, HeldDir
  <2>16. (StickTrue(h) => StickTrue(f)) /\ (StickHasFinger(h) => StickHasFinger(f))
    BY <2>9, <2>15 DEF StickTrue, StickHasFinger, Aside
  <2> QED BY <2>10, <2>11, <2>14, <2>16 DEF Keeps, f
<1> QED BY <1>1, <1>2

(* The press of the aim's toggle; with room there is a finger for it.      *)
LEMMA PressAimHandles ==
  ASSUME NEW s, NEW e, Good(e, s), NEW h, OtherKeys(e, h), AimName # NoName,
         \A j \in Joysticks : Net(h, j) = Net(e, j)
  PROVE  Handles(e, PressAim(h, AimName))
<1> DEFINE g == [h EXCEPT !.aimDownAt = FALSE, !.aimPos = "centre"]
           f == PressAim(h, AimName)
<1>0. h \in Engines /\ AimName \in Keys /\ AimName \in Names /\ AimName \notin Swipes
  BY AimIsAim, AimKeys, KindsDiffer DEF OtherKeys
<1>1. OnlyAim(h, g) /\ g \in Engines
  BY <1>0 DEF Engines, OnlyAim, Zones
<1>2. f = Touch(g, AimName)
  BY DEF PressAim
<1> HIDE DEF f, g
<1>3. /\ Aside(h, f, AimFingers) /\ SameAim(g, f)
      /\ IdOf(f, AimName) = AcquiredId(h.pool, AimName)
  BY <1>0, <1>1, <1>2, AimTouchAside
<1>4. Alone(h) => Alone(f)
  <2>1. Alone(g) => Alone(f)
    BY <1>0, <1>1, <1>2, TouchAside
  <2> QED BY <1>1, <2>1 DEF OnlyAim, Alone
<1>5. Keeps(e, h) /\ (Tidy(e) => Alone(h))
  BY OtherKeysKeep
<1>6. ASSUME Room, Tight(e)
      PROVE  AimPart(f)
  <2>1. AcquiredId(e.pool, AimName) # NoId
    <3>1. CASE IdOf(e, AimName) = NoId
      BY <1>0, <1>6, <3>1, RoomForOneMore DEF Tight, AimPart
    <3>2. CASE IdOf(e, AimName) # NoId
      BY <3>2 DEF AcquiredId, IdOf
    <3> QED BY <3>1, <3>2
  <2>2. IdOf(f, AimName) # NoId
    BY <1>3, <2>1 DEF OtherKeys
  <2>3. ~f.second
    BY <1>1, <1>3, <1>6 DEF SameAim, OnlyAim, OtherKeys, Tight, AimPart
  <2> QED BY <2>2, <2>3 DEF AimPart
<1>7. \A n \in Swipes : IdOf(f, n) \in {IdOf(h, n), NoId}
  BY <1>3, KindsDiffer, ProfileAssumption DEF Aside, AimFingers
<1>8. AimFingers \cap Joysticks = {}
  BY KindsDiffer DEF AimFingers
<1>9. \A j \in Joysticks : j \in Keys \ AimFingers /\ j \in Names \ AimFingers
  BY <1>8, KindsDiffer, ProfileAssumption
<1>10. \A j \in Joysticks : Net(f, j) = Net(h, j)
  BY <1>3 DEF Net, HeldDir, Aside
<1>11. StickTrue(h) => StickTrue(f)
  BY <1>3, <1>9, <1>10 DEF StickTrue, Aside
<1>12. StickHasFinger(h) => StickHasFinger(f)
  BY <1>3, <1>9, <1>10 DEF StickHasFinger, Aside
<1>13. OneEach(h) => OneEach(f)
  BY <1>7 DEF OneEach
<1> QED BY <1>4, <1>5, <1>6, <1>11, <1>12, <1>13 DEF Handles, Keeps, Tight, f

(* on_press, whatever the kind of the binding.                             *)
LEMMA OnPressHandles ==
  ASSUME NEW s, NEW e, Good(e, s), NEW t \in Triggers
  PROVE  Handles(e, OnPress(e, t))
<1> DEFINE n == Owner(t)
           h == [e EXCEPT !.held = e.held \cup {t}]
           f == OnPress(e, t)
<1>1. CASE t \in e.held
  <2>1. f = e
    BY <1>1 DEF OnPress
  <2> HIDE DEF f
  <2> QED BY <2>1 DEF Handles, Tidy, f
<1>2. CASE t \notin e.held
  <2>1. e \in Engines /\ e.held \subseteq Triggers
    BY DEF Good, Frame, Engines
  <2>2. OtherKeys(e, h) /\ h.held = e.held \cup {t} /\ h \in Engines
    BY <2>1 DEF Engines, OtherKeys, SameAim
  <2>3. f = IF n = NoName THEN h
            ELSE CASE n \in HoldBindings -> Touch(h, n)
                   [] n \in Joysticks    -> RecomputeJoystick(h, n)
                   [] n \in Swipes       -> PressSwipe(h, n)
                   [] OTHER              -> PressAim(h, n)
    BY <1>2 DEF OnPress
  <2>4. n # NoName => n \in Names
    BY OwnerOwns
  <2>5. \A j \in Joysticks : j # n => Net(h, j) = Net(e, j)
    <3>1. \A j \in Joysticks : j # n => t \notin Profile[j].triggers
      BY OwnerOwns, KindsDiffer DEF Owner
    <3>2. \A j \in Joysticks : j # n =>
            h.held \cap Profile[j].triggers = e.held \cap Profile[j].triggers
      BY <2>2, <3>1
    <3> QED BY <3>2 DEF Net, HeldDir
  <2> HIDE DEF h, f
  <2>6. CASE n = NoName
    <3>1. Keeps(h, h) /\ f = h
      BY <2>3, <2>6 DEF Keeps
    <3>2. \A j \in Joysticks : Net(h, j) = Net(e, j)
      BY <2>5, <2>6, KindsDiffer
    <3> QED BY <2>2, <3>1, <3>2, HandlesKeeps DEF f
  <2>7. CASE n # NoName /\ n \in HoldBindings
    <3> DEFINE K == {n}
    <3>1. f = Touch(h, n)
      BY <2>3, <2>7, KindsDiffer
    <3>2. Aside(h, f, K) /\ SameAim(h, f) /\ (Alone(h) => Alone(f))
      BY <2>2, <2>4, <2>7, <3>1, TouchAside, ProfileAssumption
    <3>3. K \cap Joysticks = {} /\ K \cap Swipes = {} /\ AimName \notin K
      BY <2>7, KindsDiffer
    <3> HIDE DEF K
    <3>4. \A m \in Swipes : IdOf(f, m) \in {IdOf(h, m), NoId}
      BY <3>2, <3>3, KindsDiffer, ProfileAssumption DEF Aside
    <3>5. AimPart(h) => AimPart(f)
      BY <3>2, <3>3, SameAimPart DEF Aside
    <3>6. Keeps(h, f)
      BY <3>2, <3>3, <3>4, <3>5, AsideKeeps
    <3>7. \A j \in Joysticks : Net(h, j) = Net(e, j)
      BY <2>5, <2>7, KindsDiffer
    <3> QED BY <2>2, <3>2, <3>6, <3>7, HandlesKeeps DEF f
  <2>8. CASE n # NoName /\ n \in Joysticks
    <3>1. f = RecomputeJoystick(h, n)
      BY <2>3, <2>8, KindsDiffer
    <3> QED BY <2>2, <2>5, <2>8, <3>1, JoystickHandles DEF f
  <2>9. CASE n # NoName /\ n \in Swipes
    <3>1. f = PressSwipe(h, n)
      BY <2>3, <2>9, KindsDiffer
    <3>2. Keeps(h, f) /\ (Alone(h) => Alone(f))
      BY <2>2, <2>9, <3>1, PressSwipeKeeps
    <3>3. \A j \in Joysticks : Net(h, j) = Net(e, j)
      BY <2>5, <2>9, KindsDiffer
    <3> QED BY <2>2, <3>2, <3>3, HandlesKeeps DEF f
  <2>10. CASE n # NoName /\ n \notin HoldBindings \cup Joysticks \cup Swipes
    <3>1. n = AimName
      BY <2>4, <2>10, AimIsAim
    <3>2. f = PressAim(h, AimName)
      BY <2>3, <2>10, <3>1
    <3>3. \A j \in Joysticks : Net(h, j) = Net(e, j)
      BY <2>5, <2>10
    <3> QED BY <2>2, <2>10, <3>1, <3>2, <3>3, PressAimHandles DEF f
  <2> QED BY <2>6, <2>7, <2>8, <2>9, <2>10
<1> QED BY <1>1, <1>2

(* on_release, whatever the kind of the binding.                           *)
LEMMA OnReleaseHandles ==
  ASSUME NEW s, NEW e, Good(e, s), NEW t \in Triggers
  PROVE  Handles(e, OnRelease(e, t))
<1> DEFINE n == Owner(t)
           h == [e EXCEPT !.held = e.held \ {t}]
           f == OnRelease(e, t)
<1>1. CASE t \notin e.held
  <2>1. f = e
    BY <1>1 DEF OnRelease
  <2> HIDE DEF f
  <2> QED BY <2>1 DEF Handles, Tidy, f
<1>2. CASE t \in e.held
  <2>1. e \in Engines /\ e.held \subseteq Triggers
    BY DEF Good, Frame, Engines
  <2>2. OtherKeys(e, h) /\ h.held = e.held \ {t} /\ h \in Engines
    BY <2>1 DEF Engines, OtherKeys, SameAim
  <2>3. f = IF n = NoName THEN h
            ELSE CASE n \in HoldBindings -> Lift(h, {n})
                   [] n \in Joysticks    -> ReleaseJoystick(h, n)
                   [] n \in Swipes       -> h
                   [] OTHER              -> ReleaseAim(h, n)
    BY <1>2 DEF OnRelease
  <2>4. n # NoName => n \in Names
    BY OwnerOwns
  <2>5. \A j \in Joysticks : j # n => Net(h, j) = Net(e, j)
    <3>1. \A j \in Joysticks : j # n => t \notin Profile[j].triggers
      BY OwnerOwns, KindsDiffer DEF Owner
    <3>2. \A j \in Joysticks : j # n =>
            h.held \cap Profile[j].triggers = e.held \cap Profile[j].triggers
      BY <2>2, <3>1
    <3> QED BY <3>2 DEF Net, HeldDir
  <2> HIDE DEF h, f
  <2>6. CASE n = NoName \/ n \in Swipes
    <3>1. Keeps(h, h) /\ f = h
      BY <2>3, <2>6, KindsDiffer DEF Keeps
    <3>2. \A j \in Joysticks : Net(h, j) = Net(e, j)
      BY <2>5, <2>6, KindsDiffer
    <3> QED BY <2>2, <3>1, <3>2, HandlesKeeps DEF f
  <2>7. CASE n # NoName /\ n \in HoldBindings
    <3> DEFINE K == {n}
    <3>1. f = Lift(h, K)
      BY <2>3, <2>7, KindsDiffer
    <3>2. K \cap Joysticks = {} /\ K \cap Swipes = {} /\ AimName \notin K /\ K \subseteq Keys
      BY <2>4, <2>7, KindsDiffer, ProfileAssumption
    <3> HIDE DEF K
    <3>3. Aside(h, f, K) /\ SameAim(h, f) /\ (Alone(h) => Alone(f))
      BY <2>2, <3>1, <3>2, LiftAside
    <3>4. \A m \in Swipes : IdOf(f, m) \in {IdOf(h, m), NoId}
      BY <3>2, <3>3, KindsDiffer, ProfileAssumption DEF Aside
    <3>5. AimPart(h) => AimPart(f)
      BY <3>2, <3>3, SameAimPart DEF Aside
    <3>6. Keeps(h, f)
      BY <3>2, <3>3, <3>4, <3>5, AsideKeeps
    <3>7. \A j \in Joysticks : Net(h, j) = Net(e, j)
      BY <2>5, <2>7, KindsDiffer
    <3> QED BY <2>2, <3>3, <3>6, <3>7, HandlesKeeps DEF f
  <2>8. CASE n # NoName /\ n \in Joysticks
    <3>1. f = ReleaseJoystick(h, n)
      BY <2>3, <2>8, KindsDiffer
    <3>2. f = IF NoJoystickAct(h, n) THEN Lift(h, {n}) ELSE RecomputeJoystick(h, n)
      BY <3>1 DEF ReleaseJoystick
    <3> QED BY <2>2, <2>5, <2>8, <3>2, JoystickHandles DEF f
  <2>9. CASE n # NoName /\ n \notin HoldBindings \cup Joysticks \cup Swipes
    <3> DEFINE g == [h EXCEPT !.aimDownAt = FALSE, !.aimPos = NoPos, !.aimAccum = FALSE]
    <3>1. n = AimName
      BY <2>4, <2>9, AimIsAim
    <3>2. f = Lift(g, {AimName})
      BY <2>3, <2>9, <3>1 DEF ReleaseAim
    <3>3. OnlyAim(h, g) /\ g.aimPos = NoPos /\ g \in Engines /\ {AimName} \subseteq Keys
      BY <2>2, <2>9, <3>1, AimKeys DEF Engines, OnlyAim
    <3> HIDE DEF g
    <3>4. AimKept(h, f)
      BY <2>2, <2>9, <3>1, <3>2, <3>3, AimKeptLift
    <3>5. Keeps(h, f)
      BY <3>4, AimKeptKeeps
    <3>6. Alone(h) => Alone(f)
      <4>1. Alone(g) => Alone(f)
        BY <3>2, <3>3, LiftAside
      <4> QED BY <3>3, <4>1 DEF OnlyAim, Alone
    <3>7. \A j \in Joysticks : Net(h, j) = Net(e, j)
      BY <2>5, <2>9
    <3> QED BY <2>2, <3>5, <3>6, <3>7, HandlesKeeps DEF f
  <2> QED BY <2>6, <2>7, <2>8, <2>9
<1> QED BY <1>1, <1>2----------------------------------------------------------------------------
(* The same for the arms of the loop.                                      *)

(* From the engine before an arm to the engine after it.                   *)
Reaches(e, f) ==
  /\ OneStick /\ StickTrue(e) => StickTrue(f)
  /\ Room /\ OneFinger /\ Tight(e) => Tight(f)
  /\ Deferred /\ Tight(e) => Alone(f)

(* An engine without fingers, direction or frame satisfies all of it.      *)
LEMMA ReachesRest ==
  ASSUME NEW e, NEW f, f.held = {}, f.aimPos = NoPos, ~f.second, Calm(f) \/ Alone(f),
         \A k \in Keys : IdOf(f, k) = NoId
  PROVE  Reaches(e, f)
<1>1. \A j \in Joysticks : Net(f, j) = Still
  BY DEF Net, HeldDir, Still
<1>2. StickTrue(f) /\ StickHasFinger(f)
  BY <1>1 DEF StickTrue, StickHasFinger
<1>3. AimPart(f)
  BY DEF AimPart
<1>4. OneEach(f)
  BY KindsDiffer, ProfileAssumption DEF OneEach
<1> QED BY <1>2, <1>3, <1>4, CalmTidy DEF Reaches, Tight

(* The start of an arm: the same engine, nothing pressed yet.              *)
LEMMA FreshKeeps ==
  ASSUME IInv
  PROVE  LET e == Fresh(eng) IN
         Keeps(eng, e) /\ Calm(e) /\ e.aimDownAt = eng.aimDownAt /\ e.aimAccum = eng.aimAccum
<1> DEFINE e == Fresh(eng)
<1>1. /\ e.pool = eng.pool /\ e.held = eng.held /\ e.stick = eng.stick
      /\ e.joyPending = eng.joyPending /\ e.aimPos = eng.aimPos /\ e.second = eng.second
      /\ e.aimDownAt = eng.aimDownAt /\ e.aimAccum = eng.aimAccum /\ e.acts = NoActs
  BY DEF IInv, TypeOK, Engines, Fresh
<1> HIDE DEF e
<1>2. StickTrue(eng) => StickTrue(e)
  BY <1>1 DEF StickTrue, IdOf, Net, HeldDir
<1>3. StickHasFinger(eng) => StickHasFinger(e)
  BY <1>1 DEF StickHasFinger, IdOf, Net, HeldDir
<1>4. (AimPart(eng) => AimPart(e)) /\ (OneEach(eng) => OneEach(e))
  BY <1>1 DEF AimPart, OneEach, IdOf
<1>5. Calm(e)
  <2>1. \A i \in Ids : DOMAIN e.acts[i] = {}
    BY <1>1 DEF NoActs
  <2> QED BY <2>1 DEF Calm, Pressed
<1> QED BY <1>1, <1>2, <1>3, <1>4, <1>5 DEF Keeps, e

(* What comes before a handler, then the handler.                          *)
LEMMA ReachesHandler ==
  ASSUME NEW e, NEW g, NEW f, Keeps(e, g), Deferred /\ StickHasFinger(e) => Tidy(g),
         Handles(g, f)
  PROVE  Reaches(e, f)
<1>1. OneStick /\ StickTrue(e) => StickTrue(f)
  BY DEF Keeps, Handles
<1>2. Room /\ OneFinger /\ Tight(e) => Tight(f)
  BY DEF Keeps, Handles, Tight
<1>3. Deferred /\ Tight(e) => Alone(f)
  BY DEF Handles, Tight
<1> QED BY <1>1, <1>2, <1>3 DEF Reaches

(* The tick that the ticker or the keyboard stream begins with.            *)
LEMMA FreshTickKeeps ==
  ASSUME IInv, NEW c \in Choices(eng)
  PROVE  LET g == Tick(Fresh(eng), c) IN
         /\ Good(g, screen) /\ Keeps(eng, g)
         /\ Deferred /\ StickHasFinger(eng) => Tidy(g)
         /\ eng.aimDownAt => g.aimAccum = eng.aimAccum
<1> DEFINE e == Fresh(eng)
           g == Tick(e, c)
<1>1. Good(e, screen) /\ c.zone \in Zones
  BY FreshGood, ChoiceType
<1>2. Keeps(eng, e) /\ Calm(e) /\ e.aimDownAt = eng.aimDownAt /\ e.aimAccum = eng.aimAccum
  BY FreshKeeps
<1> HIDE DEF e
<1>3. Good(g, screen)
  BY <1>1, TickGood
<1>4. /\ Keeps(e, g) /\ (e.aimDownAt => g.aimAccum = e.aimAccum)
      /\ Deferred /\ StickHasFinger(e) /\ Calm(e) => Tidy(g)
  BY <1>1, TickKeeps
<1> HIDE DEF g
<1>5. Keeps(eng, g)
  BY <1>2, <1>4, KeepsTwice
<1>6. StickHasFinger(eng) => StickHasFinger(e)
  BY <1>2 DEF Keeps
<1> QED BY <1>2, <1>3, <1>4, <1>5, <1>6 DEF e, g

(* handle(), in an enabled engine or not.                                  *)
LEMMA HandleHandles ==
  ASSUME NEW s, NEW e, Good(e, s), NEW t \in Triggers
  PROVE  Handles(e, Press(e, t)) /\ Handles(e, Unpress(e, t)) /\ Handles(e, e)
<1>1. Handles(e, e)
  BY DEF Handles, Tidy
<1> QED BY <1>1, OnPressHandles, OnReleaseHandles DEF Press, Unpress

(* Mouse motion is only remembered.                                        *)
LEMMA MotionHandles ==
  ASSUME NEW s, NEW e, Good(e, s), NEW nonzero \in BOOLEAN
  PROVE  Handles(e, Motion(e, nonzero))
<1> DEFINE f == Motion(e, nonzero)
<1>1. CASE ~e.enabled
  BY <1>1, HandleHandles DEF Motion, Handles, Tidy
<1>2. CASE e.enabled
  <2>1. e \in Engines
    BY DEF Good, Frame
  <2>2. f = [e EXCEPT !.aimAccum = nonzero]
    BY <1>2 DEF Motion
  <2>3. OnlyAim(e, f) /\ f.aimPos = e.aimPos
    BY <2>1, <2>2 DEF Engines, OnlyAim
  <2> HIDE DEF f
  <2>4. Keeps(e, f)
    BY <2>1, <2>3, AimKeptFields, AimKeptKeeps
  <2>5. Alone(e) => Alone(f)
    BY <2>3 DEF OnlyAim, Alone
  <2> QED BY <2>4, <2>5 DEF Keeps, Handles, Tight, Tidy, f
<1> QED BY <1>1, <1>2

(* set_enabled(false) presses nothing and leaves nothing.                  *)
LEMMA DisableReaches ==
  ASSUME NEW s, NEW e, Good(e, s), Calm(e), e.enabled, NEW g
  PROVE  LET f == Disable(e) IN
         /\ Reaches(g, f) /\ f.held = {} /\ f.aimPos = NoPos /\ ~f.second
         /\ \A k \in Keys : IdOf(f, k) = NoId
<1> DEFINE I == HeldIds(e.pool)
           swipe == [n \in Names |-> NoId]
           stick == [n \in Names |-> Still]
           h == Emit(e, "Up", I)
           f == Disable(e)
<1>1. e \in Engines /\ "Up" \in Acts /\ I \subseteq Ids
  BY DEF Good, Frame, Acts, HeldIds, Consistent
<1>2. f = [h EXCEPT
             !.enabled = FALSE, !.held = {}, !.aimPos = NoPos, !.aimPending = FALSE,
             !.aimAccum = FALSE, !.aimDownAt = FALSE, !.second = FALSE,
             !.joyPending = NoName, !.swipe = swipe, !.stick = stick, !.pool = NewPool]
  BY <1>1 DEF Disable, Good
<1> HIDE DEF I, f, swipe, stick
<1>3. Pressed(h) \subseteq Pressed(e) /\ (Alone(e) => Alone(h)) /\ h \in Engines
  <2>1. h \in Engines
    BY <1>1, EmitEffect
  <2> QED BY <1>1, <2>1, EmitAlone
<1> HIDE DEF h
<1>4. /\ f.held = {} /\ f.aimPos = NoPos /\ ~f.second /\ f.pool = NewPool /\ f.acts = h.acts
  BY <1>2, <1>3 DEF Engines
<1>5. Alone(f)
  BY <1>3, <1>4, CalmTidy DEF Alone
<1>6. \A k \in Keys : IdOf(f, k) = NoId
  BY <1>4 DEF IdOf, NewPool
<1> QED BY <1>4, <1>5, <1>6, ReachesRest DEF f
(* Every arm.                                                              *)
LEMMA StepReaches ==
  ASSUME IInv, Next
  PROVE  Reaches(eng, eng')
<1> DEFINE e == Fresh(eng)
<1>0. /\ Good(e, screen) /\ e.enabled = eng.enabled
      /\ Keeps(eng, e) /\ Calm(e) /\ Tidy(e)
  BY FreshGood, FreshKeeps, CalmTidy
<1>1. CASE Ticker
  <2>1. PICK c \in Choices(eng) : eng' = Tick(e, c)
    BY <1>1 DEF Ticker, Dispatch
  <2>2. /\ Good(Tick(e, c), screen) /\ Keeps(eng, Tick(e, c))
        /\ Deferred /\ StickHasFinger(eng) => Tidy(Tick(e, c))
    BY FreshTickKeeps
  <2>3. Handles(Tick(e, c), Tick(e, c))
    BY DEF Handles, Tidy
  <2> QED BY <2>1, <2>2, <2>3, ReachesHandler
<1>2. ASSUME NEW t \in Triggers, KeyPress(t) \/ KeyRelease(t)
      PROVE  Reaches(eng, eng')
  <2>1. PICK c \in Choices(eng) :
          eng' = Press(Tick(e, c), t) \/ eng' = Unpress(Tick(e, c), t)
    BY <1>2 DEF KeyPress, KeyRelease, Dispatch
  <2>2. /\ Good(Tick(e, c), screen) /\ Keeps(eng, Tick(e, c))
        /\ Deferred /\ StickHasFinger(eng) => Tidy(Tick(e, c))
    BY FreshTickKeeps
  <2>3. /\ Handles(Tick(e, c), Press(Tick(e, c), t))
        /\ Handles(Tick(e, c), Unpress(Tick(e, c), t))
    BY <2>2, HandleHandles
  <2>4. Handles(Tick(e, c), eng')
    BY <2>1, <2>3
  <2> QED BY <2>2, <2>4, ReachesHandler
<1>3. ASSUME NEW t \in Triggers, MousePress(t) \/ MouseRelease(t)
      PROVE  Reaches(eng, eng')
  <2>1. eng' = Press(e, t) \/ eng' = Unpress(e, t)
    BY <1>3 DEF MousePress, MouseRelease, Dispatch
  <2>2. Handles(e, Press(e, t)) /\ Handles(e, Unpress(e, t))
    BY <1>0, HandleHandles
  <2>3. Handles(e, eng')
    BY <2>1, <2>2
  <2> QED BY <1>0, <2>3, ReachesHandler
<1>4. CASE MouseMotion
  <2>1. PICK nonzero \in BOOLEAN : eng' = Motion(e, nonzero)
    BY <1>4 DEF MouseMotion, Dispatch
  <2>2. Handles(e, eng')
    BY <1>0, <2>1, MotionHandles
  <2> QED BY <1>0, <2>2, ReachesHandler
<1>5. CASE Stop
  BY <1>0, <1>5, DisableReaches DEF Stop, Dispatch
<1>6. CASE Rebuild
  <2>1. /\ NewEngine.held = {} /\ NewEngine.aimPos = NoPos /\ ~NewEngine.second
        /\ NewEngine.acts = NoActs /\ \A k \in Keys : IdOf(NewEngine, k) = NoId
    BY DEF NewEngine, IdOf, NewPool
  <2>2. Calm(NewEngine)
    BY <2>1 DEF Calm, Pressed, NoActs
  <2> QED BY <1>6, <2>1, <2>2, ReachesRest DEF Rebuild, Dispatch
<1>7. CASE RenewPipe
  <2> DEFINE d == Disable(e)
             f == Fresh(Enable(d))
  <2>1. eng' = f
    BY <1>7 DEF RenewPipe
  <2>2. d.held = {} /\ d.aimPos = NoPos /\ ~d.second /\ \A k \in Keys : IdOf(d, k) = NoId
    BY <1>0, <1>7, DisableReaches DEF RenewPipe
  <2>3. d \in Engines
    BY <1>0, <1>7, DisableGood DEF RenewPipe, Good, Frame
  <2> HIDE DEF d
  <2>4. /\ f.held = d.held /\ f.aimPos = d.aimPos /\ f.second = d.second
        /\ f.pool = d.pool /\ f.acts = NoActs
    BY <2>3 DEF Engines, Fresh, Enable
  <2> HIDE DEF f
  <2>5. Calm(f)
    BY <2>4 DEF Calm, Pressed, NoActs
  <2>6. \A k \in Keys : IdOf(f, k) = NoId
    BY <2>2, <2>4 DEF IdOf
  <2> QED BY <2>1, <2>2, <2>4, <2>5, <2>6, ReachesRest
<1> QED BY <1>1, <1>2, <1>3, <1>4, <1>5, <1>6, <1>7 DEF Next

(* A new engine.                                                           *)
LEMMA InitReaches ==
  ASSUME Init
  PROVE  StickTrue(eng) /\ Tight(eng) /\ Alone(eng)
<1>1. /\ eng.held = {} /\ eng.aimPos = NoPos /\ ~eng.second
      /\ eng.acts = NoActs /\ \A k \in Keys : IdOf(eng, k) = NoId
  BY DEF Init, NewEngine, IdOf, NewPool
<1>2. Calm(eng)
  BY <1>1 DEF Calm, Pressed, NoActs
<1>3. \A j \in Joysticks : Net(eng, j) = Still
  BY <1>1 DEF Net, HeldDir, Still
<1>4. OneEach(eng)
  BY <1>1, KindsDiffer, ProfileAssumption DEF OneEach
<1> QED BY <1>1, <1>2, <1>3, <1>4, CalmTidy DEF StickTrue, Tight, StickHasFinger, AimPart

(* Motion that arrives while a reset is in flight waits for the press: no  *)
(* tick drops it (tick, and the comment on the delayed press).             *)
THEOREM MotionIsKept == Spec => MotionSurvivesReset
<1> DEFINE Kept == arm' = "ticker" /\ eng.aimDownAt /\ eng.aimAccum => eng'.aimAccum
<1>1. ASSUME IInv, [Next]_vars
      PROVE  [Kept]_vars
  <2>1. CASE Ticker
    <3>1. PICK c \in Choices(eng) : eng' = Tick(Fresh(eng), c)
      BY <2>1 DEF Ticker, Dispatch
    <3>2. eng.aimDownAt => eng'.aimAccum = eng.aimAccum
      BY <1>1, <3>1, FreshTickKeeps
    <3> QED BY <3>2
  <2>2. ASSUME Next, ~Ticker
        PROVE  arm' # "ticker"
    BY <2>2 DEF Next, KeyPress, KeyRelease, MousePress, MouseRelease, MouseMotion,
                Stop, Rebuild, RenewPipe, Dispatch
  <2> QED BY <1>1, <2>1, <2>2
<1>2. IInv /\ [Next]_vars => [Kept]_vars
  BY <1>1
<1> QED BY InvariantHolds, <1>2, PTL DEF Spec, MotionSurvivesReset

(* A joystick's finger stands where the held keys point, whatever happened *)
(* between its press at the centre and the tick that applies the direction.*)
(* The profile has one joystick: joystick_pending is one slot.             *)
THEOREM StickIsTrue ==
  ASSUME OneStick
  PROVE  Spec => []StickFollowsKeys
<1>1. Init => StickTrue(eng)
  BY InitReaches
<1>2. ASSUME IInv, StickTrue(eng), [Next]_vars
      PROVE  StickTrue(eng)'
  <2>1. CASE Next
    BY <1>2, <2>1, StepReaches DEF Reaches
  <2>2. CASE UNCHANGED vars
    BY <1>2, <2>2 DEF vars
  <2> QED BY <1>2, <2>1, <2>2
<1>3. IInv /\ StickTrue(eng) /\ [Next]_vars => StickTrue(eng)'
  BY <1>2
<1>4. StickTrue(eng) => StickFollowsKeys
  BY DEF StickTrue, StickFollowsKeys
<1> QED BY InvariantHolds, <1>1, <1>3, <1>4, PTL DEF Spec

(* With room and one aim finger, the three predicates that need both.      *)
LEMMA TightHolds ==
  ASSUME Room, OneFinger
  PROVE  Spec => []Tight(eng)
<1>1. Init => Tight(eng)
  BY InitReaches
<1>2. ASSUME IInv, Tight(eng), [Next]_vars
      PROVE  Tight(eng)'
  <2>1. CASE Next
    BY <1>2, <2>1, StepReaches DEF Reaches
  <2>2. CASE UNCHANGED vars
    BY <1>2, <2>2 DEF vars
  <2> QED BY <1>2, <2>1, <2>2
<1>3. IInv /\ Tight(eng) /\ [Next]_vars => Tight(eng)'
  BY <1>2
<1> QED BY InvariantHolds, <1>1, <1>3, PTL DEF Spec

(* The aim position and the aim finger come and go together, and with the  *)
(* toggle up there is neither. The pool has room for the profile, and the  *)
(* handoff is off: on_release lifts the first finger only.                 *)
THEOREM AimIsMatched ==
  ASSUME Room, OneFinger
  PROVE  Spec => []AimMatchesFinger
<1>1. ASSUME IInv, Tight(eng)
      PROVE  AimMatchesFinger
  <2>1. AimHasFinger
    BY <1>1 DEF Tight, AimPart, AimHasFinger
  <2>2. IdOf(eng, SecondKey) = NoId
    BY <1>1 DEF Tight, AimPart, IInv, Sound, AimTracked
  <2>3. NoAimFingerAfterRelease
    BY <1>1, <2>2 DEF IInv, Sound, ToggleHeld, NoAimFingerAfterRelease
  <2> QED BY <2>1, <2>3 DEF AimMatchesFinger
<1>2. IInv /\ Tight(eng) => AimMatchesFinger
  BY <1>1
<1> QED BY InvariantHolds, TightHolds, <1>2, PTL

(* The frame that presses a finger does not move it, so the app sees the   *)
(* press where it happened. With room, and on the paths that defer the     *)
(* motion after a press of the aim finger.                                 *)
THEOREM PressesAreAlone ==
  ASSUME Room, Deferred
  PROVE  Spec => []PressAloneInFrame
<1>1. OneFinger
  BY DEF OneFinger, Deferred
<1>2. Spec => []Tight(eng)
  BY <1>1, TightHolds
<1>3. Init => Alone(eng)
  BY InitReaches
<1>4. ASSUME IInv, Tight(eng), Alone(eng), [Next]_vars
      PROVE  Alone(eng)'
  <2>1. CASE Next
    BY <1>4, <2>1, StepReaches DEF Reaches
  <2>2. CASE UNCHANGED vars
    BY <1>4, <2>2 DEF vars
  <2> QED BY <1>4, <2>1, <2>2
<1>5. IInv /\ Tight(eng) /\ Alone(eng) /\ [Next]_vars => Alone(eng)'
  BY <1>4
<1>6. Alone(eng) => PressAloneInFrame
  BY DEF Alone, PressAloneInFrame
<1> QED BY InvariantHolds, <1>2, <1>3, <1>5, <1>6, PTL DEF Spec
=============================================================================
