------------------------------- MODULE Engine -------------------------------
(***************************************************************************)
(* The mapping engine of crates/liw-input/src/engine.rs, driven the way    *)
(* the select! loop of runner.rs drives it: one arm of the loop produces   *)
(* one batch of touch actions, and the batch is dispatched as one frame    *)
(* (one SYN_REPORT).                                                       *)
(*                                                                         *)
(* The engine is one record, eng, because its handlers are compositions of *)
(* helpers (a tick runs six of them); every helper is an operator from an  *)
(* engine to an engine. eng.acts collects the actions of the frame, one    *)
(* sequence per pointer id: actions on different ids commute inside a      *)
(* frame, so only the order on each id is kept.                            *)
(*                                                                         *)
(* Data the properties do not tell apart is abstracted: coordinates to the *)
(* zone the aim finger is in, mouse motion to "zero or not", the clock to  *)
(* "the deadline has passed or not", both chosen by the environment.       *)
(***************************************************************************)
EXTENDS PointerPool, Sequences

CONSTANTS
  Names,          \* the binding names of the profile
  SecondKey,      \* second_key(aim): the pool key of the handoff finger
  Triggers,       \* keys, mouse buttons and wheel directions
  MouseTriggers,  \* those that arrive on the mouse stream
  WheelTriggers,  \* those of MouseTriggers that are never released
  Profile,        \* Names -> [kind, triggers, group]
  Dir,            \* Triggers -> the joystick direction a key stands for
  Unbounded,      \* is any Aim `unbounded', and the backend off-screen capable
  Handoff,        \* the Aim binding's handoff option
  NoName, NoGroup

Kinds == {"tap", "toggle", "joystick", "aim", "swipe"}
Of(kind) == {n \in Names : Profile[n].kind = kind}
Swipes == Of("swipe")
Joysticks == Of("joystick")
HoldBindings == Of("tap") \cup Of("toggle")

ASSUME ProfileAssumption ==
  /\ Keys = Names \cup {SecondKey} /\ SecondKey \notin Names /\ NoName \notin Names
  /\ MouseTriggers \subseteq Triggers /\ WheelTriggers \subseteq MouseTriggers
  /\ \A n \in Names : /\ Profile[n].kind \in Kinds
                      /\ Profile[n].triggers \subseteq Triggers
  /\ Dir \in [Triggers -> {"up", "down", "left", "right", "none"}]
  /\ Unbounded \in BOOLEAN /\ Handoff \in BOOLEAN

(* Only a joystick has several triggers (Binding::triggers), and           *)
(* Profile::validate refuses a trigger that two bindings use. It does not  *)
(* refuse a second Aim; the model has one (see the README).                *)
ASSUME ValidatedProfile ==
  /\ \A n \in Names \ Joysticks : \A s, t \in Profile[n].triggers : s = t
  /\ \A m, n \in Names : m # n => Profile[m].triggers \cap Profile[n].triggers = {}
  /\ \A m, n \in Of("aim") : m = n

AimName == IF Of("aim") = {} THEN NoName ELSE CHOOSE n \in Names : Profile[n].kind = "aim"
AimHasToggle == AimName # NoName /\ Profile[AimName].triggers # {}

(* owner(): the binding a trigger belongs to.                              *)
Owner(t) ==
  IF \E n \in Names : t \in Profile[n].triggers
  THEN CHOOSE n \in Names : t \in Profile[n].triggers
  ELSE NoName

(* Where the aim finger is, as far as the thresholds of the code tell:     *)
(* near the origin, beyond the idle threshold (FAR), beyond PREPARE (or,   *)
(* unbounded, beyond half the safety box).                                 *)
Zones == {"centre", "drift", "far"}
NoPos == "none"

Still == <<0, 0>>
Vectors == {-1, 0, 1} \X {-1, 0, 1}
Acts == {"Down", "Move", "Up"}
NoActs == [i \in Ids |-> <<>>]

VARIABLES
  eng,     \* the engine and the actions of its last frame
  screen,  \* the ids that are down at the receiver of the frames
  down,    \* the triggers physically held by the user
  arm      \* the arm of the runner's loop that produced the frame

vars == <<eng, screen, down, arm>>

NewEngine ==
  [pool |-> NewPool, held |-> {}, swipe |-> [n \in Names |-> NoId],
   joyPending |-> NoName, aimPos |-> NoPos, second |-> FALSE,
   aimPending |-> FALSE, aimAccum |-> FALSE, aimDownAt |-> FALSE,
   enabled |-> TRUE, stick |-> [n \in Names |-> Still], acts |-> NoActs]

Engines ==
  [pool : Pools, held : SUBSET Triggers, swipe : [Names -> Ids \cup {NoId}],
   joyPending : Names \cup {NoName}, aimPos : Zones \cup {NoPos},
   second : BOOLEAN, aimPending : BOOLEAN, aimAccum : BOOLEAN,
   aimDownAt : BOOLEAN, enabled : BOOLEAN, stick : [Names -> Vectors],
   acts : [Ids -> Seq(Acts)]]

IdOf(e, k) == e.pool.assigned[k]

----------------------------------------------------------------------------
(* Building blocks: actions pushed on the frame, with their pool call.     *)

Emit(e, a, I) ==
  [e EXCEPT !.acts = [i \in Ids |-> IF i \in I THEN Append(e.acts[i], a) ELSE e.acts[i]]]

(* pool.acquire(k) followed by Down, the `Some(id)' arm of the code.       *)
Touch(e, k) ==
  LET id == AcquiredId(e.pool, k) IN
  IF id = NoId THEN e
  ELSE Emit([e EXCEPT !.pool = Acquire(@, k)], "Down", {id})

(* pool.release(k).map(Up) for every k of K.                               *)
Lift(e, K) ==
  Emit([e EXCEPT !.pool = Release(@, K),
                 !.stick = [n \in Names |-> IF n \in K THEN Still ELSE @[n]]],
       "Up", {IdOf(e, k) : k \in K} \ {NoId})

(* Mutant of EndSwipes: without retain.                                    *)
EndSwipesKeepingEntries(e, S) ==
  Emit([e EXCEPT !.pool = Release(@, S)], "Up", {e.swipe[n] : n \in S} \ {NoId})

(* Up of a playing swipe's own id, then pool.release and retain.           *)
EndSwipes(e, S) ==
  Emit([e EXCEPT !.pool = Release(@, S),
                 !.swipe = [n \in Names |-> IF n \in S THEN NoId ELSE @[n]]],
       "Up", {e.swipe[n] : n \in S} \ {NoId})

Playing(e) == {n \in Swipes : e.swipe[n] # NoId}

----------------------------------------------------------------------------
(* Joystick.                                                               *)

HeldDir(e, j, d) == IF \E t \in e.held \cap Profile[j].triggers : Dir[t] = d THEN 1 ELSE 0

(* The direction the held keys add up to; opposite keys cancel.            *)
Net(e, j) == <<HeldDir(e, j, "right") - HeldDir(e, j, "left"),
               HeldDir(e, j, "down") - HeldDir(e, j, "up")>>

(* recompute_joystick returns no action.                                   *)
NoJoystickAct(e, j) == Net(e, j) = Still \/ AcquiredId(e.pool, j) = NoId

(* Mutant of RecomputeJoystick: the direction is never applied after the   *)
(* press.                                                                  *)
RecomputeJoystickWithoutPending(e, j) ==
  IF NoJoystickAct(e, j) THEN e
  ELSE IF IdOf(e, j) = NoId THEN Touch([e EXCEPT !.stick[j] = Still], j)
       ELSE Emit([e EXCEPT !.stick[j] = Net(e, j)], "Move", {IdOf(e, j)})

(* The finger goes down at the centre first; the direction is applied by   *)
(* the next tick.                                                          *)
RecomputeJoystick(e, j) ==
  IF NoJoystickAct(e, j) THEN e
  ELSE IF IdOf(e, j) = NoId
       THEN Touch([e EXCEPT !.joyPending = j, !.stick[j] = Still], j)
       ELSE Emit([e EXCEPT !.stick[j] = Net(e, j)], "Move", {IdOf(e, j)})

PendingJoystick(e) ==
  IF e.joyPending = NoName THEN e
  ELSE RecomputeJoystick([e EXCEPT !.joyPending = NoName], e.joyPending)

----------------------------------------------------------------------------
(* Key presses and releases.                                               *)

PressAim(e, n) == Touch([e EXCEPT !.aimDownAt = FALSE, !.aimPos = "centre"], n)

SameGroup(m, n) == Profile[n].group # NoGroup /\ Profile[m].group = Profile[n].group

(* A playing swipe is not restarted; the playing swipes of its group are   *)
(* lifted where they are before the new one goes down.                     *)
PressSwipe(e, n) ==
  IF e.swipe[n] # NoId THEN e
  ELSE LET c == EndSwipes(e, {m \in Playing(e) : SameGroup(m, n)})
       IN  [Touch(c, n) EXCEPT !.swipe[n] = AcquiredId(c.pool, n)]

OnPress(e, t) ==
  LET n == Owner(t)
      h == [e EXCEPT !.held = @ \cup {t}]
  IN  IF t \in e.held THEN e
      ELSE IF n = NoName THEN h
      ELSE CASE n \in HoldBindings -> Touch(h, n)
             [] n \in Joysticks    -> RecomputeJoystick(h, n)
             [] n \in Swipes       -> PressSwipe(h, n)
             [] OTHER              -> PressAim(h, n)

(* Mutant of ReleaseJoystick: the finger is not lifted.                    *)
ReleaseJoystickWithoutLift(e, n) == RecomputeJoystick(e, n)

ReleaseJoystick(e, n) ==
  IF NoJoystickAct(e, n) THEN Lift(e, {n}) ELSE RecomputeJoystick(e, n)

(* Mutant of ReleaseAim: the delayed press is not cancelled.               *)
ReleaseAimKeepingDeadline(e, n) ==
  Lift([e EXCEPT !.aimPos = NoPos, !.aimAccum = FALSE], {n})

ReleaseAim(e, n) ==
  Lift([e EXCEPT !.aimDownAt = FALSE, !.aimPos = NoPos, !.aimAccum = FALSE], {n})

OnRelease(e, t) ==
  LET n == Owner(t)
      h == [e EXCEPT !.held = @ \ {t}]
  IN  IF t \notin e.held THEN e
      ELSE IF n = NoName THEN h
      ELSE CASE n \in HoldBindings -> Lift(h, {n})
             [] n \in Joysticks    -> ReleaseJoystick(h, n)
             [] n \in Swipes       -> h
             [] OTHER              -> ReleaseAim(h, n)

----------------------------------------------------------------------------
(* The tick. Its input c is what the environment decides:                  *)
(*   c.late  have the deadlines (delayed press, idle time) passed,         *)
(*   c.move  what the accumulated motion amounts to: "dead" (below the     *)
(*           dead zone), "in" (stays inside the margin, ends in c.zone),   *)
(*           "edge" (leaves it, with a part that still applies) or "jump"  *)
(*           (leaves it from the very edge),                               *)
(*   c.adv   how far each swipe got: no new step, a step, the last step.   *)

NoMotion == [move : {"dead"}, zone : {"centre"}]
Motions == NoMotion \cup [move : {"in", "edge", "jump"}, zone : Zones]
Progress == {"stay", "step", "final"}
Outside(c) == c.move \in {"edge", "jump"}

(* reconcile_pointers: lift a Tap or Toggle finger whose key is not held.  *)
Reconcile(e) ==
  Lift(e, {n \in HoldBindings : IdOf(e, n) # NoId /\ Profile[n].triggers \cap e.held = {}})

(* The press that follows a lift by reset_delay_ms.                        *)
DelayedPress(e, c) ==
  IF ~c.late THEN e
  ELSE LET f == [e EXCEPT !.aimDownAt = FALSE] IN
       IF AimName = NoName THEN f
       ELSE IF AcquiredId(f.pool, AimName) = NoId THEN f
       ELSE Touch([f EXCEPT !.aimPos = "centre"], AimName)

(* The lift half of a reset; the press half is DelayedPress.               *)
LiftForReset(e) == Lift([e EXCEPT !.aimPos = NoPos, !.aimDownAt = TRUE], {AimName})

(* apply_aim_delta: the deferred motion, clamped and never a reset.        *)
ApplyAimDelta(e, c) ==
  IF AimName = NoName THEN e
  ELSE IF e.aimPos = NoPos \/ IdOf(e, AimName) = NoId THEN e
  ELSE Emit([e EXCEPT !.aimPos = c.zone], "Move", {IdOf(e, AimName)})

(* on_mouse_free: the first motion presses and defers itself.              *)
MoveFree(e, c) ==
  IF e.aimPos = NoPos
  THEN IF e.aimDownAt \/ AcquiredId(e.pool, AimName) = NoId THEN e
       ELSE Touch([e EXCEPT !.aimPos = "centre", !.aimPending = TRUE], AimName)
  ELSE IF IdOf(e, AimName) = NoId THEN e
  ELSE Emit([e EXCEPT !.aimPos = c.zone], "Move", {IdOf(e, AimName)})

(* Mutant of PrepareSecond: aim_second.is_none() is not asked.             *)
PrepareSecondAgain(e) ==
  IF e.aimPos = "far"
  THEN [Touch(e, SecondKey) EXCEPT !.second = AcquiredId(e.pool, SecondKey) # NoId]
  ELSE e

(* Handoff: a second finger is prepared once the first is far out.         *)
PrepareSecond(e) ==
  IF e.aimPos = "far" /\ ~e.second
  THEN [Touch(e, SecondKey) EXCEPT !.second = AcquiredId(e.pool, SecondKey) # NoId]
  ELSE e

MoveSecond(e) ==
  IF e.second /\ IdOf(e, SecondKey) # NoId
  THEN Emit(e, "Move", {IdOf(e, SecondKey)}) ELSE e

(* Mutant of TakeOver: rename without the release before it.               *)
TakeOverWithoutRelease(e, c) ==
  [Emit(e, "Up", {IdOf(e, AimName)}) EXCEPT
     !.pool = Rename(@, SecondKey, AimName), !.second = FALSE, !.aimPos = c.zone]

(* The first finger lifts and the second takes its name over.              *)
TakeOver(e, c) ==
  [Lift(e, {AimName}) EXCEPT
     !.pool = Rename(@, SecondKey, AimName), !.second = FALSE, !.aimPos = c.zone]

(* No second finger yet: swap the slot in one frame, motion deferred.      *)
RotateAim(e) ==
  IF ~CanRotate(e.pool, AimName) THEN e
  ELSE LET old == IdOf(e, AimName)
           r   == [e EXCEPT !.pool = Rotate(@, AimName),
                            !.aimPos = "centre", !.aimPending = TRUE]
       IN  Emit(Emit(r, "Up", {old}), "Down", {IdOf(r, AimName)})

MoveHandoff(e, c) ==
  LET s == MoveSecond(PrepareSecond(e)) IN
  IF ~Outside(c) THEN Emit([s EXCEPT !.aimPos = c.zone], "Move", {IdOf(s, AimName)})
  ELSE IF s.second THEN TakeOver(s, c) ELSE RotateAim(s)

(* The simple bounded path: at the margin, lift now and press later.       *)
MoveBounded(e, c) ==
  IF ~Outside(c) THEN Emit([e EXCEPT !.aimPos = c.zone], "Move", {IdOf(e, AimName)})
  ELSE LiftForReset(IF c.move = "edge" THEN Emit(e, "Move", {IdOf(e, AimName)}) ELSE e)

(* The bounded part of on_mouse: without a toggle the first motion         *)
(* presses, and the same call goes on to move.                             *)
MoveOnScreen(e, c) ==
  IF e.aimPos = NoPos /\ (AimHasToggle \/ AcquiredId(e.pool, AimName) = NoId) THEN e
  ELSE LET p == IF e.aimPos = NoPos
                THEN Touch([e EXCEPT !.aimPos = "centre"], AimName) ELSE e
       IN  IF IdOf(p, AimName) = NoId THEN p
           ELSE IF Handoff THEN MoveHandoff(p, c) ELSE MoveBounded(p, c)

OnMouse(e, c) ==
  IF AimName = NoName \/ c.move = "dead" THEN e
  ELSE IF ~Unbounded THEN MoveOnScreen(e, c)
  ELSE IF AimHasToggle /\ e.aimPos = NoPos THEN e
  ELSE MoveFree(e, c)

Drifted(e) == e.aimPos \in (IF Unbounded THEN {"far"} ELSE {"drift", "far"})

IdleRecenter(e, c) ==
  IF AimName = NoName THEN e
  ELSE IF ~c.late \/ ~Drifted(e) \/ IdOf(e, AimName) = NoId THEN e
  ELSE LiftForReset([e EXCEPT !.aimAccum = FALSE])

(* One of: the deferred motion, the accumulated motion, idle recentring.   *)
AimStep(e, c) ==
  CASE e.aimPending -> ApplyAimDelta([e EXCEPT !.aimPending = FALSE, !.aimAccum = FALSE], c)
    [] ~e.aimPending /\ e.aimAccum -> OnMouse([e EXCEPT !.aimAccum = FALSE], c)
    [] OTHER -> IdleRecenter(e, c)

(* Every playing swipe: nothing, a Move, or its last Move and the Up.      *)
SwipeSteps(e, c) ==
  LET stepped == {n \in Playing(e) : c.adv[n] # "stay"}
      last    == {n \in Playing(e) : c.adv[n] = "final"}
  IN  EndSwipes(Emit(e, "Move", {e.swipe[n] : n \in stepped}), last)

(* Mutant of Tick: after the delayed press it goes on to the aim.          *)
TickWithoutEarlyReturn(e, c) ==
  IF ~e.enabled THEN e
  ELSE LET r == Reconcile(PendingJoystick(e))
           d == IF r.aimDownAt THEN DelayedPress(r, c) ELSE r
       IN  SwipeSteps(AimStep(d, c), c)

Tick(e, c) ==
  IF ~e.enabled THEN e
  ELSE LET r == Reconcile(PendingJoystick(e)) IN
       IF r.aimDownAt
       THEN SwipeSteps(PendingJoystick(DelayedPress(r, c)), c)
       ELSE SwipeSteps(AimStep(r, c), c)

(* Mutants of HasPending: each forgets one kind of pending work.           *)
HasPendingWithoutSwipes(e) ==
  e.aimPending \/ e.joyPending # NoName \/ e.aimPos # NoPos \/ e.aimDownAt \/ e.aimAccum
HasPendingWithoutDeadline(e) ==
  \/ Playing(e) # {}
  \/ e.aimPending \/ e.joyPending # NoName \/ e.aimPos # NoPos \/ e.aimAccum
HasPendingWithoutStick(e) ==
  \/ Playing(e) # {}
  \/ e.aimPending \/ e.aimPos # NoPos \/ e.aimDownAt \/ e.aimAccum

HasPending(e) ==
  \/ Playing(e) # {}
  \/ e.aimPending \/ e.joyPending # NoName
  \/ e.aimPos # NoPos \/ e.aimDownAt \/ e.aimAccum

----------------------------------------------------------------------------
(* handle() and set_enabled().                                             *)

Press(e, t) == IF e.enabled THEN OnPress(e, t) ELSE e
Unpress(e, t) == IF e.enabled THEN OnRelease(e, t) ELSE e
(* Motion adds up, and may cancel to zero.                                 *)
Motion(e, nonzero) == IF e.enabled THEN [e EXCEPT !.aimAccum = nonzero] ELSE e

Disable(e) ==
  IF ~e.enabled THEN e
  ELSE [Emit(e, "Up", HeldIds(e.pool)) EXCEPT
          !.enabled = FALSE, !.held = {}, !.aimPos = NoPos, !.aimPending = FALSE,
          !.aimAccum = FALSE, !.aimDownAt = FALSE, !.second = FALSE,
          !.joyPending = NoName, !.swipe = [n \in Names |-> NoId],
          !.stick = [n \in Names |-> Still], !.pool = NewPool]

Enable(e) == [e EXCEPT !.enabled = TRUE]

----------------------------------------------------------------------------
(* The runner's arms.                                                      *)

(* The inputs a tick of engine e can have: a motion counts only if there   *)
(* is one, progress only for the swipes that play.                         *)
Choices(e) ==
  {[late |-> l, move |-> m.move, zone |-> m.zone, adv |-> a] :
     l \in BOOLEAN,
     m \in IF e.aimAccum \/ e.aimPending THEN Motions ELSE NoMotion,
     a \in [Playing(e) -> Progress]}

(* Is the finger down after the actions s, if it was (or was not) before?  *)
After(s, before) == IF s = <<>> THEN before ELSE s[Len(s)] # "Up"

Fresh(e) == [e EXCEPT !.acts = NoActs]

(* The arm's batch is dispatched as one frame.                             *)
Dispatch(a, e) ==
  /\ eng' = e
  /\ screen' = {i \in Ids : After(e.acts[i], i \in screen)}
  /\ arm' = a

(* ticker.tick(), gated by has_pending.                                    *)
Ticker ==
  /\ HasPending(eng)
  /\ \E c \in Choices(eng) : Dispatch("ticker", Tick(Fresh(eng), c))
  /\ UNCHANGED down

(* The keyboard stream: tick and handle share one frame.                   *)
KeyPress(t) ==
  /\ t \in Triggers \ (MouseTriggers \cup down)
  /\ \E c \in Choices(eng) : Dispatch("keyboard", Press(Tick(Fresh(eng), c), t))
  /\ down' = down \cup {t}

KeyRelease(t) ==
  /\ t \in down \ MouseTriggers
  /\ \E c \in Choices(eng) : Dispatch("keyboard", Unpress(Tick(Fresh(eng), c), t))
  /\ down' = down \ {t}

(* The mouse stream: handle only. A wheel notch is a press without a       *)
(* release, so it never counts as physically held.                         *)
MousePress(t) ==
  /\ t \in MouseTriggers \ down
  /\ Dispatch("mouse", Press(Fresh(eng), t))
  /\ down' = IF t \in WheelTriggers THEN down ELSE down \cup {t}

MouseRelease(t) ==
  /\ t \in down \cap MouseTriggers
  /\ Dispatch("mouse", Unpress(Fresh(eng), t))
  /\ down' = down \ {t}

MouseMotion ==
  /\ \E nonzero \in (IF eng.aimAccum THEN BOOLEAN ELSE {TRUE}) :
       Dispatch("mouse", Motion(Fresh(eng), nonzero))
  /\ UNCHANGED down

(* Focus lost, game mode off, overlay: set_enabled(false), Ups dispatched, *)
(* and the engine is dropped. The user's hands keep moving meanwhile.      *)
Stop ==
  /\ eng.enabled
  /\ Dispatch("stop", Disable(Fresh(eng)))
  /\ UNCHANGED down

(* Focus regained, game mode on: a new engine.                             *)
Rebuild ==
  /\ ~eng.enabled
  /\ Dispatch("rebuild", NewEngine)
  /\ UNCHANGED down

(* Mutant of RenewPipe: the engine keeps its fingers.                      *)
RenewPipeKeepingFingers ==
  /\ eng.enabled
  /\ eng' = Fresh(eng)
  /\ screen' = {} /\ arm' = "renew"
  /\ UNCHANGED down

(* The pipe was reopened: the receiver forgot every touch, the Ups of      *)
(* set_enabled(false) are thrown away and the same engine goes on.         *)
RenewPipe ==
  /\ eng.enabled
  /\ eng' = Fresh(Enable(Disable(Fresh(eng))))
  /\ screen' = {} /\ arm' = "renew"
  /\ UNCHANGED down

Init == eng = NewEngine /\ screen = {} /\ down = {} /\ arm = "rebuild"

Next ==
  \/ Ticker
  \/ \E t \in Triggers : KeyPress(t) \/ KeyRelease(t) \/ MousePress(t) \/ MouseRelease(t)
  \/ MouseMotion
  \/ Stop \/ Rebuild \/ RenewPipe

Spec == Init /\ [][Next]_vars

(* Time passes: the 5 ms ticker keeps firing while something is pending,   *)
(* and sooner or later a tick finds every deadline behind it. Such a tick  *)
(* always changes the engine when one of the following is outstanding, so  *)
(* TickFairness is the weak fairness of LateTick with ENABLED spelled out. *)
Outstanding(e) ==
  \/ Playing(e) # {} \/ e.joyPending # NoName
  \/ e.aimPending \/ e.aimDownAt \/ e.aimAccum

LateTick ==
  /\ HasPending(eng) /\ Outstanding(eng)
  /\ \E c \in Choices(eng) :
       /\ c.late /\ \A n \in Playing(eng) : c.adv[n] = "final"
       /\ Dispatch("ticker", Tick(Fresh(eng), c))
  /\ UNCHANGED down

TickFairness ==
  []<>~(HasPending(eng) /\ Outstanding(eng)) \/ []<><<LateTick>>_vars

FairSpec == Spec /\ TickFairness

----------------------------------------------------------------------------
(* Properties.                                                             *)

(* The types of the record's fields; in particular every id is a slot.     *)
TypeOK ==
  /\ eng \in Engines
  /\ screen \subseteq Ids
  /\ down \subseteq Triggers
  /\ arm \in {"ticker", "keyboard", "mouse", "stop", "rebuild", "renew"}

(* The pool's two fields agree, and the fingers the receiver sees down are *)
(* exactly the ids the pool counts as used, after whatever sequence of     *)
(* presses, ticks, cancelled gestures, handoffs and rebuilds: no finger    *)
(* the engine has forgotten and no id held for a finger that is up.        *)
FingersMatchPool ==
  /\ Consistent(eng.pool)
  /\ screen = {i \in Ids : eng.pool.inUse[i]}

(* A legal run of actions on one id: down only when up, the rest only when *)
(* down.                                                                   *)
Legal(s, before) ==
  \A k \in DOMAIN s : (s[k] = "Down") <=> ~(IF k = 1 THEN before ELSE s[k - 1] # "Up")

(* No frame presses a finger that is down, or moves or lifts one that is   *)
(* up.                                                                     *)
LegalFrames == [][\A i \in Ids : Legal(eng'.acts[i], i \in screen)]_vars

(* The comments of on_press (480-482) and on_release (544-545): a delayed  *)
(* press is never due while an aim finger is down, an aim finger always    *)
(* has a position, and the second finger's flag and its pointer agree.     *)
AimFingerTracked ==
  /\ AimName # NoName /\ IdOf(eng, AimName) # NoId =>
       eng.aimPos # NoPos /\ ~eng.aimDownAt
  /\ eng.second <=> IdOf(eng, SecondKey) # NoId

(* Every finger is accounted for: the three together.                      *)
FingersAccounted == TypeOK /\ FingersMatchPool /\ AimFingerTracked

(* A playing swipe's stored id is the pointer the pool gave its binding,   *)
(* so its Moves and its Up never go to somebody else's finger.             *)
SwipeOwnsItsFinger == \A n \in Swipes : eng.swipe[n] = IdOf(eng, n)

(* No Tap, Toggle or Joystick finger outlives the keys that put it down.   *)
FingerNeedsAHeldKey ==
  \A n \in HoldBindings \cup Joysticks :
    IdOf(eng, n) # NoId => Profile[n].triggers \cap eng.held # {}

(* Once the deferred direction was applied, a joystick finger stands where *)
(* the held keys point, if they point anywhere (recompute_joystick).       *)
StickFollowsKeys ==
  \A j \in Joysticks :
    IdOf(eng, j) # NoId /\ eng.joyPending # j /\ Net(eng, j) # Still =>
      eng.stick[j] = Net(eng, j)

(* A frame that presses a finger does not move it as well, or the app      *)
(* cannot compute a delta (the comment on aim_pending).                    *)
Follows(s, a, b) == \E j, k \in DOMAIN s : j < k /\ s[j] = a /\ s[k] = b
PressAloneInFrame == \A i \in Ids : ~Follows(eng.acts[i], "Down", "Move")

(* A frame never lifts and presses the same slot (the comment on rotate:   *)
(* the lift would be lost and the finger would teleport).                  *)
NoSlotReuse == \A i \in Ids : ~Follows(eng.acts[i], "Up", "Down")

(* Motion that arrives while a reset is in flight waits for the press      *)
(* ("The accumulated motion is kept for the next frame").                  *)
MotionSurvivesReset ==
  [][arm' = "ticker" /\ eng.aimDownAt /\ eng.aimAccum => eng'.aimAccum]_vars

(* With the aim toggle up, no aim finger is on the screen ("leaves an      *)
(* orphaned touch hanging in the game", on_release).                       *)
NoAimFingerAfterRelease ==
  AimHasToggle /\ Profile[AimName].triggers \cap eng.held = {} =>
    IdOf(eng, AimName) = NoId /\ IdOf(eng, SecondKey) = NoId

(* An aim position without a finger makes the mouse dead (idle_recenter    *)
(* and on_mouse then do nothing): it needs a full pool.                    *)
AimHasFinger == eng.aimPos # NoPos => IdOf(eng, AimName) # NoId

(* The aim position and the aim finger come and go together.               *)
AimMatchesFinger == AimHasFinger /\ NoAimFingerAfterRelease

(* A wheel notch is a press "the caller must pair with an immediate        *)
(* release" (translate in capture.rs): no arm leaves its trigger held.     *)
WheelIsReleased == WheelTriggers \cap eng.held = {}

(* has_pending keeps the ticker alive until the delayed press of a reset   *)
(* has happened.                                                           *)
DelayedPressHappens == eng.aimDownAt ~> ~eng.aimDownAt

(* It keeps the ticker alive until every swipe has ended and lifted.       *)
SwipesEnd == \A n \in Swipes : eng.swipe[n] # NoId ~> eng.swipe[n] = NoId

(* The deferred direction of a stick is applied, also while the aim resets *)
(* (the ticks that find a reset in flight return early).                   *)
StickSettles == \A j \in Joysticks : eng.joyPending = j ~> eng.joyPending # j
=============================================================================
