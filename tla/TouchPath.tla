----------------------------- MODULE TouchPath -----------------------------
(***************************************************************************)
(* The mouse as a finger: a game window's pointer handlers (liw-ui's       *)
(* game.rs and touch.rs), the wl_touch backend they write to, the task     *)
(* that opens the touch pipe again, the helper that opens it (liwd-helper, *)
(* as root and behind polkit), and Android's side of the FIFO.             *)
(*                                                                         *)
(* Every hotplug of the display makes a new FIFO; a FIFO is known by its   *)
(* generation. The mouse owns one slot, so a record puts or lifts it;      *)
(* what the key mapper and hwcomposer write only takes up room. Positions  *)
(* are inside the picture or beside it.                                    *)
(***************************************************************************)
EXTENDS Naturals, Sequences

CONSTANTS
  FifoCap,       \* frames a FIFO holds
  MaxHotplugs    \* bound: hotplugs of the display

ASSUME BoundsAssumption == FifoCap \in Nat \ {0} /\ MaxHotplugs \in Nat

NoPipe == 0

VARIABLES
  button,     \* the left button: "up", "held" (over the picture or beside
              \* it), or "gone": let go where the window did not hear of it
  editing,    \* the mapping editor is on: nobody listens to the mouse
  window,     \* "open" or "closed"
  pipe,       \* generation of the FIFO the backend writes to, or NoPipe
  slotDown,   \* the backend's record of the slot
  down,       \* Touch.down
  opener,     \* where the task that opens pipes, or the helper for it, is
  got,        \* generation the helper found, then the one it opened
  allowed,    \* there is a helper, and polkit lets us
  container,  \* "down", "booting" (no FIFO yet) or "up"
  gen, fifo,  \* the FIFO there is now
  finger,     \* the slot is down in Android
  lost        \* history: a frame lifting the finger found the FIFO full

mouse   == <<button, editing, window>>
touch   == <<pipe, slotDown, down>>
task    == <<opener, got, allowed>>
android == <<container, gen, fifo, finger>>
touchVars == <<mouse, touch, task, android, lost>>

----------------------------------------------------------------------------
(* liw-input/src/wl_touch.rs and liw-ui/src/touch.rs, as operators on      *)
(* t = [pipe, slot, down, fifo, lost].                                     *)

Touch == [pipe |-> pipe, slot |-> slotDown, down |-> down, fifo |-> fifo, lost |-> lost]

(* Nobody reads the FIFO the descriptor belongs to: EPIPE.                 *)
Broken(t) == t.pipe # gen \/ container # "up"

(* Mutant of Dispatch: EPIPE is an error like any other, and the pipe      *)
(* stays.                                                                  *)
DispatchKeepingPipe(t, what) ==
  LET s == [t EXCEPT !.slot = what = "put"] IN
  IF t.pipe = NoPipe THEN t
  ELSE IF Broken(t) THEN s
  ELSE IF Len(t.fifo) = FifoCap THEN [s EXCEPT !.lost = @ \/ what = "lift"]
  ELSE [s EXCEPT !.fifo = Append(@, what)]

(* send and dispatch: no backend, no write; EPIPE drops the backend, and   *)
(* its fingers are forgotten; a full FIFO drops the frame and says Ok.     *)
Dispatch(t, what) ==
  LET s == [t EXCEPT !.slot = what = "put"] IN
  IF t.pipe = NoPipe THEN t
  ELSE IF Broken(t) THEN [s EXCEPT !.pipe = NoPipe, !.slot = FALSE, !.down = FALSE]
  ELSE IF Len(t.fifo) = FifoCap THEN [s EXCEPT !.lost = @ \/ what = "lift"]
  ELSE [s EXCEPT !.fifo = Append(@, what)]

Release(t) == IF t.down THEN [Dispatch(t, "lift") EXCEPT !.down = FALSE] ELSE t

(* A second press lifts first; a press that could not be sent is none.     *)
Press(t) ==
  LET s == Dispatch(Release(t), "put") IN [s EXCEPT !.down = s.pipe # NoPipe]

Drag(t) == IF t.down THEN Dispatch(t, "put") ELSE t

(* The backend lifts what its slots say; the answer is ignored, so a       *)
(* broken pipe stays.                                                      *)
ReleaseAll(t) ==
  [(IF t.slot /\ ~Broken(t) THEN Dispatch(t, "lift") ELSE t)
     EXCEPT !.slot = FALSE, !.down = FALSE]

Becomes(t) ==
  /\ pipe' = t.pipe /\ slotDown' = t.slot /\ down' = t.down
  /\ fifo' = t.fifo /\ lost' = t.lost
  /\ UNCHANGED <<task, container, gen, finger>>

----------------------------------------------------------------------------
(* The pointer over the window.                                            *)

Playing == window = "open" /\ ~editing

MouseDown(t) ==
  /\ Playing /\ button \in {"up", "gone"}
  /\ button' = "held"
  /\ Becomes(t)
  /\ UNCHANGED <<editing, window>>

MouseDownInside == MouseDown(Press(Touch))

(* Beside the picture, where to_norm has no position.                      *)
MouseDownBeside == MouseDown(Touch)

MouseDrag ==
  /\ Playing /\ button = "held"
  /\ Becomes(Drag(Touch))
  /\ UNCHANGED mouse

(* A move that says the button is up: it was let go outside of the window. *)
MouseMove ==
  /\ Playing /\ button = "gone"
  /\ button' = "up"
  /\ Becomes(Release(Touch))
  /\ UNCHANGED <<editing, window>>

(* Mutant of MouseUp: only a release over the picture is heard.            *)
MouseUpInside ==
  /\ Playing /\ button = "held"
  /\ button' = "up"
  /\ Becomes(Release(Touch)) \/ Becomes(Touch)
  /\ UNCHANGED <<editing, window>>

(* Over the picture (on_mouse_up) or elsewhere in the window               *)
(* (on_mouse_up_out).                                                      *)
MouseUp ==
  /\ Playing /\ button = "held"
  /\ button' = "up"
  /\ Becomes(Release(Touch))
  /\ UNCHANGED <<editing, window>>

(* Let go outside of the window: no event at all.                          *)
MouseUpUnheard ==
  /\ window = "open" /\ button = "held"
  /\ button' = "gone"
  /\ Becomes(Touch)
  /\ UNCHANGED <<editing, window>>

(* A click on the rail; when the picture listens, its release is heard     *)
(* before the rail's own handler runs.                                     *)
ToggleEditing ==
  /\ window = "open" /\ button \in {"up", "gone"}
  /\ button' = "up" /\ editing' = ~editing
  /\ Becomes(IF editing THEN Touch ELSE Release(Touch))
  /\ UNCHANGED window

(* on_release; the button does not matter any more.                        *)
CloseWindow ==
  /\ window = "open"
  /\ window' = "closed"
  /\ Becomes(ReleaseAll(Touch))
  /\ UNCHANGED <<button, editing>>

----------------------------------------------------------------------------
(* open_touch_pipe: the window's task, every two seconds, and the helper.  *)

Opener(from, to) ==
  /\ opener = from /\ opener' = to
  /\ UNCHANGED <<allowed, mouse, android, lost>>

Ask ==
  /\ window = "open" /\ pipe = NoPipe
  /\ Opener("sleeping", IF allowed THEN "asked" ELSE "sleeping")
  /\ UNCHANGED <<got, touch>>

(* container_pid: surfaceflinger's, there as soon as the container is.     *)
FindContainer ==
  /\ Opener("asked", IF container = "down" THEN "sleeping" ELSE "found")
  /\ UNCHANGED <<got, touch>>

(* display_px: no size before the first hotplug.                           *)
ReadSize ==
  /\ Opener("found", IF container = "up" THEN "sized" ELSE "sleeping")
  /\ UNCHANGED <<got, touch>>

(* The open fails without a reader (ENXIO).                                *)
OpenFifo ==
  /\ Opener("sized", IF container = "up" THEN "opened" ELSE "sleeping")
  /\ got' = IF container = "up" THEN gen ELSE got
  /\ UNCHANGED touch

(* attach, whatever has become of the FIFO meanwhile.                      *)
Attach ==
  /\ window = "open"
  /\ Opener("opened", "sleeping")
  /\ pipe' = got /\ slotDown' = FALSE
  /\ UNCHANGED <<got, down>>

----------------------------------------------------------------------------
(* Android.                                                                *)

ReadFrame ==
  /\ fifo # <<>> /\ container = "up"
  /\ fifo' = Tail(fifo)
  /\ finger' = IF Head(fifo) = "other" THEN finger ELSE Head(fifo) = "put"
  /\ UNCHANGED <<mouse, touch, task, container, gen, lost>>

(* A frame of the key mapper, or of hwcomposer.                            *)
WriteOther ==
  /\ container = "up" /\ Len(fifo) < FifoCap
  /\ fifo' = Append(fifo, "other")
  /\ UNCHANGED <<mouse, touch, task, container, gen, finger, lost>>

(* The display is plugged in, or another one: a new FIFO, and the touches  *)
(* of the old device are forgotten.                                        *)
Hotplug ==
  /\ container \in {"booting", "up"} /\ gen <= MaxHotplugs
  /\ container' = "up" /\ gen' = gen + 1 /\ fifo' = <<>> /\ finger' = FALSE
  /\ lost' = FALSE
  /\ UNCHANGED <<mouse, touch, task>>

Stop ==
  /\ container # "down"
  /\ container' = "down" /\ fifo' = <<>> /\ finger' = FALSE /\ lost' = FALSE
  /\ UNCHANGED <<mouse, touch, task, gen>>

Start ==
  /\ container = "down" /\ gen <= MaxHotplugs
  /\ container' = "booting"
  /\ UNCHANGED <<mouse, touch, task, gen, fifo, finger, lost>>

----------------------------------------------------------------------------
TouchInit ==
  /\ button = "up" /\ editing = FALSE /\ window = "open"
  /\ pipe = NoPipe /\ slotDown = FALSE /\ down = FALSE
  /\ opener = "sleeping" /\ got = NoPipe /\ allowed \in BOOLEAN
  /\ container = "down" /\ gen = NoPipe /\ fifo = <<>> /\ finger = FALSE
  /\ lost = FALSE

Pointer == MouseDownInside \/ MouseDownBeside \/ MouseDrag \/ MouseMove \/ MouseUp
           \/ MouseUpUnheard \/ ToggleEditing \/ CloseWindow
Opening == Ask \/ FindContainer \/ ReadSize \/ OpenFifo \/ Attach
Android == ReadFrame \/ WriteOther \/ Hotplug \/ Stop \/ Start

TouchNext == Pointer \/ Opening \/ Android

TouchSpec == TouchInit /\ [][TouchNext]_touchVars

(* The task sleeps two seconds and asks, the helper answers, Android reads *)
(* its FIFO. Nothing is asked of the user.                                 *)
FairTouchSpec == TouchSpec /\ WF_touchVars(Opening) /\ WF_touchVars(ReadFrame)

----------------------------------------------------------------------------
(* Properties.                                                             *)

(* What the last record about the slot says, or what it was before all of  *)
(* them.                                                                   *)
DownAfter(records, before) ==
  \E k \in 0 .. Len(records) :
    /\ IF k = 0 THEN before ELSE records[k] = "put"
    /\ \A j \in k + 1 .. Len(records) : records[j] = "other"

(* The slot in Android once it has read the whole FIFO.                    *)
SlotDrained == DownAfter(fifo, finger)

(* No finger stays down in Android without the button: after any release   *)
(* the window heard of, wherever in it that was, after a return to it, in  *)
(* the editor, and after its closing, the last record on its way lifts the *)
(* finger, over reopened pipes and restarts of the container (game.rs:     *)
(* "that release never arrives and the finger stays down"). The exception  *)
(* is a FIFO that was full just then.                                      *)
FingerNeedsTheButton ==
  (button = "up" \/ window = "closed") /\ ~lost => ~SlotDrained

(* The path heals by itself: with a container that has settled and a user  *)
(* who goes on clicking in an open window, the pipe is the one Android     *)
(* reads, from some click on (touch.rs: "Dropping the backend is what      *)
(* makes it self-healing").                                                *)
PathHeals ==
  /\ allowed
  /\ <>[](window = "open" /\ container = "up")
  /\ []<><<MouseDownInside>>_touchVars
  => <>[](pipe = gen)

(* "dropping only costs one frame" (wl_touch.rs), also when that frame is  *)
(* the one that lifts the finger.                                          *)
DropCostsOneFrame ==
  button = "up" /\ fifo = <<>> => ~finger
=============================================================================
