------------------------------- MODULE Runner -------------------------------
(***************************************************************************)
(* The input runner of crates/liw-input/src/runner.rs: one task whose      *)
(* select! loop multiplexes the foreground channel, the focus watch, the   *)
(* pipe repair clock, the gesture clock, the keyboard, the mouse and the   *)
(* shutdown watch. Each arm is one action: an arm runs to its end before   *)
(* the next one is polled.                                                 *)
(*                                                                         *)
(* The engine (module Engine) is abstracted to whether there is one and    *)
(* the fingers it has down; any legal frame may come out of it. The        *)
(* environment is KWin (focus), the foreground poll (packages), the user   *)
(* (keys), the devices (errors) and Android (module Backends).             *)
(***************************************************************************)
EXTENDS Backends, FiniteSets

CONSTANTS
  Profiled,     \* packages with a profile in the store
  Overlays,     \* packages is_system_overlay names
  Unprofiled,   \* other packages
  NoPkg,
  EscStreak     \* ESC_STREAK (3)

Pkgs == Profiled \cup Overlays \cup Unprofiled

ASSUME PackagesAssumption ==
  /\ Profiled \cap Overlays = {} /\ Profiled \cap Unprofiled = {}
  /\ Overlays \cap Unprofiled = {} /\ NoPkg \notin Pkgs
ASSUME EscAssumption == EscStreak \in Nat \ {0}

(* Who runs the loop: the daemon (focus from KWin, a pipe provider) or the *)
(* command line (focus fixed on, no provider); RunnerConfig's switches;    *)
(* and whether a touch pipe was there at startup. The mouse matters to     *)
(* this module for its grab only.                                          *)
Configs == {c \in [daemon : BOOLEAN, grab : BOOLEAN, hotkey : BOOLEAN,
                   mouse : BOOLEAN, pipe : BOOLEAN] : c.mouse => c.grab}

VARIABLES
  cfg,
  focusTx,   \* the value in the focus watch
  heard,     \* the package the foreground channel delivered last
  current, profile, focused, gameMode, esc,
  m,         \* what the loop holds: engine, grab, backend
  pub,       \* RunnerState
  status     \* "running", "exited" (Ok) or "failed" (Err)

vars == <<cfg, focusTx, heard, current, profile, focused, gameMode, esc, m, pub, status>>

Mappers == [alive : BOOLEAN, fingers : SUBSET Ids, grabbed : BOOLEAN,
            mouseGrab : BOOLEAN, wire : Wires]

Published == [running : BOOLEAN, foreground : Pkgs \cup {NoPkg},
              active : Profiled \cup {NoPkg}, grabbed : BOOLEAN,
              gameMode : BOOLEAN, hostFocused : BOOLEAN]

----------------------------------------------------------------------------
(* Helpers the arms share.                                                 *)

(* emit_touch!: an empty batch is not dispatched, EPIPE marks the pipe.    *)
Emit(w, f) ==
  IF f = NoFrame THEN w ELSE [Dispatch(w, f) EXCEPT !.dead = @ \/ Fails(w, f)]

(* Mutant of Lifted: the engine is told, the backend is not.               *)
LiftedInEngineOnly(x) == [x EXCEPT !.fingers = {}]

(* set_enabled(false), its Ups emitted, then backend.release_all().        *)
Lifted(x) ==
  [x EXCEPT !.fingers = {},
            !.wire = ReleaseAll(IF x.alive THEN Emit(@, Lifting(x.fingers)) ELSE @)]

Dropped(x) == [x EXCEPT !.alive = FALSE]

Ungrabbed(x) == [x EXCEPT !.grabbed = FALSE, !.mouseGrab = FALSE]

(* A new engine, and the grab: the keyboard's may fail (then nothing is    *)
(* grabbed), the mouse's failure is ignored.                               *)
Started(x) ==
  LET on == [x EXCEPT !.alive = TRUE, !.fingers = {}] IN
  IF ~cfg.grab \/ x.grabbed THEN {on}
  ELSE {on} \cup {[on EXCEPT !.grabbed = TRUE, !.mouseGrab = g] :
                    g \in IF cfg.mouse THEN BOOLEAN ELSE {FALSE}}

----------------------------------------------------------------------------
(* The arms.                                                               *)

Running == status = "running"

(* The package that is current already.                                    *)
ForegroundSame(p) ==
  /\ Running /\ p = current
  /\ heard' = p
  /\ UNCHANGED <<cfg, focusTx, current, profile, focused, gameMode, esc, m, pub, status>>

(* Mutant of ForegroundOverlay: the grab is not published.                 *)
ForegroundOverlayUnpublished(p) ==
  /\ Running /\ p # current /\ p \in Overlays /\ profile # NoPkg
  /\ heard' = p
  /\ m' = Ungrabbed(Dropped(Lifted(m)))
  /\ pub' = [pub EXCEPT !.foreground = p]
  /\ UNCHANGED <<cfg, focusTx, current, profile, focused, gameMode, esc, status>>

(* A system layer over the game: the profile and `current' stay.           *)
ForegroundOverlay(p) ==
  /\ Running /\ p # current /\ p \in Overlays /\ profile # NoPkg
  /\ heard' = p
  /\ m' = Ungrabbed(Dropped(Lifted(m)))
  /\ pub' = [pub EXCEPT !.foreground = p, !.grabbed = FALSE]
  /\ UNCHANGED <<cfg, focusTx, current, profile, focused, gameMode, esc, status>>

Covers(p) == p \in Overlays /\ profile # NoPkg

ForegroundGame(p) ==
  /\ Running /\ p # current /\ ~Covers(p) /\ p \in Profiled
  /\ heard' = p /\ current' = p /\ profile' = p
  /\ m' \in IF focused /\ gameMode THEN Started(Lifted(m)) ELSE {Lifted(m)}
  /\ pub' = [pub EXCEPT !.active = p, !.foreground = p, !.grabbed = m'.grabbed]
  /\ UNCHANGED <<cfg, focusTx, focused, gameMode, esc, status>>

ForegroundOther(p) ==
  /\ Running /\ p # current /\ ~Covers(p) /\ p \notin Profiled
  /\ heard' = p /\ current' = p /\ profile' = NoPkg
  /\ m' = Ungrabbed(Dropped(Lifted(m)))
  /\ pub' = [pub EXCEPT !.active = NoPkg, !.foreground = p, !.grabbed = m'.grabbed]
  /\ UNCHANGED <<cfg, focusTx, focused, gameMode, esc, status>>

FocusGained ==
  /\ Running /\ focusTx /\ ~focused
  /\ focused' = TRUE
  /\ m' \in IF profile # NoPkg /\ gameMode THEN Started(m) ELSE {m}
  /\ pub' = [pub EXCEPT !.hostFocused = TRUE, !.grabbed = m'.grabbed]
  /\ UNCHANGED <<cfg, focusTx, heard, current, profile, gameMode, esc, status>>

(* Mutant of FocusLost: the engine is disabled but not dropped.            *)
FocusLostKeepingEngine ==
  /\ Running /\ ~focusTx /\ focused
  /\ focused' = FALSE
  /\ m' = Ungrabbed(Lifted(m))
  /\ pub' = [pub EXCEPT !.hostFocused = FALSE, !.grabbed = FALSE]
  /\ UNCHANGED <<cfg, focusTx, heard, current, profile, gameMode, esc, status>>

FocusLost ==
  /\ Running /\ ~focusTx /\ focused
  /\ focused' = FALSE
  /\ m' = Ungrabbed(Dropped(Lifted(m)))
  /\ pub' = [pub EXCEPT !.hostFocused = FALSE, !.grabbed = FALSE]
  /\ UNCHANGED <<cfg, focusTx, heard, current, profile, gameMode, esc, status>>

(* The hotkey, heard before the ESC streak and the engine.                 *)
HotkeyOn ==
  /\ Running /\ cfg.hotkey /\ ~gameMode
  /\ gameMode' = TRUE
  /\ m' \in IF profile # NoPkg /\ focused THEN Started(m) ELSE {m}
  /\ pub' = [pub EXCEPT !.gameMode = TRUE, !.grabbed = m'.grabbed]
  /\ UNCHANGED <<cfg, focusTx, heard, current, profile, focused, esc, status>>

HotkeyOff ==
  /\ Running /\ cfg.hotkey /\ gameMode
  /\ gameMode' = FALSE
  /\ m' = Ungrabbed(Dropped(Lifted(m)))
  /\ pub' = [pub EXCEPT !.gameMode = FALSE, !.grabbed = FALSE]
  /\ UNCHANGED <<cfg, focusTx, heard, current, profile, focused, esc, status>>

(* The frame an engine step produces, if there is an engine.               *)
Feed(x) ==
  IF ~x.alive THEN {x}
  ELSE {[x EXCEPT !.fingers = After(f, @), !.wire = Emit(@, f)] : f \in FramesFrom(x.fingers)}

(* Any other key: a press breaks the ESC streak while the grab is on; the  *)
(* ESC key itself is such a key while it is off.                           *)
Key(press) ==
  /\ Running
  /\ esc' = IF press /\ m.grabbed THEN 0 ELSE esc
  /\ m' \in Feed(m)
  /\ UNCHANGED <<cfg, focusTx, heard, current, profile, focused, gameMode, pub, status>>

(* The gesture clock and the mouse: what the engine produces, if anything. *)
TickerOrMouse ==
  /\ Running /\ m.alive
  /\ m' \in Feed(m)
  /\ UNCHANGED <<cfg, focusTx, heard, current, profile, focused, gameMode, esc, pub, status>>

(* ESC under the grab, not the last of its streak.                         *)
Escape ==
  /\ Running /\ m.grabbed /\ esc + 1 < EscStreak
  /\ esc' = esc + 1
  /\ UNCHANGED <<cfg, focusTx, heard, current, profile, focused, gameMode, m, pub, status>>

(* The end of run(): reached by the ESC streak and by shutdown. It does    *)
(* what an arm that drops the engine does, whatever the pipe answers.      *)
CleanExit ==
  /\ status' = "exited"
  /\ m' = Ungrabbed(Dropped(Lifted(m)))
  /\ pub' = [pub EXCEPT !.running = FALSE, !.grabbed = FALSE, !.active = NoPkg]

EscapeLast ==
  /\ Running /\ m.grabbed /\ esc + 1 >= EscStreak
  /\ esc' = esc + 1
  /\ CleanExit
  /\ UNCHANGED <<cfg, focusTx, heard, current, profile, focused, gameMode>>

Shutdown ==
  /\ Running
  /\ CleanExit
  /\ UNCHANGED <<cfg, focusTx, heard, current, profile, focused, gameMode, esc>>

(* next_event() fails (the device was unplugged): `?' leaves run() before  *)
(* the clean exit. The devices' descriptors close, which ends the grabs,   *)
(* and a uinput device goes with its fingers; a FIFO keeps what it has.    *)
StreamFails ==
  /\ Running
  /\ status' = "failed"
  /\ m' = [Ungrabbed(Dropped(m)) EXCEPT
             !.fingers = {},
             !.wire = IF @.kind = "uinput" THEN [@ EXCEPT !.screen = {}] ELSE @]
  /\ UNCHANGED <<cfg, focusTx, heard, current, profile, focused, gameMode, esc, pub>>

NeedsPipe == m.wire.dead \/ m.wire.kind # "wl_touch"

(* Mutant of Repair: the arm needs an engine, as when it hung on the        *)
(* gesture clock.                                                          *)
RepairOnGestureClock ==
  /\ Running /\ NeedsPipe /\ cfg.daemon /\ m.alive
  /\ m' = [m EXCEPT !.wire = NewWire("wl_touch"), !.fingers = {}]
  /\ UNCHANGED <<cfg, focusTx, heard, current, profile, focused, gameMode, esc, pub, status>>

(* The repair clock when the provider delivers a pipe: the old backend is  *)
(* dropped (a uinput device takes its fingers with it) and the engine is   *)
(* disabled and enabled, its Ups thrown away. When the provider has none   *)
(* nothing changes.                                                        *)
Repair ==
  /\ Running /\ NeedsPipe /\ cfg.daemon
  /\ m' = [m EXCEPT !.wire = NewWire("wl_touch"), !.fingers = {}]
  /\ UNCHANGED <<cfg, focusTx, heard, current, profile, focused, gameMode, esc, pub, status>>

(* Without a provider the arm only forgets that the pipe is dead.          *)
RepairWithoutProvider ==
  /\ Running /\ m.wire.dead /\ ~cfg.daemon
  /\ m' = [m EXCEPT !.wire.dead = FALSE]
  /\ UNCHANGED <<cfg, focusTx, heard, current, profile, focused, gameMode, esc, pub, status>>

----------------------------------------------------------------------------
(* The environment. Once the loop has ended nobody watches the focus and   *)
(* nobody writes to the pipe.                                              *)

(* set_active_window: only the daemon is told, and only of changes.        *)
SetFocus ==
  /\ Running /\ cfg.daemon
  /\ focusTx' = ~focusTx
  /\ UNCHANGED <<cfg, heard, current, profile, focused, gameMode, esc, m, pub, status>>

AndroidReads ==
  /\ CanRead(m.wire)
  /\ m' = [m EXCEPT !.wire = Read(@)]
  /\ UNCHANGED <<cfg, focusTx, heard, current, profile, focused, gameMode, esc, pub, status>>

PipeBreaks ==
  /\ Running /\ m.wire.kind = "wl_touch" /\ ~m.wire.broken
  /\ m' = [m EXCEPT !.wire = Hotplug(@)]
  /\ UNCHANGED <<cfg, focusTx, heard, current, profile, focused, gameMode, esc, pub, status>>

Init ==
  /\ cfg \in Configs
  /\ focusTx \in BOOLEAN /\ focused = focusTx
  /\ cfg.daemon \/ focusTx
  /\ heard = NoPkg /\ current = NoPkg /\ profile = NoPkg
  /\ gameMode = ~cfg.hotkey /\ esc = 0
  /\ m = [alive |-> FALSE, fingers |-> {}, grabbed |-> FALSE, mouseGrab |-> FALSE,
          wire |-> NewWire(IF cfg.pipe THEN "wl_touch" ELSE "uinput")]
  /\ pub = [running |-> TRUE, foreground |-> NoPkg, active |-> NoPkg,
            grabbed |-> FALSE, gameMode |-> FALSE, hostFocused |-> FALSE]
  /\ status = "running"

Next ==
  \/ \E p \in Pkgs : \/ ForegroundSame(p) \/ ForegroundOverlay(p)
                     \/ ForegroundGame(p) \/ ForegroundOther(p)
  \/ FocusGained \/ FocusLost
  \/ HotkeyOn \/ HotkeyOff \/ Escape \/ EscapeLast
  \/ \E press \in BOOLEAN : Key(press)
  \/ TickerOrMouse
  \/ Repair \/ RepairWithoutProvider
  \/ Shutdown \/ StreamFails
  \/ SetFocus \/ AndroidReads \/ PipeBreaks

Spec == Init /\ [][Next]_vars

(* The repair clock is an ungated interval and the focus arm is always     *)
(* polled; that the provider has a pipe sooner or later is an assumption   *)
(* on Android.                                                             *)
FairSpec == Spec /\ WF_vars(Repair) /\ WF_vars(FocusLost) /\ WF_vars(FocusGained)

----------------------------------------------------------------------------
(* Properties.                                                             *)

(* The types of the loop's locals and of the published state.              *)
TypeOK ==
  /\ cfg \in Configs /\ focusTx \in BOOLEAN
  /\ heard \in Pkgs \cup {NoPkg} /\ current \in Pkgs \cup {NoPkg}
  /\ profile \in Profiled \cup {NoPkg}
  /\ focused \in BOOLEAN /\ gameMode \in BOOLEAN /\ esc \in 0 .. EscStreak
  /\ m \in Mappers /\ pub \in Published
  /\ status \in {"running", "exited", "failed"}

(* An engine exists only for a profiled game on a focused host in game     *)
(* mode ("Without the gate, touches land on the user's real desktop").     *)
MappingNeedsFocus == m.alive => Running /\ focused /\ gameMode /\ profile # NoPkg

(* A device is grabbed only while an engine maps it, the mouse only with   *)
(* the keyboard: the user is never locked out of an unmapped device.       *)
GrabNeedsMapping ==
  /\ m.mouseGrab => m.grabbed
  /\ m.grabbed => m.alive /\ cfg.grab

(* Without an engine no finger is left at the receiver, once it has read   *)
(* what is in the FIFO, whichever arm dropped the engine; unless a full    *)
(* FIFO has swallowed a frame or the stream broke (ExitLifts).             *)
NoFingerWithoutEngine ==
  ~m.alive /\ ~m.wire.dropped /\ status # "failed" => Drained(m.wire) = {}

(* The slots the backend would lift are the fingers of the engine, over    *)
(* drops, broken pipes, renewals and rebuilt engines.                      *)
BackendTracksEngine == status # "failed" => m.wire.slots = m.fingers

(* What the loop publishes agrees with what it holds, at every turn.       *)
PublishedTruth ==
  Running => pub.running /\ pub.grabbed = m.grabbed /\ pub.active = profile

(* A missing engine always has a published reason: with focus, game mode   *)
(* and a game as the published foreground there is one, for that game.     *)
MappedUnlessCovered ==
  Running /\ focused /\ gameMode /\ pub.foreground \in Profiled =>
    m.alive /\ profile = pub.foreground

(* What the daemon and the user are told: the published state is the held  *)
(* one, and a mapping that is missing has a published reason.              *)
StatusTells == PublishedTruth /\ MappedUnlessCovered

(* A dead pipe of the daemon is replaced, engine or not.                   *)
DeadPipeIsReplaced == m.wire.dead /\ cfg.daemon ~> ~m.wire.dead \/ ~Running

(* When the window has lost the focus for good, mapping ends.              *)
UnfocusedMappingEnds == <>[]~focusTx => <>[]~m.alive

(* The runner implements the gate: every arm that loses the focus, the     *)
(* game mode or the game, is covered by a system layer or ends the loop    *)
(* lifts every finger the backend holds and ends every grab, in the same   *)
(* step, and a mapping starts in the step that fulfils the last condition. *)
Promised == INSTANCE Gate WITH
  Games <- Profiled, NoGame <- NoPkg, Fingers <- Ids,
  focus <- focused, mode <- gameMode, game <- profile,
  open <- m.alive, touching <- m.wire.slots, grab <- m.grabbed,
  over <- status # "running"

RefinesGate == Promised!Spec

(* "it returns instantly when the layer goes away" (is_system_overlay):    *)
(* with a game as the last package heard, mapping is on.                   *)
ReturnsAfterOverlay ==
  Running /\ focused /\ gameMode /\ heard \in Profiled => m.alive

(* "Fingers are ALWAYS lifted ... on exit" (the comment on run).           *)
ExitLifts == ~Running /\ ~m.wire.dropped => Drained(m.wire) = {}
=============================================================================
