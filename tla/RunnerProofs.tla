---------------------------- MODULE RunnerProofs ----------------------------
(***************************************************************************)
(* The runner's gates, for every set of packages, every ESC streak, every  *)
(* FIFO capacity and every configuration.                                  *)
(***************************************************************************)
EXTENDS Runner, TLAPS

(* Without an engine there is no finger to lift.                           *)
IdleMeansUp == ~m.alive => m.fingers = {}

(* A game published as the foreground is the one whose profile is kept.    *)
ForegroundHasProfile == Running /\ pub.foreground \in Profiled => profile = pub.foreground

(* The ESC streak is not complete while the loop runs.                     *)
EscBelowStreak == Running => esc < EscStreak

IInv ==
  /\ TypeOK
  /\ MappingNeedsFocus /\ GrabNeedsMapping /\ BackendTracksEngine
  /\ PublishedTruth /\ MappedUnlessCovered
  /\ IdleMeansUp /\ ForegroundHasProfile /\ EscBelowStreak

----------------------------------------------------------------------------
(* The helpers.                                                            *)

(* A frame leads to a typed wire whose slots follow the fingers.           *)
LEMMA DispatchEffect ==
  ASSUME NEW w \in Wires, NEW f \in Frames, f.move \subseteq w.slots
  PROVE  /\ Dispatch(w, f) \in Wires
         /\ Dispatch(w, f).slots = After(f, w.slots)
<1>1. Encode(f) \in Records /\ Received(Encode(f), w.slots) = After(f, w.slots)
  BY DEF Encode, Records, Received, After, Frames, Wires
<1>2. After(f, w.slots) \in SUBSET Ids /\ After(f, w.screen) \in SUBSET Ids
  BY DEF After, Frames, Wires
<1>3. DispatchUinput(w, f) \in Wires /\ DispatchUinput(w, f).slots = After(f, w.slots)
  BY <1>2 DEF DispatchUinput, Wires
<1>4. DispatchPipe(w, f) \in Wires /\ DispatchPipe(w, f).slots = After(f, w.slots)
  <2>1. Append(w.fifo, Encode(f)) \in Seq(Records)
    BY <1>1 DEF Wires
  <2> QED BY <1>1, <1>2, <2>1 DEF DispatchPipe, Wires
<1> QED BY <1>3, <1>4 DEF Dispatch

(* The same for emit_touch!, whatever the pipe answers.                    *)
LEMMA EmitEffect ==
  ASSUME NEW w \in Wires, NEW f \in Frames, f.move \subseteq w.slots
  PROVE  Emit(w, f) \in Wires /\ Emit(w, f).slots = After(f, w.slots)
<1> DEFINE d == Dispatch(w, f)
<1>1. d \in Wires /\ d.slots = After(f, w.slots)
  BY DispatchEffect
<1>2. Fails(w, f) \in BOOLEAN
  BY DEF Fails
<1>3. CASE f = NoFrame
  BY <1>3 DEF Emit, NoFrame, After, Wires
<1>4. CASE f # NoFrame
  <2>1. Emit(w, f) = [d EXCEPT !.dead = @ \/ Fails(w, f)]
    BY <1>4 DEF Emit
  <2> HIDE DEF d
  <2> QED BY <1>1, <1>2, <2>1 DEF Wires
<1> QED BY <1>3, <1>4

(* Disabling the engine and releasing all leaves no slot and no finger,    *)
(* and touches nothing but the wire and the fingers.                       *)
LEMMA LiftedEffect ==
  ASSUME NEW x \in Mappers
  PROVE  /\ Lifted(x) \in Mappers
         /\ Lifted(x).fingers = {} /\ Lifted(x).wire.slots = {}
         /\ Lifted(x).alive = x.alive /\ Lifted(x).grabbed = x.grabbed
         /\ Lifted(x).mouseGrab = x.mouseGrab
<1> DEFINE w == IF x.alive THEN Emit(x.wire, Lifting(x.fingers)) ELSE x.wire
<1>1. \A I \in SUBSET Ids : Lifting(I) \in Frames /\ Lifting(I).move = {}
                            /\ Lifting(I).down = {} /\ Lifting(I).up = I
  BY DEF Lifting, NoFrame, Frames
<1>2. x.wire \in Wires /\ x.fingers \in SUBSET Ids
  BY DEF Mappers
<1>3. w \in Wires
  BY <1>1, <1>2, EmitEffect
<1>4. ReleaseAll(w) \in Wires /\ ReleaseAll(w).slots = {}
  <2> HIDE DEF w
  <2>1. w.slots \in SUBSET Ids
    BY <1>3 DEF Wires
  <2>2. CASE w.slots = {}
    BY <1>3, <2>2 DEF ReleaseAll
  <2>3. CASE w.slots # {}
    <3>1. Dispatch(w, Lifting(w.slots)) \in Wires
          /\ Dispatch(w, Lifting(w.slots)).slots = After(Lifting(w.slots), w.slots)
      BY <1>1, <1>3, <2>1, DispatchEffect
    <3>2. After(Lifting(w.slots), w.slots) = {}
      BY <1>1, <2>1 DEF After
    <3> QED BY <2>3, <3>1, <3>2 DEF ReleaseAll
  <2> QED BY <2>2, <2>3
<1>5. Lifted(x) = [x EXCEPT !.fingers = {}, !.wire = ReleaseAll(w)]
  BY DEF Lifted, Mappers
<1> HIDE DEF w
<1> QED BY <1>4, <1>5 DEF Mappers

(* Dropping the engine and the grab.                                       *)
LEMMA OffEffect ==
  ASSUME NEW x \in Mappers
  PROVE  /\ Ungrabbed(Dropped(x)) \in Mappers
         /\ Ungrabbed(Dropped(x)).fingers = x.fingers
         /\ Ungrabbed(Dropped(x)).wire = x.wire
         /\ ~Ungrabbed(Dropped(x)).alive
         /\ Ungrabbed(Dropped(x)).grabbed = FALSE
         /\ ~Ungrabbed(Dropped(x)).mouseGrab
BY DEF Ungrabbed, Dropped, Mappers

(* What every arm that ends the mapping leads to.                          *)
LEMMA StoppedEffect ==
  ASSUME NEW x \in Mappers
  PROVE  LET y == Ungrabbed(Dropped(Lifted(x))) IN
         /\ y \in Mappers
         /\ y.fingers = {} /\ y.wire.slots = {}
         /\ ~y.alive /\ y.grabbed = FALSE /\ ~y.mouseGrab
<1>1. Lifted(x) \in Mappers /\ Lifted(x).fingers = {} /\ Lifted(x).wire.slots = {}
  BY LiftedEffect
<1> QED BY <1>1, OffEffect

(* A new engine, with or without the grab.                                 *)
LEMMA StartedEffect ==
  ASSUME NEW x \in Mappers, NEW y \in Started(x), cfg \in Configs,
         x.mouseGrab => x.grabbed, x.grabbed => cfg.grab
  PROVE  /\ y \in Mappers /\ y.alive /\ y.fingers = {} /\ y.wire = x.wire
         /\ y.mouseGrab => y.grabbed
         /\ y.grabbed => cfg.grab
<1> DEFINE on == [x EXCEPT !.alive = TRUE, !.fingers = {}]
<1>1. /\ on \in Mappers /\ on.alive /\ on.fingers = {} /\ on.wire = x.wire
      /\ on.grabbed = x.grabbed /\ on.mouseGrab = x.mouseGrab
  BY DEF Mappers
<1>2. CASE y = on
  BY <1>1, <1>2
<1>3. CASE y # on
  <2>1. cfg.grab
    BY <1>3 DEF Started, Configs
  <2>2. PICK g \in BOOLEAN : y = [on EXCEPT !.grabbed = TRUE, !.mouseGrab = g]
    BY <1>3 DEF Started
  <2> HIDE DEF on
  <2> QED BY <1>1, <2>1, <2>2 DEF Mappers
<1> QED BY <1>2, <1>3

(* An engine step: the slots follow the fingers.                           *)
LEMMA FeedEffect ==
  ASSUME NEW x \in Mappers, NEW y \in Feed(x), x.wire.slots = x.fingers,
         ~x.alive => x.fingers = {}
  PROVE  /\ y \in Mappers /\ y.wire.slots = y.fingers
         /\ y.alive = x.alive /\ y.grabbed = x.grabbed /\ y.mouseGrab = x.mouseGrab
         /\ ~y.alive => y.fingers = {}
<1>1. CASE ~x.alive
  BY <1>1 DEF Feed
<1>2. CASE x.alive
  <2>1. PICK f \in FramesFrom(x.fingers) :
          y = [x EXCEPT !.fingers = After(f, @), !.wire = Emit(@, f)]
    BY <1>2 DEF Feed
  <2>2. x.fingers \in SUBSET Ids /\ x.wire \in Wires
    BY DEF Mappers
  <2>3. f \in Frames /\ f.move \subseteq x.fingers
    BY <2>1, <2>2 DEF FramesFrom, Frames
  <2>4. Emit(x.wire, f) \in Wires /\ Emit(x.wire, f).slots = After(f, x.fingers)
    BY <2>2, <2>3, EmitEffect
  <2>5. After(f, x.fingers) \in SUBSET Ids
    BY <2>2, <2>3 DEF After, Frames
  <2> QED BY <1>2, <2>1, <2>4, <2>5 DEF Mappers
<1> QED BY <1>1, <1>2

(* A new wire has no slots in use.                                         *)
LEMMA NewWireEffect ==
  ASSUME NEW k \in {"uinput", "wl_touch"}
  PROVE  NewWire(k) \in Wires /\ NewWire(k).slots = {}
<1>1. <<>> \in Seq(Records)
  OBVIOUS
<1> QED BY <1>1 DEF NewWire, Wires

----------------------------------------------------------------------------
(* Induction.                                                              *)

(* IInv holds initially.                                                   *)
LEMMA InitIInv == Init => IInv
<1> SUFFICES ASSUME Init PROVE IInv
  OBVIOUS
<1>1. cfg.daemon \in BOOLEAN /\ cfg.hotkey \in BOOLEAN /\ cfg.pipe \in BOOLEAN
  BY DEF Init, Configs
<1>2. m.wire \in Wires /\ m.wire.slots = {}
  BY NewWireEffect DEF Init
<1>3. m \in Mappers /\ ~m.alive /\ m.fingers = {} /\ m.grabbed = FALSE /\ ~m.mouseGrab
  BY <1>2 DEF Init, Mappers
<1>4. /\ pub \in Published /\ pub.running /\ pub.grabbed = FALSE
      /\ pub.active = NoPkg /\ pub.foreground = NoPkg
  BY DEF Init, Published
<1>5. TypeOK
  BY <1>1, <1>3, <1>4, EscAssumption DEF TypeOK, Init
<1>6. pub.foreground \notin Profiled
  BY <1>4, PackagesAssumption DEF Pkgs
<1> QED
  BY <1>2, <1>3, <1>4, <1>5, <1>6, EscAssumption DEF IInv, MappingNeedsFocus, GrabNeedsMapping,
     BackendTracksEngine, PublishedTruth, MappedUnlessCovered, IdleMeansUp,
     ForegroundHasProfile, EscBelowStreak, Init

(* Every arm and every step of the environment preserves IInv.             *)
LEMMA StepIInv == IInv /\ [Next]_vars => IInv'
<1> SUFFICES ASSUME IInv, [Next]_vars PROVE IInv'
  OBVIOUS
<1> USE DEF Running
<1>1. /\ cfg \in Configs /\ focusTx \in BOOLEAN
      /\ heard \in Pkgs \cup {NoPkg} /\ current \in Pkgs \cup {NoPkg}
      /\ profile \in Profiled \cup {NoPkg} /\ NoPkg \notin Profiled
      /\ focused \in BOOLEAN /\ gameMode \in BOOLEAN
      /\ esc \in 0 .. EscStreak
      /\ m \in Mappers /\ pub \in Published
      /\ status \in {"running", "exited", "failed"}
      /\ cfg.daemon \in BOOLEAN /\ cfg.hotkey \in BOOLEAN /\ cfg.grab \in BOOLEAN
  BY PackagesAssumption DEF IInv, TypeOK, Configs, Pkgs
<1>2. /\ pub.running \in BOOLEAN /\ pub.foreground \in Pkgs \cup {NoPkg}
      /\ pub.active \in Profiled \cup {NoPkg} /\ pub.grabbed \in BOOLEAN
      /\ pub.gameMode \in BOOLEAN /\ pub.hostFocused \in BOOLEAN
      /\ m.alive \in BOOLEAN /\ m.fingers \in SUBSET Ids /\ m.grabbed \in BOOLEAN
      /\ m.mouseGrab \in BOOLEAN /\ m.wire \in Wires
  BY <1>1 DEF Published, Mappers
<1>3. /\ m.alive => status = "running" /\ focused /\ gameMode /\ profile # NoPkg
      /\ m.mouseGrab => m.grabbed
      /\ m.grabbed => m.alive /\ cfg.grab
      /\ status # "failed" => m.wire.slots = m.fingers
      /\ status = "running" => pub.running /\ pub.grabbed = m.grabbed /\ pub.active = profile
      /\ status = "running" /\ focused /\ gameMode /\ pub.foreground \in Profiled =>
           m.alive /\ profile = pub.foreground
      /\ ~m.alive => m.fingers = {}
      /\ status = "running" /\ pub.foreground \in Profiled => profile = pub.foreground
      /\ status = "running" => esc < EscStreak
  BY DEF IInv, MappingNeedsFocus, GrabNeedsMapping, BackendTracksEngine, PublishedTruth,
     MappedUnlessCovered, IdleMeansUp, ForegroundHasProfile, EscBelowStreak
<1> DEFINE Stopped == Ungrabbed(Dropped(Lifted(m)))
<1>4. /\ Stopped \in Mappers /\ Stopped.fingers = {} /\ Stopped.wire.slots = {}
      /\ ~Stopped.alive /\ Stopped.grabbed = FALSE /\ ~Stopped.mouseGrab
  BY <1>1, StoppedEffect
<1> HIDE DEF Stopped
<1> USE DEF IInv, TypeOK, MappingNeedsFocus, GrabNeedsMapping, BackendTracksEngine,
        PublishedTruth, MappedUnlessCovered, IdleMeansUp, ForegroundHasProfile, EscBelowStreak
<1>5. ASSUME NEW p \in Pkgs, ForegroundSame(p) PROVE IInv'
  BY <1>1, <1>3, <1>5 DEF ForegroundSame
<1>6. ASSUME NEW p \in Pkgs, ForegroundOverlay(p) PROVE IInv'
  <2>1. m' = Stopped /\ p \notin Profiled /\ p \in Pkgs
    BY <1>6, PackagesAssumption DEF ForegroundOverlay, Stopped
  <2>2. pub' \in Published /\ pub'.foreground = p /\ pub'.grabbed = FALSE
        /\ pub'.running = pub.running /\ pub'.active = pub.active
    BY <1>1, <1>6 DEF ForegroundOverlay, Published
  <2> QED BY <1>1, <1>3, <1>4, <1>6, <2>1, <2>2 DEF ForegroundOverlay
<1>7. ASSUME NEW p \in Pkgs, ForegroundGame(p) PROVE IInv'
  <2>1. /\ Lifted(m) \in Mappers /\ Lifted(m).fingers = {}
        /\ Lifted(m).wire.slots = {} /\ Lifted(m).alive = m.alive
        /\ Lifted(m).grabbed = m.grabbed /\ Lifted(m).mouseGrab = m.mouseGrab
    BY <1>1, LiftedEffect
  <2>2. /\ m' \in Mappers /\ m'.fingers = {} /\ m'.wire.slots = {}
        /\ m'.mouseGrab => m'.grabbed
        /\ m'.grabbed => m'.alive /\ cfg.grab
        /\ m'.alive <=> focused /\ gameMode
    <3>1. CASE focused /\ gameMode
      BY <1>1, <1>3, <1>7, <2>1, <3>1, StartedEffect DEF ForegroundGame
    <3>2. CASE ~(focused /\ gameMode)
      BY <1>3, <1>7, <2>1, <3>2 DEF ForegroundGame
    <3> QED BY <3>1, <3>2
  <2>3. m'.grabbed \in BOOLEAN
    BY <2>2 DEF Mappers
  <2>4. pub' \in Published /\ pub'.foreground = p /\ pub'.grabbed = m'.grabbed
        /\ pub'.running = pub.running /\ pub'.active = p
    BY <1>1, <1>7, <2>3 DEF ForegroundGame, Published
  <2> QED BY <1>1, <1>3, <1>7, <2>2, <2>4 DEF ForegroundGame
<1>8. ASSUME NEW p \in Pkgs, ForegroundOther(p) PROVE IInv'
  <2>1. m' = Stopped /\ p \notin Profiled
    BY <1>8 DEF ForegroundOther, Stopped
  <2>2. pub' \in Published /\ pub'.foreground = p /\ pub'.grabbed = FALSE
        /\ pub'.running = pub.running /\ pub'.active = NoPkg
    BY <1>1, <1>4, <1>8, <2>1 DEF ForegroundOther, Published
  <2> QED BY <1>1, <1>3, <1>4, <1>8, <2>1, <2>2 DEF ForegroundOther
<1>9. CASE FocusGained
  <2>1. /\ m' \in Mappers /\ m'.fingers = {} /\ m'.wire = m.wire
        /\ m'.mouseGrab => m'.grabbed
        /\ m'.grabbed => m'.alive /\ cfg.grab
        /\ m'.alive <=> profile # NoPkg /\ gameMode
    <3>1. CASE profile # NoPkg /\ gameMode
      BY <1>1, <1>3, <1>9, <3>1, StartedEffect DEF FocusGained
    <3>2. CASE ~(profile # NoPkg /\ gameMode)
      BY <1>1, <1>3, <1>9, <3>2 DEF FocusGained
    <3> QED BY <3>1, <3>2
  <2>2. m'.grabbed \in BOOLEAN
    BY <2>1 DEF Mappers
  <2>3. pub' \in Published /\ pub'.foreground = pub.foreground /\ pub'.grabbed = m'.grabbed
        /\ pub'.running = pub.running /\ pub'.active = pub.active
    BY <1>1, <1>9, <2>2 DEF FocusGained, Published
  <2> QED BY <1>1, <1>3, <1>9, <2>1, <2>3 DEF FocusGained
<1>10. CASE FocusLost
  <2>1. m' = Stopped
    BY <1>10 DEF FocusLost, Stopped
  <2>2. pub' \in Published /\ pub'.foreground = pub.foreground /\ pub'.grabbed = FALSE
        /\ pub'.running = pub.running /\ pub'.active = pub.active
    BY <1>1, <1>10 DEF FocusLost, Published
  <2> QED BY <1>1, <1>3, <1>4, <1>10, <2>1, <2>2 DEF FocusLost
<1>11. CASE HotkeyOn
  <2>1. /\ m' \in Mappers /\ m'.fingers = {} /\ m'.wire = m.wire
        /\ m'.mouseGrab => m'.grabbed
        /\ m'.grabbed => m'.alive /\ cfg.grab
        /\ m'.alive <=> profile # NoPkg /\ focused
    <3>1. CASE profile # NoPkg /\ focused
      BY <1>1, <1>3, <1>11, <3>1, StartedEffect DEF HotkeyOn
    <3>2. CASE ~(profile # NoPkg /\ focused)
      BY <1>1, <1>3, <1>11, <3>2 DEF HotkeyOn
    <3> QED BY <3>1, <3>2
  <2>2. m'.grabbed \in BOOLEAN
    BY <2>1 DEF Mappers
  <2>3. pub' \in Published /\ pub'.foreground = pub.foreground /\ pub'.grabbed = m'.grabbed
        /\ pub'.running = pub.running /\ pub'.active = pub.active
    BY <1>1, <1>11, <2>2 DEF HotkeyOn, Published
  <2> QED BY <1>1, <1>3, <1>11, <2>1, <2>3 DEF HotkeyOn
<1>12. CASE HotkeyOff
  <2>1. m' = Stopped
    BY <1>12 DEF HotkeyOff, Stopped
  <2>2. pub' \in Published /\ pub'.foreground = pub.foreground /\ pub'.grabbed = FALSE
        /\ pub'.running = pub.running /\ pub'.active = pub.active
    BY <1>1, <1>12 DEF HotkeyOff, Published
  <2> QED BY <1>1, <1>3, <1>4, <1>12, <2>1, <2>2 DEF HotkeyOff
<1>13. CASE Escape
  <2>1. esc' \in 0 .. EscStreak /\ esc' < EscStreak
    BY <1>1, <1>13, EscAssumption DEF Escape
  <2> QED BY <1>1, <1>3, <1>13, <2>1 DEF Escape
<1>14. CASE EscapeLast \/ Shutdown
  <2>1. m' = Stopped /\ status' = "exited"
    BY <1>14 DEF EscapeLast, Shutdown, CleanExit, Stopped
  <2>2. pub' \in Published
    BY <1>1, <1>14 DEF EscapeLast, Shutdown, CleanExit, Published
  <2>3. esc' \in 0 .. EscStreak
    BY <1>1, <1>3, <1>14, EscAssumption DEF EscapeLast, Shutdown
  <2> QED BY <1>1, <1>4, <1>14, <2>1, <2>2, <2>3 DEF EscapeLast, Shutdown
<1>15. ASSUME NEW press \in BOOLEAN, Key(press) PROVE IInv'
  <2>1. /\ m' \in Mappers /\ m'.wire.slots = m'.fingers
        /\ m'.alive = m.alive /\ m'.grabbed = m.grabbed /\ m'.mouseGrab = m.mouseGrab
        /\ ~m'.alive => m'.fingers = {}
    BY <1>1, <1>3, <1>15, FeedEffect DEF Key
  <2>2. esc' \in 0 .. EscStreak /\ (status = "running" => esc' < EscStreak)
    BY <1>1, <1>3, <1>15, EscAssumption DEF Key
  <2> QED BY <1>1, <1>3, <1>15, <2>1, <2>2 DEF Key
<1>16. CASE TickerOrMouse
  <2>1. /\ m' \in Mappers /\ m'.wire.slots = m'.fingers
        /\ m'.alive = m.alive /\ m'.grabbed = m.grabbed /\ m'.mouseGrab = m.mouseGrab
        /\ ~m'.alive => m'.fingers = {}
    BY <1>1, <1>3, <1>16, FeedEffect DEF TickerOrMouse
  <2> QED BY <1>1, <1>3, <1>16, <2>1 DEF TickerOrMouse
<1>17. CASE Repair
  <2>1. m' = [m EXCEPT !.wire = NewWire("wl_touch"), !.fingers = {}]
    BY <1>17 DEF Repair
  <2>2. NewWire("wl_touch") \in Wires /\ NewWire("wl_touch").slots = {}
    BY NewWireEffect
  <2>3. /\ m' \in Mappers /\ m'.fingers = {} /\ m'.wire.slots = {}
        /\ m'.alive = m.alive /\ m'.grabbed = m.grabbed /\ m'.mouseGrab = m.mouseGrab
    BY <1>1, <2>1, <2>2 DEF Mappers
  <2> QED BY <1>1, <1>3, <1>17, <2>3 DEF Repair
<1>18. ASSUME NEW w \in Wires, w.slots = m.wire.slots, m' = [m EXCEPT !.wire = w],
              UNCHANGED <<cfg, heard, current, profile, focused, gameMode, esc, pub, status>>,
              focusTx' \in BOOLEAN
       PROVE  IInv'
  <2>1. /\ m' \in Mappers /\ m'.fingers = m.fingers /\ m'.wire.slots = m.wire.slots
        /\ m'.alive = m.alive /\ m'.grabbed = m.grabbed /\ m'.mouseGrab = m.mouseGrab
    BY <1>1, <1>18 DEF Mappers
  <2> QED BY <1>1, <1>3, <1>18, <2>1
<1>19. CASE RepairWithoutProvider
  <2> DEFINE w == [m.wire EXCEPT !.dead = FALSE]
  <2>1. w \in Wires /\ w.slots = m.wire.slots
    BY <1>2 DEF Wires
  <2>2. m' = [m EXCEPT !.wire = w]
    BY <1>1, <1>19 DEF RepairWithoutProvider, Mappers
  <2> HIDE DEF w
  <2> QED BY <1>1, <1>18, <1>19, <2>1, <2>2 DEF RepairWithoutProvider
<1>20. CASE AndroidReads
  <2> DEFINE w == Read(m.wire)
  <2>1. Head(m.wire.fifo) \in Records /\ Tail(m.wire.fifo) \in Seq(Records)
    BY <1>2, <1>20 DEF AndroidReads, CanRead, Wires
  <2>2. Received(Head(m.wire.fifo), m.wire.screen) \in SUBSET Ids
    BY <1>2, <2>1 DEF Received, Records, Wires
  <2>3. w \in Wires /\ w.slots = m.wire.slots
    BY <1>2, <2>1, <2>2 DEF Read, Wires
  <2>4. m' = [m EXCEPT !.wire = w]
    BY <1>1, <1>20 DEF AndroidReads, Mappers
  <2> HIDE DEF w
  <2> QED BY <1>1, <1>18, <1>20, <2>3, <2>4 DEF AndroidReads
<1>21. CASE PipeBreaks
  <2> DEFINE w == Hotplug(m.wire)
  <2>1. <<>> \in Seq(Records)
    OBVIOUS
  <2>2. w \in Wires /\ w.slots = m.wire.slots
    BY <1>2, <2>1 DEF Hotplug, Wires
  <2>3. m' = [m EXCEPT !.wire = w]
    BY <1>1, <1>21 DEF PipeBreaks, Mappers
  <2> HIDE DEF w
  <2> QED BY <1>1, <1>18, <1>21, <2>2, <2>3 DEF PipeBreaks
<1>22. CASE SetFocus
  BY <1>1, <1>3, <1>22 DEF SetFocus
<1>23. CASE StreamFails
  <2> DEFINE w == IF m.wire.kind = "uinput" THEN [m.wire EXCEPT !.screen = {}] ELSE m.wire
             off == Ungrabbed(Dropped(m))
  <2>1. w \in Wires
    BY <1>2 DEF Wires
  <2>2. off \in Mappers /\ off.wire = m.wire /\ ~off.alive /\ off.grabbed = FALSE /\ ~off.mouseGrab
    BY <1>1, OffEffect
  <2>3. m' = [off EXCEPT !.fingers = {}, !.wire = w]
    BY <1>23, <2>2 DEF StreamFails, Mappers
  <2> HIDE DEF w, off
  <2>4. m' \in Mappers /\ ~m'.alive /\ m'.grabbed = FALSE /\ ~m'.mouseGrab /\ m'.fingers = {}
    BY <2>1, <2>2, <2>3 DEF Mappers
  <2> QED BY <1>1, <1>23, <2>4 DEF StreamFails
<1>24. CASE UNCHANGED vars
  BY <1>1, <1>3, <1>24 DEF vars
<1> QED
  BY <1>5, <1>6, <1>7, <1>8, <1>9, <1>10, <1>11, <1>12, <1>13, <1>14, <1>15, <1>16,
     <1>17, <1>19, <1>20, <1>21, <1>22, <1>23, <1>24 DEF Next

----------------------------------------------------------------------------
(* Refinement of the gate.                                                 *)

(* A profile is kept for the package last acted upon.                      *)
CurrentIsProfile == profile # NoPkg => current = profile

(* It holds initially and every step preserves it.                         *)
LEMMA InitCurrent == Init => CurrentIsProfile
BY DEF Init, CurrentIsProfile

LEMMA StepCurrent == CurrentIsProfile /\ [Next]_vars => CurrentIsProfile'
<1> SUFFICES ASSUME CurrentIsProfile, [Next]_vars PROVE CurrentIsProfile'
  OBVIOUS
<1> USE DEF CurrentIsProfile
<1>1. ASSUME NEW p \in Pkgs,
             ForegroundSame(p) \/ ForegroundOverlay(p) \/ ForegroundGame(p) \/ ForegroundOther(p)
      PROVE  CurrentIsProfile'
  BY <1>1 DEF ForegroundSame, ForegroundOverlay, ForegroundGame, ForegroundOther
<1>2. CASE UNCHANGED <<current, profile>>
  BY <1>2
<1>3. ASSUME NEW press \in BOOLEAN, Key(press) PROVE UNCHANGED <<current, profile>>
  BY <1>3 DEF Key
<1> QED
  BY <1>1, <1>2, <1>3 DEF Next, vars, FocusGained, FocusLost, HotkeyOn, HotkeyOff,
     Escape, EscapeLast, TickerOrMouse, Repair, RepairWithoutProvider, Shutdown,
     StreamFails, SetFocus, AndroidReads, PipeBreaks

(* The gate is shut at first.                                              *)
LEMMA InitGate == Init => Promised!Init
<1> SUFFICES ASSUME Init PROVE Promised!Init
  OBVIOUS
<1>1. focused \in BOOLEAN /\ gameMode \in BOOLEAN
  BY DEF Init, Configs
<1>2. m.wire.slots = {} /\ ~m.alive /\ ~m.grabbed
  BY NewWireEffect DEF Init
<1> QED BY <1>1, <1>2 DEF Init, Promised!Init

(* Every step of the runner is a step of the gate, or none.                *)
LEMMA StepGate ==
  ASSUME IInv, IInv', CurrentIsProfile, [Next]_vars
  PROVE  [Promised!Next]_(Promised!vars)
<1> USE DEF Running
<1>1. /\ profile \in Profiled \cup {NoPkg} /\ NoPkg \notin Profiled
      /\ focused \in BOOLEAN /\ gameMode \in BOOLEAN
      /\ m \in Mappers /\ m.alive \in BOOLEAN /\ m.grabbed \in BOOLEAN
      /\ m.wire.slots \in SUBSET Ids
  BY PackagesAssumption DEF IInv, TypeOK, Mappers, Wires, Pkgs
<1>2. /\ profile' \in Profiled \cup {NoPkg}
      /\ focused' \in BOOLEAN /\ gameMode' \in BOOLEAN
      /\ m'.alive \in BOOLEAN /\ m'.grabbed \in BOOLEAN
      /\ m'.wire.slots \in SUBSET Ids
  BY DEF IInv, TypeOK, Mappers, Wires
<1>3. /\ m.alive => status = "running" /\ focused /\ gameMode /\ profile # NoPkg
      /\ m.mouseGrab => m.grabbed
      /\ m.grabbed => m.alive /\ cfg.grab
      /\ status = "running" /\ ~m.alive => m.wire.slots = {}
  BY DEF IInv, MappingNeedsFocus, GrabNeedsMapping, BackendTracksEngine, IdleMeansUp
<1>4. /\ m'.grabbed => m'.alive
      /\ status' = "running" /\ ~m'.alive => m'.wire.slots = {}
  BY DEF IInv, GrabNeedsMapping, BackendTracksEngine, IdleMeansUp
<1>5. cfg \in Configs
  BY DEF IInv, TypeOK
<1> DEFINE Stays == UNCHANGED <<focused, gameMode, profile>>
           On == status = "running" /\ status' = "running"
<1>6. ASSUME On, ~Stays, m'.wire.slots = {},
             m'.alive <=> focused' /\ gameMode' /\ profile' # NoPkg,
             m.grabbed /\ m'.alive => m'.grabbed
      PROVE  Promised!Change
  BY <1>2, <1>4, <1>6 DEF Promised!Change, Promised!conditions, Promised!Allowed
<1>7. ASSUME On, Stays, ~m'.alive, ~m'.grabbed, m'.wire.slots = {}
      PROVE  Promised!Cover \/ UNCHANGED Promised!vars
  BY <1>1, <1>2, <1>3, <1>7 DEF Promised!Cover, Promised!conditions, Promised!vars
<1>8. ASSUME On, Stays, m'.alive = m.alive, m'.grabbed = m.grabbed
      PROVE  Promised!Map \/ UNCHANGED Promised!vars
  BY <1>1, <1>2, <1>3, <1>4, <1>8 DEF Promised!Map, Promised!conditions, Promised!vars
<1>9. ASSUME status = "running", status' # "running", Stays, ~m'.alive, ~m'.grabbed,
             m'.wire.slots \in {{}, m.wire.slots}
      PROVE  Promised!End
  BY <1>9 DEF Promised!End, Promised!conditions
<1>10. ASSUME UNCHANGED status, Stays, m'.alive = m.alive, m'.grabbed = m.grabbed,
              m'.wire.slots = m.wire.slots
       PROVE  UNCHANGED Promised!vars
  BY <1>10 DEF Promised!vars, Promised!conditions
<1> DEFINE Stopped == Ungrabbed(Dropped(Lifted(m)))
<1>11. Stopped.wire.slots = {} /\ ~Stopped.alive /\ ~Stopped.grabbed
  BY <1>1, StoppedEffect
<1> HIDE DEF Stopped
<1> USE DEF Promised!Next
<1>12. ASSUME NEW p \in Pkgs, ForegroundSame(p) PROVE [Promised!Next]_(Promised!vars)
  BY <1>10, <1>12 DEF ForegroundSame
<1>13. ASSUME NEW p \in Pkgs, ForegroundOverlay(p) PROVE [Promised!Next]_(Promised!vars)
  BY <1>7, <1>11, <1>13 DEF ForegroundOverlay, Stopped
<1>14. ASSUME NEW p \in Pkgs, ForegroundGame(p) PROVE [Promised!Next]_(Promised!vars)
  <2>1. /\ Lifted(m) \in Mappers /\ Lifted(m).wire.slots = {}
        /\ Lifted(m).alive = m.alive /\ Lifted(m).grabbed = m.grabbed
        /\ Lifted(m).mouseGrab = m.mouseGrab
    BY <1>1, LiftedEffect
  <2>2. m'.wire.slots = {} /\ (m'.alive <=> focused /\ gameMode)
        /\ (m.grabbed /\ m'.alive => m'.grabbed)
    <3>1. CASE focused /\ gameMode
      <4>1. m' \in Started(Lifted(m))
        BY <1>14, <3>1 DEF ForegroundGame
      <4>2. m'.alive /\ m'.wire = Lifted(m).wire
        BY <1>3, <1>5, <2>1, <4>1, StartedEffect
      <4>3. m.grabbed => m' = [Lifted(m) EXCEPT !.alive = TRUE, !.fingers = {}]
        BY <2>1, <4>1 DEF Started
      <4>4. m.grabbed => m'.grabbed
        BY <2>1, <4>3 DEF Mappers
      <4> QED BY <2>1, <3>1, <4>2, <4>4
    <3>2. CASE ~(focused /\ gameMode)
      BY <1>3, <1>14, <2>1, <3>2 DEF ForegroundGame
    <3> QED BY <3>1, <3>2
  <2>3. profile' # profile /\ profile' # NoPkg
    BY <1>1, <1>14 DEF ForegroundGame, CurrentIsProfile
  <2> QED BY <1>6, <1>14, <2>2, <2>3 DEF ForegroundGame
<1>15. ASSUME NEW p \in Pkgs, ForegroundOther(p) PROVE [Promised!Next]_(Promised!vars)
  <2>1. m'.wire.slots = {} /\ ~m'.alive /\ ~m'.grabbed /\ profile' = NoPkg /\ On
    BY <1>11, <1>15 DEF ForegroundOther, Stopped
  <2> QED BY <1>6, <1>7, <2>1
<1>16. CASE FocusGained \/ HotkeyOn
  <2>1. /\ On /\ ~Stays /\ profile' = profile /\ ~m.alive
        /\ m' \in IF profile' # NoPkg /\ gameMode' /\ focused' THEN Started(m) ELSE {m}
    BY <1>1, <1>3, <1>16 DEF FocusGained, HotkeyOn
  <2>2. m'.wire.slots = {} /\ (m'.alive <=> focused' /\ gameMode' /\ profile' # NoPkg)
    BY <1>1, <1>3, <1>5, <2>1, StartedEffect
  <2> QED BY <1>3, <1>6, <2>1, <2>2
<1>17. CASE FocusLost \/ HotkeyOff
  <2>1. m'.wire.slots = {} /\ ~m'.alive /\ ~m'.grabbed /\ ~(focused' /\ gameMode') /\ On /\ ~Stays
    BY <1>11, <1>17 DEF FocusLost, HotkeyOff, Stopped
  <2> QED BY <1>6, <2>1
<1>18. CASE Escape \/ SetFocus
  BY <1>10, <1>18 DEF Escape, SetFocus
<1>19. CASE EscapeLast \/ Shutdown
  BY <1>9, <1>11, <1>19 DEF EscapeLast, Shutdown, CleanExit, Stopped
<1>20. ASSUME NEW press \in BOOLEAN, Key(press) \/ TickerOrMouse
       PROVE  [Promised!Next]_(Promised!vars)
  <2>1. m' \in Feed(m) /\ On /\ Stays
    BY <1>20 DEF Key, TickerOrMouse
  <2>2. m'.alive = m.alive /\ m'.grabbed = m.grabbed
    BY <1>1, <2>1, FeedEffect DEF IInv, BackendTracksEngine, IdleMeansUp
  <2> QED BY <1>8, <2>1, <2>2
<1>21. CASE Repair
  <2>1. On /\ Stays /\ m' = [m EXCEPT !.wire = NewWire("wl_touch"), !.fingers = {}]
    BY <1>21 DEF Repair
  <2>2. m'.alive = m.alive /\ m'.grabbed = m.grabbed
    BY <1>1, <2>1 DEF Mappers
  <2> QED BY <1>8, <2>1, <2>2
<1>22. CASE StreamFails
  <2> DEFINE off == Ungrabbed(Dropped(m))
  <2>1. off \in Mappers /\ off.wire = m.wire /\ ~off.alive /\ ~off.grabbed
    BY <1>1, OffEffect
  <2>2. m' = [off EXCEPT !.fingers = {},
                !.wire = IF @.kind = "uinput" THEN [@ EXCEPT !.screen = {}] ELSE @]
    BY <1>22 DEF StreamFails
  <2> HIDE DEF off
  <2>3. ~m'.alive /\ ~m'.grabbed /\ m'.wire.slots = m.wire.slots
    BY <2>1, <2>2 DEF Mappers, Wires
  <2> QED BY <1>9, <1>22, <2>3 DEF StreamFails
<1>23. ASSUME NEW w, w.slots = m.wire.slots, m' = [m EXCEPT !.wire = w],
              UNCHANGED status, Stays
       PROVE  UNCHANGED Promised!vars
  <2>1. m'.alive = m.alive /\ m'.grabbed = m.grabbed /\ m'.wire.slots = m.wire.slots
    BY <1>1, <1>23 DEF Mappers
  <2> QED BY <1>10, <1>23, <2>1
<1>24. CASE RepairWithoutProvider
  <2>1. m' = [m EXCEPT !.wire = [m.wire EXCEPT !.dead = FALSE]]
    BY <1>1, <1>24 DEF RepairWithoutProvider, Mappers
  <2>2. [m.wire EXCEPT !.dead = FALSE].slots = m.wire.slots
    BY <1>1 DEF Mappers, Wires
  <2> QED BY <1>23, <1>24, <2>1, <2>2 DEF RepairWithoutProvider
<1>25. CASE AndroidReads
  <2>1. m' = [m EXCEPT !.wire = Read(m.wire)] /\ Read(m.wire).slots = m.wire.slots
    BY <1>1, <1>25 DEF AndroidReads, Read, Mappers, Wires
  <2> QED BY <1>23, <1>25, <2>1 DEF AndroidReads
<1>26. CASE PipeBreaks
  <2>1. m' = [m EXCEPT !.wire = Hotplug(m.wire)] /\ Hotplug(m.wire).slots = m.wire.slots
    BY <1>1, <1>26 DEF PipeBreaks, Hotplug, Mappers, Wires
  <2> QED BY <1>23, <1>26, <2>1 DEF PipeBreaks
<1>27. CASE UNCHANGED vars
  BY <1>10, <1>27 DEF vars
<1> QED
  BY <1>12, <1>13, <1>14, <1>15, <1>16, <1>17, <1>18, <1>19, <1>20, <1>21, <1>22,
     <1>24, <1>25, <1>26, <1>27 DEF Next

----------------------------------------------------------------------------
(* What the receiver may still come to hold, over every write, every drop, *)
(* every read and every hotplug: never more than the backend's slots.      *)
WireKeepsUp(w) ==
  /\ w.kind = "uinput" => w.fifo = <<>> /\ ~w.broken
  /\ w.broken => w.fifo = <<>> /\ w.screen = {}
  /\ ~w.dropped => Drained(w) \subseteq w.slots

ReceiverKeepsUp == status # "failed" => WireKeepsUp(m.wire)

----------------------------------------------------------------------------
(* What is under way to the receiver.                                      *)

(* With nothing in the FIFO the receiver has seen everything.              *)
LEMMA DrainedEmpty ==
  ASSUME NEW w \in Wires, w.fifo = <<>>
  PROVE  Drained(w) = w.screen
<1>1. Len(w.fifo) = 0 /\ w.screen \in SUBSET Ids
  BY DEF Wires
<1> QED BY <1>1 DEF Drained

(* A record behind the others is seen last.                                *)
LEMMA DrainedAppend ==
  ASSUME NEW w \in Wires, NEW v \in Wires, NEW r \in Records,
         v.screen = w.screen, v.fifo = Append(w.fifo, r)
  PROVE  Drained(v) \subseteq Received(r, Drained(w))
<1> DEFINE n == Len(w.fifo)
<1>1. /\ n \in Nat /\ Len(v.fifo) = n + 1 /\ v.fifo[n + 1] = r
      /\ \A j \in 1 .. n : v.fifo[j] = w.fifo[j]
  BY DEF Wires
<1>2. SUFFICES ASSUME NEW i \in Drained(v) PROVE i \in Received(r, Drained(w))
  OBVIOUS
<1>3. PICK k \in 0 .. n + 1 :
        /\ i \in IF k = 0 THEN v.screen ELSE v.fifo[k].put
        /\ \A j \in (k .. n + 1) \ {0} : i \notin v.fifo[j].lift
  BY <1>1, <1>2 DEF Drained
<1> HIDE DEF n
<1>4. i \notin r.lift /\ i \in Ids
  BY <1>1, <1>2, <1>3 DEF Drained
<1>5. CASE k = n + 1
  BY <1>1, <1>3, <1>4, <1>5 DEF Received
<1>6. CASE k # n + 1
  <2>1. k \in 0 .. n
    BY <1>1, <1>3, <1>6
  <2>2. i \in IF k = 0 THEN w.screen ELSE w.fifo[k].put
    BY <1>1, <1>3, <2>1
  <2>3. \A j \in (k .. n) \ {0} : i \notin w.fifo[j].lift
    BY <1>1, <1>3, <2>1
  <2>4. i \in Drained(w)
    BY <1>4, <2>1, <2>2, <2>3 DEF Drained, n
  <2> QED BY <1>4, <2>4 DEF Received
<1> QED BY <1>5, <1>6

(* Reading a record changes where it is seen, not what.                    *)
LEMMA DrainedRead ==
  ASSUME NEW w \in Wires, w.fifo # <<>>
  PROVE  Drained(Read(w)) \subseteq Drained(w)
<1> DEFINE n == Len(w.fifo)  h == Head(w.fifo)  v == Read(w)
<1>1. /\ n \in Nat /\ n > 0 /\ Len(Tail(w.fifo)) = n - 1 /\ w.fifo[1] = h
      /\ \A j \in 1 .. n - 1 : Tail(w.fifo)[j] = w.fifo[j + 1]
  BY DEF Wires
<1>2. v.fifo = Tail(w.fifo) /\ v.screen = Received(h, w.screen)
  BY DEF Read, Wires
<1> HIDE DEF v, h
<1>3. SUFFICES ASSUME NEW i \in Drained(v) PROVE i \in Drained(w)
  BY DEF v
<1>4. PICK k \in 0 .. n - 1 :
        /\ i \in IF k = 0 THEN v.screen ELSE v.fifo[k].put
        /\ \A j \in (k .. n - 1) \ {0} : i \notin v.fifo[j].lift
  BY <1>1, <1>2, <1>3 DEF Drained
<1> HIDE DEF n
<1>5. i \in Ids
  BY <1>3 DEF Drained
<1>6. \A j \in (k + 1 .. n) \ {1} : i \notin w.fifo[j].lift
  <2> SUFFICES ASSUME NEW j \in (k + 1 .. n) \ {1} PROVE i \notin w.fifo[j].lift
    OBVIOUS
  <2>1. j - 1 \in (k .. n - 1) \ {0} /\ j - 1 \in 1 .. n - 1 /\ (j - 1) + 1 = j
    BY <1>1, <1>4
  <2> QED BY <1>1, <1>2, <1>4, <2>1
<1>7. CASE k # 0
  <2>1. k + 1 \in 0 .. n /\ k + 1 # 0 /\ i \in w.fifo[k + 1].put
    BY <1>1, <1>2, <1>4, <1>7
  <2>2. \A j \in (k + 1 .. n) \ {0} : i \notin w.fifo[j].lift
    BY <1>1, <1>4, <1>6, <1>7
  <2> QED BY <1>5, <2>1, <2>2 DEF Drained, n
<1>8. CASE k = 0
  <2>1. i \in w.screen \cup w.fifo[1].put /\ i \notin w.fifo[1].lift
    BY <1>1, <1>2, <1>4, <1>8 DEF Received
  <2>2. \A j \in 1 .. n : i \notin w.fifo[j].lift
    BY <1>1, <1>6, <1>8, <2>1
  <2>3. CASE i \in w.screen
    <3>1. 0 \in 0 .. n /\ \A j \in (0 .. n) \ {0} : i \notin w.fifo[j].lift
      BY <1>1, <2>2
    <3> QED BY <1>5, <2>3, <3>1 DEF Drained, n
  <2>4. CASE i \in w.fifo[1].put
    <3>1. 1 \in 0 .. n /\ 1 # 0 /\ \A j \in (1 .. n) \ {0} : i \notin w.fifo[j].lift
      BY <1>1, <2>2
    <3> QED BY <1>5, <2>4, <3>1 DEF Drained, n
  <2> QED BY <2>1, <2>3, <2>4
<1> QED BY <1>7, <1>8

(* A legal frame keeps the receiver within the slots, whatever happens to  *)
(* the write.                                                              *)
LEMMA DispatchKeepsUp ==
  ASSUME NEW w \in Wires, NEW f \in Frames, f.move \subseteq w.slots, WireKeepsUp(w)
  PROVE  WireKeepsUp(Dispatch(w, f))
<1> DEFINE d == Dispatch(w, f)  r == Encode(f)
<1>1. d \in Wires /\ d.slots = After(f, w.slots)
  BY DispatchEffect
<1>2. r \in Records /\ Received(r, w.slots) = After(f, w.slots)
  BY DEF Encode, Records, Received, After, Frames, Wires
<1>3. w.kind \in {"uinput", "wl_touch"}
  BY DEF Wires
<1>4. CASE w.kind = "uinput"
  <2>1. d = DispatchUinput(w, f)
    BY <1>4 DEF Dispatch
  <2>2. w.fifo = <<>> /\ Drained(w) = w.screen
    BY <1>4, DrainedEmpty DEF WireKeepsUp
  <2>3. /\ d.fifo = <<>> /\ d.kind = "uinput" /\ d.screen = After(f, w.screen)
        /\ d.broken = w.broken /\ d.dropped = w.dropped
    BY <1>4, <2>1, <2>2 DEF DispatchUinput, Wires
  <2>4. Drained(d) = d.screen
    BY <1>1, <2>3, DrainedEmpty
  <2>5. ~w.broken
    BY <1>4 DEF WireKeepsUp
  <2> HIDE DEF d
  <2>6. WireKeepsUp(d)
    BY <1>1, <2>2, <2>3, <2>4, <2>5 DEF WireKeepsUp, After
  <2> QED BY <2>6 DEF d
<1>5. CASE w.kind = "wl_touch"
  <2> DEFINE s == [w EXCEPT !.slots = Received(r, @)]
  <2>1. d = IF w.broken THEN s
            ELSE IF Len(w.fifo) = FifoCap THEN [s EXCEPT !.dropped = TRUE]
            ELSE [s EXCEPT !.fifo = Append(@, r)]
    BY <1>5 DEF Dispatch, DispatchPipe, Wires
  <2>2. CASE w.broken
    <3>1. /\ d.fifo = w.fifo /\ d.screen = w.screen /\ d.kind = w.kind
      BY <2>1, <2>2 DEF Wires
    <3>2. Drained(d) = {}
      BY <1>1, <2>2, <3>1, DrainedEmpty DEF WireKeepsUp
    <3> QED BY <1>5, <2>2, <3>1, <3>2 DEF WireKeepsUp
  <2>3. CASE ~w.broken /\ Len(w.fifo) = FifoCap
    <3>1. d.dropped = TRUE /\ d.broken = w.broken /\ d.kind = w.kind
      BY <2>1, <2>3 DEF Wires
    <3> QED BY <1>5, <2>3, <3>1 DEF WireKeepsUp
  <2>4. CASE ~w.broken /\ Len(w.fifo) # FifoCap
    <3>1. /\ d.fifo = Append(w.fifo, r) /\ d.screen = w.screen /\ d.kind = w.kind
          /\ d.broken = w.broken /\ d.dropped = w.dropped
      BY <2>1, <2>4 DEF Wires
    <3>2. Drained(d) \subseteq Received(r, Drained(w))
      BY <1>1, <1>2, <3>1, DrainedAppend
    <3> HIDE DEF d, r
    <3>3. WireKeepsUp(d)
      BY <1>1, <1>2, <1>5, <2>4, <3>1, <3>2 DEF WireKeepsUp, Received
    <3> QED BY <3>3 DEF d
  <2> QED BY <2>2, <2>3, <2>4
<1> QED BY <1>3, <1>4, <1>5

(* The fields WireKeepsUp reads are all it depends on.                     *)
LEMMA SameWireKeepsUp ==
  ASSUME NEW w \in Wires, NEW v \in Wires, WireKeepsUp(w),
         v.kind = w.kind, v.fifo = w.fifo, v.broken = w.broken,
         v.dropped = w.dropped, v.screen = w.screen, v.slots = w.slots
  PROVE  WireKeepsUp(v)
BY DEF WireKeepsUp, Drained

(* The same for emit_touch! and for lifting everything.                    *)
LEMMA EmitKeepsUp ==
  ASSUME NEW w \in Wires, NEW f \in Frames, f.move \subseteq w.slots, WireKeepsUp(w)
  PROVE  WireKeepsUp(Emit(w, f))
<1> DEFINE d == Dispatch(w, f)  e == Emit(w, f)
<1>1. d \in Wires /\ WireKeepsUp(d) /\ e \in Wires
  BY DispatchEffect, DispatchKeepsUp, EmitEffect
<1>2. CASE f = NoFrame
  BY <1>2 DEF Emit
<1>3. CASE f # NoFrame
  <2>1. e = [d EXCEPT !.dead = @ \/ Fails(w, f)]
    BY <1>3 DEF Emit
  <2> HIDE DEF d, e
  <2>2. /\ e.kind = d.kind /\ e.fifo = d.fifo /\ e.broken = d.broken
        /\ e.dropped = d.dropped /\ e.screen = d.screen /\ e.slots = d.slots
    BY <1>1, <2>1 DEF Wires
  <2>3. WireKeepsUp(e)
    BY <1>1, <2>2, SameWireKeepsUp
  <2> QED BY <2>3 DEF e
<1> QED BY <1>2, <1>3

LEMMA LiftedKeepsUp ==
  ASSUME NEW x \in Mappers, WireKeepsUp(x.wire)
  PROVE  WireKeepsUp(Lifted(x).wire)
<1> DEFINE w == IF x.alive THEN Emit(x.wire, Lifting(x.fingers)) ELSE x.wire
<1>1. \A I \in SUBSET Ids : Lifting(I) \in Frames /\ Lifting(I).move = {}
  BY DEF Lifting, NoFrame, Frames
<1>2. x.wire \in Wires /\ x.fingers \in SUBSET Ids
  BY DEF Mappers
<1>3. w \in Wires /\ WireKeepsUp(w)
  BY <1>1, <1>2, EmitEffect, EmitKeepsUp
<1>4. Lifted(x).wire = ReleaseAll(w)
  BY DEF Lifted, Mappers
<1> HIDE DEF w
<1>5. WireKeepsUp(ReleaseAll(w))
  <2>1. w.slots \in SUBSET Ids
    BY <1>3 DEF Wires
  <2>2. WireKeepsUp(Dispatch(w, Lifting(w.slots)))
    BY <1>1, <1>3, <2>1, DispatchKeepsUp
  <2> QED BY <1>3, <2>2 DEF ReleaseAll
<1> QED BY <1>4, <1>5

(* An engine step.                                                         *)
LEMMA FeedKeepsUp ==
  ASSUME NEW x \in Mappers, NEW y \in Feed(x), x.wire.slots = x.fingers, WireKeepsUp(x.wire)
  PROVE  WireKeepsUp(y.wire)
<1>1. CASE ~x.alive
  BY <1>1 DEF Feed
<1>2. CASE x.alive
  <2>1. PICK f \in FramesFrom(x.fingers) :
          y = [x EXCEPT !.fingers = After(f, @), !.wire = Emit(@, f)]
    BY <1>2 DEF Feed
  <2>2. x.fingers \in SUBSET Ids /\ x.wire \in Wires
    BY DEF Mappers
  <2>3. f \in Frames /\ f.move \subseteq x.fingers
    BY <2>1, <2>2 DEF FramesFrom, Frames
  <2>4. WireKeepsUp(Emit(x.wire, f)) /\ y.wire = Emit(x.wire, f)
    BY <2>1, <2>2, <2>3, EmitKeepsUp DEF Mappers
  <2> QED BY <2>4
<1> QED BY <1>1, <1>2

(* A new wire.                                                             *)
LEMMA NewWireKeepsUp ==
  ASSUME NEW k \in {"uinput", "wl_touch"}
  PROVE  WireKeepsUp(NewWire(k))
<1>1. NewWire(k) \in Wires /\ NewWire(k).fifo = <<>> /\ NewWire(k).screen = {}
      /\ ~NewWire(k).broken
  BY NewWireEffect DEF NewWire
<1>2. Drained(NewWire(k)) = {}
  BY <1>1, DrainedEmpty
<1> QED BY <1>1, <1>2 DEF WireKeepsUp

----------------------------------------------------------------------------
(* The receiver keeps up.                                                  *)

(* It does at first.                                                       *)
LEMMA InitReceiver == Init => ReceiverKeepsUp
BY NewWireKeepsUp DEF Init, ReceiverKeepsUp

(* Every arm and every step of the environment keeps it so.                *)
LEMMA StepReceiver ==
  ASSUME IInv, ReceiverKeepsUp, [Next]_vars
  PROVE  ReceiverKeepsUp'
<1> USE DEF Running, ReceiverKeepsUp
<1>1. m \in Mappers /\ m.wire \in Wires /\ m.alive \in BOOLEAN /\ cfg \in Configs
  BY DEF IInv, TypeOK, Mappers
<1>2. /\ status # "failed" => WireKeepsUp(m.wire) /\ m.wire.slots = m.fingers
      /\ m.mouseGrab => m.grabbed
      /\ m.grabbed => m.alive /\ cfg.grab
  BY DEF IInv, BackendTracksEngine, GrabNeedsMapping
<1> DEFINE Stopped == Ungrabbed(Dropped(Lifted(m)))
<1>3. status # "failed" => WireKeepsUp(Lifted(m).wire) /\ WireKeepsUp(Stopped.wire)
  <2>1. Lifted(m) \in Mappers
    BY <1>1, LiftedEffect
  <2> QED BY <1>1, <1>2, <2>1, LiftedKeepsUp, OffEffect
<1> HIDE DEF Stopped
<1>4. ASSUME m' = Stopped, status # "failed" PROVE ReceiverKeepsUp'
  BY <1>3, <1>4
<1>5. ASSUME m'.wire = m.wire, status' = status PROVE ReceiverKeepsUp'
  BY <1>5
<1>6. ASSUME NEW x \in {m, Lifted(m)}, m' \in Started(x), status = "running"
      PROVE  ReceiverKeepsUp'
  <2>1. x \in Mappers /\ x.mouseGrab = m.mouseGrab /\ x.grabbed = m.grabbed
    BY <1>1, <1>6, LiftedEffect
  <2>2. m'.wire = x.wire
    BY <1>1, <1>2, <1>6, <2>1, StartedEffect
  <2> QED BY <1>2, <1>3, <1>6, <2>2
<1>7. ASSUME NEW p \in Pkgs,
             ForegroundSame(p) \/ ForegroundOverlay(p) \/ ForegroundGame(p) \/ ForegroundOther(p)
      PROVE  ReceiverKeepsUp'
  BY <1>3, <1>4, <1>5, <1>6, <1>7 DEF ForegroundSame, ForegroundOverlay, ForegroundGame,
     ForegroundOther, Stopped
<1>8. CASE FocusGained \/ HotkeyOn
  BY <1>5, <1>6, <1>8 DEF FocusGained, HotkeyOn
<1>9. CASE FocusLost \/ HotkeyOff \/ EscapeLast \/ Shutdown
  BY <1>4, <1>9 DEF FocusLost, HotkeyOff, EscapeLast, Shutdown, CleanExit, Stopped
<1>10. CASE Escape \/ SetFocus
  BY <1>5, <1>10 DEF Escape, SetFocus
<1>11. ASSUME NEW press \in BOOLEAN, Key(press) \/ TickerOrMouse PROVE ReceiverKeepsUp'
  <2>1. m' \in Feed(m) /\ status = "running"
    BY <1>11 DEF Key, TickerOrMouse
  <2> QED BY <1>1, <1>2, <2>1, FeedKeepsUp
<1>12. CASE Repair
  <2>1. m'.wire = NewWire("wl_touch")
    BY <1>1, <1>12 DEF Repair, Mappers
  <2> QED BY <2>1, NewWireKeepsUp
<1>13. CASE RepairWithoutProvider
  <2>1. m'.wire = [m.wire EXCEPT !.dead = FALSE] /\ status = "running"
    BY <1>1, <1>13 DEF RepairWithoutProvider, Mappers
  <2>2. /\ m'.wire \in Wires /\ m'.wire.kind = m.wire.kind /\ m'.wire.fifo = m.wire.fifo
        /\ m'.wire.broken = m.wire.broken /\ m'.wire.dropped = m.wire.dropped
        /\ m'.wire.screen = m.wire.screen /\ m'.wire.slots = m.wire.slots
    BY <1>1, <2>1 DEF Wires
  <2> QED BY <1>1, <1>2, <2>1, <2>2, SameWireKeepsUp
<1>14. CASE AndroidReads
  <2> DEFINE w == Read(m.wire)
  <2>1. m'.wire = w /\ status' = status /\ m.wire.fifo # <<>>
    BY <1>1, <1>14 DEF AndroidReads, CanRead, Mappers
  <2>2. w.kind = m.wire.kind /\ w.broken = m.wire.broken /\ w.dropped = m.wire.dropped
        /\ w.slots = m.wire.slots
    BY <1>1 DEF Read, Wires
  <2>3. Drained(w) \subseteq Drained(m.wire)
    BY <1>1, <2>1, DrainedRead
  <2> HIDE DEF w
  <2> QED BY <1>2, <2>1, <2>2, <2>3 DEF WireKeepsUp
<1>15. CASE PipeBreaks
  <2> DEFINE w == Hotplug(m.wire)
  <2>1. m'.wire = w /\ m.wire.kind # "uinput"
    BY <1>1, <1>15 DEF PipeBreaks, Mappers
  <2>2. <<>> \in Seq(Records)
    OBVIOUS
  <2>3. w \in Wires /\ w.fifo = <<>> /\ w.screen = {} /\ w.kind = m.wire.kind
    BY <1>1, <2>2 DEF Hotplug, Wires
  <2>4. Drained(w) = {}
    BY <2>3, DrainedEmpty
  <2> HIDE DEF w
  <2> QED BY <2>1, <2>3, <2>4 DEF WireKeepsUp
<1>16. CASE StreamFails
  BY <1>16 DEF StreamFails
<1>17. CASE UNCHANGED vars
  BY <1>5, <1>17 DEF vars
<1> QED
  BY <1>7, <1>8, <1>9, <1>10, <1>11, <1>12, <1>13, <1>14, <1>15, <1>16, <1>17 DEF Next

----------------------------------------------------------------------------
(* Theorems.                                                               *)

(* The inductive invariant holds in every reachable state of the runner.   *)
THEOREM InvariantHolds == Spec => []IInv
BY InitIInv, StepIInv, PTL DEF Spec

(* The loop's locals and the published state keep their types.             *)
THEOREM TypeCorrect == Spec => []TypeOK
<1>1. IInv => TypeOK
  BY DEF IInv
<1> QED BY <1>1, InvariantHolds, PTL

(* No engine without focus, game mode and a profile.                       *)
THEOREM NoMappingOnTheDesktop == Spec => []MappingNeedsFocus
<1>1. IInv => MappingNeedsFocus
  BY DEF IInv
<1> QED BY <1>1, InvariantHolds, PTL

(* No grab without an engine that maps the grabbed device.                 *)
THEOREM NoLockOut == Spec => []GrabNeedsMapping
<1>1. IInv => GrabNeedsMapping
  BY DEF IInv
<1> QED BY <1>1, InvariantHolds, PTL

(* release_all would lift exactly the engine's fingers, at every turn.     *)
THEOREM ReleaseAllIsExact == Spec => []BackendTracksEngine
<1>1. IInv => BackendTracksEngine
  BY DEF IInv
<1> QED BY <1>1, InvariantHolds, PTL

(* The published state is the held state, and explains a missing engine.   *)
THEOREM StatusIsTrue == Spec => []StatusTells
<1>1. IInv => StatusTells
  BY DEF IInv, StatusTells
<1> QED BY <1>1, InvariantHolds, PTL

(* Whichever arm dropped the engine, no finger is left at the receiver     *)
(* once it has read the FIFO: for every sequence of writes, full FIFOs     *)
(* apart, reads, hotplugs, repairs and rebuilt engines.                    *)
THEOREM NoFingerIsLeft == Spec => []NoFingerWithoutEngine
<1>1. Spec => []ReceiverKeepsUp
  BY InitReceiver, StepReceiver, InvariantHolds, PTL DEF Spec
<1>2. IInv /\ ReceiverKeepsUp => NoFingerWithoutEngine
  BY DEF IInv, BackendTracksEngine, IdleMeansUp, ReceiverKeepsUp, WireKeepsUp,
     NoFingerWithoutEngine
<1> QED BY <1>1, <1>2, InvariantHolds, PTL

(* The runner implements the gate.                                         *)
THEOREM ImplementsTheGate == Spec => RefinesGate
<1>1. Init => Promised!Init
  BY InitGate
<1>2. IInv /\ IInv' /\ CurrentIsProfile /\ [Next]_vars => [Promised!Next]_(Promised!vars)
  BY StepGate
<1>3. Spec => []CurrentIsProfile
  BY InitCurrent, StepCurrent, PTL DEF Spec
<1> QED BY <1>1, <1>2, <1>3, InvariantHolds, PTL DEF Spec, RefinesGate, Promised!Spec
=============================================================================
