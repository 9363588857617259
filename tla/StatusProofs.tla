---------------------------- MODULE StatusProofs ----------------------------
(***************************************************************************)
(* A stop of the key mapper reaches every client, for any number of        *)
(* callers and channels of any size, and with the launcher beside it.      *)
(***************************************************************************)
EXTENDS Launcher, TLAPS

(* Of what runs no more, a client shows only what the call that stopped it *)
(* is about to announce.                                                   *)
StopIsOwed ==
  ~on => \A f \in Fields : view[f] => \E c \in Callers : f \in owed[c]

IInv == TypeOK /\ StopIsOwed

----------------------------------------------------------------------------
LEMMA InitIInv == Init => IInv
<1> SUFFICES ASSUME Init PROVE IInv
  OBVIOUS
<1> USE DEF Init, Off, NoLoop, Fields
<1>1. evs \in 0 .. EvCap /\ sink \in 0 .. SinkCap
  BY CapsAssumption
<1>2. owed \in [Announcers -> SUBSET Fields]
  OBVIOUS
<1>3. TypeOK
  BY <1>1, <1>2 DEF TypeOK
<1>4. StopIsOwed
  BY DEF StopIsOwed
<1> QED BY <1>3, <1>4 DEF IInv

(* What the getters read has the type of the state.                        *)
LEMMA TruthType == TypeOK => Truth \in [Fields -> BOOLEAN]
BY DEF TypeOK, Truth, Off

LEMMA SentType == TypeOK => Sent \in 0 .. EvCap
BY CapsAssumption DEF TypeOK, Sent

LEMMA TypeStep == TypeOK /\ [Next]_vars => TypeOK'
<1> SUFFICES ASSUME TypeOK, [Next]_vars PROVE TypeOK'
  OBVIOUS
<1>1. ASSUME NEW c \in Callers, Start(c) PROVE TypeOK'
  <2>1. owed' \in [Announcers -> SUBSET Fields]
    BY <1>1 DEF Start, TypeOK, Fields
  <2>2. 0 \in 0 .. EvCap
    BY CapsAssumption
  <2>3. Off \in [Fields -> BOOLEAN]
    BY DEF Off
  <2> QED BY <1>1, <2>1, <2>2, <2>3 DEF Start, TypeOK
<1>2. ASSUME NEW c \in Callers, Stop(c) PROVE TypeOK'
  <2>1. owed' \in [Announcers -> SUBSET Fields]
    BY <1>2 DEF Stop, TypeOK
  <2>2. 0 \in 0 .. EvCap
    BY CapsAssumption
  <2>3. Off \in [Fields -> BOOLEAN]
    BY DEF Off
  <2>4. NoLoop \in [focus : BOOLEAN, game : BOOLEAN, hotkey : BOOLEAN]
    BY DEF NoLoop
  <2> QED BY <1>2, <2>1, <2>2, <2>3, <2>4 DEF Stop, Discarded, TypeOK
<1>3. CASE Opens
  <2>1. loop' \in [focus : BOOLEAN, game : BOOLEAN, hotkey : BOOLEAN]
    BY <1>3 DEF Opens
  <2>2. rs' \in [Fields -> BOOLEAN]
    BY <1>3 DEF Opens, TypeOK
  <2> QED BY <1>3, <2>1, <2>2 DEF Opens, TypeOK
<1>4. CASE FocusArm
  <2>1. loop' \in [focus : BOOLEAN, game : BOOLEAN, hotkey : BOOLEAN]
    BY <1>4 DEF FocusArm, TypeOK
  <2> QED BY <1>4, <2>1, SentType DEF FocusArm, TypeOK
<1>5. CASE HotkeyArm
  <2>1. loop' \in [focus : BOOLEAN, game : BOOLEAN, hotkey : BOOLEAN]
    BY <1>5 DEF HotkeyArm, TypeOK
  <2> QED BY <1>5, <2>1, SentType DEF HotkeyArm, TypeOK, Fields
<1>6. CASE EscapeArm
  BY <1>6, SentType DEF EscapeArm, TypeOK, Fields
<1>7. CASE Saves
  <2>1. loop' \in [focus : BOOLEAN, game : BOOLEAN, hotkey : BOOLEAN]
    <3>1. loop' = NoLoop \/ loop' = loop
      BY <1>7 DEF Saves
    <3>2. NoLoop \in [focus : BOOLEAN, game : BOOLEAN, hotkey : BOOLEAN]
      BY DEF NoLoop
    <3>3. loop \in [focus : BOOLEAN, game : BOOLEAN, hotkey : BOOLEAN]
      BY DEF TypeOK
    <3> QED BY <3>1, <3>2, <3>3
  <2>2. rs' \in [Fields -> BOOLEAN]
    <3>1. \A f \in Fields : rs[f] \in BOOLEAN /\ loop.game \in BOOLEAN
      BY DEF TypeOK
    <3>2. \A f \in Fields : (IF f = unsaved THEN f = "game" /\ loop.game ELSE rs[f]) \in BOOLEAN
      BY <3>1
    <3> QED BY <1>7, <3>2 DEF Saves
  <2> QED BY <1>7, <2>1, <2>2 DEF Saves, TypeOK
<1>8. CASE Fails
  BY <1>8 DEF Fails, TypeOK, NoLoop
<1>9. CASE Forwards
  <2>1. evs' \in 0 .. EvCap /\ sink' \in 0 .. SinkCap
    BY <1>9, CapsAssumption DEF Forwards, TypeOK
  <2> QED BY <1>9, <2>1 DEF Forwards, TypeOK, runner
<1>10. CASE Snapshot
  BY <1>10, TruthType DEF Snapshot, TypeOK, runner
<1>11. CASE Receives
  <2>1. sink' \in 0 .. SinkCap
    BY <1>11, CapsAssumption DEF Receives, TypeOK
  <2> QED BY <1>11, <2>1 DEF Receives, TypeOK, runner
<1>12. CASE Reads
  <2>1. owed' \in [Announcers -> SUBSET Fields]
    BY <1>12 DEF Reads, TypeOK
  <2> QED BY <1>12, <2>1, TruthType DEF Reads, TypeOK, runner
<1>13. ASSUME NEW a \in Announcers, Announces(a) PROVE TypeOK'
  <2>1. PICK f \in owed[a] : /\ owed' = [owed EXCEPT ![a] = @ \ {f}]
                             /\ view' = [view EXCEPT ![f] = Truth[f]]
    BY <1>13 DEF Announces
  <2>2. f \in Fields /\ owed' \in [Announcers -> SUBSET Fields]
    BY <2>1 DEF TypeOK
  <2>3. view' \in [Fields -> BOOLEAN]
    BY <2>1, <2>2, TruthType DEF TypeOK
  <2> QED BY <1>13, <2>2, <2>3 DEF Announces, TypeOK, runner
<1>14. CASE UNCHANGED vars
  BY <1>14 DEF vars, runner, TypeOK
<1> QED BY <1>1, <1>2, <1>3, <1>4, <1>5, <1>6, <1>7, <1>8, <1>9, <1>10, <1>11, <1>12, <1>13, <1>14
        DEF Next

(* What is owed is paid with the truth, and a new call only begins when    *)
(* the caller owes nothing.                                                *)
LEMMA OwedStep == TypeOK /\ StopIsOwed /\ [Next]_vars => StopIsOwed'
<1> SUFFICES ASSUME TypeOK, StopIsOwed, [Next]_vars, ~on',
                    NEW f \in Fields, view'[f]
             PROVE  \E c \in Callers : f \in owed'[c]
  BY DEF StopIsOwed
<1>1. ASSUME NEW c \in Callers, Start(c) PROVE FALSE
  BY <1>1 DEF Start, TypeOK
<1>2. ASSUME NEW c \in Callers, Stop(c) PROVE \E d \in Callers : f \in owed'[d]
  <2>1. owed'[c] = Fields
    BY <1>2 DEF Stop, TypeOK, Announcers
  <2> QED BY <2>1
<1>3. ASSUME UNCHANGED <<on, owed, view>> PROVE \E c \in Callers : f \in owed'[c]
  BY <1>3 DEF StopIsOwed
<1>4. CASE Opens \/ FocusArm \/ HotkeyArm \/ EscapeArm \/ Saves \/ Fails
  BY <1>3, <1>4 DEF Opens, FocusArm, HotkeyArm, EscapeArm, Saves, Fails
<1>5. CASE Forwards \/ Snapshot \/ Receives
  BY <1>3, <1>5 DEF Forwards, Snapshot, Receives
<1>6. CASE Reads
  <2>1. ~on /\ UNCHANGED view
    BY <1>6 DEF Reads
  <2>2. PICK c \in Callers : f \in owed[c]
    BY <2>1 DEF StopIsOwed
  <2>3. owed'[c] = owed[c]
    BY <1>6, EmitterAssumption DEF Reads, TypeOK, Announcers
  <2> QED BY <2>2, <2>3
<1>7. ASSUME NEW a \in Announcers, Announces(a) PROVE \E c \in Callers : f \in owed'[c]
  <2>1. PICK g \in owed[a] : /\ owed' = [owed EXCEPT ![a] = @ \ {g}]
                             /\ view' = [view EXCEPT ![g] = Truth[g]]
    BY <1>7 DEF Announces
  <2>2. ~on /\ g \in Fields
    BY <1>7 DEF Announces, TypeOK
  <2>3. ~Truth[g]
    BY <2>2 DEF Truth, Off
  <2>4. f # g /\ view[f]
    BY <2>1, <2>2, <2>3 DEF TypeOK
  <2>5. PICK c \in Callers : f \in owed[c]
    BY <2>2, <2>4 DEF StopIsOwed
  <2>6. f \in owed'[c]
    BY <2>1, <2>4, <2>5 DEF TypeOK, Announcers
  <2> QED BY <2>5, <2>6
<1>8. CASE UNCHANGED vars
  BY <1>3, <1>8 DEF vars
<1> QED BY <1>1, <1>2, <1>4, <1>5, <1>6, <1>7, <1>8 DEF Next

LEMMA IInvStops == IInv => StopIsSeen
BY DEF IInv, StopIsOwed, StopIsSeen, Fields

(* Once the calls have returned and no mapper is held, no client shows a   *)
(* running one or game mode.                                               *)
THEOREM StopReachesClients == Spec => []StopIsSeen
<1>1. IInv /\ [Next]_vars => IInv'
  BY TypeStep, OwedStep DEF IInv
<1> QED BY <1>1, InitIInv, IInvStops, PTL DEF Spec

(* A step of the launcher's specification is one of the daemon's or leaves *)
(* the daemon as it is.                                                    *)
LEMMA LauncherStep == [LauncherNext]_LauncherVars => [Next]_vars
<1> SUFFICES ASSUME [LauncherNext]_LauncherVars PROVE [Next]_vars
  OBVIOUS
<1>1. CASE Announced
  BY <1>1 DEF Announced, Next
<1>2. CASE Silent
  BY <1>2 DEF Silent, Next
<1>3. CASE UNCHANGED vars
  BY <1>3
<1>4. CASE UNCHANGED LauncherVars
  BY <1>4 DEF LauncherVars
<1> QED BY <1>1, <1>2, <1>3, <1>4 DEF LauncherNext

(* The launcher is a client like any other: the composition implements the *)
(* daemon's specification, and its client hears of every stop.             *)
THEOREM LauncherImplementsStatus == LauncherSpec => Spec
<1>1. LauncherInit => Init
  BY DEF LauncherInit
<1> QED BY <1>1, LauncherStep, PTL DEF LauncherSpec, Spec

(* So the launcher's own copy is never left with a mapper that was stopped.*)
THEOREM StopReachesTheLauncher == LauncherSpec => []StopIsSeen
BY LauncherImplementsStatus, StopReachesClients, PTL
=============================================================================
