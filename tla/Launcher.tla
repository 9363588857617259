------------------------------ MODULE Launcher ------------------------------
(***************************************************************************)
(* What the launcher shows of the daemon (crates/liw-ui/src/state.rs, with *)
(* its client crates/liw-core/src/manager.rs), composed with what the      *)
(* daemon announces (module Status).                                       *)
(*                                                                         *)
(* reload() reads everything once and then subscribes; a task, the pump,   *)
(* reads a snapshot after each change signal, and every 2 s while the last *)
(* snapshot showed a running mapper. The signal comes to the pump on a     *)
(* connection of its own, and the properties are read from the copy its    *)
(* proxy keeps, which the same signal updates at its own time. A reload    *)
(* has proxies of its own. Of a snapshot keymapper_running is kept, the    *)
(* launcher's Link is not; signals that wait together count as one.        *)
(***************************************************************************)
EXTENDS Status

VARIABLES
  pump,      \* "none" (or ended), "connecting", "waiting", "reading"
  signalled, \* a change signal waits for the pump
  warm,      \* it has read before, so its proxy keeps the properties
  cache,     \* what the proxy keeps
  behind,    \* a signal the proxy has not applied yet
  mapping,   \* the last snapshot of the pump showed a running mapper
  shown      \* AppState.snapshot

watch == <<pump, signalled, warm, cache, behind, mapping>>
launcher == <<watch, shown>>

----------------------------------------------------------------------------
(* start_watching: the old pump is dropped.                                *)
StartWatching ==
  /\ pump' = "connecting"
  /\ signalled' = FALSE /\ warm' = FALSE /\ cache' = FALSE /\ behind' = FALSE
  /\ mapping' = FALSE

(* AppState::reload, at the start and after an installation. The icons,    *)
(* the devices and the artwork are read after the snapshot: the time until *)
(* there is a subscription is longer than that of its connection.          *)
Reload ==
  /\ shown' = Truth["running"]
  /\ StartWatching

----------------------------------------------------------------------------
(* The pump.                                                               *)

(* A connection that cannot be made ends it without a word.                *)
Subscribe ==
  /\ pump = "connecting"
  /\ pump' \in {"waiting", "none"}
  /\ UNCHANGED <<signalled, warm, cache, behind, mapping, shown>>

Changed ==
  /\ pump = "waiting" /\ signalled
  /\ signalled' = FALSE /\ pump' = "reading"
  /\ UNCHANGED <<warm, cache, behind, mapping, shown>>

(* Mutant of Tick: signals only.                                           *)
NoTick == pump = "none" /\ UNCHANGED launcher

(* The 2 s tick, "only while the keymapper is actually running".           *)
Tick ==
  /\ pump = "waiting" /\ mapping
  /\ pump' = "reading"
  /\ UNCHANGED <<signalled, warm, cache, behind, mapping, shown>>

(* Manager::snapshot, and what it says is shown.                           *)
ReadSnapshot ==
  /\ pump = "reading" /\ pump' = "waiting"
  /\ warm' = TRUE /\ cache' = IF warm THEN cache ELSE Truth["running"]
  /\ shown' = cache' /\ mapping' = cache'
  /\ UNCHANGED <<signalled, behind>>

(* The proxy applies a signal.                                             *)
CatchUp ==
  /\ behind /\ behind' = FALSE
  /\ cache' = view["running"]
  /\ UNCHANGED <<pump, signalled, warm, mapping, shown>>

----------------------------------------------------------------------------
(* A signal of the daemon reaches those who have subscribed.               *)
Announced ==
  /\ \E a \in Announcers :
       /\ Announces(a)
       /\ behind' = (behind \/ (warm /\ "running" \in owed[a] \ owed'[a]))
  /\ signalled' = (signalled \/ pump \in {"waiting", "reading"})
  /\ UNCHANGED <<pump, warm, cache, mapping, shown>>

(* Everything else the daemon does.                                        *)
Silent ==
  \/ \E c \in Callers : Start(c) \/ Stop(c)
  \/ Opens \/ FocusArm \/ HotkeyArm \/ EscapeArm \/ Saves \/ Fails
  \/ Forwards \/ Snapshot \/ Receives \/ Reads

Shows ==
  Reload \/ Subscribe \/ Changed \/ Tick \/ ReadSnapshot \/ CatchUp

LauncherInit ==
  /\ Init
  /\ pump = "none" /\ signalled = FALSE /\ warm = FALSE /\ cache = FALSE
  /\ behind = FALSE /\ mapping = FALSE /\ shown = FALSE

LauncherNext ==
  \/ Announced
  \/ Silent /\ UNCHANGED launcher
  \/ Shows /\ UNCHANGED vars

LauncherVars == <<vars, launcher>>
LauncherSpec == LauncherInit /\ [][LauncherNext]_LauncherVars

(* The tasks of the daemon and of the launcher go on; nothing is asked of  *)
(* the user and the runner.                                                *)
LauncherFairSpec ==
  /\ LauncherSpec
  /\ WF_LauncherVars(Announced)
  /\ WF_LauncherVars(ReadSnapshot /\ UNCHANGED vars)
  /\ WF_LauncherVars(CatchUp /\ UNCHANGED vars)
  /\ WF_LauncherVars((Changed \/ Tick) /\ UNCHANGED vars)

----------------------------------------------------------------------------
(* Properties.                                                             *)

(* A mapper that the pump has shown as running and a call has stopped      *)
(* leaves the screen, though the signal may be heard before the proxy has  *)
(* its value: the read that comes too early is followed by one of the      *)
(* tick.                                                                   *)
StoppedLeavesTheScreen ==
  (mapping /\ ~on) ~> (~shown \/ on \/ pump = "connecting")

(* The same without the pump having seen it ("this file subscribes"): a    *)
(* mapper that stops between the snapshot of a reload and the subscription *)
(* stays on the screen.                                                    *)
SubscribedInTime ==
  (~on /\ shown) ~> (~shown \/ on \/ pump = "none")
=============================================================================
