------------------------------- MODULE Status -------------------------------
(***************************************************************************)
(* How the state of the key mapper reaches D-Bus clients: the runner's     *)
(* events through two channels (crates/liw-input/src/runner.rs,            *)
(* crates/liwd/src/keymapper.rs), the task emit_keymapper and the calls    *)
(* StartKeymapper and StopKeymapper of crates/liwd/src/main.rs, and a      *)
(* client that keeps what is announced (crates/liw-core/src/manager.rs,    *)
(* crates/liw-ui/src/state.rs).                                            *)
(*                                                                         *)
(* The handle (module Keymapper) is one variable: start and stop are one   *)
(* step each, because every reader of the state waits for their lock. Of   *)
(* RunnerState `running' and `game' (game_mode) are kept: those that a     *)
(* stop announces. The other fields, like host_focused, are written and    *)
(* announced by the events only.                                           *)
(***************************************************************************)
EXTENDS Naturals

CONSTANTS
  Callers,   \* those who call StartKeymapper and StopKeymapper
  Emitter,   \* the emit_keymapper task
  EvCap,     \* the channel from the runner to the handle (16)
  SinkCap    \* the channel out of the handle (64)

ASSUME EmitterAssumption == Emitter \notin Callers
ASSUME CapsAssumption == EvCap \in Nat \ {0} /\ SinkCap \in Nat \ {0}

Fields == {"running", "game"}
Off == [f \in Fields |-> FALSE]
NoLoop == [focus |-> FALSE, game |-> FALSE, hotkey |-> TRUE]
Announcers == Callers \cup {Emitter}

VARIABLES
  on,        \* inner is Some
  task,      \* the runner: "none", "opening", "running" or "ended"
  loop,      \* its locals: focused, game_mode, whether there is a hotkey
  unsaved,   \* the change it has sent an event for and not yet written
  rs,        \* RunnerState
  evs, sink, \* events in the two channels
  fwd,       \* emit_keymapper: "snapshot", "waiting" or "reading"
  last,      \* the state it read last
  owed,      \* per announcer: properties it is about to announce
  view       \* the client's copy of the properties

runner == <<task, loop, unsaved, rs>>
vars == <<on, runner, evs, sink, fwd, last, owed, view>>

(* Handle::state, which every property getter reads.                       *)
Truth == IF on THEN rs ELSE Off

----------------------------------------------------------------------------
(* The two calls.                                                          *)

(* Handle::start; "already running" is Ok too.                             *)
Start(c) ==
  /\ owed[c] = {}
  /\ IF on THEN UNCHANGED <<on, task, unsaved, rs, evs>>
     ELSE on' = TRUE /\ task' = "opening" /\ unsaved' = "none" /\ rs' = Off /\ evs' = 0
  /\ owed' = [owed EXCEPT ![c] = {"running"}]
  /\ UNCHANGED <<loop, sink, fwd, last, view>>

Discarded ==
  /\ on' = FALSE /\ task' = "none" /\ unsaved' = "none" /\ evs' = 0
  /\ loop' = NoLoop /\ rs' = Off

(* Mutant of Stop: only `running' is announced.                            *)
StopAnnouncingRunning(c) ==
  /\ owed[c] = {}
  /\ Discarded
  /\ owed' = [owed EXCEPT ![c] = {"running"}]
  /\ UNCHANGED <<sink, fwd, last, view>>

(* Handle::stop: the tasks are aborted and the events that had not left    *)
(* the handle go with them; then the caller's properties are announced.    *)
Stop(c) ==
  /\ owed[c] = {}
  /\ Discarded
  /\ owed' = [owed EXCEPT ![c] = Fields]
  /\ UNCHANGED <<sink, fwd, last, view>>

----------------------------------------------------------------------------
(* The runner: an arm sends its events before it writes the state. The     *)
(* events of one arm count as one.                                         *)

Sent == IF evs < EvCap THEN evs + 1 ELSE evs
Polling == task = "running" /\ unsaved = "none"

(* run() up to its loop (400 ms for a uinput device): the focus is the one *)
(* it finds then, game mode is on unless there is a hotkey, and only       *)
(* `running' is written.                                                   *)
Opens ==
  /\ task = "opening"
  /\ task' = "running"
  /\ \E focus, hotkey \in BOOLEAN :
       loop' = [focus |-> focus, game |-> ~hotkey, hotkey |-> hotkey]
  /\ rs' = [rs EXCEPT !["running"] = TRUE]
  /\ UNCHANGED <<on, unsaved, evs, sink, fwd, last, owed, view>>

FocusArm ==
  /\ Polling
  /\ loop' = [loop EXCEPT !.focus = ~@]
  /\ evs' = Sent /\ unsaved' = "other"
  /\ UNCHANGED <<on, task, rs, sink, fwd, last, owed, view>>

HotkeyArm ==
  /\ Polling /\ loop.hotkey
  /\ loop' = [loop EXCEPT !.game = ~@]
  /\ evs' = Sent /\ unsaved' = "game"
  /\ UNCHANGED <<on, task, rs, sink, fwd, last, owed, view>>

(* The third ESC, heard under the grab: EscapeRequested, then the end.     *)
EscapeArm ==
  /\ Polling /\ loop.game /\ loop.focus
  /\ evs' = Sent /\ unsaved' = "running"
  /\ UNCHANGED <<on, task, loop, rs, sink, fwd, last, owed, view>>

(* At the end `running' is reset; game_mode stays.                         *)
Saves ==
  /\ task = "running" /\ unsaved # "none"
  /\ unsaved' = "none"
  /\ IF unsaved = "running" THEN task' = "ended" /\ loop' = NoLoop
                             ELSE UNCHANGED <<task, loop>>
  /\ rs' = [f \in Fields |-> IF f = unsaved THEN f = "game" /\ loop.game ELSE rs[f]]
  /\ UNCHANGED <<on, evs, sink, fwd, last, owed, view>>

(* A device cannot be opened, or a stream breaks: nothing is written.      *)
Fails ==
  /\ task = "opening" \/ Polling
  /\ task' = "ended" /\ loop' = NoLoop
  /\ UNCHANGED <<on, unsaved, rs, evs, sink, fwd, last, owed, view>>

----------------------------------------------------------------------------
(* Telling the clients.                                                    *)

(* The handle's log task: try_send, a full sink drops the event.           *)
Forwards ==
  /\ evs > 0
  /\ evs' = evs - 1
  /\ sink' = IF sink < SinkCap THEN sink + 1 ELSE sink
  /\ UNCHANGED <<on, runner, fwd, last, owed, view>>

(* emit_keymapper: its first snapshot.                                     *)
Snapshot ==
  /\ fwd = "snapshot"
  /\ fwd' = "waiting" /\ last' = Truth
  /\ UNCHANGED <<on, runner, evs, sink, owed, view>>

Receives ==
  /\ fwd = "waiting" /\ owed[Emitter] = {} /\ sink > 0
  /\ sink' = sink - 1 /\ fwd' = "reading"
  /\ UNCHANGED <<on, runner, evs, last, owed, view>>

(* Only what differs from the state read before is announced.              *)
Reads ==
  /\ fwd = "reading"
  /\ fwd' = "waiting" /\ last' = Truth
  /\ owed' = [owed EXCEPT ![Emitter] = {f \in Fields : Truth[f] # last[f]}]
  /\ UNCHANGED <<on, runner, evs, sink, view>>

(* A `*_changed' call: the getter reads the state again and its value goes *)
(* into the signal; the client's proxy keeps it. Getter and signal are one *)
(* step: a stop spends 300 ms before it announces anything.                *)
Announces(a) ==
  /\ \E f \in owed[a] :
       /\ owed' = [owed EXCEPT ![a] = @ \ {f}]
       /\ view' = [view EXCEPT ![f] = Truth[f]]
  /\ UNCHANGED <<on, runner, evs, sink, fwd, last>>

----------------------------------------------------------------------------
Init ==
  /\ on = FALSE /\ task = "none" /\ unsaved = "none" /\ rs = Off
  /\ loop = NoLoop
  /\ evs = 0 /\ sink = 0
  /\ fwd = "snapshot" /\ last = Off /\ view = Off
  /\ owed = [a \in Announcers |-> {}]

Next ==
  \/ \E c \in Callers : Start(c) \/ Stop(c)
  \/ Opens \/ FocusArm \/ HotkeyArm \/ EscapeArm \/ Saves \/ Fails
  \/ Forwards \/ Snapshot \/ Receives \/ Reads
  \/ \E a \in Announcers : Announces(a)

Spec == Init /\ [][Next]_vars

----------------------------------------------------------------------------
(* Properties.                                                             *)

(* The type of every variable.                                             *)
TypeOK ==
  /\ on \in BOOLEAN
  /\ task \in {"none", "opening", "running", "ended"}
  /\ loop \in [focus : BOOLEAN, game : BOOLEAN, hotkey : BOOLEAN]
  /\ unsaved \in Fields \cup {"other", "none"}
  /\ rs \in [Fields -> BOOLEAN]
  /\ evs \in 0 .. EvCap /\ sink \in 0 .. SinkCap
  /\ fwd \in {"snapshot", "waiting", "reading"}
  /\ last \in [Fields -> BOOLEAN] /\ view \in [Fields -> BOOLEAN]
  /\ owed \in [Announcers -> SUBSET Fields]

(* Once the calls have returned and there is no mapper, the client shows   *)
(* neither a running mapper nor game mode, whatever events of the old      *)
(* runner are still on their way ("On stop the runner is gone, so no event *)
(* will ever follow").                                                     *)
StopIsSeen ==
  ~on /\ (\A c \in Callers : owed[c] = {}) => ~view["running"] /\ ~view["game"]

(* "Durable things go out as PROPERTY changes, so a client can still read  *)
(* the truth": with a runner in its loop and nothing under way, the client *)
(* has the loop's state.                                                   *)
ClientSeesTheTruth ==
  /\ on /\ Polling /\ evs = 0 /\ sink = 0 /\ fwd = "waiting"
  /\ \A a \in Announcers : owed[a] = {}
  => view["running"] /\ view["game"] = loop.game
=============================================================================
