# Formal models of LiWinux

TLA+ modules of the program in this repository, the TLC configurations that
check them on small instances, and TLAPS proofs of what holds for every value
of their constants. Every definition is translated from the source; the
correspondence, definition by definition with line ranges, is in
`PROJECT.json` under `map`.

LiWinux runs Android games (a Waydroid session) on a Linux desktop and turns
keyboard and mouse into touches. A mistake is worst, and a test reaches least,
on the input path: a finger that stays down, a keyboard the user has lost,
touches that land on the desktop. Next come the things that several processes
do to one Android session, one FIFO, one socket, one profile and one published
state, with hardly a lock between them. Those are the two halves of this
project; the tools that measure the machine are a third, smaller one.

    run on      tlc -config EngineFps.cfg MCEngine     (module and cfg of each run: section 3)
    prove       tlapm EngineProofs.tla                 (and the seven other *Proofs modules)

## 1. The system

| Component (source) | State it keeps | Operations | Talks to |
|---|---|---|---|
| pointer pool (`liw-input/src/touch.rs`) | key → id, which ids are in use | `acquire`, `release`, `rotate`, `rename`, `release_all` | called by the engine |
| mapping engine (`engine.rs`) | pool, held triggers, playing swipes, deferred stick, aim position and its flags, second finger, accumulated motion | `handle` (press, release, motion), `tick`, `set_enabled`, `has_pending` | called by the runner, returns touch actions |
| input runner (`runner.rs`) | engine or none, profile, `current`, focus, game mode, grab, ESC streak, `pipe_dead`; the published `RunnerState` | one arm of `select!` per source: foreground, focus, ticker, pipe repair, keyboard, mouse, shutdown | devices, backend, daemon (channels, shared state) |
| touch backends (`uinput.rs`, `wl_touch.rs`, `backend.rs`) | slot table; the kernel device or Waydroid's FIFO | `dispatch`, `release_all`, `pipe_is_dead`, `reopen` | Android, or the desktop |
| evdev capture (`capture.rs`) | device streams, grab | discover, classify, score, `translate`, grab | runner, command line, launcher |
| profile, profile store (`profile.rs`, `store.rs`) | TOML files of three origins | parse, `validate`; scan with precedence, save, delete | runner, daemon, editors, command line |
| keymapper handle (`liwd/src/keymapper.rs`) | `inner` (the runner's task and channels), behind a lock | start, stop, state, `set_active_window` | D-Bus methods, runner, KWin, pipe provider |
| daemon: manager and supervision loop (`liwd/src/main.rs`) | cached health, published state, unhealthy streak, recovery attempts, embedded display | D-Bus methods; 5 s ticker; recovery; `emit_keymapper` | session control, keymapper handle, clients |
| daemon: window state (`liwd/src/window.rs`) | attempted flag, last geometry report | fullscreen once for each window, retry, reset | supervision loop, KWin scripts |
| session control (`liw-core/src/session.rs`, `waydroid.rs`) | nothing of its own: Waydroid's processes | `start_detached`, `stop`, `health`, `recover` | daemon, Waydroid |
| manager and helper clients (`liw-core/src/manager.rs`, `helper.rs`) | cached properties | snapshot, change signals | launcher, game window, command line |
| privileged helper (`liwd-helper/src`) | nothing of its own: pipe, properties, network | root operations behind polkit | daemon, game window |
| host checks, configuration (`liw-core/src/host.rs`, `config.rs`) | `KernelWatch`; the configuration file | module states, parsing, saving | daemon, launcher, command line |
| measurement (`bench.rs`, `trace.rs`, `video.rs`, `perf.rs`) | rings of frames and log lines | sampling, correlation, verdicts | command line |
| embedded compositor (`liw-compositor/src`) | one-frame slot, requested size, running flag, the guest's toplevels | compositor thread; take frame, resize, stop | game window, Android |
| game window (`liw-ui/src/game.rs`, `touch.rs`, `android.rs`, `mapper.rs`) | compositor handle, touch pipe, a finger of its own, the edited profile | bring-up, close, touch, focus report, editor of controls | daemon, compositor, FIFO, store |
| launcher (`liw-ui/src/state.rs`, `settings.rs`, ...) | a copy of the daemon's properties, forms | reload, pump, save settings | daemon |
| command line (`liw/src`) | none | `trace`, `video`, `perf`, `keymap`, `profile`, the browser editor | the libraries, daemon |
| KWin scripts, installation (`scripts/kwin`, `dist/`) | none | report the focus and the geometry; install | daemon |

### What is hard, and what makes each part correct

* **Pool and engine.** Nothing concurrent, but long sequences: presses,
  cancelled gestures, handoffs, deadlines and rebuilds in any order. Correct:
  the pool's ids are exactly the fingers on the screen, every frame is a legal
  run on each slot, a delayed press happens once and never beside another aim
  finger, everything deferred is done at last.
* **Runner and backends.** Seven sources interleave; every arm changes engine,
  grab, backend and published state together, over a FIFO that fills, breaks
  and is renewed with fingers down. Correct: no mapping outside a focused,
  profiled game in game mode; no grab without a mapping; no finger without an
  engine; a published state that is true; a dead pipe replaced.
* **Keymapper handle.** One lock, held over awaits of up to 15 s, between
  callers, KWin's reports (each a task of its own, so that they overtake each
  other) and the runner. Correct: every caller gets through, no runner outlives
  its handle, the runner has the focus that KWin's newest report tells of.
* **Published state.** Events are sent before the state is written, through
  channels that drop, and clients cache. Correct: a stop reaches everyone.
* **Session.** Supervisor, D-Bus calls and the game windows start and stop one
  session without a lock. Correct: a closed window's socket is left, a dip is
  no restart, a recovery stays in its window, a broken session is recovered.
* **Compositor, touches of the window, fullscreen.** A thread, one-slot
  mailboxes, a FIFO renewed by Android, reports one poll old, overtaken or
  never sent. Correct: the picture follows the window, no finger without the
  button, no second attempt at a window that is known to be there.
* **Files.** Profiles and the configuration are written in place by several
  processes. Correct: what was saved is served, or kept in a backup; a chosen
  device is the one that is read.
* **Measurement.** Rings overflow, samples are late or lost, probes cannot be
  run. Correct: nothing is reported that did not happen, nobody is accused
  without a measurement.

`PROJECT.json` has the hazards, each at its line, under `hazards`, with the
properties that would catch it or the reason why none does.

## 2. Modules

    PointerPool ── Engine ── MCEngine         Backends ── Runner ──implements── Gate
                     │                                      │
                EngineProofs                           RunnerProofs

    Session ── SessionProofs                  Keymapper ── KeymapperProofs
    Status ── Launcher ── StatusProofs        Profiles ── MCProfiles
    Compositor, TouchPath,                        └────── ProfilesProofs
    Fullscreen ── WindowProofs                Trace, Video, Host, Devices,
                                              BindingEditor ── MCTools, ToolsProofs

The proof modules extend the modules they are about; those of the window, and
those of the tools, share nothing but the proof module.

**PointerPool** — `touch.rs`. A pool is a record of the two fields of the Rust
struct; operations are operators from pool to pool.

**Engine** — `engine.rs`, driven as `runner.rs` drives it. The engine is one
record `eng`, because its handlers are compositions (a tick runs six helpers);
each helper is an operator from engine to engine, and `eng.acts` collects the
frame, one sequence of `Down`/`Move`/`Up` per pointer id. `screen` is what the
receiver has down, `down` what the user physically holds, `arm` which arm of
the runner produced the frame: `Ticker` (gated by `has_pending`), `KeyPress`
and `KeyRelease` (`tick` and `handle` in one frame), `MousePress`,
`MouseRelease` and `MouseMotion` (`handle` alone), `Stop`, `Rebuild`,
`RenewPipe`. Positions are the zone of the aim finger, motion is "zero or
not", the clock "the deadline is past or not", chosen by the environment.
`Profile` is a constant; `ValidatedProfile` assumes what `Profile::validate`
guarantees, and one `Aim` at most.

**Backends** — `uinput.rs` and `wl_touch.rs` with the receiver behind them:
slot table, FIFO with a capacity, dropped frames, EPIPE, hotplug. A record
carries slot and position for Down and Move alike, so a Move of an id that is
up presses it: `Encode` keeps that.

**Runner** — `runner.rs`, one action per arm and outcome. The engine is
abstracted to the fingers it has down; any legal frame may come out of it,
which `FramesAreLegal` of EngineProofs justifies. `cfg` chooses who runs the
loop (the daemon, or `liw keymap run`) and the switches of `RunnerConfig`.

**Gate** — what the runner promises its user, without engine, pipe or channel:
keys become touches only behind three conditions, and whatever shuts the gate
lifts every finger and gives the devices back in the same step. Runner
implements it under the mapping `Promised` (focus, mode and game are the
loop's locals, `open` is that there is an engine, `touching` the slots the
backend holds).

**Keymapper** — the handle of `keymapper.rs`: callers queue for the lock, start
waits for the pipe under it, stop aborts, KWin's watcher script and the game
window report the focus, the provider renews pipes. zbus runs each method call
in a task of its own, and the tasks race for the handle's lock: `reports` holds
what is under way in the order it was sent, and any of it may be taken next;
`newest` and the value "late" of `by` are history, and tell whether the report
that was heard last had been overtaken. **Status** — how the
runner's state reaches D-Bus clients: two bounded channels with `try_send`,
`emit_keymapper`, the announcing calls; the handle is one variable there,
because every reader waits for its lock. **Launcher** extends Status with the
launcher as a client: snapshot, subscription, a proxy that applies signals at
its own time, and a tick. Every step of it is a step or a stutter of Status.

**Session** — the supervision loop, `Supervisor` and the game windows. `pc`
names the await each actor is at; `start_detached` is two steps (status, then
spawn), because that is where two starters pass each other. `PollStopped`,
`PollHealthy`, `PollUnhealthy` and `PollRecovers` are the outcomes of a tick;
`UserStart`, `UserStop`, `UserRestart`, `UserHealth` the Manager's methods;
`DaemonRestarts` systemd's; `Open` ... `GiveUp` the bring-up of a window,
`Close`, `ClearDisplay`, `StopAndroid` its end; Waydroid is external.

**Compositor** — a window, its compositor thread and a guest that draws when it
is called back: the socket, the one-frame slot, the size the window wants,
cursor surfaces, failing captures, a compositor that comes up too late.
**TouchPath** — the mouse as a finger: the window's handlers, the backend, the
task that opens the pipe again, the helper behind polkit, Android's
generations of FIFOs. **Fullscreen** — `window.rs`, the arms of the loop that
use it and the two KWin scripts. A poll is two steps, `TickHealthy` (ask KWin)
and `PollLooks` (look at the report that came last), with anything between
them; asking, like a request for fullscreen, may fail at each of its calls
(`Load`), which the code logs at most; reports are taken in any order. `heard`,
the newest window that a report has told of, and `late` in a report are
history.

**Profiles** — the files of one package and all who read or write them: scan
file by file, write in two steps (emptied, then filled), crash between them.
**BindingEditor** — the editor in the game's window (`mapper.rs`): it edits a
copy and saves it by the same store, which is one variable here.
**Devices** — how a device is chosen, saved, found and verified, over
renumbering of `eventN`.

**Trace** — `liw trace` over a ring of frames and of log lines; both rings and
both logs are sets, a frame being known by its time and a line by the refresh
it was written in, since every verdict counts or compares and none depends on
the order the members are kept in. A pull of the log is answered by the helper with
monotonic times, or dated by the wall clock (off by up to `Drift`, anew each
time), or not answered; an event is a kind and a date, with the line it was
read of beside it (`of`, history). **Video** — the
diagnosis of video decoding; `unread` remembers that a file which is there
could not be read. **Host** — the daemon's watch on the running
kernel's modules, the report of a failed start, and `liw perf`'s search for
leftover GPU clients (`told`: the session's age is not the 0 of a failing
`pgrep` or `ps`). Each holds what really happened (frames presented,
formats the GPU decodes, modules there are) beside what the tool believes.

**MCEngine** (three small profiles), **MCProfiles** (symmetry), **MCTools**
(the five modules that share nothing, one at a time in one run) only
instantiate.

## 3. What is checked

| Run | Module, instance | Shows |
|---|---|---|
| `engine_fps` | MCEngine: stick, fire, bounded aim with lift now and press later; 2 pointers | pool = screen also when the pool is full; a stick that points where the held keys point; the delayed press comes, motion waits for it; `has_pending` strands nothing |
| `engine_toggle` | MCEngine: two swipes of one group, a wheel tap, unbounded aim behind a toggle; 3 pointers | swipes steer and lift their own finger and end; the aim finger goes with its toggle; no press and move in one frame |
| `engine_handoff` | MCEngine: bounded aim with handoff behind a toggle, a tap, a swipe; 2 pointers | the second finger is never lost or doubled, every frame is legal |
| `runner` | 2 profiled packages, an overlay, another package; 2 ids; FIFO of 1; streak of 2 | the runner implements Gate; no finger without an engine; the published state is true; a dead pipe is replaced |
| `session` | 1 window, threshold 2, 1 attempt, 1 restart of the daemon | a closed window's socket is left; no restart on a dip; recovery stays in the window and happens; the state becomes true |
| `keymapper` | 2 callers, 2 reports on their way, taken in any order | no orphan, the focus of KWin's newest report, a loss that is heard, callers that get through |
| `launcher` | 1 caller, both channels of length 1 | a stop reaches the client and leaves the screen |
| `compositor` | 2 windows one after the other, 2 sizes, 1 screen, 1 failing capture | clicks fit the toplevel; the picture follows the window, the guest is called back, the socket becomes free |
| `touchpath` | FIFO of 2, 2 hotplugs | no finger without the button; a broken path is opened again |
| `profiles` | 2 tasks, 2 user files and a shipped one, 3 calls, 2 seconds | what was saved is served, what was overwritten is kept; a restarted mapper runs with what is served |
| `fullscreen` | 1 task of 1 attempt, 2 windows, poll every second tick, 2 reports on their way, taken in any order | no second attempt at a window a report has told of, a closed window is noticed |
| `tools` | MCTools: see `Tools.cfg` | reports are true; the host is not accused without reason; the chosen device is read; the editor says "Saved." of what is served and waits for a key only where one is missing |

Each property has a mutant of a mapped definition in `PROJECT.json` (`mutants`);
TLC finds the property violated by each. The mutated forms stand in the
modules, before what they mutate, and nothing else uses them.

**Bounds and why they are enough.** *Engine*: two or three pointers for four to
six pool keys, so the pool fills, and the code asks only "is there a free id"
and "which is the lowest"; one profile for each aim mode, which is fixed when
an engine is built. *Runner*: two ids, one for the engine to keep while the
other changes; a FIFO of one frame is full and drained at every step; a streak
of two has a first, a last and a broken one. *Session*: one window meets
supervisor, user and restarting daemon at every await (a second one is covered
by the theorems); a threshold of two tells a dip from a streak. *Keymapper*:
two callers are the one who holds the lock and the one who waits. *Launcher*:
channels of one are full after one event. *Compositor*: the second window meets
a socket the first may still hold. *TouchPath*: two hotplugs are one while the
opener is at work on the other. *Profiles*: two tasks cross each other at every
file of a scan and between the halves of a write; of two user files one can be
`{pkg}.toml` and the other sort before or after it. *Fullscreen*: two windows
are the one that had its attempt and the next; two reports overtake each other;
one task is enough, because a task only loads the script that KWin may run at
any later time, and Manager::fullscreen starts it again and again (any number
of tasks, attempts and windows is proved). *Tools*: four frames in a ring
over six instants overflow it; a `Drift` of one moves a line by a whole refresh, so
that two pulls date it differently; two kernels; two devices on two nodes change
places; two names and two keys make a joystick of two directions complete,
incomplete and in conflict (the code's has four, filled the same way).
`MaxTime`, `MaxLines`, `MaxFlips`, `MaxClock`, `MaxClients`, `MaxSaves`,
`MaxControls`, `MaxEdits`, `MaxCalls`, `MaxHotplugs`, `MaxWindows`,
`MaxReports`, `MaxFailures`, `MaxCrashes` bound the environment, not the code.

**Deadlock** is checked in the engine runs, `session`, `keymapper` and
`launcher`. The others may really stop and say `CHECK_DEADLOCK FALSE`: the
runner ends on shutdown or a failing stream, the bounded environments of
`compositor`, `touchpath`, `profiles`, `fullscreen` and `tools` run out of
windows, hotplugs, calls and time.

**Fairness** is asked of loops and awaits of the program, never of users.

* Engine: `TickFairness` is weak fairness of a tick that finds every deadline
  past, with ENABLED spelled out (`Outstanding`): the ticker is a 5 ms interval
  that is polled while `has_pending` holds, and time passes.
* Runner: the repair interval is ungated and the focus watch always polled, so
  `Repair`, `FocusLost`, `FocusGained` are weakly fair. That a repair finds a
  pipe is asked of Android.
* Session: the ticker is polled whenever no recovery runs, and a recovery is a
  finite sequence of awaits.
* Keymapper: the lock is tokio's, which is fair (SF of a waiter and of the
  reports, which wait for it too); what is done under it is bounded (15 tries,
  300 ms, one bus call); `select!` picks the focus arm at random among the
  ready ones, hence SF.
* Launcher: the daemon's announcing tasks, the proxy and the pump's tick.
* Compositor: the thread turns every 4 ms, the window's pump polls, and a guest
  that may draw does (it is a running game).
* TouchPath: the opening task sleeps two seconds and asks again, Android reads.
  `PathHeals` also supposes a user who goes on clicking, because only a click
  finds the pipe dead.
* Fullscreen: the supervisor's ticks and the look that ends each poll (SF where
  a session must be up), the spawned retries, the reports in progress. Of KWin:
  a script that is loaded again and again is run, and not every poll is
  refused (SF of a poll whose script gets loaded); a single request or poll may
  fail at any time.

### Where the code does not do what its comments say

Each of these is defined in the module named, beside the properties that do
hold, and TLC shows it violated when it is put in place of the properties of
the configuration named.

| Property (module, configuration) | Claim | What happens |
|---|---|---|
| `NoSlotReuse` (Engine, `EngineToggle.cfg`) | a frame never lifts and presses one slot (`touch.rs:99-103`) | a swipe that cancels its group's swipe takes the id just released |
| `WheelIsReleased` (Engine, `EngineToggle.cfg`) | the caller pairs a notch with a release (`capture.rs:335`) | nobody does; the finger stays, later notches are key repeat |
| `NoAimFingerAfterRelease` (Engine, `EngineHandoff.cfg`) | a release leaves no orphaned touch (`engine.rs:544`) | a second finger that was prepared stays down |
| `PressAloneInFrame` (Engine, `EngineFps.cfg`, `EngineHandoff.cfg`) | a press and its first move are two frames (`engine.rs:108-113`) | the bounded path without a toggle, and handoff, do both in one |
| `ReturnsAfterOverlay` (Runner) | mapping returns instantly when the layer goes (`runner.rs:109-116`) | the game counts as "no change", no engine is built |
| `ExitLifts` (Runner) | fingers are always lifted on exit (`runner.rs:197`) | a stream error leaves by `?` |
| `DropCostsOneFrame` (TouchPath) | dropping a frame costs one frame (`wl_touch.rs:202`) | a dropped lift leaves its finger down |
| `ClosingEndsTheGame` (Session) | closing the window closes the game (`game.rs:116`) | its bring-up goes on and starts the session again |
| `StartMeansRunning` (Keymapper) | start is a no-op if it is already running (`keymapper.rs`) | also when the runner has ended by itself: nothing runs |
| `FocusAgreesAtLast` (Keymapper) | once all reports have come, the mapper has the focus that is there (`focus.js`, `main.rs:438`) | a gain that comes after the loss that followed it stays |
| `ClientSeesTheTruth` (Status) | durable things can be read as properties | an event before its state, or a state without an event, leaves the old value |
| `SubscribedInTime` (Launcher) | the launcher follows the daemon | a change between snapshot and subscription is not shown |
| `RunningMeansAlive` (Compositor) | `is_running` (`embedded.rs:60`) | a thread that ends with an error never clears the flag |
| `NewSessionRetries` (Fullscreen) | a new session retries fullscreen (`window.rs`) | not one that was restarted between two polls |
| `TriedIsKept` (Fullscreen) | a window that is there is not touched (`window.rs:61`) | a poll before its first report, or after requests KWin refused, clears the flag, and the next focus forces it back |
| `ChoiceIsKept` (Devices) | the user's choice is permanent | a stale form of the launcher writes the whole file back |
| `EveryFreezeTold`, `OutsideOnlyIfQuiet` (Trace) | no freeze is lost; "outside the container" | one that begins soon after another is; lines may fall to the earlier one |
| `OncePerLine` (Trace, `Tools.cfg`) | a line pulled twice counts once (`liw/src/trace.rs:39-43`) | not when it is dated by the wall clock: each pull gives it a new date |
| `BrokenMeansMissing`, `DeadMeansDead` (Video) | the include is not there (`liw-core/src/video.rs:452`); no decoder at all (`liw/src/video.rs:611`) | also said of what could not be read |
| `LiveNeverAccused` (Host) | an age of zero means no session (`liw-core/src/perf.rs:188`) | also when `pgrep` or `ps` fails: live clients are called left over |
| `NoLeverMeansMeasured` (Video), `FineMeansFine` (Host) | the GPU cannot decode it; everything can load | also said of what could not be measured |
| `ElseBecomesTheBinding` (BindingEditor) | any other key becomes the binding (`game.rs:318`) | a control selected again, or left with escape, never takes a key any more |

Three more are not stated as properties: opposite keys leave the stick leaning
(`engine.rs:560`); recovery attempts are never exhausted, because the poll
right after a recovery finds a stopped session and resets the count
(`main.rs:735`); the ownership poll is re-armed by every tick and never fires
(`main.rs:742`).

Where a property that holds stands next to one of these, it excludes exactly
that case: `NoFingerWithoutEngine` a dropped frame and a broken stream,
`FingerNeedsTheButton` a lift that found the FIFO full, `FocusAgrees` and
`LossIsHeard` a report that was overtaken, `KnownIsKept` that and a window no
report has told of yet, `CountedOnce` a pull dated by the wall clock,
`GuestAsItIs` and `LossesExplainedOnce` a guest's file that could not be read,
`LiveNotAccused` an age that was not told.

## 4. What is proved

All theorems are for every value of the constants that the named assumptions
admit: any profile, pool, set of packages, number of windows, callers, devices.

**EngineProofs** — it begins with what each pool operation does: types,
consistency, and exactly which id changes hands. Then
`EveryFingerIsAccountedFor` (with `NoStuckFinger`: the
fingers at the receiver are the pool's used ids), `SwipesAddressTheirOwn`,
`AimIsTracked`, `AimGoesWithItsToggle`, `FingersAreHeld`, `FramesAreLegal`,
from `IInv == TypeOK /\ Sound(eng) /\ FingersMatchPool`. `Sound` gathers what an
engine must satisfy between helpers: a consistent pool, aim flags that agree
with the aim's pointers, swipe ids that are the pool's, fingers that are held,
no actions while disabled. No part is inductive alone: that a swipe's Move is
legal needs the id to be the pool's, which needs consistency, which a handoff
keeps only because the second flag is true. Inside an arm the engine passes
through intermediate records, so each helper has a lemma that it keeps
`Sound(e)` and `Frame(e, s)`: *the actions so far are a legal run for a
receiver that had the ids s down, and lead to the fingers the pool has*.

Four more theorems are about what must hold across helpers that know nothing
of each other; they rest on a second layer of lemmas that say which pool keys
and fields each helper leaves alone (`Aside`, `SameAim`, `OnlyAim`) and what it
pressed in the frame so far (`Pressed`). Each has the conditions under which
the code keeps it, as hypotheses of the theorem:

| Theorem | Hypotheses | Invariant beside `IInv` |
|---|---|---|
| `MotionIsKept` (`MotionSurvivesReset`) | none | none: an early return of the tick |
| `StickIsTrue` (`StickFollowsKeys`) | `OneStick` | `StickTrue`: also between helpers |
| `AimIsMatched` (`AimMatchesFinger`) | `Room`, `OneFinger` | `Tight`: an aim position has a finger, keys that point somewhere have a stick, one swipe of a group |
| `PressesAreAlone` (`PressAloneInFrame`) | `Room`, `Deferred` | `Tight`, and `Tidy` inside the arm: only the aim finger was pressed by the tick |

`OneStick`: the profile has one joystick at most, because `joystick_pending` is
one slot and a second stick overwrites it. `Room`: the pool has an id for every
binding that can have a finger at once (swipes of one group have one); the code
has ten ids, and a full pool drops a press, after which an aim position has no
finger. It is needed also for the stick: `PressesAreAlone` is false of a stick
whose press the full pool dropped and that goes down in the tick of a later
key. `OneFinger`: unbounded, or no handoff, because `on_release` lifts only the
first finger. `Deferred`: unbounded, or behind a toggle without handoff; the
other two paths press and move in one frame (section 3). `EngineFps.cfg` and
`EngineToggle.cfg` check each property on a profile that satisfies its
hypotheses, so they are not void.

**RunnerProofs** — `NoMappingOnTheDesktop`, `NoLockOut`, `ReleaseAllIsExact`,
`StatusIsTrue`, and `ImplementsTheGate`: `Spec => Promised!Spec`. The inductive
invariant adds that without an engine no finger is recorded, that a game as
published foreground is the profile's, and that the ESC count is below the
streak; each arm is then a step of Gate or a stutter. `NoFingerIsLeft`
(`NoFingerWithoutEngine`): `Drained` is what the last record on its way for
each slot says, so it can be followed through a write, a read and a lift of
everything without induction over the FIFO.

**SessionProofs** — `NobodyDrawsIntoAClosedWindow`, `DipsAreForgiven` (for a
threshold of two or more), `RecoveryStaysInTheWindow`. The invariant adds that
the socket's owner is an open window, that strikes are published as DEGRADED
between polls, and `Kept`, which must also hold of `home`, the socket the
session had when its recovery began, because in the middle of one there is no
session.

**KeymapperProofs** — `OneCallerAtATime`, `NoRunnerIsLeft`,
`FocusIsTheScreens`. The invariant has the lock (`OneHolder`, `HolderSees`) and
`LastReportIsTrue`: while the newest report is under way, it is the last of
those sent, and says what is on the screen. Reports are taken from the middle,
so the proof needs that a removal before the last one leaves it the last
(`RemovalKeepsLast`); one taken after the newest is marked "late" and claims
nothing.

**StatusProofs** — `StopReachesClients` from `StopIsOwed`: of what runs no more
a client shows only what the call that stopped it is about to announce; and
`LauncherImplementsStatus`, by which `StopReachesTheLauncher` follows.

**WindowProofs** — `OneThreadHosts` and `SizeIsTheScreens`: however many
windows are opened, closed and given up, one thread has the socket, and clicks
are fitted to the toplevel. `NoFingerWithoutTheButton`
(`FingerNeedsTheButton`): the invariant says that a finger Android has, or
will have once it has read the FIFO, is one the window knows how to lift
(`Known`: its record is set on both sides and its pipe is the one read), unless
a record was lost, and that the window's finger is down for a reason
(`DownHasItsButton`). `NobodyIsFought` (`KnownIsKept`), with its
invariant `FullscreenInvariantHolds`: neither the flag nor the poll knows what
KWin will say, so the argument is about the order in which reports were sent.
Windows are numbered as they are opened, and a report sent after one that told
of the window there is tells of it too (`ReportsAreInOrder`); so once one of
these has arrived, any report of another window, or of none, was overtaken, on
its way or arrived (`OthersAreLate`). A poll that clears the flag has looked at
a report of no window, which was then late.

**ProfilesProofs** — `NothingIsLost` (`NothingSavedIsLost`) and `RestartLoads`
(`ApplyLoadsIt`), for any number of tasks, files and crashes. A task that runs
`alone` (no write of another crossed it) satisfies something for each place it
can be at: in a scan, that what it found is the preferred one of the files it
has read (`ScanIsTrue`); before a write, that no file that loads is preferred to
its own (`First`); in an install, that what it is about to overwrite is kept.
After an `apply` has stopped the mapper the same is asked of everybody else's
start, since the one that runs may be theirs (`StartsAreTrue`).

**ToolsProofs** — `ChoiceIsRead`, for any devices and numberings: the
invariant says of the file, the forms on their way and the launcher's list
that a path which names a linked device was meant for it. `EditorHolds`
(`EditorIsTrue`): with the types of the controls it is inductive as it stands.
`VideoHolds` (`VideoIsTrue`): at every place of the diagnosis the capabilities
are those of a probe that ran (`Capable`), and the findings are those of what
was read and measured; and at every place what has been read, with what is
still to be read, is all that the guest declares, unless `unread` says
otherwise (`ReadSoFar`), so that at the end the two are equal. `HostHolds`
(`HostNotAccused`), under `MaxGap <= Margin`: the session that runs is not
older than what `liw perf` was told of it (`AgeIsTrue`). With the two looks
further apart than the margin, or an age that nobody told, a client that came
between them would be accused.

`ReportHolds` (`ReportIsTrue`), under `LeavesRoom`: the sampling period and the
sampler's lateness are together no more than the ring holds (128 frames, of
which the period takes at most 57; later than 71 refreshes, and frames are
lost). The invariant has three parts. The sampler (`SamplerInv`): a frame older
than a period before the next tick is seen (`OldAreSeen`), so what is unseen at
a tick is recent enough for the ring (`SnapshotReachesBack`); a snapshot is the
end of what was presented (`SnapshotIsTheEnd`), so a gap in it is one between a
frame and the next. The freezes: a frame was first seen soon after it came
(`SeenSoon`), while none is told the last tick saw no long silence
(`QuietIsShort`), and the one being told began with the silence
(`LastIsOpen`); when the frames come back, a long gap that no snapshot had
before is that silence (`TickTells`). The log: every key is a
reading of a line (`IsReading`), off by no more than `Off`, each kept once, and
until a pull falls back to the wall clock there is one reading of a line
(`SinkIsLog`). That a stutter with lines near it is not called unexplained
needs a heaviest line of a set (`HeaviestLine`), a least-element argument by
weight and then by time.

**Only model-checked.** Liveness (beyond the prover): every `~>` and `<>[]`
above. Every invariant and every action property of the runs is proved.

## 5. What is not modelled, and why

* `latency.rs`, the statistics of `bench.rs`, `hostsample.rs`, `apps.rs`,
  `art.rs`, the table of `keys.rs`: pure computations or parsers that their
  unit tests cover.
* `net.rs` and the property and audio operations of the privileged helper:
  single root operations on the machine (mounts, iptables, files).
* Drawing, pixels, damage and DMA buffers, D-Bus transport, TOML and Wayland
  encoding, polkit's own decision, evdev ioctls: I/O around the decisions.
* Coordinates and interpolation: no property is about a position beyond its
  zone. Of the mouse's finger, only whether it is inside the picture.
* In Engine, an event lost before the engine: `reconcile_pointers` is modelled
  and proved to find nothing, because it compares with the engine's own `held`.
* In Runner an arm is atomic, the repair arm's wait included; Keymapper has
  that wait apart. The engine's fingers and those of the window's mouse share
  a FIFO and slot 9; the two are not composed (TouchPath has the mapper as
  writes that take up room).
* In Session a `waydroid session stop` succeeds, the daemon can be reached by a
  closing window's task, `auto_recover` is on. `boot_timeout` is read nowhere
  in the code, so a slow boot counts as unhealthy; the model has that.
* In BindingEditor which of two overlapping elements a click reaches is GPUI's
  matter; the model has what the code's comment says. That a save there
  neither restarts the mapper nor tells the daemon is left at that.
* Installation (`dist/`): no state of the running program.

## 6. What could follow

1. The mapper's and the window's fingers on one FIFO, composed of Runner and
   TouchPath, for slot 9.
2. The liveness of one component by hand: a ranking argument on paper beside
   the run, since the prover has none.
3. The helper's repair of the network as a sequence of root operations that may
   fail half way.
4. Two joysticks, and a second aim, in one profile.
