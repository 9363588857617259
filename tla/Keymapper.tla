------------------------------ MODULE Keymapper ------------------------------
(***************************************************************************)
(* The daemon's keymapper handle (crates/liwd/src/keymapper.rs): callers   *)
(* that start and stop the mapper, KWin's script and the game window that  *)
(* report the focus, and the task of the runner behind the handle.         *)
(*                                                                         *)
(* start and stop hold the handle's lock over their awaits; a report takes *)
(* it for an instant. Every report is a D-Bus call in a task of its own,   *)
(* and any waiter may be the next to get the lock: reports may overtake    *)
(* each other. The runner (module Runner) is reduced to how its task       *)
(* begins, hears the focus and ends; what it tells D-Bus clients is in     *)
(* module Status.                                                          *)
(***************************************************************************)
EXTENDS Naturals, SequencesExt

CONSTANTS
  Callers,      \* those who call StartKeymapper and StopKeymapper
  MaxReports    \* bound: no call and no focus change beyond it

ASSUME MaxReportsAssumption == MaxReports \in Nat \ {0}

VARIABLES
  call,      \* per caller: where its call is
  on,        \* inner is Some
  focus,     \* the focus watch of inner
  by,        \* who set it last: "nobody" yet, "kwin", "window", or "late", a report
             \* of KWin that a newer one has overtaken; "script" when a script
             \* just loaded is about to
  task,      \* the runner's task
  focused,   \* its local of that name
  screen,    \* Android's window really has the focus
  script,    \* KWin runs focus.js
  reports,   \* reports of KWin under way, as they were sent
  newest,    \* history: the last of them is the last that was sent at all
  window     \* reports of the game window under way

kwin == <<reports, newest>>
vars == <<call, on, focus, by, task, focused, screen, script, kwin, window>>

Holding == {"acquire", "script", "loaded", "drain"}

(* Nobody holds the lock.                                                  *)
Free == \A c \in Callers : call[c] \notin Holding

Alive == {"opening", "running", "repairing"}

----------------------------------------------------------------------------
(* start and stop.                                                         *)

Ask(c) ==
  /\ call[c] = "idle" /\ Len(reports) < MaxReports
  /\ \E what \in {"start", "stop"} : call' = [call EXCEPT ![c] = what]
  /\ UNCHANGED <<on, focus, by, task, focused, screen, script, kwin, window>>

(* "already running", or an error: no keyboard, no helper.                 *)
StartReturns(c) ==
  /\ call[c] = "start" /\ Free
  /\ call' = [call EXCEPT ![c] = "idle"]
  /\ UNCHANGED <<on, focus, by, task, focused, screen, script, kwin, window>>

(* acquire_pipe: up to 15 tries, one per second, under the lock.           *)
StartAcquires(c) ==
  /\ call[c] = "start" /\ Free /\ ~on
  /\ call' = [call EXCEPT ![c] = "acquire"]
  /\ UNCHANGED <<on, focus, by, task, focused, screen, script, kwin, window>>

(* The channels and the tasks; the focus is unknown and assumed off.       *)
StartSpawns(c) ==
  /\ call[c] = "acquire"
  /\ call' = [call EXCEPT ![c] = "script"]
  /\ task' = "opening" /\ focus' = FALSE /\ by' = "nobody"
  /\ UNCHANGED <<on, focused, screen, script, kwin, window>>

(* KWin runs liwReport.                                                    *)
Send(f) == reports' = Append(reports, f) /\ newest' = TRUE

(* load_kwin_script: a leftover copy is unloaded first, and a fresh one    *)
(* reports the focus it finds. Failures are only logged; when focus.js is  *)
(* not found, or nothing works, a leftover copy even stays.                *)
LoadScript(c) ==
  /\ call[c] = "script"
  /\ call' = [call EXCEPT ![c] = "loaded"]
  /\ \/ script' = TRUE /\ Send(screen) /\ by' = "script"
     \/ script' \in {FALSE, script} /\ UNCHANGED <<kwin, by>>
  /\ UNCHANGED <<on, focus, task, focused, screen, window>>

StartEnds(c) ==
  /\ call[c] = "loaded"
  /\ call' = [call EXCEPT ![c] = "idle"]
  /\ on' = TRUE
  /\ UNCHANGED <<focus, by, task, focused, screen, script, kwin, window>>

(* Mutant of StopReturns: without a handle stop waits for one.             *)
StopWaitsForAHandle(c) ==
  /\ call[c] = "stop" /\ Free /\ on
  /\ call' = [call EXCEPT ![c] = "idle"]
  /\ UNCHANGED <<on, focus, by, task, focused, screen, script, kwin, window>>

StopReturns(c) ==
  /\ call[c] = "stop" /\ Free /\ ~on
  /\ call' = [call EXCEPT ![c] = "idle"]
  /\ UNCHANGED <<on, focus, by, task, focused, screen, script, kwin, window>>

(* Mutant of StopTakes: the lock is given up with the handle, and a start  *)
(* may come in before the tasks are aborted.                               *)
StopTakesUnlocked(c) ==
  /\ call[c] = "stop" /\ Free /\ on
  /\ call' = [call EXCEPT ![c] = "idle"]
  /\ on' = FALSE
  /\ UNCHANGED <<focus, by, task, focused, screen, script, kwin, window>>

(* The handle is taken and shutdown is sent; then 300 ms under the lock.   *)
StopTakes(c) ==
  /\ call[c] = "stop" /\ Free /\ on
  /\ call' = [call EXCEPT ![c] = "drain"]
  /\ on' = FALSE
  /\ UNCHANGED <<focus, by, task, focused, screen, script, kwin, window>>

(* The tasks are aborted, whatever they are doing. Unloading may fail.     *)
StopAborts(c) ==
  /\ call[c] = "drain"
  /\ call' = [call EXCEPT ![c] = "idle"]
  /\ task' = "none"
  /\ script' \in {FALSE, script}
  /\ UNCHANGED <<on, focus, by, focused, screen, kwin, window>>

----------------------------------------------------------------------------
(* Focus.                                                                  *)

(* The script reports every change; a game window of our own reports too,  *)
(* from a connection of its own each time.                                 *)
FocusMoves ==
  /\ Len(reports) < MaxReports
  /\ screen' = ~screen
  /\ IF script THEN Send(screen') ELSE UNCHANGED kwin
  /\ window' \in {window, window \cup {screen'}}
  /\ UNCHANGED <<call, on, focus, by, task, focused, script>>

(* set_active_window under the lock: ignored without a handle.             *)
SetActiveWindow(f, who) ==
  IF on THEN focus' = f /\ by' = who ELSE UNCHANGED <<focus, by>>

(* One of KWin's reports is taken; a newer one has arrived before it when  *)
(* none that is under way is the newest.                                   *)
TakeReport(i) ==
  /\ reports' = RemoveAt(reports, i)
  /\ newest' = (newest /\ i # Len(reports))

Sender == IF newest THEN "kwin" ELSE "late"

(* Mutant of KWinReport: a report that finds the lock taken is dropped.    *)
KWinReportWithTryLock ==
  /\ \E i \in DOMAIN reports :
       /\ TakeReport(i)
       /\ IF Free THEN SetActiveWindow(reports[i], Sender) ELSE UNCHANGED <<focus, by>>
  /\ UNCHANGED <<call, on, task, focused, screen, script, window>>

KWinReport ==
  /\ Free
  /\ \E i \in DOMAIN reports : TakeReport(i) /\ SetActiveWindow(reports[i], Sender)
  /\ UNCHANGED <<call, on, task, focused, screen, script, window>>

WindowReport ==
  /\ Free
  /\ \E f \in window : window' = window \ {f} /\ SetActiveWindow(f, "window")
  /\ UNCHANGED <<call, on, task, focused, screen, script, kwin>>

----------------------------------------------------------------------------
(* The runner's task.                                                      *)

(* run() up to its loop: 400 ms for a uinput device; a device that cannot  *)
(* be opened ends it, and the handle stays.                                *)
Opens ==
  /\ task = "opening"
  /\ task' = "running" /\ focused' = focus
  /\ UNCHANGED <<call, on, focus, by, screen, script, kwin, window>>

(* Mutant of FocusArm: the loop hears of a focus it gains, not of a loss.  *)
FocusArmOneWay ==
  /\ task = "running" /\ focus /\ ~focused
  /\ focused' = focus
  /\ UNCHANGED <<call, on, focus, by, task, screen, script, kwin, window>>

FocusArm ==
  /\ task = "running" /\ focus # focused
  /\ focused' = focus
  /\ UNCHANGED <<call, on, focus, by, task, screen, script, kwin, window>>

(* ESC three times, a stream or a device that fails, or stop's shutdown.   *)
Ends ==
  /\ task \in {"opening", "running"}
  /\ task' = "ended"
  /\ UNCHANGED <<call, on, focus, by, focused, screen, script, kwin, window>>

(* The repair arm waits up to 15 s for the provider and hears nothing.     *)
RepairBegins ==
  /\ task = "running"
  /\ task' = "repairing"
  /\ UNCHANGED <<call, on, focus, by, focused, screen, script, kwin, window>>

RepairEnds ==
  /\ task = "repairing"
  /\ task' = "running"
  /\ UNCHANGED <<call, on, focus, by, focused, screen, script, kwin, window>>

----------------------------------------------------------------------------
Init ==
  /\ call = [c \in Callers |-> "idle"]
  /\ on = FALSE /\ focus = FALSE /\ by = "nobody"
  /\ task = "none" /\ focused = FALSE
  /\ screen \in BOOLEAN /\ script = FALSE /\ window = {}
  /\ reports = <<>> /\ newest = FALSE

Takes(c) == StartReturns(c) \/ StartAcquires(c) \/ StopReturns(c) \/ StopTakes(c)
Proceeds(c) == StartSpawns(c) \/ LoadScript(c) \/ StartEnds(c) \/ StopAborts(c)

Next ==
  \/ \E c \in Callers : Ask(c) \/ Takes(c) \/ Proceeds(c)
  \/ FocusMoves \/ KWinReport \/ WindowReport
  \/ Opens \/ FocusArm \/ Ends \/ RepairBegins \/ RepairEnds

Spec == Init /\ [][Next]_vars

(* The lock is fair: a waiter that could have it again and again gets it.  *)
(* What is done under it ends by itself (15 tries, 300 ms, a bus call). So *)
(* does a repair, and the focus arm is polled in every turn of the loop.   *)
Fairness ==
  /\ \A c \in Callers : SF_vars(Takes(c)) /\ WF_vars(Proceeds(c))
  /\ SF_vars(KWinReport) /\ SF_vars(WindowReport)
  /\ WF_vars(Opens) /\ WF_vars(RepairEnds) /\ SF_vars(FocusArm)

FairSpec == Spec /\ Fairness

----------------------------------------------------------------------------
(* Properties.                                                             *)

(* The type of every variable.                                             *)
TypeOK ==
  /\ call \in [Callers -> {"idle", "start", "stop"} \cup Holding]
  /\ on \in BOOLEAN /\ focus \in BOOLEAN /\ by \in {"nobody", "script", "kwin", "late", "window"}
  /\ task \in {"none", "ended"} \cup Alive
  /\ focused \in BOOLEAN /\ screen \in BOOLEAN /\ script \in BOOLEAN
  /\ reports \in Seq(BOOLEAN) /\ newest \in BOOLEAN /\ window \in SUBSET BOOLEAN

(* Whoever starts and stops the mapper while the focus moves: once the     *)
(* last report that KWin sent has arrived, and however many older ones are *)
(* still to come, the mapper has the focus that is really there ("A false  *)
(* positive means injecting touches into the desktop"), until one of these *)
(* older ones, or one of the game window, is heard after it. A leftover    *)
(* script that nobody could replace must not be missing either.            *)
FocusAgrees ==
  on /\ script /\ by \in {"script", "kwin"} /\ ~newest => focus = screen

(* The same, also after a report that was overtaken: the code does not     *)
(* give this, for its reports are tasks that race for the lock.            *)
FocusAgreesAtLast ==
  on /\ script /\ by \in {"script", "kwin", "late"} /\ reports = <<>> => focus = screen

(* There is at most one runner, and none that nobody can stop: without a   *)
(* handle, and outside start and stop, no task is left.                    *)
NoOrphan == ~on /\ Free => task = "none"

(* A window that has lost the focus for good is not mapped for ever: with  *)
(* a loaded script, the loop of a runner that goes on learns it, through   *)
(* restarts, repairs, waits for the lock and reports that arrive in any    *)
(* order, if the one heard last is not one that was overtaken, nor one of  *)
(* the game window.                                                        *)
LossIsHeard ==
  <>[](~screen /\ script /\ by \notin {"late", "window"} /\ window = {} /\ on) =>
    <>[](task = "running" => ~focused)

(* No caller waits for ever behind the 15 s of another's start.            *)
CallersGetThrough == \A c \in Callers : call[c] # "idle" ~> call[c] = "idle"

(* "Starts the keymapper. A no-op if it is already running.": when the     *)
(* call comes back with a handle there is a runner, or one being opened.   *)
StartMeansRunning ==
  [][\A c \in Callers : call[c] \in {"start", "loaded"} /\ call'[c] = "idle" /\ on' =>
       task \in Alive]_vars
=============================================================================
