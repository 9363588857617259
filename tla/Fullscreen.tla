----------------------------- MODULE Fullscreen -----------------------------
(***************************************************************************)
(* Making Waydroid's own window fullscreen, once for each window: liwd's   *)
(* window.rs, the arms of its supervision loop and the D-Bus methods that  *)
(* use it (main.rs), and the KWin scripts fullscreen.js and report.js,     *)
(* which answer with a call of ReportWindowGeometry.                       *)
(*                                                                         *)
(* The tasks of fullscreen_with_retry, the loop, KWin and the user run     *)
(* beside each other; what the daemon knows of the window is the report    *)
(* that came last. Each report is a D-Bus call in a task of its own, so    *)
(* that one may overtake another. A script that is loaded again before it  *)
(* has run runs once. The numbers of the windows, and which report was     *)
(* overtaken, are history: the code has neither.                           *)
(***************************************************************************)
EXTENDS Naturals, Sequences

CONSTANTS
  Tasks,        \* tasks of fullscreen_with_retry there may be at a time
  Attempts,     \* bound: attempts of a task (3, 5 or 6)
  PollEvery,    \* WINDOW_POLL_EVERY (6)
  MaxWindows,   \* bound: windows opened
  MaxReports    \* bound: reports on their way

ASSUME FullscreenAssumption ==
  {Attempts, PollEvery, MaxWindows, MaxReports} \subseteq Nat \ {0}

NoWindow == 0
Scripts == {"fullscreen", "report"}

VARIABLES
  sess,       \* "down", "booting" (running, not healthy) or "up"
  win, fs,    \* the window there is, and whether it is fullscreen
  opened,     \* windows opened so far
  attempted,  \* WindowState.attempted
  geometry,   \* WindowState.geometry: the report that came last
  wasRunning, winTick,   \* locals of the supervision loop
  polling,    \* the loop has asked for a report and is about to look
  left,       \* attempts each task has left; 0 when there is no task
  asleep,     \* tasks that have sent a request and wait
  loaded,     \* scripts KWin is to run
  reports,    \* reports on their way, as they were sent
  call,       \* SetActiveWindow("waydroid"): "none", "called", "passed"
  onStart,    \* fullscreen_on_start
  heard       \* history: the newest window that a report has told of

session == <<sess, win, fs, opened>>
loop == <<wasRunning, winTick, polling>>
kwin == <<loaded, reports>>
retry == <<left, asleep>>
fullscreenVars == <<session, attempted, geometry, loop, retry, kwin, call, onStart, heard>>

(* A report: its window, if there is one, and whether a newer report has   *)
(* arrived before it.                                                      *)
NoGeometry == [window |-> NoWindow, fullscreen |-> FALSE, late |-> FALSE]

Found == geometry.window # NoWindow

----------------------------------------------------------------------------
(* fullscreen_with_retry.                                                  *)

Free == {t \in Tasks : left[t] = 0}

SpawnRetry ==
  \E t \in Free : left' = [left EXCEPT ![t] = Attempts] /\ UNCHANGED asleep

(* A script is unloaded, loaded and started; each step may fail, and the   *)
(* error is at most logged.                                                *)
Load(script) ==
  loaded' \in {loaded \cup {script}, loaded, loaded \ {script}}

(* request_fullscreen.                                                     *)
Request(t) ==
  /\ left[t] > 0 /\ t \notin asleep
  /\ asleep' = asleep \cup {t}
  /\ Load("fullscreen")
  /\ UNCHANGED <<session, attempted, geometry, loop, left, reports, call, onStart, heard>>

(* After its sleep a task looks at the last report: it is done, has one    *)
(* attempt less, or gives up.                                              *)
Look(t) ==
  /\ t \in asleep
  /\ asleep' = asleep \ {t}
  /\ left' = [left EXCEPT ![t] = IF Found /\ geometry.fullscreen THEN 0 ELSE @ - 1]
  /\ UNCHANGED <<session, attempted, geometry, loop, kwin, call, onStart, heard>>

----------------------------------------------------------------------------
(* KWin and its scripts.                                                   *)

Reported(full) ==
  reports' = Append(reports, [window |-> win, fullscreen |-> full, late |-> FALSE])

(* fullscreen.js, or report.js, which changes nothing.                     *)
RunScript(s) ==
  /\ s \in loaded /\ Len(reports) < MaxReports
  /\ loaded' = loaded \ {s}
  /\ fs' = (fs \/ (s = "fullscreen" /\ win # NoWindow))
  /\ Reported(fs')
  /\ UNCHANGED <<sess, win, opened, attempted, geometry, loop, retry, call, onStart, heard>>

(* Report i has overtaken those before it.                                 *)
Taken(i) ==
  reports' = [j \in 1 .. Len(reports) - 1 |->
                IF j < i THEN [reports[j] EXCEPT !.late = TRUE] ELSE reports[j + 1]]

(* ReportWindowGeometry.                                                   *)
Report ==
  /\ \E i \in 1 .. Len(reports) :
       /\ geometry' = reports[i] /\ Taken(i)
       /\ heard' = IF reports[i].window > heard THEN reports[i].window ELSE heard
  /\ UNCHANGED <<session, attempted, loop, retry, loaded, call, onStart>>

(* focus.js reports the window that has the focus, also when it is loaded. *)
Focus ==
  /\ win # NoWindow /\ call = "none"
  /\ call' = "called"
  /\ UNCHANGED <<session, attempted, geometry, loop, retry, kwin, onStart, heard>>

----------------------------------------------------------------------------
(* The daemon.                                                             *)

(* Manager::set_active_window: only the first time.                        *)
Check ==
  /\ call = "called"
  /\ call' = IF attempted \/ ~onStart THEN "none" ELSE "passed"
  /\ UNCHANGED <<session, attempted, geometry, loop, retry, kwin, onStart, heard>>

Mark ==
  /\ call = "passed" /\ call' = "none"
  /\ attempted' = TRUE
  /\ SpawnRetry
  /\ UNCHANGED <<session, geometry, loop, kwin, onStart, heard>>

(* Manager::fullscreen, for the command line and the browser editor.       *)
Fullscreen ==
  /\ SpawnRetry
  /\ UNCHANGED <<session, attempted, geometry, loop, kwin, call, onStart, heard>>

(* One turn of the loop, which waits for nothing but a poll.               *)
TickDone(running) ==
  /\ ~polling
  /\ wasRunning' = running
  /\ UNCHANGED <<session, reports, call, onStart, heard>>

(* A stopped session: what was known of its window is forgotten.           *)
TickStopped ==
  /\ sess = "down"
  /\ IF wasRunning THEN attempted' = FALSE /\ geometry' = NoGeometry
                   ELSE UNCHANGED <<attempted, geometry>>
  /\ TickDone(FALSE)
  /\ UNCHANGED <<winTick, polling, retry, loaded>>

(* A session that just came up.                                            *)
TickUp ==
  /\ sess = "up" /\ ~wasRunning
  /\ winTick' = (winTick + 1) % PollEvery
  /\ IF onStart THEN SpawnRetry ELSE UNCHANGED retry
  /\ TickDone(TRUE)
  /\ UNCHANGED <<attempted, geometry, polling, loaded>>

(* Mutant of NoteWindowGone: each poll allows another attempt.             *)
NoteAnyWindow == attempted' = FALSE

(* note_window_gone.                                                       *)
NoteWindowGone == attempted' = (attempted /\ Found)

(* Mutant of AskWhere: nobody asks where the window is.                    *)
AskNobody == UNCHANGED loaded

(* request_report.                                                         *)
AskWhere == Load("report")

(* Every PollEvery-th tick of a healthy session polls the window.          *)
TickHealthy ==
  /\ sess = "up" /\ wasRunning
  /\ winTick' = (winTick + 1) % PollEvery
  /\ polling' = (winTick' = 0 /\ attempted)
  /\ IF polling' THEN AskWhere ELSE UNCHANGED loaded
  /\ TickDone(TRUE)
  /\ UNCHANGED <<attempted, geometry, retry>>

(* What the poll looks at may be its own answer, or still an older one.    *)
PollLooks ==
  /\ polling /\ polling' = FALSE
  /\ NoteWindowGone
  /\ UNCHANGED <<session, geometry, wasRunning, winTick, retry, kwin, call, onStart, heard>>

(* An unhealthy one is left alone, or stopped and started inside of this   *)
(* arm of the loop, which never sees it stopped.                           *)
TickDegraded ==
  /\ sess = "booting" /\ ~polling
  /\ win' = NoWindow /\ fs' = FALSE
  /\ UNCHANGED <<sess, opened, attempted, geometry, loop, retry, kwin, call, onStart, heard>>

----------------------------------------------------------------------------
(* The session and its user.                                               *)

SessionBecomes(s) ==
  /\ sess' = s
  /\ IF s = "down" THEN win' = NoWindow /\ fs' = FALSE ELSE UNCHANGED <<win, fs>>
  /\ UNCHANGED <<opened, attempted, geometry, loop, retry, kwin, call, onStart, heard>>

SessionMoves ==
  \/ sess = "down" /\ SessionBecomes("booting")
  \/ sess = "booting" /\ SessionBecomes("up")
  \/ sess = "up" /\ SessionBecomes("booting")
  \/ sess # "down" /\ SessionBecomes("down")

OpenWindow ==
  /\ sess = "up" /\ win = NoWindow /\ opened < MaxWindows
  /\ opened' = opened + 1 /\ win' = opened'
  /\ fs' = FALSE
  /\ UNCHANGED <<sess, attempted, geometry, loop, retry, kwin, call, onStart, heard>>

WindowCloses ==
  /\ win # NoWindow
  /\ win' = NoWindow /\ fs' = FALSE
  /\ UNCHANGED <<sess, opened, attempted, geometry, loop, retry, kwin, call, onStart, heard>>

(* Its user leaves fullscreen.                                             *)
Leave ==
  /\ fs /\ fs' = FALSE
  /\ UNCHANGED <<sess, win, opened, attempted, geometry, loop, retry, kwin, call, onStart,
                 heard>>

----------------------------------------------------------------------------
FullscreenInit ==
  /\ sess \in {"down", "booting", "up"}
  /\ win = NoWindow /\ fs = FALSE /\ opened = 0
  /\ attempted = FALSE /\ geometry = NoGeometry
  /\ wasRunning = FALSE /\ winTick = 0 /\ polling = FALSE
  /\ left = [t \in Tasks |-> 0] /\ asleep = {}
  /\ loaded = {} /\ reports = <<>>
  /\ call = "none" /\ onStart \in BOOLEAN
  /\ heard = NoWindow

Tick == TickStopped \/ TickUp \/ TickHealthy \/ PollLooks \/ TickDegraded
Retry == \E t \in Tasks : Request(t) \/ Look(t)
KWin == Report \/ \E s \in Scripts : RunScript(s)
SetActiveWindow == Check \/ Mark
User == Focus \/ Fullscreen \/ OpenWindow \/ WindowCloses \/ Leave

FullscreenNext == Tick \/ Retry \/ KWin \/ SetActiveWindow \/ SessionMoves \/ User

FullscreenSpec == FullscreenInit /\ [][FullscreenNext]_fullscreenVars

(* The ticker, the spawned tasks, KWin and the calls it has made go on; a  *)
(* script that is loaded again and again is run, and KWin does not refuse  *)
(* every poll. Nothing is asked of the session or its user.                *)
FairFullscreenSpec ==
  /\ FullscreenSpec
  /\ SF_fullscreenVars(TickUp) /\ WF_fullscreenVars(TickHealthy) /\ WF_fullscreenVars(PollLooks)
  /\ SF_fullscreenVars(TickHealthy /\ polling' /\ "report" \in loaded')
  /\ SF_fullscreenVars(\E s \in Scripts : RunScript(s)) /\ WF_fullscreenVars(Report)
  /\ WF_fullscreenVars(Retry)

----------------------------------------------------------------------------
(* Properties.                                                             *)

(* "If the window IS there but not fullscreen, nothing is touched"         *)
(* (window.rs): once a report has told of the window, no poll takes it for *)
(* closed and allows another attempt, whatever reports are on their way    *)
(* and whatever KWin refuses, unless the report that came last had been    *)
(* overtaken.                                                              *)
KnownIsKept ==
  [][attempted /\ ~attempted' => win = NoWindow \/ heard # win \/ geometry.late]_fullscreenVars

(* The same of any window that is there. The code does not give it: a poll *)
(* may come before the first report of a window, or after requests that    *)
(* KWin has refused, and forces back a user who has left fullscreen.       *)
TriedIsKept ==
  [][attempted /\ ~attempted' => win = NoWindow]_fullscreenVars

(* "Closing and reopening the window is noticed within half a minute"      *)
(* (main.rs), when no other one is opened before that, and the session     *)
(* stays up: the next window gets its attempt.                             *)
ClosingIsNoticed ==
  (attempted /\ win = NoWindow /\ sess = "up")
    ~> (~attempted \/ win # NoWindow \/ sess # "up")

(* "Called when the session goes down, so a new session retries"           *)
(* (window.rs): a session that comes up, with no window yet, has no flag   *)
(* of an old one. Not so when the loop has not seen it stopped.            *)
NewSessionRetries ==
  [][sess = "booting" /\ sess' = "up" /\ win = NoWindow => ~attempted]_fullscreenVars
=============================================================================
