------------------------------- MODULE Session -------------------------------
(***************************************************************************)
(* Who starts and stops the one Waydroid session: liwd's supervision loop  *)
(* (crates/liwd/src/main.rs), D-Bus callers of its Manager, and the game   *)
(* windows of the launcher (crates/liw-ui/src/game.rs), all through        *)
(* Supervisor (crates/liw-core/src/session.rs). Nobody holds a lock: each  *)
(* await is a point where the others may act, and each actor is a process  *)
(* whose pc names the await it is at.                                      *)
(*                                                                         *)
(* All windows use one socket name, so the embedded display is a flag      *)
(* (named or not) and the socket belongs to the window that bound it.      *)
(*                                                                         *)
(* Waydroid is external: a start is accepted at once and comes up, or      *)
(* fails, later (the comment of liw/src/main.rs:399-402); a stop is taken  *)
(* to succeed, and to end a session in any phase.                          *)
(***************************************************************************)
EXTENDS Integers, FiniteSets

CONSTANTS
  Windows,      \* the game windows a launcher opens
  NoWindow,
  Threshold,    \* unhealthy_threshold (3)
  MaxAttempts,  \* max_recovery_attempts (3)
  MaxCrashes    \* bound: how often the daemon is restarted

ASSUME WindowsAssumption ==
  NoWindow \notin Windows /\ Windows \cap {"sup", "user", "desktop"} = {}
ASSUME LimitsAssumption ==
  Threshold \in Nat \ {0} /\ MaxAttempts \in Nat /\ MaxCrashes \in Nat

Procs == {"sup", "user"} \cup Windows
Sockets == {"desktop"} \cup Windows

VARIABLES
  sess,       \* the session and, unless it is down, the socket it draws to
  display,    \* Supervisor.embedded_display is set
  owner,      \* the window that has bound the socket
  win,        \* the life of each window
  pc,         \* the await each starter is at
  closing,    \* the same for the task a closing window leaves behind
  unhealthy, attempts,   \* locals of the supervision loop
  health,     \* Manager.health, the cached copy
  state,      \* Manager.state, the published SessionState
  view,       \* boot_completed in each window's copy of HealthJson
  crashes,
  home        \* history: where the session under recovery drew

loop == <<unhealthy, attempts, health, state>>
windows == <<owner, win, closing>>
vars == <<sess, display, owner, win, pc, closing, unhealthy, attempts, health,
          state, view, crashes, home>>

Down == [phase |-> "down", sock |-> NoWindow, booted |-> FALSE, broken |-> FALSE]
Sessions == [phase : {"starting", "up"}, sock : Sockets, booted : BOOLEAN,
             broken : BOOLEAN] \cup {Down}

Up == sess.phase = "up"

Healths == [running : BOOLEAN, boot : BOOLEAN, ok : BOOLEAN]
NoHealth == [running |-> FALSE, boot |-> FALSE, ok |-> FALSE]

(* Supervisor::health: boot_completed is the helper's answer, or inferred  *)
(* from the session when there is none. Of the other signals only whether  *)
(* all of them are good is kept.                                           *)
Readings ==
  {[running |-> Up, boot |-> b, ok |-> Up /\ b /\ ~sess.broken] : b \in {Up /\ sess.booted, Up}}

----------------------------------------------------------------------------
(* Supervisor.                                                             *)

(* Mutant of DisplayToUse: nobody checks that the socket is still there.   *)
DisplayUnchecked ==
  IF ~display THEN "desktop"
  ELSE IF owner # NoWindow THEN owner ELSE CHOOSE w \in Windows : TRUE

(* display_to_use: the name, if set and if the socket is there.            *)
DisplayToUse == IF display /\ owner # NoWindow THEN owner ELSE "desktop"

(* `waydroid session start', which Waydroid refuses beside another one.    *)
Spawned ==
  IF sess # Down THEN sess
  ELSE [Down EXCEPT !.phase = "starting", !.sock = DisplayToUse]

(* Where a process is when start_detached has returned.                    *)
Started(p) == IF p \in Windows THEN "boot" ELSE "idle"

(* The first await of start_detached: a running session is left alone.     *)
CheckStatus(p) ==
  /\ pc[p] = "check"
  /\ pc' = [pc EXCEPT ![p] = IF Up THEN Started(p) ELSE "spawn"]
  /\ unhealthy' = IF p = "sup" /\ Up THEN 0 ELSE unhealthy
  /\ home' = IF p = "sup" /\ Up THEN NoWindow ELSE home
  /\ UNCHANGED <<sess, display, windows, attempts, health, state, view, crashes>>

(* The rest of start_detached has no await before the spawn.               *)
Spawn(p) ==
  /\ pc[p] = "spawn"
  /\ sess' = Spawned
  /\ pc' = [pc EXCEPT ![p] = Started(p)]
  /\ unhealthy' = IF p = "sup" THEN 0 ELSE unhealthy
  /\ home' = IF p = "sup" THEN NoWindow ELSE home
  /\ UNCHANGED <<display, windows, attempts, health, state, view, crashes>>

(* Mutant of StopSession: stopping forgets the socket.                     *)
StopSessionForgettingDisplay(p) ==
  /\ pc[p] = "stop"
  /\ sess' = Down /\ display' = FALSE
  /\ pc' = [pc EXCEPT ![p] = IF p \in Windows THEN "wait" ELSE "check"]
  /\ home' = IF p = "sup" THEN sess.sock ELSE home
  /\ UNCHANGED <<windows, loop, view, crashes>>

(* session_stop, in recover (then a sleep and start_detached) and in the   *)
(* window's bring-up (then a wait).                                        *)
StopSession(p) ==
  /\ pc[p] = "stop"
  /\ sess' = Down
  /\ pc' = [pc EXCEPT ![p] = IF p \in Windows THEN "wait" ELSE "check"]
  /\ home' = IF p = "sup" THEN sess.sock ELSE home
  /\ UNCHANGED <<display, windows, loop, view, crashes>>

----------------------------------------------------------------------------
(* The supervision loop: one action per outcome of a poll. While recover   *)
(* runs, the loop is inside the ticker's arm and polls nothing.            *)

(* A window reads its client's copy while its bring-up runs.               *)
Watching(w) == pc[w] \notin {"idle", "point", "launch", "ended"}

(* The cached copy is replaced, and announced when it differs.             *)
Serve(h) ==
  /\ health' = h
  /\ view' = [w \in Windows |-> IF h = health THEN view[w] ELSE Watching(w) /\ h.boot]

PollStopped ==
  /\ pc["sup"] = "idle"
  /\ \E h \in Readings : ~h.running /\ Serve(h)
  /\ unhealthy' = 0 /\ attempts' = 0
  /\ state' = "STOPPED"
  /\ UNCHANGED <<sess, display, windows, pc, crashes, home>>

(* Mutant of PollHealthy: RECOVERING is taken for somebody else's state.   *)
PollHealthySilent ==
  /\ pc["sup"] = "idle"
  /\ \E h \in Readings : h.ok /\ Serve(h)
  /\ unhealthy' = 0 /\ attempts' = 0
  /\ state' = IF state = "RECOVERING" THEN state ELSE "RUNNING"
  /\ UNCHANGED <<sess, display, windows, pc, crashes, home>>

(* Mutant of PollHealthy: the strikes are not forgotten.                   *)
PollHealthyKeepingStrikes ==
  /\ pc["sup"] = "idle"
  /\ \E h \in Readings : h.ok /\ Serve(h)
  /\ attempts' = 0
  /\ state' = "RUNNING"
  /\ UNCHANGED <<sess, display, windows, pc, crashes, home, unhealthy>>

PollHealthy ==
  /\ pc["sup"] = "idle"
  /\ \E h \in Readings : h.ok /\ Serve(h)
  /\ unhealthy' = 0 /\ attempts' = 0
  /\ state' = "RUNNING"
  /\ UNCHANGED <<sess, display, windows, pc, crashes, home>>

(* The strike counter saturates at Threshold: the code only asks whether   *)
(* it has been reached.                                                    *)
Least(a, b) == IF a <= b THEN a ELSE b
Strike == Least(unhealthy + 1, Threshold)

(* Is this strike the one that starts a recovery (auto_recover is on)?     *)
Recovers == Strike >= Threshold /\ attempts < MaxAttempts

(* Mutant of PollUnhealthy: each strike is the first.                      *)
PollUnhealthyForgetting ==
  /\ pc["sup"] = "idle" /\ ~Recovers
  /\ \E h \in Readings : h.running /\ ~h.ok /\ Serve(h)
  /\ unhealthy' = 0
  /\ state' = "DEGRADED"
  /\ UNCHANGED <<sess, display, windows, pc, attempts, crashes, home>>

PollUnhealthy ==
  /\ pc["sup"] = "idle" /\ ~Recovers
  /\ \E h \in Readings : h.running /\ ~h.ok /\ Serve(h)
  /\ unhealthy' = Strike
  /\ state' = "DEGRADED"
  /\ UNCHANGED <<sess, display, windows, pc, attempts, crashes, home>>

PollRecovers ==
  /\ pc["sup"] = "idle" /\ Recovers
  /\ \E h \in Readings : h.running /\ ~h.ok /\ Serve(h)
  /\ unhealthy' = Strike
  /\ attempts' = attempts + 1
  /\ state' = "RECOVERING"
  /\ pc' = [pc EXCEPT !["sup"] = "stop"]
  /\ UNCHANGED <<sess, display, windows, crashes, home>>

(* The daemon is killed and started again by systemd. What it kept in      *)
(* memory is gone, the calls it was serving fail, and the session stays.   *)
DaemonRestarts ==
  /\ crashes < MaxCrashes
  /\ crashes' = crashes + 1
  /\ display' = FALSE /\ unhealthy' = 0 /\ attempts' = 0
  /\ health' = NoHealth /\ state' = "STOPPED"
  /\ view' \in {view, [w \in Windows |-> FALSE]}
  /\ pc' = [p \in Procs |-> IF p \notin Windows THEN "idle"
                            ELSE IF pc[p] \in {"check", "spawn"} THEN "ended" ELSE pc[p]]
  /\ home' = NoWindow
  /\ UNCHANGED <<sess, windows>>

----------------------------------------------------------------------------
(* The Manager's callers: the launcher's button, liw session ...           *)

UserStart ==
  /\ pc["user"] = "idle"
  /\ pc' = [pc EXCEPT !["user"] = "check"]
  /\ UNCHANGED <<sess, display, windows, loop, view, crashes, home>>

UserStop ==
  /\ pc["user"] = "idle"
  /\ sess' = Down
  /\ UNCHANGED <<display, windows, pc, loop, view, crashes, home>>

UserRestart ==
  /\ pc["user"] = "idle"
  /\ pc' = [pc EXCEPT !["user"] = "stop"]
  /\ UNCHANGED <<sess, display, windows, loop, view, crashes, home>>

(* Health writes the cached copy and announces nothing.                    *)
UserHealth ==
  /\ health' \in Readings
  /\ UNCHANGED <<sess, display, windows, pc, unhealthy, attempts, state, view,
                 crashes, home>>

----------------------------------------------------------------------------
(* A game window.                                                          *)

(* GameView::new: the compositor binds the socket, or finds it taken, and  *)
(* the bring-up is spawned either way.                                     *)
Open(w) ==
  /\ win[w] = "new"
  /\ win' = [win EXCEPT ![w] = "open"]
  /\ owner' = IF owner = NoWindow THEN w ELSE owner
  /\ pc' = [pc EXCEPT ![w] = "point"]
  /\ UNCHANGED <<sess, display, closing, loop, view, crashes, home>>

(* set_embedded_display; a new client reads the properties once.           *)
PointDaemon(w) ==
  /\ pc[w] = "point"
  /\ display' = TRUE
  /\ view' = [view EXCEPT ![w] = health.boot]
  /\ pc' = [pc EXCEPT ![w] = "read"]
  /\ UNCHANGED <<sess, windows, loop, crashes, home>>

ReadState(w) ==
  /\ pc[w] = "read"
  /\ pc' = [pc EXCEPT ![w] = IF state = "RUNNING" THEN "stop" ELSE "check"]
  /\ UNCHANGED <<sess, display, windows, loop, view, crashes, home>>

(* The state is no longer RUNNING, or forty polls have passed: either may  *)
(* be the case in any state.                                               *)
WaitGone(w) ==
  /\ pc[w] = "wait"
  /\ pc' = [pc EXCEPT ![w] = "check"]
  /\ UNCHANGED <<sess, display, windows, loop, view, crashes, home>>

SeeBoot(w) ==
  /\ pc[w] = "boot" /\ view[w]
  /\ pc' = [pc EXCEPT ![w] = "launch"]
  /\ UNCHANGED <<sess, display, windows, loop, view, crashes, home>>

(* launch_app refuses by the cached health; `waydroid app launch' then     *)
(* finds a session or fails.                                               *)
Launch(w) ==
  /\ pc[w] = "launch"
  /\ pc' = [pc EXCEPT ![w] = "ended"]
  /\ UNCHANGED <<sess, display, owner, win, closing, loop, view, crashes, home>>

(* A call that fails, or ninety polls without a boot.                      *)
GiveUp(w) ==
  /\ pc[w] \notin {"idle", "ended"}
  /\ pc' = [pc EXCEPT ![w] = "ended"]
  /\ UNCHANGED <<sess, display, windows, loop, view, crashes, home>>

(* The view is released: the socket goes (the compositor's thread reads    *)
(* the flag within 4 ms, taken as at once), and a task is left behind. The *)
(* bring-up is a task of its own and goes on.                              *)
Close(w) ==
  /\ win[w] = "open"
  /\ win' = [win EXCEPT ![w] = "closed"]
  /\ owner' = IF owner = w THEN NoWindow ELSE owner
  /\ closing' = [closing EXCEPT ![w] = "clear"]
  /\ UNCHANGED <<sess, display, pc, loop, view, crashes, home>>

ClearDisplay(w) ==
  /\ closing[w] = "clear"
  /\ display' = FALSE
  /\ closing' = [closing EXCEPT ![w] = "stop"]
  /\ UNCHANGED <<sess, owner, win, pc, loop, view, crashes, home>>

StopAndroid(w) ==
  /\ closing[w] = "stop"
  /\ sess' = Down
  /\ closing' = [closing EXCEPT ![w] = "done"]
  /\ UNCHANGED <<display, owner, win, pc, loop, view, crashes, home>>

----------------------------------------------------------------------------
(* Waydroid and Android (external).                                        *)

Waydroid(s) ==
  /\ sess' = s
  /\ UNCHANGED <<display, windows, pc, loop, view, crashes, home>>

ComeUp == sess.phase = "starting" /\ Waydroid([sess EXCEPT !.phase = "up"])
FailToStart == sess.phase = "starting" /\ Waydroid(Down)
Boot == Up /\ ~sess.booted /\ Waydroid([sess EXCEPT !.booted = TRUE])
Break == Up /\ ~sess.broken /\ Waydroid([sess EXCEPT !.broken = TRUE])
Heal == sess.broken /\ Waydroid([sess EXCEPT !.broken = FALSE])
Die == Up /\ Waydroid(Down)

----------------------------------------------------------------------------
(* The daemon may find a session that an earlier daemon left.              *)
Found == [Down EXCEPT !.phase = "up", !.sock = "desktop", !.booted = TRUE]

Init ==
  /\ sess \in {Down, Found} /\ display = FALSE /\ owner = NoWindow
  /\ win = [w \in Windows |-> "new"]
  /\ pc = [p \in Procs |-> "idle"]
  /\ closing = [w \in Windows |-> "no"]
  /\ unhealthy = 0 /\ attempts = 0 /\ health = NoHealth /\ state = "STOPPED"
  /\ view = [w \in Windows |-> FALSE]
  /\ crashes = 0 /\ home = NoWindow

Poll == PollStopped \/ PollHealthy \/ PollUnhealthy \/ PollRecovers
Step(p) == StopSession(p) \/ CheckStatus(p) \/ Spawn(p)
BringUp(w) == PointDaemon(w) \/ ReadState(w) \/ WaitGone(w) \/ SeeBoot(w) \/ Launch(w)
Closing(w) == ClearDisplay(w) \/ StopAndroid(w)

Next ==
  \/ Poll \/ DaemonRestarts
  \/ UserStart \/ UserStop \/ UserRestart \/ UserHealth
  \/ \E p \in Procs : Step(p)
  \/ \E w \in Windows : Open(w) \/ BringUp(w) \/ GiveUp(w) \/ Close(w) \/ Closing(w)
  \/ ComeUp \/ FailToStart \/ Boot \/ Break \/ Heal \/ Die

Spec == Init /\ [][Next]_vars

(* The ticker fires every five seconds, and recover is a finite sequence   *)
(* of awaits; the daemon is restarted a bounded number of times.           *)
FairSpec == Spec /\ WF_vars(Poll) /\ WF_vars(Step("sup"))

----------------------------------------------------------------------------
(* Properties.                                                             *)

(* The types of the three actors' variables.                               *)
TypeOK ==
  /\ sess \in Sessions /\ display \in BOOLEAN /\ owner \in Windows \cup {NoWindow}
  /\ win \in [Windows -> {"new", "open", "closed"}]
  /\ pc \in [Procs -> {"idle", "point", "read", "stop", "wait", "check", "spawn",
                       "boot", "launch", "ended"}]
  /\ closing \in [Windows -> {"no", "clear", "stop", "done"}]
  /\ unhealthy \in 0 .. Threshold /\ attempts \in 0 .. MaxAttempts
  /\ health \in Healths
  /\ state \in {"STOPPED", "RUNNING", "DEGRADED", "RECOVERING"}
  /\ view \in [Windows -> BOOLEAN]
  /\ crashes \in 0 .. MaxCrashes /\ home \in Sockets \cup {NoWindow}

(* From a state that was published as good or as stopped the loop never    *)
(* goes straight into a recovery ("do not restart on a single dip").       *)
NoRestartOnADip == [][state' = "RECOVERING" => state \notin {"RUNNING", "STOPPED"}]_vars

(* A session draws into a closed window's socket only until that window's  *)
(* own task has stopped it, whoever starts sessions meanwhile ("drawing    *)
(* into a socket nobody is listening on", stop_android_on_close).          *)
ClosedSocketIsLeft ==
  \A w \in Windows : sess.sock = w /\ win[w] = "closed" => closing[w] \in {"clear", "stop"}

(* As long as no window was closed and the daemon was not restarted, a     *)
(* session that the supervisor takes out of a window comes back in it      *)
(* ("a restart that forgot the socket would take the game out of this      *)
(* window", bring_up_android).                                             *)
RestartKeepsWindow ==
  [][crashes' = 0 /\ (\A w \in Windows : win[w] # "closed")
     /\ pc["sup"] = "spawn" /\ pc'["sup"] = "idle" /\ sess = Down /\ home \in Windows
       => sess'.sock = home]_vars

(* A session that stays broken is restarted until the attempts are used up.*)
BrokenIsRecovered ==
  Up /\ sess.broken ~> ~Up \/ ~sess.broken \/ attempts = MaxAttempts

(* Whatever the callers did before, the published state becomes true of a  *)
(* session that stays as it is.                                            *)
StateCatchesUp ==
  /\ <>[](Up /\ sess.booted /\ ~sess.broken) => <>[](state = "RUNNING")
  /\ <>[](sess = Down) => <>[](state = "STOPPED")

(* "Closing the window closes the game. The whole session goes": once the  *)
(* closed window's task has stopped Android, its bring-up starts none.     *)
ClosingEndsTheGame ==
  [][\A w \in Windows : closing[w] = "done" /\ pc[w] = "spawn" /\ pc'[w] = "boot" =>
       sess' = sess]_vars
=============================================================================
