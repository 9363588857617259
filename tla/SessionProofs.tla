--------------------------- MODULE SessionProofs ---------------------------
(***************************************************************************)
(* What holds of session control for every number of windows, threshold    *)
(* and number of attempts and daemon restarts.                             *)
(***************************************************************************)
EXTENDS Session, TLAPS

(* The socket belongs to an open window.                                   *)
OwnerIsOpen == owner # NoWindow => win[owner] = "open"

(* Only a closed window has a closing task.                                *)
TasksAreOfClosed == \A w \in Windows : closing[w] # "no" => win[w] = "closed"

(* While no window was closed and the daemon has its memory, a session in  *)
(* a window (now, or when its recovery began) is in the socket the daemon  *)
(* would start it on again.                                                *)
NoneClosed == crashes = 0 /\ \A w \in Windows : win[w] # "closed"
Kept(s) == NoneClosed /\ s \in Windows => display /\ owner = s

(* Strikes are published.                                                  *)
StrikesShow == pc["sup"] = "idle" /\ unhealthy > 0 => state = "DEGRADED"

IInv ==
  /\ TypeOK
  /\ OwnerIsOpen /\ TasksAreOfClosed /\ ClosedSocketIsLeft
  /\ Kept(sess.sock) /\ Kept(home)
  /\ StrikesShow

----------------------------------------------------------------------------
LEMMA DownType ==
  /\ Down \in Sessions /\ Down.sock = NoWindow /\ Down.phase = "down"
  /\ NoWindow \notin Windows
BY WindowsAssumption DEF Down, Sessions

LEMMA Members ==
  /\ "sup" \in Procs /\ "user" \in Procs /\ "sup" \notin Windows /\ "user" \notin Windows
  /\ "desktop" \notin Windows /\ "desktop" \in Sockets
  /\ \A w \in Windows : w \in Procs /\ w \in Sockets /\ w # "sup" /\ w # "user"
BY WindowsAssumption DEF Procs, Sockets

LEMMA SessionType ==
  ASSUME sess \in Sessions
  PROVE  /\ sess.sock \in Sockets \cup {NoWindow}
         /\ sess.phase # "down" => sess.sock \in Sockets
         /\ sess.phase \in {"down", "starting", "up"}
BY DEF Sessions, Down

LEMMA ReadingType == ASSUME sess \in Sessions PROVE Readings \subseteq Healths
<1>1. Up \in BOOLEAN
  BY DEF Up
<1>2. (Up /\ sess.booted) \in BOOLEAN
  OBVIOUS
<1>3. SUFFICES ASSUME NEW b \in BOOLEAN
               PROVE  [running |-> Up, boot |-> b, ok |-> Up /\ b /\ ~sess.broken] \in Healths
  BY <1>1, <1>2 DEF Readings
<1>4. (Up /\ b /\ ~sess.broken) \in BOOLEAN
  OBVIOUS
<1> DEFINE ok == Up /\ b /\ ~sess.broken
<1>5. ok \in BOOLEAN
  BY <1>4
<1> HIDE DEF ok
<1>6. [running |-> Up, boot |-> b, ok |-> ok] \in Healths
  BY <1>1, <1>5 DEF Healths
<1> QED BY <1>6 DEF ok

(* A session that Spawned makes is down, as before, or in the socket that  *)
(* display_to_use names.                                                   *)
LEMMA SpawnedEffect ==
  ASSUME TypeOK
  PROVE  /\ Spawned \in Sessions
         /\ sess # Down => Spawned = sess
         /\ sess = Down => Spawned.sock = DisplayToUse
         /\ DisplayToUse \in Sockets
<1>1. DisplayToUse \in Sockets
  BY Members DEF DisplayToUse, TypeOK, Sockets
<1>2. CASE sess # Down
  BY <1>1, <1>2 DEF Spawned, TypeOK
<1>3. CASE sess = Down
  <2>1. Spawned = [phase |-> "starting", sock |-> DisplayToUse,
                      booted |-> FALSE, broken |-> FALSE]
    BY <1>3 DEF Spawned, Down
  <2> QED BY <1>1, <1>3, <2>1 DEF Sessions
<1> QED BY <1>2, <1>3

LEMMA StrikeType ==
  ASSUME TypeOK
  PROVE  Strike \in 0 .. Threshold /\ Strike <= unhealthy + 1
BY LimitsAssumption DEF TypeOK, Strike, Least

LEMMA ServeType ==
  ASSUME TypeOK, NEW h \in Readings, Serve(h)
  PROVE  health' \in Healths /\ view' \in [Windows -> BOOLEAN]
<1>1. h \in Healths
  BY ReadingType DEF TypeOK
<1>2. \A w \in Windows : Watching(w) \in BOOLEAN
  BY DEF Watching
<1>3. h.boot \in BOOLEAN
  BY <1>1 DEF Healths
<1>4. view \in [Windows -> BOOLEAN]
  BY DEF TypeOK
<1>5. view' = [w \in Windows |-> IF h = health THEN view[w] ELSE Watching(w) /\ h.boot]
  BY DEF Serve
<1>6. \A w \in Windows : (IF h = health THEN view[w] ELSE Watching(w) /\ h.boot) \in BOOLEAN
  BY <1>2, <1>3, <1>4
<1> QED BY <1>1, <1>5, <1>6 DEF Serve

----------------------------------------------------------------------------
LEMMA InitIInv == Init => IInv
<1> SUFFICES ASSUME Init PROVE IInv
  OBVIOUS
<1>1. sess \in Sessions /\ sess.sock \notin Windows
  BY DownType, Members DEF Init, Found, Down, Sessions
<1>2. health \in Healths
  BY DEF Init, Healths, NoHealth
<1>3. pc \in [Procs -> {"idle"}] /\ home \notin Windows
  BY DownType DEF Init
<1>4. 0 \in 0 .. Threshold /\ 0 \in 0 .. MaxAttempts /\ 0 \in 0 .. MaxCrashes
  BY LimitsAssumption
<1>5. win \in [Windows -> {"new"}] /\ closing \in [Windows -> {"no"}] /\ view \in [Windows -> {FALSE}]
  BY DEF Init
<1>6. TypeOK
  BY <1>1, <1>2, <1>3, <1>4, <1>5 DEF Init, TypeOK
<1> QED BY <1>1, <1>3, <1>6
  DEF Init, IInv, OwnerIsOpen, TasksAreOfClosed, ClosedSocketIsLeft, Kept, StrikesShow

(* The part of the invariant the windows and the sockets are in.           *)
Sockeds == /\ OwnerIsOpen /\ TasksAreOfClosed /\ ClosedSocketIsLeft
           /\ Kept(sess.sock) /\ Kept(home)

LEMMA SocketsSame ==
  ASSUME IInv, UNCHANGED <<windows, display>>,
         crashes' = crashes,
         sess'.sock = sess.sock \/ sess'.sock \notin Windows
           \/ (sess'.sock = owner /\ display),
         home' = home \/ home' = sess.sock \/ home' \notin Windows
  PROVE  Sockeds'
<1>1. OwnerIsOpen' /\ TasksAreOfClosed'
  BY DEF IInv, OwnerIsOpen, TasksAreOfClosed, windows
<1>2. ClosedSocketIsLeft'
  <2> SUFFICES ASSUME NEW w \in Windows, sess'.sock = w, win[w] = "closed"
               PROVE  closing[w] \in {"clear", "stop"}
    BY DEF ClosedSocketIsLeft, windows
  <2>1. w # owner
    BY DownType DEF IInv, OwnerIsOpen
  <2> QED BY <2>1 DEF IInv, ClosedSocketIsLeft
<1>3. Kept(sess.sock)' /\ Kept(home)'
  BY DEF IInv, Kept, NoneClosed, windows
<1> QED BY <1>1, <1>2, <1>3 DEF Sockeds

LEMMA StepIInv == IInv /\ [Next]_vars => IInv'
<1> SUFFICES ASSUME IInv, [Next]_vars PROVE IInv'
  OBVIOUS
<1> USE DownType, Members
<1>t. TypeOK /\ sess \in Sessions /\ sess.sock \in Sockets \cup {NoWindow}
  BY SessionType DEF IInv, TypeOK
<1>a. ASSUME NEW p \in Procs, CheckStatus(p) PROVE IInv'
  <2>1. TypeOK'
    BY <1>a, <1>t, LimitsAssumption DEF CheckStatus, TypeOK, windows, Started
  <2>2. Sockeds'
    BY <1>a, SocketsSame DEF CheckStatus
  <2>3. StrikesShow'
    <3>1. CASE p = "sup"
      BY <1>a, <1>t, <3>1 DEF CheckStatus, StrikesShow, IInv, TypeOK
    <3>2. CASE p # "sup"
      BY <1>a, <1>t, <3>2 DEF CheckStatus, StrikesShow, IInv, TypeOK
    <3> QED BY <3>1, <3>2
  <2> QED BY <2>1, <2>2, <2>3 DEF IInv, Sockeds
<1>b. ASSUME NEW p \in Procs, Spawn(p) PROVE IInv'
  <2>1. TypeOK'
    BY <1>b, <1>t, LimitsAssumption, SpawnedEffect DEF Spawn, TypeOK, windows, Started
  <2>2. Sockeds'
    <3>1. sess'.sock = sess.sock \/ sess'.sock \notin Windows
            \/ (sess'.sock = owner /\ display)
      BY <1>b, <1>t, SpawnedEffect DEF Spawn, DisplayToUse
    <3> QED BY <1>b, <3>1, SocketsSame DEF Spawn
  <2>3. StrikesShow'
    BY <1>b, <1>t DEF Spawn, StrikesShow, IInv, TypeOK
  <2> QED BY <2>1, <2>2, <2>3 DEF IInv, Sockeds
<1>c. ASSUME NEW p \in Procs, StopSession(p) PROVE IInv'
  <2>1. TypeOK'
    BY <1>c, <1>t DEF StopSession, TypeOK, windows, loop
  <2>2. Sockeds'
    BY <1>c, SocketsSame DEF StopSession
  <2>3. StrikesShow'
    BY <1>c, <1>t DEF StopSession, StrikesShow, IInv, TypeOK, loop
  <2> QED BY <2>1, <2>2, <2>3 DEF IInv, Sockeds
<1>d. ASSUME Poll PROVE IInv'
  <2>1. PICK h \in Readings : Serve(h)
    BY <1>d DEF Poll, PollStopped, PollHealthy, PollUnhealthy, PollRecovers
  <2>2. health' \in Healths /\ view' \in [Windows -> BOOLEAN]
    BY <1>t, <2>1, ServeType
  <2>3. /\ UNCHANGED <<sess, display, windows, crashes, home>>
        /\ pc' \in {pc, [pc EXCEPT !["sup"] = "stop"]}
        /\ unhealthy' \in {0, Strike}
        /\ attempts' \in 0 .. MaxAttempts
        /\ state' \in {"STOPPED", "RUNNING", "DEGRADED", "RECOVERING"}
    <3>1. attempts \in 0 .. MaxAttempts
      BY <1>t DEF TypeOK
    <3>2. CASE PollStopped \/ PollHealthy
      BY <3>2, LimitsAssumption DEF PollStopped, PollHealthy
    <3>3. CASE PollUnhealthy
      BY <3>1, <3>3 DEF PollUnhealthy
    <3>4. CASE PollRecovers
      BY <3>1, <3>4, LimitsAssumption DEF PollRecovers, Recovers
    <3> QED BY <1>d, <3>2, <3>3, <3>4 DEF Poll
  <2>4. unhealthy' \in 0 .. Threshold
    BY <1>t, <2>3, StrikeType, LimitsAssumption
  <2>5. TypeOK'
    BY <1>t, <2>2, <2>3, <2>4 DEF TypeOK, windows
  <2>6. Sockeds'
    BY <2>3, SocketsSame
  <2>7. StrikesShow'
    BY <1>d, <1>t DEF Poll, PollStopped, PollHealthy, PollUnhealthy, PollRecovers,
       StrikesShow, TypeOK
  <2> QED BY <2>5, <2>6, <2>7 DEF IInv, Sockeds
<1>e. ASSUME DaemonRestarts PROVE IInv'
  <2>1. crashes' \in 1 .. MaxCrashes
    BY <1>e, <1>t, LimitsAssumption DEF DaemonRestarts, TypeOK
  <2>2. pc' \in [Procs -> {"idle", "point", "read", "stop", "wait", "check", "spawn",
                           "boot", "launch", "ended"}]
    BY <1>e, <1>t DEF DaemonRestarts, TypeOK
  <2>3. health' \in Healths /\ view' \in [Windows -> BOOLEAN]
    BY <1>e, <1>t DEF DaemonRestarts, TypeOK, NoHealth, Healths
  <2>4. TypeOK'
    <3>1. /\ UNCHANGED <<sess, owner, win, closing>>
          /\ state' = "STOPPED" /\ home' = NoWindow
      BY <1>e DEF DaemonRestarts, windows
    <3>2. display' \in BOOLEAN
      BY <1>e DEF DaemonRestarts
    <3>3. unhealthy' = 0 /\ attempts' = 0
      BY <1>e DEF DaemonRestarts
    <3>4. unhealthy' \in 0 .. Threshold /\ attempts' \in 0 .. MaxAttempts
      BY <3>3, LimitsAssumption
    <3>5. crashes' \in 0 .. MaxCrashes
      BY <2>1
    <3> QED BY <1>t, <2>2, <2>3, <3>1, <3>2, <3>4, <3>5 DEF TypeOK
  <2>5. Sockeds'
    BY <1>e, <1>t, <2>1 DEF DaemonRestarts, IInv, Sockeds, OwnerIsOpen, TasksAreOfClosed,
       ClosedSocketIsLeft, Kept, NoneClosed, TypeOK, windows
  <2>6. StrikesShow'
    BY <1>e DEF DaemonRestarts, StrikesShow
  <2> QED BY <2>5, <2>6, <2>4 DEF IInv, Sockeds
<1>f. ASSUME UserStart \/ UserStop \/ UserRestart PROVE IInv'
  <2>1. /\ UNCHANGED <<display, windows, loop, view, crashes, home>>
        /\ sess' \in {sess, Down} /\ pc'["sup"] = pc["sup"]
        /\ pc' \in {pc, [pc EXCEPT !["user"] = "check"], [pc EXCEPT !["user"] = "stop"]}
    BY <1>f, <1>t DEF UserStart, UserStop, UserRestart, TypeOK
  <2>2. TypeOK'
    BY <1>t, <2>1 DEF TypeOK, windows, loop
  <2>3. Sockeds'
    BY <2>1, SocketsSame
  <2>4. StrikesShow'
    BY <2>1 DEF StrikesShow, IInv, loop
  <2> QED BY <2>2, <2>3, <2>4 DEF IInv, Sockeds
<1>g. ASSUME UserHealth PROVE IInv'
  <2>1. TypeOK'
    BY <1>g, <1>t, ReadingType DEF UserHealth, TypeOK, windows
  <2>2. Sockeds'
    BY <1>g, SocketsSame DEF UserHealth
  <2>3. StrikesShow'
    BY <1>g DEF UserHealth, StrikesShow, IInv
  <2> QED BY <2>1, <2>2, <2>3 DEF IInv, Sockeds
<1>h. ASSUME NEW w \in Windows, Open(w) PROVE IInv'
  <2>1. TypeOK'
    BY <1>h, <1>t DEF Open, TypeOK, loop
  <2>2. OwnerIsOpen'
    BY <1>h, <1>t DEF Open, IInv, OwnerIsOpen, TypeOK
  <2>3. TasksAreOfClosed' /\ ClosedSocketIsLeft'
    BY <1>h, <1>t DEF Open, IInv, TasksAreOfClosed, ClosedSocketIsLeft, TypeOK
  <2>4. NoneClosed' => NoneClosed
    BY <1>h, <1>t DEF Open, NoneClosed, TypeOK
  <2>5. Kept(sess.sock)' /\ Kept(home)'
    BY <1>h, <2>4 DEF Open, IInv, Kept
  <2>6. StrikesShow'
    BY <1>h, <1>t DEF Open, StrikesShow, IInv, TypeOK, loop
  <2> QED BY <2>1, <2>2, <2>3, <2>5, <2>6 DEF IInv
<1>i. ASSUME NEW w \in Windows, BringUp(w) \/ GiveUp(w) PROVE IInv'
  <2>1. /\ UNCHANGED <<sess, windows, loop, crashes, home>>
        /\ display' \in {display, TRUE}
        /\ pc' \in [Procs -> {"idle", "point", "read", "stop", "wait", "check", "spawn",
                              "boot", "launch", "ended"}]
        /\ pc'["sup"] = pc["sup"]
        /\ view' \in [Windows -> BOOLEAN]
    BY <1>i, <1>t DEF BringUp, PointDaemon, ReadState, WaitGone, SeeBoot, Launch, GiveUp,
       TypeOK, Healths, windows
  <2>2. TypeOK'
    BY <1>t, <2>1 DEF TypeOK, windows, loop
  <2>3. OwnerIsOpen' /\ TasksAreOfClosed' /\ ClosedSocketIsLeft'
    BY <2>1 DEF IInv, OwnerIsOpen, TasksAreOfClosed, ClosedSocketIsLeft, windows
  <2>4. StrikesShow'
    BY <2>1 DEF StrikesShow, IInv, loop
  <2>5. NoneClosed' => NoneClosed
    BY <2>1 DEF NoneClosed, windows
  <2>6. display => display'
    <3>1. CASE PointDaemon(w)
      BY <3>1 DEF PointDaemon
    <3>2. CASE ~PointDaemon(w)
      BY <1>i, <3>2 DEF BringUp, ReadState, WaitGone, SeeBoot, Launch, GiveUp
    <3> QED BY <3>1, <3>2
  <2>7. Kept(sess.sock)' /\ Kept(home)'
    <3>1. sess' = sess /\ home' = home /\ owner' = owner
      BY <2>1 DEF windows
    <3> QED BY <2>5, <2>6, <3>1 DEF IInv, Kept
  <2> QED BY <2>2, <2>3, <2>4, <2>7 DEF IInv
<1>j. ASSUME NEW w \in Windows, Close(w) PROVE IInv'
  <2>1. TypeOK'
    BY <1>j, <1>t DEF Close, TypeOK, loop
  <2>2. OwnerIsOpen'
    BY <1>j, <1>t DEF Close, IInv, OwnerIsOpen, TypeOK
  <2>3. TasksAreOfClosed' /\ ClosedSocketIsLeft'
    BY <1>j, <1>t DEF Close, IInv, TasksAreOfClosed, ClosedSocketIsLeft, TypeOK
  <2>4. ~NoneClosed'
    BY <1>j, <1>t DEF Close, NoneClosed, TypeOK
  <2>5. StrikesShow'
    BY <1>j DEF Close, StrikesShow, IInv, loop
  <2> QED BY <2>1, <2>2, <2>3, <2>4, <2>5 DEF IInv, Kept
<1>k. ASSUME NEW w \in Windows, Closing(w) PROVE IInv'
  <2>1. win[w] = "closed"
    BY <1>k DEF Closing, ClearDisplay, StopAndroid, IInv, TasksAreOfClosed
  <2>2. /\ UNCHANGED <<owner, win, pc, loop, view, crashes, home>>
        /\ sess' \in {sess, Down} /\ display' \in {display, FALSE}
        /\ closing' \in [Windows -> {"no", "clear", "stop", "done"}]
    BY <1>k, <1>t DEF Closing, ClearDisplay, StopAndroid, TypeOK
  <2>3. TypeOK'
    BY <1>t, <2>2 DEF TypeOK, loop
  <2>4. OwnerIsOpen' /\ TasksAreOfClosed'
    BY <1>k, <1>t, <2>1, <2>2 DEF Closing, ClearDisplay, StopAndroid, IInv, OwnerIsOpen,
       TasksAreOfClosed, TypeOK
  <2>5. ClosedSocketIsLeft'
    BY <1>k, <1>t DEF Closing, ClearDisplay, StopAndroid, IInv, ClosedSocketIsLeft, TypeOK
  <2>6. ~NoneClosed'
    BY <2>1, <2>2 DEF NoneClosed
  <2>7. StrikesShow'
    BY <2>2 DEF StrikesShow, IInv, loop
  <2> QED BY <2>3, <2>4, <2>5, <2>6, <2>7 DEF IInv, Kept
<1>l. ASSUME ComeUp \/ FailToStart \/ Boot \/ Break \/ Heal \/ Die PROVE IInv'
  <2>1. /\ UNCHANGED <<display, windows, pc, loop, view, crashes, home>>
        /\ sess' \in Sessions /\ sess'.sock \in {sess.sock, NoWindow}
    <3>1. CASE FailToStart \/ Die
      BY <3>1 DEF FailToStart, Die, Waydroid
    <3>2. CASE ComeUp
      BY <3>2, <1>t DEF ComeUp, Waydroid, Sessions, Down
    <3>3. CASE Boot
      BY <3>3, <1>t DEF Boot, Waydroid, Up, Sessions, Down
    <3>4. CASE Break
      BY <3>4, <1>t DEF Break, Waydroid, Up, Sessions, Down
    <3>5. CASE Heal
      <4>1. sess # Down
        BY <3>5 DEF Heal, Down
      <4> QED BY <3>5, <4>1, <1>t DEF Heal, Waydroid, Sessions
    <3> QED BY <1>l, <3>1, <3>2, <3>3, <3>4, <3>5
  <2>2. TypeOK'
    BY <1>t, <2>1 DEF TypeOK, windows, loop
  <2>3. Sockeds'
    BY <2>1, SocketsSame
  <2>4. StrikesShow'
    BY <2>1 DEF StrikesShow, IInv, loop
  <2> QED BY <2>2, <2>3, <2>4 DEF IInv, Sockeds
<1>m. CASE UNCHANGED vars
  BY <1>m DEF vars, IInv, TypeOK, OwnerIsOpen, TasksAreOfClosed, ClosedSocketIsLeft, Kept,
     NoneClosed, StrikesShow
<1> QED BY <1>a, <1>b, <1>c, <1>d, <1>e, <1>f, <1>g, <1>h, <1>i, <1>j, <1>k, <1>l, <1>m
  DEF Next, Step

----------------------------------------------------------------------------
(* The inductive invariant of session control.                             *)
THEOREM InvariantHolds == Spec => []IInv
BY InitIInv, StepIInv, PTL DEF Spec

(* The actors' variables keep their types; in particular the attempts stay *)
(* within the limit and every pc is one of the code's awaits.              *)
THEOREM TypeCorrect == Spec => []TypeOK
<1>1. IInv => TypeOK
  BY DEF IInv
<1> QED BY <1>1, InvariantHolds, PTL

(* For any number of windows sharing the socket: once a closed window's    *)
(* task has run, no session draws into that window.                        *)
THEOREM NobodyDrawsIntoAClosedWindow == Spec => []ClosedSocketIsLeft
<1>1. IInv => ClosedSocketIsLeft
  BY DEF IInv
<1> QED BY <1>1, InvariantHolds, PTL

(* With a threshold of two or more, one bad poll never restarts a session. *)
THEOREM DipsAreForgiven ==
  ASSUME Threshold >= 2
  PROVE  Spec => NoRestartOnADip
<1>1. IInv /\ [Next]_vars => (state' = "RECOVERING" => state \notin {"RUNNING", "STOPPED"})
  <2> SUFFICES ASSUME IInv, [Next]_vars, state' = "RECOVERING"
               PROVE  state \notin {"RUNNING", "STOPPED"}
    OBVIOUS
  <2>1. CASE state' = state
    BY <2>1
  <2>2. CASE state' # state
    <3>1. PollRecovers
      BY <2>2 DEF Next, vars, loop, Poll, PollStopped, PollHealthy, PollUnhealthy,
         DaemonRestarts, UserStart, UserStop, UserRestart, UserHealth, Step, StopSession,
         CheckStatus, Spawn, Open, BringUp, PointDaemon, ReadState, WaitGone, SeeBoot,
         Launch, GiveUp, Close, Closing, ClearDisplay, StopAndroid, ComeUp, FailToStart,
         Boot, Break, Heal, Die, Waydroid
    <3>2. unhealthy > 0 /\ pc["sup"] = "idle"
      BY <3>1, StrikeType, LimitsAssumption DEF PollRecovers, Recovers, IInv, TypeOK
    <3> QED BY <3>2 DEF IInv, StrikesShow
  <2> QED BY <2>1, <2>2
<1>2. IInv /\ [Next]_vars
        => [state' = "RECOVERING" => state \notin {"RUNNING", "STOPPED"}]_vars
  BY <1>1
<1> QED BY <1>2, InvariantHolds, PTL DEF Spec, NoRestartOnADip

(* While no window was closed and the daemon was not restarted, recovery   *)
(* brings a window's session back into that window.                        *)
THEOREM RecoveryStaysInTheWindow == Spec => RestartKeepsWindow
<1>1. IInv /\ [Next]_vars =>
        (crashes' = 0 /\ (\A w \in Windows : win[w] # "closed")
         /\ pc["sup"] = "spawn" /\ pc'["sup"] = "idle" /\ sess = Down /\ home \in Windows
           => sess'.sock = home)
  <2> SUFFICES ASSUME IInv, [Next]_vars, crashes' = 0, \A w \in Windows : win[w] # "closed",
                      pc["sup"] = "spawn", pc'["sup"] = "idle", sess = Down,
                      home \in Windows
               PROVE  sess'.sock = home
    OBVIOUS
  <2>1. TypeOK
    BY DEF IInv
  <2>2. Spawn("sup") /\ crashes = 0
    BY <2>1, Members, LimitsAssumption
       DEF TypeOK, Next, vars, loop, Poll, PollStopped, PollHealthy, PollUnhealthy,
         PollRecovers, DaemonRestarts, UserStart, UserStop, UserRestart, UserHealth, Step,
         StopSession, CheckStatus, Spawn, Open, BringUp, PointDaemon, ReadState, WaitGone,
         SeeBoot, Launch, GiveUp, Close, Closing, ClearDisplay, StopAndroid, ComeUp,
         FailToStart, Boot, Break, Heal, Die, Waydroid
  <2>3. display /\ owner = home
    BY <2>2 DEF IInv, Kept, NoneClosed
  <2> QED BY <2>1, <2>2, <2>3, SpawnedEffect, DownType DEF Spawn, DisplayToUse
<1>2. IInv /\ [Next]_vars =>
        [crashes' = 0 /\ (\A w \in Windows : win[w] # "closed")
         /\ pc["sup"] = "spawn" /\ pc'["sup"] = "idle" /\ sess = Down /\ home \in Windows
           => sess'.sock = home]_vars
  BY <1>1
<1> QED BY <1>2, InvariantHolds, PTL DEF Spec, RestartKeepsWindow
=============================================================================
