-------------------------- MODULE KeymapperProofs ---------------------------
(***************************************************************************)
(* What the handle's lock guards, for any number of callers and of reports *)
(* under way.                                                              *)
(***************************************************************************)
EXTENDS Keymapper, TLAPS

(* The lock has one holder.                                                *)
OneHolder ==
  \A c, d \in Callers : call[c] \in Holding /\ call[d] \in Holding => c = d

(* The handle while the lock is held: there is none yet, or none any more, *)
(* and a start that is still waiting for its pipe has no task.             *)
HolderSees ==
  \A c \in Callers :
    /\ call[c] \in Holding => ~on
    /\ call[c] = "acquire" => task = "none"
    /\ call[c] = "script" => by = "nobody"
    /\ call[c] = "loaded" /\ by # "nobody" => newest

(* The newest of the script's reports tells what is on the screen.         *)
LastReportIsTrue ==
  newest => reports # <<>> /\ (script => reports[Len(reports)] = screen)

IInv ==
  /\ TypeOK
  /\ OneHolder /\ HolderSees
  /\ NoOrphan
  /\ LastReportIsTrue /\ FocusAgrees

----------------------------------------------------------------------------
LEMMA InitIInv == Init => IInv
<1> SUFFICES ASSUME Init PROVE IInv
  OBVIOUS
<1>1. TypeOK
  <2>1. <<>> \in Seq(BOOLEAN)
    OBVIOUS
  <2> QED BY <2>1 DEF Init, TypeOK, Holding, Alive
<1>2. \A c \in Callers : call[c] \notin Holding
  BY DEF Init, Holding
<1>3. OneHolder /\ HolderSees
  BY <1>2 DEF OneHolder, HolderSees, Holding
<1>4. NoOrphan /\ LastReportIsTrue /\ FocusAgrees
  BY DEF Init, NoOrphan, LastReportIsTrue, FocusAgrees
<1> QED BY <1>1, <1>3, <1>4 DEF IInv

(* Every value of a caller's place after a step that moves caller c.       *)
LEMMA CallAfter ==
  ASSUME NEW c \in Callers, NEW place, TypeOK,
         call' = [call EXCEPT ![c] = place]
  PROVE  /\ call'[c] = place
         /\ \A d \in Callers \ {c} : call'[d] = call[d]
BY DEF TypeOK

(* Of reports of which one is taken, the last stays unless it was that one.*)
LEMMA RemovalKeepsLast ==
  ASSUME NEW s \in Seq(BOOLEAN), NEW i \in DOMAIN s
  PROVE  /\ RemoveAt(s, i) \in Seq(BOOLEAN)
         /\ i # Len(s) => /\ RemoveAt(s, i) # <<>>
                          /\ RemoveAt(s, i)[Len(RemoveAt(s, i))] = s[Len(s)]
         /\ s[i] \in BOOLEAN
<1> DEFINE front == SubSeq(s, 1, i - 1)
           back == SubSeq(s, i + 1, Len(s))
<1>1. Len(s) \in Nat /\ i \in 1..Len(s) /\ s[i] \in BOOLEAN
  OBVIOUS
<1>2. front \in Seq(BOOLEAN) /\ Len(front) = i - 1
  BY <1>1
<1>3. back \in Seq(BOOLEAN) /\ Len(back) = Len(s) - i
  BY <1>1
<1>4. RemoveAt(s, i) = front \o back
  BY DEF RemoveAt
<1>5. \A j \in 1..(Len(s) - i) : back[j] = s[i + j]
  BY <1>1
<1>6. ASSUME i # Len(s)
      PROVE  /\ RemoveAt(s, i) # <<>>
             /\ RemoveAt(s, i)[Len(RemoveAt(s, i))] = s[Len(s)]
  <2>1. back[Len(s) - i] = s[Len(s)]
    <3>1. \A n \in Nat : \A k \in 1..n : k # n => n - k \in 1..(n - k) /\ k + (n - k) = n
      OBVIOUS
    <3>2. Len(s) - i \in 1..(Len(s) - i) /\ i + (Len(s) - i) = Len(s)
      BY <1>1, <1>6, <3>1
    <3> QED BY <1>5, <3>2
  <2> HIDE DEF front, back
  <2>2. Len(front \o back) = Len(s) - 1 /\ Len(s) - 1 > 0
    BY <1>1, <1>2, <1>3, <1>6
  <2>3. (front \o back)[Len(s) - 1] = back[Len(s) - i]
    BY <1>1, <1>2, <1>3, <1>6
  <2> QED BY <1>4, <2>1, <2>2, <2>3
<1> HIDE DEF front, back
<1> QED BY <1>1, <1>2, <1>3, <1>4, <1>6

LEMMA AppendIsLast ==
  ASSUME NEW s \in Seq(BOOLEAN), NEW b \in BOOLEAN
  PROVE  /\ Append(s, b) \in Seq(BOOLEAN) /\ Append(s, b) # <<>>
         /\ Append(s, b)[Len(Append(s, b))] = b
OBVIOUS

(* A caller that has the lock shuts the others out.                        *)
LEMMA HolderExcludes ==
  ASSUME OneHolder, NEW c \in Callers, call[c] \in Holding
  PROVE  ~Free /\ \A d \in Callers \ {c} : call[d] \notin Holding
BY DEF OneHolder, Free

----------------------------------------------------------------------------
LEMMA TypeStep == TypeOK /\ [Next]_vars => TypeOK'
<1> SUFFICES ASSUME TypeOK, [Next]_vars PROVE TypeOK'
  OBVIOUS
<1> USE DEF TypeOK, Holding, Alive
<1>1. ASSUME NEW c \in Callers, Ask(c) PROVE TypeOK'
  BY <1>1 DEF Ask, kwin
<1>2. ASSUME NEW c \in Callers, Takes(c) PROVE TypeOK'
  <2>1. CASE StartReturns(c)
    BY <2>1 DEF StartReturns, kwin
  <2>2. CASE StartAcquires(c)
    BY <2>2 DEF StartAcquires, kwin
  <2>3. CASE StopReturns(c)
    BY <2>3 DEF StopReturns, kwin
  <2>4. CASE StopTakes(c)
    BY <2>4 DEF StopTakes, kwin
  <2> QED BY <1>2, <2>1, <2>2, <2>3, <2>4 DEF Takes
<1>3. ASSUME NEW c \in Callers, Proceeds(c) PROVE TypeOK'
  <2>1. CASE StartSpawns(c)
    BY <2>1 DEF StartSpawns, kwin
  <2>2. CASE LoadScript(c)
    <3>1. reports' \in Seq(BOOLEAN) /\ newest' \in BOOLEAN
      BY <2>2, AppendIsLast DEF LoadScript, Send, kwin
    <3>2. script' \in BOOLEAN /\ by' \in {"nobody", "script", "kwin", "late", "window"}
      BY <2>2 DEF LoadScript
    <3> QED BY <2>2, <3>1, <3>2 DEF LoadScript
  <2>3. CASE StartEnds(c)
    BY <2>3 DEF StartEnds, kwin
  <2>4. CASE StopAborts(c)
    BY <2>4 DEF StopAborts, kwin
  <2> QED BY <1>3, <2>1, <2>2, <2>3, <2>4 DEF Proceeds
<1>4. CASE FocusMoves
  <2>1. screen' \in BOOLEAN /\ reports' \in Seq(BOOLEAN) /\ newest' \in BOOLEAN
    BY <1>4, AppendIsLast DEF FocusMoves, Send, kwin
  <2> QED BY <1>4, <2>1 DEF FocusMoves
<1>5. CASE KWinReport
  <2>1. PICK i \in DOMAIN reports : TakeReport(i) /\ SetActiveWindow(reports[i], Sender)
    BY <1>5 DEF KWinReport
  <2>2. reports' \in Seq(BOOLEAN) /\ newest' \in BOOLEAN /\ reports[i] \in BOOLEAN
    BY <2>1, RemovalKeepsLast DEF TakeReport
  <2>3. focus' \in BOOLEAN /\ by' \in {"nobody", "script", "kwin", "late", "window"}
    BY <2>1, <2>2 DEF SetActiveWindow, Sender
  <2> QED BY <1>5, <2>2, <2>3 DEF KWinReport
<1>6. CASE WindowReport
  BY <1>6 DEF WindowReport, SetActiveWindow, kwin
<1>7. CASE Opens \/ FocusArm \/ Ends \/ RepairBegins \/ RepairEnds
  BY <1>7 DEF Opens, FocusArm, Ends, RepairBegins, RepairEnds, kwin
<1>8. CASE UNCHANGED vars
  BY <1>8 DEF vars, kwin
<1> QED BY <1>1, <1>2, <1>3, <1>4, <1>5, <1>6, <1>7, <1>8 DEF Next

(* The lock and what it guards.                                            *)
LEMMA LockStep ==
  TypeOK /\ OneHolder /\ HolderSees /\ NoOrphan /\ [Next]_vars
    => OneHolder' /\ HolderSees' /\ NoOrphan'
<1> SUFFICES ASSUME TypeOK, OneHolder, HolderSees, NoOrphan, [Next]_vars
             PROVE  OneHolder' /\ HolderSees' /\ NoOrphan'
  OBVIOUS
<1> USE DEF Holding, kwin
<1>1. ASSUME NEW c \in Callers, Ask(c) PROVE OneHolder' /\ HolderSees' /\ NoOrphan'
  <2>1. PICK what \in {"start", "stop"} : call' = [call EXCEPT ![c] = what]
    BY <1>1 DEF Ask
  <2>2. call[c] \notin Holding /\ call'[c] \notin Holding /\ call'[c] = what
        /\ \A d \in Callers \ {c} : call'[d] = call[d]
    BY <1>1, <2>1, CallAfter DEF Ask
  <2> QED BY <1>1, <2>2 DEF Ask, OneHolder, HolderSees, NoOrphan, Free
<1>2. ASSUME NEW c \in Callers, Takes(c) PROVE OneHolder' /\ HolderSees' /\ NoOrphan'
  <2>1. Free /\ \A d \in Callers \ {c} : call'[d] = call[d]
    BY <1>2, CallAfter DEF Takes, StartReturns, StartAcquires, StopReturns, StopTakes
  <2>2. OneHolder'
    BY <2>1 DEF OneHolder, Free
  <2>3. CASE StartReturns(c) \/ StopReturns(c)
    <3>1. call'[c] = "idle"
      BY <2>3, CallAfter DEF StartReturns, StopReturns
    <3> QED BY <2>1, <2>2, <2>3, <3>1
            DEF StartReturns, StopReturns, HolderSees, NoOrphan, Free
  <2>4. CASE StartAcquires(c)
    <3>1. call'[c] = "acquire" /\ task = "none" /\ ~on
      BY <2>1, <2>4, CallAfter DEF StartAcquires, NoOrphan
    <3> QED BY <2>1, <2>2, <2>4, <3>1 DEF StartAcquires, HolderSees, NoOrphan, Free
  <2>5. CASE StopTakes(c)
    <3>1. call'[c] = "drain"
      BY <2>5, CallAfter DEF StopTakes
    <3> QED BY <2>1, <2>2, <2>5, <3>1 DEF StopTakes, HolderSees, NoOrphan, Free
  <2> QED BY <1>2, <2>3, <2>4, <2>5 DEF Takes
<1>3. ASSUME NEW c \in Callers, Proceeds(c) PROVE OneHolder' /\ HolderSees' /\ NoOrphan'
  <2>1. call[c] \in Holding
    BY <1>3 DEF Proceeds, StartSpawns, LoadScript, StartEnds, StopAborts
  <2>2. \A d \in Callers \ {c} : call[d] \notin Holding
    BY <2>1, HolderExcludes
  <2>3. \A d \in Callers \ {c} : call'[d] = call[d]
    BY <1>3, CallAfter DEF Proceeds, StartSpawns, LoadScript, StartEnds, StopAborts
  <2>4. OneHolder'
    BY <2>2, <2>3 DEF OneHolder
  <2>5. CASE StartSpawns(c)
    <3>1. call'[c] = "script" /\ by' = "nobody" /\ ~on'
      BY <2>1, <2>5, CallAfter DEF StartSpawns, HolderSees
    <3> QED BY <2>2, <2>3, <2>4, <3>1 DEF HolderSees, NoOrphan, Free
  <2>6. CASE LoadScript(c)
    <3>1. call'[c] = "loaded" /\ ~on'
      BY <2>1, <2>6, CallAfter DEF LoadScript, HolderSees
    <3>2. by' # "nobody" => newest'
      BY <2>6 DEF LoadScript, Send, HolderSees
    <3> QED BY <2>2, <2>3, <2>4, <3>1, <3>2 DEF HolderSees, NoOrphan, Free
  <2>7. CASE StartEnds(c)
    <3>1. call'[c] = "idle" /\ on'
      BY <2>7, CallAfter DEF StartEnds
    <3> QED BY <2>2, <2>3, <2>4, <3>1 DEF HolderSees, NoOrphan
  <2>8. CASE StopAborts(c)
    <3>1. call'[c] = "idle" /\ task' = "none"
      BY <2>8, CallAfter DEF StopAborts
    <3> QED BY <2>2, <2>3, <2>4, <2>8, <3>1 DEF HolderSees, NoOrphan, StopAborts
  <2> QED BY <1>3, <2>5, <2>6, <2>7, <2>8 DEF Proceeds
<1>4. CASE FocusMoves
  <2>1. newest => newest'
    BY <1>4 DEF FocusMoves, Send
  <2> QED BY <1>4, <2>1 DEF FocusMoves, OneHolder, HolderSees, NoOrphan, Free
<1>5. CASE KWinReport \/ WindowReport
  BY <1>5 DEF KWinReport, WindowReport, SetActiveWindow, OneHolder, HolderSees, NoOrphan, Free
<1>6. CASE Opens \/ FocusArm \/ Ends \/ RepairBegins \/ RepairEnds
  <2>1. task # "none" /\ UNCHANGED <<call, on, by, newest>>
    BY <1>6 DEF Opens, FocusArm, Ends, RepairBegins, RepairEnds
  <2> QED BY <2>1 DEF OneHolder, HolderSees, NoOrphan, Free
<1>7. CASE UNCHANGED vars
  BY <1>7 DEF vars, OneHolder, HolderSees, NoOrphan, Free
<1> QED BY <1>1, <1>2, <1>3, <1>4, <1>5, <1>6, <1>7 DEF Next

(* What the script has reported.                                           *)
LEMMA FocusStep ==
  TypeOK /\ HolderSees /\ LastReportIsTrue /\ FocusAgrees /\ [Next]_vars
    => LastReportIsTrue' /\ FocusAgrees'
<1> SUFFICES ASSUME TypeOK, HolderSees, LastReportIsTrue, FocusAgrees, [Next]_vars
             PROVE  LastReportIsTrue' /\ FocusAgrees'
  OBVIOUS
<1> USE DEF kwin
<1>1. ASSUME NEW c \in Callers, Ask(c) \/ Takes(c) PROVE LastReportIsTrue' /\ FocusAgrees'
  <2>1. UNCHANGED <<by, focus, screen, script, kwin>> /\ (on' => on)
    BY <1>1 DEF Ask, Takes, StartReturns, StartAcquires, StopReturns, StopTakes
  <2> QED BY <2>1 DEF LastReportIsTrue, FocusAgrees
<1>2. ASSUME NEW c \in Callers, Proceeds(c) PROVE LastReportIsTrue' /\ FocusAgrees'
  <2>1. CASE StartSpawns(c)
    BY <2>1 DEF StartSpawns, LastReportIsTrue, FocusAgrees
  <2>2. CASE LoadScript(c)
    <3>1. ~on /\ ~on'
      BY <2>2 DEF LoadScript, HolderSees, Holding
    <3>2. LastReportIsTrue'
      BY <2>2, AppendIsLast DEF LoadScript, Send, LastReportIsTrue, TypeOK
    <3> QED BY <3>1, <3>2 DEF FocusAgrees
  <2>3. CASE StartEnds(c)
    BY <2>3 DEF StartEnds, LastReportIsTrue, FocusAgrees, HolderSees
  <2>4. CASE StopAborts(c)
    <3>1. UNCHANGED <<on, by, focus, screen, kwin>>
      BY <2>4 DEF StopAborts
    <3>2. script' = FALSE \/ script' = script
      BY <2>4 DEF StopAborts
    <3> QED BY <3>1, <3>2 DEF LastReportIsTrue, FocusAgrees
  <2> QED BY <1>2, <2>1, <2>2, <2>3, <2>4 DEF Proceeds
<1>3. CASE FocusMoves
  <2>1. screen' \in BOOLEAN /\ UNCHANGED <<on, by, focus, script>>
    BY <1>3 DEF FocusMoves, TypeOK
  <2>2. CASE script
    <3>1. newest' /\ reports' # <<>> /\ reports'[Len(reports')] = screen'
      BY <1>3, <2>1, <2>2, AppendIsLast DEF FocusMoves, Send, TypeOK
    <3> QED BY <3>1 DEF LastReportIsTrue, FocusAgrees
  <2>3. CASE ~script
    BY <1>3, <2>1, <2>3 DEF FocusMoves, LastReportIsTrue, FocusAgrees
  <2> QED BY <2>2, <2>3
<1>4. CASE KWinReport
  <2>1. PICK i \in DOMAIN reports : TakeReport(i) /\ SetActiveWindow(reports[i], Sender)
    BY <1>4 DEF KWinReport
  <2>2. UNCHANGED <<on, script, screen>>
    BY <1>4 DEF KWinReport
  <2>3. CASE newest /\ i # Len(reports)
    <3>1. newest' /\ reports' # <<>> /\ reports'[Len(reports')] = reports[Len(reports)]
      BY <2>1, <2>3, RemovalKeepsLast DEF TakeReport, TypeOK
    <3> QED BY <2>2, <2>3, <3>1 DEF LastReportIsTrue, FocusAgrees
  <2>4. CASE newest /\ i = Len(reports)
    <3>1. ~newest' /\ (on => focus' = reports[Len(reports)])
      BY <2>1, <2>4 DEF TakeReport, SetActiveWindow
    <3> QED BY <2>2, <2>4, <3>1 DEF LastReportIsTrue, FocusAgrees
  <2>5. CASE ~newest
    <3>1. ~newest' /\ (on => by' = "late")
      BY <2>1, <2>5 DEF TakeReport, SetActiveWindow, Sender
    <3> QED BY <2>2, <3>1 DEF LastReportIsTrue, FocusAgrees
  <2> QED BY <2>3, <2>4, <2>5
<1>5. CASE WindowReport
  BY <1>5 DEF WindowReport, SetActiveWindow, LastReportIsTrue, FocusAgrees
<1>6. CASE Opens \/ FocusArm \/ Ends \/ RepairBegins \/ RepairEnds
  <2>1. UNCHANGED <<on, by, focus, screen, script, kwin>>
    BY <1>6 DEF Opens, FocusArm, Ends, RepairBegins, RepairEnds
  <2> QED BY <2>1 DEF LastReportIsTrue, FocusAgrees
<1>7. CASE UNCHANGED vars
  BY <1>7 DEF vars, LastReportIsTrue, FocusAgrees
<1> QED BY <1>1, <1>2, <1>3, <1>4, <1>5, <1>6, <1>7 DEF Next

(* The inductive invariant of the handle.                                  *)
THEOREM InvariantHolds == Spec => []IInv
<1>1. IInv /\ [Next]_vars => IInv'
  BY TypeStep, LockStep, FocusStep DEF IInv
<1> QED BY <1>1, InitIInv, PTL DEF Spec

(* The lock of keymapper.rs is what it seems: one caller at a time, and no *)
(* handle is seen by anyone while a start or a stop is under way.          *)
THEOREM OneCallerAtATime == Spec => [](OneHolder /\ HolderSees)
<1>1. IInv => OneHolder /\ HolderSees
  BY DEF IInv
<1> QED BY <1>1, InvariantHolds, PTL

(* Without a handle, and outside start and stop, there is no runner.       *)
THEOREM NoRunnerIsLeft == Spec => []NoOrphan
<1>1. IInv => NoOrphan
  BY DEF IInv
<1> QED BY <1>1, InvariantHolds, PTL

(* For any number of callers and of reports that overtake each other: when *)
(* the last that KWin sent has arrived the mapper has the focus that is    *)
(* really there, until it hears a report that this one has overtaken.      *)
THEOREM FocusIsTheScreens == Spec => []FocusAgrees
<1>1. IInv => FocusAgrees
  BY DEF IInv
<1> QED BY <1>1, InvariantHolds, PTL
=============================================================================
