--------------------------- MODULE ProfilesProofs ---------------------------
(***************************************************************************)
(* The profile files, for any number of tasks, user files, calls and       *)
(* seconds.                                                                *)
(*                                                                         *)
(* What a task has found out and what it is about to write is true of the  *)
(* files as long as nobody else's write has crossed it: the invariant says *)
(* so for each of the things a task goes through on its way to an answer.  *)
(***************************************************************************)
EXTENDS Profiles, TLAPS

Texts == [v : Nat, ok : BOOLEAN]

Places == {"idle", "scan", "read", "check", "backup", "stop", "lock", "truncate", "write", "done"}

Ops ==
  [kind : Kinds \cup {"none"}, at : Places, todo : SUBSET Paths,
   found : Paths \cup {NoPath}, path : Paths \cup {NoPath}, text : Texts, v : Nat]

TypeOK ==
  /\ own \in UserPaths /\ disk \in [Paths -> Texts]
  /\ backups \in [0 .. MaxClock -> Texts]
  /\ clock \in 0 .. MaxClock /\ calls \in Nat
  /\ held \in Paths \cup {NoPath}
  /\ op \in [Tasks -> Ops]
  /\ mapper \in Nat
  /\ alone \in SUBSET Tasks /\ replaced \in SUBSET Nat /\ sameSecond \in BOOLEAN

(* Where a task is goes with what it does and what it knows.               *)
Fits(o) ==
  /\ o.at \in {"truncate", "write", "read"} => o.path \in Paths
  /\ o.at \in {"truncate", "write"} => o.kind # "apply"
  /\ o.at \in {"check", "backup"} => o.kind = "install"
  /\ o.kind = "install" => o.path = own
  /\ o.at \in {"stop", "lock"} => o.todo = Paths /\ o.found = NoPath /\ o.text = Absent
  /\ o.at = "stop" => o.kind = "apply"
  /\ o.at = "lock" => o.kind \in {"start", "apply"}

(* A scan knows the preferred one of the files it has read, and its text.  *)
ScanIsTrue(o) ==
  /\ o.found \in (Paths \ o.todo) \cup {NoPath}
  /\ o.found = NoPath => o.text = Absent
  /\ o.found # NoPath => disk[o.found].ok /\ o.text = disk[o.found]
  /\ \A p \in Paths \ o.todo : disk[p].ok => o.found <= p

(* No other file that loads is preferred to this one.                      *)
First(p) == \A q \in Paths \ {p} : disk[q].ok => p <= q

(* A save writes, and has written, the file the store will serve.          *)
SaveIsOnItsWay(o) ==
  /\ o.at = "scan" => ScanIsTrue(o)
  /\ o.at \in {"truncate", "write", "done"} => o.path \in Paths /\ o.text.ok /\ First(o.path)
  /\ o.at = "done" => disk[o.path] = o.text

ServedText == IF Served = NoPath THEN Absent ELSE disk[Served]

Loading(o) == o.kind \in {"start", "apply"} /\ o.at = "scan"

(* Once an apply has stopped the key mapper, the one that runs, and the    *)
(* one that somebody is starting, has what the store serves.               *)
StartsAreTrue ==
  /\ Mapping => mapper = ServedText.v + 1
  /\ \A u \in Tasks : Loading(op[u]) => ScanIsTrue(op[u])

ApplyIsOnItsWay(o) == o.at \in {"lock", "scan", "done"} => StartsAreTrue

Kept(v) ==
  v \in {Absent.v, Empty.v} \/ sameSecond \/ \E s \in DOMAIN backups : backups[s].v = v

(* An install overwrites what it has copied away.                          *)
InstallIsOnItsWay(o) == o.at = "truncate" => Kept(disk[own].v)

(* What an install has overwritten was a text, and is kept.                *)
ReplacedAreKept ==
  /\ BackupsLast
  /\ \A v \in replaced : v \notin {Absent.v, Empty.v}

OnItsWay(o) ==
  /\ o.kind = "save" => SaveIsOnItsWay(o)
  /\ o.kind = "apply" => ApplyIsOnItsWay(o)
  /\ o.kind = "install" => InstallIsOnItsWay(o)

IInv ==
  /\ TypeOK
  /\ \A t \in Tasks : Fits(op[t])
  /\ \A t \in alone : OnItsWay(op[t])
  /\ ReplacedAreKept

----------------------------------------------------------------------------
(* The files.                                                              *)

(* Paths are numbers, and no path is none of them.                         *)
LEMMA PathsAreNumbers ==
  /\ Paths \subseteq Nat /\ NoPath \in Nat /\ Shipped \in Nat
  /\ \A p \in Paths : p <= Shipped /\ p < NoPath
  /\ UserPaths \subseteq Paths /\ Shipped \in Paths
  /\ \A p \in Paths : p \in UserPaths <=> p # Shipped
BY PathsAssumption DEF Paths, NoPath

(* The texts there are.                                                    *)
LEMMA TextTypes ==
  /\ Absent \in Texts /\ ~Absent.ok /\ Absent.v = 0
  /\ Empty \in Texts /\ ~Empty.ok /\ Empty.v = 1
  /\ \A p \in Paths : Original(p) \in Texts
BY PathsAreNumbers DEF Absent, Empty, Original, Texts

(* The store serves the preferred file that loads.                         *)
LEMMA ServedIsFirst ==
  ASSUME NEW p \in Paths, disk[p].ok, First(p)
  PROVE  Served = p
<1> DEFINE good == {q \in Paths : disk[q].ok}
<1>1. p \in good /\ good \subseteq Nat
  BY PathsAreNumbers
<1>2. \A q \in good : p <= q
  <2>1. p <= p
    BY <1>1
  <2> QED BY <2>1 DEF First
<1>3. Served = CHOOSE r \in good : \A q \in good : r <= q
  BY <1>1 DEF Served
<1> HIDE DEF good
<1>4. Served \in good /\ \A q \in good : Served <= q
  BY <1>1, <1>2, <1>3
<1> QED BY <1>1, <1>2, <1>4

(* Without a file that loads it serves none.                               *)
LEMMA ServedIsNone ==
  ASSUME \A p \in Paths : ~disk[p].ok
  PROVE  Served = NoPath
BY DEF Served

(* A scan that has read every file has found what the store serves.        *)
LEMMA ScanFindsTheServed ==
  ASSUME NEW o \in Ops, ScanIsTrue(o), o.todo = {}
  PROVE  o.text = ServedText
<1>1. o.found \in Paths \cup {NoPath} /\ NoPath \notin Paths
  BY PathsAreNumbers DEF Ops
<1>2. CASE o.found = NoPath
  <2>1. \A p \in Paths : ~disk[p].ok
    BY <1>2, PathsAreNumbers DEF ScanIsTrue
  <2> QED BY <1>2, <2>1, ServedIsNone DEF ServedText, ScanIsTrue
<1>3. CASE o.found # NoPath
  <2>1. First(o.found) /\ disk[o.found].ok /\ o.text = disk[o.found] /\ o.found \in Paths
    BY <1>1, <1>3 DEF ScanIsTrue, First
  <2>2. Served = o.found
    BY <2>1, ServedIsFirst
  <2> QED BY <1>3, <2>1, <2>2 DEF ServedText
<1> QED BY <1>2, <1>3

(* What the store serves depends on the files only.                        *)
LEMMA SameFilesSameServed ==
  ASSUME disk' = disk
  PROVE  Served' = Served /\ ServedText' = ServedText
BY DEF Served, ServedText

----------------------------------------------------------------------------
(* Kinds of steps.                                                         *)

(* A step that leaves the files alone: it keeps what is true of the other  *)
(* tasks, if what it starts is true.                                       *)
LEMMA QuietStep ==
  ASSUME IInv, NEW t \in Tasks, NEW o \in Ops, op' = [op EXCEPT ![t] = o],
         UNCHANGED <<own, disk, backups, clock, alone, replaced, sameSecond>>,
         calls' \in Nat, held' \in Paths \cup {NoPath}, mapper' \in Nat, Fits(o),
         \/ mapper' \in {mapper, Stopped}
         \/ StartsAreTrue => mapper' = ServedText.v + 1,
         StartsAreTrue /\ Loading(o) => ScanIsTrue(o),
         t \in alone => /\ o.kind = "save" => SaveIsOnItsWay(o)
                        /\ o.kind = "install" => InstallIsOnItsWay(o)
                        /\ o.kind = "apply" /\ o.at \in {"lock", "scan", "done"} =>
                             StartsAreTrue \/ StartsAreTrue'
  PROVE  IInv'
<1>1. /\ TypeOK /\ op'[t] = o /\ op' \in [Tasks -> Ops]
      /\ \A u \in Tasks \ {t} : op'[u] = op[u]
      /\ alone \subseteq Tasks
  BY DEF IInv, TypeOK
<1>2. TypeOK'
  BY <1>1 DEF TypeOK
<1>3. \A u \in Tasks : Fits(op[u])' 
  BY <1>1 DEF IInv, Fits
<1>4. ReplacedAreKept'
  BY DEF IInv, ReplacedAreKept, BackupsLast
<1>5. ASSUME StartsAreTrue PROVE StartsAreTrue'
  <2>1. ServedText' = ServedText
    BY SameFilesSameServed
  <2>2. \A u \in Tasks : Loading(op[u])' => ScanIsTrue(op[u])'
    BY <1>1, <1>5 DEF StartsAreTrue, Loading, ScanIsTrue
  <2> QED BY <1>5, <2>1, <2>2 DEF StartsAreTrue, Mapping
<1>6. ASSUME NEW u \in alone PROVE OnItsWay(op[u])'
  <2>1. CASE u = t
    BY <1>1, <1>5, <1>6, <2>1 DEF OnItsWay, SaveIsOnItsWay, ScanIsTrue, First, ApplyIsOnItsWay,
       InstallIsOnItsWay, Kept
  <2>2. CASE u # t
    <3>1. OnItsWay(op[u]) /\ op'[u] = op[u]
      BY <1>1, <1>6, <2>2 DEF IInv
    <3> QED BY <1>5, <3>1 DEF OnItsWay, SaveIsOnItsWay, ScanIsTrue, First, ApplyIsOnItsWay,
       InstallIsOnItsWay, Kept
  <2> QED BY <2>1, <2>2
<1> QED BY <1>2, <1>3, <1>4, <1>6 DEF IInv

(* A write to a file crosses every other task, and is true of its own.     *)
LEMMA WritingStep ==
  ASSUME IInv, NEW t \in Tasks, NEW o \in Ops, op' = [op EXCEPT ![t] = o],
         NEW p \in Paths, NEW text \in Texts, Writes(t, p, text),
         UNCHANGED <<own, backups, clock, calls, held, mapper, sameSecond>>,
         Fits(o), o.kind # "apply",
         replaced' \in SUBSET Nat, ReplacedAreKept',
         t \in alone => /\ o.kind = "save" => SaveIsOnItsWay(op[t])'
                        /\ o.kind = "install" => o.at # "truncate"
  PROVE  IInv'
<1>1. /\ TypeOK /\ op'[t] = o /\ op' \in [Tasks -> Ops]
      /\ \A u \in Tasks \ {t} : op'[u] = op[u]
      /\ alone' \subseteq {t} /\ alone' \subseteq alone
      /\ disk' \in [Paths -> Texts]
  BY DEF IInv, TypeOK, Writes
<1>2. TypeOK'
  BY <1>1 DEF TypeOK
<1>3. \A u \in Tasks : Fits(op[u])'
  BY <1>1 DEF IInv, Fits
<1>4. \A u \in alone' : OnItsWay(op[u])'
  BY <1>1 DEF OnItsWay, InstallIsOnItsWay, SaveIsOnItsWay, ScanIsTrue, First
<1> QED BY <1>2, <1>3, <1>4 DEF IInv

----------------------------------------------------------------------------
(* Induction.                                                              *)

(* Nothing has begun at first.                                             *)
LEMMA InitIInv == Init => IInv
<1> SUFFICES ASSUME Init PROVE IInv
  OBVIOUS
<1>1. Idle \in Ops
  BY TextTypes, PathsAreNumbers DEF Idle, Ops, Places
<1>2. TypeOK
  <2>1. disk \in [Paths -> Texts]
    BY TextTypes DEF Init
  <2>2. own \in UserPaths /\ op \in [Tasks -> Ops] /\ backups \in [0 .. MaxClock -> Texts]
    BY <1>1, TextTypes DEF Init
  <2>3. clock \in 0 .. MaxClock /\ calls \in Nat /\ held \in Paths \cup {NoPath} /\ mapper \in Nat
    BY BoundsAssumption DEF Init, Stopped
  <2> QED BY <2>1, <2>2, <2>3 DEF Init, TypeOK
<1>3. \A t \in Tasks : Fits(op[t])
  BY DEF Init, Idle, Fits
<1> QED BY <1>2, <1>3 DEF Init, IInv, ReplacedAreKept, BackupsLast

(* A task begins: whatever it is to do, it has found out nothing yet.      *)
LEMMA BeginStep ==
  ASSUME IInv, NEW t \in Tasks, Begin(t)
  PROVE  IInv'
<1>1. PICK k \in Kinds :
        /\ k = "edit" => held # NoPath
        /\ op' = [op EXCEPT ![t] =
            [Idle EXCEPT
               !.kind = k, !.v = Newest(calls),
               !.at = CASE k = "edit" -> "read" [] k = "install" -> "check"
                        [] k = "apply" -> "stop" [] k = "start" -> "lock"
                        [] OTHER -> "scan",
               !.todo = IF k \in {"edit", "install"} THEN {} ELSE Paths,
               !.path = CASE k = "edit" -> held [] k = "install" -> own
                          [] OTHER -> NoPath]]
  BY DEF Begin
<1> DEFINE o == op'[t]
<1>2. /\ TypeOK /\ Newest(calls) \in Nat /\ calls' \in Nat /\ Absent \in Texts
      /\ held \in Paths \cup {NoPath} /\ own \in Paths /\ NoPath \notin Paths
  BY PathsAreNumbers, TextTypes DEF IInv, TypeOK, Newest, Begin
<1>3. /\ o.kind = k /\ o.v = Newest(calls) /\ o.found = NoPath /\ o.text = Absent
      /\ k = "edit" => o.at = "read" /\ o.path = held /\ o.todo = {}
      /\ k = "install" => o.at = "check" /\ o.path = own /\ o.todo = {}
      /\ k = "apply" => o.at = "stop" /\ o.path = NoPath /\ o.todo = Paths
      /\ k = "start" => o.at = "lock" /\ o.path = NoPath /\ o.todo = Paths
      /\ k \notin {"edit", "install", "apply", "start"} =>
           o.at = "scan" /\ o.path = NoPath /\ o.todo = Paths
  BY <1>1, <1>2 DEF Idle, TypeOK
<1>4. o \in Ops
  BY <1>1, <1>2, <1>3 DEF Idle, Ops, Places, TypeOK
<1>5. /\ op' \in [Tasks -> Ops] /\ \A u \in Tasks \ {t} : op'[u] = op[u]
      /\ alone' \subseteq alone \cup {t} /\ alone' \subseteq Tasks
      /\ UNCHANGED <<own, disk, backups, clock, held, mapper, replaced, sameSecond>>
  BY <1>1, <1>2, <1>4 DEF Begin, TypeOK, history
<1> HIDE DEF o
<1>6. TypeOK'
  BY <1>2, <1>5 DEF TypeOK
<1>7. \A u \in Tasks : Fits(op[u])'
  BY <1>1, <1>2, <1>3, <1>5 DEF IInv, Fits, Kinds, o
<1>8. StartsAreTrue => StartsAreTrue'
  BY <1>3, <1>5, SameFilesSameServed DEF StartsAreTrue, Loading, ScanIsTrue, Mapping, o
<1>9. ASSUME NEW u \in alone' PROVE OnItsWay(op[u])'
  <2>1. CASE u = t
    BY <1>3, <1>5, <2>1 DEF OnItsWay, SaveIsOnItsWay, ScanIsTrue, ApplyIsOnItsWay, InstallIsOnItsWay, o
  <2>2. CASE u # t
    <3>1. OnItsWay(op[u]) /\ op'[u] = op[u]
      BY <1>5, <1>9, <2>2 DEF IInv
    <3> QED BY <1>5, <1>8, <3>1 DEF OnItsWay, SaveIsOnItsWay, ScanIsTrue, First, ApplyIsOnItsWay,
       InstallIsOnItsWay, Kept
  <2> QED BY <2>1, <2>2
<1>10. ReplacedAreKept'
  BY <1>5 DEF IInv, ReplacedAreKept, BackupsLast
<1> QED BY <1>6, <1>7, <1>9, <1>10 DEF IInv

(* What a step of task t finds.                                            *)
LEMMA AtTask ==
  ASSUME IInv, NEW t \in Tasks
  PROVE  /\ op[t] \in Ops /\ op[t].kind \in Kinds \cup {"none"} /\ op[t].at \in Places
         /\ op[t].todo \in SUBSET Paths /\ op[t].found \in Paths \cup {NoPath}
         /\ op[t].path \in Paths \cup {NoPath} /\ op[t].text \in Texts /\ op[t].v \in Nat
         /\ Fits(op[t]) /\ (t \in alone => OnItsWay(op[t]))
         /\ op \in [Tasks -> Ops] /\ disk \in [Paths -> Texts]
         /\ calls \in Nat /\ held \in Paths \cup {NoPath} /\ mapper \in Nat
         /\ own \in UserPaths /\ own \in Paths
         /\ replaced \in SUBSET Nat /\ alone \subseteq Tasks
<1>1. TypeOK /\ Fits(op[t]) /\ (t \in alone => OnItsWay(op[t]))
  BY DEF IInv
<1>2. op[t] \in Ops
  BY <1>1 DEF TypeOK
<1> QED BY <1>1, <1>2, PathsAreNumbers DEF TypeOK, Ops

(* One file more: the scan stays true.                                     *)
LEMMA ScanStep ==
  ASSUME IInv, NEW t \in Tasks, Scan(t)
  PROVE  IInv'
<1>1. PICK p \in op[t].todo :
         op' = [op EXCEPT ![t].todo = @ \ {p},
                          ![t].found = IF disk[p].ok /\ Prefers(p, @) THEN p ELSE @,
                          ![t].text = IF disk[p].ok /\ Prefers(p, op[t].found)
                                      THEN disk[p] ELSE @]
  BY DEF Scan
<1> DEFINE better == disk[p].ok /\ p < op[t].found
           o == [op[t] EXCEPT !.todo = @ \ {p},
                              !.found = IF better THEN p ELSE @,
                              !.text = IF better THEN disk[p] ELSE @]
<1>2. p \in Paths /\ disk[p] \in Texts
  BY AtTask
<1>3. op' = [op EXCEPT ![t] = o]
  BY <1>1, AtTask DEF Prefers
<1>4. o \in Ops
  BY <1>2, AtTask DEF Ops
<1>5. /\ o.kind = op[t].kind /\ o.at = "scan" /\ o.todo = op[t].todo \ {p} /\ o.path = op[t].path
      /\ better => o.found = p /\ o.text = disk[p]
      /\ ~better => o.found = op[t].found /\ o.text = op[t].text
  BY AtTask DEF Scan, Ops
<1>6. op[t].at = "scan"
  BY DEF Scan
<1> HIDE DEF o
<1>7. ASSUME ScanIsTrue(op[t]) PROVE ScanIsTrue(o)
  <2>1. \A q \in Paths \ o.todo : q = p \/ q \in Paths \ op[t].todo
    BY <1>5
  <2>2. op[t].found \in Nat /\ p \in Nat /\ p # NoPath /\ Paths \subseteq Nat
    <3>1. p \in Nat /\ p # NoPath
      BY <1>2, PathsAreNumbers
    <3>2. op[t].found \in Paths \cup {NoPath}
      BY AtTask
    <3> QED BY <3>1, <3>2, PathsAreNumbers
  <2>3. CASE better
    <3>1. \A q \in Paths \ op[t].todo : disk[q].ok => p <= q
      BY <1>7, <2>2, <2>3 DEF ScanIsTrue
    <3> QED BY <1>2, <1>5, <2>1, <2>2, <2>3, <3>1 DEF ScanIsTrue
  <2>4. CASE ~better
    <3>1. disk[p].ok => op[t].found <= p
      BY <2>2, <2>4
    <3> QED BY <1>5, <1>7, <2>1, <2>4, <3>1 DEF ScanIsTrue
  <2> QED BY <2>3, <2>4
<1>8. StartsAreTrue /\ Loading(o) => ScanIsTrue(o)
  BY <1>5, <1>6, <1>7 DEF StartsAreTrue, Loading
<1>9. t \in alone => /\ o.kind = "save" => SaveIsOnItsWay(o)
                     /\ o.kind = "apply" => StartsAreTrue
  BY <1>5, <1>6, <1>7, AtTask DEF OnItsWay, SaveIsOnItsWay, ApplyIsOnItsWay
<1>10. Fits(o)
  BY <1>5, AtTask DEF Fits
<1> QED
  BY <1>3, <1>4, <1>5, <1>8, <1>9, <1>10, AtTask, QuietStep
     DEF Scan, Quiet, history, InstallIsOnItsWay

(* A task that ends has nothing on its way.                                *)
LEMMA EndStep ==
  ASSUME IInv, NEW t \in Tasks, Ends(t),
         UNCHANGED <<own, disk, backups, clock, alone, replaced, sameSecond>>,
         calls' \in Nat, held' \in Paths \cup {NoPath}, mapper' \in {mapper, Stopped}
  PROVE  IInv'
<1>1. Idle \in Ops /\ Idle.kind = "none" /\ Idle.at = "idle"
  BY TextTypes, PathsAreNumbers DEF Idle, Ops, Places
<1>2. Fits(Idle) /\ ~Loading(Idle)
  BY <1>1 DEF Fits, Loading
<1>3. mapper' \in Nat
  BY AtTask DEF Stopped
<1> QED BY <1>1, <1>2, <1>3, QuietStep DEF Ends

(* What SaveTarget, the editor and set make is on its way to its file.     *)
LEMMA MakesStep ==
  ASSUME IInv, NEW t \in Tasks, NEW p \in Paths, NEW ok \in BOOLEAN, Makes(t, p, ok),
         op[t].kind \notin {"apply", "install"},
         UNCHANGED <<own, disk, backups, clock, calls, held, mapper, alone, replaced, sameSecond>>,
         t \in alone /\ op[t].kind = "save" => ok /\ First(p)
  PROVE  IInv'
<1> DEFINE o == [op[t] EXCEPT !.at = "truncate", !.found = NoPath, !.path = p,
                              !.text = [v |-> op[t].v, ok |-> ok]]
<1>1. op' = [op EXCEPT ![t] = o]
  BY AtTask DEF Makes
<1>2. [v |-> op[t].v, ok |-> ok] \in Texts
  BY AtTask DEF Texts
<1>3. o \in Ops /\ o.kind = op[t].kind /\ o.at = "truncate" /\ o.path = p /\ o.text.ok = ok
  BY <1>2, AtTask DEF Ops, Places
<1> HIDE DEF o
<1>4. Fits(o) /\ ~Loading(o)
  BY <1>3 DEF Fits, Loading
<1>5. t \in alone /\ o.kind = "save" => SaveIsOnItsWay(o)
  BY <1>3 DEF SaveIsOnItsWay
<1> QED BY <1>1, <1>3, <1>4, <1>5, AtTask, QuietStep

(* Store::save: the file that is to be written is the one that will be     *)
(* served.                                                                 *)
LEMMA SaveStep ==
  ASSUME IInv, NEW t \in Tasks, Save(t)
  PROVE  IInv'
<1>1. op[t].kind = "save" /\ op[t].at = "scan" /\ op[t].todo = {}
  BY DEF Save, Scanned
<1>2. UNCHANGED <<own, disk, backups, clock, calls, held, mapper, alone, replaced, sameSecond>>
  BY DEF Save, Quiet, history
<1>3. CASE Ends(t)
  BY <1>2, <1>3, AtTask, EndStep
<1>4. CASE Makes(t, SaveTarget(op[t].found), TRUE)
  <2> DEFINE p == SaveTarget(op[t].found)
  <2>1. p \in Paths
    BY AtTask, PathsAreNumbers DEF SaveTarget
  <2>2. ASSUME t \in alone PROVE First(p)
    <3>1. \A q \in Paths : disk[q].ok => op[t].found <= q
      BY <1>1, <2>2, AtTask DEF OnItsWay, SaveIsOnItsWay, ScanIsTrue
    <3>2. CASE op[t].found \in UserPaths
      BY <3>1, <3>2 DEF SaveTarget, First
    <3>3. CASE op[t].found \notin UserPaths
      <4>1. p = own /\ op[t].found >= Shipped /\ own \in UserPaths /\ own < Shipped
        <5>1. p = own /\ own \in UserPaths /\ op[t].found \in {Shipped, NoPath}
          BY <3>3, AtTask DEF SaveTarget, Paths
        <5> QED BY <5>1, PathsAssumption DEF NoPath
      <4>2. \A q \in Paths : q \in Nat
        BY PathsAreNumbers
      <4>3. op[t].found \in Nat /\ Shipped \in Nat /\ own \in Nat
        BY AtTask, PathsAreNumbers
      <4> HIDE DEF p
      <4> QED BY <3>1, <4>1, <4>2, <4>3 DEF First
    <3> QED BY <3>2, <3>3
  <2>3. TRUE \in BOOLEAN
    OBVIOUS
  <2> HIDE DEF p
  <2>4. Makes(t, p, TRUE)
    BY <1>4 DEF p
  <2> QED BY <1>1, <1>2, <2>1, <2>2, <2>3, <2>4, MakesStep
<1> QED BY <1>3, <1>4 DEF Save

(* The browser's editor, `liw profile set' and the opening of the editor.  *)
LEMMA EditorStep ==
  ASSUME IInv, NEW t \in Tasks, WriteBack(t) \/ SetCoord(t) \/ OpenEditor(t)
  PROVE  IInv'
<1>1. CASE WriteBack(t)
  <2>1. /\ op[t].kind = "edit" /\ op[t].path \in Paths
        /\ Makes(t, op[t].path, TRUE) \/ Ends(t)
        /\ UNCHANGED <<own, disk, backups, clock, calls, held, mapper, alone, replaced, sameSecond>>
    BY <1>1, AtTask DEF WriteBack, Fits, Quiet, history
  <2>2. TRUE \in BOOLEAN
    OBVIOUS
  <2> QED BY <2>1, <2>2, AtTask, MakesStep, EndStep
<1>2. CASE SetCoord(t)
  <2>1. /\ op[t].kind = "set"
        /\ UNCHANGED <<own, disk, backups, clock, calls, held, mapper, alone, replaced, sameSecond>>
    BY <1>2 DEF SetCoord, Scanned, Quiet, history
  <2>2. CASE Ends(t)
    BY <2>1, <2>2, AtTask, EndStep
  <2>3. CASE op[t].found \in Paths /\ \E ok \in {disk[op[t].found].ok, FALSE} : Makes(t, op[t].found, ok)
    <3>1. disk[op[t].found].ok \in BOOLEAN
      BY <2>3, AtTask DEF Texts
    <3>2. PICK ok \in BOOLEAN : Makes(t, op[t].found, ok)
      BY <2>3, <3>1
    <3> QED BY <2>1, <2>3, <3>2, MakesStep
  <2> QED BY <1>2, <2>2, <2>3 DEF SetCoord
<1>3. CASE OpenEditor(t)
  <2>1. held' \in Paths \cup {NoPath}
    BY <1>3, AtTask DEF OpenEditor
  <2> QED BY <1>3, <2>1, AtTask, EndStep DEF OpenEditor, Quiet, history
<1> QED BY <1>1, <1>2, <1>3

(* Store::delete writes, if at all, where it has looked.                   *)
LEMMA DeleteStep ==
  ASSUME IInv, NEW t \in Tasks, Delete(t)
  PROVE  IInv'
<1>1. /\ op[t].kind = "delete" /\ Ends(t)
      /\ UNCHANGED <<own, backups, calls, clock, held, mapper, replaced, sameSecond>>
  BY DEF Delete, Scanned, Answers, history
<1>2. CASE op[t].found \in UserPaths
  <2>1. Idle \in Ops /\ Idle.kind = "none" /\ Idle.at = "idle"
    BY TextTypes, PathsAreNumbers DEF Idle, Ops, Places
  <2>2. Fits(Idle)
    BY <2>1 DEF Fits
  <2>3. ReplacedAreKept' /\ replaced' \in SUBSET Nat
    BY <1>1, AtTask DEF IInv, ReplacedAreKept, BackupsLast
  <2>4. op[t].found \in Paths /\ Writes(t, op[t].found, Absent)
    BY <1>2, PathsAreNumbers DEF Delete
  <2> QED BY <1>1, <2>1, <2>2, <2>3, <2>4, TextTypes, WritingStep DEF Ends
<1>3. CASE op[t].found \notin UserPaths
  BY <1>1, <1>3, AtTask, EndStep DEF Delete, Quiet
<1> QED BY <1>2, <1>3

(* The file is emptied: it was the one to be served, and what an install   *)
(* empties has been copied away.                                           *)
LEMMA TruncateStep ==
  ASSUME IInv, NEW t \in Tasks, Truncate(t)
  PROVE  IInv'
<1> DEFINE o == [op[t] EXCEPT !.at = "write"]
<1>1. /\ op[t].at = "truncate" /\ Writes(t, op[t].path, Empty)
      /\ UNCHANGED <<own, backups, calls, clock, held, mapper, sameSecond>>
  BY DEF Truncate
<1>2. op' = [op EXCEPT ![t] = o]
  BY AtTask DEF Truncate, Goes
<1>3. /\ o \in Ops /\ o.at = "write" /\ o.kind = op[t].kind /\ o.path = op[t].path
      /\ o.text = op[t].text
  BY AtTask DEF Ops, Places
<1> HIDE DEF o
<1>4. op[t].path \in Paths /\ Fits(o) /\ o.kind # "apply"
  BY <1>1, <1>3, AtTask DEF Fits
<1>5. t \in alone /\ o.kind = "save" => SaveIsOnItsWay(op[t])'
  BY <1>1, <1>2, <1>3, AtTask DEF OnItsWay, SaveIsOnItsWay, First, Writes
<1>6. replaced' \in SUBSET Nat /\ ReplacedAreKept'
  <2>1. CASE op[t].kind = "install" /\ t \in alone
    <3>1. replaced' = replaced \cup ({disk[own].v} \ {Absent.v, Empty.v})
      BY <2>1 DEF Truncate
    <3>2. disk[own].v \in Nat
      BY AtTask DEF Texts
    <3>3. Kept(disk[own].v)
      BY <1>1, <2>1, AtTask DEF OnItsWay, InstallIsOnItsWay
    <3> QED BY <1>1, <3>1, <3>2, <3>3, AtTask DEF IInv, ReplacedAreKept, BackupsLast, Kept
  <2>2. CASE ~(op[t].kind = "install" /\ t \in alone)
    BY <1>1, <2>2, AtTask DEF Truncate, IInv, ReplacedAreKept, BackupsLast
  <2> QED BY <2>1, <2>2
<1> QED BY <1>1, <1>2, <1>3, <1>4, <1>5, <1>6, TextTypes, WritingStep

(* The file is filled: what was saved is served.                           *)
LEMMA WriteStep ==
  ASSUME IInv, NEW t \in Tasks, Write(t)
  PROVE  IInv'
<1> DEFINE text == IF op[t].kind = "install" THEN disk[Shipped] ELSE op[t].text
           done == [Idle EXCEPT !.kind = op[t].kind, !.at = "done",
                                !.path = op[t].path, !.text = op[t].text]
<1>1. /\ op[t].at = "write" /\ Writes(t, op[t].path, text)
      /\ UNCHANGED <<own, backups, calls, clock, held, mapper, replaced, sameSecond>>
  BY DEF Write, history
<1>2. op[t].path \in Paths /\ op[t].kind # "apply" /\ text \in Texts
  BY <1>1, AtTask, PathsAreNumbers DEF Fits
<1>3. ReplacedAreKept' /\ replaced' \in SUBSET Nat
  BY <1>1, AtTask DEF IInv, ReplacedAreKept, BackupsLast
<1>4. CASE op[t].kind = "save"
  <2>1. op' = [op EXCEPT ![t] = done]
    BY <1>4 DEF Write, Answers
  <2>2. /\ done \in Ops /\ done.kind = "save" /\ done.at = "done"
        /\ done.path = op[t].path /\ done.text = op[t].text
    BY <1>4, TextTypes, PathsAreNumbers, AtTask DEF Idle, Ops, Places
  <2> HIDE DEF done
  <2>3. Fits(done)
    BY <2>2 DEF Fits
  <2>4. t \in alone => SaveIsOnItsWay(op[t])'
    BY <1>1, <1>2, <1>4, <2>1, <2>2, AtTask DEF OnItsWay, SaveIsOnItsWay, First, Writes
  <2> HIDE DEF text
  <2> QED BY <1>1, <1>2, <1>3, <2>1, <2>2, <2>3, <2>4, WritingStep
<1>5. CASE op[t].kind # "save"
  <2>1. op' = [op EXCEPT ![t] = Idle]
    BY <1>2, <1>5 DEF Write, Answers, Ends
  <2>2. Idle \in Ops /\ Idle.kind = "none" /\ Idle.at = "idle"
    BY TextTypes, PathsAreNumbers DEF Idle, Ops, Places
  <2>3. Fits(Idle)
    BY <2>2 DEF Fits
  <2> HIDE DEF text
  <2> QED BY <1>1, <1>2, <1>3, <2>1, <2>2, <2>3, WritingStep
<1> QED BY <1>4, <1>5

(* An install looks, and goes on when there is nothing to keep.            *)
LEMMA InstallChecksStep ==
  ASSUME IInv, NEW t \in Tasks, InstallChecks(t)
  PROVE  IInv'
<1>1. /\ op[t].at = "check" /\ op[t].kind = "install" /\ op[t].path = own
      /\ UNCHANGED <<own, disk, backups, clock, calls, held, mapper, alone, replaced, sameSecond>>
  BY AtTask DEF InstallChecks, Quiet, history, Fits
<1>2. CASE Ends(t)
  BY <1>1, <1>2, AtTask, EndStep
<1>3. ASSUME NEW to \in {"truncate", "backup"}, Goes(t, to),
             to = "truncate" => disk[own] = Absent
      PROVE  IInv'
  <2> DEFINE o == [op[t] EXCEPT !.at = to]
  <2>1. op' = [op EXCEPT ![t] = o]
    BY <1>3, AtTask DEF Goes
  <2>2. o \in Ops /\ o.kind = "install" /\ o.at = to /\ o.path = own
    BY <1>1, AtTask DEF Ops, Places
  <2> HIDE DEF o
  <2>3. Fits(o) /\ ~Loading(o) /\ InstallIsOnItsWay(o)
    BY <1>3, <2>2, AtTask DEF Fits, Loading, InstallIsOnItsWay, Kept
  <2> QED BY <1>1, <2>1, <2>2, <2>3, AtTask, QuietStep
<1> QED BY <1>2, <1>3 DEF InstallChecks

(* The backup: no copy is lost to it, but to one of the same second.       *)
LEMMA InstallBacksUpStep ==
  ASSUME IInv, NEW t \in Tasks, InstallBacksUp(t)
  PROVE  IInv'
<1> DEFINE o == [op[t] EXCEPT !.at = "truncate"]
<1>1. /\ op[t].at = "backup" /\ op[t].kind = "install" /\ op[t].path = own
      /\ UNCHANGED <<own, disk, alone, calls, clock, held, mapper, replaced>>
  BY AtTask DEF InstallBacksUp, Quiet, Fits
<1>2. op' = [op EXCEPT ![t] = o]
  BY AtTask DEF InstallBacksUp, Goes
<1>3. o \in Ops /\ o.kind = "install" /\ o.at = "truncate" /\ o.path = own
  BY <1>1, AtTask DEF Ops, Places
<1> HIDE DEF o
<1>4. Fits(o) /\ ~Loading(o)
  BY <1>3, AtTask DEF Fits, Loading
<1>5. CASE disk[own] = Absent
  <2>1. InstallIsOnItsWay(o) /\ UNCHANGED <<backups, sameSecond>>
    BY <1>5 DEF InstallBacksUp, InstallIsOnItsWay, Kept
  <2> QED BY <1>1, <1>2, <1>3, <1>4, <2>1, AtTask, QuietStep
<1>6. CASE disk[own] # Absent
  <2>1. /\ backups' = [backups EXCEPT ![clock] = disk[own]]
        /\ sameSecond' = (sameSecond \/ backups[clock] # Absent)
    BY <1>6 DEF InstallBacksUp, Stamp
  <2>2. /\ backups \in [0 .. MaxClock -> Texts] /\ clock \in 0 .. MaxClock
        /\ sameSecond \in BOOLEAN /\ disk[own] \in Texts /\ TypeOK
    BY AtTask DEF IInv, TypeOK
  <2>3. ASSUME NEW v, Kept(v) PROVE Kept(v)'
    <3>1. CASE sameSecond \/ v \in {Absent.v, Empty.v}
      BY <2>1, <3>1 DEF Kept
    <3>2. CASE \E s \in DOMAIN backups : backups[s].v = v
      <4>1. PICK s \in 0 .. MaxClock : backups[s].v = v
        BY <2>2, <3>2
      <4>2. CASE s # clock
        BY <2>1, <2>2, <4>1, <4>2 DEF Kept
      <4>3. CASE s = clock
        BY <2>1, <4>1, <4>3 DEF Kept
      <4> QED BY <4>2, <4>3
    <3> QED BY <2>3, <3>1, <3>2 DEF Kept
  <2>4. Kept(disk[own].v)'
    BY <1>1, <2>1, <2>2 DEF Kept
  <2>5. TypeOK'
    BY <1>1, <1>2, <1>3, <2>1, <2>2 DEF TypeOK
  <2>6. \A u \in Tasks : Fits(op[u])'
    BY <1>1, <1>2, <1>4, AtTask DEF IInv, Fits
  <2>7. StartsAreTrue => StartsAreTrue'
    BY <1>1, <1>2, <1>4, AtTask, SameFilesSameServed DEF StartsAreTrue, Loading, ScanIsTrue, Mapping
  <2>8. ASSUME NEW u \in alone' PROVE OnItsWay(op[u])'
    <3>1. CASE u = t
      BY <1>1, <1>2, <1>3, <2>4, <3>1, AtTask DEF OnItsWay, InstallIsOnItsWay
    <3>2. CASE u # t
      <4>1. OnItsWay(op[u]) /\ op'[u] = op[u]
        BY <1>1, <1>2, <2>8, <3>2, AtTask DEF IInv
      <4> QED BY <1>1, <2>3, <2>7, <4>1 DEF OnItsWay, SaveIsOnItsWay, ScanIsTrue, First,
         ApplyIsOnItsWay, InstallIsOnItsWay
    <3> QED BY <3>1, <3>2
  <2>9. ReplacedAreKept'
    <3>1. \A v \in replaced : v \notin {Absent.v, Empty.v}
      BY DEF IInv, ReplacedAreKept
    <3>2. ASSUME NEW v \in replaced, ~sameSecond'
          PROVE  \E s \in DOMAIN backups' : backups'[s].v = v
      <4>1. ~sameSecond /\ backups[clock] = Absent
        BY <2>1, <3>2
      <4>2. PICK s \in 0 .. MaxClock : backups[s].v = v
        BY <2>2, <4>1 DEF IInv, ReplacedAreKept, BackupsLast
      <4>3. s # clock
        BY <3>1, <4>1, <4>2
      <4> QED BY <2>1, <2>2, <4>2, <4>3
    <3> QED BY <1>1, <3>1, <3>2 DEF ReplacedAreKept, BackupsLast
  <2> QED BY <2>5, <2>6, <2>8, <2>9 DEF IInv
<1> QED BY <1>5, <1>6

(* The process is gone: its answer never comes.                            *)
LEMMA CrashStep ==
  ASSUME IInv, NEW t \in Tasks, Crash(t)
  PROVE  IInv'
BY AtTask, EndStep DEF Crash, Quiet, files, history

(* A start or a restart that answers: what its task says of the key mapper *)
(* is what it has seen to.                                                 *)
LEMMA AnswerStep ==
  ASSUME IInv, NEW t \in Tasks, Answers(t), op[t].kind \in {"start", "apply"},
         UNCHANGED <<own, disk, backups, clock, calls, held, alone, replaced, sameSecond>>,
         mapper' \in Nat,
         \/ mapper' = mapper
         \/ StartsAreTrue => mapper' = ServedText.v + 1,
         t \in alone /\ op[t].kind = "apply" => StartsAreTrue
  PROVE  IInv'
<1> DEFINE o == op'[t]
<1>1. /\ op' = [op EXCEPT ![t] = o]
      /\ o.at \in {"idle", "done"} /\ o.kind \in {"none", "apply"}
      /\ o.kind = "apply" => op[t].kind = "apply"
      /\ o \in Ops
  <2>1. Idle \in Ops /\ Idle.kind = "none" /\ Idle.at = "idle"
    BY TextTypes, PathsAreNumbers DEF Idle, Ops, Places
  <2>2. CASE op[t].kind = "start"
    BY <2>1, <2>2, AtTask DEF Answers, Ends
  <2>3. CASE op[t].kind = "apply"
    <3>1. op' = [op EXCEPT ![t] = [Idle EXCEPT !.kind = op[t].kind, !.at = "done",
                                     !.path = op[t].path, !.text = op[t].text]]
      BY <2>3 DEF Answers
    <3>2. o = [Idle EXCEPT !.kind = op[t].kind, !.at = "done", !.path = op[t].path,
                           !.text = op[t].text]
      BY <3>1, AtTask
    <3>3. o = [kind |-> "apply", at |-> "done", todo |-> {}, found |-> NoPath,
               path |-> op[t].path, text |-> op[t].text, v |-> 0]
      BY <2>3, <3>2 DEF Idle
    <3>4. o \in Ops
      BY <3>3, AtTask DEF Ops, Places, Kinds
    <3>5. op' = [op EXCEPT ![t] = o]
      BY <3>1, <3>2
    <3>6. o.kind = "apply" /\ o.at = "done"
      BY <3>3
    <3> QED BY <2>3, <3>4, <3>5, <3>6
  <2> QED BY <2>2, <2>3
<1> HIDE DEF o
<1>2. Fits(o) /\ ~Loading(o)
  BY <1>1 DEF Fits, Loading
<1>3. mapper' = mapper \/ mapper' # mapper
  OBVIOUS
<1> QED BY <1>1, <1>2, <1>3, AtTask, QuietStep

(* A start that has the lock finds the key mapper running, or begins to    *)
(* scan for it.                                                            *)
LEMMA StartBeginsStep ==
  ASSUME IInv, NEW t \in Tasks, StartBegins(t)
  PROVE  IInv'
<1>1. /\ op[t].at = "lock" /\ op[t].kind \in {"start", "apply"}
      /\ op[t].todo = Paths /\ op[t].found = NoPath /\ op[t].text = Absent
      /\ UNCHANGED <<own, disk, backups, clock, calls, held, mapper, alone, replaced, sameSecond>>
  BY AtTask DEF StartBegins, Quiet, files, history, Fits
<1>2. t \in alone /\ op[t].kind = "apply" => StartsAreTrue
  BY <1>1, AtTask DEF OnItsWay, ApplyIsOnItsWay
<1>3. CASE Answers(t)
  BY <1>1, <1>2, <1>3, AtTask, AnswerStep
<1>4. CASE Goes(t, "scan")
  <2> DEFINE o == [op[t] EXCEPT !.at = "scan"]
  <2>1. op' = [op EXCEPT ![t] = o]
    BY <1>4, AtTask DEF Goes
  <2>2. /\ o \in Ops /\ o.kind = op[t].kind /\ o.at = "scan"
        /\ o.todo = Paths /\ o.found = NoPath /\ o.text = Absent
    BY <1>1, AtTask DEF Ops, Places
  <2> HIDE DEF o
  <2>3. Fits(o) /\ ScanIsTrue(o)
    BY <1>1, <2>2, AtTask DEF Fits, ScanIsTrue
  <2> QED BY <1>1, <1>2, <2>1, <2>2, <2>3, AtTask, QuietStep
<1> QED BY <1>3, <1>4 DEF StartBegins

(* It runs with what its scan has found.                                   *)
LEMMA StartLoadsStep ==
  ASSUME IInv, NEW t \in Tasks, StartLoads(t)
  PROVE  IInv'
<1>1. /\ op[t].at = "scan" /\ op[t].kind \in {"start", "apply"} /\ op[t].todo = {}
      /\ mapper' = op[t].text.v + 1 /\ Answers(t)
      /\ UNCHANGED <<own, disk, backups, clock, calls, held, alone, replaced, sameSecond>>
  BY DEF StartLoads, Scanned, Quiet, files, history
<1>2. t \in alone /\ op[t].kind = "apply" => StartsAreTrue
  BY <1>1, AtTask DEF OnItsWay, ApplyIsOnItsWay
<1>3. mapper' \in Nat
  BY <1>1, AtTask DEF Texts
<1>4. ASSUME StartsAreTrue PROVE mapper' = ServedText.v + 1
  <2>1. ScanIsTrue(op[t])
    BY <1>1, <1>4 DEF StartsAreTrue, Loading
  <2>2. op[t].text = ServedText
    BY <1>1, <2>1, AtTask, ScanFindsTheServed
  <2> QED BY <1>1, <2>2
<1> QED BY <1>1, <1>2, <1>3, <1>4, AnswerStep

(* An apply that stops the key mapper: none runs, and nobody is starting   *)
(* one.                                                                    *)
LEMMA ApplyStep ==
  ASSUME IInv, NEW t \in Tasks, Apply(t)
  PROVE  IInv'
<1>1. /\ op[t].at = "stop" /\ op[t].kind = "apply" /\ ~Locked
      /\ UNCHANGED <<own, disk, backups, clock, calls, held, alone, replaced, sameSecond>>
  BY AtTask DEF Apply, Quiet, files, history, Fits
<1>2. CASE ~Mapping
  BY <1>1, <1>2, AtTask, EndStep DEF Apply
<1>3. CASE Mapping
  <2> DEFINE o == [op[t] EXCEPT !.at = "lock"]
  <2>1. op' = [op EXCEPT ![t] = o] /\ mapper' = Stopped
    BY <1>3, AtTask DEF Apply, Goes
  <2>2. /\ o \in Ops /\ o.kind = "apply" /\ o.at = "lock"
        /\ o.todo = op[t].todo /\ o.found = op[t].found /\ o.text = op[t].text
    BY <1>1, AtTask DEF Ops, Places
  <2> HIDE DEF o
  <2>3. Fits(o) /\ ~Loading(o)
    BY <1>1, <2>2, AtTask DEF Fits, Loading
  <2>4. StartsAreTrue'
    <3>1. \A u \in Tasks : ~Loading(op[u])
      BY <1>1 DEF Locked, Loading
    <3>2. \A u \in Tasks : ~Loading(op[u])'
      BY <2>1, <2>3, <3>1, AtTask DEF Loading
    <3> QED BY <2>1, <3>2 DEF StartsAreTrue, Mapping
  <2>5. Stopped \in Nat
    BY DEF Stopped
  <2> QED BY <1>1, <2>1, <2>2, <2>3, <2>4, <2>5, AtTask, QuietStep
<1> QED BY <1>2, <1>3

(* Time passes, the key mapper ends, nothing happens: no file and no task  *)
(* is concerned.                                                           *)
LEMMA OtherStep ==
  ASSUME IInv, Tick \/ StopMapper \/ UNCHANGED vars
  PROVE  IInv'
<1>1. /\ UNCHANGED <<own, disk, backups, calls, held, op, alone, replaced, sameSecond>>
      /\ mapper' \in {mapper, Stopped} /\ TypeOK
  BY DEF IInv, Tick, StopMapper, vars, files, history
<1>2. clock' \in 0 .. MaxClock
  BY BoundsAssumption DEF IInv, TypeOK, Tick, StopMapper, vars, files, history
<1>3. TypeOK'
  BY <1>1, <1>2 DEF TypeOK, Stopped
<1>4. \A t \in Tasks : Fits(op[t])'
  BY <1>1 DEF IInv, Fits
<1>5. StartsAreTrue => StartsAreTrue'
  BY <1>1, SameFilesSameServed DEF StartsAreTrue, Loading, ScanIsTrue, Mapping
<1>6. \A t \in alone : OnItsWay(op[t])'
  BY <1>1, <1>5 DEF IInv, OnItsWay, SaveIsOnItsWay, ScanIsTrue, First, ApplyIsOnItsWay,
     InstallIsOnItsWay, Kept
<1>7. ReplacedAreKept'
  BY <1>1 DEF IInv, ReplacedAreKept, BackupsLast
<1> QED BY <1>1, <1>3, <1>4, <1>6, <1>7 DEF IInv

(* Every step keeps it.                                                    *)
LEMMA NextIInv == IInv /\ [Next]_vars => IInv'
<1> SUFFICES ASSUME IInv, [Next]_vars PROVE IInv'
  OBVIOUS
<1>1. ASSUME NEW t \in Tasks,
             \/ Begin(t) \/ Scan(t) \/ Save(t) \/ OpenEditor(t) \/ WriteBack(t)
             \/ SetCoord(t) \/ Delete(t)
      PROVE  IInv'
  BY <1>1, BeginStep, ScanStep, SaveStep, EditorStep, DeleteStep
<1>2. ASSUME NEW t \in Tasks,
             \/ Truncate(t) \/ Write(t) \/ Crash(t) \/ InstallChecks(t) \/ InstallBacksUp(t)
             \/ StartBegins(t) \/ StartLoads(t) \/ Apply(t)
      PROVE  IInv'
  BY <1>2, TruncateStep, WriteStep, CrashStep, InstallChecksStep, InstallBacksUpStep,
     StartBeginsStep, StartLoadsStep, ApplyStep
<1> QED BY <1>1, <1>2, OtherStep DEF Next

----------------------------------------------------------------------------
(* Results.                                                                *)

(* The invariant of the store, its writers and its readers: what a task    *)
(* that no write has crossed has found, and is about to write, is true.    *)
THEOREM ProfilesInvariant == Spec => []IInv
<1> QED BY InitIInv, NextIInv, PTL DEF Spec

(* No profile is lost: a save that answered, uncrossed, is what the store  *)
(* serves from then on (Store::save, save_target and scan_dir), and what a *)
(* forced install overwrites (copy and toml.bak-<seconds>) stays in a      *)
(* backup, but for two of one second.                                      *)
THEOREM NothingIsLost == Spec => []NothingSavedIsLost
<1>1. IInv => NothingSavedIsLost
  <2> SUFFICES ASSUME IInv PROVE NothingSavedIsLost
    OBVIOUS
  <2>1. ASSUME NEW t \in alone, op[t].kind = "save", op[t].at = "done"
        PROVE  Served = op[t].path /\ disk[Served] = op[t].text
    <3>1. SaveIsOnItsWay(op[t])
      BY <2>1 DEF IInv, OnItsWay
    <3>2. op[t].path \in Paths /\ First(op[t].path) /\ disk[op[t].path] = op[t].text
          /\ disk[op[t].path].ok
      BY <2>1, <3>1 DEF SaveIsOnItsWay
    <3> QED BY <3>2, ServedIsFirst
  <2> QED BY <2>1 DEF NothingSavedIsLost, SavedIsServed, IInv, ReplacedAreKept
<1> QED BY <1>1, ProfilesInvariant, PTL

(* "keymapper restarted" (reload_keymapper) is true: unless a write has    *)
(* crossed the restart, the key mapper that runs from then on runs with    *)
(* what the store serves, whoever else has started or stopped it.          *)
THEOREM RestartLoads == Spec => []ApplyLoadsIt
<1>1. IInv => ApplyLoadsIt
  <2> SUFFICES ASSUME IInv, NEW t \in alone, op[t].kind = "apply", op[t].at = "done", Mapping
               PROVE  mapper = ServedText.v + 1
    BY DEF ApplyLoadsIt, ServedText
  <2> QED BY DEF IInv, OnItsWay, ApplyIsOnItsWay, StartsAreTrue
<1> QED BY <1>1, ProfilesInvariant, PTL
=============================================================================
