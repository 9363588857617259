------------------------------ MODULE Profiles ------------------------------
(***************************************************************************)
(* The profile files of one package and everything that reads or writes    *)
(* them: the store (liw-input/src/store.rs), the daemon's SaveProfile and  *)
(* the launcher's editor on top of it, the browser editor (liw's           *)
(* editor.rs), `liw profile set` and `liw profile install` (liw's          *)
(* profile.rs), and the key mapper, which reads the store when it starts.  *)
(*                                                                         *)
(* These run in different processes, with no lock: a scan reads one file   *)
(* after another, and a file is written in two steps, emptied first.       *)
(*                                                                         *)
(* Paths are numbered by what the store prefers: origin first, then name.  *)
(***************************************************************************)
EXTENDS Naturals

CONSTANTS
  Tasks,         \* processes or D-Bus calls at work at a time
  UserPaths,     \* files in user directories that may hold the package
  Shipped,       \* the system's or the repository's file
  MaxCalls,      \* bound: what the tasks do in all
  MaxClock       \* bound: seconds that pass

ASSUME PathsAssumption ==
  /\ UserPaths \subseteq Nat \ {0} /\ Shipped \in Nat
  /\ \A p \in UserPaths : p < Shipped
ASSUME BoundsAssumption == MaxCalls \in Nat /\ MaxClock \in Nat

Paths == UserPaths \cup {Shipped}
NoPath == Shipped + 1

(* What a file holds: nothing (no file), or a text. A text that is ok      *)
(* loads; an empty file does not, nor one with a field of a wrong type.    *)
Absent == [v |-> 0, ok |-> FALSE]
Empty  == [v |-> 1, ok |-> FALSE]
Original(p) == [v |-> 1 + p, ok |-> TRUE]
Newest(n) == NoPath + 1 + n

Stopped == 0

VARIABLES
  own,        \* {pkg}.toml in the user's directory
  disk,       \* text of each file
  backups,    \* [second -> text] of the installer's copies
  clock,      \* the second it is
  calls,      \* what the tasks have begun
  held,       \* the file the browser editor was opened on
  op,         \* what each task is doing: its kind, where it is, the files left to
              \* scan and the one found, the file it writes, the text it found
              \* or makes, and that text's version
  mapper,     \* version the key mapper runs with, or Stopped
  alone,      \* history: tasks that nobody else's write has crossed
  replaced,   \* history: calls an install has overwritten
  sameSecond  \* history: two forced installs fell into one second

files == <<disk, backups, calls>>
history == <<replaced, sameSecond>>
vars == <<own, files, clock, held, op, mapper, alone, history>>

----------------------------------------------------------------------------
Idle == [kind |-> "none", at |-> "idle", todo |-> {}, found |-> NoPath,
         path |-> NoPath, text |-> Absent, v |-> 0]

Kinds == {"save", "set", "edit", "open", "delete", "install", "start", "apply"}

(* What the store serves: of the files that load, the preferred one.       *)
Served ==
  LET good == {p \in Paths : disk[p].ok}
  IN  IF good = {} THEN NoPath ELSE CHOOSE p \in good : \A q \in good : p <= q

Mapping == mapper # Stopped

(* A start holds the key mapper's lock, and so does a stop.                *)
Locked == \E t \in Tasks : op[t].kind \in {"start", "apply"} /\ op[t].at = "scan"

Goes(t, at) == op' = [op EXCEPT ![t].at = at]

Ends(t) == op' = [op EXCEPT ![t] = Idle]

(* An answer that a property is about stays until the task begins anew.    *)
Answers(t) ==
  IF op[t].kind \in {"save", "apply"}
  THEN op' = [op EXCEPT ![t] = [Idle EXCEPT !.kind = op[t].kind, !.at = "done",
                                  !.path = op[t].path, !.text = op[t].text]]
  ELSE Ends(t)

(* A write crosses what every other task is doing.                         *)
Writes(t, p, text) ==
  /\ disk' = [disk EXCEPT ![p] = text]
  /\ alone' = alone \cap {t}

Quiet == UNCHANGED <<disk, alone>>

----------------------------------------------------------------------------
(* A task begins; until then it stays where its last one ended. The        *)
(* browser's save and the installer know their file.                       *)
Begin(t) ==
  /\ op[t].at \in {"idle", "done"}
  /\ calls < MaxCalls /\ calls' = calls + 1
  /\ \E k \in Kinds :
       /\ k = "edit" => held # NoPath
       /\ op' = [op EXCEPT ![t] =
            [Idle EXCEPT
               !.kind = k, !.v = Newest(calls),
               !.at = CASE k = "edit" -> "read" [] k = "install" -> "check"
                        [] k = "apply" -> "stop" [] k = "start" -> "lock"
                        [] OTHER -> "scan",
               !.todo = IF k \in {"edit", "install"} THEN {} ELSE Paths,
               !.path = CASE k = "edit" -> held [] k = "install" -> own
                          [] OTHER -> NoPath]]
  /\ alone' = IF \A u \in Tasks \ {t} : op[u].at # "write"
              THEN alone \cup {t} ELSE alone \ {t}
  /\ UNCHANGED <<own, disk, backups, clock, held, mapper, history>>

(* scan_dir: the higher origin, and of two files of one origin the smaller *)
(* path, however the directory lists them.                                 *)
Prefers(q, p) == q < p

(* One file of a scan. The shipped directories come after the user's.      *)
Scan(t) ==
  /\ op[t].at = "scan"
  /\ \E p \in op[t].todo :
       /\ p = Shipped => own \notin op[t].todo
       /\ op' = [op EXCEPT ![t].todo = @ \ {p},
                           ![t].found = IF disk[p].ok /\ Prefers(p, @) THEN p ELSE @,
                           ![t].text = IF disk[p].ok /\ Prefers(p, op[t].found)
                                       THEN disk[p] ELSE @]
  /\ Quiet /\ UNCHANGED <<own, backups, calls, clock, held, mapper, history>>

Scanned(t, k) == op[t].kind = k /\ op[t].at = "scan" /\ op[t].todo = {}

(* A new text for a file, to be written.                                   *)
Makes(t, p, ok) ==
  op' = [op EXCEPT ![t].at = "truncate", ![t].found = NoPath, ![t].path = p,
                      ![t].text = [v |-> op[t].v, ok |-> ok]]

(* Mutant of SaveTarget: always {pkg}.toml.                                *)
SaveTargetByName(found) == own

(* save_target: a user's profile in place, {pkg}.toml over any other.      *)
SaveTarget(found) == IF found \in UserPaths THEN found ELSE own

(* Store::save up to the write: validated and rendered, or refused.        *)
Save(t) ==
  /\ Scanned(t, "save")
  /\ \/ Makes(t, SaveTarget(op[t].found), TRUE)
     \/ Ends(t)
  /\ Quiet /\ UNCHANGED <<own, backups, calls, clock, held, mapper, history>>

(* The browser editor is opened on a file, and writes that file from then  *)
(* on.                                                                     *)
OpenEditor(t) ==
  /\ Scanned(t, "open")
  /\ held' = IF op[t].found = NoPath THEN held ELSE op[t].found
  /\ Ends(t)
  /\ Quiet /\ UNCHANGED <<own, backups, calls, clock, mapper, history>>

WriteBack(t) ==
  /\ op[t].kind = "edit" /\ op[t].at = "read"
  /\ \/ Makes(t, op[t].path, TRUE)
     \/ Ends(t)
  /\ Quiet /\ UNCHANGED <<own, backups, calls, clock, held, mapper, history>>

(* `liw profile set`: in place, whatever the origin, and not validated; a  *)
(* field that is no point leaves a profile that does not load. Without the *)
(* binding in the text there is nothing to set.                            *)
SetCoord(t) ==
  /\ Scanned(t, "set")
  /\ IF op[t].found \in Paths /\ disk[op[t].found] \notin {Absent, Empty}
     THEN \E ok \in {disk[op[t].found].ok, FALSE} : Makes(t, op[t].found, ok)
     ELSE Ends(t)
  /\ Quiet /\ UNCHANGED <<own, backups, calls, clock, held, mapper, history>>

(* Store::delete: only what was found as a user's.                         *)
Delete(t) ==
  /\ Scanned(t, "delete")
  /\ Answers(t)
  /\ IF op[t].found \in UserPaths THEN Writes(t, op[t].found, Absent) ELSE Quiet
  /\ UNCHANGED <<own, backups, calls, clock, held, mapper, history>>

(* std::fs::write and std::fs::copy: the file is emptied, then filled.     *)
Truncate(t) ==
  /\ op[t].at = "truncate"
  /\ Writes(t, op[t].path, Empty)
  /\ Goes(t, "write")
  /\ replaced' = IF op[t].kind = "install" /\ t \in alone
                 THEN replaced \cup ({disk[own].v} \ {Absent.v, Empty.v})
                 ELSE replaced
  /\ UNCHANGED <<own, backups, calls, clock, held, mapper, sameSecond>>

Write(t) ==
  /\ op[t].at = "write"
  /\ Writes(t, op[t].path,
            IF op[t].kind = "install" THEN disk[Shipped] ELSE op[t].text)
  /\ Answers(t)
  /\ UNCHANGED <<own, backups, calls, clock, held, mapper, history>>

(* The process is gone between the two.                                    *)
Crash(t) ==
  /\ op[t].at = "write"
  /\ Ends(t)
  /\ Quiet /\ UNCHANGED <<own, files, clock, held, mapper, history>>

----------------------------------------------------------------------------
(* liw profile install: the shipped file over the user's one of the same   *)
(* name. One that is there is skipped without --force, and copied away     *)
(* with it.                                                                *)
InstallChecks(t) ==
  /\ op[t].at = "check"
  /\ IF disk[Shipped] = Absent THEN Ends(t)
     ELSE IF disk[own] = Absent THEN Goes(t, "truncate")
     ELSE Ends(t) \/ Goes(t, "backup")
  /\ Quiet /\ UNCHANGED <<own, backups, calls, clock, held, mapper, history>>

(* toml.bak-<seconds>.                                                     *)
Stamp == clock

(* Looked at once more: a file that is gone by now needs no backup.        *)
InstallBacksUp(t) ==
  /\ op[t].at = "backup"
  /\ IF disk[own] = Absent THEN UNCHANGED <<backups, sameSecond>>
     ELSE /\ backups' = [backups EXCEPT ![Stamp] = disk[own]]
          /\ sameSecond' = (sameSecond \/ backups[clock] # Absent)
  /\ Goes(t, "truncate")
  /\ Quiet /\ UNCHANGED <<own, calls, clock, held, mapper, replaced>>

Tick ==
  /\ clock < MaxClock /\ clock' = clock + 1
  /\ UNCHANGED <<own, files, held, op, mapper, alone, history>>

----------------------------------------------------------------------------
(* The key mapper. A start that finds it running does nothing.             *)
StartBegins(t) ==
  /\ op[t].at = "lock" /\ ~Locked
  /\ IF Mapping THEN Answers(t) ELSE Goes(t, "scan")
  /\ Quiet /\ UNCHANGED <<own, files, clock, held, mapper, history>>

(* Runs with what the scan found, and without a profile just as well.      *)
StartLoads(t) ==
  /\ Scanned(t, "start") \/ Scanned(t, "apply")
  /\ mapper' = op[t].text.v + 1
  /\ Answers(t)
  /\ Quiet /\ UNCHANGED <<own, files, clock, held, history>>

(* Mutant of Apply: it only starts.                                        *)
ApplyStarts(t) ==
  /\ op[t].at = "stop" /\ ~Locked
  /\ IF Mapping THEN Goes(t, "lock") ELSE Ends(t)
  /\ Quiet /\ UNCHANGED <<own, files, clock, held, mapper, history>>

(* reload_keymapper: a key mapper that is off stays off.                   *)
Apply(t) ==
  /\ op[t].at = "stop" /\ ~Locked
  /\ IF Mapping THEN mapper' = Stopped /\ Goes(t, "lock")
                ELSE Ends(t) /\ UNCHANGED mapper
  /\ Quiet /\ UNCHANGED <<own, files, clock, held, history>>

(* Stopped by its user, or ended by itself.                                *)
StopMapper ==
  /\ Mapping /\ ~Locked
  /\ mapper' = Stopped
  /\ UNCHANGED <<own, files, clock, held, op, alone, history>>

----------------------------------------------------------------------------
Init ==
  /\ own \in UserPaths
  /\ \E there \in SUBSET Paths :
       disk = [p \in Paths |-> IF p \in there THEN Original(p) ELSE Absent]
  /\ backups = [s \in 0 .. MaxClock |-> Absent]
  /\ clock = 0 /\ calls = 0 /\ held = NoPath
  /\ op = [t \in Tasks |-> Idle]
  /\ mapper = Stopped
  /\ alone = {} /\ replaced = {} /\ sameSecond = FALSE

Next ==
  \/ \E t \in Tasks :
       \/ Begin(t) \/ Scan(t) \/ Save(t) \/ OpenEditor(t) \/ WriteBack(t)
       \/ SetCoord(t) \/ Delete(t) \/ Truncate(t) \/ Write(t) \/ Crash(t)
       \/ InstallChecks(t) \/ InstallBacksUp(t)
       \/ StartBegins(t) \/ StartLoads(t) \/ Apply(t)
  \/ Tick \/ StopMapper

Spec == Init /\ [][Next]_vars

----------------------------------------------------------------------------
(* Properties.                                                             *)

(* A save through the store that answered, and that no other write has     *)
(* crossed, is what the store serves from then on: with several user files *)
(* for the package, after a crash left one empty, over one that does not   *)
(* load, and wherever {pkg}.toml sorts among them.                         *)
SavedIsServed ==
  \A t \in alone : op[t].kind = "save" /\ op[t].at = "done" =>
    Served = op[t].path /\ disk[Served] = op[t].text

(* "keymapper restarted" (editor.rs) means that it runs with what is       *)
(* saved: unless a write has crossed the call, a key mapper that runs      *)
(* after it runs with what the store serves, whoever else started or       *)
(* stopped it meanwhile.                                                   *)
ApplyLoadsIt ==
  \A t \in alone : op[t].kind = "apply" /\ op[t].at = "done" /\ Mapping =>
    mapper = (IF Served = NoPath THEN Absent ELSE disk[Served]).v + 1

(* No forced install loses a profile for good ("an FPS profile tuned over  *)
(* hours vanished with a single command", liw's profile.rs): what one has  *)
(* overwritten stays in a backup over the later ones. The exceptions: two  *)
(* of them in one second, which share a name, and a write that crosses an  *)
(* install.                                                                *)
BackupsLast ==
  sameSecond \/ \A v \in replaced : \E s \in DOMAIN backups : backups[s].v = v

(* No profile is lost: what was saved is served, what was there is kept.   *)
NothingSavedIsLost == SavedIsServed /\ BackupsLast
=============================================================================
