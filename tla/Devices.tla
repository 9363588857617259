------------------------------ MODULE Devices ------------------------------
(***************************************************************************)
(* Which input devices the mapper captures: what a device can do and how   *)
(* it is found again (crates/liw-input/src/capture.rs), the two ways to    *)
(* choose one, `liw keymap detect --save' (crates/liw/src/keymap.rs) and   *)
(* the launcher's settings (crates/liw-ui/src/state.rs and settings.rs),   *)
(* the configuration file (crates/liw-core/src/config.rs) and the start of *)
(* the mapper.                                                             *)
(*                                                                         *)
(* A path is a device, for a link under /dev/input/by-id, or a node, for   *)
(* eventN; a node is another device's after a reboot. Of a device, whether *)
(* it has letter keys, moves a pointer, is virtual and has a link, and its *)
(* two scores are kept. A save of the launcher is a task of its own; those *)
(* that are on their way may come in any order.                            *)
(***************************************************************************)
EXTENDS Naturals, FiniteSets, FiniteSetsExt

CONSTANTS
  Devs, Nodes,
  Letters, Movers,    \* devices with letter keys, with motion and a left button
  Virtual, Linked,    \* made by uinput, with a link under by-id
  TypingScore, PointerScore,
  NoPath,
  MaxSaves            \* bound: saves on their way

ASSUME DevicesAssumption ==
  /\ IsFiniteSet(Devs) /\ IsFiniteSet(Nodes)
  /\ \A s \in {Letters, Movers, Virtual, Linked} : s \subseteq Devs
  /\ TypingScore \in [Devs -> Nat] /\ PointerScore \in [Devs -> Nat]
  /\ NoPath \notin Devs \cup Nodes /\ Devs \cap Nodes = {}
  /\ MaxSaves \in Nat \ {0}

Roles == {"keyboard", "mouse"}
Unset == [r \in Roles |-> NoPath]

VARIABLES
  node,      \* the node of a device
  plugged,
  config,    \* the file: a path per role
  meant,     \* history: the device its author pointed at, per role
  form,      \* the launcher's copy: [path, meant]
  list,      \* its list of devices: the path it would save, per device
  saves,     \* forms on their way to the file
  restart,   \* restart_keymapper: "none", "stopping" or "waiting"
  capture,   \* the devices the running mapper reads; both NoPath: none runs
  wanted     \* history: what was meant when it started

hardware == <<node, plugged>>
settings == <<form, list, saves>>
mapper == <<capture, wanted>>
devicesVars == <<hardware, config, meant, settings, restart, mapper>>

----------------------------------------------------------------------------
(* capture.rs.                                                             *)

(* classify: Combo is both.                                                *)
CanBe(d, r) == IF r = "keyboard" THEN d \in Letters ELSE d \in Movers

(* discover.                                                               *)
Usable == {d \in plugged : d \in Letters \cup Movers}

(* Mutant of StablePath: the node is what was found.                       *)
NodePath(d) == node[d]

(* stable_path, or the node where there is no link.                        *)
StablePath(d) == IF d \in Linked THEN d ELSE node[d]

Opened(p) == {d \in plugged : d = p \/ node[d] = p}

Best(S, score) == {d \in S : \A e \in S : score[e] <= score[d]}

(* best_keyboard; on a tie the choice is arbitrary.                        *)
BestKeyboards == Best({d \in Usable \ Virtual : d \in Letters}, TypingScore)

(* verify_kind.                                                            *)
Verified(S, r) == {d \in S : CanBe(d, r)}

----------------------------------------------------------------------------
(* The mapper.                                                             *)

Running == capture["keyboard"] # NoPath
Stopped == capture' = Unset /\ wanted' = Unset

(* Handle::start and Runner::run up to its loop: without a keyboard it     *)
(* fails, without the mouse it does not.                                   *)
Started ==
  IF Running THEN UNCHANGED mapper
  ELSE LET keyboards == IF config["keyboard"] = NoPath THEN BestKeyboards
                        ELSE Opened(config["keyboard"])
           mice == Verified(Opened(config["mouse"]), "mouse")
       IN IF Verified(keyboards, "keyboard") = {} THEN UNCHANGED mapper
          ELSE /\ wanted' = meant
               /\ \E k \in Verified(keyboards, "keyboard"),
                     m \in (IF mice = {} THEN {NoPath} ELSE mice) :
                    capture' = [r \in Roles |-> IF r = "keyboard" THEN k ELSE m]

StartMapper ==
  /\ Started
  /\ UNCHANGED <<hardware, config, meant, settings, restart>>

StopMapper ==
  /\ Stopped
  /\ UNCHANGED <<hardware, config, meant, settings, restart>>

----------------------------------------------------------------------------
(* liw keymap detect --save: the candidate that sends an event first.      *)
Detect(r, d) ==
  /\ d \in Usable \ Virtual
  /\ d \in IF r = "mouse" THEN Movers ELSE Letters
  /\ config' = [config EXCEPT ![r] = StablePath(d)]
  /\ meant' = [meant EXCEPT ![r] = d]
  /\ UNCHANGED <<hardware, settings, restart, mapper>>

----------------------------------------------------------------------------
(* The launcher.                                                           *)

(* reload: the configuration and the daemon's list of devices.             *)
Reload ==
  /\ form' = [path |-> config, meant |-> meant]
  /\ list' = [d \in Devs |-> IF d \in Usable THEN StablePath(d) ELSE NoPath]
  /\ UNCHANGED <<hardware, config, meant, saves, restart, mapper>>

Listed == {d \in Devs : list[d] # NoPath}

(* edit_config: the whole form is saved.                                   *)
EditConfig(f) ==
  /\ Cardinality(saves) < MaxSaves
  /\ form' = f /\ saves' = saves \cup {f}
  /\ UNCHANGED <<hardware, config, meant, list, mapper>>

(* A form with a listed device in a role, and who it is.                   *)
Put(f, r, d) ==
  [path |-> [f.path EXCEPT ![r] = list[d]], meant |-> [f.meant EXCEPT ![r] = d]]

(* A row of the settings page.                                             *)
Choose(r, d) ==
  /\ restart = "none" /\ restart' = "stopping"
  /\ d \in Listed \ Virtual /\ CanBe(d, r)
  /\ EditConfig(Put(form, r, d))

(* autodetect_devices: the keyboard by its score alone; a role nothing was *)
(* found for stays as it is.                                               *)
Found ==
  [keyboard |-> Best({d \in Listed \ Virtual : TypingScore[d] > 0}, TypingScore),
   mouse |-> Best({d \in Listed \ Virtual : d \in Movers}, PointerScore)]

Filled(f, r) == IF Found[r] = {} THEN {f} ELSE {Put(f, r, d) : d \in Found[r]}

AutoDetect ==
  /\ restart = "none" /\ restart' = "stopping"
  /\ \E r \in Roles : Found[r] # {}
  /\ \E f \in Filled(form, "keyboard") : \E g \in Filled(f, "mouse") : EditConfig(g)

(* Another setting: the devices go with it as the form has them.           *)
ChangeOther ==
  /\ Listed # {}
  /\ EditConfig(form)
  /\ UNCHANGED restart

(* Manager::set_config; it may fail.                                       *)
Saved(f) ==
  /\ saves' = saves \ {f}
  /\ \/ config' = f.path /\ meant' = f.meant
     \/ UNCHANGED <<config, meant>>
  /\ UNCHANGED <<hardware, form, list, restart, mapper>>

RestartStops ==
  /\ restart = "stopping" /\ restart' = "waiting"
  /\ Stopped
  /\ UNCHANGED <<hardware, config, meant, settings>>

(* 300 ms later, whether the save has come or not.                         *)
RestartStarts ==
  /\ restart = "waiting" /\ restart' = "none"
  /\ Started
  /\ UNCHANGED <<hardware, config, meant, settings>>

----------------------------------------------------------------------------
(* The machine.                                                            *)

Numberings == {n \in [Devs -> Nodes] : \A d, e \in Devs : n[d] = n[e] => d = e}

(* Only the file survives a reboot.                                        *)
Renumber ==
  /\ node' \in Numberings
  /\ form' = [path |-> Unset, meant |-> Unset] /\ saves' = {}
  /\ list' = [d \in Devs |-> NoPath]
  /\ restart' = "none" /\ Stopped
  /\ UNCHANGED <<plugged, config, meant>>

(* Its stream breaks and the runner ends.                                  *)
Unplug(d) ==
  /\ d \in plugged /\ plugged' = plugged \ {d}
  /\ IF \E r \in Roles : capture[r] = d THEN Stopped ELSE UNCHANGED mapper
  /\ UNCHANGED <<node, config, meant, settings, restart>>

(* A free node is taken.                                                   *)
Plug(d) ==
  /\ d \notin plugged /\ plugged' = plugged \cup {d}
  /\ \E n \in Nodes \ {node[e] : e \in plugged} :
       node' = [e \in Devs |-> IF e = d THEN n ELSE IF node[e] = n THEN node[d] ELSE node[e]]
  /\ UNCHANGED <<config, meant, settings, restart, mapper>>

DevicesInit ==
  /\ node \in Numberings /\ plugged = Devs
  /\ config = Unset /\ meant = Unset
  /\ form = [path |-> Unset, meant |-> Unset]
  /\ list = [d \in Devs |-> NoPath] /\ saves = {}
  /\ restart = "none" /\ capture = Unset /\ wanted = Unset

DevicesNext ==
  \/ StartMapper \/ StopMapper
  \/ \E r \in Roles, d \in Devs : Detect(r, d) \/ Choose(r, d)
  \/ Reload \/ AutoDetect \/ ChangeOther
  \/ \E f \in saves : Saved(f)
  \/ RestartStops \/ RestartStarts
  \/ Renumber \/ \E d \in Devs : Plug(d) \/ Unplug(d)

DevicesSpec == DevicesInit /\ [][DevicesNext]_devicesVars

----------------------------------------------------------------------------
(* Properties.                                                             *)

(* A device with a link that was chosen, on the command line or in the     *)
(* launcher, is the one that is read, whatever reboots, replugging and old *)
(* lists came between ("eventN numbers are NOT STABLE ACROSS REBOOTS").    *)
ChosenIsRead ==
  \A r \in Roles :
    capture[r] # NoPath /\ wanted[r] \in Linked => capture[r] = wanted[r]

(* A node that belongs to another kind of device now is not read ("waiting *)
(* for keys from an audio-jack device waits forever").                     *)
RightKindIsRead ==
  \A r \in Roles : capture[r] # NoPath => CanBe(capture[r], r)

(* The key mapper reads what was chosen, and nothing that cannot be it.    *)
ReadsWhatWasChosen == ChosenIsRead /\ RightKindIsRead

(* What was detected and saved on the command line is kept until someone   *)
(* chooses another device ("the user's choice is stored permanently").     *)
ChoiceIsKept ==
  [][\A r \in Roles :
       meant'[r] # meant[r] => restart # "none" \/ \E d \in Devs : Detect(r, d)]_devicesVars
=============================================================================
