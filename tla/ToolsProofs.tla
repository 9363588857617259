----------------------------- MODULE ToolsProofs -----------------------------
(***************************************************************************)
(* The tools that read the machine, and the editor in the game's window,   *)
(* each for itself: what was chosen is what is read, for any devices,      *)
(* nodes and scores; what is on the picture is saved, for any profiles;    *)
(* what is said of the decoders, of the modules and of the clients of the  *)
(* GPU server is so, for any codecs, kernels and clocks; what is reported  *)
(* of a game's stutters happened, for any ring of frames and of log lines. *)
(***************************************************************************)
EXTENDS Devices, BindingEditor, Video, Host, Trace, FiniteSetTheorems,
        NaturalsInduction, TLAPS

Paths == Devs \cup Nodes \cup {NoPath}
Selections == [Roles -> Devs \cup {NoPath}]
Forms == [path : [Roles -> Paths], meant : Selections]

DevicesTypeInv ==
  /\ node \in [Devs -> Nodes] /\ plugged \subseteq Devs
  /\ config \in [Roles -> Paths] /\ meant \in Selections
  /\ form \in Forms /\ saves \subseteq Forms
  /\ list \in [Devs -> Paths]
  /\ capture \in Selections /\ wanted \in Selections

(* A path that was saved for a device with a link is that link.            *)
Faithful(path, author) == \A r \in Roles : author[r] \in Linked => path[r] = author[r]

SettingsAreFaithful ==
  /\ Faithful(config, meant)
  /\ Faithful(form.path, form.meant)
  /\ \A f \in saves : Faithful(f.path, f.meant)

(* The launcher's list has the links of the devices that have one.         *)
ListHasLinks == \A d \in Linked : list[d] \in {d, NoPath}

DevicesInv == DevicesTypeInv /\ SettingsAreFaithful /\ ListHasLinks /\ ReadsWhatWasChosen

----------------------------------------------------------------------------
LEMMA UnsetIsNothing ==
  /\ Unset \in Selections /\ Unset \in [Roles -> Paths]
  /\ Faithful(Unset, Unset)
  /\ \A r \in Roles : Unset[r] = NoPath
BY DevicesAssumption DEF Unset, Selections, Paths, Faithful

LEMMA InitDevices == DevicesInit => DevicesInv
<1> SUFFICES ASSUME DevicesInit PROVE DevicesInv
  OBVIOUS
<1>1. DevicesTypeInv
  BY UnsetIsNothing DEF DevicesInit, Numberings, DevicesTypeInv, Forms, Paths
<1>2. SettingsAreFaithful /\ ListHasLinks
  BY UnsetIsNothing, DevicesAssumption DEF DevicesInit, SettingsAreFaithful, ListHasLinks
<1>3. ReadsWhatWasChosen
  BY UnsetIsNothing DEF DevicesInit, ReadsWhatWasChosen, ChosenIsRead, RightKindIsRead
<1> QED BY <1>1, <1>2, <1>3 DEF DevicesInv

(* What a path opens: a link only its own device, and nothing nobody.      *)
LEMMA OpenedIsPlugged ==
  ASSUME DevicesTypeInv, NEW p
  PROVE  Opened(p) \subseteq Devs
BY DEF DevicesTypeInv, Opened

LEMMA LinkOpensItsDevice ==
  ASSUME DevicesTypeInv, NEW d \in Devs
  PROVE  Opened(d) \subseteq {d}
BY DevicesAssumption DEF DevicesTypeInv, Opened

(* A form with one more device put in stays a faithful form.               *)
LEMMA PutIsFaithful ==
  ASSUME DevicesTypeInv, ListHasLinks, NEW f \in Forms, Faithful(f.path, f.meant),
         NEW r \in Roles, NEW d \in Listed
  PROVE  Put(f, r, d) \in Forms /\ Faithful(Put(f, r, d).path, Put(f, r, d).meant)
<1>1. d \in Devs /\ list[d] \in Paths /\ (d \in Linked => list[d] = d)
  BY DEF Listed, DevicesTypeInv, ListHasLinks
<1>2. Put(f, r, d) \in Forms
  BY <1>1 DEF Put, Forms, Selections
<1>3. /\ Put(f, r, d).path = [f.path EXCEPT ![r] = list[d]]
      /\ Put(f, r, d).meant = [f.meant EXCEPT ![r] = d]
  BY DEF Put
<1>4. ASSUME NEW q \in Roles, Put(f, r, d).meant[q] \in Linked
      PROVE  Put(f, r, d).path[q] = Put(f, r, d).meant[q]
  <2>1. f.path \in [Roles -> Paths] /\ f.meant \in Selections
    BY DEF Forms
  <2>2. CASE q = r
    BY <1>1, <1>3, <1>4, <2>1, <2>2 DEF Selections
  <2>3. CASE q # r
    BY <1>3, <1>4, <2>1, <2>3 DEF Selections, Faithful
  <2> QED BY <2>2, <2>3
<1> QED BY <1>2, <1>4 DEF Faithful

LEMMA FoundIsListed ==
  ASSUME NEW r \in Roles
  PROVE  Found[r] \subseteq Listed
BY DEF Found, Best, Roles

LEMMA FilledIsFaithful ==
  ASSUME DevicesTypeInv, ListHasLinks, NEW f \in Forms, Faithful(f.path, f.meant),
         NEW r \in Roles, NEW g \in Filled(f, r)
  PROVE  g \in Forms /\ Faithful(g.path, g.meant)
<1>1. g = f \/ \E d \in Listed : g = Put(f, r, d)
  BY FoundIsListed DEF Filled
<1> QED BY <1>1, PutIsFaithful

(* Saving a faithful form.                                                 *)
LEMMA EditStep ==
  ASSUME DevicesInv, NEW f \in Forms, Faithful(f.path, f.meant), EditConfig(f)
  PROVE  DevicesInv'
<1>1. UNCHANGED <<node, plugged, config, meant, list, capture, wanted>>
      /\ form' = f /\ saves' = saves \cup {f}
  BY DEF EditConfig, hardware, mapper
<1>2. DevicesTypeInv'
  BY <1>1 DEF DevicesInv, DevicesTypeInv
<1>3. SettingsAreFaithful' /\ ListHasLinks'
  BY <1>1 DEF DevicesInv, SettingsAreFaithful, ListHasLinks, Faithful
<1>4. ReadsWhatWasChosen'
  BY <1>1 DEF DevicesInv, ReadsWhatWasChosen, ChosenIsRead, RightKindIsRead, CanBe
<1> QED BY <1>2, <1>3, <1>4 DEF DevicesInv

(* A mapper that starts, stops or goes on reads what it should.            *)
LEMMA StartReadsChosen ==
  ASSUME DevicesInv, Started
  PROVE  /\ capture' \in Selections /\ wanted' \in Selections
         /\ ReadsWhatWasChosen'
<1> DEFINE keyboards == IF config["keyboard"] = NoPath THEN BestKeyboards
                        ELSE Opened(config["keyboard"])
           mice == Verified(Opened(config["mouse"]), "mouse")
<1>1. CASE UNCHANGED mapper
  BY <1>1 DEF mapper, DevicesInv, DevicesTypeInv, ReadsWhatWasChosen, ChosenIsRead, RightKindIsRead, CanBe
<1>2. CASE ~UNCHANGED mapper
  <2>1. /\ wanted' = meant
        /\ \E k \in Verified(keyboards, "keyboard"),
              m \in (IF mice = {} THEN {NoPath} ELSE mice) :
             capture' = [r \in Roles |-> IF r = "keyboard" THEN k ELSE m]
    BY <1>2 DEF Started
  <2>2. PICK k \in Verified(keyboards, "keyboard"),
             m \in (IF mice = {} THEN {NoPath} ELSE mice) :
               capture' = [r \in Roles |-> IF r = "keyboard" THEN k ELSE m]
    BY <2>1
  <2>3. BestKeyboards \subseteq Devs
    BY DEF BestKeyboards, Best, Usable, DevicesInv, DevicesTypeInv
  <2>4. k \in Devs /\ CanBe(k, "keyboard")
    BY <2>3, OpenedIsPlugged DEF Verified, DevicesInv
  <2>5. m = NoPath \/ (m \in Devs /\ CanBe(m, "mouse"))
    BY OpenedIsPlugged DEF Verified, DevicesInv
  <2>6. capture' \in Selections /\ wanted' \in Selections
    BY <2>1, <2>2, <2>4, <2>5 DEF Selections, DevicesInv, DevicesTypeInv
  <2>7. capture'["keyboard"] = k /\ capture'["mouse"] = m
    BY <2>2 DEF Roles
  <2>8. RightKindIsRead'
    <3>1. \A r \in Roles : capture'[r] # NoPath => CanBe(capture'[r], r)
      BY <2>4, <2>5, <2>7 DEF Roles
    <3> QED BY <3>1 DEF RightKindIsRead, CanBe
  <2>9. ChosenIsRead'
    <3>1. \A r \in Roles : meant[r] \in Linked => config[r] = meant[r] /\ meant[r] \in Devs
      BY DevicesAssumption DEF DevicesInv, SettingsAreFaithful, Faithful
    <3>2. meant["keyboard"] \in Linked => k = meant["keyboard"]
      <4> SUFFICES ASSUME meant["keyboard"] \in Linked PROVE k = meant["keyboard"]
        OBVIOUS
      <4>1. config["keyboard"] = meant["keyboard"] /\ meant["keyboard"] \in Devs
        BY <3>1 DEF Roles
      <4>2. keyboards = Opened(meant["keyboard"])
        BY <4>1, DevicesAssumption
      <4> QED BY <4>1, <4>2, LinkOpensItsDevice DEF Verified, DevicesInv
    <3>3. meant["mouse"] \in Linked /\ m # NoPath => m = meant["mouse"]
      <4> SUFFICES ASSUME meant["mouse"] \in Linked, m # NoPath PROVE m = meant["mouse"]
        OBVIOUS
      <4>1. config["mouse"] = meant["mouse"] /\ meant["mouse"] \in Devs
        BY <3>1 DEF Roles
      <4> QED BY <4>1, LinkOpensItsDevice DEF Verified, DevicesInv
    <3>4. \A r \in Roles : capture'[r] # NoPath /\ meant[r] \in Linked => capture'[r] = meant[r]
      BY <2>7, <3>2, <3>3 DEF Roles
    <3> QED BY <2>1, <3>4 DEF ChosenIsRead
  <2> QED BY <2>6, <2>8, <2>9 DEF ReadsWhatWasChosen
<1> QED BY <1>1, <1>2

LEMMA StopReadsNothing ==
  ASSUME Stopped
  PROVE  capture' \in Selections /\ wanted' \in Selections /\ ReadsWhatWasChosen'
<1>1. capture' = Unset /\ wanted' = Unset
  BY DEF Stopped
<1>2. ChosenIsRead'
  BY <1>1, UnsetIsNothing DEF ChosenIsRead
<1>3. RightKindIsRead'
  BY <1>1, UnsetIsNothing DEF RightKindIsRead
<1> QED BY <1>1, <1>2, <1>3, UnsetIsNothing DEF ReadsWhatWasChosen

(* A step that leaves the settings alone keeps them faithful.              *)
LEMMA SettingsStay ==
  ASSUME DevicesInv, UNCHANGED <<config, meant, form, list, saves>>,
         node' \in [Devs -> Nodes], plugged' \subseteq Devs,
         capture' \in Selections, wanted' \in Selections, ReadsWhatWasChosen'
  PROVE  DevicesInv'
<1>1. DevicesTypeInv'
  BY DEF DevicesInv, DevicesTypeInv
<1>2. SettingsAreFaithful' /\ ListHasLinks'
  BY DEF DevicesInv, SettingsAreFaithful, ListHasLinks, Faithful
<1> QED BY <1>1, <1>2 DEF DevicesInv

LEMMA MapperStays ==
  ASSUME DevicesInv, UNCHANGED mapper
  PROVE  capture' \in Selections /\ wanted' \in Selections /\ ReadsWhatWasChosen'
BY DEF mapper, DevicesInv, DevicesTypeInv, ReadsWhatWasChosen, ChosenIsRead, RightKindIsRead, CanBe

----------------------------------------------------------------------------
LEMMA DetectStep ==
  ASSUME DevicesInv, NEW r \in Roles, NEW d \in Devs, Detect(r, d)
  PROVE  DevicesInv'
<1>1. /\ UNCHANGED <<node, plugged, form, list, saves>> /\ UNCHANGED mapper
      /\ config' = [config EXCEPT ![r] = StablePath(d)]
      /\ meant' = [meant EXCEPT ![r] = d]
  BY DEF Detect, hardware, settings
<1>2. StablePath(d) \in Paths /\ (d \in Linked => StablePath(d) = d)
  BY DEF StablePath, DevicesInv, DevicesTypeInv, Paths
<1>3. DevicesTypeInv'
  BY <1>1, <1>2, MapperStays DEF DevicesInv, DevicesTypeInv, Selections
<1>4. Faithful(config', meant')
  <2> SUFFICES ASSUME NEW q \in Roles, meant'[q] \in Linked PROVE config'[q] = meant'[q]
    BY DEF Faithful
  <2>1. CASE q = r
    BY <1>1, <1>2, <2>1 DEF DevicesInv, DevicesTypeInv, Selections
  <2>2. CASE q # r
    BY <1>1, <2>2 DEF DevicesInv, DevicesTypeInv, Selections, SettingsAreFaithful, Faithful
  <2> QED BY <2>1, <2>2
<1>5. SettingsAreFaithful' /\ ListHasLinks'
  BY <1>1, <1>4 DEF DevicesInv, SettingsAreFaithful, ListHasLinks, Faithful
<1> QED BY <1>1, <1>3, <1>5, MapperStays DEF DevicesInv

LEMMA ReloadStep ==
  ASSUME DevicesInv, Reload
  PROVE  DevicesInv'
<1>1. /\ UNCHANGED <<node, plugged, config, meant, saves>> /\ UNCHANGED mapper
      /\ form' = [path |-> config, meant |-> meant]
      /\ list' = [d \in Devs |-> IF d \in Usable THEN StablePath(d) ELSE NoPath]
  BY DEF Reload, hardware
<1>2. \A d \in Devs : StablePath(d) \in Paths /\ (d \in Linked => StablePath(d) = d)
  BY DEF StablePath, DevicesInv, DevicesTypeInv, Paths
<1>3. DevicesTypeInv'
  BY <1>1, <1>2, MapperStays DEF DevicesInv, DevicesTypeInv, Forms, Paths
<1>4. SettingsAreFaithful'
  BY <1>1 DEF DevicesInv, SettingsAreFaithful, Faithful
<1>5. ListHasLinks'
  BY <1>1, <1>2, DevicesAssumption DEF ListHasLinks
<1> QED BY <1>1, <1>3, <1>4, <1>5, MapperStays DEF DevicesInv

LEMMA SavedStep ==
  ASSUME DevicesInv, NEW f \in saves, Saved(f)
  PROVE  DevicesInv'
<1>1. /\ UNCHANGED <<node, plugged, form, list>> /\ UNCHANGED mapper
      /\ saves' \subseteq saves
      /\ \/ config' = f.path /\ meant' = f.meant
         \/ UNCHANGED <<config, meant>>
  BY DEF Saved, hardware
<1>2. f \in Forms /\ Faithful(f.path, f.meant)
  BY DEF DevicesInv, DevicesTypeInv, SettingsAreFaithful
<1>3. config' \in [Roles -> Paths] /\ meant' \in Selections
  BY <1>1, <1>2 DEF DevicesInv, DevicesTypeInv, Forms
<1>4. DevicesTypeInv'
  BY <1>1, <1>3, MapperStays DEF DevicesInv, DevicesTypeInv
<1>5. Faithful(config', meant')
  BY <1>1, <1>2 DEF DevicesInv, SettingsAreFaithful
<1>6. SettingsAreFaithful' /\ ListHasLinks'
  BY <1>1, <1>5 DEF DevicesInv, SettingsAreFaithful, ListHasLinks
<1> QED BY <1>1, <1>4, <1>6, MapperStays DEF DevicesInv

LEMMA RenumberStep ==
  ASSUME DevicesInv, Renumber
  PROVE  DevicesInv'
<1>1. /\ node' \in [Devs -> Nodes] /\ UNCHANGED <<plugged, config, meant>>
      /\ form' = [path |-> Unset, meant |-> Unset] /\ saves' = {}
      /\ list' = [d \in Devs |-> NoPath] /\ Stopped
  BY DEF Renumber, Numberings
<1>2. DevicesTypeInv'
  BY <1>1, UnsetIsNothing, StopReadsNothing DEF DevicesInv, DevicesTypeInv, Forms, Paths
<1>3. SettingsAreFaithful' /\ ListHasLinks'
  BY <1>1, UnsetIsNothing, DevicesAssumption DEF DevicesInv, SettingsAreFaithful, ListHasLinks
<1> QED BY <1>1, <1>2, <1>3, StopReadsNothing DEF DevicesInv

LEMMA PlugStep ==
  ASSUME DevicesInv, NEW d \in Devs, Plug(d)
  PROVE  DevicesInv'
<1>1. PICK n \in Nodes : node' = [e \in Devs |-> IF e = d THEN n
                                                 ELSE IF node[e] = n THEN node[d] ELSE node[e]]
  BY DEF Plug
<1>2. node' \in [Devs -> Nodes] /\ plugged' \subseteq Devs
  BY <1>1 DEF Plug, DevicesInv, DevicesTypeInv
<1>3. UNCHANGED <<config, meant, form, list, saves>> /\ UNCHANGED mapper
  BY DEF Plug, settings
<1> QED BY <1>2, <1>3, MapperStays, SettingsStay

LEMMA UnplugStep ==
  ASSUME DevicesInv, NEW d \in Devs, Unplug(d)
  PROVE  DevicesInv'
<1>1. node' \in [Devs -> Nodes] /\ plugged' \subseteq Devs
  BY DEF Unplug, DevicesInv, DevicesTypeInv
<1>2. UNCHANGED <<config, meant, form, list, saves>> /\ (Stopped \/ UNCHANGED mapper)
  BY DEF Unplug, settings
<1> QED BY <1>1, <1>2, MapperStays, StopReadsNothing, SettingsStay

LEMMA MapperStep ==
  ASSUME DevicesInv, StartMapper \/ StopMapper \/ RestartStops \/ RestartStarts
  PROVE  DevicesInv'
<1>1. /\ UNCHANGED <<node, plugged, config, meant, form, list, saves>>
      /\ Started \/ Stopped
  BY DEF StartMapper, StopMapper, RestartStops, RestartStarts, hardware, settings
<1>2. node' \in [Devs -> Nodes] /\ plugged' \subseteq Devs
  BY <1>1 DEF DevicesInv, DevicesTypeInv
<1> QED BY <1>1, <1>2, StartReadsChosen, StopReadsNothing, SettingsStay

LEMMA FormIsFaithful ==
  ASSUME DevicesInv
  PROVE  form \in Forms /\ Faithful(form.path, form.meant)
BY DEF DevicesInv, DevicesTypeInv, SettingsAreFaithful

(* The launcher's three ways to save.                                      *)
LEMMA LauncherStep ==
  ASSUME DevicesInv, ChangeOther \/ AutoDetect \/ \E r \in Roles, d \in Devs : Choose(r, d)
  PROVE  DevicesInv'
<1>1. CASE ChangeOther
  BY <1>1, FormIsFaithful, EditStep DEF ChangeOther
<1>2. CASE AutoDetect
  <2>1. PICK f \in Filled(form, "keyboard") : \E g \in Filled(f, "mouse") : EditConfig(g)
    BY <1>2 DEF AutoDetect
  <2>2. PICK g \in Filled(f, "mouse") : EditConfig(g)
    BY <2>1
  <2>3. f \in Forms /\ Faithful(f.path, f.meant)
    BY FormIsFaithful, FilledIsFaithful DEF DevicesInv, Roles
  <2>4. g \in Forms /\ Faithful(g.path, g.meant)
    BY <2>3, FilledIsFaithful DEF DevicesInv, Roles
  <2> QED BY <2>2, <2>4, EditStep
<1>3. ASSUME NEW r \in Roles, NEW d \in Devs, Choose(r, d)
      PROVE  DevicesInv'
  <2>1. d \in Listed /\ EditConfig(Put(form, r, d))
    BY <1>3 DEF Choose
  <2>2. Put(form, r, d) \in Forms /\ Faithful(Put(form, r, d).path, Put(form, r, d).meant)
    BY <2>1, FormIsFaithful, PutIsFaithful DEF DevicesInv
  <2> QED BY <2>1, <2>2, EditStep
<1> QED BY <1>1, <1>2, <1>3

(* The inductive invariant of the choice of devices: what the file, the    *)
(* list and the form say is what was meant when they were written or read. *)
THEOREM DevicesInvariant == DevicesSpec => []DevicesInv
<1>1. DevicesInv /\ [DevicesNext]_devicesVars => DevicesInv'
  <2> SUFFICES ASSUME DevicesInv, [DevicesNext]_devicesVars PROVE DevicesInv'
    OBVIOUS
  <2>1. CASE UNCHANGED devicesVars
    <3>1. UNCHANGED <<node, plugged, config, meant, form, list, saves>> /\ UNCHANGED mapper
      BY <2>1 DEF devicesVars, hardware, settings
    <3>2. node' \in [Devs -> Nodes] /\ plugged' \subseteq Devs
      BY <3>1 DEF DevicesInv, DevicesTypeInv
    <3> QED BY <3>1, <3>2, MapperStays, SettingsStay
  <2> QED BY <2>1, MapperStep, DetectStep, LauncherStep, ReloadStep, SavedStep, RenumberStep,
             PlugStep, UnplugStep DEF DevicesNext
<1> QED BY <1>1, InitDevices, PTL DEF DevicesSpec

(* A device with a link that was chosen is the one that is read, and       *)
(* nothing is read that cannot be a keyboard, or a mouse.                  *)
THEOREM ChoiceIsRead == DevicesSpec => []ReadsWhatWasChosen
<1>1. DevicesInv => ReadsWhatWasChosen
  BY DEF DevicesInv
<1> QED BY <1>1, DevicesInvariant, PTL

----------------------------------------------------------------------------
(* The editor in the game's window.                                        *)

(* A profile holds controls.                                               *)
OfControls(p) == p \in [DOMAIN p -> Controls]

EditorInv ==
  /\ OfControls(profile) /\ OfControls(served)
  /\ EditorIsTrue

(* The empty profile holds none, and a new control lacks a key.            *)
LEMMA EditorConstants ==
  /\ OfControls(Nothing)
  /\ \A p \in Authored \cup {Nothing} : OfControls(p)
  /\ \A kind \in {"button", "joystick", "aim"} :
       /\ NewControl(kind) \in Controls
       /\ kind # "aim" => Missing(NewControl(kind))
<1>1. OfControls(Nothing)
  BY DEF OfControls, Nothing
<1>2. ASSUME NEW kind \in {"button", "joystick", "aim"}
      PROVE  /\ NewControl(kind) \in Controls
             /\ kind # "aim" => Missing(NewControl(kind))
  <2>1. ASSUME NEW n \in Nat \ {0}
        PROVE  Unbound(n) \in Seq(TriggerKeys \cup {Blank}) /\ Blank \in ToSet(Unbound(n))
    <3>1. Unbound(n) \in Seq(TriggerKeys \cup {Blank}) /\ DOMAIN Unbound(n) = 1 .. n
      BY DEF Unbound
    <3>2. Unbound(n)[1] = Blank /\ 1 \in DOMAIN Unbound(n)
      BY DEF Unbound
    <3> QED BY <3>1, <3>2 DEF ToSet
  <2>2. NewControl(kind).keys = CASE kind = "button" -> Unbound(1)
              [] kind = "joystick" -> Unbound(Len(Directions))
              [] kind = "aim" -> <<>>
    BY DEF NewControl
  <2>3. NewControl(kind).keys \in Seq(TriggerKeys \cup {Blank})
        /\ (kind # "aim" => Blank \in ToSet(NewControl(kind).keys))
    <3>1. CASE kind = "button"
      BY <2>1, <2>2, <3>1
    <3>2. CASE kind = "joystick"
      BY <2>1, <2>2, <3>2, EditorAssumption
    <3>3. CASE kind = "aim"
      BY <2>2, <3>3
    <3> QED BY <3>1, <3>2, <3>3
  <2>4. NewControl(kind) = [kind |-> kind, at |-> 0, radius |-> 0, keys |-> NewControl(kind).keys]
    BY DEF NewControl
  <2>5. 0 \in 0 .. Span
    BY EditorAssumption
  <2> HIDE DEF NewControl
  <2> QED BY <2>3, <2>4, <2>5 DEF Controls, Missing
<1> QED BY <1>1, <1>2, EditorAssumption DEF OfControls

(* Nothing is edited at first.                                             *)
LEMMA InitEditor == EditorInit => EditorInv
BY EditorConstants DEF EditorInit, EditorInv, EditorIsTrue, SavedIsOnThePicture, WaitsForAKey

(* An edit of the selected control, which is still said to lack a key only *)
(* if it does.                                                             *)
LEMMA EditStepOfControl ==
  ASSUME EditorInv, Selected, NEW c \in Controls, Changes(WithSelected(c)),
         selected' = selected, binding' => Missing(c)
  PROVE  EditorInv'
<1>1. /\ profile' = [profile EXCEPT ![selected] = c]
      /\ saved' = FALSE /\ UNCHANGED <<editing, served>>
      /\ selected \in DOMAIN profile /\ editing /\ OfControls(profile) /\ OfControls(served)
  BY DEF Changes, WithSelected, Selected, EditorInv
<1>2. DOMAIN profile' = DOMAIN profile /\ profile'[selected] = c /\ OfControls(profile)'
  BY <1>1 DEF OfControls
<1>3. OfControls(served)'
  BY <1>1 DEF OfControls
<1> QED BY <1>1, <1>2, <1>3 DEF EditorInv, EditorIsTrue, SavedIsOnThePicture, WaitsForAKey, Selected

(* A key for a control is one of its keys.                                 *)
LEMMA BoundIsControl ==
  ASSUME NEW c \in Controls, NEW k \in TriggerKeys
  PROVE  Bound(c, k) \in Controls /\ Bound(c, k).kind = c.kind
<1>1. c.keys \in Seq(TriggerKeys \cup {Blank}) /\ <<k>> \in Seq(TriggerKeys \cup {Blank})
  BY DEF Controls
<1>2. ASSUME NEW i PROVE [c.keys EXCEPT ![i] = k] \in Seq(TriggerKeys \cup {Blank})
  <2> DEFINE keys == c.keys
             n == Len(keys)
  <2>1. n \in Nat /\ keys \in [1 .. n -> TriggerKeys \cup {Blank}]
    BY <1>1
  <2> HIDE DEF keys, n
  <2>2. [keys EXCEPT ![i] = k] \in [1 .. n -> TriggerKeys \cup {Blank}]
    BY <2>1
  <2>3. [keys EXCEPT ![i] = k] \in Seq(TriggerKeys \cup {Blank})
    BY <2>1, <2>2
  <2> QED BY <2>3 DEF keys
<1> DEFINE i == SelectInSeq(c.keys, LAMBDA t : t = Blank)
<1>3. Bound(c, k) \in {c, [c EXCEPT !.keys = <<k>>], [c EXCEPT !.keys = [@ EXCEPT ![i] = k]]}
  BY DEF Bound
<1> HIDE DEF i
<1> QED BY <1>1, <1>2, <1>3 DEF Controls

(* Every step of its user, of a save, and of others.                       *)
LEMMA EditorStep == EditorInv /\ [EditorNext]_editorVars => EditorInv'
<1> SUFFICES ASSUME EditorInv, [EditorNext]_editorVars PROVE EditorInv'
  OBVIOUS
<1>1. /\ OfControls(profile) /\ OfControls(served)
      /\ SavedIsOnThePicture /\ WaitsForAKey
      /\ Selected => profile[selected] \in Controls
  BY DEF EditorInv, EditorIsTrue, Selected, OfControls
<1>2. CASE BeginEdit \/ EndEdit \/ Escape \/ \E n \in DOMAIN profile : SelectControl(n)
  BY <1>1, <1>2, EditorConstants
     DEF BeginEdit, EndEdit, Escape, SelectControl, EditorInv, OfControls, EditorIsTrue,
         SavedIsOnThePicture, WaitsForAKey
<1>3. ASSUME NEW kind \in {"button", "joystick", "aim"}, Place(kind)
      PROVE  EditorInv'
  <2>1. PICK n \in 1 .. MaxControls :
          /\ Changes([m \in DOMAIN profile \cup {n} |->
                     IF m = n THEN NewControl(kind) ELSE profile[m]])
          /\ selected' = n
    BY <1>3 DEF Place
  <2>2. /\ profile' = [m \in DOMAIN profile \cup {n} |->
                     IF m = n THEN NewControl(kind) ELSE profile[m]]
        /\ saved' = FALSE /\ editing' /\ UNCHANGED served
        /\ binding' = (kind # "aim")
    BY <1>3, <2>1 DEF Place, Changes
  <2>3. /\ n \in DOMAIN profile' /\ profile'[n] = NewControl(kind)
        /\ OfControls(profile)' /\ OfControls(served)'
    BY <1>1, <2>2, EditorConstants DEF OfControls
  <2>4. binding' => Missing(profile'[selected'])
    BY <2>1, <2>2, <2>3, EditorConstants
  <2> QED BY <2>1, <2>2, <2>3, <2>4
          DEF EditorInv, EditorIsTrue, SavedIsOnThePicture, WaitsForAKey, Selected
<1>4. ASSUME NEW k \in TriggerKeys, TakeKey(k)
      PROVE  EditorInv'
  <2> DEFINE c == Bound(profile[selected], k)
  <2>1. /\ Selected /\ c \in Controls /\ Changes(WithSelected(c)) /\ selected' = selected
    BY <1>1, <1>4, BoundIsControl DEF TakeKey
  <2>2. binding' => Missing(profile'[selected])
    BY <1>4 DEF TakeKey
  <2>3. profile'[selected] = c
    BY <1>1, <2>1 DEF Changes, WithSelected, Selected, OfControls
  <2> HIDE DEF c
  <2> QED BY <2>1, <2>2, <2>3, EditStepOfControl
<1>5. CASE Nudge
  <2>1. PICK to \in 0 .. Span : Changes(WithSelected([profile[selected] EXCEPT !.at = to]))
    BY <1>5 DEF Nudge
  <2> DEFINE c == [profile[selected] EXCEPT !.at = to]
  <2>2. c \in Controls /\ c.keys = profile[selected].keys
    BY <1>1, <1>5 DEF Nudge, Controls
  <2>3. binding' => Missing(c)
    BY <1>1, <1>5, <2>2 DEF Nudge, WaitsForAKey, Missing
  <2> QED BY <1>5, <2>1, <2>2, <2>3, EditStepOfControl DEF Nudge
<1>6. CASE Resize
  <2>1. PICK to \in 0 .. Span : Changes(WithSelected([profile[selected] EXCEPT !.radius = to]))
    BY <1>6 DEF Resize
  <2> DEFINE c == [profile[selected] EXCEPT !.radius = to]
  <2>2. c \in Controls /\ c.keys = profile[selected].keys
    BY <1>1, <1>6 DEF Resize, Controls
  <2>3. binding' => Missing(c)
    BY <1>1, <1>6, <2>2 DEF Resize, WaitsForAKey, Missing
  <2> QED BY <1>6, <2>1, <2>2, <2>3, EditStepOfControl DEF Resize
<1>7. CASE RemoveSelected
  <2>1. /\ profile' = [m \in DOMAIN profile \ {selected} |-> profile[m]]
        /\ saved' = FALSE /\ binding' = FALSE /\ UNCHANGED served
    BY <1>7 DEF RemoveSelected, Changes
  <2> QED BY <1>1, <2>1 DEF EditorInv, OfControls, EditorIsTrue, SavedIsOnThePicture, WaitsForAKey
<1>8. CASE SaveEdit
  <2>1. OfControls(served)'
    <3>1. served' \in {served, profile} \cup Authored \cup {Nothing}
      BY <1>8 DEF SaveEdit
    <3>2. \A p \in {served, profile} \cup Authored \cup {Nothing} : OfControls(p)
      BY <1>1, EditorConstants
    <3> QED BY <3>1, <3>2 DEF OfControls
  <2>2. SavedIsOnThePicture'
    BY <1>8 DEF SaveEdit, SavedIsOnThePicture
  <2>3. OfControls(profile)' /\ WaitsForAKey'
    BY <1>1, <1>8 DEF SaveEdit, OfControls, WaitsForAKey, Selected, Missing
  <2> QED BY <2>1, <2>2, <2>3 DEF EditorInv, EditorIsTrue
<1>9. CASE OthersSave
  BY <1>1, <1>9, EditorConstants
     DEF OthersSave, shown, EditorInv, OfControls, EditorIsTrue, SavedIsOnThePicture,
         WaitsForAKey, Selected, Missing
<1>10. CASE UNCHANGED editorVars
  BY <1>1, <1>10
     DEF editorVars, shown, EditorInv, OfControls, EditorIsTrue, SavedIsOnThePicture,
         WaitsForAKey, Selected, Missing
<1> QED BY <1>2, <1>3, <1>4, <1>5, <1>6, <1>7, <1>8, <1>9, <1>10 DEF EditorNext

(* The editor's two words are true: after "Saved." (Mapper::save), and as  *)
(* long as nobody else has saved, the store serves what is on the picture; *)
(* and "press a key..." (Mapper::take_key) is only said of a control that  *)
(* lacks one. For any keys, profiles of others and number of controls.     *)
THEOREM EditorHolds == EditorSpec => []EditorIsTrue
<1>1. EditorInv => EditorIsTrue
  BY DEF EditorInv
<1> QED BY <1>1, InitEditor, EditorStep, PTL DEF EditorSpec

----------------------------------------------------------------------------
(* `liw video'.                                                            *)

(* Capabilities are known from a clip that was tried.                      *)
Capable(h) == h.measured => ran /\ h.mimes = ok

(* If nothing was unreadable, what was read is what the files that need not *)
(* be read any more declare.                                               *)
ReadSoFar ==
  ~unread =>
    /\ pc = "list" => hub = Includes /\ codecs = InFile("hub")
    /\ pc = "files" => toRead \subseteq Includes \cup {"apex"}
                      /\ codecs = {c \in Declared : c.file \notin toRead}
    /\ pc \in {"probe", "diagnose", "compare", "done"} => codecs = Declared
    /\ pc \in {"files", "probe", "diagnose", "compare", "done"} =>
         missing = Includes \ image.files

(* What was read is declared, what was measured was tried, and the         *)
(* diagnosis is made of both.                                              *)
VideoInv ==
  /\ image.codecs \subseteq Codecs /\ image.files \subseteq Includes
  /\ codecs \subseteq image.codecs /\ ReadSoFar
  /\ registered \subseteq Declared
  /\ pc \in {"source", "hub", "list", "files", "probe", "diagnose", "compare", "done"}
  /\ pc \notin {"diagnose", "done"} => ~caps.measured
  /\ caps.measured \/ caps.mimes = {}
  /\ ok \subseteq machine.hw /\ (ran => machine.ffmpeg)
  /\ Capable(caps)
  /\ findings # {} => pc = "done" /\ findings = Diagnose(source, codecs, caps, missing)
  /\ command = "verify" /\ pc = "done" =>
       shortfall = Shortfall(codecs, registered, ccodec) /\ dead = Unplayable(codecs, registered)
  /\ command = "verify" => pc \notin {"probe", "diagnose"}

(* The losses of a verify, each for its reason.                            *)
LEMMA ShortfallExplains ==
  ASSUME NEW declared, NEW live, NEW cc
  PROVE  LET s == Shortfall(declared, live, cc)
         IN  /\ declared \ live = s.gated \cup s.codec2Off \cup s.unexplained
             /\ s.gated \cap (s.codec2Off \cup s.unexplained) = {}
             /\ s.codec2Off # {} => cc = "0" /\ \A c \in s.codec2Off : c.family = "c2"
<1> DEFINE gone == declared \ live
           rest == {c \in gone : ~c.gated}
           off  == rest # {} /\ (\A c \in rest : c.family = "c2") /\ cc = "0"
<1>1. Shortfall(declared, live, cc) =
        [gated |-> gone \ rest, codec2Off |-> IF off THEN rest ELSE {},
         unexplained |-> IF off THEN {} ELSE rest]
  BY DEF Shortfall
<1>2. rest \subseteq gone
  OBVIOUS
<1>3. CASE off
  BY <1>1, <1>2, <1>3
<1>4. CASE ~off
  <2> HIDE DEF off
  <2> QED BY <1>1, <1>2, <1>4
<1> QED BY <1>3, <1>4

(* The formats called dead are those with a declared decoder and none that *)
(* registered.                                                             *)
LEMMA UnplayableIsDead ==
  ASSUME NEW declared, NEW live, live \subseteq declared
  PROVE  {d.mime : d \in Unplayable(declared, live)} = GuestFormats(declared) \ GuestFormats(live)
<1> DEFINE formats == GuestFormats(declared) \ GuestFormats(live)
<1>1. declared \cap live = live
  OBVIOUS
<1>2. Unplayable(declared, live) =
        {[mime |-> m, gated |-> \A c \in Decoders(declared) : c.mime = m => c.gated] : m \in formats}
  BY <1>1 DEF Unplayable
<1> HIDE DEF formats
<1>3. \A d \in Unplayable(declared, live) : d.mime \in formats
  BY <1>2
<1>4. ASSUME NEW m \in formats PROVE \E d \in Unplayable(declared, live) : d.mime = m
  <2> DEFINE d == [mime |-> m, gated |-> \A c \in Decoders(declared) : c.mime = m => c.gated]
  <2>1. d \in Unplayable(declared, live) /\ d.mime = m
    BY <1>2
  <2> QED BY <2>1
<1> QED BY <1>3, <1>4 DEF formats

(* What the diagnosis makes of what it is given.                           *)
LEMMA DiagnoseClaims ==
  ASSUME NEW src, NEW cs, NEW h, NEW lost, NEW f \in Diagnose(src, cs, h, lost)
  PROVE  /\ f.severity \in {"gap", "noLever"} =>
              f.about \in GuestFormats(cs) /\ ~InHardware(cs, f.about) /\ h.measured
         /\ f.severity = "gap" => f.about \in h.mimes
         /\ f.severity = "noLever" => f.about \notin h.mimes
         /\ f.severity = "hostOnly" => f.about \in h.mimes \ GuestFormats(cs)
         /\ f.severity = "broken" => f.about \in lost
<1>1. CASE \E g \in lost : f = [about |-> g, severity |-> "broken"]
  BY <1>1
<1>2. CASE \E m \in h.mimes \ GuestFormats(cs) : f = [about |-> m, severity |-> "hostOnly"]
  BY <1>2
<1>3. CASE f.severity = "undetermined"
  BY <1>3
<1>4. CASE \E m \in GuestFormats(cs) :
             f = [about |-> m, severity |-> IF InHardware(cs, m) THEN "ok" ELSE Severity(h, m)]
  <2>1. PICK m \in GuestFormats(cs) :
          f = [about |-> m, severity |-> IF InHardware(cs, m) THEN "ok" ELSE Severity(h, m)]
    BY <1>4
  <2>2. CASE InHardware(cs, m)
    BY <2>1, <2>2
  <2>3. CASE ~InHardware(cs, m)
    BY <2>1, <2>3 DEF Severity
  <2> QED BY <2>2, <2>3
<1> QED BY <1>1, <1>2, <1>3, <1>4 DEF Diagnose

(* Nothing is read, measured or told at first.                             *)
LEMMA InitVideo == VideoInit => VideoInv
BY DEF VideoInit, VideoInv, Capable, Unknown, ReadSoFar, Declared

(* The files still to be read are those that hold what is not known yet.   *)
LEMMA ReadingCompletes ==
  ASSUME VideoInv, ReadHub \/ ListDir \/ ReadFile
  PROVE  ReadSoFar'
<1>1. /\ image.files \subseteq Includes /\ {"hub", "apex"} \cap Includes = {}
      /\ image' = image /\ machine' = machine /\ mounted' = mounted /\ ReadSoFar
  BY VideoAssumption DEF VideoInv, ReadHub, ListDir, ReadFile
<1>2. Declared' = Declared
  BY <1>1 DEF Declared, Present
<1>3. CASE ReadHub
  BY <1>1, <1>3 DEF ReadHub, ReadSoFar, InFile
<1>4. CASE ListDir
  <2>1. SUFFICES ASSUME ~unread' PROVE ReadSoFar'
    BY DEF ReadSoFar
  <2>2. /\ hub = Includes /\ codecs = InFile("hub") /\ codecs' = codecs /\ pc' = "files"
        /\ toRead' = Includes \cup {"apex"} /\ missing' = Includes \ image.files
    BY <1>1, <1>4, <2>1 DEF ListDir, ReadSoFar
  <2>3. codecs' = {c \in Declared' : c.file \notin toRead'}
    <3>1. codecs = {c \in Declared : c.file \notin Includes \cup {"apex"}}
      BY <1>1, <2>2 DEF InFile, Declared, Present
    <3> QED BY <1>2, <2>2, <3>1, Zenon
  <2>4. missing' = (Includes \ image.files)' /\ toRead' \subseteq Includes \cup {"apex"}
    BY <1>1, <2>2
  <2> QED BY <2>2, <2>3, <2>4 DEF ReadSoFar
<1>5. CASE ReadFile
  <2>1. SUFFICES ASSUME ~unread' PROVE ReadSoFar'
    BY DEF ReadSoFar
  <2>2. PICK f \in toRead :
          /\ toRead' = toRead \ {f}
          /\ codecs' = codecs \cup (IF Readable /\ f \in Present THEN InFile(f) ELSE {})
          /\ unread' = (unread \/ (f \in Present /\ ~Readable))
          /\ pc' = IF toRead' # {} THEN "files"
                   ELSE IF command = "status" THEN "probe" ELSE "compare"
    BY <1>5 DEF ReadFile
  <2>3. /\ toRead \subseteq Includes \cup {"apex"} /\ codecs = {c \in Declared : c.file \notin toRead}
        /\ missing = Includes \ image.files /\ missing' = missing
    BY <1>1, <1>5, <2>1, <2>2 DEF ReadFile, ReadSoFar
  <2>4. codecs' = {c \in Declared : c.file \notin toRead'}
    <3>1. CASE f \in Present
      <4>1. codecs' = codecs \cup InFile(f)
        BY <2>1, <2>2, <3>1
      <4>2. InFile(f) = {c \in Declared : c.file = f}
        BY <3>1 DEF InFile, Declared
      <4> QED BY <2>2, <2>3, <4>1, <4>2
    <3>2. CASE f \notin Present
      <4>1. codecs' = codecs /\ \A c \in Declared : c.file # f
        BY <2>2, <3>2 DEF Declared
      <4> QED BY <2>2, <2>3, <4>1
    <3> QED BY <3>1, <3>2
  <2>5. toRead' = {} => codecs' = Declared
    BY <2>4
  <2>6. toRead' \subseteq Includes \cup {"apex"}
    BY <2>2, <2>3
  <2>7. pc' \in {"files", "probe", "compare"} /\ (pc' # "files" => toRead' = {})
    BY <2>2
  <2> QED BY <1>1, <1>2, <2>3, <2>4, <2>5, <2>6, <2>7 DEF ReadSoFar
<1> QED BY <1>3, <1>4, <1>5

(* The session, and the reading of the guest.                              *)
LEMMA ReadingStep ==
  ASSUME VideoInv, Flip \/ GuestSource \/ ReadHub \/ ListDir \/ ReadFile
  PROVE  VideoInv'
<1>1. /\ UNCHANGED <<image, machine, command, host, result>>
      /\ pc # "done" /\ pc' # "done"
      /\ pc' \in {"probe", "diagnose"} => pc \in {"probe", "diagnose"} \/ command = "status"
  BY DEF Flip, GuestSource, ReadHub, ListDir, ReadFile, guest
<1>2. codecs' \subseteq image.codecs
  <2>1. \A f : InFile(f) \subseteq image.codecs
    BY DEF InFile
  <2> QED BY <2>1 DEF VideoInv, Flip, GuestSource, ReadHub, ListDir, ReadFile, guest
<1>3. /\ pc' \in {"source", "hub", "list", "files", "probe", "diagnose", "compare"}
      /\ pc' = "diagnose" \/ ~caps'.measured
  <2>1. UNCHANGED caps
    BY <1>1 DEF host
  <2> QED BY <2>1 DEF VideoInv, Flip, GuestSource, ReadHub, ListDir, ReadFile
<1>4. Declared' = Declared
  BY <1>1 DEF Declared, Present
<1>5. ReadSoFar'
  <2>1. CASE Flip
    BY <1>4, <2>1 DEF VideoInv, Flip, guest, ReadSoFar, InFile
  <2>2. CASE GuestSource
    BY <2>2 DEF GuestSource, ReadSoFar
  <2> QED BY <2>1, <2>2, ReadingCompletes
<1> QED BY <1>1, <1>2, <1>3, <1>4, <1>5 DEF VideoInv, Capable, host, result

(* The measuring of the host.                                              *)
LEMMA ProbingStep ==
  ASSUME VideoInv, NoProbe \/ ProbeClip \/ ProbeDone
  PROVE  VideoInv'
<1>1. /\ UNCHANGED <<image, machine, command, guest, result>>
      /\ pc = "probe" /\ pc' \in {"probe", "diagnose"}
  BY DEF NoProbe, ProbeClip, ProbeDone
<1>2. ok' \subseteq machine.hw /\ (ran' => machine.ffmpeg)
  BY DEF VideoInv, NoProbe, ProbeClip, ProbeDone
<1>3. /\ Capable(caps)' /\ (pc' # "diagnose" => ~caps'.measured)
      /\ caps'.measured \/ caps'.mimes = {}
  <2>1. ~caps.measured
    BY <1>1 DEF VideoInv
  <2> QED BY <2>1 DEF VideoInv, NoProbe, ProbeClip, ProbeDone, Capable, Unknown, Measured
<1>4. findings = {} /\ command # "verify"
  BY <1>1 DEF VideoInv
<1>5. Declared' = Declared
  BY <1>1 DEF Declared, Present
<1>6. ReadSoFar'
  BY <1>1, <1>5 DEF VideoInv, ReadSoFar, guest
<1> QED BY <1>1, <1>2, <1>3, <1>4, <1>5, <1>6 DEF VideoInv, guest, result

(* What is told is told of what was read and measured.                     *)
LEMMA TellingStep ==
  ASSUME VideoInv, ReportStatus \/ Verify
  PROVE  VideoInv'
<1>1. /\ UNCHANGED <<image, machine, command, guest, host>> /\ pc' = "done"
      /\ pc \in {"diagnose", "compare"}
  BY DEF ReportStatus, Verify
<1>2. Declared' = Declared
  BY <1>1 DEF Declared, Present
<1>3. ReadSoFar'
  BY <1>1, <1>2 DEF VideoInv, ReadSoFar, guest
<1>4. registered' \subseteq Declared
  BY DEF VideoInv, ReportStatus, Verify
<1>5. CASE ReportStatus
  BY <1>1, <1>2, <1>3, <1>4, <1>5 DEF ReportStatus, VideoInv, Capable, guest, host
<1>6. CASE Verify
  BY <1>1, <1>2, <1>3, <1>4, <1>6 DEF Verify, VideoInv, Capable, guest, host
<1> QED BY <1>5, <1>6

(* What `liw video' tells (diagnose, explain_shortfall and unplayable), for *)
(* any declarations, files and clips, and however the session came and went *)
(* meanwhile: of the host only what was measured, though "no lever" needs   *)
(* only some clip tried, not the format's; of the guest what is so, as long *)
(* as every file that is there could be read; and each loss for a reason.   *)
THEOREM VideoHolds == VideoSpec => []VideoIsTrue
<1>1. VideoInv /\ [VideoNext]_videoVars => VideoInv'
  <2>1. VideoInv /\ UNCHANGED videoVars => VideoInv'
    BY DEF videoVars, guest, host, result, VideoInv, Capable, ReadSoFar, Declared, Present, InFile
  <2> QED BY <2>1, ReadingStep, ProbingStep, TellingStep DEF VideoNext
<1>2. VideoInv => VideoIsTrue
  <2> SUFFICES ASSUME VideoInv PROVE VideoIsTrue
    OBVIOUS
  <2>1. ASSUME NEW f \in findings
        PROVE  /\ pc = "done" /\ (~unread => codecs = Declared /\ missing = Includes \ image.files)
               /\ f.severity \in {"gap", "noLever"} =>
                    f.about \in GuestFormats(codecs) /\ ~InHardware(codecs, f.about) /\ caps.measured
               /\ f.severity = "gap" => f.about \in caps.mimes
               /\ f.severity = "noLever" => f.about \notin caps.mimes
               /\ f.severity = "hostOnly" => f.about \in caps.mimes \ GuestFormats(codecs)
               /\ f.severity = "broken" => f.about \in missing
    <3>1. pc = "done" /\ f \in Diagnose(source, codecs, caps, missing)
      BY DEF VideoInv
    <3>2. ~unread => codecs = Declared /\ missing = Includes \ image.files
      BY <3>1 DEF VideoInv, ReadSoFar
    <3> QED BY <3>1, <3>2, DiagnoseClaims
  <2>2. /\ ok \subseteq machine.hw /\ (ran => machine.ffmpeg)
        /\ caps.measured => ran /\ caps.mimes = ok
    BY DEF VideoInv, Capable
  <2>3. caps.mimes = {} \/ caps.measured
    BY DEF VideoInv
  <2>4. GuestFormats(codecs) \subseteq GuestFormats(image.codecs)
    BY DEF VideoInv, GuestFormats, Decoders
  <2>5. NoClaimWithoutMeasure
    BY <2>1, <2>2, <2>3, <2>4 DEF NoClaimWithoutMeasure
  <2>6. GuestAsItIs
    BY <2>1 DEF GuestAsItIs
  <2>7. LossesExplainedOnce
    <3> SUFFICES ASSUME command = "verify", pc = "done" PROVE LossesExplainedOnce
      BY DEF LossesExplainedOnce
    <3>1. shortfall = Shortfall(codecs, registered, ccodec) /\ dead = Unplayable(codecs, registered)
      BY DEF VideoInv
    <3>2. ~unread => codecs = Declared
      BY DEF VideoInv, ReadSoFar
    <3>3. ~unread =>
            {d.mime : d \in dead} = GuestFormats(Declared) \ GuestFormats(registered)
      BY <3>1, <3>2, UnplayableIsDead DEF VideoInv
    <3>4. /\ codecs \ registered =
               shortfall.gated \cup shortfall.codec2Off \cup shortfall.unexplained
          /\ shortfall.gated \cap (shortfall.codec2Off \cup shortfall.unexplained) = {}
          /\ shortfall.codec2Off # {} =>
               ccodec = "0" /\ \A c \in shortfall.codec2Off : c.family = "c2"
      BY <3>1, ShortfallExplains
    <3> QED BY <3>3, <3>4 DEF LossesExplainedOnce
  <2> QED BY <2>5, <2>6, <2>7 DEF VideoIsTrue
<1> QED BY <1>1, <1>2, InitVideo, PTL DEF VideoSpec

----------------------------------------------------------------------------
(* The kernel's modules and the clients of the GPU server.                 *)

HostTypeInv ==
  /\ clock \in 0 .. MaxClock /\ flinger \in 0 .. Nobody /\ clients \subseteq 0 .. MaxClock
  /\ asked \in [age : 0 .. MaxClock, at : 0 .. Nobody, told : BOOLEAN]

(* `liw perf' has looked at SurfaceFlinger not longer ago than a gap, and  *)
(* the session that runs now is not older than what it was told, if it was *)
(* told.                                                                   *)
AgeIsTrue ==
  asked # NotAsked =>
    /\ asked.at <= clock /\ clock <= asked.at + MaxGap
    /\ flinger # Nobody /\ asked.told => asked.at <= flinger + asked.age

HostInv ==
  /\ HostTypeInv /\ AgeIsTrue
  /\ flinger # Nobody => flinger <= clock
  /\ MissingIsMissing

(* The bounds are numbers.                                                 *)
LEMMA HostConstants ==
  /\ MaxClock \in Nat /\ MaxGap \in Nat /\ Margin \in Nat /\ CheckEvery \in Nat \ {0}
  /\ Nobody = MaxClock + 1 /\ NotAsked \in [age : 0 .. MaxClock, at : 0 .. Nobody, told : BOOLEAN]
BY HostAssumption DEF Nobody, NotAsked

(* No session runs at first, and nothing was looked at.                    *)
LEMMA InitHost == HostInit => HostInv
BY HostConstants DEF HostInit, HostInv, HostTypeInv, AgeIsTrue, MissingIsMissing

(* A module that was missing stays so as long as its state is kept: what   *)
(* is loaded was one that the kernel ships.                                *)
LEMMA ModulesStep ==
  ASSUME MissingIsMissing,
         \/ KernelNext
         \/ UNCHANGED <<kernel, loaded, report>>
  PROVE  MissingIsMissing'
<1>1. ASSUME NEW m \in Modules, Load(m) PROVE MissingIsMissing'
  BY <1>1 DEF Load, ModuleState, MissingIsMissing
<1>2. ASSUME NEW m \in Modules, LookAt(m) PROVE MissingIsMissing'
  <2>1. /\ UNCHANGED <<kernel, loaded>>
        /\ report' = [n \in DOMAIN report \cup {m} |-> IF n = m THEN ModuleState(m) ELSE report[n]]
    BY <1>2 DEF LookAt, kernelVars
  <2>2. ModuleState(m) = "missing" => m \notin Ships[kernel] \cup BuiltIn \cup loaded
    BY DEF ModuleState
  <2> QED BY <2>1, <2>2 DEF MissingIsMissing
<1>3. CASE Reported \/ Reboot
  BY <1>3 DEF Reported, Reboot, MissingIsMissing
<1>4. CASE UNCHANGED <<kernel, loaded, report>>
  BY <1>4 DEF MissingIsMissing
<1>5. ASSUME NEW k \in Kernels, RemoveTree(k) \/ UnpackTree(k) \/ WriteIndex(k)
      PROVE  UNCHANGED <<kernel, loaded, report>>
  BY <1>5 DEF RemoveTree, UnpackTree, WriteIndex
<1>6. CASE Tick
  BY <1>4, <1>6 DEF Tick, kernelVars
<1> QED BY <1>1, <1>2, <1>3, <1>4, <1>5, <1>6 DEF KernelNext

(* What is not the session's leaves it, and the look at it, alone; a       *)
(* reboot ends both.                                                       *)
LEMMA KernelStep == HostInv /\ KernelNext => HostInv'
<1> SUFFICES ASSUME HostInv, KernelNext PROVE HostInv'
  OBVIOUS
<1>1. MissingIsMissing'
  BY ModulesStep DEF HostInv
<1>2. \/ UNCHANGED <<clock, flinger, clients, asked>>
      \/ clock' = 0 /\ flinger' = Nobody /\ clients' = {} /\ asked' = NotAsked
  BY DEF KernelNext, RemoveTree, UnpackTree, WriteIndex, Load, LookAt, Reported, Reboot, Tick,
         sessionVars, perfVars
<1>3. CASE UNCHANGED <<clock, flinger, clients, asked>>
  BY <1>1, <1>3 DEF HostInv, HostTypeInv, AgeIsTrue
<1>4. CASE clock' = 0 /\ flinger' = Nobody /\ clients' = {} /\ asked' = NotAsked
  <2>1. HostTypeInv'
    BY <1>4, HostConstants DEF HostTypeInv
  <2> QED BY <1>1, <1>4, <2>1 DEF HostInv, AgeIsTrue
<1> QED BY <1>2, <1>3, <1>4

(* The session comes and goes, `liw perf' looks.                           *)
LEMMA SessionStep == HostInv /\ SessionNext => HostInv'
<1> SUFFICES ASSUME HostInv, SessionNext PROVE HostInv'
  OBVIOUS
<1>1. MissingIsMissing'
  <2>1. UNCHANGED <<kernel, loaded, report>>
    BY DEF SessionNext, Pass, SessionStarts, ClientStarts, SessionEnds, AskAge, AskClients, kernelVars
  <2> QED BY <2>1, ModulesStep DEF HostInv
<1>2. /\ clock \in 0 .. MaxClock /\ flinger \in 0 .. Nobody /\ clients \subseteq 0 .. MaxClock
      /\ asked \in [age : 0 .. MaxClock, at : 0 .. Nobody, told : BOOLEAN]
      /\ asked.age \in 0 .. MaxClock /\ asked.at \in 0 .. Nobody
      /\ flinger # Nobody => flinger <= clock
      /\ AgeIsTrue
  BY DEF HostInv, HostTypeInv
<1>3. CASE Pass
  BY <1>1, <1>2, <1>3, HostConstants
     DEF Pass, HostInv, HostTypeInv, AgeIsTrue, sessionVars, perfVars
<1>4. CASE SessionStarts
  BY <1>1, <1>2, <1>4, HostConstants
     DEF SessionStarts, HostInv, HostTypeInv, AgeIsTrue, sessionVars, perfVars
<1>5. CASE ClientStarts \/ SessionEnds
  <2>1. /\ UNCHANGED <<clock, asked>> /\ flinger' \in {flinger, Nobody}
        /\ clients' \subseteq clients \cup {clock}
    BY <1>5 DEF ClientStarts, SessionEnds, perfVars
  <2>2. HostTypeInv'
    BY <1>2, <2>1, HostConstants DEF HostTypeInv
  <2> QED BY <1>1, <1>2, <2>1, <2>2 DEF HostInv, AgeIsTrue
<1>6. CASE AskAge
  <2>0. PICK told \in BOOLEAN :
          asked' = [age |-> IF flinger = Nobody \/ ~told THEN 0 ELSE clock - flinger,
                    at |-> clock, told |-> told]
    BY <1>6 DEF AskAge
  <2> DEFINE age == IF flinger = Nobody \/ ~told THEN 0 ELSE clock - flinger
  <2>1. asked' = [age |-> age, at |-> clock, told |-> told] /\ UNCHANGED <<clock, flinger, clients>>
    BY <1>6, <2>0 DEF AskAge, sessionVars
  <2>2. age \in 0 .. MaxClock /\ (flinger # Nobody /\ told => flinger + age = clock)
    BY <1>2, HostConstants
  <2> HIDE DEF age
  <2>3. asked'.age = age /\ asked'.at = clock /\ asked'.told = told
    BY <2>1
  <2> QED BY <1>1, <1>2, <2>1, <2>2, <2>3, HostConstants DEF HostInv, HostTypeInv, AgeIsTrue
<1>7. CASE AskClients
  BY <1>1, <1>2, <1>7, HostConstants
     DEF AskClients, HostInv, HostTypeInv, AgeIsTrue, sessionVars
<1> QED BY <1>3, <1>4, <1>5, <1>6, <1>7 DEF SessionNext

(* The host's invariant.                                                   *)
LEMMA HostInvariant == HostSpec => []HostInv
<1>1. HostInv /\ UNCHANGED hostVars => HostInv'
  <2> SUFFICES ASSUME HostInv, UNCHANGED hostVars PROVE HostInv'
    OBVIOUS
  <2>1. /\ UNCHANGED <<kernel, loaded, report>>
        /\ UNCHANGED <<clock, flinger, clients, asked>>
    BY DEF hostVars, kernelVars, sessionVars, perfVars
  <2>2. MissingIsMissing'
    BY <2>1, ModulesStep DEF HostInv
  <2> QED BY <2>1, <2>2 DEF HostInv, HostTypeInv, AgeIsTrue
<1>2. HostInv /\ [HostNext]_hostVars => HostInv'
  BY <1>1, KernelStep, SessionStep DEF HostNext
<1> QED BY <1>2, InitHost, PTL DEF HostSpec

(* The host is accused of what is so, and once, if `liw perf' needs no     *)
(* longer between its two looks than the margin that it allows for, and if *)
(* it was told the session's age:                                          *)
(* KernelWatch tells a removal once, module_state calls no module missing  *)
(* that can be used, and orphan_clients takes no client of the running     *)
(* session for one left over.                                              *)
THEOREM HostHolds ==
  ASSUME MaxGap <= Margin
  PROVE  HostSpec => HostNotAccused
<1>1. HostInv /\ [HostNext]_hostVars =>
        [said # "warning" /\ said' = "warning" => watch # "stale"]_hostVars
  <2> SUFFICES ASSUME HostNext, said # "warning", said' = "warning" PROVE watch # "stale"
    OBVIOUS
  <2>1. CASE Tick
    BY <2>1 DEF Tick, Poll
  <2>2. CASE ~Tick
    <3>1. said' \in {said, "nothing"}
      BY <2>2 DEF HostNext, KernelNext, SessionNext, RemoveTree, UnpackTree, WriteIndex, Load, LookAt,
         Reported, Reboot, Pass, SessionStarts, ClientStarts, SessionEnds, AskAge, AskClients, daemonVars
    <3> QED BY <3>1
  <2> QED BY <2>1, <2>2
<1>2. HostInv /\ [HostNext]_hostVars =>
        [asked # NotAsked /\ asked.told /\ asked' = NotAsked =>
           \A b \in accused' : flinger = Nobody \/ b < flinger]_perfVars
  <2> SUFFICES ASSUME HostInv, [HostNext]_hostVars, perfVars' # perfVars,
                      asked # NotAsked, asked.told, asked' = NotAsked,
                      NEW b \in accused', flinger # Nobody
               PROVE  b < flinger
    OBVIOUS
  <2>1. HostNext
    BY DEF hostVars, perfVars
  <2>2. AskClients
    <3>1. CASE AskAge
      <4>1. asked'.at = clock /\ clock # Nobody
        BY <3>1, HostConstants DEF AskAge, HostInv, HostTypeInv
      <4> QED BY <4>1 DEF NotAsked
    <3>2. CASE Reboot
      BY <3>2 DEF Reboot
    <3> QED BY <2>1, <3>1, <3>2
         DEF HostNext, KernelNext, SessionNext, RemoveTree, UnpackTree, WriteIndex, Load, LookAt,
             Reported, Tick, Pass, SessionStarts, ClientStarts, SessionEnds
  <2>3. /\ b \in clients /\ clock - b > asked.age + Margin /\ asked # NotAsked
    BY <2>2 DEF AskClients, Orphans
  <2>4. /\ b \in Nat /\ clock \in Nat /\ flinger \in Nat /\ asked.age \in Nat /\ asked.at \in Nat
        /\ clock <= asked.at + MaxGap /\ asked.at <= flinger + asked.age
    BY <2>3, HostConstants DEF HostInv, HostTypeInv, AgeIsTrue
  <2> QED BY <2>3, <2>4, HostConstants
<1>3. HostInv => MissingIsMissing
  BY DEF HostInv
<1> QED BY <1>1, <1>2, <1>3, HostInvariant, PTL DEF HostSpec, HostNotAccused, ToldOnce, LiveNotAccused

----------------------------------------------------------------------------
(* `liw trace`.  The interval of the sampler leaves room for its being     *)
(* late: no more frames come between two samples than the ring holds.      *)
LeavesRoom == SampleEvery + MaxLate <= BufFrames

Lines == [t : Int, kind : Kinds]
Readings == [t : Int, kind : Kinds, of : Lines]
Told == [start : Nat, end : Nat, log : SUBSET Readings]

TraceTypeInv ==
  /\ now \in 0..MaxTime /\ frames \subseteq 0..now /\ log \subseteq Lines
  /\ frameDue \in Nat /\ missed \in BOOLEAN /\ seen \subseteq frames
  /\ lastSeen \in Int /\ lastAt \in 0..now
  /\ inStall \in BOOLEAN /\ stalls \in Seq(Told)

(* The sampler is no more than MaxLate behind, and never ahead.            *)
TicksOnTime == frameDue <= now + SampleEvery /\ now <= frameDue + MaxLate

(* last_seen is the latest of the frames seen.                             *)
LastIsLatest ==
  IF seen = {} THEN lastSeen = -1
  ELSE lastSeen \in seen /\ \A f \in seen : f <= lastSeen

(* A gap is one between a frame and the next.                              *)
GapsAreGaps ==
  \A f \in DOMAIN gaps :
    /\ gaps[f] \in Nat \ {0} /\ {f, f + gaps[f]} \subseteq frames
    /\ \A g \in frames : ~(f < g /\ g < f + gaps[f])

(* Every frame that was there a period before the next tick is seen.       *)
OldAreSeen == ~missed => \A f \in frames : f <= frameDue - SampleEvery => f \in seen

(* A frame that the ring still holds and that was seen with a later one    *)
(* has its gap counted.                                                    *)
RecentGapsKept == \A f \in Snapshot(frames) : f < lastSeen => f \in DOMAIN gaps

(* A frame was first seen soon after it was presented.                     *)
SeenSoon ==
  ~missed /\ lastSeen >= 0 =>
    lastSeen <= lastAt /\ lastAt < lastSeen + SampleEvery + MaxLate

(* While no freeze is told, the last sample found none.                    *)
QuietIsShort == ~missed /\ ~inStall => frameDue - SampleEvery <= lastAt + StallAfter

(* The freeze being told is the last one, and began with the silence.      *)
LastIsOpen == inStall => Len(stalls) > 0 /\ stalls[Len(stalls)].start = lastAt

(* A reading of a line of the log that the tool can tell, at its time give *)
(* or take what the wall clock is off.                                     *)
IsReading(e) ==
  /\ e \in Readings /\ e.of \in log /\ e.kind = e.of.kind /\ e.kind \in DOMAIN Weight
  /\ e.of.t - Off <= e.t /\ e.t <= e.of.t + Off

(* The sink's keys are readings of lines of the log, each kept once.       *)
SinkIsLog ==
  /\ fellBack \in BOOLEAN
  /\ DOMAIN sink.times = sink.keys /\ \A e \in sink.keys : IsReading(e)
  /\ \A e \in sink.keys : sink.times[e] = 1

SamplerInv == TraceTypeInv /\ TicksOnTime /\ LastIsLatest /\ GapsAreGaps /\ OldAreSeen
           /\ NothingLost /\ RecentGapsKept

TraceInv ==
  /\ SamplerInv /\ SeenSoon /\ QuietIsShort /\ LastIsOpen /\ LongFreezeTold /\ SinkIsLog

(* The sampling period is a number of refreshes, at least one.             *)
LEMMA PeriodIsPositive == SampleEvery \in Nat \ {0}
BY TraceAssumption DEF SampleEvery, Clamp

(* The next multiple of the period comes after now, within a period.       *)
LEMMA NextTickIsNear ==
  ASSUME NEW t \in Nat, now = t
  PROVE  /\ NextTick(SampleEvery) \in Nat
         /\ t < NextTick(SampleEvery) /\ NextTick(SampleEvery) <= t + SampleEvery
<1> DEFINE p == SampleEvery
           q == t \div p
<1>1. p \in Nat \ {0}
  BY PeriodIsPositive
<1> HIDE DEF p
<1>2. q \in Nat /\ p * q <= t /\ t < p * q + p
  BY <1>1, SMTT(30)
<1> HIDE DEF q
<1>3. p * (q + 1) = p * q + p
  BY <1>1, <1>2
<1>4. p * q \in Nat
  BY <1>1, <1>2
<1>5. NextTick(p) = p * (q + 1)
  BY DEF NextTick, q
<1> QED BY <1>1, <1>2, <1>3, <1>4, <1>5 DEF p

(* The order of the naturals.                                              *)
Below == {x \in Nat \X Nat : x[1] < x[2]}

(* A set of numbers from a bound on has a least one.                       *)
LEMMA LeastNumber ==
  ASSUME NEW S, NEW lo \in Int, \A i \in S : i \in Int /\ lo <= i, S # {}
  PROVE  \E i \in S : \A j \in S : i <= j
<1> DEFINE T == {i - lo : i \in S}
<1>1. T \subseteq Nat /\ T # {}
  OBVIOUS
<1>2. IsWellFoundedOn(Below, Nat)
  BY NatLessThanWellFounded DEF OpToRel, Below
<1>3. PICK a \in T : \A b \in T : ~(<<b, a>> \in Below)
  BY <1>1, <1>2, WFMin
<1>4. PICK i \in S : a = i - lo
  BY <1>3
<1>5. ASSUME NEW j \in S PROVE i <= j
  <2>1. j - lo \in T /\ j - lo \in Nat /\ a \in Nat
    BY <1>1, <1>3
  <2>2. ~(<<j - lo, a>> \in Below)
    BY <1>3, <2>1
  <2>3. ~(j - lo < a)
    BY <2>1, <2>2 DEF Below
  <2> QED BY <1>4, <2>1, <2>3
<1> QED BY <1>5

(* A set of numbers up to a bound has a greatest one.                      *)
LEMMA GreatestNumber ==
  ASSUME NEW S, NEW hi \in Int, \A i \in S : i \in Int /\ i <= hi, S # {}
  PROVE  \E i \in S : \A j \in S : j <= i
<1> DEFINE T == {0 - i : i \in S}
<1>1. PICK a \in T : \A b \in T : a <= b
  <2>1. T # {} /\ \A x \in T : x \in Int /\ 0 - hi <= x
    OBVIOUS
  <2> HIDE DEF T
  <2> QED BY <2>1, LeastNumber
<1>2. PICK i \in S : a = 0 - i
  BY <1>1
<1>3. ASSUME NEW j \in S PROVE j <= i
  <2>1. a <= 0 - j
    <3>1. 0 - j \in T
      OBVIOUS
    <3> HIDE DEF T
    <3> QED BY <1>1, <3>1
  <2>2. i \in Int /\ j \in Int
    OBVIOUS
  <2> QED BY <1>2, <2>1, <2>2
<1> QED BY <1>3

----------------------------------------------------------------------------
(* The frames later than one of a finite set.                              *)
LEMMA LaterIsFinite ==
  ASSUME NEW n \in Nat, NEW fs \in SUBSET (0..n), NEW f \in Int
  PROVE  /\ IsFiniteSet(fs) /\ IsFiniteSet({g \in fs : g > f})
         /\ Cardinality({g \in fs : g > f}) \in Nat
<1>1. IsFiniteSet(fs)
  <2>1. IsFiniteSet(0..n)
    BY FS_Interval
  <2> QED BY <2>1, FS_Subset
<1>2. IsFiniteSet({g \in fs : g > f})
  BY <1>1, FS_Subset
<1> QED BY <1>1, <1>2, FS_CardinalityType

(* A snapshot leaves out no frame later than one it has.                   *)
LEMMA SnapshotIsTheEnd ==
  ASSUME NEW n \in Nat, NEW fs \in SUBSET (0..n),
         NEW f \in Snapshot(fs), NEW g \in fs, f < g
  PROVE  g \in Snapshot(fs)
<1> DEFINE Later(x) == {h \in fs : h > x}
<1>1. f \in Int /\ g \in Int
  BY DEF Snapshot
<1>2. Later(g) \in SUBSET Later(f)
  <2>1. ASSUME NEW h \in fs, h > g PROVE h > f
    BY <1>1, <2>1
  <2> QED BY <2>1
<1>3. IsFiniteSet(Later(f)) /\ Cardinality(Later(f)) \in Nat /\ Cardinality(Later(g)) \in Nat
  BY <1>1, LaterIsFinite
<1>4. Cardinality(Later(g)) <= Cardinality(Later(f))
  BY <1>2, <1>3, FS_Subset
<1>5. Cardinality(Later(f)) < BufFrames
  BY DEF Snapshot
<1>6. BufFrames \in Nat
  BY TraceAssumption
<1>7. Cardinality(Later(g)) < BufFrames
  BY <1>3, <1>4, <1>5, <1>6
<1> QED BY <1>7 DEF Snapshot

(* It has the frames of the last BufFrames refreshes.                      *)
LEMMA SnapshotReachesBack ==
  ASSUME NEW n \in Nat, NEW fs \in SUBSET (0..n), NEW f \in fs, n - f < BufFrames
  PROVE  f \in Snapshot(fs)
<1> DEFINE Later == {h \in fs : h > f}
<1>1. f \in Int /\ f <= n /\ BufFrames \in Nat
  BY TraceAssumption
<1>2. Later \in SUBSET ((f + 1)..n)
  <2>1. ASSUME NEW h \in fs, h > f PROVE h \in (f + 1)..n
    BY <1>1, <2>1
  <2> QED BY <2>1
<1>3. IsFiniteSet((f + 1)..n) /\ Cardinality((f + 1)..n) = IF f + 1 > n THEN 0 ELSE n - (f + 1) + 1
  BY <1>1, FS_Interval
<1>4. Cardinality(Later) <= Cardinality((f + 1)..n)
  BY <1>2, <1>3, FS_Subset
<1>5. Cardinality(Later) \in Nat
  BY <1>1, LaterIsFinite
<1>6. Cardinality(Later) < BufFrames
  BY <1>1, <1>3, <1>4, <1>5
<1> QED BY <1>6 DEF Snapshot

(* It has the last frame there is.                                         *)
LEMMA SnapshotHasTheLast ==
  ASSUME NEW n \in Nat, NEW fs \in SUBSET (0..n), NEW f \in fs, \A g \in fs : g <= f
  PROVE  f \in Snapshot(fs)
<1>1. {h \in fs : h > f} = {}
  <2>1. ASSUME NEW h \in fs PROVE ~(h > f)
    OBVIOUS
  <2> QED BY <2>1
<1> QED BY <1>1, FS_EmptySet, TraceAssumption DEF Snapshot

(* A frame that leaves it does not come back.                              *)
LEMMA SnapshotForgets ==
  ASSUME NEW n \in Nat, NEW fs \in SUBSET (0..n), NEW gs \in SUBSET (0..n), fs \subseteq gs,
         NEW f \in fs, f \in Snapshot(gs)
  PROVE  f \in Snapshot(fs)
<1> DEFINE Later(s) == {h \in s : h > f}
<1>1. f \in Int /\ BufFrames \in Nat
  BY TraceAssumption
<1>2. Later(fs) \in SUBSET Later(gs)
  OBVIOUS
<1>3. IsFiniteSet(Later(gs)) /\ Cardinality(Later(gs)) \in Nat /\ Cardinality(Later(fs)) \in Nat
  BY <1>1, LaterIsFinite
<1>4. Cardinality(Later(fs)) <= Cardinality(Later(gs))
  BY <1>2, <1>3, FS_Subset
<1>5. Cardinality(Later(gs)) < BufFrames
  BY DEF Snapshot
<1>6. Cardinality(Later(fs)) < BufFrames
  BY <1>1, <1>3, <1>4, <1>5
<1> QED BY <1>6 DEF Snapshot

(* The frame after one, in a snapshot, is the next one there is.           *)
LEMMA NextIsNext ==
  ASSUME NEW n \in Nat, NEW fs \in SUBSET (0..n), NEW f \in Starts(Snapshot(fs))
  PROVE  /\ f \in fs /\ NextIn(Snapshot(fs), f) \in fs
         /\ NextIn(Snapshot(fs), f) \in Snapshot(fs)
         /\ f < NextIn(Snapshot(fs), f)
         /\ \A g \in fs : f < g => NextIn(Snapshot(fs), f) <= g
<1> DEFINE after == {g \in Snapshot(fs) : g > f}
<1>1. f \in Snapshot(fs) /\ after # {} /\ \A i \in after : i \in Int /\ 0 <= i
  BY DEF Starts, Snapshot
<1>2. \E i \in after : \A j \in after : i <= j
  <2> HIDE DEF after
  <2> QED BY <1>1, LeastNumber
<1>3. \E g \in Snapshot(fs) : g > f /\ \A h \in Snapshot(fs) : h > f => g <= h
  BY <1>2
<1>4. /\ NextIn(Snapshot(fs), f) \in Snapshot(fs) /\ NextIn(Snapshot(fs), f) > f
      /\ \A h \in Snapshot(fs) : h > f => NextIn(Snapshot(fs), f) <= h
  BY <1>3 DEF NextIn
<1>5. ASSUME NEW g \in fs, f < g PROVE NextIn(Snapshot(fs), f) <= g
  BY <1>1, <1>4, <1>5, SnapshotIsTheEnd
<1>6. Snapshot(fs) \subseteq fs
  BY DEF Snapshot
<1> QED BY <1>1, <1>4, <1>5, <1>6

----------------------------------------------------------------------------
(* A sample that could be read: last_seen is the last frame there is, and  *)
(* every gap counted is one between a frame and the next.                  *)
LEMMA TickSees ==
  ASSUME TraceTypeInv, LastIsLatest, FrameTick
  PROVE  /\ seen' = seen \cup Snapshot(frames) /\ seen' \subseteq frames
         /\ lastSeen' \in Int /\ lastSeen <= lastSeen'
         /\ IF frames = {} THEN lastSeen' = -1
            ELSE /\ lastSeen' \in frames /\ \A f \in frames : f <= lastSeen'
                 /\ lastSeen' \in Snapshot(frames)
<1> DEFINE all == seen \cup Snapshot(frames)
<1>1. seen' = all /\ lastSeen' = IF all = {} THEN -1 ELSE CHOOSE f \in all : \A g \in all : g <= f
  BY DEF FrameTick
<1>2. seen \subseteq frames /\ frames \in SUBSET (0..now) /\ now \in Nat
  BY TraceAssumption DEF TraceTypeInv
<1>3. all \subseteq frames
  BY <1>2 DEF Snapshot
<1>4. CASE frames = {}
  BY <1>1, <1>3, <1>4, <1>2 DEF LastIsLatest
<1>5. CASE frames # {}
  <2>1. now \in Int /\ \A f \in frames : f \in Int /\ 0 <= f /\ f <= now
    BY <1>2
  <2>2. PICK m \in frames : \A f \in frames : f <= m
    BY <1>5, <2>1, GreatestNumber
  <2>3. m \in Snapshot(frames)
    BY <1>2, <2>2, SnapshotHasTheLast
  <2> HIDE DEF all
  <2>4. m \in all
    BY <2>3 DEF all
  <2>5. lastSeen' \in all /\ \A g \in all : g <= lastSeen'
    BY <1>1, <1>3, <2>2, <2>4
  <2>6. lastSeen' = m
    BY <1>3, <2>1, <2>2, <2>4, <2>5
  <2>7. m \in Int /\ 0 <= m
    BY <2>1
  <2>8. lastSeen <= m
    <3>1. CASE seen = {}
      BY <2>7, <3>1 DEF LastIsLatest
    <3>2. CASE seen # {}
      BY <1>2, <2>2, <3>2 DEF LastIsLatest
    <3> QED BY <3>1, <3>2
  <2> QED BY <1>1, <1>3, <1>5, <2>2, <2>3, <2>6, <2>7, <2>8 DEF all
<1> QED BY <1>1, <1>3, <1>4, <1>5

(* No sample read late loses a frame: unseen frames are later than a       *)
(* period before the tick, which the ring holds.                           *)
LEMMA TickSeesAll ==
  ASSUME LeavesRoom, TraceTypeInv, TicksOnTime, OldAreSeen, FrameTick, ~missed,
         NEW f \in frames
  PROVE  f \in seen \cup Snapshot(frames)
<1>1. f \in Int /\ frameDue \in Nat /\ now \in Nat /\ frames \in SUBSET (0..now)
  BY TraceAssumption DEF TraceTypeInv
<1>2. BufFrames \in Nat /\ MaxLate \in Nat /\ SampleEvery \in Nat
  BY TraceAssumption, PeriodIsPositive
<1>3. CASE f <= frameDue - SampleEvery
  BY <1>3 DEF OldAreSeen
<1>4. CASE ~(f <= frameDue - SampleEvery)
  <2>1. now - f < BufFrames
    BY <1>1, <1>2, <1>4 DEF LeavesRoom, TicksOnTime
  <2> QED BY <1>1, <2>1, SnapshotReachesBack
<1> QED BY <1>3, <1>4

(* A sample adds gaps between frames that follow each other, and changes   *)
(* none it has already.                                                    *)
LEMMA TickGaps ==
  ASSUME TraceTypeInv, GapsAreGaps, FrameTick
  PROVE  /\ GapsAreGaps'
         /\ DOMAIN gaps' = DOMAIN gaps \cup Starts(Snapshot(frames))
         /\ \A f \in DOMAIN gaps : gaps'[f] = gaps[f]
<1> DEFINE snap == Snapshot(frames)
<1>1. gaps' = Add(gaps, snap) /\ frames' = frames
  BY DEF FrameTick
<1>2. now \in Nat /\ frames \in SUBSET (0..now) /\ \A f \in frames : f \in Int
  BY TraceAssumption DEF TraceTypeInv
<1>3. DOMAIN gaps' = DOMAIN gaps \cup Starts(snap)
  BY <1>1 DEF Add
<1>4. \A f \in DOMAIN gaps' : gaps'[f] = IF f \in Starts(snap) THEN NextIn(snap, f) - f ELSE gaps[f]
  BY <1>1 DEF Add
<1>5. ASSUME NEW f \in Starts(snap)
      PROVE  /\ f \in frames /\ NextIn(snap, f) \in frames /\ f < NextIn(snap, f)
             /\ \A g \in frames : f < g => NextIn(snap, f) <= g
  BY <1>2, <1>5, NextIsNext
<1> HIDE DEF snap
<1>6. ASSUME NEW f \in DOMAIN gaps, f \in Starts(snap) PROVE NextIn(snap, f) - f = gaps[f]
  <2> DEFINE h == NextIn(snap, f)
  <2>1. h \in frames /\ f < h /\ \A g \in frames : f < g => h <= g
    BY <1>5, <1>6
  <2>2. gaps[f] \in Nat \ {0} /\ f \in frames /\ f + gaps[f] \in frames /\ ~(f < h /\ h < f + gaps[f])
    BY <2>1 DEF GapsAreGaps
  <2> HIDE DEF h
  <2>3. f \in Int /\ h \in Int
    BY <1>2, <2>1, <2>2
  <2>4. f < f + gaps[f]
    BY <2>2, <2>3
  <2>5. h <= f + gaps[f]
    BY <2>1, <2>2, <2>4
  <2>6. h = f + gaps[f]
    BY <2>1, <2>2, <2>3, <2>5
  <2>7. h - f = gaps[f]
    BY <2>2, <2>3, <2>6
  <2> QED BY <2>7 DEF h
<1>7. \A f \in DOMAIN gaps : gaps'[f] = gaps[f]
  BY <1>3, <1>4, <1>6
<1>8. GapsAreGaps'
  <2> SUFFICES ASSUME NEW f \in DOMAIN gaps'
               PROVE  /\ gaps'[f] \in Nat \ {0} /\ {f, f + gaps'[f]} \subseteq frames
                      /\ \A g \in frames : ~(f < g /\ g < f + gaps'[f])
    BY <1>1 DEF GapsAreGaps
  <2>1. CASE f \in DOMAIN gaps
    BY <1>7, <2>1 DEF GapsAreGaps
  <2>2. CASE f \in Starts(snap) /\ f \notin DOMAIN gaps
    <3> DEFINE h == NextIn(snap, f)
    <3>1. f \in frames /\ h \in frames /\ f < h /\ \A g \in frames : f < g => h <= g
      BY <1>5, <2>2
    <3>2. gaps'[f] = h - f
      BY <1>4, <2>2
    <3> HIDE DEF h
    <3>3. f \in Int /\ h \in Int
      BY <1>2, <3>1
    <3>4. gaps'[f] \in Nat \ {0} /\ f + gaps'[f] = h
      BY <3>1, <3>2, <3>3
    <3>5. ASSUME NEW g \in frames, f < g, g < h PROVE FALSE
      <4>1. h <= g /\ g \in Int
        BY <1>2, <3>1, <3>5
      <4> QED BY <3>3, <3>5, <4>1
    <3> QED BY <3>1, <3>4, <3>5
  <2> QED BY <1>3, <2>1, <2>2
<1> QED BY <1>3, <1>7, <1>8 DEF snap

----------------------------------------------------------------------------
(* As `liw trace' starts, it has seen nothing.                             *)
LEMMA TraceInitHolds == TraceInit => TraceInv
<1> SUFFICES ASSUME TraceInit PROVE TraceInv
  OBVIOUS
<1>1. SampleEvery \in Nat \ {0} /\ MaxLate \in Nat /\ MaxTime \in Nat \ {0}
      /\ LongGap \in Nat /\ Slack \in Nat /\ StallAfter \in Nat
  BY TraceAssumption, PeriodIsPositive
<1>2. TraceTypeInv
  <2>1. log \subseteq Lines
    BY <1>1 DEF TraceInit, Lines
  <2>2. frames \subseteq 0..now /\ now \in 0..MaxTime /\ lastAt \in 0..now
    BY <1>1 DEF TraceInit
  <2>3. stalls \in Seq(Told)
    BY DEF TraceInit
  <2>4. frameDue \in Nat /\ seen \subseteq frames /\ lastSeen \in Int
    BY DEF TraceInit
  <2>5. missed \in BOOLEAN /\ inStall \in BOOLEAN
    BY Zenon DEF TraceInit
  <2> QED BY <2>1, <2>2, <2>3, <2>4, <2>5 DEF TraceTypeInv
<1>3. TicksOnTime
  BY <1>1 DEF TraceInit, TicksOnTime
<1>4. LastIsLatest
  BY DEF TraceInit, LastIsLatest
<1>5. DOMAIN gaps = {}
  BY DEF TraceInit
<1>6. GapsAreGaps /\ LongFreezeTold
  BY <1>5 DEF GapsAreGaps, LongFreezeTold, Freezes
<1>7. \A f \in frames : f = 0
  BY DEF TraceInit
<1>8. OldAreSeen
  BY <1>1, <1>7 DEF TraceInit, OldAreSeen
<1>9. NothingLost
  BY <1>7 DEF TraceInit, NothingLost
<1>10. RecentGapsKept
  BY <1>7 DEF TraceInit, RecentGapsKept, Snapshot
<1>11. SeenSoon /\ QuietIsShort /\ LastIsOpen
  BY <1>1 DEF TraceInit, SeenSoon, QuietIsShort, LastIsOpen
<1>12. SinkIsLog
  <2>1. sink.keys = {} /\ sink.times = <<>> /\ fellBack = FALSE
    BY DEF TraceInit
  <2>2. DOMAIN <<>> = {}
    OBVIOUS
  <2> QED BY <2>1, <2>2 DEF SinkIsLog
<1> QED BY <1>2, <1>3, <1>4, <1>6, <1>8, <1>9, <1>10, <1>11, <1>12 DEF TraceInv, SamplerInv

(* A refresh: what is new is later than all the tool knows.                *)
LEMMA RefreshKeeps ==
  ASSUME TraceInv, Refresh
  PROVE  TraceInv'
<1> USE DEF TraceInv, SamplerInv
<1>1. /\ now \in Nat /\ now < MaxTime /\ now' = now + 1 /\ MaxTime \in Nat
      /\ frames' \in {frames, frames \cup {now + 1}} /\ log \subseteq log'
      /\ UNCHANGED toolVars
  BY TraceAssumption DEF Refresh, TraceTypeInv
<1>2. log' \subseteq Lines
  <2>1. \A k \in Kinds : [t |-> now + 1, kind |-> k] \in Lines
    BY <1>1 DEF Lines
  <2> QED BY <2>1 DEF Refresh, TraceTypeInv
<1>3. frames \in SUBSET (0..now) /\ frames' \subseteq 0..now' /\ frames \subseteq frames'
  BY <1>1 DEF TraceTypeInv
<1>4. \A f \in frames' : f \in frames \/ f = now + 1
  BY <1>1
<1>5. TraceTypeInv'
  <2>1. now' \in 0..MaxTime /\ lastAt' \in 0..now'
    BY <1>1 DEF TraceTypeInv, toolVars
  <2> QED BY <1>1, <1>2, <1>3, <2>1 DEF TraceTypeInv, toolVars
<1>6. TicksOnTime'
  <2>1. frameDue \in Nat /\ SampleEvery \in Nat /\ MaxLate \in Nat /\ frameDue' = frameDue
    BY <1>1, PeriodIsPositive, TraceAssumption DEF toolVars, TraceTypeInv
  <2>2. now < frameDue + MaxLate /\ frameDue <= now + SampleEvery
    BY DEF Refresh, TicksOnTime
  <2> QED BY <1>1, <2>1, <2>2 DEF TicksOnTime
<1>7. LastIsLatest'
  BY <1>1 DEF LastIsLatest, toolVars
<1>8. lastSeen <= now /\ lastSeen \in Int
  <2>1. seen \subseteq 0..now
    BY <1>3 DEF TraceTypeInv
  <2> QED BY <1>1, <2>1 DEF LastIsLatest, TraceTypeInv
<1>9. GapsAreGaps'
  <2> SUFFICES ASSUME NEW f \in DOMAIN gaps
               PROVE  /\ gaps[f] \in Nat \ {0} /\ {f, f + gaps[f]} \subseteq frames'
                      /\ \A g \in frames' : ~(f < g /\ g < f + gaps[f])
    BY <1>1 DEF GapsAreGaps, toolVars
  <2>1. gaps[f] \in Nat \ {0} /\ {f, f + gaps[f]} \subseteq frames
        /\ \A g \in frames : ~(f < g /\ g < f + gaps[f])
    BY DEF GapsAreGaps
  <2>2. f + gaps[f] <= now /\ f + gaps[f] \in Int
    <3>1. f + gaps[f] \in 0..now
      BY <1>3, <2>1
    <3> QED BY <1>1, <3>1
  <2>3. ~(now + 1 < f + gaps[f])
    BY <1>1, <2>2
  <2> QED BY <1>3, <1>4, <2>1, <2>3
<1>10. OldAreSeen' /\ NothingLost'
  <2>1. frameDue - SampleEvery <= now /\ frameDue \in Int /\ SampleEvery \in Int
    BY <1>1, PeriodIsPositive DEF TicksOnTime, TraceTypeInv
  <2>2. ~(now + 1 <= frameDue - SampleEvery) /\ ~(now + 1 <= lastSeen)
    BY <1>1, <1>8, <2>1
  <2> QED BY <1>1, <1>4, <2>2 DEF OldAreSeen, NothingLost, toolVars
<1>11. RecentGapsKept'
  <2> SUFFICES ASSUME NEW f \in Snapshot(frames'), f < lastSeen
               PROVE  f \in DOMAIN gaps
    BY <1>1 DEF RecentGapsKept, toolVars
  <2>1. f \in frames'
    BY DEF Snapshot
  <2>2. f \in frames
    BY <1>1, <1>4, <1>8, <2>1
  <2>3. now + 1 \in Nat /\ frames \in SUBSET (0..(now + 1)) /\ frames' \in SUBSET (0..(now + 1))
    BY <1>1, <1>3
  <2>4. f \in Snapshot(frames)
    BY <1>3, <2>2, <2>3, SnapshotForgets
  <2> QED BY <2>4 DEF RecentGapsKept
<1>12. SeenSoon' /\ QuietIsShort' /\ LastIsOpen'
  BY <1>1 DEF SeenSoon, QuietIsShort, LastIsOpen, toolVars
<1>13. LongFreezeTold'
  BY <1>1 DEF LongFreezeTold, Freezes, ToldLive, toolVars
<1>14. SinkIsLog'
  BY <1>1 DEF SinkIsLog, IsReading, Off, toolVars
<1> QED BY <1>5, <1>6, <1>7, <1>9, <1>10, <1>11, <1>12, <1>13, <1>14

(* The sampler after a sample: the frames are seen, the next tick is a     *)
(* period away at most.                                                    *)
LEMMA TickKeepsSampler ==
  ASSUME LeavesRoom, SamplerInv, FrameTick
  PROVE  /\ TicksOnTime' /\ LastIsLatest' /\ GapsAreGaps' /\ OldAreSeen' /\ NothingLost'
         /\ RecentGapsKept'
         /\ frameDue' \in Nat /\ now < frameDue' /\ frameDue' <= now + SampleEvery
<1> USE DEF SamplerInv
<1>1. now \in Nat /\ frames \in SUBSET (0..now) /\ frames' = frames /\ now' = now /\ missed' = missed
      /\ frameDue' = NextTick(SampleEvery) /\ SampleEvery \in Nat \ {0} /\ MaxLate \in Nat
  BY TraceAssumption, PeriodIsPositive DEF TraceTypeInv, FrameTick
<1>2. frameDue' \in Nat /\ now < frameDue' /\ frameDue' <= now + SampleEvery
  BY <1>1, NextTickIsNear
<1>3. TicksOnTime'
  BY <1>1, <1>2 DEF TicksOnTime
<1>4. /\ seen' = seen \cup Snapshot(frames) /\ seen' \subseteq frames
      /\ lastSeen' \in Int /\ lastSeen <= lastSeen'
      /\ IF frames = {} THEN lastSeen' = -1
         ELSE /\ lastSeen' \in frames /\ \A f \in frames : f <= lastSeen'
              /\ lastSeen' \in Snapshot(frames)
  BY TickSees
<1>5. LastIsLatest'
  BY <1>4 DEF LastIsLatest
<1>6. GapsAreGaps' /\ DOMAIN gaps' = DOMAIN gaps \cup Starts(Snapshot(frames))
  BY TickGaps
<1>7. ~missed => \A f \in frames : f \in seen'
  BY <1>4, TickSeesAll
<1>8. OldAreSeen' /\ NothingLost'
  BY <1>1, <1>7 DEF OldAreSeen, NothingLost
<1>9. RecentGapsKept'
  <2> SUFFICES ASSUME NEW f \in Snapshot(frames), f < lastSeen'
               PROVE  f \in DOMAIN gaps'
    BY <1>1 DEF RecentGapsKept
  <2>1. f \in frames
    BY DEF Snapshot
  <2>2. lastSeen' \in Snapshot(frames) /\ lastSeen' > f
    BY <1>1, <1>4, <2>1
  <2>3. f \in Starts(Snapshot(frames))
    BY <2>2 DEF Starts
  <2> QED BY <1>6, <2>3
<1> QED BY <1>2, <1>3, <1>5, <1>6, <1>8, <1>9

----------------------------------------------------------------------------
(* The freezes told live.  A new frame ends the one under way; none for    *)
(* longer than StallAfter begins one.                                      *)
LEMMA EndsOrStarts ==
  ASSUME TraceTypeInv, LastIsLatest, LastIsOpen, FrameTick
  PROVE  /\ lastAt' \in 0..now /\ inStall' \in BOOLEAN /\ stalls' \in Seq(Told) /\ LastIsOpen'
         /\ \A i \in DOMAIN stalls :
              /\ i \in DOMAIN stalls' /\ stalls'[i].start = stalls[i].start
              /\ stalls[i].end <= stalls'[i].end \/ now <= stalls'[i].end
         /\ lastSeen' = lastSeen => FreezeStarts
         /\ lastSeen' # lastSeen => FreezeEnds
<1>1. /\ now \in Nat /\ now \in 0..now /\ lastAt \in 0..now /\ inStall \in BOOLEAN /\ stalls \in Seq(Told)
      /\ MaxTime + 1 \in Nat
  <2>1. now \in Nat /\ lastAt \in 0..now /\ inStall \in BOOLEAN /\ stalls \in Seq(Told)
    BY DEF TraceTypeInv
  <2> QED BY <2>1, TraceAssumption
<1>2. IF lastSeen' # lastSeen THEN FreezeEnds ELSE FreezeStarts
  BY DEF FrameTick
<1>3. \A i \in DOMAIN stalls : stalls[i] \in Told /\ stalls[i].end \in Nat
  <2>1. \A i \in DOMAIN stalls : stalls[i] \in Told
    BY <1>1
  <2>2. \A x \in Told : x.end \in Nat
    BY DEF Told
  <2> QED BY <2>1, <2>2
<1>4. CASE FreezeEnds
  <2>1. CASE ~inStall
    <3>1. stalls' = stalls /\ lastAt' = now /\ inStall' = FALSE
      BY <1>4, <2>1 DEF FreezeEnds
    <3>2. LastIsOpen'
      BY <3>1 DEF LastIsOpen
    <3>3. lastAt' \in 0..now /\ inStall' \in BOOLEAN /\ stalls' \in Seq(Told)
      BY <1>1, <3>1
    <3>4. \A i \in DOMAIN stalls :
             /\ i \in DOMAIN stalls' /\ stalls'[i].start = stalls[i].start
             /\ stalls[i].end <= stalls'[i].end
      BY <1>3, <3>1
    <3> QED BY <1>2, <1>4, <3>2, <3>3, <3>4
  <2>2. CASE inStall
    <3>1. stalls' = [stalls EXCEPT ![Len(stalls)].end = now] /\ lastAt' = now /\ inStall' = FALSE
      BY <1>4, <2>2 DEF FreezeEnds
    <3>2. Len(stalls) \in DOMAIN stalls
      BY <1>1, <2>2 DEF LastIsOpen
    <3> DEFINE n == Len(stalls)
               ended == [stalls[n] EXCEPT !.end = now]
    <3>3. ended \in Told /\ ended.start = stalls[n].start /\ ended.end = now
      BY <1>1, <1>3, <3>2 DEF Told
    <3>4. stalls' = [stalls EXCEPT ![n] = ended]
      BY <3>1
    <3> HIDE DEF ended, n
    <3>5. stalls' \in Seq(Told) /\ DOMAIN stalls' = DOMAIN stalls
          /\ \A i \in DOMAIN stalls : stalls'[i] = IF i = n THEN ended ELSE stalls[i]
      BY <1>1, <3>2, <3>3, <3>4 DEF n
    <3>6. \A i \in DOMAIN stalls :
             /\ stalls'[i].start = stalls[i].start
             /\ stalls[i].end <= stalls'[i].end \/ now <= stalls'[i].end
      BY <1>1, <1>3, <3>3, <3>5
    <3>7. LastIsOpen'
      BY <3>1 DEF LastIsOpen
    <3>8. lastAt' \in 0..now /\ inStall' \in BOOLEAN
      BY <1>1, <3>1
    <3> QED BY <1>2, <1>4, <3>5, <3>6, <3>7, <3>8
  <2> QED BY <2>1, <2>2
<1>5. CASE FreezeStarts
  <2>1. lastAt' = lastAt /\ inStall' = (inStall \/ now - lastAt > StallAfter)
    BY <1>5 DEF FreezeStarts
  <2>2. inStall' \in BOOLEAN
    BY Zenon, <2>1
  <2>3. CASE ~inStall /\ inStall'
    <3> DEFINE new == [start |-> lastAt, end |-> MaxTime + 1, log |-> {}]
    <3>1. stalls' = Append(stalls, new)
      BY <1>5, <2>3 DEF FreezeStarts
    <3>2. new \in Told
      BY <1>1 DEF Told
    <3>3. new.start = lastAt
      OBVIOUS
    <3> HIDE DEF new
    <3>4. /\ stalls' \in Seq(Told) /\ Len(stalls') = Len(stalls) + 1 /\ Len(stalls) \in Nat
          /\ stalls'[Len(stalls')] = new
          /\ \A i \in DOMAIN stalls : i \in DOMAIN stalls' /\ stalls'[i] = stalls[i]
      BY <1>1, <3>1, <3>2
    <3>5. LastIsOpen'
      BY <2>1, <3>3, <3>4 DEF LastIsOpen
    <3> QED BY <1>1, <1>2, <1>3, <1>5, <2>1, <2>2, <3>4, <3>5
  <2>4. CASE ~(~inStall /\ inStall')
    <3>1. stalls' = stalls
      BY <1>5, <2>4 DEF FreezeStarts
    <3>2. inStall' => inStall
      BY <2>4
    <3>3. LastIsOpen'
      BY <2>1, <3>1, <3>2 DEF LastIsOpen
    <3> QED BY <1>1, <1>2, <1>3, <1>5, <2>1, <2>2, <3>1, <3>3
  <2> QED BY <2>3, <2>4
<1> QED BY <1>2, <1>4, <1>5

(* A long freeze is being told when the frames come back.                  *)
LEMMA TickTells ==
  ASSUME LeavesRoom, TraceInv, FrameTick
  PROVE  LongFreezeTold'
<1> USE DEF TraceInv, SamplerInv
<1> DEFINE late == SampleEvery + MaxLate
           snap == Snapshot(frames)
<1> SUFFICES ASSUME ~missed, NEW f \in DOMAIN gaps', gaps'[f] >= LongGap,
                    gaps'[f] >= StallAfter + 2 * late
             PROVE  \E i \in DOMAIN stalls' :
                      /\ f <= stalls'[i].start /\ stalls'[i].start <= f + SampleEvery + MaxLate
                      /\ f + gaps'[f] <= stalls'[i].end
  <2>1. missed' = missed
    BY DEF FrameTick
  <2> QED BY <2>1 DEF LongFreezeTold, Freezes, ToldLive
<1>1. /\ now \in Nat /\ frames \in SUBSET (0..now) /\ frames' = frames /\ frameDue \in Nat
      /\ SampleEvery \in Nat \ {0} /\ MaxLate \in Nat /\ StallAfter \in Nat /\ lastSeen \in Int
      /\ lastAt \in 0..now
  BY TraceAssumption, PeriodIsPositive DEF TraceTypeInv, FrameTick
<1>2. /\ DOMAIN gaps' = DOMAIN gaps \cup Starts(snap)
      /\ \A g \in DOMAIN gaps : gaps'[g] = gaps[g]
  BY TickGaps
<1>3. GapsAreGaps'
  BY TickGaps
<1> HIDE DEF snap
<1>4. /\ gaps'[f] \in Nat \ {0} /\ f \in frames /\ f + gaps'[f] \in frames
      /\ \A g \in frames : ~(f < g /\ g < f + gaps'[f])
  BY <1>1, <1>3 DEF GapsAreGaps
<1>5. f \in Int /\ f + gaps'[f] \in Int /\ f + gaps'[f] <= now /\ 0 <= f
  <2>1. f \in 0..now /\ f + gaps'[f] \in 0..now
    BY <1>1, <1>4
  <2> QED BY <1>1, <2>1
<1>6. \A i \in DOMAIN stalls :
        /\ i \in DOMAIN stalls' /\ stalls'[i].start = stalls[i].start
        /\ stalls[i].end <= stalls'[i].end \/ now <= stalls'[i].end
  BY EndsOrStarts
<1>7. stalls' \in Seq(Told) /\ stalls \in Seq(Told)
  BY EndsOrStarts DEF TraceTypeInv
<1>8. ASSUME NEW i \in DOMAIN stalls, stalls[i] \in Told, stalls'[i] \in Told,
             f <= stalls[i].start, stalls[i].start <= f + late,
             f + gaps'[f] <= stalls[i].end \/ now <= stalls'[i].end
      PROVE  \E j \in DOMAIN stalls' :
               /\ f <= stalls'[j].start /\ stalls'[j].start <= f + SampleEvery + MaxLate
               /\ f + gaps'[f] <= stalls'[j].end
  <2>1. /\ i \in DOMAIN stalls' /\ stalls'[i].start = stalls[i].start
        /\ stalls[i].end <= stalls'[i].end \/ now <= stalls'[i].end
    BY <1>6
  <2>2. stalls[i].end \in Nat /\ stalls'[i].end \in Nat /\ stalls[i].start \in Nat
    BY <1>8 DEF Told
  <2> DEFINE g == f + gaps'[f]
  <2>3. g <= stalls'[i].end
    <3>1. g \in Int /\ g <= now /\ now \in Int
      BY <1>1, <1>5
    <3>2. g <= stalls[i].end \/ now <= stalls'[i].end
      BY <1>8
    <3> HIDE DEF g
    <3> QED BY <2>1, <2>2, <3>1, <3>2
  <2>4. stalls'[i].start <= f + SampleEvery + MaxLate
    BY <1>1, <1>5, <1>8, <2>1, <2>2
  <2> QED BY <1>8, <2>1, <2>3, <2>4
<1>9. \A i \in DOMAIN stalls : i \in DOMAIN stalls' /\ stalls[i] \in Told /\ stalls'[i] \in Told
  BY <1>6, <1>7
<1>10. CASE f \in DOMAIN gaps
  <2>1. gaps'[f] = gaps[f]
    BY <1>2, <1>10
  <2>2. f \in Freezes /\ gaps[f] >= StallAfter + 2 * (SampleEvery + MaxLate)
    BY <1>10, <2>1 DEF Freezes
  <2>3. PICK i \in DOMAIN stalls :
           /\ f <= stalls[i].start /\ stalls[i].start <= f + SampleEvery + MaxLate
           /\ f + gaps[f] <= stalls[i].end
    BY <2>2 DEF LongFreezeTold, ToldLive
  <2>4. stalls[i].start \in Nat
    BY <1>9 DEF Told
  <2>5. stalls[i].start <= f + late
    BY <1>1, <1>5, <2>3, <2>4
  <2> QED BY <1>8, <1>9, <2>1, <2>3, <2>5
<1>11. CASE f \notin DOMAIN gaps
  <2>1. f \in snap
    BY <1>2, <1>11 DEF Starts
  <2>2. ~(f < lastSeen)
    BY <1>11, <2>1 DEF RecentGapsKept, snap
  <2> DEFINE g == f + gaps'[f]
  <2>3. g \in frames /\ g \in Int /\ f < g /\ g <= now /\ late \in Nat
    BY <1>1, <1>4, <1>5
  <2>4. g > lastSeen /\ g \notin seen
    BY <1>1, <1>5, <2>2, <2>3 DEF LastIsLatest
  <2>5. ~(g <= frameDue - SampleEvery)
    BY <2>3, <2>4 DEF OldAreSeen
  <2>6. now <= frameDue + MaxLate
    BY DEF TicksOnTime
  <2>7. f = lastSeen
    <3>1. CASE f > lastSeen
      <4>1. f \notin seen
        BY <1>1, <1>5, <3>1 DEF LastIsLatest
      <4>2. ~(f <= frameDue - SampleEvery)
        BY <1>4, <4>1 DEF OldAreSeen
      <4>3. gaps'[f] < late
        BY <1>1, <1>4, <1>5, <2>6, <4>2
      <4> QED BY <1>1, <1>4, <4>3
    <3> QED BY <1>1, <1>5, <2>2, <3>1
  <2>8. lastSeen <= lastAt /\ lastAt < lastSeen + SampleEvery + MaxLate
    BY <1>5, <2>7 DEF SeenSoon
  <2>9. inStall
    <3> SUFFICES ASSUME ~inStall PROVE FALSE
      OBVIOUS
    <3>1. frameDue - SampleEvery <= lastAt + StallAfter
      BY DEF QuietIsShort
    <3> QED BY <1>1, <1>4, <1>5, <2>3, <2>6, <2>7, <2>8, <3>1
  <2>10. Len(stalls) > 0 /\ stalls[Len(stalls)].start = lastAt
    BY <2>9 DEF LastIsOpen
  <2>11. Len(stalls) \in DOMAIN stalls /\ Len(stalls) \in Nat
    BY <1>7, <2>10
  <2>12. FreezeEnds
    <3>1. /\ lastSeen' \in Int /\ frames # {}
          /\ IF frames = {} THEN lastSeen' = -1
             ELSE /\ lastSeen' \in frames /\ \A h \in frames : h <= lastSeen'
                  /\ lastSeen' \in Snapshot(frames)
      BY <2>3, TickSees
    <3>2. g <= lastSeen'
      BY <2>3, <3>1
    <3>3. lastSeen' # lastSeen
      BY <1>1, <2>3, <2>4, <3>1, <3>2
    <3> QED BY <3>3, EndsOrStarts
  <2>13. now <= stalls'[Len(stalls)].end
    <3>1. stalls' = [stalls EXCEPT ![Len(stalls)].end = now]
      BY <2>9, <2>12 DEF FreezeEnds
    <3>2. stalls[Len(stalls)] \in Told
      BY <1>9, <2>11
    <3>3. stalls'[Len(stalls)].end = now
      BY <1>7, <2>11, <3>1, <3>2 DEF Told
    <3> QED BY <1>1, <3>3
  <2>14. f <= lastAt /\ lastAt <= f + late
    BY <1>1, <1>5, <2>7, <2>8
  <2> QED BY <1>8, <1>9, <2>10, <2>11, <2>13, <2>14
<1> QED BY <1>10, <1>11

(* A sample that could be read, with all it does.                          *)
LEMMA FrameTickKeeps ==
  ASSUME LeavesRoom, TraceInv, FrameTick
  PROVE  TraceInv'
<1> USE DEF TraceInv, SamplerInv
<1>1. /\ now \in Nat /\ frames \in SUBSET (0..now) /\ frameDue \in Nat /\ lastSeen \in Int
      /\ SampleEvery \in Nat \ {0} /\ MaxLate \in Nat /\ StallAfter \in Nat /\ lastAt \in 0..now
  BY TraceAssumption, PeriodIsPositive DEF TraceTypeInv
<1>2. UNCHANGED <<now, frames, log, logDue, missed, sink, fellBack>>
  BY DEF FrameTick
<1>3. /\ TicksOnTime' /\ LastIsLatest' /\ GapsAreGaps' /\ OldAreSeen' /\ NothingLost'
      /\ RecentGapsKept'
      /\ frameDue' \in Nat /\ now < frameDue' /\ frameDue' <= now + SampleEvery
  BY TickKeepsSampler
<1>4. /\ seen' \subseteq frames /\ lastSeen' \in Int /\ lastSeen <= lastSeen'
      /\ IF frames = {} THEN lastSeen' = -1
         ELSE /\ lastSeen' \in frames /\ \A f \in frames : f <= lastSeen'
              /\ lastSeen' \in Snapshot(frames)
  BY TickSees
<1>5. /\ lastAt' \in 0..now /\ inStall' \in BOOLEAN /\ stalls' \in Seq(Told) /\ LastIsOpen'
      /\ lastSeen' = lastSeen => FreezeStarts
      /\ lastSeen' # lastSeen => FreezeEnds
  BY EndsOrStarts
<1>6. TraceTypeInv'
  BY <1>2, <1>3, <1>4, <1>5 DEF TraceTypeInv
<1>7. SeenSoon'
  <2> SUFFICES ASSUME ~missed, lastSeen' >= 0
               PROVE  lastSeen' <= lastAt' /\ lastAt' < lastSeen' + SampleEvery + MaxLate
    BY <1>2 DEF SeenSoon
  <2>1. CASE lastSeen' = lastSeen
    BY <1>5, <2>1 DEF SeenSoon, FreezeStarts
  <2>2. CASE lastSeen' # lastSeen
    <3>1. lastAt' = now
      BY <1>5, <2>2 DEF FreezeEnds
    <3>2. lastSeen' \in frames
      BY <1>4
    <3>3. lastSeen' \notin seen
      BY <1>1, <1>4, <2>2 DEF LastIsLatest
    <3>4. ~(lastSeen' <= frameDue - SampleEvery)
      BY <3>2, <3>3 DEF OldAreSeen
    <3>5. now <= frameDue + MaxLate
      BY DEF TicksOnTime
    <3>6. lastSeen' <= now
      BY <1>1, <3>2
    <3>7. PICK l \in Int : l = lastSeen'
      BY <1>4
    <3>8. ~(l <= frameDue - SampleEvery)
      BY <3>4, <3>7, Zenon
    <3>9. now < l + SampleEvery + MaxLate
      BY <1>1, <3>5, <3>8
    <3>10. lastAt' < lastSeen' + SampleEvery + MaxLate
      BY <3>1, <3>7, <3>9, Zenon
    <3> QED BY <3>1, <3>6, <3>10
  <2> QED BY <2>1, <2>2
<1>8. QuietIsShort'
  <2> SUFFICES ASSUME ~inStall' PROVE frameDue' - SampleEvery <= lastAt' + StallAfter
    BY DEF QuietIsShort
  <2>1. PICK d \in Int : d = frameDue'
    BY <1>3
  <2>2. d <= now + SampleEvery
    BY <1>3, <2>1
  <2>3. PICK a \in Int : a = lastAt'
    BY <1>5
  <2>4. a = now \/ ~(now - a > StallAfter)
    BY <1>5, <2>3, Zenon DEF FreezeStarts, FreezeEnds
  <2>5. d - SampleEvery <= a + StallAfter
    BY <1>1, <2>2, <2>4
  <2> QED BY <2>1, <2>3, <2>5, Zenon
<1>9. LongFreezeTold'
  BY TickTells
<1>10. SinkIsLog'
  BY <1>2 DEF SinkIsLog, IsReading, Off
<1> QED BY <1>3, <1>5, <1>6, <1>7, <1>8, <1>9, <1>10

(* After a sample that could not be read nothing is promised of the next.  *)
LEMMA FrameTickFailsKeeps ==
  ASSUME TraceInv, FrameTickFails
  PROVE  TraceInv'
<1> USE DEF TraceInv, SamplerInv
<1>1. /\ missed' = TRUE /\ frameDue' = NextTick(SampleEvery)
      /\ UNCHANGED <<now, frames, log, logDue, seen, gaps, lastSeen, lastAt, inStall, stalls, sink,
                     fellBack>>
  BY DEF FrameTickFails
<1>2. now \in Nat /\ SampleEvery \in Nat /\ MaxLate \in Nat
  BY TraceAssumption, PeriodIsPositive DEF TraceTypeInv
<1>3. frameDue' \in Nat /\ now < frameDue' /\ frameDue' <= now + SampleEvery
  BY <1>1, <1>2, NextTickIsNear
<1>4. TicksOnTime'
  BY <1>1, <1>2, <1>3 DEF TicksOnTime
<1>5. missed' \in BOOLEAN
  BY Zenon, <1>1
<1>6. TraceTypeInv'
  BY <1>1, <1>3, <1>5 DEF TraceTypeInv
<1>7. LastIsLatest' /\ GapsAreGaps' /\ RecentGapsKept' /\ LastIsOpen'
  BY <1>1 DEF LastIsLatest, GapsAreGaps, RecentGapsKept, LastIsOpen
<1>8. OldAreSeen' /\ NothingLost' /\ SeenSoon' /\ QuietIsShort' /\ LongFreezeTold'
  BY <1>1 DEF OldAreSeen, NothingLost, SeenSoon, QuietIsShort, LongFreezeTold
<1>9. SinkIsLog'
  BY <1>1 DEF SinkIsLog, IsReading, Off
<1> QED BY <1>4, <1>6, <1>7, <1>8, <1>9

(* Pushing what the sink has not seen keeps every event once.              *)
LEMMA PushOnce ==
  ASSUME SinkIsLog, NEW evs
  PROVE  /\ DOMAIN Push(sink.times, Fresh(evs)) = sink.keys \cup evs
         /\ \A e \in sink.keys \cup evs : Push(sink.times, Fresh(evs))[e] = 1
<1>1. DOMAIN sink.times = sink.keys /\ \A e \in sink.keys : sink.times[e] = 1
  BY DEF SinkIsLog
<1>2. DOMAIN Push(sink.times, Fresh(evs)) = sink.keys \cup evs
  BY <1>1 DEF Push, Fresh
<1>3. ASSUME NEW e \in sink.keys \cup evs PROVE Push(sink.times, Fresh(evs))[e] = 1
  BY <1>1 DEF Push, Fresh
<1> QED BY <1>2, <1>3

(* What a pull parses are readings, off by as much as the pull is.         *)
LEMMA ParsedAreReadings ==
  ASSUME log \subseteq Lines, NEW off \in Int, NEW e \in ParseLog(LastLines(log), off)
  PROVE  /\ e \in Readings /\ e.of \in log /\ e.kind = e.of.kind /\ e.kind \in DOMAIN Weight
         /\ e.t = e.of.t + off
<1>1. PICK l \in log : l.kind \in DOMAIN Weight /\ e = [t |-> l.t + off, kind |-> l.kind, of |-> l]
  BY DEF ParseLog, LastLines
<1>2. l \in Lines /\ l.t \in Int /\ l.kind \in Kinds
  BY DEF Lines
<1> QED BY <1>1, <1>2 DEF Readings

(* What a pull answers, and whether it fell back, leaves the sink's keys   *)
(* readings.                                                               *)
LEMMA PulledAreReadings ==
  ASSUME SinkIsLog, log \subseteq Lines, log' = log, NEW evs, FetchLog(evs)
  PROVE  /\ fellBack' \in BOOLEAN /\ evs \subseteq Readings
         /\ \A e \in sink.keys \cup evs : IsReading(e)'
<1>1. Drift \in Nat /\ fellBack \in BOOLEAN
  BY TraceAssumption DEF SinkIsLog
<1>2. /\ fellBack' \in BOOLEAN /\ (fellBack => fellBack')
      /\ \/ evs = {}
         \/ \E off \in Int : /\ evs = ParseLog(LastLines(log), off)
                             /\ (IF fellBack' THEN -Drift <= off /\ off <= Drift ELSE off = 0)
  <2>1. CASE FromMonotonic(evs)
    BY <1>1, <2>1 DEF FromMonotonic
  <2>2. CASE FromWallClock(evs)
    <3>1. PICK off \in -Drift..Drift : evs = ParseLog(LastLines(log), off)
      BY <2>2 DEF FromWallClock
    <3>2. off \in Int /\ -Drift <= off /\ off <= Drift
      BY <1>1, <3>1
    <3>3. fellBack' = TRUE
      BY <2>2 DEF FromWallClock
    <3> QED BY <3>1, <3>2, <3>3
  <2>3. CASE FromNobody(evs)
    BY <1>1, <2>3 DEF FromNobody
  <2> QED BY <2>1, <2>2, <2>3 DEF FetchLog
<1>3. /\ Off' = (IF fellBack' THEN Drift ELSE 0) /\ Off = (IF fellBack THEN Drift ELSE 0)
      /\ Drift' = Drift
  BY DEF Off
<1>4. ASSUME NEW e \in evs PROVE e \in Readings /\ IsReading(e)'
  <2>1. PICK off \in Int : /\ evs = ParseLog(LastLines(log), off)
                           /\ (IF fellBack' THEN -Drift <= off /\ off <= Drift ELSE off = 0)
    BY <1>2, <1>4
  <2>2. /\ e \in Readings /\ e.of \in log /\ e.kind = e.of.kind /\ e.kind \in DOMAIN Weight
        /\ e.t = e.of.t + off
    BY <2>1, ParsedAreReadings
  <2>3. e.of.t \in Int
    BY <2>2 DEF Readings, Lines
  <2>4. e.of.t - Off' <= e.t /\ e.t <= e.of.t + Off'
    BY <1>1, <1>2, <1>3, <2>1, <2>2, <2>3
  <2> QED BY <2>2, <2>4 DEF IsReading
<1>5. ASSUME NEW e \in sink.keys PROVE IsReading(e)'
  <2>1. IsReading(e)
    BY DEF SinkIsLog
  <2>2. e.of.t \in Int /\ e.t \in Int
    BY <2>1 DEF IsReading, Readings, Lines
  <2>3. e.of.t - Off' <= e.t /\ e.t <= e.of.t + Off'
    BY <1>1, <1>2, <1>3, <2>1, <2>2 DEF IsReading
  <2> QED BY <2>1, <2>3 DEF IsReading
<1> QED BY <1>2, <1>4, <1>5

(* A pull of the log tells each line once, and changes no freeze's bounds. *)
LEMMA LogTickKeeps ==
  ASSUME TraceInv, LogTick
  PROVE  TraceInv'
<1> USE DEF TraceInv, SamplerInv
<1>1. UNCHANGED <<now, frames, log, frameDue, missed, seen, gaps, lastSeen, lastAt, inStall>>
  BY DEF LogTick
<1>2. PICK evs \in Pulls :
         /\ FetchLog(evs)
         /\ sink' = [keys |-> sink.keys \cup evs, times |-> Push(sink.times, Fresh(evs))]
         /\ stalls' = IF inStall THEN [stalls EXCEPT ![Len(stalls)].log = @ \cup Fresh(evs)]
                      ELSE stalls
  BY DEF LogTick
<1>3. /\ fellBack' \in BOOLEAN /\ evs \subseteq Readings
      /\ \A e \in sink.keys \cup evs : IsReading(e)'
  BY <1>1, <1>2, PulledAreReadings DEF TraceTypeInv
<1>4. SinkIsLog'
  <2>1. sink'.keys = sink.keys \cup evs /\ sink'.times = Push(sink.times, Fresh(evs))
    BY <1>2
  <2> QED BY <1>3, <2>1, PushOnce DEF SinkIsLog
<1>5. /\ stalls' \in Seq(Told) /\ DOMAIN stalls' = DOMAIN stalls /\ Len(stalls') = Len(stalls)
      /\ \A i \in DOMAIN stalls :
           stalls'[i].start = stalls[i].start /\ stalls'[i].end = stalls[i].end
  <2>1. stalls \in Seq(Told) /\ \A i \in DOMAIN stalls : stalls[i] \in Told
    <3>1. stalls \in Seq(Told)
      BY DEF TraceTypeInv
    <3> QED BY <3>1
  <2>2. CASE ~inStall
    BY <1>2, <2>1, <2>2
  <2>3. CASE inStall
    <3> DEFINE n == Len(stalls)
               longer == [stalls[n] EXCEPT !.log = @ \cup Fresh(evs)]
    <3>1. n \in DOMAIN stalls
      BY <2>1, <2>3 DEF LastIsOpen
    <3>2. stalls[n] \in Told
      BY <2>1, <3>1
    <3>3. longer \in Told /\ longer.start = stalls[n].start /\ longer.end = stalls[n].end
      BY <1>3, <3>2 DEF Told, Fresh
    <3>4. stalls' = [stalls EXCEPT ![n] = longer]
      BY <1>2, <2>3
    <3> HIDE DEF longer, n
    <3>5. stalls' \in Seq(Told) /\ DOMAIN stalls' = DOMAIN stalls /\ Len(stalls') = Len(stalls)
          /\ \A i \in DOMAIN stalls : stalls'[i] = IF i = n THEN longer ELSE stalls[i]
      BY <2>1, <3>1, <3>3, <3>4 DEF n
    <3> QED BY <3>3, <3>5
  <2> QED BY <2>2, <2>3
<1>6. TraceTypeInv'
  BY <1>1, <1>5 DEF TraceTypeInv
<1>7. LastIsOpen'
  <2>1. inStall => Len(stalls) \in DOMAIN stalls
    <3>1. stalls \in Seq(Told)
      BY DEF TraceTypeInv
    <3> QED BY <3>1 DEF LastIsOpen
  <2> QED BY <1>1, <1>5, <2>1 DEF LastIsOpen
<1>8. LongFreezeTold'
  BY <1>1, <1>5 DEF LongFreezeTold, Freezes, ToldLive
<1>9. TicksOnTime' /\ LastIsLatest' /\ GapsAreGaps' /\ OldAreSeen' /\ NothingLost' /\ RecentGapsKept'
  BY <1>1 DEF TicksOnTime, LastIsLatest, GapsAreGaps, OldAreSeen, NothingLost, RecentGapsKept
<1>10. SeenSoon' /\ QuietIsShort'
  BY <1>1 DEF SeenSoon, QuietIsShort
<1> QED BY <1>4, <1>6, <1>7, <1>8, <1>9, <1>10

(* Nothing changes when nothing happens.                                   *)
LEMMA TraceStutterKeeps ==
  ASSUME TraceInv, UNCHANGED traceVars
  PROVE  TraceInv'
BY DEF traceVars, TraceInv, SamplerInv, TraceTypeInv, TicksOnTime, LastIsLatest, GapsAreGaps,
       OldAreSeen, NothingLost, RecentGapsKept, SeenSoon, QuietIsShort, LastIsOpen,
       LongFreezeTold, Freezes, ToldLive, SinkIsLog, IsReading, Off

----------------------------------------------------------------------------
(* The weights are numbers up to 100.                                      *)
LEMMA WeightIsNumber == \A k \in DOMAIN Weight : Weight[k] \in Nat /\ Weight[k] <= 100
BY DEF Weight

(* Of a set of lines there is one that no other is heavier than.          *)
LEMMA HeaviestLine ==
  ASSUME NEW S, S # {}, \A e \in S : e.kind \in DOMAIN Weight /\ e.t \in Int /\ e.t >= -Slack
  PROVE  \E e \in S : \A d \in S : ~Heavier(d, e)
<1> DEFINE weights == {Weight[e.kind] : e \in S}
<1>1. \A w \in weights : w \in Int /\ w <= 100
  BY WeightIsNumber
<1>2. PICK w \in weights : \A v \in weights : v <= w
  <2>1. weights # {}
    OBVIOUS
  <2> HIDE DEF weights
  <2> QED BY <1>1, <2>1, GreatestNumber
<1> DEFINE times == {e.t : e \in {d \in S : Weight[d.kind] = w}}
<1>3. \A x \in times : x \in Int /\ -Slack <= x
  BY TraceAssumption
<1>4. times # {}
  OBVIOUS
<1>5. PICK x \in times : \A y \in times : x <= y
  <2>1. -Slack \in Int
    BY TraceAssumption
  <2> HIDE DEF times
  <2> QED BY <1>3, <1>4, <2>1, LeastNumber
<1>6. PICK e \in S : Weight[e.kind] = w /\ e.t = x
  OBVIOUS
<1>7. ASSUME NEW d \in S, Heavier(d, e) PROVE FALSE
  <2>1. Weight[d.kind] \in weights
    OBVIOUS
  <2>2. Weight[d.kind] <= w /\ Weight[d.kind] \in Int /\ w \in Int
    BY <1>1, <1>2, <2>1
  <2>3. Weight[d.kind] = w /\ d.t < x
    BY <1>6, <1>7, <2>2 DEF Heavier
  <2>4. d.t \in times
    BY <2>3
  <2>5. x <= d.t /\ x \in Int /\ d.t \in Int
    BY <1>3, <1>5, <2>4
  <2> QED BY <2>3, <2>5
<1> QED BY <1>7

(* What the report says follows from what the tool keeps.                  *)
LEMMA NothingIsInvented ==
  ASSUME TraceInv
  PROVE  NothingInvented
BY DEF TraceInv, SamplerInv, GapsAreGaps, NothingInvented

(* What is kept is a reading of a line of the log, of a kind the tool      *)
(* tells; while no pull was dated by the wall clock, one of each line.     *)
LEMMA LinesAreCountedOnce ==
  ASSUME TraceInv
  PROVE  CountedOnce /\ \A e \in Events : IsReading(e) /\ e.t \in Int /\ e.of.t \in Int
<1>1. SinkIsLog
  BY DEF TraceInv
<1>2. \A e \in Events : IsReading(e) /\ e.t >= -Slack /\ sink.times[e] = 1
  BY <1>1 DEF SinkIsLog, Events
<1>3. \A e \in Events : e.t \in Int /\ e.of.t \in Int
  BY <1>2 DEF IsReading, Readings, Lines
<1>4. Off \in Nat
  BY TraceAssumption DEF Off
<1>5. ASSUME NEW e \in Events PROVE Distance(e.t, e.of.t) <= Off
  BY <1>2, <1>3, <1>4 DEF IsReading, Distance
<1>6. ASSUME ~fellBack, NEW d \in Events, NEW e \in Events, d.of = e.of PROVE d = e
  <2>1. Off = 0
    BY <1>6 DEF Off
  <2>2. d.t = d.of.t /\ e.t = e.of.t
    BY <1>2, <1>3, <2>1 DEF IsReading
  <2>3. d.t = e.t /\ d.kind = e.kind
    BY <1>2, <1>6, <2>2 DEF IsReading
  <2>4. d \in Readings /\ e \in Readings
    BY <1>2 DEF IsReading
  <2> QED BY <1>6, <2>3, <2>4 DEF Readings
<1>7. \A e \in Events : e.of \in log /\ e.kind = e.of.kind
  BY <1>2 DEF IsReading
<1> QED BY <1>2, <1>3, <1>5, <1>6, <1>7 DEF CountedOnce, OncePerLine

(* A kind is blamed for a line near a stutter; where there is a line, the  *)
(* heaviest is evidence.                                                   *)
LEMMA BlameIsGrounded ==
  ASSUME TraceInv
  PROVE  NoEvidenceNoAccusation
<1>1. CountedOnce /\ \A e \in Events : IsReading(e) /\ e.t \in Int /\ e.of.t \in Int
  BY LinesAreCountedOnce
<1>2. ASSUME NEW k \in Accused
      PROVE  \E f \in Hitches : \E l \in log :
               /\ l.kind = k /\ {f, f + gaps[f]} \subseteq frames
               /\ l.t >= f - Before - Off /\ l.t <= f + gaps[f] + After + Off
  <2>1. PICK f \in Hitches : k \in EvidenceKinds(f)
    BY DEF Accused
  <2>2. PICK e \in Evidence(f) : e.kind = k
    BY <2>1 DEF EvidenceKinds
  <2>3. e \in Events /\ InWindow(e, f)
    BY DEF Evidence
  <2>4. /\ e.of \in log /\ e.of.kind = k
        /\ e.of.t - Off <= e.t /\ e.t <= e.of.t + Off /\ e.t \in Int /\ e.of.t \in Int
    BY <1>1, <2>2, <2>3 DEF IsReading
  <2>5. f \in DOMAIN gaps
    BY DEF Hitches, Intervals
  <2>6. {f, f + gaps[f]} \subseteq frames
    BY <2>5, NothingIsInvented DEF NothingInvented
  <2>7. f \in Int /\ gaps[f] \in Int
    <3>1. gaps[f] \in Nat \ {0} /\ frames \subseteq 0..now /\ now \in Nat
      BY <2>5, TraceAssumption DEF TraceInv, SamplerInv, GapsAreGaps, TraceTypeInv
    <3>2. f \in 0..now
      BY <2>6, <3>1
    <3> QED BY <3>1, <3>2
  <2>8. Off \in Nat /\ Before \in Nat /\ After \in Nat
    BY TraceAssumption DEF Off
  <2>9. e.of.t >= f - Before - Off /\ e.of.t <= f + gaps[f] + After + Off
    <3>1. e.t >= f - Before /\ e.t <= f + gaps[f] + After
      BY <2>3 DEF InWindow
    <3> DEFINE g == gaps[f]
               a == e.t
               b == e.of.t
    <3> HIDE DEF g, a, b
    <3>2. /\ b - Off <= a /\ a <= b + Off /\ a \in Int /\ b \in Int /\ f \in Int /\ g \in Int
          /\ a >= f - Before /\ a <= f + g + After
      BY <2>4, <2>7, <3>1 DEF a, b, g
    <3>3. b >= f - Before - Off /\ b <= f + g + After + Off
      BY <2>8, <3>2
    <3> QED BY <3>3 DEF b, g
  <2> QED BY <2>4, <2>6, <2>9
<1>3. ASSUME NEW f \in Unexplained, NEW e0 \in Events, InWindow(e0, f) PROVE FALSE
  <2> DEFINE found == {e \in Events : InWindow(e, f)}
  <2>1. found # {}
    BY <1>3
  <2>2. \A e \in found : e.kind \in DOMAIN Weight /\ e.t \in Int /\ e.t >= -Slack
    BY <1>1 DEF CountedOnce, IsReading
  <2> HIDE DEF found
  <2>3. PICK e \in found : \A d \in found : ~Heavier(d, e)
    BY <2>1, <2>2, HeaviestLine
  <2>4. {d \in found : Heavier(d, e)} = {}
    BY <2>3
  <2>5. Cardinality({d \in found : Heavier(d, e)}) < KeepEvidence
    BY <2>4, FS_EmptySet, TraceAssumption
  <2>6. e \in Evidence(f)
    BY <2>5 DEF Evidence, found
  <2> QED BY <2>6 DEF Unexplained
<1> QED BY <1>2, <1>3 DEF NoEvidenceNoAccusation

(* For any ring, log, period and threshold, with a sampler that is late by *)
(* no more than the ring holds beyond a period: everything `liw trace'     *)
(* reports happened - each line once and at its time as long as the helper *)
(* gives monotonic times, and about its time otherwise - and a long freeze *)
(* is told                                                                 *)
(* (liw-core/src/bench.rs, liw/src/trace.rs, liw-core/src/trace.rs).       *)
THEOREM ReportHolds ==
  ASSUME LeavesRoom
  PROVE  TraceSpec => []ReportIsTrue
<1>1. TraceInv /\ [TraceNext]_traceVars => TraceInv'
  <2> SUFFICES ASSUME TraceInv, [TraceNext]_traceVars PROVE TraceInv'
    OBVIOUS
  <2>1. CASE Refresh
    BY <2>1, RefreshKeeps
  <2>2. CASE FrameTick
    BY <2>2, FrameTickKeeps
  <2>3. CASE FrameTickFails
    BY <2>3, FrameTickFailsKeeps
  <2>4. CASE LogTick
    BY <2>4, LogTickKeeps
  <2>5. CASE UNCHANGED traceVars
    BY <2>5, TraceStutterKeeps
  <2> QED BY <2>1, <2>2, <2>3, <2>4, <2>5 DEF TraceNext
<1>2. TraceInv => ReportIsTrue
  BY NothingIsInvented, LinesAreCountedOnce, BlameIsGrounded
     DEF ReportIsTrue, TraceInv, SamplerInv
<1> QED BY TraceInitHolds, <1>1, <1>2, PTL DEF TraceSpec
=============================================================================
