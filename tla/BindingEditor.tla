--------------------------- MODULE BindingEditor ---------------------------
(***************************************************************************)
(* Laying controls onto the game, in the game's own window                 *)
(* (crates/liw-ui/src/mapper.rs, with the keys and clicks of game.rs): a   *)
(* copy of the served profile is edited and saved by Store::save, beside   *)
(* others who save the same package's profile.                             *)
(*                                                                         *)
(* A control is its kind, its triggers, where it is and, for a joystick,   *)
(* how large. A tap and a toggle are edited alike and are one kind here;   *)
(* swipes and keys of other names come from other editors. The files       *)
(* behind `served' are in module Profiles.                                 *)
(***************************************************************************)
EXTENDS Naturals, FiniteSets, SequencesExt

CONSTANTS
  TriggerKeys,   \* keys with an evdev code
  Blank,         \* Key(0): not set
  Directions,    \* the order a joystick is filled in; four in the code
  Span,          \* positions and sizes are 0 .. Span
  Authored,      \* what others save
  MaxControls,   \* bound: generated names
  MaxEdits       \* bound: steps of its user, without Save, Select and Done

(* Binding: an aim needs no key, a joystick has one per direction.         *)
Controls ==
  [kind : {"button", "joystick", "aim", "swipe"}, at : 0 .. Span, radius : 0 .. Span,
   keys : Seq(TriggerKeys \cup {Blank})]

ASSUME EditorAssumption ==
  /\ Blank \notin TriggerKeys /\ Len(Directions) \in Nat \ {0}
  /\ Span \in Nat /\ MaxControls \in Nat /\ MaxEdits \in Nat
  /\ \A p \in Authored : p \in [DOMAIN p -> Controls]

VARIABLES
  editing,    \* Mapper.on
  profile,    \* Mapper.profile: a control for each name; none while it is off
  selected,   \* a name, or NoControl
  binding,    \* waiting for a key
  saved, failed,   \* what the panel says of the last save
  served,     \* the profile the store serves
  crossed,    \* history: others have changed it since the last save here
  edits       \* the bound's counter

shown == <<editing, profile, selected, binding, saved, failed>>
editorVars == <<shown, served, crossed, edits>>

----------------------------------------------------------------------------
Nothing == <<>>              \* no bindings
NoControl == MaxControls + 1
Unbound(n) == [i \in 1 .. n |-> Blank]

(* What the palette offers, with nothing bound yet.                        *)
NewControl(kind) ==
  [kind |-> kind, at |-> 0, radius |-> 0,
   keys |-> CASE kind = "button" -> Unbound(1)
              [] kind = "joystick" -> Unbound(Len(Directions))
              [] kind = "aim" -> <<>>]

(* Profile::validate: some binding, and no trigger twice; a direction      *)
(* without a key is a trigger like any other.                              *)
Valid(p) ==
  /\ p # Nothing
  /\ \A c, d \in DOMAIN p : \A i \in DOMAIN p[c].keys, j \in DOMAIN p[d].keys :
       p[c].keys[i] = p[d].keys[j] => c = d /\ i = j

Missing(c) == Blank \in ToSet(c.keys)

(* One more step of its user.                                              *)
Edits == edits < MaxEdits /\ edits' = edits + 1

(* An edit of the profile is not saved yet.                                *)
Changes(p) ==
  /\ Edits
  /\ profile' = p /\ saved' = FALSE
  /\ UNCHANGED <<editing, failed, served, crossed>>

(* The selected control, changed.                                          *)
WithSelected(c) == [profile EXCEPT ![selected] = c]
Selected == editing /\ selected \in DOMAIN profile

----------------------------------------------------------------------------
(* toggle_mapping: begin, then end, which drops what was not saved.        *)
BeginEdit ==
  /\ ~editing /\ editing' = TRUE
  /\ Edits
  /\ profile' = served /\ selected' = NoControl
  /\ binding' = FALSE /\ saved' = FALSE /\ failed' = FALSE
  /\ UNCHANGED <<served, crossed>>

EndEdit ==
  /\ editing /\ editing' = FALSE
  /\ profile' = Nothing /\ selected' = NoControl /\ binding' = FALSE
  /\ UNCHANGED <<saved, failed, served, crossed, edits>>

(* A click on the picture. The name is the first one free.                 *)
Place(kind) ==
  /\ editing
  /\ \E n \in 1 .. MaxControls :
       /\ n \notin DOMAIN profile /\ 1 .. n - 1 \subseteq DOMAIN profile
       /\ Changes([m \in DOMAIN profile \cup {n} |->
                     IF m = n THEN NewControl(kind) ELSE profile[m]])
       /\ selected' = n
  /\ binding' = (kind # "aim")

(* A click on a control. A swipe is not drawn.                             *)
SelectControl(n) ==
  /\ editing /\ n \in DOMAIN profile /\ profile[n].kind # "swipe"
  /\ selected' = n /\ binding' = FALSE
  /\ UNCHANGED <<editing, profile, saved, failed, served, crossed, edits>>

(* A joystick's first direction without a key, or the one key of another.  *)
Bound(c, k) ==
  IF c.kind = "joystick" /\ ~Missing(c) THEN c
  ELSE [c EXCEPT !.keys =
          IF c.kind = "joystick" THEN [@ EXCEPT ![SelectInSeq(@, LAMBDA t : t = Blank)] = k]
          ELSE <<k>>]

TakeKey(k) ==
  /\ binding /\ Selected /\ profile[selected].kind # "swipe"
  /\ Changes(WithSelected(Bound(profile[selected], k)))
  /\ binding' = (profile'[selected].kind = "joystick" /\ Missing(profile'[selected]))
  /\ UNCHANGED selected

(* Mutant of Nudge: the panel still says that all is saved.                *)
NudgeKeepingSaved ==
  /\ Selected /\ profile[selected].kind # "swipe" /\ Edits
  /\ \E to \in 0 .. Span :
       /\ to \in {profile[selected].at + 1, profile[selected].at - 1}
       /\ profile' = WithSelected([profile[selected] EXCEPT !.at = to])
  /\ UNCHANGED <<editing, selected, binding, saved, failed, served, crossed>>

(* An arrow key. At the edge it stays where it is.                         *)
Nudge ==
  /\ Selected /\ profile[selected].kind # "swipe"
  /\ \E to \in {profile[selected].at + 1, profile[selected].at - 1, profile[selected].at} :
       /\ to \in 0 .. Span
       /\ to = profile[selected].at => to \in {0, Span}
       /\ Changes(WithSelected([profile[selected] EXCEPT !.at = to]))
  /\ UNCHANGED <<selected, binding>>

(* [ and ]: of a joystick only.                                            *)
Resize ==
  /\ Selected /\ profile[selected].kind = "joystick"
  /\ \E to \in {profile[selected].radius + 1, profile[selected].radius - 1,
                profile[selected].radius} :
       /\ to \in 0 .. Span
       /\ to = profile[selected].radius => to \in {0, Span}
       /\ Changes(WithSelected([profile[selected] EXCEPT !.radius = to]))
  /\ UNCHANGED <<selected, binding>>

RemoveSelected ==
  /\ Selected
  /\ Changes([m \in DOMAIN profile \ {selected} |-> profile[m]])
  /\ selected' = NoControl /\ binding' = FALSE

Escape ==
  /\ editing
  /\ selected' = NoControl /\ binding' = FALSE
  /\ UNCHANGED <<editing, profile, saved, failed, served, crossed, edits>>

(* Store::save: refused if it is not valid; a write that fails half way    *)
(* leaves what the store serves without that file.                         *)
SaveEdit ==
  /\ editing
  /\ \/ /\ Valid(profile) /\ served' = profile
        /\ saved' = TRUE /\ failed' = FALSE /\ crossed' = FALSE
     \/ /\ served' \in {served} \cup (IF Valid(profile) THEN Authored \cup {Nothing} ELSE {})
        /\ saved' = FALSE /\ failed' = TRUE /\ UNCHANGED crossed
  /\ UNCHANGED <<editing, profile, selected, binding, edits>>

(* The daemon's SaveProfile and DeleteProfile, the browser editor, the     *)
(* command line.                                                           *)
OthersSave ==
  /\ Edits
  /\ served' \in Authored \cup {Nothing}
  /\ crossed' = TRUE
  /\ UNCHANGED shown

----------------------------------------------------------------------------
EditorInit ==
  /\ editing = FALSE /\ profile = Nothing /\ selected = NoControl
  /\ binding = FALSE /\ saved = FALSE /\ failed = FALSE
  /\ served \in Authored \cup {Nothing} /\ crossed = FALSE
  /\ edits = 0

EditorNext ==
  \/ BeginEdit \/ EndEdit
  \/ \E kind \in {"button", "joystick", "aim"} : Place(kind)
  \/ \E n \in DOMAIN profile : SelectControl(n)
  \/ \E k \in TriggerKeys : TakeKey(k)
  \/ Nudge \/ Resize \/ RemoveSelected \/ Escape
  \/ SaveEdit \/ OthersSave

EditorSpec == EditorInit /\ [][EditorNext]_editorVars

----------------------------------------------------------------------------
(* As long as the panel says "Saved.", and nobody else has saved since,    *)
(* what is on the picture is what the store serves.                        *)
SavedIsOnThePicture == editing /\ saved /\ ~crossed => served = profile

(* "press a key..." is only said of a control that lacks one, so a press   *)
(* never takes a key away from a control that had it.                      *)
WaitsForAKey == binding => Selected /\ Missing(profile[selected])

EditorIsTrue == SavedIsOnThePicture /\ WaitsForAKey

(* "anything else becomes the binding" (game.rs, on_key): a control that   *)
(* is selected and lacks a key takes the next one.                         *)
ElseBecomesTheBinding == Selected /\ Missing(profile[selected]) => binding
=============================================================================
