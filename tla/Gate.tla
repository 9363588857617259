-------------------------------- MODULE Gate --------------------------------
(***************************************************************************)
(* What the input runner promises its user (crates/liw-input/src/          *)
(* runner.rs): keys become touches only behind a gate of three conditions, *)
(* and whatever shuts the gate lifts every finger and gives the devices    *)
(* back in the same step. There is no pipe, no channel, no engine and no   *)
(* published state here; module Runner implements this one.                *)
(***************************************************************************)
CONSTANTS
  Games,     \* packages with a profile
  NoGame,
  Fingers

VARIABLES
  focus,     \* the host's window has the focus
  mode,      \* the user's game mode
  game,      \* the game whose profile is kept
  open,      \* keys become touches
  touching,  \* the fingers that are down
  grab,      \* the devices are taken from the desktop
  over       \* the runner has ended

conditions == <<focus, mode, game>>
vars == <<conditions, open, touching, grab, over>>

Init ==
  /\ focus \in BOOLEAN /\ mode \in BOOLEAN
  /\ game = NoGame /\ ~open /\ touching = {} /\ ~grab /\ ~over

Allowed == focus /\ mode /\ game # NoGame

(* A condition changes: the gate follows at once, with no finger down, and *)
(* the devices are not given back while it stays or becomes open.          *)
Change ==
  /\ ~over /\ UNCHANGED over
  /\ focus' \in BOOLEAN /\ mode' \in BOOLEAN /\ game' \in Games \cup {NoGame}
  /\ conditions' # conditions
  /\ open' = Allowed'
  /\ touching' = {}
  /\ grab' => open'
  /\ grab /\ open' => grab'

(* A system layer over the game: the gate shuts, the conditions stay.      *)
Cover ==
  /\ ~over /\ open
  /\ ~open' /\ touching' = {} /\ ~grab'
  /\ UNCHANGED <<conditions, over>>

(* The mapping at work, or a pipe renewed under it.                        *)
Map ==
  /\ ~over /\ open
  /\ touching' \in SUBSET Fingers
  /\ UNCHANGED <<conditions, open, grab, over>>

(* The end: on request with every finger lifted; a failing device leaves   *)
(* them as they are.                                                       *)
End ==
  /\ ~over /\ over'
  /\ ~open' /\ touching' \in {{}, touching} /\ ~grab'
  /\ UNCHANGED conditions

Next == Change \/ Cover \/ Map \/ End

Spec == Init /\ [][Next]_vars
=============================================================================
