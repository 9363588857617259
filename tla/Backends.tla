------------------------------ MODULE Backends ------------------------------
(***************************************************************************)
(* The two touch backends of crates/liw-input: uinput.rs (a virtual touch  *)
(* screen on the host) and wl_touch.rs (Waydroid's touch FIFO), as far as  *)
(* the runner can tell them apart, and the receiver behind them.           *)
(*                                                                         *)
(* A wire is a record: the fields of the backend the runner holds, what is *)
(* in the FIFO, and the ids down at the receiver. Like the pointer pool it *)
(* is passive: operators wire -> wire, which the runner's arms compose.    *)
(*                                                                         *)
(* A frame is one dispatch call, the batch between two SYN_REPORTs, as the *)
(* sets of ids it presses, moves and lifts. The engine's frames are legal  *)
(* (THEOREM FramesAreLegal of EngineProofs), so FramesFrom only offers     *)
(* legal ones.                                                             *)
(***************************************************************************)
EXTENDS Integers, Sequences

CONSTANTS
  Ids,       \* pointer ids, one multi-touch slot each
  FifoCap    \* how many frames the FIFO holds before a write would block

ASSUME FifoCapAssumption == FifoCap \in Nat \ {0}

Frames == [down : SUBSET Ids, move : SUBSET Ids, up : SUBSET Ids]
NoFrame == [down |-> {}, move |-> {}, up |-> {}]
Lifting(I) == [NoFrame EXCEPT !.up = I]

(* The ids down after a legal frame, if those of F were down before.       *)
After(f, F) == (F \cup f.down) \ f.up

FramesFrom(F) ==
  [down : SUBSET (Ids \ F), move : SUBSET F, up : {{}}]
    \cup [down : SUBSET (Ids \ F), move : {{}}, up : SUBSET F]

(* A wl_touch record carries the slot, its tracking id and the position    *)
(* for a Down and a Move alike, so a Move of an id that is up presses it:  *)
(* what is in the FIFO tells only which ids a frame puts and which it      *)
(* lifts.                                                                  *)
Records == [put : SUBSET Ids, lift : SUBSET Ids]
Encode(f) == [put |-> f.down \cup f.move, lift |-> f.up]
Received(r, F) == (F \cup r.put) \ r.lift

Wires ==
  [kind : {"uinput", "wl_touch"}, slots : SUBSET Ids, fifo : Seq(Records),
   broken : BOOLEAN, dropped : BOOLEAN, dead : BOOLEAN, screen : SUBSET Ids]

NewWire(kind) ==
  [kind |-> kind, slots |-> {}, fifo |-> <<>>, broken |-> FALSE,
   dropped |-> FALSE, dead |-> FALSE, screen |-> {}]

(* What the receiver will see once it has read all of the FIFO: the ids    *)
(* that are down or that some record puts, and that no record from there   *)
(* on lifts.                                                               *)
Drained(w) ==
  {i \in Ids : \E k \in 0 .. Len(w.fifo) :
     /\ i \in IF k = 0 THEN w.screen ELSE w.fifo[k].put
     /\ \A j \in (k .. Len(w.fifo)) \ {0} : i \notin w.fifo[j].lift}

(* A uinput Move has no tracking id, so it presses nothing.                *)
DispatchUinput(w, f) == [w EXCEPT !.slots = After(f, @), !.screen = After(f, @)]

(* The slots are updated before the write, whatever becomes of it: a full  *)
(* FIFO drops the frame and reports success, a broken one is an error.     *)
DispatchPipe(w, f) ==
  LET s == [w EXCEPT !.slots = Received(Encode(f), @)] IN
  IF w.broken THEN s
  ELSE IF Len(w.fifo) = FifoCap THEN [s EXCEPT !.dropped = TRUE]
  ELSE [s EXCEPT !.fifo = Append(@, Encode(f))]

Dispatch(w, f) == IF w.kind = "uinput" THEN DispatchUinput(w, f) ELSE DispatchPipe(w, f)

(* pipe_is_dead: the error a dispatch of f returns is EPIPE.               *)
Fails(w, f) == f # NoFrame /\ w.kind = "wl_touch" /\ w.broken

ReleaseAll(w) == IF w.slots = {} THEN w ELSE Dispatch(w, Lifting(w.slots))

----------------------------------------------------------------------------
(* The receiver (external).                                                *)

(* Android reads one frame.                                                *)
CanRead(w) == w.fifo # <<>>
Read(w) == [w EXCEPT !.fifo = Tail(@), !.screen = Received(Head(w.fifo), @)]

(* A display hotplug: hwcomposer deletes the FIFO and makes another, and   *)
(* Android forgets every touch of the removed device.                      *)
Hotplug(w) == [w EXCEPT !.broken = TRUE, !.fifo = <<>>, !.screen = {}]
=============================================================================
