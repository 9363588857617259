---------------------------- MODULE WindowProofs ----------------------------
(***************************************************************************)
(* A game window: the compositor behind its picture (one socket, one       *)
(* thread, one guest, for any number of windows and sizes) and the path of *)
(* its mouse into Android; and Waydroid's own window, which is made        *)
(* fullscreen once.                                                        *)
(***************************************************************************)
EXTENDS Compositor, TouchPath, Fullscreen, TLAPS

----------------------------------------------------------------------------
(* The compositor.                                                         *)

Threads == {"none", "starting", "running", "ended"}

TypeInv ==
    /\ ui \in [Windows -> {"new", "spawning", "open", "closed"}]
    /\ thread \in [Windows -> Threads]
    /\ socket \in Windows \cup {NoOne}
    /\ client \in {"away", "connected", "hosted"}

(* The name is bound by the one thread that is starting or running.        *)
SocketHasItsThread ==
    \A w \in Windows : thread[w] \in {"starting", "running"} <=> socket = w

(* A guest is a client of a running thread, and its surface is hosted.     *)
GuestHasItsHost ==
    /\ client # "away" => socket # NoOne /\ thread[socket] = "running"
    /\ surface <=> client = "hosted"

(* A window waits in spawn() only for a thread that is starting.           *)
SpawnWaits ==
    \A w \in Windows : ui[w] = "spawning" => thread[w] = "starting"

OneHost == SocketHasItsThread /\ GuestHasItsHost /\ SpawnWaits

IInv == TypeInv /\ OneHost /\ ScreenIsTheToplevels

----------------------------------------------------------------------------
LEMMA InitIInv == Init => IInv
BY CompositorAssumption
   DEF Init, IInv, TypeInv, Threads, OneHost, SocketHasItsThread, GuestHasItsHost, SpawnWaits,
       ScreenIsTheToplevels

(* The steps of a window: a name is bound when nobody has it.              *)
LEMMA WindowStep ==
  ASSUME IInv, NEW w \in Windows, Window(w)
  PROVE  IInv'
<1> USE DEF IInv, TypeInv, Threads
<1>1. ScreenIsTheToplevels'
  BY DEF Window, Open, SpawnTimesOut, Resize, Poll, Close, ScreenIsTheToplevels, guestVars, hostVars
<1>2. CASE Open(w) /\ socket = NoOne
  <2>1. /\ socket' = w /\ UNCHANGED <<client, surface>>
        /\ thread' = [thread EXCEPT ![w] = "starting"]
        /\ ui' = [ui EXCEPT ![w] = "spawning"]
    BY <1>2 DEF Open, guestVars, hostVars
  <2>2. client = "away"
    BY <1>2 DEF OneHost, GuestHasItsHost
  <2>3. \A v \in Windows : thread[v] \notin {"starting", "running"}
    BY <1>2, CompositorAssumption DEF OneHost, SocketHasItsThread
  <2>4. TypeInv'
    BY <2>1
  <2>5. OneHost'
    BY <2>1, <2>2, <2>3 DEF OneHost, SocketHasItsThread, GuestHasItsHost, SpawnWaits
  <2> QED BY <1>1, <2>4, <2>5
<1>3. CASE Open(w) /\ socket # NoOne
  <2>1. UNCHANGED <<socket, thread, client, surface>> /\ ui' = [ui EXCEPT ![w] = "open"]
    BY <1>3 DEF Open, guestVars, hostVars
  <2> QED BY <1>1, <2>1 DEF OneHost, SocketHasItsThread, GuestHasItsHost, SpawnWaits
<1>4. CASE SpawnTimesOut(w) \/ Close(w)
  <2>1. /\ UNCHANGED <<socket, thread, client, surface>>
        /\ ui' = [ui EXCEPT ![w] = "open"] \/ ui' = [ui EXCEPT ![w] = "closed"]
    BY <1>4 DEF SpawnTimesOut, Close, guestVars, hostVars
  <2> QED BY <1>1, <2>1 DEF OneHost, SocketHasItsThread, GuestHasItsHost, SpawnWaits
<1>5. CASE Poll(w) \/ \E s \in Sizes : Resize(w, s)
  <2>1. UNCHANGED <<socket, thread, client, surface, ui>>
    BY <1>5 DEF Poll, Resize, guestVars, hostVars
  <2> QED BY <1>1, <2>1 DEF OneHost, SocketHasItsThread, GuestHasItsHost, SpawnWaits
<1> QED BY <1>2, <1>3, <1>4, <1>5 DEF Window

(* A thread that ends frees the name and takes its guest with it.          *)
LEMMA ThreadEnds ==
  ASSUME IInv, NEW w \in Windows, thread[w] \in {"starting", "running"},
         thread' = [thread EXCEPT ![w] = "ended"], Unbind,
         ui' \in [Windows -> {"new", "spawning", "open", "closed"}],
         \A v \in Windows : ui'[v] = "spawning" => ui[v] = "spawning" /\ v # w
  PROVE  IInv'
<1> USE DEF IInv, TypeInv, Threads
<1>1. socket = w /\ socket' = NoOne
  BY DEF OneHost, SocketHasItsThread, Unbind
<1>2. \A v \in Windows \ {w} : thread[v] \notin {"starting", "running"} /\ thread'[v] = thread[v]
  BY <1>1 DEF OneHost, SocketHasItsThread
<1>3. thread'[w] = "ended"
  OBVIOUS
<1>4. SocketHasItsThread'
  BY <1>1, <1>2, <1>3, CompositorAssumption DEF SocketHasItsThread
<1>5. GuestHasItsHost' /\ ScreenIsTheToplevels'
  BY DEF Unbind, GuestHasItsHost, ScreenIsTheToplevels
<1>6. SpawnWaits'
  BY <1>2 DEF OneHost, SpawnWaits
<1>7. TypeInv'
  BY <1>1 DEF Unbind
<1> QED BY <1>4, <1>5, <1>6, <1>7 DEF OneHost

LEMMA ThreadStep ==
  ASSUME IInv, NEW w \in Windows, Thread(w)
  PROVE  IInv'
<1> USE DEF IInv, TypeInv, Threads
<1>1. CASE ThreadReady(w)
  <2>1. /\ UNCHANGED <<socket, client, surface, gsize, screen>>
        /\ thread[w] = "starting" /\ thread' = [thread EXCEPT ![w] = "running"]
        /\ \/ ui[w] = "spawning" /\ ui' = [ui EXCEPT ![w] = "open"]
           \/ ui[w] # "spawning" /\ ui' = ui
    BY <1>1 DEF ThreadReady, guestVars, hostVars
  <2>2. SocketHasItsThread'
    BY <2>1 DEF OneHost, SocketHasItsThread
  <2>3. GuestHasItsHost'
    BY <2>1 DEF OneHost, GuestHasItsHost, SocketHasItsThread
  <2>4. SpawnWaits'
    BY <2>1 DEF OneHost, SpawnWaits
  <2> QED BY <2>1, <2>2, <2>3, <2>4 DEF OneHost, ScreenIsTheToplevels
<1>2. CASE ThreadFails(w)
  BY <1>2, ThreadEnds DEF ThreadFails
<1>3. CASE Draw(w)
  <2>1. UNCHANGED <<socket, thread, client, surface, gsize, screen, ui>>
    BY <1>3 DEF Draw, windowVars
  <2> QED BY <2>1 DEF OneHost, SocketHasItsThread, GuestHasItsHost, SpawnWaits, ScreenIsTheToplevels
<1>4. CASE ThreadStops(w) \/ ThreadDies(w)
  <2>1. thread[w] = "running" /\ thread' = [thread EXCEPT ![w] = "ended"] /\ Unbind /\ ui' = ui
    BY <1>4 DEF ThreadStops, ThreadDies, Running, windowVars
  <2>2. ui[w] # "spawning"
    BY <2>1 DEF OneHost, SpawnWaits
  <2> QED BY <2>1, <2>2, ThreadEnds
<1> QED BY <1>1, <1>2, <1>3, <1>4 DEF Thread

(* The guest: its own toplevel is what the size is taken from.             *)
LEMMA GuestStep ==
  ASSUME IInv, Guest
  PROVE  IInv'
<1> USE DEF IInv, TypeInv, Threads
<1>1. CASE Connect
  BY <1>1 DEF Connect, windowVars, hostVars, OneHost, SocketHasItsThread, GuestHasItsHost, SpawnWaits,
              ScreenIsTheToplevels
<1>2. CASE NewToplevel
  BY <1>2 DEF NewToplevel, windowVars, OneHost, SocketHasItsThread, GuestHasItsHost, SpawnWaits,
              ScreenIsTheToplevels
<1>3. CASE \E s \in Screens : CommitScreen(s)
  BY <1>3 DEF CommitScreen, SawBuffer, windowVars, OneHost, SocketHasItsThread, GuestHasItsHost,
              SpawnWaits, ScreenIsTheToplevels
<1>4. CASE CommitCursor
  BY <1>4 DEF CommitCursor, SawBuffer, windowVars, guestVars, OneHost, SocketHasItsThread,
              GuestHasItsHost, SpawnWaits, ScreenIsTheToplevels
<1>5. CASE DestroyToplevel
  BY <1>5 DEF DestroyToplevel, windowVars, OneHost, SocketHasItsThread, GuestHasItsHost, SpawnWaits,
              ScreenIsTheToplevels
<1> QED BY <1>1, <1>2, <1>3, <1>4, <1>5 DEF Guest

(* The inductive invariant of the compositor: one thread, its socket, its *)
(* guest and the size of the guest's toplevel (embedded.rs, state.rs).     *)
THEOREM InvariantHolds == Spec => []IInv
<1>1. IInv /\ [Next]_vars => IInv'
  <2> SUFFICES ASSUME IInv, [Next]_vars PROVE IInv'
    OBVIOUS
  <2>1. CASE UNCHANGED vars
    BY <2>1 DEF vars, windowVars, guestVars, hostVars, IInv, TypeInv, OneHost, SocketHasItsThread,
                GuestHasItsHost, SpawnWaits, ScreenIsTheToplevels
  <2> QED BY <2>1, WindowStep, ThreadStep, GuestStep DEF Next
<1> QED BY <1>1, InitIInv, PTL DEF Spec

(* However many windows are opened, closed and timed out, one compositor   *)
(* thread has the socket, and a guest never outlives it.                   *)
THEOREM OneThreadHosts == Spec => []OneHost
<1>1. IInv => OneHost
  BY DEF IInv
<1> QED BY <1>1, InvariantHolds, PTL

(* The size clicks are fitted to is the toplevel's, whatever other         *)
(* surfaces commit.                                                        *)
THEOREM SizeIsTheScreens == Spec => []ScreenIsTheToplevels
<1>1. IInv => ScreenIsTheToplevels
  BY DEF IInv
<1> QED BY <1>1, InvariantHolds, PTL

----------------------------------------------------------------------------
(* The mouse as a finger (module TouchPath), for every size of the FIFO    *)
(* and every number of hotplugs.                                           *)

FrameKinds == {"put", "lift", "other"}

TouchTypeOK ==
  /\ button \in {"up", "held", "gone"} /\ editing \in BOOLEAN
  /\ window \in {"open", "closed"}
  /\ pipe \in Nat /\ slotDown \in BOOLEAN /\ down \in BOOLEAN
  /\ opener \in {"sleeping", "asked", "found", "sized", "opened"}
  /\ got \in Nat /\ allowed \in BOOLEAN
  /\ container \in {"down", "booting", "up"}
  /\ gen \in Nat /\ fifo \in Seq(FrameKinds)
  /\ finger \in BOOLEAN /\ lost \in BOOLEAN

Touches == [pipe : Nat, slot : BOOLEAN, down : BOOLEAN, fifo : Seq(FrameKinds), lost : BOOLEAN]

(* A finger that Android has, or will have, is one the window knows how to *)
(* lift: its record is set on both sides and its pipe is the one read.     *)
Known(t) ==
  DownAfter(t.fifo, finger) /\ ~t.lost => t.down /\ t.slot /\ ~Broken(t)

(* The window's finger is down only behind a pipe.                         *)
Backed(t) == t.down => t.pipe # NoPipe

Sound(t) == t \in Touches /\ Known(t) /\ Backed(t)

(* The window's finger is down for a reason.                               *)
DownHasItsButton == down => button # "up" /\ ~editing /\ window = "open"

(* A pipe is opened only when there is none.                               *)
OpensOnlyWithout == opener # "sleeping" => pipe = NoPipe

TouchIInv == TouchTypeOK /\ Sound(Touch) /\ DownHasItsButton /\ OpensOnlyWithout

----------------------------------------------------------------------------
(* What the last record says.                                              *)

(* Behind a frame of somebody else the slot is what it was.                *)
LEMMA OtherSaysNothing ==
  ASSUME NEW s \in Seq(FrameKinds), NEW d \in BOOLEAN
  PROVE  DownAfter(Append(s, "other"), d) => DownAfter(s, d)
<1> DEFINE n == Len(s)  a == Append(s, "other")
<1>1. n \in Nat /\ Len(a) = n + 1 /\ a[n + 1] = "other" /\ \A j \in 1 .. n : a[j] = s[j]
  OBVIOUS
<1> HIDE DEF a
<1>2. SUFFICES ASSUME DownAfter(a, d) PROVE DownAfter(s, d)
  BY DEF a
<1>3. PICK k \in 0 .. n + 1 : /\ IF k = 0 THEN d ELSE a[k] = "put"
                              /\ \A j \in k + 1 .. n + 1 : a[j] = "other"
  BY <1>1, <1>2 DEF DownAfter
<1>4. k \in 0 .. n
  BY <1>1, <1>3
<1>5. (IF k = 0 THEN d ELSE s[k] = "put") /\ \A j \in k + 1 .. n : s[j] = "other"
  BY <1>1, <1>3, <1>4
<1> QED BY <1>4, <1>5 DEF DownAfter

(* A lift is the last word.                                                *)
LEMMA LiftIsUp ==
  ASSUME NEW s \in Seq(FrameKinds), NEW d \in BOOLEAN
  PROVE  ~DownAfter(Append(s, "lift"), d)
<1> DEFINE n == Len(s)  a == Append(s, "lift")
<1>1. n \in Nat /\ Len(a) = n + 1 /\ a[n + 1] = "lift"
  OBVIOUS
<1> HIDE DEF a
<1>2. SUFFICES ASSUME DownAfter(a, d) PROVE FALSE
  BY DEF a
<1>3. PICK k \in 0 .. n + 1 : /\ IF k = 0 THEN d ELSE a[k] = "put"
                              /\ \A j \in k + 1 .. n + 1 : a[j] = "other"
  BY <1>1, <1>2 DEF DownAfter
<1>4. CASE k = n + 1
  BY <1>1, <1>3, <1>4
<1>5. CASE k # n + 1
  <2>1. n + 1 \in k + 1 .. n + 1
    BY <1>1, <1>3, <1>5
  <2> QED BY <1>1, <1>3, <2>1
<1> QED BY <1>4, <1>5

(* What Android has read counts as what was before.                        *)
LEMMA ReadingSaysTheSame ==
  ASSUME NEW s \in Seq(FrameKinds), s # <<>>, NEW d \in BOOLEAN,
         DownAfter(Tail(s), IF Head(s) = "other" THEN d ELSE Head(s) = "put")
  PROVE  DownAfter(s, d)
<1> DEFINE n == Len(s)  b == IF Head(s) = "other" THEN d ELSE Head(s) = "put"
<1>1. /\ n \in Nat /\ n > 0 /\ Len(Tail(s)) = n - 1 /\ s[1] = Head(s)
      /\ \A j \in 1 .. n - 1 : Tail(s)[j] = s[j + 1]
  OBVIOUS
<1>2. PICK k \in 0 .. n - 1 : /\ IF k = 0 THEN b ELSE Tail(s)[k] = "put"
                              /\ \A j \in k + 1 .. n - 1 : Tail(s)[j] = "other"
  BY <1>1 DEF DownAfter
<1> HIDE DEF n
<1>3. \A j \in k + 2 .. n : s[j] = "other"
  <2> SUFFICES ASSUME NEW j \in k + 2 .. n PROVE s[j] = "other"
    OBVIOUS
  <2>1. j - 1 \in k + 1 .. n - 1 /\ j - 1 \in 1 .. n - 1 /\ (j - 1) + 1 = j
    BY <1>1, <1>2
  <2> QED BY <1>1, <1>2, <2>1
<1>4. CASE k # 0
  <2>1. k + 1 \in 0 .. n /\ k + 1 # 0 /\ s[k + 1] = "put"
    BY <1>1, <1>2, <1>4
  <2> QED BY <1>1, <1>3, <2>1 DEF DownAfter, n
<1>5. CASE k = 0 /\ s[1] = "put"
  <2>1. 1 \in 0 .. n /\ \A j \in 1 + 1 .. n : s[j] = "other"
    BY <1>1, <1>3, <1>5
  <2> QED BY <1>5, <2>1 DEF DownAfter, n
<1>6. CASE k = 0 /\ s[1] # "put"
  <2>1. d /\ s[1] = "other"
    BY <1>1, <1>2, <1>6
  <2>2. \A j \in 0 + 1 .. n : s[j] = "other"
    BY <1>1, <1>3, <1>6, <2>1
  <2>3. 0 \in 0 .. n
    BY <1>1
  <2> QED BY <2>1, <2>2, <2>3 DEF DownAfter, n
<1> QED BY <1>2, <1>4, <1>5, <1>6

(* An empty FIFO says nothing of a slot that was up.                       *)
LEMMA NothingSaysNothing == ~DownAfter(<<>>, FALSE)
BY DEF DownAfter

----------------------------------------------------------------------------
(* The window's operations.                                                *)

(* A frame of the window, whatever the pipe answers: after a lift nothing  *)
(* is on its way down, except behind a full FIFO; after a put the record   *)
(* is set and the pipe is the one Android reads.                           *)
LEMMA DispatchEffect ==
  ASSUME NEW t, Sound(t), NEW what \in {"put", "lift"}, finger \in BOOLEAN,
         container \in {"down", "booting", "up"}
  PROVE  LET s == Dispatch(t, what) IN
         /\ s \in Touches /\ Backed(s)
         /\ s.down = t.down \/ s.pipe = NoPipe
         /\ DownAfter(s.fifo, finger) /\ ~s.lost =>
              what = "put" /\ s.slot /\ ~Broken(s) /\ s.pipe # NoPipe
<1> DEFINE s == Dispatch(t, what)  marked == [t EXCEPT !.slot = what = "put"]
<1>1. /\ t \in Touches /\ t.fifo \in Seq(FrameKinds) /\ t.lost \in BOOLEAN
      /\ (what = "put") \in BOOLEAN /\ NoPipe \in Nat /\ what \in FrameKinds
      /\ t.down => t.pipe # NoPipe
      /\ DownAfter(t.fifo, finger) /\ ~t.lost => t.down /\ t.slot /\ ~Broken(t)
  BY DEF Sound, Touches, FrameKinds, NoPipe, Known, Backed
<1>2. CASE t.pipe = NoPipe
  BY <1>1, <1>2 DEF Dispatch, Backed
<1>3. CASE t.pipe # NoPipe /\ Broken(t)
  <2>1. s = [marked EXCEPT !.pipe = NoPipe, !.slot = FALSE, !.down = FALSE]
    BY <1>3 DEF Dispatch
  <2>2. /\ s \in Touches /\ s.pipe = NoPipe /\ s.down = FALSE
        /\ s.fifo = t.fifo /\ s.lost = t.lost
    BY <1>1, <2>1 DEF Touches
  <2> HIDE DEF s
  <2>3. Backed(s)
    BY <2>2 DEF Backed
  <2>4. ~(DownAfter(s.fifo, finger) /\ ~s.lost)
    BY <1>1, <1>3, <2>2
  <2>5. /\ s \in Touches /\ Backed(s) /\ (s.down = t.down \/ s.pipe = NoPipe)
        /\ DownAfter(s.fifo, finger) /\ ~s.lost =>
             what = "put" /\ s.slot /\ ~Broken(s) /\ s.pipe # NoPipe
    BY <2>2, <2>3, <2>4
  <2> QED BY <2>5 DEF s
<1>4. CASE t.pipe # NoPipe /\ ~Broken(t) /\ Len(t.fifo) = FifoCap
  <2>1. s = [marked EXCEPT !.lost = @ \/ what = "lift"]
    BY <1>4 DEF Dispatch
  <2>2. /\ s \in Touches /\ s.pipe = t.pipe /\ s.down = t.down /\ s.slot = (what = "put")
        /\ s.fifo = t.fifo /\ s.lost = (t.lost \/ what = "lift")
    BY <1>1, <2>1 DEF Touches
  <2> HIDE DEF s
  <2>3. Backed(s) /\ ~Broken(s)
    BY <1>1, <1>4, <2>2 DEF Backed, Broken
  <2>4. /\ s \in Touches /\ Backed(s) /\ (s.down = t.down \/ s.pipe = NoPipe)
        /\ DownAfter(s.fifo, finger) /\ ~s.lost =>
             what = "put" /\ s.slot /\ ~Broken(s) /\ s.pipe # NoPipe
    BY <1>4, <2>2, <2>3
  <2> QED BY <2>4 DEF s
<1>5. CASE t.pipe # NoPipe /\ ~Broken(t) /\ Len(t.fifo) # FifoCap
  <2>1. s = [marked EXCEPT !.fifo = Append(@, what)]
    BY <1>5 DEF Dispatch
  <2>2. Append(t.fifo, what) \in Seq(FrameKinds)
    BY <1>1
  <2>3. /\ s \in Touches /\ s.pipe = t.pipe /\ s.down = t.down /\ s.slot = (what = "put")
        /\ s.fifo = Append(t.fifo, what) /\ s.lost = t.lost
    BY <1>1, <2>1, <2>2 DEF Touches
  <2> HIDE DEF s
  <2>4. Backed(s) /\ ~Broken(s)
    BY <1>1, <1>5, <2>3 DEF Backed, Broken
  <2>5. what = "lift" => ~DownAfter(s.fifo, finger)
    BY <1>1, <2>3, LiftIsUp
  <2>6. /\ s \in Touches /\ Backed(s) /\ (s.down = t.down \/ s.pipe = NoPipe)
        /\ DownAfter(s.fifo, finger) /\ ~s.lost =>
             what = "put" /\ s.slot /\ ~Broken(s) /\ s.pipe # NoPipe
    BY <1>5, <2>3, <2>4, <2>5
  <2> QED BY <2>6 DEF s
<1> QED BY <1>2, <1>3, <1>4, <1>5

(* The release of the button.                                              *)
LEMMA ReleaseEffect ==
  ASSUME NEW t, Sound(t), finger \in BOOLEAN, container \in {"down", "booting", "up"}
  PROVE  Sound(Release(t)) /\ ~Release(t).down
<1> DEFINE s == Dispatch(t, "lift")  r == Release(t)
<1>1. CASE ~t.down
  BY <1>1 DEF Release
<1>2. CASE t.down
  <2>1. s \in Touches /\ (DownAfter(s.fifo, finger) => s.lost)
    BY DispatchEffect
  <2>2. r = [s EXCEPT !.down = FALSE]
    BY <1>2 DEF Release
  <2> HIDE DEF s, r
  <2>3. r \in Touches /\ r.down = FALSE /\ r.fifo = s.fifo /\ r.lost = s.lost
    BY <2>1, <2>2 DEF Touches
  <2>4. Sound(r) /\ ~r.down
    BY <2>1, <2>3 DEF Sound, Known, Backed
  <2> QED BY <2>4 DEF r
<1> QED BY <1>1, <1>2

(* A press, over a finger that may still be down.                          *)
LEMMA PressEffect ==
  ASSUME NEW t, Sound(t), finger \in BOOLEAN, container \in {"down", "booting", "up"}
  PROVE  Sound(Press(t))
<1> DEFINE r == Release(t)  s == Dispatch(r, "put")  p == Press(t)
<1>1. Sound(r)
  BY ReleaseEffect
<1>2. /\ s \in Touches
      /\ DownAfter(s.fifo, finger) /\ ~s.lost => s.slot /\ ~Broken(s) /\ s.pipe # NoPipe
  <2> HIDE DEF r
  <2> QED BY <1>1, DispatchEffect
<1>3. p = [s EXCEPT !.down = s.pipe # NoPipe]
  BY DEF Press
<1> HIDE DEF s, p
<1>4. /\ p \in Touches /\ p.down = (s.pipe # NoPipe) /\ p.fifo = s.fifo /\ p.lost = s.lost
      /\ p.slot = s.slot /\ p.pipe = s.pipe
  BY <1>2, <1>3 DEF Touches
<1>5. Sound(p)
  BY <1>2, <1>4 DEF Sound, Known, Backed, Broken
<1> QED BY <1>5 DEF p

(* A drag.                                                                 *)
LEMMA DragEffect ==
  ASSUME NEW t, Sound(t), finger \in BOOLEAN, container \in {"down", "booting", "up"}
  PROVE  Sound(Drag(t)) /\ (Drag(t).down => t.down)
<1> DEFINE s == Dispatch(t, "put")
<1>1. CASE ~t.down
  BY <1>1 DEF Drag
<1>2. CASE t.down
  <2>1. /\ s \in Touches /\ Backed(s) /\ (s.down = t.down \/ s.pipe = NoPipe)
        /\ DownAfter(s.fifo, finger) /\ ~s.lost => s.slot /\ ~Broken(s) /\ s.pipe # NoPipe
    BY DispatchEffect
  <2>2. Drag(t) = s
    BY <1>2 DEF Drag
  <2> HIDE DEF s
  <2> QED BY <1>2, <2>1, <2>2 DEF Sound, Known
<1> QED BY <1>1, <1>2

(* The closing of the window.                                              *)
LEMMA ReleaseAllEffect ==
  ASSUME NEW t, Sound(t), finger \in BOOLEAN, container \in {"down", "booting", "up"}
  PROVE  Sound(ReleaseAll(t)) /\ ~ReleaseAll(t).down
<1> DEFINE s == IF t.slot /\ ~Broken(t) THEN Dispatch(t, "lift") ELSE t  r == ReleaseAll(t)
<1>1. s \in Touches /\ (DownAfter(s.fifo, finger) => s.lost)
  <2>1. CASE t.slot /\ ~Broken(t)
    BY <2>1, DispatchEffect
  <2>2. CASE ~(t.slot /\ ~Broken(t))
    BY <2>2 DEF Sound, Known
  <2> QED BY <2>1, <2>2
<1>2. r = [s EXCEPT !.slot = FALSE, !.down = FALSE]
  BY DEF ReleaseAll
<1> HIDE DEF s, r
<1>3. r \in Touches /\ r.down = FALSE /\ r.fifo = s.fifo /\ r.lost = s.lost
  BY <1>1, <1>2 DEF Touches
<1>4. Sound(r) /\ ~r.down
  BY <1>1, <1>3 DEF Sound, Known, Backed
<1> QED BY <1>4 DEF r

----------------------------------------------------------------------------
(* Induction.                                                              *)

(* No finger at first.                                                     *)
LEMMA InitTouch == TouchInit => TouchIInv
<1> SUFFICES ASSUME TouchInit PROVE TouchIInv
  OBVIOUS
<1>1. <<>> \in Seq(FrameKinds)
  OBVIOUS
<1>2. ~DownAfter(fifo, finger)
  BY NothingSaysNothing DEF TouchInit
<1>3. TouchTypeOK
  BY <1>1 DEF TouchInit, TouchTypeOK, NoPipe
<1> QED
  BY <1>2, <1>3 DEF TouchInit, TouchTypeOK, TouchIInv, Sound, Touch, Touches, Known, Backed,
     DownHasItsButton, OpensOnlyWithout

(* A handler of the pointer leaves a sound record, up when it should be.   *)
LEMMA BecomesEffect ==
  ASSUME TouchIInv, NEW t, Sound(t), Becomes(t),
         button' \in {"up", "held", "gone"}, editing' \in BOOLEAN, window' \in {"open", "closed"},
         t.down => button' # "up" /\ ~editing' /\ window' = "open",
         opener # "sleeping" => t.pipe = NoPipe
  PROVE  TouchIInv'
<1>1. t \in Touches /\ Known(t) /\ Backed(t)
  BY DEF Sound
<1>2. /\ pipe' = t.pipe /\ slotDown' = t.slot /\ down' = t.down /\ fifo' = t.fifo /\ lost' = t.lost
      /\ UNCHANGED <<opener, got, allowed, container, gen, finger>>
  BY DEF Becomes, task
<1>3. TouchTypeOK'
  BY <1>1, <1>2 DEF TouchIInv, TouchTypeOK, Touches
<1>4. Sound(Touch)'
  BY <1>1, <1>2 DEF Sound, Touch, Touches, Known, Backed, Broken
<1>5. DownHasItsButton' /\ OpensOnlyWithout'
  BY <1>2 DEF DownHasItsButton, OpensOnlyWithout
<1> QED BY <1>3, <1>4, <1>5 DEF TouchIInv

(* The pipe of a record without one stays without.                         *)
LEMMA NoPipeStays ==
  ASSUME NEW t, Sound(t), t.pipe = NoPipe
  PROVE  /\ Release(t).pipe = NoPipe /\ Drag(t).pipe = NoPipe
         /\ Press(t).pipe = NoPipe /\ ReleaseAll(t).pipe = NoPipe
<1>1. t \in Touches /\ ~t.down
  BY DEF Sound, Backed, Touches
<1>2. Release(t) = t /\ Drag(t) = t /\ Dispatch(t, "put") = t /\ Dispatch(t, "lift") = t
  BY <1>1 DEF Release, Drag, Dispatch
<1>3. Press(t) = [t EXCEPT !.down = t.pipe # NoPipe]
  BY <1>2 DEF Press
<1>4. ReleaseAll(t) = [t EXCEPT !.slot = FALSE, !.down = FALSE]
  BY <1>2 DEF ReleaseAll
<1> QED BY <1>1, <1>2, <1>3, <1>4 DEF Touches

(* Every step of the pointer.                                              *)
LEMMA PointerStep == ASSUME TouchIInv, Pointer PROVE TouchIInv'
<1> USE DEF Playing
<1>1. /\ Sound(Touch) /\ finger \in BOOLEAN /\ container \in {"down", "booting", "up"}
      /\ button \in {"up", "held", "gone"} /\ editing \in BOOLEAN /\ window \in {"open", "closed"}
      /\ down => button # "up" /\ ~editing /\ window = "open"
      /\ opener # "sleeping" => Touch.pipe = NoPipe
      /\ Touch.down = down
  BY DEF TouchIInv, TouchTypeOK, DownHasItsButton, OpensOnlyWithout, Touch
<1>2. /\ Sound(Release(Touch)) /\ ~Release(Touch).down
      /\ Sound(Press(Touch))
      /\ Sound(Drag(Touch)) /\ (Drag(Touch).down => down)
      /\ Sound(ReleaseAll(Touch)) /\ ~ReleaseAll(Touch).down
  BY <1>1, ReleaseEffect, PressEffect, DragEffect, ReleaseAllEffect
<1>3. opener # "sleeping" =>
        /\ Release(Touch).pipe = NoPipe /\ Drag(Touch).pipe = NoPipe
        /\ Press(Touch).pipe = NoPipe /\ ReleaseAll(Touch).pipe = NoPipe
  BY <1>1, NoPipeStays
<1>4. CASE MouseDownInside \/ MouseDownBeside
  BY <1>1, <1>2, <1>3, <1>4, BecomesEffect DEF MouseDownInside, MouseDownBeside, MouseDown
<1>5. CASE MouseDrag
  BY <1>1, <1>2, <1>3, <1>5, BecomesEffect DEF MouseDrag, mouse
<1>6. CASE MouseMove \/ MouseUp
  BY <1>1, <1>2, <1>3, <1>6, BecomesEffect DEF MouseMove, MouseUp
<1>7. CASE MouseUpUnheard
  BY <1>1, <1>7, BecomesEffect DEF MouseUpUnheard
<1>8. CASE ToggleEditing
  BY <1>1, <1>2, <1>3, <1>8, BecomesEffect DEF ToggleEditing
<1>9. CASE CloseWindow
  BY <1>1, <1>2, <1>3, <1>9, BecomesEffect DEF CloseWindow
<1> QED BY <1>4, <1>5, <1>6, <1>7, <1>8, <1>9 DEF Pointer

(* Every step of the task and of the helper: the pipe that is attached     *)
(* finds no finger on its way.                                             *)
LEMMA OpeningStep == ASSUME TouchIInv, Opening PROVE TouchIInv'
<1> USE DEF TouchIInv, TouchTypeOK, DownHasItsButton, OpensOnlyWithout, Sound, Touch, Touches,
        Known, Backed, Broken, Opener, mouse, touch, android
<1>1. CASE Ask
  BY <1>1 DEF Ask
<1>2. CASE FindContainer \/ ReadSize
  BY <1>2 DEF FindContainer, ReadSize
<1>3. CASE OpenFifo
  BY <1>3 DEF OpenFifo
<1>4. CASE Attach
  BY <1>4 DEF Attach
<1> QED BY <1>1, <1>2, <1>3, <1>4 DEF Opening

(* Every step of Android.                                                  *)
LEMMA AndroidStep == ASSUME TouchIInv, Android PROVE TouchIInv'
<1>1. /\ TouchTypeOK /\ Touch \in Touches /\ DownHasItsButton /\ OpensOnlyWithout
      /\ DownAfter(fifo, finger) /\ ~lost => down /\ slotDown /\ pipe = gen /\ container = "up"
      /\ down => pipe # NoPipe
  BY DEF TouchIInv, Sound, Known, Backed, Broken, Touch
<1>2. ASSUME UNCHANGED <<mouse, touch, task>>,
             container' \in {"down", "booting", "up"}, gen' \in Nat, fifo' \in Seq(FrameKinds),
             finger' \in BOOLEAN, lost' \in BOOLEAN,
             DownAfter(fifo', finger') /\ ~lost' =>
               down /\ slotDown /\ pipe = gen' /\ container' = "up"
      PROVE  TouchIInv'
  <2>1. /\ UNCHANGED <<button, editing, window, pipe, slotDown, down, opener, got, allowed>>
    BY <1>2 DEF mouse, touch, task
  <2>2. TouchTypeOK'
    BY <1>1, <1>2, <2>1 DEF TouchTypeOK
  <2>3. Sound(Touch)'
    BY <1>1, <1>2, <2>1, <2>2 DEF Sound, Touch, Touches, Known, Backed, Broken, TouchTypeOK
  <2> QED BY <1>1, <2>1, <2>2, <2>3 DEF TouchIInv, DownHasItsButton, OpensOnlyWithout
<1>3. <<>> \in Seq(FrameKinds) /\ ~DownAfter(<<>>, FALSE)
  <2>1. <<>> \in Seq(FrameKinds)
    OBVIOUS
  <2> QED BY <2>1, NothingSaysNothing, Zenon
<1> USE DEF TouchTypeOK
<1>4. CASE ReadFrame
  <2>1. Tail(fifo) \in Seq(FrameKinds)
    BY <1>1, <1>4 DEF ReadFrame
  <2>2. finger' \in BOOLEAN
    <3>1. finger' = finger \/ finger' = (Head(fifo) = "put")
      BY <1>4 DEF ReadFrame
    <3> QED BY <1>1, <3>1
  <2>3. DownAfter(fifo', finger') => DownAfter(fifo, finger)
    BY <1>1, <1>4, ReadingSaysTheSame DEF ReadFrame
  <2> QED BY <1>1, <1>2, <1>4, <2>1, <2>2, <2>3 DEF ReadFrame
<1>5. CASE WriteOther
  <2>1. Append(fifo, "other") \in Seq(FrameKinds)
    BY <1>1 DEF FrameKinds
  <2>2. DownAfter(fifo', finger') => DownAfter(fifo, finger)
    BY <1>1, <1>5, OtherSaysNothing DEF WriteOther
  <2> QED BY <1>1, <1>2, <1>5, <2>1, <2>2 DEF WriteOther
<1>6. CASE Hotplug
  <2>1. gen' \in Nat
    BY <1>1, <1>6 DEF Hotplug
  <2> QED BY <1>1, <1>2, <1>3, <1>6, <2>1 DEF Hotplug
<1>7. CASE Stop
  BY <1>1, <1>2, <1>3, <1>7 DEF Stop
<1>8. CASE Start
  BY <1>1, <1>2, <1>8 DEF Start
<1> QED BY <1>4, <1>5, <1>6, <1>7, <1>8 DEF Android

(* The inductive invariant of the touch path: a finger that is down, or on *)
(* its way down, in Android is one the window knows and can lift (touch.rs,*)
(* wl_touch.rs, game.rs).                                                  *)
THEOREM TouchInvariantHolds == TouchSpec => []TouchIInv
<1>1. TouchIInv /\ [TouchNext]_touchVars => TouchIInv'
  <2> SUFFICES ASSUME TouchIInv, [TouchNext]_touchVars PROVE TouchIInv'
    OBVIOUS
  <2>1. CASE UNCHANGED touchVars
    BY <2>1 DEF touchVars, mouse, touch, task, android, TouchIInv, TouchTypeOK, Sound, Touch,
       Touches, Known, Backed, Broken, DownHasItsButton, OpensOnlyWithout
  <2> QED BY <2>1, PointerStep, OpeningStep, AndroidStep DEF TouchNext
<1> QED BY <1>1, InitTouch, PTL DEF TouchSpec

(* No finger stays down in Android without the button, over any number of  *)
(* hotplugs, restarts and reopened pipes, but for a full FIFO.             *)
THEOREM NoFingerWithoutTheButton == TouchSpec => []FingerNeedsTheButton
<1>1. TouchIInv => FingerNeedsTheButton
  BY DEF TouchIInv, Sound, Known, Touch, DownHasItsButton, FingerNeedsTheButton, SlotDrained
<1> QED BY <1>1, TouchInvariantHolds, PTL

----------------------------------------------------------------------------
(* Waydroid's own window, and its one attempt at fullscreen.               *)

Geometries == [window : Nat, fullscreen : BOOLEAN, late : BOOLEAN]

(* The tasks: one that waits has attempts left.                            *)
TasksTypeOK ==
  /\ left \in [Tasks -> 0..Attempts] /\ asleep \subseteq Tasks
  /\ \A t \in asleep : left[t] > 0

FullscreenTypeOK ==
  /\ win \in Nat /\ opened \in Nat /\ heard \in Nat
  /\ geometry \in Geometries /\ reports \in Seq(Geometries)

(* Windows are numbered as they are opened; a window there is needs a      *)
(* session.                                                                *)
WindowsAreNumbered ==
  /\ win <= opened /\ heard <= opened
  /\ \A i \in 1 .. Len(reports) : reports[i].window <= opened
  /\ sess = "down" => win = NoWindow

(* A report sent after one that has told of the window there is tells of   *)
(* it too.                                                                 *)
ReportsAreInOrder ==
  win # NoWindow =>
    \A i, j \in 1 .. Len(reports) :
      i < j /\ reports[i].window = win => reports[j].window = win

(* When a report has told of the window there is, one that does not was    *)
(* overtaken, whether it is still on its way or has arrived.               *)
OthersAreLate ==
  win # NoWindow /\ heard = win =>
    /\ \A i \in 1 .. Len(reports) : reports[i].window = win \/ reports[i].late
    /\ geometry.window = win \/ geometry.late

WindowIInv ==
  FullscreenTypeOK /\ WindowsAreNumbered /\ ReportsAreInOrder /\ OthersAreLate

FullscreenIInv == TasksTypeOK /\ WindowIInv

(* Nothing is opened, asked or told as the daemon starts.                  *)
LEMMA FullscreenInitHolds == FullscreenInit => FullscreenIInv
<1> SUFFICES ASSUME FullscreenInit PROVE FullscreenIInv
  OBVIOUS
<1>1. TasksTypeOK
  BY FullscreenAssumption DEF FullscreenInit, TasksTypeOK
<1>2. FullscreenTypeOK
  BY DEF FullscreenInit, FullscreenTypeOK, NoGeometry, Geometries, NoWindow
<1>3. WindowsAreNumbered /\ ReportsAreInOrder /\ OthersAreLate
  BY DEF FullscreenInit, WindowsAreNumbered, ReportsAreInOrder, OthersAreLate, NoWindow
<1> QED BY <1>1, <1>2, <1>3 DEF FullscreenIInv, WindowIInv

(* The tasks of fullscreen_with_retry, whoever has spawned them.           *)
LEMMA TasksStep ==
  ASSUME TasksTypeOK, [FullscreenNext]_fullscreenVars
  PROVE  TasksTypeOK'
<1> USE DEF TasksTypeOK
<1>0. Attempts \in Nat \ {0}
  BY FullscreenAssumption
<1>1. CASE SpawnRetry
  <2>1. PICK t \in Free : left' = [left EXCEPT ![t] = Attempts] /\ asleep' = asleep
    BY <1>1 DEF SpawnRetry
  <2> QED BY <1>0, <2>1 DEF Free
<1>2. CASE UNCHANGED retry
  BY <1>2 DEF retry
<1>3. ASSUME NEW t \in Tasks, Request(t) PROVE TasksTypeOK'
  BY <1>3 DEF Request
<1>4. ASSUME NEW t \in Tasks, Look(t) PROVE TasksTypeOK'
  <2>1. /\ t \in asleep /\ asleep' = asleep \ {t}
        /\ left' = [left EXCEPT ![t] = IF Found /\ geometry.fullscreen THEN 0 ELSE left[t] - 1]
    BY <1>4 DEF Look
  <2>2. left[t] - 1 \in 0..Attempts /\ 0 \in 0..Attempts
    BY <1>0, <2>1
  <2>3. left' \in [Tasks -> 0..Attempts] /\ \A u \in Tasks : u # t => left'[u] = left[u]
    BY <2>1, <2>2
  <2> QED BY <2>1, <2>3
<1>5. SpawnRetry \/ UNCHANGED retry \/ \E t \in Tasks : Request(t) \/ Look(t)
  <2>1. CASE Tick
    BY <2>1 DEF Tick, TickStopped, TickUp, TickHealthy, PollLooks, TickDegraded, retry
  <2>2. CASE KWin \/ SetActiveWindow
    BY <2>2 DEF KWin, Report, RunScript, SetActiveWindow, Check, Mark, retry
  <2>3. CASE SessionMoves \/ User \/ UNCHANGED fullscreenVars
    BY <2>3 DEF SessionMoves, SessionBecomes, User, Focus, Fullscreen, OpenWindow, WindowCloses,
                Leave, fullscreenVars, retry
  <2>4. CASE Retry
    BY <2>4 DEF Retry
  <2> QED BY <2>1, <2>2, <2>3, <2>4 DEF FullscreenNext
<1> QED BY <1>1, <1>2, <1>3, <1>4, <1>5

(* Nothing new is said or opened, but the window or the session may go.    *)
LEMMA LessIsKnown ==
  ASSUME WindowIInv, UNCHANGED <<opened, geometry, reports, heard>>,
         win' \in {win, NoWindow}, sess' = "down" => win' = NoWindow
  PROVE  WindowIInv'
<1>1. win' \in Nat /\ win' <= opened
  BY DEF WindowIInv, FullscreenTypeOK, WindowsAreNumbered, NoWindow
<1> QED BY <1>1
        DEF WindowIInv, FullscreenTypeOK, WindowsAreNumbered, ReportsAreInOrder, OthersAreLate

(* What is on its way are reports, of windows that have a number.          *)
LEMMA ReportsTell ==
  ASSUME reports \in Seq(Geometries), NEW i \in 1 .. Len(reports)
  PROVE  reports[i] \in Geometries /\ reports[i].window \in Nat
<1>1. reports[i] \in Geometries
  OBVIOUS
<1> QED BY <1>1 DEF Geometries

(* A script says what window there is.                                     *)
LEMMA ScriptStep ==
  ASSUME WindowIInv, NEW s \in Scripts, RunScript(s)
  PROVE  WindowIInv'
<1> USE DEF WindowIInv
<1>1. fs' \in BOOLEAN
  <2>1. fs' = (fs \/ (s = "fullscreen" /\ win # NoWindow))
    BY DEF RunScript
  <2> QED BY <2>1, Zenon
<1> DEFINE said == [window |-> win, fullscreen |-> fs', late |-> FALSE]
<1>2. said \in Geometries /\ said.window = win
  BY <1>1 DEF Geometries, FullscreenTypeOK
<1>3. reports' = Append(reports, said)
  BY DEF RunScript, Reported
<1> HIDE DEF said
<1>4. /\ reports \in Seq(Geometries) /\ reports' \in Seq(Geometries)
      /\ Len(reports) \in Nat /\ Len(reports') = Len(reports) + 1
      /\ \A i \in 1 .. Len(reports) : reports'[i] = reports[i]
      /\ reports'[Len(reports) + 1] = said
  BY <1>2, <1>3 DEF FullscreenTypeOK
<1>5. UNCHANGED <<sess, win, opened, geometry, heard>>
  BY DEF RunScript
<1>6. \A i \in 1 .. Len(reports') :
        \/ i \in 1 .. Len(reports) /\ reports'[i] = reports[i]
        \/ i = Len(reports') /\ reports'[i].window = win
  BY <1>2, <1>4
<1>7. FullscreenTypeOK' /\ WindowsAreNumbered'
  BY <1>4, <1>5, <1>6 DEF FullscreenTypeOK, WindowsAreNumbered
<1>8. ReportsAreInOrder'
  BY <1>4, <1>5, <1>6 DEF ReportsAreInOrder
<1>9. OthersAreLate'
  BY <1>4, <1>5, <1>6 DEF OthersAreLate
<1> QED BY <1>7, <1>8, <1>9

(* What is left on its way when report i is taken: those before it, which  *)
(* it has overtaken, and those after it.                                   *)
LEMMA TakenLeaves ==
  ASSUME reports \in Seq(Geometries), NEW i \in 1 .. Len(reports), Taken(i)
  PROVE  /\ reports' \in Seq(Geometries) /\ Len(reports') = Len(reports) - 1
         /\ \A j \in 1 .. Len(reports') :
              \/ /\ j < i /\ j \in 1 .. Len(reports)
                 /\ reports'[j].window = reports[j].window /\ reports'[j].late
              \/ /\ j >= i /\ j + 1 \in 1 .. Len(reports) /\ j + 1 > i
                 /\ reports'[j] = reports[j + 1]
<1>1. Len(reports) \in Nat /\ Len(reports) - 1 \in Nat
  OBVIOUS
<1>2. \A j \in 1 .. Len(reports) : reports[j] \in Geometries
  OBVIOUS
<1>3. ASSUME NEW j \in 1 .. Len(reports) - 1
      PROVE  j \in 1 .. Len(reports) /\ j + 1 \in 1 .. Len(reports)
  BY <1>1
<1> DEFINE rest(j) == IF j < i THEN [reports[j] EXCEPT !.late = TRUE] ELSE reports[j + 1]
<1>4. reports' = [j \in 1 .. Len(reports) - 1 |-> rest(j)]
  BY DEF Taken
<1>5. ASSUME NEW g \in Geometries
      PROVE  /\ [g EXCEPT !.late = TRUE] \in Geometries
             /\ [g EXCEPT !.late = TRUE].window = g.window /\ [g EXCEPT !.late = TRUE].late
  BY DEF Geometries
<1>6. \A j \in 1 .. Len(reports) - 1 : rest(j) \in Geometries
  BY <1>2, <1>3, <1>5
<1>7. \A j \in 1 .. Len(reports) - 1 :
        \/ j < i /\ rest(j).window = reports[j].window /\ rest(j).late
        \/ j >= i /\ j + 1 > i /\ rest(j) = reports[j + 1]
  BY <1>1, <1>2, <1>3, <1>5
<1> HIDE DEF rest
<1>8. reports' \in Seq(Geometries) /\ Len(reports') = Len(reports) - 1
  BY <1>1, <1>4, <1>6
<1> QED BY <1>3, <1>4, <1>7, <1>8

(* A report that arrives: what it leaves behind tells of the window it     *)
(* tells of, or is late.                                                   *)
LEMMA ReportStep ==
  ASSUME WindowIInv, Report
  PROVE  WindowIInv'
<1> USE DEF WindowIInv
<1>1. PICK i \in 1 .. Len(reports) :
        /\ geometry' = reports[i] /\ Taken(i)
        /\ heard' = IF reports[i].window > heard THEN reports[i].window ELSE heard
  BY DEF Report
<1>2. UNCHANGED <<sess, win, opened>>
  BY DEF Report, session
<1>3. /\ reports \in Seq(Geometries) /\ reports[i] \in Geometries /\ reports[i].window \in Nat
      /\ win \in Nat /\ opened \in Nat /\ heard \in Nat /\ reports[i].window <= opened
  BY ReportsTell DEF FullscreenTypeOK, WindowsAreNumbered
<1>4. /\ reports' \in Seq(Geometries) /\ Len(reports') = Len(reports) - 1
      /\ \A j \in 1 .. Len(reports') :
           \/ /\ j < i /\ j \in 1 .. Len(reports)
              /\ reports'[j].window = reports[j].window /\ reports'[j].late
           \/ /\ j >= i /\ j + 1 \in 1 .. Len(reports) /\ j + 1 > i
              /\ reports'[j] = reports[j + 1]
  BY <1>1, <1>3, TakenLeaves
<1>lengths. Len(reports') = Len(reports) - 1 /\ Len(reports) \in Nat
  BY <1>3, <1>4
<1>5. FullscreenTypeOK'
  BY <1>1, <1>2, <1>3, <1>4 DEF FullscreenTypeOK
<1>6. WindowsAreNumbered'
  <2>1. heard' <= opened
    BY <1>1, <1>3 DEF WindowsAreNumbered
  <2>2. \A j \in 1 .. Len(reports') : reports'[j].window <= opened
    BY <1>4 DEF WindowsAreNumbered
  <2> QED BY <1>2, <2>1, <2>2 DEF WindowsAreNumbered
<1>7. ReportsAreInOrder'
  <2> SUFFICES ASSUME win # NoWindow, NEW j \in 1 .. Len(reports'), NEW k \in 1 .. Len(reports'),
                      j < k, reports'[j].window = win
               PROVE  reports'[k].window = win
    BY <1>2 DEF ReportsAreInOrder
  <2>1. PICK a \in 1 .. Len(reports) :
          a \in {j, j + 1} /\ reports'[j].window = reports[a].window /\ (a = j <=> j < i)
    <3>1. CASE j < i
      <4>1. j \in 1 .. Len(reports) /\ ~(j >= i)
        BY <1>lengths, <3>1
      <4>2. reports'[j].window = reports[j].window
        BY <1>4, <4>1
      <4> QED BY <3>1, <4>1, <4>2
    <3>2. CASE j >= i
      <4>1. j + 1 \in 1 .. Len(reports) /\ ~(j < i) /\ j + 1 # j
        BY <1>lengths, <3>2
      <4>2. reports'[j].window = reports[j + 1].window
        BY <1>4, <4>1
      <4> QED BY <3>2, <4>1, <4>2
    <3>3. i \in Nat /\ j \in Nat
      OBVIOUS
    <3> QED BY <3>1, <3>2, <3>3
  <2>2. PICK b \in 1 .. Len(reports) :
          b \in {k, k + 1} /\ reports'[k].window = reports[b].window /\ (b = k <=> k < i)
    <3>1. CASE k < i
      <4>1. k \in 1 .. Len(reports) /\ ~(k >= i)
        BY <1>lengths, <3>1
      <4>2. reports'[k].window = reports[k].window
        BY <1>4, <4>1
      <4> QED BY <3>1, <4>1, <4>2
    <3>2. CASE k >= i
      <4>1. k + 1 \in 1 .. Len(reports) /\ ~(k < i) /\ k + 1 # k
        BY <1>lengths, <3>2
      <4>2. reports'[k].window = reports[k + 1].window
        BY <1>4, <4>1
      <4> QED BY <3>2, <4>1, <4>2
    <3>3. i \in Nat /\ k \in Nat
      OBVIOUS
    <3> QED BY <3>1, <3>2, <3>3
  <2>3. a < b
    BY <2>1, <2>2
  <2> QED BY <2>1, <2>2, <2>3 DEF ReportsAreInOrder
<1>8. OthersAreLate'
  <2> SUFFICES ASSUME win # NoWindow, heard' = win
               PROVE  /\ \A j \in 1 .. Len(reports') : reports'[j].window = win \/ reports'[j].late
                      /\ geometry'.window = win \/ geometry'.late
    BY <1>2 DEF OthersAreLate
  <2>1. CASE reports[i].window = win
    <3>1. \A j \in 1 .. Len(reports) : i < j => reports[j].window = win
      BY <2>1 DEF ReportsAreInOrder
    <3> QED BY <1>1, <1>4, <2>1, <3>1
  <2>2. CASE reports[i].window # win
    <3>1. heard = win
      BY <1>1, <2>2
    <3>2. /\ \A j \in 1 .. Len(reports) : reports[j].window = win \/ reports[j].late
      BY <3>1 DEF OthersAreLate
    <3> QED BY <1>1, <1>4, <3>2
  <2> QED BY <2>1, <2>2
<1> QED BY <1>5, <1>6, <1>7, <1>8

(* A window that opens is a new one: no report has told of it.             *)
LEMMA OpenStep ==
  ASSUME WindowIInv, OpenWindow
  PROVE  WindowIInv'
<1> USE DEF WindowIInv
<1>1. /\ sess = "up" /\ sess' = sess /\ opened' = opened + 1 /\ win' = opened + 1
      /\ UNCHANGED <<geometry, reports, heard>>
  BY DEF OpenWindow, kwin
<1>2. /\ opened \in Nat /\ heard \in Nat /\ heard <= opened /\ reports \in Seq(Geometries)
      /\ \A i \in 1 .. Len(reports) : reports[i].window \in Nat /\ reports[i].window <= opened
  BY ReportsTell DEF FullscreenTypeOK, WindowsAreNumbered
<1>3. FullscreenTypeOK' /\ WindowsAreNumbered'
  BY <1>1, <1>2 DEF FullscreenTypeOK, WindowsAreNumbered
<1>4. ReportsAreInOrder' /\ OthersAreLate'
  BY <1>1, <1>2 DEF ReportsAreInOrder, OthersAreLate
<1> QED BY <1>3, <1>4

(* The loop finds the session stopped: what was known is forgotten, and    *)
(* there is no window.                                                     *)
LEMMA StoppedStep ==
  ASSUME WindowIInv, TickStopped
  PROVE  WindowIInv'
<1> USE DEF WindowIInv
<1>1. sess = "down" /\ UNCHANGED <<session, reports, heard>>
  BY DEF TickStopped, TickDone
<1>2. geometry' \in Geometries
  <2>1. NoGeometry \in Geometries /\ geometry \in Geometries
    BY DEF NoGeometry, NoWindow, Geometries, FullscreenTypeOK
  <2>2. geometry' = NoGeometry \/ geometry' = geometry
    BY DEF TickStopped
  <2> QED BY <2>1, <2>2
<1>3. win = NoWindow /\ win' = NoWindow
  BY <1>1 DEF WindowsAreNumbered, session
<1> QED BY <1>1, <1>2, <1>3
        DEF FullscreenTypeOK, WindowsAreNumbered, ReportsAreInOrder, OthersAreLate, session

(* The rest says nothing of the window, which may only go.                 *)
LEMMA OtherStep ==
  ASSUME WindowIInv,
         \/ TickUp \/ TickHealthy \/ PollLooks \/ TickDegraded \/ Retry
         \/ SetActiveWindow \/ SessionMoves \/ Focus \/ Fullscreen \/ WindowCloses \/ Leave
         \/ UNCHANGED fullscreenVars
  PROVE  WindowIInv'
<1>1. sess = "down" => win = NoWindow
  BY DEF WindowIInv, WindowsAreNumbered
<1>2. CASE TickUp \/ TickHealthy \/ PollLooks \/ TickDegraded
  BY <1>1, <1>2, LessIsKnown
     DEF TickUp, TickHealthy, PollLooks, TickDegraded, TickDone, session, kwin
<1>3. CASE Retry
  <2>1. UNCHANGED <<session, geometry, reports, heard>>
    BY <1>3 DEF Retry, Request, Look, kwin
  <2> QED BY <1>1, <2>1, LessIsKnown DEF session
<1>4. CASE SetActiveWindow \/ Focus \/ Fullscreen \/ WindowCloses \/ Leave \/ UNCHANGED fullscreenVars
  BY <1>1, <1>4, LessIsKnown
     DEF SetActiveWindow, Check, Mark, Focus, Fullscreen, WindowCloses, Leave, fullscreenVars,
         session, kwin
<1>5. CASE SessionMoves
  BY <1>1, <1>5, LessIsKnown DEF SessionMoves, SessionBecomes, kwin
<1> QED BY <1>2, <1>3, <1>4, <1>5

(* For any number of tasks, attempts, windows and reports, in whatever     *)
(* order these arrive and whatever KWin refuses: a report that does not    *)
(* tell of a window already heard of was overtaken (window.rs, main.rs).   *)
THEOREM FullscreenInvariantHolds == FullscreenSpec => []FullscreenIInv
<1>1. FullscreenIInv /\ [FullscreenNext]_fullscreenVars => FullscreenIInv'
  <2> SUFFICES ASSUME FullscreenIInv, [FullscreenNext]_fullscreenVars PROVE FullscreenIInv'
    OBVIOUS
  <2>1. TasksTypeOK'
    BY TasksStep DEF FullscreenIInv
  <2>2. WindowIInv'
    BY ScriptStep, ReportStep, OpenStep, StoppedStep, OtherStep
       DEF FullscreenIInv, FullscreenNext, Tick, KWin, User
  <2> QED BY <2>1, <2>2 DEF FullscreenIInv
<1> QED BY FullscreenInitHolds, <1>1, PTL DEF FullscreenSpec

(* For any number of tasks, attempts, windows and reports on their way,    *)
(* and any period of the poll: no poll clears the flag while a window is   *)
(* there that a report has told of, unless the report that came last had   *)
(* been overtaken (window.rs, note_window_gone).                           *)
THEOREM NobodyIsFought == FullscreenSpec => KnownIsKept
<1>1. FullscreenIInv /\ [FullscreenNext]_fullscreenVars
        => [attempted /\ ~attempted' => win = NoWindow \/ heard # win \/ geometry.late]_fullscreenVars
  <2> SUFFICES ASSUME FullscreenIInv, FullscreenNext, attempted, ~attempted',
                      win # NoWindow, heard = win, ~geometry.late
               PROVE  FALSE
    OBVIOUS
  <2>1. CASE TickStopped
    BY <2>1 DEF TickStopped, FullscreenIInv, WindowIInv, WindowsAreNumbered
  <2>2. CASE PollLooks
    <3>1. geometry.window = NoWindow
      BY <2>2 DEF PollLooks, NoteWindowGone, Found
    <3> QED BY <3>1 DEF FullscreenIInv, WindowIInv, OthersAreLate
  <2>3. CASE TickUp \/ TickHealthy \/ TickDegraded \/ Retry \/ KWin \/ SetActiveWindow
             \/ SessionMoves \/ User
    BY <2>3 DEF TickUp, TickHealthy, TickDegraded, Retry, Request, Look, KWin, RunScript, Report,
                SetActiveWindow, Check, Mark, SessionMoves, SessionBecomes, User, Focus, Fullscreen,
                OpenWindow, WindowCloses, Leave
  <2> QED BY <2>1, <2>2, <2>3 DEF FullscreenNext, Tick
<1> QED BY FullscreenInvariantHolds, <1>1, PTL DEF FullscreenSpec, KnownIsKept
=============================================================================
