---------------------------- MODULE Compositor -----------------------------
(* Android inside a game window: the compositor thread a window spawns      *)
(* (liw-compositor's embedded.rs, state.rs, headless.rs), the window's side *)
(* of it (liw-ui's android.rs and game.rs), and the guest, a Wayland client *)
(* that draws when the compositor tells it to.                              *)
(*                                                                          *)
(* The thread and the window share three things: the slot with the newest   *)
(* frame, the size the window wants, and the running flag.  A socket has    *)
(* one name, so one thread at a time hosts a guest; the state of its        *)
(* Compositor is kept once.  Pixels, damage and counters are left out: a    *)
(* frame is the size it was rendered at, the commit counters are whether    *)
(* something was committed since the last drawing.                          *)
EXTENDS Naturals

CONSTANTS
    Windows,      \* game windows, each opened once
    Sizes,        \* sizes of a view
    FirstSize,    \* the size a window starts its compositor with (1280 x 720)
    Screens,      \* sizes of the guest's screen
    Cursor,       \* the size of the guest's cursor surface
    NoOne, None,
    MaxFailures   \* captures that fail

ASSUME CompositorAssumption ==
    /\ FirstSize \in Sizes /\ NoOne \notin Windows
    /\ None \notin Sizes \cup Screens /\ Cursor \notin Sizes \cup Screens
    /\ MaxFailures \in Nat

VARIABLES
    ui,        \* the window: new, spawning (in spawn()), open, closed
    held,      \* it holds an Embedded
    flag,      \* Embedded.running
    want,      \* the size it asks for
    image,     \* the size of the picture it shows
    thread,    \* its compositor thread: none, starting, running, ended
    socket,    \* the window whose thread has the name bound
    surface,   \* Compositor.surface: a toplevel is hosted
    gsize,     \* Guest.size
    fresh,     \* commits # drawn_commits
    slot,      \* FrameSlot
    client,    \* the guest: away, connected, hosted (it has a toplevel)
    waiting,   \* it has committed and waits for its frame callback
    screen,    \* history: the size of its toplevel
    cameUp,    \* history: windows whose spawn returned Ok
    failures   \* captures that failed

windowVars == <<ui, held, flag, want, image>>
guestVars  == <<client, waiting, screen>>
hostVars   == <<surface, gsize, fresh, slot>>
vars == <<windowVars, thread, socket, guestVars, hostVars, cameUp, failures>>

Init ==
    /\ ui = [w \in Windows |-> "new"]
    /\ held = [w \in Windows |-> FALSE] /\ flag = [w \in Windows |-> FALSE]
    /\ want = [w \in Windows |-> FirstSize] /\ image = [w \in Windows |-> None]
    /\ thread = [w \in Windows |-> "none"] /\ socket = NoOne
    /\ surface = FALSE /\ gsize = None /\ fresh = TRUE /\ slot = None
    /\ client = "away" /\ waiting = FALSE /\ screen = None
    /\ cameUp = {} /\ failures = 0

\* A thread that ends drops its listener, and the client with it.
Unbind ==
    /\ socket' = NoOne /\ surface' = FALSE /\ gsize' = None /\ fresh' = TRUE
    /\ slot' = None
    /\ client' = "away" /\ waiting' = FALSE /\ screen' = None

-----------------------------------------------------------------------------
(* The window (liw-ui). *)

\* spawn binds the name before it starts the thread and waits for it; a name
\* in use is an error at once, and the window stays open without a picture.
Open(w) ==
    /\ ui[w] = "new"
    /\ \/ /\ socket = NoOne
          /\ ui' = [ui EXCEPT ![w] = "spawning"]
          /\ socket' = w
          /\ thread' = [thread EXCEPT ![w] = "starting"]
          /\ flag' = [flag EXCEPT ![w] = TRUE]
       \/ /\ socket # NoOne
          /\ ui' = [ui EXCEPT ![w] = "open"]
          /\ UNCHANGED <<socket, thread, flag>>
    /\ UNCHANGED <<held, want, image, guestVars, hostVars, cameUp, failures>>

\* Ten seconds without word from the thread: spawn answers that it failed.
SpawnTimesOut(w) ==
    /\ ui[w] = "spawning" /\ thread[w] = "starting"
    /\ ui' = [ui EXCEPT ![w] = "open"]
    /\ UNCHANGED <<held, flag, want, image, thread, socket, guestVars, hostVars,
                   cameUp, failures>>

\* render asks for the size of the view, whatever it is now.
Resize(w, s) ==
    /\ ui[w] = "open" /\ held[w] /\ want[w] # s
    /\ want' = [want EXCEPT ![w] = s]
    /\ UNCHANGED <<ui, held, flag, image, thread, socket, guestVars, hostVars,
                   cameUp, failures>>

\* pump: take_frame takes the newest frame out of the slot, if there is one.
Poll(w) ==
    /\ ui[w] = "open" /\ held[w] /\ flag[w] /\ socket = w /\ slot # None
    /\ image' = [image EXCEPT ![w] = slot]
    /\ slot' = None
    /\ UNCHANGED <<ui, held, flag, want, thread, socket, guestVars, surface,
                   gsize, fresh, cameUp, failures>>

\* on_release: the flag is all the thread is told.
Close(w) ==
    /\ ui[w] = "open"
    /\ ui' = [ui EXCEPT ![w] = "closed"]
    /\ held' = [held EXCEPT ![w] = FALSE]
    /\ flag' = [flag EXCEPT ![w] = @ /\ ~held[w]]
    /\ UNCHANGED <<want, image, thread, socket, guestVars, hostVars, cameUp, failures>>

-----------------------------------------------------------------------------
(* The compositor thread (liw-compositor/src/embedded.rs, run). *)

\* EGL and the display came up: the caller is told, if it still waits.
ThreadReady(w) ==
    /\ thread[w] = "starting"
    /\ thread' = [thread EXCEPT ![w] = "running"]
    /\ IF ui[w] = "spawning"
       THEN /\ ui' = [ui EXCEPT ![w] = "open"]
            /\ held' = [held EXCEPT ![w] = TRUE]
            /\ cameUp' = cameUp \cup {w}
       ELSE UNCHANGED <<ui, held, cameUp>>
    /\ UNCHANGED <<flag, want, image, socket, guestVars, hostVars, failures>>

\* No EGL device, no event loop: the error goes to the caller.
ThreadFails(w) ==
    /\ thread[w] = "starting"
    /\ thread' = [thread EXCEPT ![w] = "ended"]
    /\ ui' = [ui EXCEPT ![w] = IF @ = "spawning" THEN "open" ELSE @]
    /\ Unbind
    /\ UNCHANGED <<held, flag, want, image, cameUp, failures>>

\* Nothing to draw: no surface, or nothing committed since the last drawing.
Running(w) == thread[w] = "running" /\ flag[w]

\* The size is read again on every turn, and the target resized to it.
RenderSize(w) == want[w]

\* Variant: the callbacks are sent only when a frame could be published.
CallbackAfter(published) == waiting' = (waiting /\ ~published)

\* send_frames_surface_tree: drawn or dropped, the guest may draw the next one.
Callback(published) == waiting' = FALSE

\* One turn of the loop that draws at the size it reads; the frame replaces
\* the one the window has not taken.  A capture that fails is not retried.
Draw(w) ==
    /\ Running(w) /\ surface /\ fresh
    /\ fresh' = FALSE
    /\ \/ /\ slot' = RenderSize(w) /\ Callback(TRUE) /\ UNCHANGED failures
       \/ /\ failures < MaxFailures /\ failures' = failures + 1
          /\ Callback(FALSE) /\ UNCHANGED slot
    /\ UNCHANGED <<windowVars, thread, socket, client, screen, surface, gsize, cameUp>>

\* The while condition: the flag is read on every turn.
ThreadStops(w) ==
    /\ thread[w] = "running" /\ ~flag[w]
    /\ thread' = [thread EXCEPT ![w] = "ended"]
    /\ Unbind
    /\ UNCHANGED <<windowVars, cameUp, failures>>

\* dispatch or resize fails: run returns the error, nobody resets the flag.
ThreadDies(w) ==
    /\ Running(w)
    /\ thread' = [thread EXCEPT ![w] = "ended"]
    /\ Unbind
    /\ UNCHANGED <<windowVars, cameUp, failures>>

-----------------------------------------------------------------------------
(* The guest's requests, as the handlers of state.rs see them. *)

Connect ==
    /\ client = "away" /\ socket # NoOne /\ thread[socket] = "running"
    /\ client' = "connected"
    /\ UNCHANGED <<windowVars, thread, socket, waiting, screen, hostVars, cameUp, failures>>

\* new_toplevel configures the size the compositor was started with.
NewToplevel ==
    /\ client = "connected"
    /\ client' = "hosted" /\ surface' = TRUE
    /\ gsize' = FirstSize /\ screen' = FirstSize
    /\ UNCHANGED <<windowVars, thread, socket, waiting, fresh, slot, cameUp, failures>>

\* Variant: every surface's buffer is taken for the screen.
SawBufferOfAny(size, main) == gsize' = size

\* commit: any surface makes it worth drawing, the toplevel's has the size.
SawBuffer(size, main) == gsize' = IF main THEN size ELSE gsize

CommitScreen(s) ==
    /\ client = "hosted" /\ ~waiting
    /\ waiting' = TRUE /\ screen' = s
    /\ fresh' = TRUE /\ SawBuffer(s, TRUE)
    /\ UNCHANGED <<windowVars, thread, socket, client, surface, slot, cameUp, failures>>

CommitCursor ==
    /\ client # "away"
    /\ fresh' = TRUE /\ SawBuffer(Cursor, FALSE)
    /\ UNCHANGED <<windowVars, thread, socket, guestVars, surface, slot, cameUp, failures>>

\* toplevel_destroyed: the size stays what it was.
DestroyToplevel ==
    /\ client = "hosted"
    /\ client' = "connected" /\ surface' = FALSE /\ waiting' = FALSE
    /\ UNCHANGED <<windowVars, thread, socket, screen, gsize, fresh, slot, cameUp, failures>>

-----------------------------------------------------------------------------
Window(w) == Open(w) \/ SpawnTimesOut(w) \/ (\E s \in Sizes : Resize(w, s))
             \/ Poll(w) \/ Close(w)
Thread(w) == ThreadReady(w) \/ ThreadFails(w) \/ Draw(w) \/ ThreadStops(w) \/ ThreadDies(w)
Guest == Connect \/ NewToplevel \/ (\E s \in Screens : CommitScreen(s))
         \/ CommitCursor \/ DestroyToplevel

Next == Guest \/ \E w \in Windows : Window(w) \/ Thread(w)

Spec == Init /\ [][Next]_vars

\* The loop turns every 4 ms and so does the pump; a guest that may draw does
\* (it is a running game).
FairSpec ==
    /\ Spec
    /\ \A w \in Windows : WF_vars(Draw(w) \/ ThreadStops(w)) /\ WF_vars(Poll(w))
    /\ WF_vars(\E s \in Screens : CommitScreen(s))

-----------------------------------------------------------------------------
(* The size clicks and controls are fitted to is the toplevel's, however    *)
(* its commits and the cursor's interleave (liw-compositor/src/lib.rs:59-66 *)
(* tells of the picture that leapt while a finger was down).                *)
ScreenIsTheToplevels == gsize = screen

(* "This is what makes the picture follow the window" (embedded.rs:46): in  *)
(* a window that stays open at one size, over a guest that goes on drawing, *)
(* the picture gets that size and keeps it, whatever frames were dropped.   *)
PictureFollowsWindow ==
    \A w \in Windows, s \in Sizes :
        <>[](held[w] /\ Running(w) /\ surface /\ want[w] = s) => <>[](image[w] = s)

(* A guest that waits for permission to draw gets it or loses its surface   *)
(* (liw-compositor/src/main.rs:350: "without this it paints once and then   *)
(* waits forever"), also when the frame it committed was dropped.           *)
GuestIsNotStarved ==
    \A w \in Windows : (waiting /\ socket = w) ~> (~waiting \/ ~Running(w))

(* A window that was closed leaves the socket's name to the next one, if    *)
(* its compositor had come up (game.rs:135-140 tells of the name that was   *)
(* still bound).                                                            *)
ClosedFreesTheSocket ==
    \A w \in Windows : (ui[w] = "closed" /\ w \in cameUp) ~> socket # w

(* What a window and its guest may count on.                                *)
WindowIsServed == PictureFollowsWindow /\ GuestIsNotStarved /\ ClosedFreesTheSocket

(* Embedded::is_running is what the window shows and what start() trusts:   *)
(* it says so only of a thread that runs (embedded.rs:60-62).  The thread   *)
(* that ends with an error never clears it.                                 *)
RunningMeansAlive ==
    \A w \in Windows : held[w] /\ flag[w] => thread[w] = "running"
=============================================================================
