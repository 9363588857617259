------------------------------ MODULE MCTools ------------------------------
(* What reads the machine, one at a time: `liw trace', `liw video', the     *)
(* watch on the kernel's modules with the report of a failed start, `liw    *)
(* perf', and the choice of input devices; and the editor in the game's     *)
(* window.  They share nothing; one that does not run stays as it began.    *)
EXTENDS Trace, Video, Host, Devices, BindingEditor, TLC

CONSTANTS kb, combo   \* a keyboard with a link under by-id; one with a touchpad, without

VARIABLE tool

toolsVars == <<traceVars, videoVars, hostVars, devicesVars, editorVars, tool>>

MCDevs == {kb, combo}
MCTyping == [d \in MCDevs |-> 22]
MCPointer == [d \in MCDevs |-> IF d = combo THEN 15 ELSE 0]
Symmetry == Permutations(Nodes)

(* One decoder of each sort the diagnosis tells apart - software and        *)
(* hardware, from the hub, an included file and the codec APEX, gated on    *)
(* the device type or not - and an encoder.                                 *)
Codec(name, mime, kind, family, file, gated, encoder) ==
    [name |-> name, mime |-> mime, kind |-> kind, family |-> family,
     file |-> file, gated |-> gated, encoder |-> encoder]

MCCodecs ==
    {Codec("OMX.google.h264.decoder", "avc", "software", "OMX", "google", FALSE, FALSE),
     Codec("OMX.vendor.avc", "avc", "hardware", "OMX", "hub", FALSE, FALSE),
     Codec("c2.android.vp9.decoder", "vp9", "software", "c2", "apex", FALSE, FALSE),
     Codec("c2.android.mpeg2.decoder", "mpeg2", "software", "c2", "apex", TRUE, FALSE),
     Codec("c2.android.vp9.encoder", "vp9", "software", "c2", "apex", FALSE, TRUE)}

(* The kernel an update brings ships one of the modules no more.            *)
MCShips == [k \in Kernels |-> IF k = "old" THEN Modules ELSE {"nft_masq"}]

(* A profile with a swipe, which the editor does not draw, and one with an  *)
(* aim behind a toggle and a button of a generated name.                    *)
Control(kind, k) == [kind |-> kind, at |-> 0, radius |-> 0, keys |-> <<k>>]
MCAuthored ==
    {0 :> Control("swipe", "w"), 0 :> Control("aim", "w") @@ 1 :> Control("button", "e")}
MCDirections == <<"up", "left">>

TraceIdle == frames = {} /\ log = {}
VideoIdle ==
    /\ image = [codecs |-> {}, files |-> {}]
    /\ machine = [ffmpeg |-> TRUE, debugfs |-> FALSE, hw |-> {}]
    /\ command = "status" /\ ~mounted

ToolsInit ==
    /\ tool \in {"trace", "video", "watch", "perf", "devices", "editor"}
    /\ TraceInit /\ VideoInit /\ HostInit /\ DevicesInit /\ EditorInit
    /\ tool = "trace" \/ TraceIdle
    /\ tool = "video" \/ VideoIdle
    /\ tool = "watch" \/ kernel = "old"
    /\ tool = "editor" \/ served = Nothing

ToolsNext ==
    \/ tool = "trace" /\ TraceNext
       /\ UNCHANGED <<videoVars, hostVars, devicesVars, editorVars, tool>>
    \/ tool = "video" /\ VideoNext
       /\ UNCHANGED <<traceVars, hostVars, devicesVars, editorVars, tool>>
    \/ tool = "watch" /\ KernelNext
       /\ UNCHANGED <<traceVars, videoVars, devicesVars, editorVars, tool>>
    \/ tool = "perf" /\ SessionNext
       /\ UNCHANGED <<traceVars, videoVars, devicesVars, editorVars, tool>>
    \/ tool = "devices" /\ DevicesNext
       /\ UNCHANGED <<traceVars, videoVars, hostVars, editorVars, tool>>
    \/ tool = "editor" /\ EditorNext
       /\ UNCHANGED <<traceVars, videoVars, hostVars, devicesVars, tool>>

ToolsSpec == ToolsInit /\ [][ToolsNext]_toolsVars
=============================================================================
