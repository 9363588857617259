------------------------------- MODULE Video -------------------------------
(* `liw video status` and `liw video verify` (liw/src/video.rs), with the   *)
(* pure diagnosis of liw-core/src/video.rs.  Both commands read the guest's *)
(* codec declarations file by file - from the mounted rootfs if the file is *)
(* there, from the image otherwise - while the session may come up or go    *)
(* down between two reads.  `status` then measures the host by decoding one *)
(* clip per format and says where guest and host fail to meet; `verify`     *)
(* compares the declarations with what a running Android registered.        *)
(*                                                                          *)
(* A codec is a record of what the diagnosis looks at; parsing the XML,     *)
(* wording and the printed tables are left out.                             *)
EXTENDS Naturals, FiniteSets

CONSTANTS
    Codecs,      \* every component the image might declare
    Includes,    \* files the vendor hub may include
    Fixtures,    \* formats a clip is embedded for (FIXTURES)
    Formats,     \* every format, those without a clip too
    MaxFlips     \* times the session comes up or goes down meanwhile

\* kind: software, hardware or unknown, by the name (codec_kind); family: c2 or
\* OMX; file: where it is declared; gated: it carries a domain attribute.
ASSUME VideoAssumption ==
    /\ \A c \in Codecs :
          /\ c.kind \in {"software", "hardware", "unknown"}
          /\ c.family \in {"c2", "OMX"} /\ c.mime \in Formats
          /\ c.file \in Includes \cup {"hub", "apex"}
          /\ {c.gated, c.encoder} \subseteq BOOLEAN
    /\ Fixtures \subseteq Formats /\ {"hub", "apex"} \cap Includes = {}

VARIABLES
    image,     \* what the image holds: [codecs, files], fixed
    machine,   \* [ffmpeg, debugfs, hw: formats the GPU decodes], fixed
    command,   \* "status" or "verify"
    mounted, flips,   \* the rootfs is mounted; how often that changed
    pc,        \* what the command does next
    source,    \* guest_source's answer
    hub,       \* the includes the hub declares, as read
    toRead,    \* files still to be read
    codecs, missing,  \* guest_codecs' result so far
    unread,    \* history: something the guest holds could not be read
    clips,     \* formats whose clip is still to be tried
    ran, ok,   \* probe_host: a clip could be staged; formats that decoded
    caps,      \* HostCaps
    findings,  \* diagnose: [about, severity]
    registered, ccodec, shortfall, dead   \* verify

guest  == <<source, hub, toRead, codecs, missing, unread>>
host   == <<clips, ran, ok, caps>>
result == <<findings, registered, ccodec, shortfall, dead>>
videoVars == <<image, machine, command, mounted, flips, pc, guest, host, result>>

Unknown == [measured |-> FALSE, mimes |-> {}]
Measured(ms) == [measured |-> TRUE, mimes |-> ms]

-----------------------------------------------------------------------------
(* The diagnosis (liw-core/src/video.rs). *)

\* guest_decode_mimes: a format's kind is hardware as soon as one decoder is.
Decoders(cs) == {c \in cs : ~c.encoder}
GuestFormats(cs) == {c.mime : c \in Decoders(cs)}
InHardware(cs, m) == \E c \in Decoders(cs) : c.mime = m /\ c.kind = "hardware"

\* HostCaps::can_decode, and what diagnose makes of it for a format that the
\* guest decodes on the CPU.
Severity(h, m) ==
    IF ~h.measured THEN "undetermined" ELSE IF m \in h.mimes THEN "gap" ELSE "noLever"

\* diagnose.
Diagnose(src, cs, h, lost) ==
    {[about |-> f, severity |-> "broken"] : f \in lost} \cup
    (IF GuestFormats(cs) = {}
     THEN {[about |-> "guest", severity |-> "undetermined"]}
     ELSE {[about |-> m, severity |-> IF InHardware(cs, m) THEN "ok" ELSE Severity(h, m)] :
              m \in GuestFormats(cs)}
          \cup {[about |-> m, severity |-> "hostOnly"] : m \in h.mimes \ GuestFormats(cs)}
          \cup (IF src = "image" THEN {[about |-> "source", severity |-> "undetermined"]} ELSE {}))

\* explain_shortfall: the declared components that did not register, by reason.
Shortfall(declared, live, cc) ==
    LET gone == declared \ live
        rest == {c \in gone : ~c.gated}
        off  == rest # {} /\ (\A c \in rest : c.family = "c2") /\ cc = "0"
    IN  [gated |-> gone \ rest,
         codec2Off |-> IF off THEN rest ELSE {},
         unexplained |-> IF off THEN {} ELSE rest]

\* unplayable: formats with no live decoder, and whether that is by design
\* (every component of the format is gated).
Unplayable(declared, live) ==
    {[mime |-> m, gated |-> \A c \in Decoders(declared) : c.mime = m => c.gated] :
        m \in GuestFormats(declared) \ GuestFormats(declared \cap live)}

-----------------------------------------------------------------------------
(* The world. *)

VideoInit ==
    /\ image \in [codecs : SUBSET Codecs, files : SUBSET Includes]
    /\ machine \in [ffmpeg : BOOLEAN, debugfs : BOOLEAN, hw : SUBSET Fixtures]
    /\ command \in {"status", "verify"}
    /\ command = "verify" => machine.hw = {} /\ machine.ffmpeg
    /\ mounted \in BOOLEAN /\ flips = 0
    /\ pc = "source" /\ source = "none"
    /\ hub = {} /\ toRead = {} /\ codecs = {} /\ missing = {} /\ unread = FALSE
    /\ clips = Fixtures /\ ran = FALSE /\ ok = {} /\ caps = Unknown
    /\ findings = {} /\ registered = {} /\ ccodec = "unset"
    /\ shortfall = [gated |-> {}, codec2Off |-> {}, unexplained |-> {}] /\ dead = {}

\* The session comes up or goes down.
Flip ==
    /\ pc # "done" /\ flips < MaxFlips
    /\ mounted' = ~mounted /\ flips' = flips + 1
    /\ UNCHANGED <<image, machine, command, pc, guest, host, result>>

\* read_guest and list_guest reach the guest by the mount, or through debugfs.
Readable == mounted \/ machine.debugfs
InFile(f) == {c \in image.codecs : c.file = f}

\* What the files of the guest declare; Android registers no other component.
Present == image.files \cup {"hub", "apex"}
Declared == {c \in image.codecs : c.file \in Present}

-----------------------------------------------------------------------------
(* Reading the guest (liw/src/video.rs). *)

\* guest_source.  (The images are installed.)
GuestSource ==
    /\ pc = "source"
    /\ source' = IF mounted THEN "live" ELSE "image"
    /\ pc' = "hub"
    /\ UNCHANGED <<image, machine, command, mounted, flips, hub, toRead, codecs,
                   missing, unread, host, result>>

\* The hub: its own components and the files it includes; nothing if unreadable.
ReadHub ==
    /\ pc = "hub"
    /\ hub' = IF Readable THEN Includes ELSE {}
    /\ codecs' = IF Readable THEN InFile("hub") ELSE {}
    /\ unread' = ~Readable
    /\ pc' = "list"
    /\ UNCHANGED <<image, machine, command, mounted, flips, source, toRead,
                   missing, host, result>>

\* list_guest: an unreadable directory is an empty one.
ListDir ==
    /\ pc = "list"
    /\ missing' = hub \ (IF Readable THEN image.files ELSE {})
    /\ unread' = (unread \/ ~Readable)
    /\ toRead' = hub \cup {"apex"}
    /\ pc' = "files"
    /\ UNCHANGED <<image, machine, command, mounted, flips, source, hub, codecs,
                   host, result>>

\* One included file, or the codec APEX; a file that is not there adds nothing.
ReadFile ==
    /\ pc = "files"
    /\ \E f \in toRead :
          /\ toRead' = toRead \ {f}
          /\ codecs' = codecs \cup (IF Readable /\ f \in Present THEN InFile(f) ELSE {})
          /\ unread' = (unread \/ (f \in Present /\ ~Readable))
          /\ pc' = IF toRead' # {} THEN "files"
                   ELSE IF command = "status" THEN "probe" ELSE "compare"
    /\ UNCHANGED <<image, machine, command, mounted, flips, source, hub, missing,
                   host, result>>

-----------------------------------------------------------------------------
(* Measuring the host (liw/src/video.rs). *)

\* Variant: no probe is reported as a probe that decoded nothing.
NoProbeMeansNone ==
    /\ pc = "probe" /\ ~machine.ffmpeg
    /\ caps' = Measured({}) /\ pc' = "diagnose"
    /\ UNCHANGED <<image, machine, command, mounted, flips, guest, clips, ran, ok, result>>

\* probe_host without ffmpeg: nothing is known.
NoProbe ==
    /\ pc = "probe" /\ ~machine.ffmpeg
    /\ caps' = Unknown /\ pc' = "diagnose"
    /\ UNCHANGED <<image, machine, command, mounted, flips, guest, clips, ran, ok, result>>

\* One clip: it may not be staged (a full disk); staged, it decodes or not.
ProbeClip ==
    /\ pc = "probe" /\ machine.ffmpeg
    /\ \E m \in clips :
          /\ clips' = clips \ {m}
          /\ \/ UNCHANGED <<ran, ok>>
             \/ /\ ran' = TRUE
                /\ ok' = IF m \in machine.hw THEN ok \cup {m} ELSE ok
    /\ UNCHANGED <<image, machine, command, mounted, flips, pc, guest, caps, result>>

ProbeDone ==
    /\ pc = "probe" /\ machine.ffmpeg /\ clips = {}
    /\ caps' = IF ran THEN Measured(ok) ELSE Unknown
    /\ pc' = "diagnose"
    /\ UNCHANGED <<image, machine, command, mounted, flips, guest, clips, ran, ok, result>>

\* status: the findings.
ReportStatus ==
    /\ pc = "diagnose"
    /\ findings' = Diagnose(source, codecs, caps, missing)
    /\ pc' = "done"
    /\ UNCHANGED <<image, machine, command, mounted, flips, guest, host,
                   registered, ccodec, shortfall, dead>>

\* verify: whatever a running Android registered of what it declares.  (It reads the live list
\* first; nothing else changes what that answer was.)
Verify ==
    /\ pc = "compare"
    /\ \E live \in SUBSET Declared, cc \in {"0", "1", "unset"} :
          /\ registered' = live /\ ccodec' = cc
          /\ shortfall' = Shortfall(codecs, live, cc)
          /\ dead' = Unplayable(codecs, live)
    /\ pc' = "done"
    /\ UNCHANGED <<image, machine, command, mounted, flips, guest, host, findings>>

VideoNext == Flip \/ GuestSource \/ ReadHub \/ ListDir \/ ReadFile \/ NoProbe
        \/ ProbeClip \/ ProbeDone \/ ReportStatus \/ Verify

VideoSpec == VideoInit /\ [][VideoNext]_videoVars

-----------------------------------------------------------------------------
(* Nothing is claimed about the host that was not measured: a format the    *)
(* host is said to decode is one whose clip the GPU decoded, a format it is *)
(* said not to decode is none of those, and said so only if some clip was   *)
(* tried (that it was this format's is not promised, NoLeverMeansMeasured), *)
(* whatever was unreadable and however the session came and went            *)
(* (liw/src/video.rs:177-181).                                              *)
NoClaimWithoutMeasure ==
    \A f \in findings :
        /\ f.severity \in {"gap", "hostOnly"} => f.about \in machine.hw /\ machine.ffmpeg
        /\ f.severity = "gap" => f.about \in GuestFormats(image.codecs)
        /\ f.severity = "noLever" => ran /\ machine.ffmpeg /\ f.about \notin ok

(* As long as every file that is there could be read, the session may come  *)
(* and go between the reads and the findings are true of the guest: a       *)
(* format said to be decoded on the CPU has no hardware decoder, one said   *)
(* not to play has no decoder, and an include said to be missing is not     *)
(* there (liw-core/src/video.rs:447-520).                                   *)
GuestAsItIs ==
    ~unread => \A f \in findings :
        /\ f.severity = "broken" => f.about \in Includes \ image.files
        /\ f.severity \in {"gap", "noLever"} => ~InHardware(Declared, f.about)
        /\ f.severity = "hostOnly" => f.about \notin GuestFormats(Declared)

(* verify accounts for every declared component that was read and did not   *)
(* register, each for one reason, and blames the Codec2 switch for c2       *)
(* components only and only when it is off; as long as every file that is   *)
(* there could be read, it calls a format dead exactly when the guest       *)
(* declares a decoder of it and none registered (liw-core/src/video.rs,     *)
(* Shortfall and unplayable).                                               *)
LossesExplainedOnce ==
    (command = "verify" /\ pc = "done") =>
        /\ codecs \ registered =
              shortfall.gated \cup shortfall.codec2Off \cup shortfall.unexplained
        /\ shortfall.gated \cap (shortfall.codec2Off \cup shortfall.unexplained) = {}
        /\ shortfall.codec2Off # {} =>
              ccodec = "0" /\ \A c \in shortfall.codec2Off : c.family = "c2"
        /\ ~unread =>
              {d.mime : d \in dead} = GuestFormats(Declared) \ GuestFormats(registered)

(* What the diagnosis tells of the host was measured, and of the guest is   *)
(* so if the guest could be read.                                           *)
VideoIsTrue == NoClaimWithoutMeasure /\ GuestAsItIs /\ LossesExplainedOnce

(* What the words of the findings say without that condition: the file is   *)
(* not in /vendor/etc (liw-core/src/video.rs:452-458), and there is no      *)
(* decoder at all for a dead format (liw/src/video.rs:611).  Both are also  *)
(* said of what a session that went down, without debugfs, left unread.     *)
BrokenMeansMissing ==
    \A f \in findings : f.severity = "broken" => f.about \notin image.files
DeadMeansDead ==
    (command = "verify" /\ pc = "done") => \A d \in dead : d.mime \notin GuestFormats(registered)

(* What the finding says (liw-core/src/video.rs:484-487): the host was      *)
(* measured not to decode the format.  A format without a clip was never    *)
(* tried, nor was one whose clip could not be staged.                       *)
NoLeverMeansMeasured ==
    \A f \in findings : f.severity = "noLever" => f.about \in Fixtures \ machine.hw
=============================================================================
