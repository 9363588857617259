-------------------------------- MODULE Host --------------------------------
(* What the checks of the host say of it: the modules of the running kernel, *)
(* which an update may delete under it (crates/liw-core/src/host.rs), read   *)
(* by the daemon's watch (crates/liwd/src/main.rs) and by `liw session start' *)
(* when it fails (crates/liw/src/main.rs), and the GPU clients left over     *)
(* from an earlier session, which `liw perf' looks for (crates/liw-core/src/ *)
(* perf.rs and crates/liw/src/perf.rs).                                      *)
(*                                                                           *)
(* Time is counted in seconds.  A package update is taken apart: a tree is   *)
(* removed, a tree is unpacked, its index is written.                        *)
EXTENDS Naturals, FiniteSets

CONSTANTS
    Kernels, Modules,   \* releases; WAYDROID_MODULES
    Ships,              \* the modules a kernel's tree has a file for
    BuiltIn,            \* the modules that need none
    CheckEvery,         \* KERNEL_CHECK_EVERY
    Margin,             \* MARGIN_S
    MaxGap,             \* bound: seconds `liw perf' takes between two looks
    MaxClock, MaxClients   \* bounds

ASSUME HostAssumption ==
    /\ Ships \in [Kernels -> SUBSET Modules] /\ BuiltIn \subseteq Modules
    /\ CheckEvery \in Nat \ {0} /\ {Margin, MaxGap, MaxClock, MaxClients} \subseteq Nat

VARIABLES
    kernel,    \* uname -r
    trees, indexed,   \* the trees on disk, those with a modules.dep
    loaded,
    kernTick, watch,  \* the daemon's counter and KernelWatch.stale
    said,      \* history: what the daemon logged last
    report,    \* the state found of each module, as long as it is being looked at
    clock,     \* since the machine came up
    flinger,   \* when SurfaceFlinger was born; MaxClock + 1: not running
    clients,   \* when the clients of the GPU server were born
    asked,     \* the age `liw perf' read, and when; history: whether it was told
    accused    \* the clients it took for left over, by birth

kernelVars == <<kernel, trees, indexed, loaded>>
daemonVars == <<kernTick, watch, said>>
sessionVars == <<flinger, clients>>
perfVars == <<asked, accused>>
hostVars == <<kernelVars, daemonVars, report, clock, sessionVars, perfVars>>

Nobody == MaxClock + 1
NotAsked == [age |-> 0, at |-> Nobody, told |-> TRUE]

-----------------------------------------------------------------------------
(* host.rs. *)

\* check_modules: nothing can be concluded from an empty directory.
StaleModules == trees # {} /\ kernel \notin trees

\* module_state.
ModuleState(m) ==
    CASE m \in loaded \cup BuiltIn                         -> "present"
      [] m \notin loaded \cup BuiltIn /\ kernel \notin indexed -> "unknown"
      [] OTHER -> IF m \in Ships[kernel] THEN "loadable" ELSE "missing"

-----------------------------------------------------------------------------
(* The kernel and its modules. *)

RemoveTree(k) ==
    /\ k \in trees
    /\ trees' = trees \ {k} /\ indexed' = indexed \ {k}
    /\ UNCHANGED <<kernel, loaded, daemonVars, report, clock, sessionVars, perfVars>>

UnpackTree(k) ==
    /\ k \notin trees /\ trees' = trees \cup {k}
    /\ UNCHANGED <<kernel, indexed, loaded, daemonVars, report, clock, sessionVars, perfVars>>

WriteIndex(k) ==
    /\ k \in trees \ indexed /\ indexed' = indexed \cup {k}
    /\ UNCHANGED <<kernel, trees, loaded, daemonVars, report, clock, sessionVars, perfVars>>

Load(m) ==
    /\ m \notin loaded /\ ModuleState(m) = "loadable"
    /\ loaded' = loaded \cup {m}
    /\ UNCHANGED <<kernel, trees, indexed, daemonVars, report, clock, sessionVars, perfVars>>

Reboot ==
    /\ kernel' \in indexed /\ loaded' = {}
    /\ kernTick' = 0 /\ watch' = "unknown" /\ said' = "nothing" /\ report' = <<>>
    /\ clock' = 0 /\ flinger' = Nobody /\ clients' = {}
    /\ asked' = NotAsked /\ accused' = {}
    /\ UNCHANGED <<trees, indexed>>

-----------------------------------------------------------------------------
(* The daemon. *)

\* Variant: the state is told, not its change.
PollTellsTheState ==
    IF kernTick = 0
    THEN /\ watch' = IF StaleModules THEN "stale" ELSE "inPlace"
         /\ said' = IF StaleModules THEN "warning" ELSE "inPlace"
    ELSE watch' = watch /\ said' = "nothing"

\* KernelWatch::poll and what the loop logs of it.
Poll ==
    LET now == IF StaleModules THEN "stale" ELSE "inPlace"
    IN  IF kernTick = 0 /\ watch # now
        THEN watch' = now /\ said' = IF StaleModules THEN "warning" ELSE "inPlace"
        ELSE watch' = watch /\ said' = "nothing"

\* A tick of the supervision loop.
Tick ==
    /\ Poll
    /\ kernTick' = (kernTick + 1) % CheckEvery
    /\ UNCHANGED <<kernelVars, report, clock, sessionVars, perfVars>>

-----------------------------------------------------------------------------
(* report_host_state: the session would not start. *)

\* waydroid_module_report looks at one module after the other.
LookAt(m) ==
    /\ m \in Modules \ DOMAIN report
    /\ report' = [n \in DOMAIN report \cup {m} |->
                    IF n = m THEN ModuleState(m) ELSE report[n]]
    /\ UNCHANGED <<kernelVars, daemonVars, clock, sessionVars, perfVars>>

\* The tool has printed it and is gone.
Reported ==
    /\ DOMAIN report = Modules /\ report' = <<>>
    /\ UNCHANGED <<kernelVars, daemonVars, clock, sessionVars, perfVars>>

-----------------------------------------------------------------------------
(* The session's GPU clients. *)

Pass ==
    /\ clock < MaxClock
    /\ asked # NotAsked => clock < asked.at + MaxGap
    /\ clock' = clock + 1
    /\ UNCHANGED <<kernelVars, daemonVars, report, sessionVars, perfVars>>

SessionStarts ==
    /\ flinger = Nobody /\ flinger' = clock
    /\ UNCHANGED <<kernelVars, daemonVars, report, clock, clients, perfVars>>

\* An Android process opens a context of its own.
ClientStarts ==
    /\ flinger # Nobody /\ Cardinality(clients) < MaxClients
    /\ clients' = clients \cup {clock}
    /\ UNCHANGED <<kernelVars, daemonVars, report, clock, flinger, perfVars>>

\* Some of the clients stay behind.
SessionEnds ==
    /\ flinger # Nobody /\ flinger' = Nobody
    /\ clients' \in SUBSET clients
    /\ UNCHANGED <<kernelVars, daemonVars, report, clock, perfVars>>

-----------------------------------------------------------------------------
(* liw perf. *)

\* process_age of SurfaceFlinger: 0 if there is none, or if pgrep or ps fails.
AskAge ==
    /\ asked = NotAsked
    /\ \E told \in BOOLEAN :
         asked' = [age |-> IF flinger = Nobody \/ ~told THEN 0 ELSE clock - flinger,
                   at |-> clock, told |-> told]
    /\ accused' = {}
    /\ UNCHANGED <<kernelVars, daemonVars, report, clock, sessionVars>>

\* orphan_clients.
Orphans(age) == {b \in clients : clock - b > age + Margin}

\* virgl_clients, some commands later, and the finding; no clients if ps fails.
AskClients ==
    /\ asked # NotAsked /\ asked' = NotAsked
    /\ accused' \in {Orphans(asked.age), {}}
    /\ UNCHANGED <<kernelVars, daemonVars, report, clock, sessionVars>>

-----------------------------------------------------------------------------
HostInit ==
    /\ kernel \in Kernels /\ trees = {kernel} /\ indexed = trees /\ loaded = {}
    /\ kernTick = 0 /\ watch = "unknown" /\ said = "nothing" /\ report = <<>>
    /\ clock = 0 /\ flinger = Nobody /\ clients = {}
    /\ asked = NotAsked /\ accused = {}

KernelNext ==
    \/ \E k \in Kernels : RemoveTree(k) \/ UnpackTree(k) \/ WriteIndex(k)
    \/ \E m \in Modules : Load(m) \/ LookAt(m)
    \/ Reported \/ Reboot \/ Tick

SessionNext ==
    Pass \/ SessionStarts \/ ClientStarts \/ SessionEnds \/ AskAge \/ AskClients

HostNext == KernelNext \/ SessionNext

HostSpec == HostInit /\ [][HostNext]_hostVars

-----------------------------------------------------------------------------
(* The removal of the running kernel's tree is told once: between two        *)
(* warnings the modules were found in place, however the updates went        *)
(* about it ("a warning repeated every poll is noise, and noise is           *)
(* how a real warning gets missed", crates/liw-core/src/host.rs:210-211).    *)
ToldOnce ==
    [][said # "warning" /\ said' = "warning" => watch # "stale"]_hostVars

(* A module is reported missing only where the running kernel's own index   *)
(* says so, and never one that can be used: what could not be determined is *)
(* no accusation, also while an update is under way (host.rs:107-109).      *)
MissingIsMissing ==
    \A m \in DOMAIN report :
        report[m] = "missing" => m \notin Ships[kernel] \cup BuiltIn \cup loaded

(* A client of the running session is not taken for one left over, however  *)
(* the session came, went and came back between the two looks, as long as   *)
(* they are not further apart than the margin and the first one was         *)
(* answered (perf.rs:176-199).                                              *)
LiveNotAccused ==
    [][asked # NotAsked /\ asked.told /\ asked' = NotAsked =>
          \A b \in accused' : flinger = Nobody \/ b < flinger]_perfVars

(* The comment of orphan_clients: an age of zero means that no session runs *)
(* (perf.rs:188-189).  It is also what a failed pgrep or ps gives, and then *)
(* the clients of a running session are accused.                            *)
LiveNeverAccused ==
    [][asked # NotAsked /\ asked' = NotAsked =>
          \A b \in accused' : flinger = Nobody \/ b < flinger]_perfVars

(* The host is accused of what is so, and once.                             *)
HostNotAccused == ToldOnce /\ LiveNotAccused /\ []MissingIsMissing

(* What the report says without a warning (crates/liw/src/main.rs:530-535): *)
(* everything can load.  It says so of what could not be determined as well. *)
FineMeansFine ==
    [][Reported => StaleModules \/ \A m \in Modules : report[m] # "unknown"]_hostVars
=============================================================================
