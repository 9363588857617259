------------------------------- MODULE Trace -------------------------------
(* `liw trace`: the loop that samples SurfaceFlinger's frame ring and       *)
(* logcat's line ring while the game runs, tells freezes live, and reports  *)
(* what it found when it is stopped (liw/src/trace.rs), with the bookkeeping *)
(* of liw-core's bench.rs (FrameData) and trace.rs (hitches, evidence,      *)
(* verdicts).                                                               *)
(*                                                                          *)
(* Time is counted in display refreshes.  The display shows at most one     *)
(* frame and Android writes at most one log line per refresh; a sample is   *)
(* taken on its tick or up to MaxLate refreshes later, when another arm of  *)
(* the loop was waiting for the helper.  The host samples and the status    *)
(* line are left out: they are only printed.                                *)
(*                                                                          *)
(* A line is known by the refresh it was written in, so logs are sets; the  *)
(* order of a list that is sorted stably, by weight, is spelled out.  Two   *)
(* events a wrong date puts in the same refresh are left unordered: they    *)
(* are of one weight, hence of one kind, and only kinds are accused.        *)
EXTENDS Integers, Sequences, FiniteSets

CONSTANTS
    BufFrames,    \* frames SurfaceFlinger remembers (128)
    LogLines,     \* lines of `logcat -t N` (400)
    LogEvery,     \* refreshes between two pulls of the log (2 s)
    StallAfter,   \* STALL_MS
    LongGap,      \* the 1000 ms above which a gap is a freeze
    SameFreeze,   \* the 2000 ms within which two freezes are taken for one
    Before, After, \* the window of correlate
    Slack,        \* the 250 ms before its beginning that the trace still counts
    KeepEvidence, TopKinds, \* 4 pieces of evidence, 3 verdicts
    MinIntervals, \* 30 intervals or no report
    Kinds,        \* the kinds of log line Android may write
    Drift,        \* how far off a date taken from the wall clock may be
    MaxTime, MaxLines, MaxLate  \* bounds of the model

ASSUME TraceAssumption ==
    /\ {BufFrames, LogLines, LogEvery, LongGap, MaxTime} \subseteq Nat \ {0}
    /\ {StallAfter, SameFreeze, Before, After, Slack, Drift, MaxLate, MaxLines} \subseteq Nat
    /\ KeepEvidence \in Nat \ {0}

VARIABLES
    now,      \* the monotonic clock
    frames,   \* when the game presented a frame
    log,      \* every line Android wrote
    frameDue, logDue,   \* when the two tickers fire next
    missed,   \* history: a snapshot could not be read
    seen,     \* FrameData.frames
    gaps,     \* FrameData.intervals and .stalls, by start frame
    lastSeen, \* last_seen, -1 for None
    lastAt,   \* last_frame_ms: when the tool last saw a new frame
    inStall, stalls,    \* the freezes told live
    sink,     \* LogSink: the keys it has seen, and how often it keeps each event
    fellBack  \* history: a pull was dated by the wall clock

traceVars == <<now, frames, log, frameDue, logDue, missed, seen, gaps, lastSeen,
               lastAt, inStall, stalls, sink, fellBack>>
toolVars == <<frameDue, logDue, missed, seen, gaps, lastSeen, lastAt, inStall,
              stalls, sink, fellBack>>

-----------------------------------------------------------------------------
(* liw-core/src/bench.rs *)

Clamp(x, lo, hi) == IF x < lo THEN lo ELSE IF x > hi THEN hi ELSE x

\* sample_interval_ms: 45 % of the time the ring takes to fill, at most one
\* second (a freeze's length here), at least one refresh.
SampleEvery == Clamp((BufFrames * 45) \div 100, 1, LongGap)

\* The last frames SurfaceFlinger remembers: parse_latency's presents.
Snapshot(fs) == {f \in fs : Cardinality({g \in fs : g > f}) < BufFrames}

\* windows(2) of a snapshot: each frame with the next one of the same snapshot.
Starts(snap) == {f \in snap : \E g \in snap : g > f}
NextIn(snap, f) == CHOOSE g \in snap : g > f /\ \A h \in snap : h > f => g <= h

\* FrameData::add keyed by start frame: an interval seen again replaces itself.
Add(data, snap) ==
    [f \in DOMAIN data \cup Starts(snap) |->
        IF f \in Starts(snap) THEN NextIn(snap, f) - f ELSE data[f]]

Intervals == {f \in DOMAIN gaps : gaps[f] < LongGap}
Freezes   == {f \in DOMAIN gaps : gaps[f] >= LongGap}

\* percentile(50): the element at round((n - 1) / 2) of the sorted intervals.
Median ==
    LET n == Cardinality(Intervals)
        atMost(m) == Cardinality({f \in Intervals : gaps[f] <= m})
    IN  CHOOSE m \in {gaps[f] : f \in Intervals} :
            /\ atMost(m) >= n \div 2 + 1
            /\ atMost(m - 1) < n \div 2 + 1

-----------------------------------------------------------------------------
(* liw-core/src/trace.rs *)

\* Kind::weight; "noise" is a line classify() knows nothing about.
Weight ==
    [anr |-> 100, input |-> 95, crash |-> 92, network |-> 90, adStack |-> 89,
     paused |-> 88, armBridge |-> 70, lock |-> 60, binder |-> 50,
     mainThread |-> 40, slow |-> 30, composer |-> 20, gc |-> 10]

\* parse_log: the lines that classify to a kind, as events.  Monotonic lines
\* carry their time.  The others only carry a time of day: their time is that of
\* the pull less their age, `off' from the truth as the two clocks of the pull
\* are read one after the other and the second in whole milliseconds.
ParseLog(lines, off) ==
    {[t |-> l.t + off, kind |-> l.kind, of |-> l] :
        l \in {l \in lines : l.kind \in DOMAIN Weight}}

\* hitches() with report's threshold, 1.5 times the game's own frame period.
Hitches == {f \in Intervals : 2 * gaps[f] >= 3 * Median}

\* After the loop, events from before the trace are dropped.
Events == {e \in DOMAIN sink.times : e.t >= -Slack}

InWindow(e, f) == e.t >= f - Before /\ e.t <= f + gaps[f] + After

\* Variant: whatever was logged before a stutter's end counts as evidence of it.
EvidenceWithoutStart(f) == {e \in Events : e.t <= f + gaps[f] + After}

\* The order of evidence: by weight, and as it was logged.
Heavier(a, b) ==
    \/ Weight[a.kind] > Weight[b.kind]
    \/ Weight[a.kind] = Weight[b.kind] /\ a.t < b.t

\* correlate: the heaviest KeepEvidence events of the stutter's window.
Evidence(f) ==
    LET found == {e \in Events : InWindow(e, f)}
    IN  {e \in found : Cardinality({d \in found : Heavier(d, e)}) < KeepEvidence}

EvidenceKinds(f) == {e.kind : e \in Evidence(f)}

\* verdicts: the kinds ranked by the number of stutters they appear in times
\* their weight, and the first TopKinds of them.
Score(k) == Weight[k] * Cardinality({f \in Hitches : k \in EvidenceKinds(f)})
Accused ==
    LET found == UNION {EvidenceKinds(f) : f \in Hitches}
    IN  {k \in found : Cardinality({j \in found : Score(j) > Score(k)}) < TopKinds}
Unexplained == {f \in Hitches : Evidence(f) = {}}

-----------------------------------------------------------------------------
(* The world. *)

\* What `logcat -t N' answers: the last lines there are.
LastLines(lines) == {e \in lines : Cardinality({d \in lines : d.t > e.t}) < LogLines}

Distance(a, b) == IF a > b THEN a - b ELSE b - a

\* Trace starts with the log as it is: its last lines may be minutes old.
TraceInit ==
    /\ now = 0 /\ frames \in {{}, {0}}
    /\ log \in {{}} \cup {{[t |-> -LongGap - Slack, kind |-> k]} : k \in Kinds}
    /\ frameDue = 0 /\ logDue = 0 /\ missed = FALSE
    /\ seen = {} /\ gaps = <<>> /\ lastSeen = -1 /\ lastAt = 0
    /\ inStall = FALSE /\ stalls = <<>>
    /\ sink = [keys |-> {}, times |-> <<>>] /\ fellBack = FALSE

\* The next refresh.  The loop is never more than MaxLate behind its ticks.
Refresh ==
    /\ now < MaxTime
    /\ now < frameDue + MaxLate /\ now < logDue + MaxLate
    /\ now' = now + 1
    /\ \/ frames' = frames
       \/ frames' = frames \cup {now + 1}
    /\ \/ log' = log
       \/ /\ Cardinality(log) < MaxLines
          /\ \E k \in Kinds : log' = log \cup {[t |-> now + 1, kind |-> k]}
    /\ UNCHANGED toolVars

\* MissedTickBehavior::Skip: the next multiple of the period after now.
NextTick(period) == period * (now \div period + 1)

-----------------------------------------------------------------------------
(* The loop's arms (liw/src/trace.rs). *)

\* A new frame was seen: a freeze under way is over.
FreezeEnds ==
    /\ lastAt' = now /\ inStall' = FALSE
    /\ stalls' = IF inStall THEN [stalls EXCEPT ![Len(stalls)].end = now] ELSE stalls

\* No new frame for longer than StallAfter: tell it, once.
FreezeStarts ==
    /\ UNCHANGED lastAt
    /\ inStall' = (inStall \/ now - lastAt > StallAfter)
    /\ stalls' = IF ~inStall /\ inStall'
                 THEN Append(stalls, [start |-> lastAt, end |-> MaxTime + 1, log |-> {}])
                 ELSE stalls

\* frame_tick.
FrameTick ==
    /\ now >= frameDue
    /\ frameDue' = NextTick(SampleEvery)
    /\ LET snap == Snapshot(frames)
           all  == seen \cup snap
           last == IF all = {} THEN -1 ELSE CHOOSE f \in all : \A g \in all : g <= f
       IN  /\ seen' = all
           /\ gaps' = Add(gaps, snap)
           /\ lastSeen' = last
           /\ IF last # lastSeen THEN FreezeEnds ELSE FreezeStarts
    /\ UNCHANGED <<now, frames, log, logDue, missed, sink, fellBack>>

\* The helper did not answer, or the answer did not parse: `continue`.
FrameTickFails ==
    /\ now >= frameDue
    /\ missed' = TRUE
    /\ frameDue' = NextTick(SampleEvery)
    /\ UNCHANGED <<now, frames, log, logDue, seen, gaps, lastSeen, lastAt,
                   inStall, stalls, sink, fellBack>>

\* LogSink::add: the events not seen before.  A line's key is its time, as the
\* pull dates it, and its text.
Fresh(evs) == evs \ sink.keys

\* Vec::push of each.
Push(times, evs) ==
    [e \in DOMAIN times \cup evs |->
        (IF e \in DOMAIN times THEN times[e] ELSE 0) + (IF e \in evs THEN 1 ELSE 0)]

\* fetch_log: the ring's last lines with the times the helper gave them.
FromMonotonic(evs) == evs = ParseLog(LastLines(log), 0) /\ UNCHANGED fellBack

\* ... or, from a helper that cannot or did not answer that call, the lines
\* dated by the wall clock, anew on every pull.
FromWallClock(evs) ==
    /\ \E off \in -Drift..Drift : evs = ParseLog(LastLines(log), off)
    /\ fellBack' = TRUE

\* ... or nothing, when it answers neither call.
FromNobody(evs) == evs = {} /\ UNCHANGED fellBack

FetchLog(evs) == FromMonotonic(evs) \/ FromWallClock(evs) \/ FromNobody(evs)

\* What a pull may answer.
Pulls == {ParseLog(LastLines(log), off) : off \in -Drift..Drift} \cup {{}}

\* log_tick, an interval that makes up for missed ticks: what is new also goes
\* to the freeze under way.
LogTick ==
    /\ now >= logDue
    /\ logDue' = logDue + LogEvery
    /\ \E evs \in Pulls :
         /\ FetchLog(evs)
         /\ sink' = [keys |-> sink.keys \cup evs, times |-> Push(sink.times, Fresh(evs))]
         /\ stalls' = IF inStall
                      THEN [stalls EXCEPT ![Len(stalls)].log = @ \cup Fresh(evs)]
                      ELSE stalls
    /\ UNCHANGED <<now, frames, log, frameDue, missed, seen, gaps, lastSeen,
                   lastAt, inStall>>

TraceNext == Refresh \/ FrameTick \/ FrameTickFails \/ LogTick

TraceSpec == TraceInit /\ [][TraceNext]_traceVars

-----------------------------------------------------------------------------
(* What the report says.  Ctrl-C or the deadline may end the loop at any   *)
(* time, so every state is one that a report may be printed of.             *)

EnoughMeasured == Cardinality(Intervals) >= MinIntervals

\* A freeze from the frame data is left out if one told live began nearby.
ToldFromFrames ==
    {f \in Freezes : \A i \in DOMAIN stalls : Distance(stalls[i].start, f) >= SameFreeze}

\* A freeze told live is this one: it began when the frames stopped, give or
\* take a sampling interval, and did not end before they came back.
ToldLive(f) ==
    \E i \in DOMAIN stalls :
        /\ f <= stalls[i].start /\ stalls[i].start <= f + SampleEvery + MaxLate
        /\ f + gaps[f] <= stalls[i].end

-----------------------------------------------------------------------------
(* Every interval and every freeze the tool counts is a gap between two     *)
(* frames the game presented one after the other, whatever samples were     *)
(* late or lost: nothing is made up at the edge of a snapshot               *)
(* (liw-core/src/bench.rs:10-13).                                           *)
NothingInvented ==
    \A f \in DOMAIN gaps :
        /\ {f, f + gaps[f]} \subseteq frames
        /\ \A g \in frames : ~(f < g /\ g < f + gaps[f])

(* As long as every snapshot could be read, a sampler that is at most       *)
(* MaxLate late misses no frame: the interval derived from the ring's size  *)
(* leaves room for it (liw-core/src/bench.rs:6-9).                          *)
NothingLost ==
    ~missed => \A f \in frames : f <= lastSeen => f \in seen

(* The module's own words: consecutive pulls overlap, and an event is not   *)
(* counted twice for it (liw/src/trace.rs:39-43).  It is, once pulls are    *)
(* dated by the wall clock: the key holds a date that is a new one on every *)
(* pull.                                                                    *)
OncePerLine == \A d, e \in Events : d.of = e.of => d = e

(* How far the tool's dates may be off.                                     *)
Off == IF fellBack THEN Drift ELSE 0

(* What the report counts is a line of the log at the time it was written,  *)
(* give or take what the wall clock is off, and none from before the trace; *)
(* while no pull fell back to the wall clock it counts each line once,      *)
(* however many pulls returned it (liw/src/trace.rs:39-63, 141-145, 216).   *)
CountedOnce ==
    /\ \A e \in Events :
          /\ e.of \in log /\ e.kind = e.of.kind /\ e.t >= -Slack
          /\ Distance(e.t, e.of.t) <= Off /\ sink.times[e] = 1
    /\ ~fellBack => OncePerLine

(* No evidence, no accusation: a kind the verdict names was written by      *)
(* Android around a stutter the game really had - give or take what the     *)
(* wall clock is off, once a pull fell back to it - and a stutter is called *)
(* unexplained only if the tool holds no line around it                     *)
(* (liw-core/src/trace.rs:347-351).                                         *)
NoEvidenceNoAccusation ==
    EnoughMeasured =>
        /\ \A k \in Accused : \E f \in Hitches : \E l \in log :
              /\ l.kind = k /\ {f, f + gaps[f]} \subseteq frames
              /\ l.t >= f - Before - Off /\ l.t <= f + gaps[f] + After + Off
        /\ \A f \in Unexplained : \A e \in Events : ~InWindow(e, f)

(* A freeze of STALL_MS and two sampling intervals is told live, with       *)
(* its beginning and its end, as long as every snapshot could be read       *)
(* (liw/src/trace.rs:12-18).                                                *)
LongFreezeTold ==
    ~missed => \A f \in Freezes : gaps[f] >= StallAfter + 2 * (SampleEvery + MaxLate) => ToldLive(f)

(* What the tools report happened - every gap, every line, every blame -    *)
(* and a long freeze is told.                                               *)
ReportIsTrue ==
    NothingInvented /\ NothingLost /\ CountedOnce /\ NoEvidenceNoAccusation /\ LongFreezeTold

(* The comment of the module (liw-core/src/bench.rs:71-75) and its test     *)
(* (:216): a freeze is not lost.  It is, when one told live began less than *)
(* two seconds before it.                                                   *)
EveryFreezeTold ==
    ~missed => \A f \in Freezes : f \in ToldFromFrames \/ ToldLive(f)

(* The report says of a freeze without events that its cause is most likely *)
(* outside the container (liw/src/trace.rs:281-284): it may only be said    *)
(* when Android wrote nothing during the freeze.                            *)
OutsideOnlyIfQuiet ==
    \A i \in DOMAIN stalls : stalls[i].log = {} =>
        \A e \in Events : ~(stalls[i].start < e.t /\ e.t < stalls[i].end)
=============================================================================
