--------------------------- MODULE TransferTuning ---------------------------
(***************************************************************************)
(* FastClone/transfer_tuning.cpp: how many streams, bytes, requests and     *)
(* write workers a session uses.  The write-worker controller is a state    *)
(* machine stepped once per sampling window (NextWriteActiveCap, called by  *)
(* the client's main loop); the rest are functions of the session's RTT,    *)
(* options and byte counts.  Sizes are in KiB; latencies and rates are      *)
(* scaled numbers; doubles are modelled by exact fractions.                 *)
(***************************************************************************)
EXTENDS Integers, FiniteSets, FiniteSetsExt

CONSTANTS
    ActiveCapInitial, ActiveCapMax,  \* 8, 32
    LatencyHalve, LatencyGrow,       \* 15 s, 30 s
    RateMin,                         \* kWriteRateDropAbsMinFilesPerSec
    MaxU64,                          \* the largest uint64_t
    Backlogs, Bytes, Rates, Latencies, Budget,   \* what a window may observe
    HardwareThreads,                 \* std::thread::hardware_concurrency()
    MaxWindows,                      \* bound: sampling windows
    BaseStreams, Rtts, Hw            \* stream counts, round trips (ms), hardware threads

ASSUME TuningAssumption ==
    /\ ActiveCapInitial \in Nat \ {0} /\ ActiveCapMax \in Nat /\ ActiveCapInitial <= ActiveCapMax
    /\ LatencyHalve \in Nat /\ LatencyGrow \in Nat /\ RateMin \in Nat
    /\ MaxU64 \in Nat /\ Budget \in 0 .. MaxU64 /\ Bytes \subseteq 0 .. MaxU64
    /\ Backlogs \subseteq Nat /\ Rates \subseteq Nat /\ Latencies \subseteq Nat \ {0}
    /\ HardwareThreads \in Nat /\ MaxWindows \in Nat
    /\ BaseStreams \subseteq 1 .. 1024 /\ Rtts \subseteq Int /\ Hw \subseteq Nat

VARIABLES
    writeCap,     \* WriteCapControllerState
    rateCut,      \* history: the last window lowered the cap for its rate
    calm,         \* history: windows in a row with a backlog and no bad sign
    windows,
    session       \* the options and measurements a session starts from

tvars == <<writeCap, rateCut, calm, windows, session>>

Clamp(x, lo, hi) == Min({Max({x, lo}), hi})
SaturatingAdd(a, b) == IF a > MaxU64 - b THEN MaxU64 ELSE a + b

-----------------------------------------------------------------------------
(* The adaptive cap on active write workers.                               *)

ResolveWriteWorkerPoolMax(hw) == Clamp(Max({1, hw}), ActiveCapInitial, ActiveCapMax)
PoolMax == ResolveWriteWorkerPoolMax(HardwareThreads)

\* alpha = 0.2, rounded; a previous value of 0 is "unseeded".
UpdateEwma(prev, sample) == IF prev <= 0 THEN sample ELSE (sample + 4 * prev) \div 5

\* What a window shows: latency is the raw sample, smoothed by UpdateEwma.
Sample == [backlog : Backlogs, ioInFlightBytes : Bytes, driverBytes : Bytes, rate : Rates,
           latency : Latencies, backpressureSleep : BOOLEAN, failures : {0, 1}]

Pressure(s) == SaturatingAdd(s.ioInFlightBytes, s.driverBytes)

\* Mutant of RateDropped: no protection window after a change of the cap.
RateDroppedUnprotected(prev, s) == prev.havePrev /\ s.backlog > 0 /\ s.rate < RateMin

\* D-3a and D-5: the rate counts only with unmet demand, and not in the first
\* window after the cap has changed.
RateDropped(prev, s) ==
    prev.havePrev /\ s.backlog > 0 /\ prev.windowsSinceLastChange >= 1 /\ s.rate < RateMin

\* D-1a: the latency counts in any window.
LatencyHigh(prev, s, ewma) ==
    prev.havePrev /\ s.backlog > 0 /\ prev.latency > 0 /\ ewma > LatencyHalve

Deteriorated(prev, s, ewma) ==
    \/ s.backpressureSleep \/ Pressure(s) > Budget
    \/ RateDropped(prev, s) \/ LatencyHigh(prev, s, ewma) \/ s.failures > 0

Healthy(prev, s, ewma) ==
    /\ s.backlog > prev.activeCap
    /\ prev.havePrev => s.rate >= prev.rate
    /\ prev.havePrev /\ prev.latency > 0 => 4 * ewma <= 5 * prev.latency
    /\ ewma < LatencyGrow

NextWriteActiveCap(prev, s, capacity) ==
    LET ceiling == Clamp(capacity, 1, ActiveCapMax)
        ewma == UpdateEwma(prev.latency, s.latency)
        bad == Deteriorated(prev, s, ewma)
        streak == IF ~bad /\ Healthy(prev, s, ewma) THEN prev.consecutiveHealthy + 1 ELSE 0
        cap == Clamp(IF bad THEN Max({1, prev.activeCap \div 2})
                     ELSE IF streak >= 2 /\ prev.activeCap < ceiling THEN prev.activeCap + 1
                     ELSE prev.activeCap, 1, ceiling)
    IN  [activeCap |-> cap, consecutiveHealthy |-> streak, rate |-> s.rate, latency |-> ewma,
         havePrev |-> TRUE,
         windowsSinceLastChange |-> IF cap # prev.activeCap THEN 0
                                    ELSE prev.windowsSinceLastChange + 1]

Sessions == [base : BaseStreams, auto : BOOLEAN, rtt : Rtts, hw : Hw, queued : Bytes,
             driver : Bytes]

TuningInit ==
    /\ writeCap = [activeCap |-> ActiveCapInitial, consecutiveHealthy |-> 0, rate |-> 0,
                   latency |-> 0, havePrev |-> FALSE, windowsSinceLastChange |-> 0]
    /\ rateCut = FALSE /\ calm = 0 /\ windows = 0
    /\ session \in Sessions

\* A sign that anything but the rate and the latency is wrong.
OtherTrouble(s) == s.backpressureSleep \/ Pressure(s) > Budget \/ s.failures > 0

\* The main loop samples the write path every kWriteCapSampleIntervalMs.
SampleWindow(s) ==
    LET next == NextWriteActiveCap(writeCap, s, PoolMax)
    IN  /\ windows < MaxWindows /\ windows' = windows + 1
        /\ writeCap' = next
        /\ rateCut' = (next.activeCap < writeCap.activeCap /\ ~OtherTrouble(s)
                       /\ next.latency <= LatencyHalve)
        /\ calm' = IF ~OtherTrouble(s) /\ s.backlog > writeCap.activeCap
                      /\ s.rate >= Max({RateMin, writeCap.rate})
                       /\ (writeCap.havePrev => next.latency <= writeCap.latency)
                      /\ next.latency <= LatencyHalve /\ next.latency < LatencyGrow
                   THEN calm + 1 ELSE 0
        /\ UNCHANGED session

TuningNext == \E s \in Sample : SampleWindow(s)

TuningSpec == TuningInit /\ [][TuningNext]_tvars

-----------------------------------------------------------------------------
(* Backpressure.                                                           *)

ComposeWritePressure(queued, ioInFlight, driver) ==
    SaturatingAdd(SaturatingAdd(queued, ioInFlight), driver)

DoubleLimit(limit) == IF limit > MaxU64 \div 2 THEN MaxU64 ELSE 2 * limit

NextWriteBackpressureSleepUs(pressure, limit) ==
    LET over == pressure - limit
    IN  CASE pressure <= limit -> 0
          [] pressure > limit /\ over > DoubleLimit(limit) -> 5000
          [] over > limit /\ over <= DoubleLimit(limit) -> 3000
          [] over > limit \div 2 /\ over <= limit -> 1500
          [] over > limit \div 4 /\ over <= limit \div 2 -> 700
          [] OTHER -> 300

-----------------------------------------------------------------------------
(* Streams, chunks and request windows.                                    *)

ResolveTransferOptions(o) ==
    LET streams == IF o.streamAutoTune THEN 4 ELSE o.streamLimit
        chunk == IF ~o.chunkAutoTune THEN o.chunkSize
                 ELSE IF streams <= 8 THEN 4096 ELSE IF streams <= 16 THEN 2048
                 ELSE IF streams <= 32 THEN 1024 ELSE IF streams <= 64 THEN 512 ELSE 256
    IN  [streamLimit |-> Clamp(streams, 1, 1024), chunkSize |-> Clamp(chunk, 64, 65536)]

\* Rounded down to 4 KiB and at least that.
EffectiveChunkSizeForStreams(chunk, streams) ==
    LET base == IF streams <= 16 THEN Max({chunk, 1024})
                ELSE IF streams <= 32 THEN Max({chunk, 512}) ELSE chunk
    IN  Max({base - (base % 4), 4})

DownloadFlushThresholdForStreams(streams, chunk) ==
    IF streams <= 16 THEN Max({4096, 4 * chunk})
    ELSE IF streams <= 32 THEN Max({2048, 2 * chunk}) ELSE Max({512, chunk})

IsWanRtt(rtt) == rtt > 10
WanStreamsForRtt(rtt) ==
    IF rtt <= 10 THEN 4 ELSE IF rtt <= 30 THEN 8 ELSE IF rtt <= 60 THEN 12 ELSE 16

\* Files of avg KiB that fit into 400 Mbit/s for one round trip (50000 bytes per ms).
BdpDepthFiles(rtt, avg) ==
    LET bytes == 50000 * Max({rtt, 1})
        each == 1024 * Clamp(IF avg # 0 THEN avg ELSE 16, 4, 1024)
    IN  (bytes + each - 1) \div each

ComputeHashInflightDepth(rtt, streams, avg) ==
    IF ~IsWanRtt(rtt) THEN Clamp(256 * streams, 1024, 8192)
    ELSE Clamp(Max({256 * streams, BdpDepthFiles(rtt, avg), 8192 * Max({1, rtt \div 10})}),
               1024, 65536)

\* 0 means unbounded.
ComputeDeltaSigInflightDepth(rtt, avg) ==
    IF ~IsWanRtt(rtt) THEN 0
    ELSE Clamp(Max({BdpDepthFiles(rtt, IF avg # 0 THEN avg ELSE 256),
                    256 * Max({1, rtt \div 10}), 256}), 1, 8192)

DeltaErrorReleasesSigSlot(rangeTagged, stateExists, sigReceived) ==
    ~rangeTagged /\ stateExists /\ ~sigReceived

\* Mutant of WanStreams: the base is no lower bound.
WanStreamsMayShrink(base, auto, rtt, hw) ==
    IF auto /\ IsWanRtt(rtt) THEN Min({WanStreamsForRtt(rtt), 16, Max({4, 2 * Max({1, hw})})})
    ELSE base

\* The stream count of ResolveWanTuning.
WanStreams(base, auto, rtt, hw) ==
    IF auto /\ IsWanRtt(rtt)
    THEN Max({Min({WanStreamsForRtt(rtt), 16, Max({4, 2 * Max({1, hw})})}), base})
    ELSE base

ResolveWanTuning(base, auto, rtt, hw) ==
    LET streams == WanStreams(base, auto, rtt, hw)
    IN  [wanMode |-> IsWanRtt(rtt), streamLimit |-> streams,
         maxInFlightHashRequests |-> ComputeHashInflightDepth(rtt, streams, 0),
         maxInFlightDeltaSig |-> ComputeDeltaSigInflightDepth(rtt, 0)]

-----------------------------------------------------------------------------
(* Properties.                                                             *)

\* The controller neither collapses nor paralyses the write path (root cause of
\* D-5): two windows in a row never both lower the cap for their rate alone, and
\* after two calm windows with a backlog the cap has grown unless it is at the
\* size of the pool; it stays between 1 and that size.
WriteCapSteady ==
    [][/\ writeCap'.activeCap \in 1 .. PoolMax
       /\ ~(rateCut /\ rateCut')
       /\ calm' >= 2 /\ writeCap.activeCap < PoolMax =>
            writeCap'.activeCap = writeCap.activeCap + 1
       /\ writeCap'.activeCap > writeCap.activeCap =>
            writeCap'.activeCap = writeCap.activeCap + 1 /\ writeCap.consecutiveHealthy >= 1]_tvars

\* HC-04, NFR-04: a longer round trip never shrinks a window, the step into WAN
\* mode included; on a LAN, or with --streams, the stream count is the configured
\* one; more bytes in flight never shorten the backpressure sleep, up to the
\* largest counts; an aligned chunk never vanishes.
TuningMonotone ==
    LET At(rtt) == ResolveWanTuning(session.base, session.auto, rtt, session.hw)
        here == At(session.rtt)
        more == At(session.rtt + 1)
        sleep(q) == NextWriteBackpressureSleepUs(
                        ComposeWritePressure(q, session.driver, 0), Budget)
        chunk == EffectiveChunkSizeForStreams(session.hw, session.base)
    IN  windows = 0 =>
        /\ here.streamLimit <= more.streamLimit /\ here.streamLimit >= session.base
        /\ here.maxInFlightHashRequests <= more.maxInFlightHashRequests
        /\ here.maxInFlightHashRequests >= here.streamLimit
        /\ ~here.wanMode \/ ~session.auto => here.streamLimit = session.base
        /\ here.maxInFlightDeltaSig = 0 <=> ~here.wanMode
        /\ here.wanMode => here.maxInFlightDeltaSig <= more.maxInFlightDeltaSig
        /\ \A q \in Bytes : session.queued <= q => sleep(session.queued) <= sleep(q)
        /\ chunk > 0 /\ chunk % 4 = 0
        /\ DownloadFlushThresholdForStreams(session.base, chunk) >= chunk
=============================================================================
