--------------------------- MODULE AlgorithmProofs ---------------------------
(***************************************************************************)
(* Proofs about the parts of MCAlgorithms, each on its own.                 *)
(*                                                                         *)
(* The tuning of a session: the write-cap controller is steady for all      *)
(* thresholds, pools and samples, and the tuning functions are monotone for *)
(* all round trips, stream counts and byte counts.                          *)
(*                                                                         *)
(* A run of the client: no run deletes what the server offers, and the exit *)
(* code tells the truth, for all trees, budgets and numbers of sessions and *)
(* failures.                                                                *)
(*                                                                         *)
(* The binary delta: the streaming signer, the sliding window and the      *)
(* rolling scan compute what the algorithms over the whole file compute,   *)
(* and a plan that is used rebuilds the new file, for all alphabets, files, *)
(* block and chunk sizes, moduli and thresholds.  Induction over bytes,    *)
(* blocks, iterations and sets of ranges is by a least counterexample      *)
(* (CountTo, OnSubsets), over a set in place of a predicate.               *)
(***************************************************************************)
EXTENDS Delta, TransferTuning, ClientRun, SequenceTheorems, FiniteSetTheorems, WellFoundedInduction,
        TLAPS

-----------------------------------------------------------------------------
(* Min, Max and Clamp.                                                     *)

LEMMA TwoOf ==
  ASSUME NEW a \in Int, NEW b \in Int
  PROVE  /\ Max({a, b}) = IF a >= b THEN a ELSE b
         /\ Min({a, b}) = IF a <= b THEN a ELSE b
<1>1. \E x \in {a, b} : \A y \in {a, b} : x >= y
  OBVIOUS
<1>2. \E x \in {a, b} : \A y \in {a, b} : x =< y
  OBVIOUS
<1>3. Max({a, b}) \in {a, b} /\ \A y \in {a, b} : Max({a, b}) >= y
  BY <1>1 DEF Max
<1>4. Min({a, b}) \in {a, b} /\ \A y \in {a, b} : Min({a, b}) =< y
  BY <1>2 DEF Min
<1> QED BY <1>3, <1>4

LEMMA ThreeOf ==
  ASSUME NEW a \in Int, NEW b \in Int, NEW c \in Int
  PROVE  /\ Max({a, b, c}) \in Int /\ Max({a, b, c}) \in {a, b, c}
         /\ Max({a, b, c}) >= a /\ Max({a, b, c}) >= b /\ Max({a, b, c}) >= c
         /\ Min({a, b, c}) \in Int /\ Min({a, b, c}) \in {a, b, c}
         /\ Min({a, b, c}) <= a /\ Min({a, b, c}) <= b /\ Min({a, b, c}) <= c
<1>1. \E x \in {a, b, c} : \A y \in {a, b, c} : x >= y
  OBVIOUS
<1>2. \E x \in {a, b, c} : \A y \in {a, b, c} : x =< y
  OBVIOUS
<1>3. Max({a, b, c}) \in {a, b, c} /\ \A y \in {a, b, c} : Max({a, b, c}) >= y
  BY <1>1 DEF Max
<1>4. Min({a, b, c}) \in {a, b, c} /\ \A y \in {a, b, c} : Min({a, b, c}) =< y
  BY <1>2 DEF Min
<1> QED BY <1>3, <1>4

LEMMA ClampIs ==
  ASSUME NEW x \in Int, NEW lo \in Int, NEW hi \in Int, lo <= hi
  PROVE  Clamp(x, lo, hi) = IF x < lo THEN lo ELSE IF x > hi THEN hi ELSE x
<1>1. Max({x, lo}) = IF x >= lo THEN x ELSE lo
  BY TwoOf
<1>2. Max({x, lo}) \in Int
  BY <1>1
<1>3. Clamp(x, lo, hi) = IF Max({x, lo}) <= hi THEN Max({x, lo}) ELSE hi
  BY <1>2, TwoOf DEF Clamp
<1> QED BY <1>1, <1>3

LEMMA PoolIs == PoolMax \in Nat /\ 1 <= PoolMax /\ PoolMax <= ActiveCapMax
               /\ ActiveCapInitial <= PoolMax /\ Clamp(PoolMax, 1, ActiveCapMax) = PoolMax
<1>1. /\ ActiveCapInitial \in Nat /\ ActiveCapInitial >= 1 /\ ActiveCapMax \in Nat
      /\ ActiveCapInitial <= ActiveCapMax /\ HardwareThreads \in Nat
  BY TuningAssumption
<1>2. Max({1, HardwareThreads}) \in Int
  BY <1>1, TwoOf
<1>3. /\ PoolMax \in Nat /\ 1 <= PoolMax /\ PoolMax <= ActiveCapMax
      /\ ActiveCapInitial <= PoolMax
  BY <1>1, <1>2, ClampIs DEF PoolMax, ResolveWriteWorkerPoolMax
<1> QED BY <1>1, <1>3, ClampIs

-----------------------------------------------------------------------------
(* The controller.                                                         *)

\* A cut for the rate has just changed the cap, and a calm window was a healthy one.
CapInv ==
  /\ writeCap = [activeCap |-> writeCap.activeCap,
                 consecutiveHealthy |-> writeCap.consecutiveHealthy,
                 rate |-> writeCap.rate, latency |-> writeCap.latency,
                 havePrev |-> writeCap.havePrev,
                 windowsSinceLastChange |-> writeCap.windowsSinceLastChange]
  /\ writeCap.activeCap \in 1 .. PoolMax /\ writeCap.consecutiveHealthy \in Nat
  /\ writeCap.rate \in Nat /\ writeCap.latency \in Nat /\ writeCap.havePrev \in BOOLEAN
  /\ writeCap.windowsSinceLastChange \in Nat
  /\ rateCut => writeCap.windowsSinceLastChange = 0
  /\ calm \in Nat /\ (calm >= 1 => writeCap.consecutiveHealthy >= 1)

SteadyStep ==
  /\ writeCap'.activeCap \in 1 .. PoolMax
  /\ ~(rateCut /\ rateCut')
  /\ calm' >= 2 /\ writeCap.activeCap < PoolMax => writeCap'.activeCap = writeCap.activeCap + 1
  /\ writeCap'.activeCap > writeCap.activeCap =>
       writeCap'.activeCap = writeCap.activeCap + 1 /\ writeCap.consecutiveHealthy >= 1

LEMMA WindowSteady ==
  ASSUME CapInv, NEW s \in Sample, SampleWindow(s)
  PROVE  CapInv' /\ SteadyStep
<1> DEFINE next == NextWriteActiveCap(writeCap, s, PoolMax)
           ewma == UpdateEwma(writeCap.latency, s.latency)
           bad == Deteriorated(writeCap, s, ewma)
           good == Healthy(writeCap, s, ewma)
           streak == IF ~bad /\ good THEN writeCap.consecutiveHealthy + 1 ELSE 0
           cap == writeCap.activeCap
           half == Max({1, cap \div 2})
           wish == IF bad THEN half
                   ELSE IF streak >= 2 /\ cap < PoolMax THEN cap + 1
                   ELSE cap
           since == IF Clamp(wish, 1, PoolMax) # cap THEN 0
                    ELSE writeCap.windowsSinceLastChange + 1
<1>1. /\ cap \in Int /\ 1 <= cap /\ cap <= PoolMax /\ PoolMax \in Int
      /\ writeCap.consecutiveHealthy \in Nat /\ writeCap.rate \in Nat /\ writeCap.latency \in Nat
      /\ writeCap.windowsSinceLastChange \in Nat /\ writeCap.havePrev \in BOOLEAN
  BY PoolIs DEF CapInv
<1>2. /\ s.backlog \in Nat /\ s.rate \in Nat /\ s.latency \in Nat /\ s.failures \in {0, 1}
      /\ LatencyHalve \in Nat /\ LatencyGrow \in Nat /\ RateMin \in Nat
  <2> DEFINE back == s.backlog
             rate == s.rate
             lat == s.latency
  <2>1. back \in Backlogs /\ rate \in Rates /\ lat \in Latencies /\ s.failures \in {0, 1}
    BY DEF Sample
  <2> HIDE DEF back, rate, lat
  <2>2. back \in Nat /\ rate \in Nat /\ lat \in Nat
    BY <2>1, TuningAssumption
  <2>3. LatencyHalve \in Nat /\ LatencyGrow \in Nat /\ RateMin \in Nat
    BY TuningAssumption
  <2> QED BY <2>1, <2>2, <2>3 DEF back, rate, lat
<1>3. ewma \in Nat
  BY <1>1, <1>2 DEF UpdateEwma
<1>4. next = [activeCap |-> Clamp(wish, 1, PoolMax), consecutiveHealthy |-> streak,
              rate |-> s.rate, latency |-> ewma, havePrev |-> TRUE,
              windowsSinceLastChange |-> since]
  BY PoolIs DEF NextWriteActiveCap
<1>5. half \in Int /\ 1 <= half /\ half <= cap
  <2>1. cap \div 2 \in Int /\ cap \div 2 <= cap
    BY <1>1
  <2> QED BY <1>1, <2>1, TwoOf
<1>6. bad \in BOOLEAN /\ good \in BOOLEAN
  BY DEF Deteriorated, Healthy
<1> DEFINE calms == /\ ~OtherTrouble(s) /\ s.backlog > cap
                    /\ s.rate >= Max({RateMin, writeCap.rate})
                    /\ (writeCap.havePrev => next.latency <= writeCap.latency)
                    /\ next.latency <= LatencyHalve /\ next.latency < LatencyGrow
           cut == next.activeCap < cap /\ ~OtherTrouble(s) /\ next.latency <= LatencyHalve
<1>7. writeCap' = next /\ rateCut' = cut /\ calm' = IF calms THEN calm + 1 ELSE 0
  BY DEF SampleWindow
<1>8. next.latency = ewma
  BY <1>4
<1>9. calms => ~bad /\ good
  <2> SUFFICES ASSUME calms PROVE ~bad /\ good
    OBVIOUS
  <2>1. s.rate >= RateMin /\ s.rate >= writeCap.rate
    BY <1>1, <1>2, TwoOf
  <2>2. ~RateDropped(writeCap, s)
    BY <1>2, <2>1 DEF RateDropped
  <2>3. ~LatencyHigh(writeCap, s, ewma)
    BY <1>2, <1>3, <1>8 DEF LatencyHigh
  <2>4. ~bad
    BY <2>2, <2>3 DEF Deteriorated, OtherTrouble
  <2>5. good
    BY <1>1, <1>3, <1>8, <2>1 DEF Healthy
  <2> QED BY <2>4, <2>5
<1>10. bad /\ ~OtherTrouble(s) /\ ewma <= LatencyHalve => writeCap.windowsSinceLastChange >= 1
  <2>1. ewma <= LatencyHalve => ~LatencyHigh(writeCap, s, ewma)
    BY <1>2, <1>3 DEF LatencyHigh
  <2> QED BY <2>1 DEF Deteriorated, OtherTrouble, RateDropped
<1> HIDE DEF ewma, bad, good, half
<1>11. streak \in Nat /\ (streak >= 2 => ~bad /\ writeCap.consecutiveHealthy >= 1)
  BY <1>1, <1>6
<1>12. wish \in Int /\ 1 <= wish /\ wish <= PoolMax /\ (bad => wish <= cap) /\ (~bad => wish >= cap)
       /\ (wish > cap => wish = cap + 1 /\ streak >= 2)
  BY <1>1, <1>5, <1>6, <1>11
<1>13. Clamp(wish, 1, PoolMax) = wish
  BY <1>1, <1>12, ClampIs
<1>14. since = (IF wish # cap THEN 0 ELSE writeCap.windowsSinceLastChange + 1) /\ since \in Nat
  BY <1>1, <1>13
<1>15. next.activeCap = wish /\ next.consecutiveHealthy = streak /\ next.windowsSinceLastChange = since
       /\ next.rate = s.rate /\ next.havePrev = TRUE
  BY <1>4, <1>13
<1>16. cut => bad /\ wish # cap /\ writeCap.windowsSinceLastChange >= 1
  BY <1>1, <1>6, <1>8, <1>10, <1>12, <1>15
<1>17. calms => streak = writeCap.consecutiveHealthy + 1 /\ (streak >= 2 /\ cap < PoolMax => wish = cap + 1)
  BY <1>6, <1>9
<1>18. CapInv'
  <2>1. writeCap'.activeCap \in 1 .. PoolMax
    BY <1>1, <1>7, <1>12, <1>15
  <2>2. rateCut' => writeCap'.windowsSinceLastChange = 0
    BY <1>7, <1>14, <1>15, <1>16
  <2>3. calm' \in Nat /\ (calm' >= 1 => writeCap'.consecutiveHealthy >= 1)
    BY <1>1, <1>7, <1>15, <1>17 DEF CapInv
  <2>4. writeCap' = next /\ next = [activeCap |-> next.activeCap,
                 consecutiveHealthy |-> next.consecutiveHealthy,
                 rate |-> next.rate, latency |-> next.latency,
                 havePrev |-> next.havePrev,
                 windowsSinceLastChange |-> next.windowsSinceLastChange]
    BY <1>4, <1>7
  <2>5. /\ next.consecutiveHealthy \in Nat /\ next.rate \in Nat /\ next.latency \in Nat
        /\ next.havePrev \in BOOLEAN /\ next.windowsSinceLastChange \in Nat
    BY <1>2, <1>3, <1>8, <1>11, <1>14, <1>15
  <2> HIDE DEF next, cut, calms
  <2> QED BY <2>1, <2>2, <2>3, <2>4, <2>5 DEF CapInv
<1>19. SteadyStep
  <2>1. writeCap'.activeCap = wish
    BY <1>7, <1>15
  <2>2. ASSUME rateCut, rateCut' PROVE FALSE
    <3>1. cut
      BY <1>7, <2>2
    <3>2. writeCap.windowsSinceLastChange = 0
      BY <2>2 DEF CapInv
    <3> HIDE DEF cut
    <3> QED BY <1>1, <1>16, <3>1, <3>2
  <2>3. calm' >= 2 => calms /\ calm >= 1
    BY <1>7 DEF CapInv
  <2>4. calm' >= 2 /\ cap < PoolMax => wish = cap + 1
    BY <1>1, <1>17, <2>3 DEF CapInv
  <2> HIDE DEF wish
  <2> QED BY <1>1, <1>11, <1>12, <2>1, <2>2, <2>4 DEF SteadyStep
<1> QED BY <1>18, <1>19

\* The write-cap controller never collapses nor paralyses the write path, for all pool sizes,
\* thresholds and samples: two windows in a row never both lower the cap for their rate
\* alone, two calm windows raise it unless it is at the pool's size, and it grows one by one.
THEOREM SteadyHolds == TuningSpec => WriteCapSteady
<1>1. TuningInit => CapInv
  <2> SUFFICES ASSUME TuningInit PROVE CapInv
    OBVIOUS
  <2>1. ActiveCapInitial \in 1 .. PoolMax
    BY PoolIs, TuningAssumption
  <2>2. writeCap = [activeCap |-> ActiveCapInitial, consecutiveHealthy |-> 0, rate |-> 0,
                    latency |-> 0, havePrev |-> FALSE, windowsSinceLastChange |-> 0]
        /\ rateCut = FALSE /\ calm = 0
    BY DEF TuningInit
  <2> QED BY <2>1, <2>2 DEF CapInv
<1>2. CapInv /\ [TuningNext]_tvars => CapInv' /\ [SteadyStep]_tvars
  <2> SUFFICES ASSUME CapInv, [TuningNext]_tvars PROVE CapInv' /\ [SteadyStep]_tvars
    OBVIOUS
  <2>1. CASE TuningNext
    BY <2>1, WindowSteady DEF TuningNext
  <2>2. CASE UNCHANGED tvars
    BY <2>2 DEF tvars, CapInv
  <2> QED BY <2>1, <2>2
<1> QED BY <1>1, <1>2, PTL DEF TuningSpec, WriteCapSteady, SteadyStep

-----------------------------------------------------------------------------
(* The tuning functions.                                                   *)

\* The streams of a session and of one with a longer round trip.
StreamsGrow(base, auto, rtt, hw) ==
  LET here == WanStreams(base, auto, rtt, hw)
      more == WanStreams(base, auto, rtt + 1, hw)
  IN  /\ here \in base .. 1024 /\ more \in base .. 1024 /\ here <= more
      /\ ~IsWanRtt(rtt) \/ ~auto => here = base

LEMMA StreamsIs ==
  ASSUME NEW base \in 1 .. 1024, NEW auto, NEW rtt \in Int, NEW hw \in Nat
  PROVE  StreamsGrow(base, auto, rtt, hw)
<1> DEFINE m == Max({4, 2 * Max({1, hw})})
           here == WanStreams(base, auto, rtt, hw)
           more == WanStreams(base, auto, rtt + 1, hw)
           a == WanStreamsForRtt(rtt)
           b == WanStreamsForRtt(rtt + 1)
           p == Min({a, 16, m})
           q == Min({b, 16, m})
<1>1. m \in Int /\ 4 <= m
  <2>1. Max({1, hw}) \in Int
    BY TwoOf
  <2> QED BY <2>1, TwoOf
<1>2. a \in 4 .. 16 /\ b \in 4 .. 16 /\ a <= b
  BY DEF WanStreamsForRtt
<1> HIDE DEF a, b, m
<1>3. /\ p \in Int /\ p \in {a, 16, m} /\ p <= a /\ p <= 16 /\ p <= m
      /\ q \in Int /\ q \in {b, 16, m} /\ q <= b /\ q <= 16 /\ q <= m
  <2> DEFINE k == 16
  <2>1. a \in Int /\ b \in Int /\ k \in Int /\ m \in Int
    BY <1>1, <1>2
  <2>2. p = Min({a, k, m}) /\ q = Min({b, k, m})
    OBVIOUS
  <2> HIDE DEF k, p, q
  <2>3. p \in Int /\ p \in {a, k, m} /\ p <= a /\ p <= k /\ p <= m
    BY <2>1, <2>2, ThreeOf, ZenonT(60)
  <2>4. q \in Int /\ q \in {b, k, m} /\ q <= b /\ q <= k /\ q <= m
    BY <2>1, <2>2, ThreeOf, ZenonT(60)
  <2> QED BY <2>3, <2>4 DEF k
<1> HIDE DEF p, q
<1>4. p <= q /\ p \in 1 .. 16 /\ q \in 1 .. 16
  BY <1>1, <1>2, <1>3
<1>5. /\ Max({p, base}) = (IF p >= base THEN p ELSE base)
      /\ Max({q, base}) = (IF q >= base THEN q ELSE base)
  BY <1>3, TwoOf
<1>6. /\ here = (IF auto /\ rtt > 10 THEN Max({p, base}) ELSE base)
      /\ more = (IF auto /\ rtt + 1 > 10 THEN Max({q, base}) ELSE base)
  BY DEF WanStreams, IsWanRtt, p, q, a, b, m
<1> HIDE DEF here, more
<1>7. /\ here \in base .. 1024 /\ more \in base .. 1024 /\ here <= more
      /\ ~(rtt > 10) \/ ~auto => here = base
  BY <1>4, <1>5, <1>6
<1> QED BY <1>7 DEF here, more, IsWanRtt, StreamsGrow

\* The files in one round trip, of 16 KiB each: no more on a shorter trip.
LEMMA BdpGrows ==
  ASSUME NEW rtt \in Int, NEW avg \in {16, 256}
  PROVE  /\ BdpDepthFiles(rtt, avg) \in Nat /\ BdpDepthFiles(rtt, avg) <= BdpDepthFiles(rtt + 1, avg)
         /\ BdpDepthFiles(rtt, 0) = BdpDepthFiles(rtt, 16)
<1> DEFINE m == Max({rtt, 1})
           n == Max({rtt + 1, 1})
           e == 1024 * avg
<1>1. m \in Nat /\ n \in Nat /\ m <= n
  BY TwoOf
<1>2. e \in Nat /\ e >= 1 /\ Clamp(avg, 4, 1024) = avg /\ avg # 0
  BY ClampIs
<1>3. /\ BdpDepthFiles(rtt, avg) = (50000 * m + e - 1) \div e
      /\ BdpDepthFiles(rtt + 1, avg) = (50000 * n + e - 1) \div e
  BY <1>2 DEF BdpDepthFiles
<1>4. BdpDepthFiles(rtt, 0) = BdpDepthFiles(rtt, 16)
  BY DEF BdpDepthFiles
<1> HIDE DEF m, n, e
<1>5. CASE avg = 16
  <2>1. e = 16384
    BY <1>5 DEF e
  <2> QED BY <1>1, <1>3, <1>4, <2>1
<1>6. CASE avg = 256
  <2>1. e = 262144
    BY <1>6 DEF e
  <2> QED BY <1>1, <1>3, <1>4, <2>1
<1> QED BY <1>5, <1>6

HashDepths(rtt, s, t) ==
  LET here == ComputeHashInflightDepth(rtt, s, 0)
      more == ComputeHashInflightDepth(rtt + 1, t, 0)
  IN  here \in Nat /\ here <= more /\ here >= s

LEMMA HashDepthGrows ==
  ASSUME NEW rtt \in Int, NEW s \in Int, NEW t \in Int, 1 <= s /\ s <= t /\ t <= 1024
  PROVE  HashDepths(rtt, s, t)
<1> DEFINE here == ComputeHashInflightDepth(rtt, s, 0)
           more == ComputeHashInflightDepth(rtt + 1, t, 0)
           b == BdpDepthFiles(rtt, 0)
           c == BdpDepthFiles(rtt + 1, 0)
           u == Max({1, rtt \div 10})
           v == Max({1, (rtt + 1) \div 10})
           p == Max({256 * s, b, 8192 * u})
           q == Max({256 * t, c, 8192 * v})
<1>1. b \in Nat /\ c \in Nat /\ b <= c
  <2>1. b = BdpDepthFiles(rtt, 16) /\ c = BdpDepthFiles(rtt + 1, 16)
    BY BdpGrows
  <2>2. BdpDepthFiles(rtt, 16) \in Nat /\ BdpDepthFiles(rtt + 1, 16) \in Nat
        /\ BdpDepthFiles(rtt, 16) <= BdpDepthFiles(rtt + 1, 16)
    BY BdpGrows
  <2> HIDE DEF b, c
  <2> QED BY <2>1, <2>2
<1>2. u \in Nat /\ v \in Nat /\ u <= v /\ 1 <= u
  BY TwoOf
<1> HIDE DEF b, c, u, v
<1>3. 256 * s \in Int /\ 256 * t \in Int /\ 256 * s <= 256 * t /\ 8192 * u \in Int /\ 8192 * v \in Int
      /\ 8192 * u <= 8192 * v /\ 8192 <= 8192 * u
  BY <1>2
<1>4. /\ p \in Int /\ p \in {256 * s, b, 8192 * u} /\ p >= 256 * s /\ p >= 8192 * u
      /\ q \in Int /\ q >= 256 * t /\ q >= c /\ q >= 8192 * v
  <2> DEFINE s1 == 256 * s
             t1 == 256 * t
             u1 == 8192 * u
             v1 == 8192 * v
  <2>1. s1 \in Int /\ t1 \in Int /\ u1 \in Int /\ v1 \in Int /\ b \in Int /\ c \in Int
    BY <1>1, <1>3
  <2>2. p = Max({s1, b, u1}) /\ q = Max({t1, c, v1})
    OBVIOUS
  <2> HIDE DEF s1, t1, u1, v1, p, q
  <2>3. p \in Int /\ p \in {s1, b, u1} /\ p >= s1 /\ p >= u1
    BY <2>1, <2>2, ThreeOf, ZenonT(60)
  <2>4. q \in Int /\ q >= t1 /\ q >= c /\ q >= v1
    BY <2>1, <2>2, ThreeOf, ZenonT(60)
  <2> QED BY <2>3, <2>4 DEF s1, t1, u1, v1
<1> HIDE DEF p, q
<1>5. p <= q /\ 8192 <= p
  BY <1>1, <1>3, <1>4
<1>6. /\ here = IF ~(rtt > 10) THEN Clamp(256 * s, 1024, 8192) ELSE Clamp(p, 1024, 65536)
      /\ more = IF ~(rtt + 1 > 10) THEN Clamp(256 * t, 1024, 8192) ELSE Clamp(q, 1024, 65536)
  BY DEF ComputeHashInflightDepth, IsWanRtt, p, q, b, c, u, v
<1>7. /\ Clamp(256 * s, 1024, 8192) = IF 256 * s < 1024 THEN 1024 ELSE IF 256 * s > 8192 THEN 8192 ELSE 256 * s
      /\ Clamp(256 * t, 1024, 8192) = IF 256 * t < 1024 THEN 1024 ELSE IF 256 * t > 8192 THEN 8192 ELSE 256 * t
      /\ Clamp(p, 1024, 65536) = IF p < 1024 THEN 1024 ELSE IF p > 65536 THEN 65536 ELSE p
      /\ Clamp(q, 1024, 65536) = IF q < 1024 THEN 1024 ELSE IF q > 65536 THEN 65536 ELSE q
  BY <1>3, <1>4, ClampIs
<1> HIDE DEF here, more
<1>8. here \in Nat /\ here <= more /\ here >= s
  BY <1>3, <1>4, <1>5, <1>6, <1>7
<1> QED BY <1>8 DEF here, more, HashDepths

LEMMA SigDepthGrows ==
  ASSUME NEW rtt \in Int
  PROVE  LET here == ComputeDeltaSigInflightDepth(rtt, 0)
             more == ComputeDeltaSigInflightDepth(rtt + 1, 0)
         IN  (here = 0 <=> ~IsWanRtt(rtt)) /\ (IsWanRtt(rtt) => here <= more)
<1> DEFINE here == ComputeDeltaSigInflightDepth(rtt, 0)
           more == ComputeDeltaSigInflightDepth(rtt + 1, 0)
           b == BdpDepthFiles(rtt, 256)
           c == BdpDepthFiles(rtt + 1, 256)
           u == Max({1, rtt \div 10})
           v == Max({1, (rtt + 1) \div 10})
           p == Max({b, 256 * u, 256})
           q == Max({c, 256 * v, 256})
<1>1. b \in Nat /\ c \in Nat /\ b <= c
  BY BdpGrows
<1>2. u \in Nat /\ v \in Nat /\ u <= v /\ 1 <= u
  <2> DEFINE d == rtt \div 10
             e == (rtt + 1) \div 10
  <2>1. d \in Int /\ e \in Int /\ d <= e
    OBVIOUS
  <2>2. u = Max({1, d}) /\ v = Max({1, e})
    OBVIOUS
  <2> HIDE DEF d, e, u, v
  <2> QED BY <2>1, <2>2, TwoOf
<1> HIDE DEF b, c, u, v
<1>3. 256 * u \in Int /\ 256 * v \in Int /\ 256 * u <= 256 * v
  BY <1>2
<1>4. /\ p \in Int /\ p \in {b, 256 * u, 256} /\ p >= 256
      /\ q \in Int /\ q >= c /\ q >= 256 * v /\ q >= 256
  <2> DEFINE u1 == 256 * u
             v1 == 256 * v
             k == 256
  <2>1. u1 \in Int /\ v1 \in Int /\ b \in Int /\ c \in Int /\ k \in Int
    BY <1>1, <1>3
  <2>2. p = Max({b, u1, k}) /\ q = Max({c, v1, k})
    OBVIOUS
  <2> HIDE DEF u1, v1, p, q, k
  <2>3. p \in Int /\ p \in {b, u1, k} /\ p >= k
    BY <2>1, <2>2, ThreeOf
  <2>4. q \in Int /\ q >= c /\ q >= v1 /\ q >= k
    BY <2>1, <2>2, ThreeOf
  <2> QED BY <2>3, <2>4 DEF u1, v1, k
<1> HIDE DEF p, q
<1>5. p <= q
  BY <1>1, <1>3, <1>4
<1>6. /\ here = IF ~(rtt > 10) THEN 0 ELSE Clamp(p, 1, 8192)
      /\ more = IF ~(rtt + 1 > 10) THEN 0 ELSE Clamp(q, 1, 8192)
  BY DEF ComputeDeltaSigInflightDepth, IsWanRtt, p, q, b, c, u, v
<1>7. /\ Clamp(p, 1, 8192) = IF p < 1 THEN 1 ELSE IF p > 8192 THEN 8192 ELSE p
      /\ Clamp(q, 1, 8192) = IF q < 1 THEN 1 ELSE IF q > 8192 THEN 8192 ELSE q
  BY <1>4, ClampIs
<1> HIDE DEF here, more
<1>8. (here = 0 <=> ~(rtt > 10)) /\ (rtt > 10 => here <= more)
  BY <1>4, <1>5, <1>6, <1>7
<1> QED BY <1>8 DEF here, more, IsWanRtt

LEMMA SleepGrows ==
  ASSUME NEW q \in 0 .. MaxU64, NEW r \in 0 .. MaxU64, NEW d \in 0 .. MaxU64, q <= r
  PROVE  NextWriteBackpressureSleepUs(ComposeWritePressure(q, d, 0), Budget)
           <= NextWriteBackpressureSleepUs(ComposeWritePressure(r, d, 0), Budget)
<1> DEFINE x == ComposeWritePressure(q, d, 0)
           y == ComposeWritePressure(r, d, 0)
<1>1. MaxU64 \in Nat /\ Budget \in Nat /\ Budget <= MaxU64
  BY TuningAssumption
<1>2. x \in Nat /\ y \in Nat /\ x <= y
  BY <1>1 DEF ComposeWritePressure, SaturatingAdd
<1> DEFINE two == DoubleLimit(Budget)
<1>3. two \in Nat /\ Budget <= two
  BY <1>1 DEF DoubleLimit
<1> HIDE DEF x, y, two
<1> DEFINE Sleep(z) == CASE z <= Budget -> 0
          [] z > Budget /\ z - Budget > two -> 5000
          [] z - Budget > Budget /\ z - Budget <= two -> 3000
          [] z - Budget > Budget \div 2 /\ z - Budget <= Budget -> 1500
          [] z - Budget > Budget \div 4 /\ z - Budget <= Budget \div 2 -> 700
          [] OTHER -> 300
<1>4. NextWriteBackpressureSleepUs(x, Budget) = Sleep(x) /\ NextWriteBackpressureSleepUs(y, Budget) = Sleep(y)
  BY DEF NextWriteBackpressureSleepUs, two
<1> DEFINE h == Budget \div 2
           k == Budget \div 4
<1>5. h \in Nat /\ k \in Nat /\ k <= h /\ h <= Budget
  BY <1>1
<1> HIDE DEF h, k
<1>6. \A z \in Nat : Sleep(z) = IF z <= Budget THEN 0
                                ELSE IF z - Budget > two THEN 5000
                                ELSE IF z - Budget > Budget THEN 3000
                                ELSE IF z - Budget > h THEN 1500
                                ELSE IF z - Budget > k THEN 700 ELSE 300
  BY <1>1, <1>3, <1>5 DEF h, k
<1> HIDE DEF Sleep
<1>7. Sleep(x) <= Sleep(y)
  BY <1>1, <1>2, <1>3, <1>5, <1>6
<1> QED BY <1>4, <1>7 DEF x, y

Aligned(size, streams) ==
  LET chunk == EffectiveChunkSizeForStreams(size, streams)
  IN  /\ chunk \in Nat /\ chunk > 0 /\ chunk % 4 = 0
      /\ DownloadFlushThresholdForStreams(streams, chunk) >= chunk

LEMMA ChunkAligned ==
  ASSUME NEW size \in Nat, NEW streams \in Int, 1 <= streams, streams <= 1024
  PROVE  Aligned(size, streams)
<1> DEFINE base == IF streams <= 16 THEN Max({size, 1024})
                   ELSE IF streams <= 32 THEN Max({size, 512}) ELSE size
           cut == base - (base % 4)
           chunk == EffectiveChunkSizeForStreams(size, streams)
<1>1. base \in Nat
  BY TwoOf
<1>2. chunk = Max({cut, 4})
  BY DEF EffectiveChunkSizeForStreams
<1> HIDE DEF base, chunk
<1>3. cut \in Int /\ cut % 4 = 0
  BY <1>1
<1> HIDE DEF cut
<1>4. chunk \in Nat /\ chunk > 0 /\ chunk % 4 = 0
  BY <1>2, <1>3, TwoOf
<1>5. /\ Max({4096, 4 * chunk}) >= chunk /\ Max({2048, 2 * chunk}) >= chunk
      /\ Max({512, chunk}) >= chunk
  BY <1>4, TwoOf
<1>6. DownloadFlushThresholdForStreams(streams, chunk) >= chunk
  BY <1>5 DEF DownloadFlushThresholdForStreams
<1> QED BY <1>4, <1>6 DEF chunk, Aligned

\* The ranges of what a session starts from.
LEMMA InputRanges ==
  /\ \A b \in BaseStreams : b \in 1 .. 1024
  /\ \A r \in Rtts : r \in Int
  /\ \A h \in Hw : h \in Nat
  /\ \A q \in Bytes : q \in 0 .. MaxU64
BY TuningAssumption

\* For all round trips, stream counts, threads and byte counts: a longer round trip never
\* shrinks a window, a configured stream count is kept, more pressure never shortens the
\* sleep, and an aligned chunk never vanishes (ResolveWanTuning and its helpers).
THEOREM MonotoneHolds == TuningSpec => []TuningMonotone
<1> DEFINE Known == session \in Sessions
<1>1. TuningInit => Known
  BY DEF TuningInit
<1>2. Known /\ [TuningNext]_tvars => Known'
  BY DEF TuningNext, SampleWindow, tvars
<1>3. ASSUME Known PROVE TuningMonotone
  <2> DEFINE base == session.base
             auto == session.auto
             rtt == session.rtt
             hw == session.hw
             chunk == EffectiveChunkSizeForStreams(hw, base)
             s == WanStreams(base, auto, rtt, hw)
             t == WanStreams(base, auto, rtt + 1, hw)
  <2>1. /\ base \in 1 .. 1024 /\ rtt \in Int /\ hw \in Nat
        /\ session.queued \in 0 .. MaxU64 /\ session.driver \in 0 .. MaxU64 /\ Bytes \subseteq 0 .. MaxU64
    <3> DEFINE now == session.queued
               drv == session.driver
    <3>1. /\ base \in BaseStreams /\ rtt \in Rtts /\ hw \in Hw
          /\ now \in Bytes /\ drv \in Bytes
      BY <1>3 DEF Sessions
    <3> HIDE DEF base, rtt, hw, now, drv
    <3>2. base \in 1 .. 1024 /\ rtt \in Int /\ hw \in Nat
      BY <3>1, InputRanges
    <3>3. now \in 0 .. MaxU64 /\ drv \in 0 .. MaxU64 /\ Bytes \subseteq 0 .. MaxU64
      BY <3>1, InputRanges
    <3> QED BY <3>2, <3>3 DEF now, drv
  <2> HIDE DEF base, auto, rtt, hw
  <2>2. /\ s \in base .. 1024 /\ t \in base .. 1024 /\ s <= t
        /\ ~IsWanRtt(rtt) \/ ~auto => s = base
    <3>1. StreamsGrow(base, auto, rtt, hw)
      BY <2>1, StreamsIs, ZenonT(60)
    <3> QED BY <3>1 DEF StreamsGrow
  <2>3. /\ ComputeHashInflightDepth(rtt, s, 0) <= ComputeHashInflightDepth(rtt + 1, t, 0)
        /\ ComputeHashInflightDepth(rtt, s, 0) >= s
    <3> HIDE DEF s, t
    <3>1. s \in Int /\ t \in Int /\ 1 <= s /\ s <= t /\ t <= 1024
      BY <2>1, <2>2
    <3>2. rtt \in Int
      BY <2>1
    <3>3. HashDepths(rtt, s, t)
      BY <3>1, <3>2, HashDepthGrows
    <3> QED BY <3>3 DEF HashDepths
  <2>4. /\ ComputeDeltaSigInflightDepth(rtt, 0) = 0 <=> ~IsWanRtt(rtt)
        /\ IsWanRtt(rtt) => ComputeDeltaSigInflightDepth(rtt, 0) <= ComputeDeltaSigInflightDepth(rtt + 1, 0)
    BY <2>1, SigDepthGrows
  <2>5. \A q \in Bytes : session.queued <= q =>
          NextWriteBackpressureSleepUs(ComposeWritePressure(session.queued, session.driver, 0), Budget)
            <= NextWriteBackpressureSleepUs(ComposeWritePressure(q, session.driver, 0), Budget)
    <3> DEFINE now == session.queued
               drv == session.driver
    <3>1. now \in 0 .. MaxU64 /\ drv \in 0 .. MaxU64 /\ \A q \in Bytes : q \in 0 .. MaxU64
      BY <2>1
    <3> HIDE DEF now, drv
    <3> SUFFICES ASSUME NEW q \in Bytes, now <= q
                 PROVE  NextWriteBackpressureSleepUs(ComposeWritePressure(now, drv, 0), Budget)
                          <= NextWriteBackpressureSleepUs(ComposeWritePressure(q, drv, 0), Budget)
      BY DEF now, drv
    <3>2. q \in 0 .. MaxU64
      BY <3>1
    <3> QED BY <3>1, <3>2, SleepGrows
  <2>6. /\ chunk > 0 /\ chunk % 4 = 0
        /\ DownloadFlushThresholdForStreams(base, chunk) >= chunk
    <3> HIDE DEF chunk, s, t
    <3>1. hw \in Nat /\ base \in Int /\ 1 <= base /\ base <= 1024
      BY <2>1
    <3>2. Aligned(hw, base)
      BY <3>1, ChunkAligned
    <3> QED BY <3>2 DEF Aligned, chunk
  <2> HIDE DEF s, t, chunk
  <2>7. s >= base
    BY <2>1, <2>2
  <2> QED BY <2>2, <2>3, <2>4, <2>5, <2>6, <2>7 DEF TuningMonotone, ResolveWanTuning, s, t, chunk, base, auto, rtt, hw
<1> QED BY <1>1, <1>2, <1>3, PTL DEF TuningSpec

-----------------------------------------------------------------------------
(* A run of the client.                                                    *)

\* What makes the deletions safe.  A finished manifest is the whole of the served tree;
\* the scan is reached only with one, and from the scan to the end of the deletions what
\* is left to delete is neither offered nor the executable.
DeleteInv ==
  /\ local = [files |-> local.files, dirs |-> local.dirs]
  /\ manifestDone => remoteFiles = DOMAIN served.files /\ remoteDirs = served.dirs
  /\ place = "scan" => manifestDone
  /\ place = "delete" =>
       /\ extras.files \cap (DOMAIN served.files \cup {SelfPath}) = {}
       /\ extras.dirs \cap served.dirs = {}

\* What one step may remove from the target.
RemovesOnlyExtras ==
  /\ DOMAIN local.files \ DOMAIN local'.files
       \subseteq DOMAIN local.files \ (DOMAIN served.files \cup {SelfPath})
  /\ local.dirs \ local'.dirs \subseteq local.dirs \ served.dirs

\* The writes of a transfer add to the target and remove nothing.
LEMMA WriteAdds ==
  ASSUME NEW entries
  PROVE  /\ Write(entries) = [files |-> Write(entries).files, dirs |-> Write(entries).dirs]
         /\ DOMAIN local.files \subseteq DOMAIN Write(entries).files
         /\ local.dirs \subseteq Write(entries).dirs
BY DEF Write

LEMMA DeleteInvInit == RunInit => DeleteInv
  BY ClientRunAssumption DEF RunInit, DeleteInv, IsTree

\* The inductive step, and with it what the step removes.
LEMMA DeleteInvStep ==
  ASSUME DeleteInv, [RunNext]_rvars
  PROVE  DeleteInv' /\ RemovesOnlyExtras
<1> USE DEF DeleteInv, RemovesOnlyExtras, At, sessionVars, dirVars, boundVars
<1>1. CASE UNCHANGED rvars
  BY <1>1 DEF rvars
<1>2. ASSUME NEW fatal \in BOOLEAN, ConnectFails(fatal) PROVE DeleteInv' /\ RemovesOnlyExtras
  BY <1>2 DEF ConnectFails, ScheduleClientReconnectOrExit
<1>3. ASSUME NEW tree \in ServedTrees, Connect(tree) PROVE DeleteInv' /\ RemovesOnlyExtras
  BY <1>3 DEF Connect
<1>4. CASE RequestManifest
  BY <1>4 DEF RequestManifest, ScheduleClientReconnectOrExit
<1>5. ASSUME NEW p \in DOMAIN served.files, ListsFile(p) PROVE DeleteInv' /\ RemovesOnlyExtras
  BY <1>5 DEF ListsFile
<1>6. ASSUME NEW p \in DOMAIN served.files, Settle(p) PROVE DeleteInv' /\ RemovesOnlyExtras
  <2>1. local' = local \/ \E entries : local' = Write(entries)
    BY <1>6 DEF Settle, Transfers
  <2>2. /\ local' = [files |-> local'.files, dirs |-> local'.dirs]
        /\ DOMAIN local.files \subseteq DOMAIN local'.files
        /\ local.dirs \subseteq local'.dirs
    BY <2>1, WriteAdds
  <2> QED BY <1>6, <2>2 DEF Settle
<1>7. ASSUME NEW d \in served.dirs, ListsDir(d) PROVE DeleteInv' /\ RemovesOnlyExtras
  BY <1>7 DEF ListsDir
<1>8. CASE ManifestEnds
  BY <1>8 DEF ManifestEnds
<1>9. CASE Drops
  <2>1. PICK entries : local' = Write(entries)
    BY <1>9 DEF Drops
  <2> QED BY <1>9, <2>1, WriteAdds DEF Drops
<1>10. CASE SessionThrows
  BY <1>10 DEF SessionThrows
<1>11. CASE SessionEnds
  BY <1>11 DEF SessionEnds, ManifestComplete
<1>12. CASE Scan
  BY <1>12 DEF Scan, Visible
<1>13. ASSUME NEW p \in extras.files, DeleteFile(p) PROVE DeleteInv' /\ RemovesOnlyExtras
  <2>1. /\ local' = [files |-> local'.files, dirs |-> local'.dirs]
        /\ DOMAIN local.files \ DOMAIN local'.files \subseteq {p}
        /\ local'.dirs = local.dirs
    <3> DEFINE kept == DOMAIN local.files \ {p}
    <3>1. CASE local' = [local EXCEPT !.files = Restrict(@, DOMAIN @ \ {p})]
      <4>1. local'.files = [q \in kept |-> local.files[q]]
        BY <3>1 DEF Restrict
      <4>2. DOMAIN local'.files = kept
        BY <4>1
      <4>3. local'.dirs = local.dirs /\ local' = [files |-> local'.files, dirs |-> local'.dirs]
        BY <3>1
      <4> QED BY <4>2, <4>3
    <3>2. CASE local' = local
      BY <3>2
    <3> QED BY <1>13, <3>1, <3>2 DEF DeleteFile
  <2>2. extras'.files \subseteq extras.files /\ extras'.dirs = extras.dirs
    BY <1>13 DEF DeleteFile
  <2> QED BY <1>13, <2>1, <2>2 DEF DeleteFile
<1>14. ASSUME NEW d \in extras.dirs, RemoveDir(d) PROVE DeleteInv' /\ RemovesOnlyExtras
  <2>1. /\ local' = [files |-> local'.files, dirs |-> local'.dirs]
        /\ local'.files = local.files
        /\ local.dirs \ local'.dirs \subseteq {d}
    BY <1>14 DEF RemoveDir
  <2>2. extras'.dirs \subseteq extras.dirs /\ extras'.files = extras.files
    BY <1>14 DEF RemoveDir
  <2> QED BY <1>14, <2>1, <2>2 DEF RemoveDir
<1>15. CASE PlanDirs
  BY <1>15 DEF PlanDirs
<1>16. ASSUME NEW d \in dirTasks, DirWorkerPops(d) PROVE DeleteInv' /\ RemovesOnlyExtras
  BY <1>16 DEF DirWorkerPops
<1>17. ASSUME NEW d \in dirBusy, DirWorkerCreates(d) PROVE DeleteInv' /\ RemovesOnlyExtras
  <2>1. /\ local' = [files |-> local'.files, dirs |-> local'.dirs]
        /\ local'.files = local.files
        /\ local.dirs \subseteq local'.dirs
    BY <1>17 DEF DirWorkerCreates
  <2> QED BY <1>17, <2>1 DEF DirWorkerCreates
<1>18. CASE DirsDone
  BY <1>18 DEF DirsDone
<1>19. CASE Abort
  BY <1>19 DEF Abort, ScheduleClientReconnectOrExit
<1>20. CASE Finish
  BY <1>20 DEF Finish
<1> QED
  BY <1>1, <1>2, <1>3, <1>4, <1>5, <1>6, <1>7, <1>8, <1>9, <1>10, <1>11, <1>12, <1>13, <1>14,
     <1>15, <1>16, <1>17, <1>18, <1>19, <1>20 DEF RunNext

\* "SAFETY: only delete local extras if the manifest was received in full"
\* (sync_engine_client.cpp): for every tree on either side, every sequence of drops,
\* reconnects, changes on the server and failing disk operations, no step of a run removes
\* a file or directory that the server offers to the session, or the running executable.
THEOREM MirrorSafeHolds == RunSpec => MirrorSafe
<1>1. RunInit => DeleteInv
  BY DeleteInvInit
<1>2. DeleteInv /\ [RunNext]_rvars => DeleteInv'
  BY DeleteInvStep
<1>3. DeleteInv /\ [RunNext]_rvars => [RemovesOnlyExtras]_rvars
  BY DeleteInvStep
<1>4. RunSpec => []DeleteInv
  BY <1>1, <1>2, PTL DEF RunSpec
<1>5. RunSpec => [][RemovesOnlyExtras]_rvars
  BY <1>3, <1>4, PTL DEF RunSpec
<1> QED BY <1>5 DEF MirrorSafe, RemovesOnlyExtras

-----------------------------------------------------------------------------
(* The exit code.                                                          *)

\* The versions of p that exist somewhere before the run.
Known(p) ==
  {t.files[p] : t \in {u \in LocalTrees \cup ServedTrees : p \in DOMAIN u.files}}

Types ==
  /\ retries \in Nat /\ failed \in Nat /\ tries \in Nat /\ reconnectAttemptsUsed \in Nat
  /\ served \in ServedTrees
  /\ recvClosed \in BOOLEAN /\ manifestDone \in BOOLEAN

\* The target stays a tree; what is in it was there, was offered, or has the time of
\* this run.
TargetShape ==
  /\ local = [files |-> local.files, dirs |-> local.dirs]
  /\ DOMAIN local.files \subseteq Path
  /\ \A p \in DOMAIN local.files : Above(p) \subseteq local.dirs
  /\ \A p \in DOMAIN local.files : local.files[p] \in Known(p) \/ local.files[p].mtime = Now

\* A settled file is here, and is the one offered.
SettledHere ==
  /\ settled \subseteq remoteFiles /\ remoteFiles \subseteq DOMAIN served.files
  /\ remoteDirs \subseteq served.dirs
  /\ failed = 0 => \A p \in settled :
       /\ p \in DOMAIN local.files
       /\ Telling(p) => local.files[p].content = served.files[p].content

Mirroring == place \in {"delete", "dirs"} \/ (place = "stop" /\ ManifestComplete)

\* The whole listing and nothing left to settle, where the extras are dealt with.
WholeListing ==
  place \in {"scan", "delete", "dirs"} \/ (place = "stop" /\ ManifestComplete) =>
    /\ ManifestComplete /\ settled = remoteFiles
    /\ remoteFiles = DOMAIN served.files /\ remoteDirs = served.dirs

\* What the mirroring still has to do, provided that nothing has failed.
ExtrasLeft ==
  /\ Mirroring =>
       /\ extras.files \cap DOMAIN served.files = {}
       /\ extras.dirs \cap served.dirs = {}
       /\ extras.existing \cap remoteDirs \subseteq local.dirs
       /\ failed = 0 =>
            /\ \A p \in DOMAIN local.files : Visible(p) => p \in remoteFiles \cup extras.files
            /\ \A d \in local.dirs : Visible(d) => d \in remoteDirs \cup extras.dirs
  /\ Mirroring /\ place # "delete" => extras.files = {} /\ extras.dirs = {}

\* Every directory that is wanted is here, blocked, or above one a worker will create.
DirsLeft ==
  /\ place # "dirs" => dirTasks = {} /\ dirBusy = {}
  /\ dirTasks \cup dirBusy \subseteq remoteDirs
  /\ Mirroring /\ place # "delete" /\ failed = 0 =>
       \A d \in EmptyDirs :
         \/ d \in local.dirs \/ Blocked(d)
         \/ \E e \in dirTasks \cup dirBusy : d \in Above(e) \cup {e}

\* The attempts that are used up are failed connects, one request apart.
RetryBudget ==
  /\ place = "connect" => reconnectAttemptsUsed <= tries + 1
  /\ place # "connect" => reconnectAttemptsUsed = 0
  /\ exitCode # Running => place # "dirs"

RunInv ==
  /\ Types /\ TargetShape /\ SettledHere /\ WholeListing /\ ExtrasLeft /\ DirsLeft
  /\ RetryBudget /\ ExitTellsTruth

\* Every step is one of these; the first group leaves the target alone.
LEMMA RunSteps ==
  ASSUME [RunNext]_rvars
  PROVE  \/ UNCHANGED rvars
         \/ \E fatal \in BOOLEAN : ConnectFails(fatal)
         \/ \E tree \in ServedTrees : Connect(tree)
         \/ RequestManifest \/ ManifestEnds \/ SessionThrows \/ SessionEnds \/ Scan
         \/ PlanDirs \/ DirsDone \/ Abort \/ Finish
         \/ \E p \in DOMAIN served.files : ListsFile(p)
         \/ \E d \in served.dirs : ListsDir(d)
         \/ \E d \in dirTasks : DirWorkerPops(d)
         \/ \E p \in DOMAIN served.files : Settle(p)
         \/ Drops
         \/ \E p \in extras.files : DeleteFile(p)
         \/ \E d \in extras.dirs : RemoveDir(d)
         \/ \E d \in dirBusy : DirWorkerCreates(d)
  BY DEF RunNext

LEMMA TargetMoves ==
  ASSUME [RunNext]_rvars
  PROVE  \/ local' = local
         \/ \E p \in DOMAIN served.files : Settle(p)
         \/ Drops
         \/ \E p \in extras.files : DeleteFile(p)
         \/ \E d \in extras.dirs : RemoveDir(d)
         \/ \E d \in dirBusy : DirWorkerCreates(d)
  BY RunSteps DEF rvars, ConnectFails, Connect, RequestManifest, ManifestEnds, SessionThrows,
     SessionEnds, Scan, PlanDirs, DirsDone, Abort, Finish, ListsFile, ListsDir, DirWorkerPops

LEMMA TypesStep ==
  ASSUME Types, [RunNext]_rvars
  PROVE  Types'
<1> USE DEF Types, sessionVars, dirVars, boundVars
<1>1. CASE UNCHANGED rvars
  BY <1>1 DEF rvars
<1>2. ASSUME NEW fatal \in BOOLEAN, ConnectFails(fatal) PROVE Types'
  BY <1>2 DEF ConnectFails, ScheduleClientReconnectOrExit
<1>3. ASSUME NEW tree \in ServedTrees, Connect(tree) PROVE Types'
  BY <1>3 DEF Connect
<1>4. CASE RequestManifest
  BY <1>4 DEF RequestManifest, ScheduleClientReconnectOrExit
<1>5. CASE ManifestEnds \/ SessionThrows \/ SessionEnds \/ Scan \/ PlanDirs \/ DirsDone \/ Finish
  BY <1>5 DEF ManifestEnds, SessionThrows, SessionEnds, Scan, PlanDirs, DirsDone, Finish
<1>6. CASE Abort
  BY <1>6 DEF Abort, ScheduleClientReconnectOrExit
<1>7. ASSUME NEW p, ListsFile(p) PROVE Types'
  BY <1>7 DEF ListsFile
<1>8. ASSUME NEW d, ListsDir(d) \/ DirWorkerPops(d) \/ DirWorkerCreates(d) PROVE Types'
  BY <1>8 DEF ListsDir, DirWorkerPops, DirWorkerCreates
<1>9. ASSUME NEW p, Settle(p) PROVE Types'
  <2>1. failed' = failed \/ failed' = failed + 1
    BY <1>9 DEF Settle, Transfers
  <2>2. UNCHANGED <<retries, tries, reconnectAttemptsUsed, served, recvClosed, manifestDone>>
    BY <1>9 DEF Settle
  <2> QED BY <2>1, <2>2
<1>10. CASE Drops
  BY <1>10 DEF Drops
<1>11. ASSUME NEW p, DeleteFile(p) PROVE Types'
  <2>1. failed' = failed \/ failed' = failed + 1
    BY <1>11 DEF DeleteFile
  <2>2. UNCHANGED <<retries, tries, reconnectAttemptsUsed, served, recvClosed, manifestDone>>
    BY <1>11 DEF DeleteFile
  <2> QED BY <2>1, <2>2
<1>12. ASSUME NEW d, RemoveDir(d) PROVE Types'
  <2>1. failed' = failed \/ failed' = failed + 1
    BY <1>12 DEF RemoveDir
  <2>2. UNCHANGED <<retries, tries, reconnectAttemptsUsed, served, recvClosed, manifestDone>>
    BY <1>12 DEF RemoveDir
  <2> QED BY <2>1, <2>2
<1> QED
  BY <1>1, <1>2, <1>3, <1>4, <1>5, <1>6, <1>7, <1>8, <1>9, <1>10, <1>11, <1>12, RunSteps

-----------------------------------------------------------------------------
(* The target.                                                             *)

\* What Write does to the target.
LEMMA Written ==
  ASSUME NEW entries
  PROVE  /\ DOMAIN Write(entries).files = DOMAIN entries \cup DOMAIN local.files
         /\ \A p \in DOMAIN entries : Write(entries).files[p] = entries[p]
         /\ \A p \in DOMAIN local.files \ DOMAIN entries :
              Write(entries).files[p] = local.files[p]
         /\ Write(entries).dirs = local.dirs \cup UNION {Above(p) : p \in DOMAIN entries}
         /\ Write(entries) = [files |-> Write(entries).files, dirs |-> Write(entries).dirs]
BY DEF Write

LEMMA WriteKeepsTarget ==
  ASSUME TargetShape, NEW entries, DOMAIN entries \subseteq Path,
         \A p \in DOMAIN entries : entries[p] \in Known(p) \/ entries[p].mtime = Now,
         local' = Write(entries)
  PROVE  TargetShape'
<1>1. /\ DOMAIN local'.files = DOMAIN entries \cup DOMAIN local.files
      /\ local'.dirs = local.dirs \cup UNION {Above(p) : p \in DOMAIN entries}
      /\ local' = [files |-> local'.files, dirs |-> local'.dirs]
  BY Written
<1>2. ASSUME NEW p \in DOMAIN local'.files
      PROVE  Above(p) \subseteq local'.dirs
  BY <1>1 DEF TargetShape
<1>3. ASSUME NEW p \in DOMAIN local'.files
      PROVE  local'.files[p] \in Known(p) \/ local'.files[p].mtime = Now
  <2>1. CASE p \in DOMAIN entries
    BY <2>1, Written
  <2>2. CASE p \notin DOMAIN entries
    BY <2>2, <1>1, <1>3, Written DEF TargetShape
  <2> QED BY <2>1, <2>2
<1> QED BY <1>1, <1>2, <1>3 DEF TargetShape, Known

\* The entries a transfer or a drop writes.
LEMMA OfferedIsKnown ==
  ASSUME served \in ServedTrees, NEW p \in DOMAIN served.files
  PROVE  p \in Path /\ served.files[p] \in Known(p) /\ Torn(served.files[p]).mtime = Now
BY ClientRunAssumption DEF IsTree, Known, Torn

LEMMA TargetStep ==
  ASSUME Types, TargetShape, SettledHere, [RunNext]_rvars
  PROVE  TargetShape'
<1>1. CASE local' = local
  BY <1>1 DEF TargetShape, Known
<1>2. ASSUME NEW p \in DOMAIN served.files, Settle(p) PROVE TargetShape'
  <2>1. CASE local' = Write([q \in {p} |-> served.files[q]])
    <3> DEFINE entries == [q \in {p} |-> served.files[q]]
    <3>1. DOMAIN entries = {p} /\ entries[p] = served.files[p]
      OBVIOUS
    <3>2. DOMAIN entries \subseteq Path
          /\ \A q \in DOMAIN entries : entries[q] \in Known(q) \/ entries[q].mtime = Now
      BY <3>1, OfferedIsKnown DEF Types
    <3> QED BY <2>1, <3>2, WriteKeepsTarget
  <2>2. CASE local' = Write([q \in {p} |-> Torn(served.files[q])])
    <3> DEFINE entries == [q \in {p} |-> Torn(served.files[q])]
    <3>1. DOMAIN entries = {p} /\ entries[p] = Torn(served.files[p])
      OBVIOUS
    <3>2. DOMAIN entries \subseteq Path
          /\ \A q \in DOMAIN entries : entries[q] \in Known(q) \/ entries[q].mtime = Now
      BY <3>1, OfferedIsKnown DEF Types
    <3> QED BY <2>2, <3>2, WriteKeepsTarget
  <2> QED BY <1>2, <2>1, <2>2, <1>1 DEF Settle, Transfers
<1>3. CASE Drops
  <2>1. PICK open \in SUBSET remoteFiles : local' = Write([p \in open |-> Torn(served.files[p])])
    BY <1>3 DEF Drops
  <2> DEFINE entries == [p \in open |-> Torn(served.files[p])]
  <2>2. DOMAIN entries = open /\ \A p \in open : entries[p] = Torn(served.files[p])
    OBVIOUS
  <2>3. \A p \in open : p \in DOMAIN served.files
    BY DEF SettledHere
  <2>4. DOMAIN entries \subseteq Path
        /\ \A q \in DOMAIN entries : entries[q] \in Known(q) \/ entries[q].mtime = Now
    BY <2>2, <2>3, OfferedIsKnown DEF Types
  <2> QED BY <2>1, <2>4, WriteKeepsTarget
<1>4. ASSUME NEW p \in extras.files, DeleteFile(p) PROVE TargetShape'
  <2> DEFINE kept == DOMAIN local.files \ {p}
  <2>1. CASE local' = [local EXCEPT !.files = Restrict(@, DOMAIN @ \ {p})]
    <3>1. local'.files = [q \in kept |-> local.files[q]]
      BY <2>1 DEF Restrict, TargetShape
    <3>2. local'.dirs = local.dirs /\ local' = [files |-> local'.files, dirs |-> local'.dirs]
      BY <2>1 DEF TargetShape
    <3>3. DOMAIN local'.files = kept /\ \A q \in kept : local'.files[q] = local.files[q]
      BY <3>1
    <3> QED BY <3>2, <3>3 DEF TargetShape, Known
  <2> QED BY <1>4, <2>1, <1>1 DEF DeleteFile
<1>5. ASSUME NEW d \in extras.dirs, RemoveDir(d) PROVE TargetShape'
  <2>1. CASE local' = [local EXCEPT !.dirs = @ \ {d}] /\ Below(d) = {}
    <3>1. /\ local'.dirs = local.dirs \ {d} /\ local'.files = local.files
          /\ local' = [files |-> local'.files, dirs |-> local'.dirs]
      BY <2>1 DEF TargetShape
    <3>2. \A p \in DOMAIN local.files : d \notin Above(p)
      BY <2>1 DEF Below
    <3> QED BY <3>1, <3>2 DEF TargetShape, Known
  <2> QED BY <1>5, <2>1, <1>1 DEF RemoveDir
<1>6. ASSUME NEW d \in dirBusy, DirWorkerCreates(d) PROVE TargetShape'
  <2>1. /\ local'.files = local.files /\ local.dirs \subseteq local'.dirs
        /\ local' = [files |-> local'.files, dirs |-> local'.dirs]
    BY <1>6 DEF DirWorkerCreates, TargetShape
  <2> QED BY <2>1 DEF TargetShape, Known
<1> QED BY <1>1, <1>2, <1>3, <1>4, <1>5, <1>6, TargetMoves

-----------------------------------------------------------------------------
(* The settled files.                                                      *)

\* A file the comparison leaves alone is the one offered, if its time can tell.
LEMMA UnchangedTells ==
  ASSUME Types, TargetShape, NEW p \in DOMAIN served.files, Unchanged(p)
  PROVE  /\ p \in DOMAIN local.files
         /\ Telling(p) => local.files[p].content = served.files[p].content
<1> DEFINE here == local.files[p]
           there == served.files[p]
<1>1. p \in DOMAIN local.files
  BY DEF Unchanged, DecideCompare
<1>2. (CHOOSE e \in {here} : TRUE) = here
  OBVIOUS
<1>3. DecideCompare("Fast", {here}, there) =
        IF here.size # there.size THEN [category |-> "Diff", needHash |-> FALSE]
        ELSE [category |-> "Same",
              needHash |-> ~MtimeWithinTolerance(here.mtime, there.mtime)]
  <2>1. {here} # {}
    OBVIOUS
  <2> HIDE DEF here, there
  <2> QED BY <1>2, <2>1 DEF DecideCompare
<1>4. \/ here.content = there.content
      \/ here.size = there.size /\ MtimeWithinTolerance(here.mtime, there.mtime)
  <2> DEFINE verdict == DecideCompare("Fast", {here}, there)
  <2>1. IF verdict.needHash THEN ClassifyByHash(TRUE, here.content, there.content) = "Same"
        ELSE verdict.category = "Same"
    BY <1>1 DEF Unchanged
  <2>2. CASE here.size # there.size
    <3>1. verdict = [category |-> "Diff", needHash |-> FALSE]
      BY <2>2, <1>3
    <3>2. verdict.needHash = FALSE /\ verdict.category = "Diff"
      BY <3>1
    <3> HIDE DEF verdict
    <3> QED BY <3>2, <2>1
  <2>3. CASE here.size = there.size /\ ~MtimeWithinTolerance(here.mtime, there.mtime)
    <3>1. verdict.needHash = ~MtimeWithinTolerance(here.mtime, there.mtime)
      BY <2>3, <1>3
    <3>2. ClassifyByHash(TRUE, here.content, there.content) = "Same"
      BY <3>1, <2>3, <2>1
    <3> QED BY <3>2 DEF ClassifyByHash
  <2> QED BY <2>2, <2>3
<1>5. ASSUME Telling(p), here.size = there.size, MtimeWithinTolerance(here.mtime, there.mtime)
      PROVE  here.content = there.content
  <2>1. here \in Known(p)
    BY <1>1, <1>5 DEF TargetShape, Telling
  <2>2. PICK t \in LocalTrees \cup ServedTrees : p \in DOMAIN t.files /\ t.files[p] = here
    BY <2>1 DEF Known
  <2> QED BY <1>5, <2>2, ClientRunAssumption DEF TimesTell, Types
<1> QED BY <1>1, <1>4, <1>5

LEMMA SettledStep ==
  ASSUME Types, TargetShape, SettledHere, ExtrasLeft, [RunNext]_rvars
  PROVE  SettledHere'
<1> USE DEF sessionVars, dirVars, boundVars
<1> DEFINE Same(p) ==
      /\ p \in DOMAIN local'.files
      /\ Telling(p) => local'.files[p].content = served.files[p].content
<1>1. ASSUME UNCHANGED <<settled, remoteFiles, remoteDirs, served, failed, local>>
      PROVE  SettledHere'
  BY <1>1 DEF SettledHere, Telling
<1>2. ASSUME NEW tree \in ServedTrees, Connect(tree) PROVE SettledHere'
  BY <1>2 DEF Connect, SettledHere
<1>3. ASSUME NEW p \in DOMAIN served.files, ListsFile(p) PROVE SettledHere'
  BY <1>3 DEF ListsFile, SettledHere, Telling
<1>4. ASSUME NEW d \in served.dirs, ListsDir(d) PROVE SettledHere'
  BY <1>4 DEF ListsDir, SettledHere, Telling
<1>5. ASSUME UNCHANGED <<served, remoteFiles, remoteDirs>>, settled' \subseteq remoteFiles,
             failed' = 0 => \A p \in settled' : Same(p)
      PROVE  SettledHere'
  BY <1>5 DEF SettledHere, Telling
<1>6. ASSUME NEW p \in DOMAIN served.files, Settle(p) PROVE SettledHere'
  <2>1. /\ UNCHANGED <<served, remoteFiles, remoteDirs>> /\ settled' = settled \cup {p}
        /\ settled' \subseteq remoteFiles
    BY <1>6 DEF Settle, SettledHere
  <2>2. failed' = failed \/ failed' = failed + 1
    BY <1>6 DEF Settle, Transfers
  <2>3. ASSUME failed' = 0 PROVE \A q \in settled' : Same(q)
    <3>1. failed = 0 /\ failed' = failed
      BY <2>2, <2>3 DEF Types
    <3>2. CASE Unchanged(p)
      <4>1. local' = local
        BY <1>6, <3>2 DEF Settle
      <4>2. Same(p)
        BY <3>2, <4>1, UnchangedTells
      <4> QED BY <2>1, <3>1, <4>1, <4>2 DEF SettledHere
    <3>3. CASE ~Unchanged(p)
      <4> DEFINE entries == [q \in {p} |-> served.files[q]]
      <4>1. local' = Write(entries)
        BY <1>6, <3>3, <3>1 DEF Settle, Transfers, Types
      <4>2. DOMAIN entries = {p} /\ entries[p] = served.files[p]
        OBVIOUS
      <4>3. /\ DOMAIN local'.files = {p} \cup DOMAIN local.files
            /\ local'.files[p] = served.files[p]
            /\ \A q \in DOMAIN local.files \ {p} : local'.files[q] = local.files[q]
        BY <4>1, <4>2, Written
      <4> QED BY <2>1, <3>1, <4>3 DEF SettledHere
    <3> QED BY <3>2, <3>3
  <2> QED BY <2>1, <2>3, <1>5
<1>7. CASE Drops
  <2>1. PICK open \in SUBSET (remoteFiles \ settled) :
          local' = Write([p \in open |-> Torn(served.files[p])])
    BY <1>7 DEF Drops
  <2> DEFINE entries == [p \in open |-> Torn(served.files[p])]
  <2>2. DOMAIN entries = open
    OBVIOUS
  <2>3. /\ DOMAIN local'.files = open \cup DOMAIN local.files
        /\ \A q \in DOMAIN local.files \ open : local'.files[q] = local.files[q]
    BY <2>1, <2>2, Written
  <2>4. UNCHANGED <<served, remoteFiles, remoteDirs, settled, failed>>
    BY <1>7 DEF Drops
  <2>5. failed' = 0 => \A q \in settled' : Same(q)
    BY <2>1, <2>3, <2>4 DEF SettledHere
  <2> QED BY <2>4, <2>5, <1>5 DEF SettledHere
<1>8. ASSUME NEW p \in extras.files, DeleteFile(p) PROVE SettledHere'
  <2>1. p \notin DOMAIN served.files
    BY <1>8 DEF DeleteFile, At, ExtrasLeft, Mirroring
  <2>2. \A q \in DOMAIN local.files \ {p} :
          q \in DOMAIN local'.files /\ local'.files[q] = local.files[q]
    <3> DEFINE kept == DOMAIN local.files \ {p}
    <3>1. CASE local' = [local EXCEPT !.files = Restrict(@, DOMAIN @ \ {p})]
      <4>1. local'.files = [q \in kept |-> local.files[q]]
        BY <3>1 DEF Restrict, TargetShape
      <4> QED BY <4>1
    <3> QED BY <1>8, <3>1 DEF DeleteFile
  <2>3. failed' = failed \/ failed' = failed + 1
    BY <1>8 DEF DeleteFile
  <2>4. UNCHANGED <<served, remoteFiles, remoteDirs, settled>>
    BY <1>8 DEF DeleteFile
  <2>5. failed' = 0 => failed = 0
    BY <2>3 DEF Types
  <2>6. failed' = 0 => \A q \in settled' : Same(q)
    BY <2>1, <2>2, <2>4, <2>5 DEF SettledHere
  <2> QED BY <2>4, <2>6, <1>5 DEF SettledHere
<1>9. ASSUME NEW d \in extras.dirs, RemoveDir(d) PROVE SettledHere'
  <2>1. local'.files = local.files
    BY <1>9 DEF RemoveDir, TargetShape
  <2>2. failed' = failed \/ failed' = failed + 1
    BY <1>9 DEF RemoveDir
  <2>3. UNCHANGED <<served, remoteFiles, remoteDirs, settled>>
    BY <1>9 DEF RemoveDir
  <2>4. failed' = 0 => failed = 0
    BY <2>2 DEF Types
  <2>5. failed' = 0 => \A q \in settled' : Same(q)
    BY <2>1, <2>3, <2>4 DEF SettledHere
  <2> QED BY <2>3, <2>5, <1>5 DEF SettledHere
<1>10. ASSUME NEW d \in dirBusy, DirWorkerCreates(d) PROVE SettledHere'
  <2>1. local'.files = local.files
    BY <1>10 DEF DirWorkerCreates, TargetShape
  <2>2. UNCHANGED <<served, remoteFiles, remoteDirs, settled, failed>>
    BY <1>10 DEF DirWorkerCreates
  <2> QED BY <2>1, <2>2 DEF SettledHere, Telling
<1>11. \/ UNCHANGED <<settled, remoteFiles, remoteDirs, served, failed, local>>
       \/ \E tree \in ServedTrees : Connect(tree)
       \/ \E p \in DOMAIN served.files : ListsFile(p) \/ Settle(p)
       \/ \E d \in served.dirs : ListsDir(d)
       \/ Drops
       \/ \E p \in extras.files : DeleteFile(p)
       \/ \E d \in extras.dirs : RemoveDir(d)
       \/ \E d \in dirBusy : DirWorkerCreates(d)
  BY RunSteps DEF rvars, ConnectFails, RequestManifest, ManifestEnds, SessionThrows,
     SessionEnds, Scan, PlanDirs, DirsDone, Abort, Finish, DirWorkerPops
<1> QED BY <1>1, <1>2, <1>3, <1>4, <1>6, <1>7, <1>8, <1>9, <1>10, <1>11

-----------------------------------------------------------------------------
(* Mirroring.                                                              *)

LEMMA ListingStep ==
  ASSUME DeleteInv, WholeListing, [RunNext]_rvars
  PROVE  WholeListing'
<1> USE DEF sessionVars, dirVars, boundVars, WholeListing, ManifestComplete, At
<1>1. ASSUME UNCHANGED <<manifestDone, recvClosed, settled, remoteFiles, remoteDirs, served>>,
             \/ place' = place \/ place' \in {"connect", "session"}
             \/ place' = "delete" /\ place = "scan"
             \/ place' = "dirs" /\ place = "delete"
             \/ place' = "stop" /\ place = "dirs"
      PROVE  WholeListing'
  BY <1>1
<1>2. CASE place' \in {"session", "request"}
  BY <1>2
<1>3. CASE SessionEnds
  BY <1>3 DEF SessionEnds, DeleteInv
<1>4. CASE UNCHANGED rvars
  BY <1>4, <1>1 DEF rvars
<1>5. ASSUME NEW fatal \in BOOLEAN, ConnectFails(fatal) PROVE WholeListing'
  BY <1>5, <1>1 DEF ConnectFails, ScheduleClientReconnectOrExit
<1>6. CASE RequestManifest \/ Abort
  BY <1>6, <1>1 DEF RequestManifest, Abort, ScheduleClientReconnectOrExit
<1>7. CASE SessionThrows \/ Scan \/ PlanDirs \/ DirsDone \/ Finish
  BY <1>7, <1>1 DEF SessionThrows, Scan, PlanDirs, DirsDone, Finish
<1>8. ASSUME NEW p, DeleteFile(p) \/ RemoveDir(p) \/ DirWorkerPops(p) \/ DirWorkerCreates(p)
      PROVE  WholeListing'
  BY <1>8, <1>1 DEF DeleteFile, RemoveDir, DirWorkerPops, DirWorkerCreates
<1>9. ASSUME NEW p, \/ ManifestEnds \/ Drops \/ ListsFile(p) \/ ListsDir(p) \/ Settle(p)
                    \/ Connect(p)
      PROVE  WholeListing'
  BY <1>9, <1>2 DEF ManifestEnds, Drops, ListsFile, ListsDir, Settle, Connect
<1> QED BY <1>3, <1>4, <1>5, <1>6, <1>7, <1>8, <1>9, RunSteps

\* What can happen while the extras are dealt with.
LEMMA MirrorMoves ==
  ASSUME WholeListing, [RunNext]_rvars
  PROVE  \/ ~Mirroring'
         \/ Scan
         \/ \E p \in extras.files : DeleteFile(p)
         \/ \E d \in extras.dirs : RemoveDir(d)
         \/ PlanDirs
         \/ \E d \in dirTasks : DirWorkerPops(d)
         \/ \E d \in dirBusy : DirWorkerCreates(d)
         \/ DirsDone
         \/ UNCHANGED <<sessionVars, recvClosed, local, extras, dirVars, failed, place>>
<1> USE DEF sessionVars, dirVars, boundVars, Mirroring, ManifestComplete, At
<1>1. CASE place' \in {"session", "request", "connect", "scan"}
  BY <1>1
<1>2. CASE SessionEnds
  BY <1>2 DEF SessionEnds
<1>3. ASSUME NEW fatal \in BOOLEAN, ConnectFails(fatal) PROVE place' \in {"connect"}
  BY <1>3 DEF ConnectFails, ScheduleClientReconnectOrExit
<1>4. CASE RequestManifest
  BY <1>4 DEF RequestManifest, ScheduleClientReconnectOrExit
<1>5. CASE Abort
  BY <1>5 DEF Abort, ScheduleClientReconnectOrExit
<1>6. CASE UNCHANGED rvars \/ Finish
  BY <1>6 DEF rvars, Finish
<1>7. ASSUME NEW p, \/ ManifestEnds \/ Drops \/ ListsFile(p) \/ ListsDir(p) \/ Settle(p)
                    \/ Connect(p) \/ SessionThrows
      PROVE  place' \in {"session", "request"}
  BY <1>7 DEF ManifestEnds, Drops, ListsFile, ListsDir, Settle, Connect, SessionThrows
<1> QED BY <1>1, <1>2, <1>3, <1>4, <1>5, <1>6, <1>7, RunSteps

\* What a worker creates belongs to the served tree, and only visible files stand
\* between it and its place.
LEMMA CreatesOffered ==
  ASSUME Types, TargetShape, WholeListing, DirsLeft, NEW e \in dirBusy, DirWorkerCreates(e)
  PROVE  /\ place = "dirs" /\ e \in served.dirs /\ e \in Path /\ Above(e) \subseteq served.dirs
         /\ local'.files = local.files
         /\ local.dirs \subseteq local'.dirs
         /\ local'.dirs \subseteq local.dirs \cup Above(e) \cup {e}
         /\ (Above(e) \cup {e}) \cap DOMAIN local.files = {}
              => Above(e) \cup {e} \subseteq local'.dirs
<1>1. place = "dirs" /\ e \in served.dirs
  BY DEF DirsLeft, WholeListing
<1>2. IsTree(served)
  BY ClientRunAssumption DEF Types
<1>3. e \in Path /\ Above(e) \subseteq served.dirs
  BY <1>1, <1>2 DEF IsTree
<1> DEFINE chain == Above(e) \cup {e}
<1>4. local' = IF chain \cap DOMAIN local.files = {}
               THEN [local EXCEPT !.dirs = @ \cup chain] ELSE local
  BY DEF DirWorkerCreates
<1>5. /\ local'.files = local.files
      /\ IF chain \cap DOMAIN local.files = {} THEN local'.dirs = local.dirs \cup chain
         ELSE local'.dirs = local.dirs
  <2> HIDE DEF chain
  <2> QED BY <1>4 DEF TargetShape
<1> QED BY <1>1, <1>3, <1>5

LEMMA ExtrasStep ==
  ASSUME Types, TargetShape, WholeListing, ExtrasLeft, DirsLeft, [RunNext]_rvars
  PROVE  ExtrasLeft'
<1> USE DEF sessionVars, dirVars, boundVars
<1>1. CASE ~Mirroring'
  BY <1>1 DEF ExtrasLeft
<1>2. CASE Scan
  <2>1. /\ remoteFiles = DOMAIN served.files /\ remoteDirs = served.dirs
        /\ UNCHANGED <<remoteFiles, remoteDirs, served, local>> /\ place' = "delete"
    BY <1>2 DEF Scan, WholeListing, At
  <2>2. /\ extras'.files = {p \in DOMAIN local.files : Visible(p)} \ remoteFiles
        /\ extras'.dirs = {d \in local.dirs : Visible(d)} \ remoteDirs
        /\ extras'.existing = {d \in local.dirs : Visible(d)}
    BY <1>2 DEF Scan
  <2> QED BY <2>1, <2>2 DEF ExtrasLeft, Mirroring
<1>3. ASSUME NEW p \in extras.files, DeleteFile(p) PROVE ExtrasLeft'
  <2>1. /\ place = "delete" /\ place' = "delete" /\ UNCHANGED <<remoteFiles, remoteDirs, served>>
    BY <1>3 DEF DeleteFile, At
  <2>2. /\ extras'.files = extras.files \ {p} /\ extras'.dirs = extras.dirs
        /\ extras'.existing = extras.existing
    <3>1. Mirroring
      BY <2>1 DEF Mirroring
    <3> QED BY <1>3 DEF DeleteFile
  <2>3. failed' = failed \/ failed' = failed + 1
    BY <1>3 DEF DeleteFile
  <2>4. local'.dirs = local.dirs /\ DOMAIN local'.files \subseteq DOMAIN local.files
    <3> DEFINE kept == DOMAIN local.files \ {p}
    <3>1. CASE local' = [local EXCEPT !.files = Restrict(@, DOMAIN @ \ {p})]
      <4>1. local'.files = [q \in kept |-> local.files[q]] /\ local'.dirs = local.dirs
        BY <3>1 DEF Restrict, TargetShape
      <4> QED BY <4>1
    <3> QED BY <1>3, <3>1 DEF DeleteFile
  <2>5. failed' = 0 => failed = 0 /\ p \notin DOMAIN local'.files
    <3>1. failed' = 0 => failed = 0 /\ failed' = failed
      BY <2>3 DEF Types
    <3>2. failed' = failed => local' = [local EXCEPT !.files = Restrict(@, DOMAIN @ \ {p})]
      <4>1. failed' = failed + 1 \/ local' = [local EXCEPT !.files = Restrict(@, DOMAIN @ \ {p})]
        BY <1>3 DEF DeleteFile
      <4>2. failed' = failed + 1 => failed' # failed
        BY DEF Types
      <4> QED BY <4>1, <4>2
    <3> DEFINE kept == DOMAIN local.files \ {p}
    <3>3. local' = [local EXCEPT !.files = Restrict(@, DOMAIN @ \ {p})]
            => local'.files = [q \in kept |-> local.files[q]]
      BY DEF Restrict, TargetShape
    <3> QED BY <3>1, <3>2, <3>3
  <2> QED BY <2>1, <2>2, <2>4, <2>5 DEF ExtrasLeft, Mirroring
<1>4. ASSUME NEW d \in extras.dirs, RemoveDir(d) PROVE ExtrasLeft'
  <2>1. /\ place = "delete" /\ place' = "delete" /\ UNCHANGED <<remoteFiles, remoteDirs, served>>
    BY <1>4 DEF RemoveDir, At
  <2>2. /\ extras'.files = extras.files /\ extras'.dirs = extras.dirs \ {d}
        /\ extras'.existing = extras.existing
    BY <1>4 DEF RemoveDir
  <2>3. failed' = failed \/ failed' = failed + 1
    BY <1>4 DEF RemoveDir
  <2>4. local'.files = local.files /\ local.dirs \ {d} \subseteq local'.dirs
        /\ local'.dirs \subseteq local.dirs
    BY <1>4 DEF RemoveDir, TargetShape
  <2>5. failed' = 0 => failed = 0 /\ d \notin local'.dirs
    <3>1. failed' = 0 => failed = 0 /\ failed' = failed
      BY <2>3 DEF Types
    <3>2. failed' = failed => local' = [local EXCEPT !.dirs = @ \ {d}]
      <4>1. failed' = failed + 1 \/ local' = [local EXCEPT !.dirs = @ \ {d}]
        BY <1>4 DEF RemoveDir
      <4>2. failed' = failed + 1 => failed' # failed
        BY DEF Types
      <4> QED BY <4>1, <4>2
    <3> QED BY <3>1, <3>2 DEF TargetShape
  <2>6. d \notin remoteDirs
    BY <2>1 DEF ExtrasLeft, Mirroring, WholeListing
  <2> QED BY <2>1, <2>2, <2>4, <2>5, <2>6 DEF ExtrasLeft, Mirroring
<1>5. CASE PlanDirs
  BY <1>5 DEF PlanDirs, At, ExtrasLeft, Mirroring
<1>6. ASSUME NEW d \in dirTasks, DirWorkerPops(d) PROVE ExtrasLeft'
  BY <1>6 DEF DirWorkerPops, ExtrasLeft, Mirroring, ManifestComplete
<1>7. ASSUME NEW d \in dirBusy, DirWorkerCreates(d) PROVE ExtrasLeft'
  <2>1. UNCHANGED <<sessionVars, recvClosed, extras, failed, place>>
    BY <1>7 DEF DirWorkerCreates
  <2>2. /\ place = "dirs" /\ local'.files = local.files /\ local.dirs \subseteq local'.dirs
        /\ local'.dirs \subseteq local.dirs \cup served.dirs
    BY <1>7, CreatesOffered
  <2>3. Mirroring /\ remoteDirs = served.dirs
    BY <2>2 DEF Mirroring, WholeListing
  <2> QED BY <2>1, <2>2, <2>3 DEF ExtrasLeft, Mirroring
<1>8. CASE DirsDone
  BY <1>8 DEF DirsDone, At, ExtrasLeft, Mirroring
<1>9. CASE UNCHANGED <<sessionVars, recvClosed, local, extras, dirVars, failed, place>>
  BY <1>9 DEF ExtrasLeft, Mirroring, ManifestComplete
<1> QED BY <1>1, <1>2, <1>3, <1>4, <1>5, <1>6, <1>7, <1>8, <1>9, MirrorMoves

\* Of two ancestors of a path one is an ancestor of the other.
LEMMA Ancestors ==
  ASSUME NEW e \in Path, NEW d \in Above(e) \cup {e}, NEW q \in Above(e) \cup {e}
  PROVE  d = q \/ d \in Above(q) \/ q \in Above(d)
<1>1. ASSUME NEW m \in 1..Len(e), NEW n \in 1..Len(e), m < n
      PROVE  SubSeq(e, 1, m) \in Above(SubSeq(e, 1, n))
  <2>1. SubSeq(e, 1, n) \in Path /\ Len(SubSeq(e, 1, n)) = n
    BY DEF Path
  <2>2. SubSeq(SubSeq(e, 1, n), 1, m) = SubSeq(e, 1, m)
    BY <1>1 DEF Path
  <2>3. m \in 1 .. Len(SubSeq(e, 1, n)) - 1
    BY <1>1, <2>1 DEF Path
  <2> QED BY <2>2, <2>3 DEF Above
<1>2. SubSeq(e, 1, Len(e)) = e /\ Len(e) \in Nat
  BY DEF Path
<1>3. CASE Len(e) = 0
  BY <1>3 DEF Above
<1>4. CASE Len(e) # 0
  <2>1. PICK m \in 1..Len(e) : d = SubSeq(e, 1, m)
    BY <1>2, <1>4 DEF Above
  <2>2. PICK n \in 1..Len(e) : q = SubSeq(e, 1, n)
    BY <1>2, <1>4 DEF Above
  <2>3. m < n \/ n < m \/ m = n
    BY <1>2
  <2> QED BY <1>1, <2>1, <2>2, <2>3
<1> QED BY <1>3, <1>4

LEMMA DirsStep ==
  ASSUME Types, TargetShape, SettledHere, WholeListing, ExtrasLeft, DirsLeft, [RunNext]_rvars
  PROVE  DirsLeft'
<1> USE DEF sessionVars, dirVars, boundVars
<1> DEFINE Left(d) == \/ d \in local.dirs \/ Blocked(d)
                      \/ \E e \in dirTasks \cup dirBusy : d \in Above(e) \cup {e}
<1>1. CASE UNCHANGED <<sessionVars, recvClosed, local, extras, dirVars, failed, place>>
  BY <1>1 DEF DirsLeft, Mirroring, ManifestComplete, EmptyDirs, Blocked
<1>2. ASSUME UNCHANGED dirVars, place # "dirs", place' # "dirs",
             place' = "stop" => ~ManifestComplete'
      PROVE  DirsLeft'
  <2>1. dirTasks' = {} /\ dirBusy' = {}
    BY <1>2 DEF DirsLeft
  <2> QED BY <1>2, <2>1 DEF DirsLeft, Mirroring
<1>3. CASE PlanDirs
  <2>1. /\ place' = "dirs" /\ dirBusy = {} /\ dirBusy' = {} /\ place = "delete"
        /\ UNCHANGED <<sessionVars, recvClosed, local, extras, failed>>
    BY <1>3 DEF PlanDirs, At, DirsLeft
  <2>2. /\ dirTasks' \subseteq EmptyDirs
        /\ \A d \in EmptyDirs \ dirTasks' : \E e \in dirTasks' : d \in Above(e)
    BY <1>3 DEF PlanDirs
  <2>3. EmptyDirs' = EmptyDirs /\ EmptyDirs \subseteq remoteDirs
    BY <2>1 DEF EmptyDirs
  <2> QED BY <2>1, <2>2, <2>3 DEF DirsLeft
<1>4. ASSUME NEW e \in dirTasks, DirWorkerPops(e) PROVE DirsLeft'
  <2>1. /\ dirTasks' \cup dirBusy' = dirTasks \cup dirBusy
        /\ UNCHANGED <<sessionVars, recvClosed, local, extras, failed, place>>
    BY <1>4 DEF DirWorkerPops
  <2>2. place = "dirs"
    BY DEF DirsLeft
  <2>3. EmptyDirs' = EmptyDirs /\ \A d \in EmptyDirs : Blocked(d)' = Blocked(d)
    BY <2>1 DEF EmptyDirs, Blocked
  <2> QED BY <2>1, <2>2, <2>3 DEF DirsLeft, Mirroring, ManifestComplete
<1>5. ASSUME NEW e \in dirBusy, DirWorkerCreates(e) PROVE DirsLeft'
  <2>1. /\ dirTasks' = dirTasks /\ dirBusy' = dirBusy \ {e}
        /\ UNCHANGED <<sessionVars, recvClosed, extras, failed, place>>
    BY <1>5 DEF DirWorkerCreates
  <2>2. /\ place = "dirs" /\ e \in served.dirs /\ e \in Path /\ Above(e) \subseteq served.dirs
        /\ local'.files = local.files /\ local.dirs \subseteq local'.dirs
        /\ (Above(e) \cup {e}) \cap DOMAIN local.files = {}
             => Above(e) \cup {e} \subseteq local'.dirs
    BY <1>5, CreatesOffered
  <2>3. EmptyDirs' = EmptyDirs /\ \A d : Blocked(d)' = Blocked(d)
    BY <2>1, <2>2 DEF EmptyDirs, Blocked
  <2>4. /\ Mirroring /\ extras.files = {} /\ remoteFiles = DOMAIN served.files
        /\ DOMAIN served.files \cap served.dirs = {}
    BY <2>2, ClientRunAssumption DEF Mirroring, ExtrasLeft, WholeListing, Types, IsTree
  <2>5. ASSUME failed = 0, NEW d \in Above(e) \cup {e}
        PROVE  d \in local'.dirs \/ Blocked(d)
    <3>1. CASE (Above(e) \cup {e}) \cap DOMAIN local.files = {}
      BY <2>2, <2>5, <3>1
    <3>2. ASSUME NEW q \in (Above(e) \cup {e}) \cap DOMAIN local.files
          PROVE  d \in local'.dirs \/ Blocked(d)
      <4>1. ~Visible(q)
        BY <2>2, <2>4, <2>5 DEF ExtrasLeft
      <4>2. d = q \/ d \in Above(q) \/ q \in Above(d)
        BY <2>2, <2>5, Ancestors
      <4>3. d \in Above(q) => d \in local.dirs
        BY DEF TargetShape
      <4> QED BY <2>2, <4>1, <4>2, <4>3 DEF Blocked
    <3> QED BY <3>1, <3>2
  <2>6. ASSUME failed' = 0, NEW d \in EmptyDirs'
        PROVE  Left(d)'
    <3>1. failed = 0 /\ Left(d)
      BY <2>1, <2>2, <2>3, <2>4, <2>6 DEF DirsLeft
    <3>2. CASE d \in Above(e) \cup {e}
      BY <3>1, <3>2, <2>3, <2>5
    <3>3. CASE d \notin Above(e) \cup {e}
      BY <3>1, <3>3, <2>1, <2>2, <2>3
    <3> QED BY <3>2, <3>3
  <2> QED BY <2>1, <2>2, <2>6 DEF DirsLeft
<1>6. CASE DirsDone
  <2>1. /\ place = "dirs" /\ dirTasks = {} /\ dirBusy = {}
        /\ UNCHANGED <<sessionVars, recvClosed, local, extras, failed, dirVars>>
    BY <1>6 DEF DirsDone, At
  <2>2. EmptyDirs' = EmptyDirs /\ \A d \in EmptyDirs : Blocked(d)' = Blocked(d)
    BY <2>1 DEF EmptyDirs, Blocked
  <2>3. Mirroring
    BY <2>1 DEF Mirroring
  <2> QED BY <2>1, <2>2, <2>3 DEF DirsLeft
<1>7. ASSUME NEW fatal \in BOOLEAN, ConnectFails(fatal) PROVE DirsLeft'
  BY <1>7, <1>2 DEF ConnectFails, ScheduleClientReconnectOrExit, At
<1>8. CASE RequestManifest \/ Abort
  BY <1>8, <1>2 DEF RequestManifest, Abort, ScheduleClientReconnectOrExit, At, ManifestComplete
<1>9. ASSUME NEW p, \/ ManifestEnds \/ Drops \/ ListsFile(p) \/ ListsDir(p) \/ Settle(p)
                    \/ Connect(p) \/ SessionThrows
      PROVE  DirsLeft'
  BY <1>9, <1>2 DEF ManifestEnds, Drops, ListsFile, ListsDir, Settle, Connect, SessionThrows, At
<1>10. CASE SessionEnds
  BY <1>10, <1>2 DEF SessionEnds, At, ManifestComplete
<1>11. ASSUME NEW p, Scan \/ DeleteFile(p) \/ RemoveDir(p) PROVE DirsLeft'
  BY <1>11, <1>2 DEF Scan, DeleteFile, RemoveDir, At
<1>12. CASE UNCHANGED rvars \/ Finish
  BY <1>12, <1>1 DEF rvars, Finish
<1> QED
  BY <1>3, <1>4, <1>5, <1>6, <1>7, <1>8, <1>9, <1>10, <1>11, <1>12, RunSteps

-----------------------------------------------------------------------------
(* The verdict.                                                            *)

LEMMA BudgetStep ==
  ASSUME Types, DirsLeft, RetryBudget, [RunNext]_rvars
  PROVE  RetryBudget'
<1> USE DEF sessionVars, dirVars, boundVars, RetryBudget, At
<1>1. CASE UNCHANGED rvars
  BY <1>1 DEF rvars
<1>2. ASSUME NEW fatal \in BOOLEAN, ConnectFails(fatal) PROVE RetryBudget'
  BY <1>2 DEF ConnectFails, ScheduleClientReconnectOrExit, Types
<1>3. ASSUME NEW tree \in ServedTrees, Connect(tree) PROVE RetryBudget'
  BY <1>3 DEF Connect
<1>4. CASE RequestManifest \/ Abort
  BY <1>4 DEF RequestManifest, Abort, ScheduleClientReconnectOrExit, Types
<1>5. CASE ManifestEnds \/ SessionThrows \/ SessionEnds \/ Scan \/ PlanDirs \/ DirsDone \/ Finish
  BY <1>5 DEF ManifestEnds, SessionThrows, SessionEnds, Scan, PlanDirs, DirsDone, Finish
<1>6. ASSUME NEW p, \/ ListsFile(p) \/ ListsDir(p) \/ DirWorkerPops(p) \/ DirWorkerCreates(p)
                    \/ Settle(p) \/ Drops \/ DeleteFile(p) \/ RemoveDir(p)
      PROVE  RetryBudget'
  <2>1. UNCHANGED <<place, exitCode, reconnectAttemptsUsed, tries>>
    BY <1>6 DEF ListsFile, ListsDir, DirWorkerPops, DirWorkerCreates, Settle, Drops, DeleteFile,
       RemoveDir
  <2> QED BY <2>1
<1> QED BY <1>1, <1>2, <1>3, <1>4, <1>5, <1>6, RunSteps

\* With nothing failed and nothing left to do the target is the served tree.
LEMMA NothingLeftMirrors ==
  ASSUME Types, TargetShape, SettledHere, WholeListing, ExtrasLeft, DirsLeft,
         place = "stop", ManifestComplete, failed = 0
  PROVE  Mirrors
<1>1. /\ Mirroring /\ settled = DOMAIN served.files /\ remoteFiles = DOMAIN served.files
      /\ remoteDirs = served.dirs
  BY DEF Mirroring, WholeListing
<1>2. extras.files = {} /\ extras.dirs = {} /\ dirTasks = {} /\ dirBusy = {}
  BY <1>1 DEF ExtrasLeft, DirsLeft
<1>3. \A p \in DOMAIN served.files :
        /\ p \in DOMAIN local.files
        /\ Telling(p) => local.files[p].content = served.files[p].content
  BY <1>1 DEF SettledHere
<1>4. /\ \A p \in DOMAIN local.files : Visible(p) => p \in DOMAIN served.files
      /\ \A d \in local.dirs : Visible(d) => d \in served.dirs
  BY <1>1, <1>2 DEF ExtrasLeft
<1>5. ASSUME NEW d \in served.dirs PROVE d \in local.dirs \/ Blocked(d)
  <2>1. CASE d \in extras.existing
    BY <2>1, <1>1 DEF ExtrasLeft
  <2>2. CASE \E p \in remoteFiles : d \in Above(p)
    BY <2>2, <1>1, <1>3 DEF TargetShape
  <2>3. CASE d \in EmptyDirs
    BY <2>3, <1>1, <1>2 DEF DirsLeft
  <2> QED BY <1>1, <2>1, <2>2, <2>3 DEF EmptyDirs
<1> QED BY <1>3, <1>4, <1>5 DEF Mirrors

LEMMA ExitStep ==
  ASSUME Types, TargetShape, SettledHere, WholeListing, ExtrasLeft, DirsLeft, RetryBudget,
         ExitTellsTruth, [RunNext]_rvars
  PROVE  ExitTellsTruth'
<1> USE DEF sessionVars, dirVars, boundVars, At, Running
<1>1. CASE exitCode' = Running \/ exitCode' = 1
  BY <1>1 DEF ExitTellsTruth
<1>2. CASE UNCHANGED rvars
  BY <1>2 DEF rvars, ExitTellsTruth, Mirrors, Telling, Visible, Blocked
<1>3. ASSUME NEW fatal \in BOOLEAN, ConnectFails(fatal) PROVE ExitTellsTruth'
  BY <1>3, <1>1
     DEF ConnectFails, ScheduleClientReconnectOrExit, Types, RetryBudget, ExitTellsTruth
<1>4. CASE RequestManifest \/ Abort
  BY <1>4, <1>1
     DEF RequestManifest, Abort, ScheduleClientReconnectOrExit, Types, RetryBudget, ExitTellsTruth
<1>5. CASE Finish
  <2>1. /\ UNCHANGED <<retries, local, sessionVars, failed, tries>>
        /\ exitCode' = IF failed = 0 THEN 0 ELSE 2
        /\ ManifestComplete /\ place = "stop"
    BY <1>5 DEF Finish
  <2>2. CASE failed = 0
    <3>1. Mirrors
      BY <2>1, <2>2, NothingLeftMirrors
    <3>2. Mirrors'
      BY <3>1, <2>1 DEF Mirrors, Telling, Visible, Blocked
    <3> QED BY <2>1, <2>2, <3>2 DEF ExitTellsTruth
  <2>3. CASE failed # 0
    BY <2>1, <2>3 DEF ExitTellsTruth, ManifestComplete, Types
  <2> QED BY <2>2, <2>3
<1>6. ASSUME NEW p, \/ ManifestEnds \/ SessionThrows \/ SessionEnds \/ Scan \/ PlanDirs \/ DirsDone
                    \/ Connect(p) \/ ListsFile(p) \/ ListsDir(p) \/ Settle(p) \/ Drops
                    \/ DeleteFile(p) \/ RemoveDir(p)
      PROVE  ExitTellsTruth'
  <2>1. exitCode' = Running \/ exitCode' = 1
    BY <1>6 DEF ManifestEnds, SessionThrows, SessionEnds, Scan, PlanDirs, DirsDone, Connect,
       ListsFile, ListsDir, Settle, Drops, DeleteFile, RemoveDir
  <2> QED BY <2>1, <1>1
<1>7. ASSUME NEW d \in dirTasks \cup dirBusy, DirWorkerPops(d) \/ DirWorkerCreates(d)
      PROVE  ExitTellsTruth'
  <2>1. place = "dirs" /\ exitCode' = exitCode
    BY <1>7 DEF DirWorkerPops, DirWorkerCreates, DirsLeft
  <2> QED BY <2>1, <1>1 DEF RetryBudget
<1> QED BY <1>2, <1>3, <1>4, <1>5, <1>6, <1>7, RunSteps

LEMMA RunInvInit == RunInit => RunInv
<1> SUFFICES ASSUME RunInit PROVE RunInv
  OBVIOUS
<1> USE DEF RunInit
<1>1. local \in LocalTrees /\ served \in ServedTrees /\ IsTree(local)
  BY ClientRunAssumption
<1>2. TargetShape
  BY <1>1 DEF TargetShape, IsTree, Known
<1>3. Types
  BY <1>1, ClientRunAssumption DEF Types
<1>4. SettledHere /\ WholeListing /\ ExtrasLeft /\ DirsLeft
  BY DEF SettledHere, WholeListing, ExtrasLeft, DirsLeft, Mirroring
<1>5. RetryBudget /\ ExitTellsTruth
  BY DEF RetryBudget, ExitTellsTruth, Running
<1> QED BY <1>2, <1>3, <1>4, <1>5 DEF RunInv

\* README "Exit Codes": for every pair of trees, every retry budget and every sequence of
\* drops, reconnects, changes on the server and failing disk operations, exit code 0 means
\* that the target is what the server offered to the last session, 2 that the listing was
\* whole and something failed, 3 that there is no budget, 4 that the budget is spent.
THEOREM ExitHolds == RunSpec => []ExitTellsTruth
<1>1. RunInit => DeleteInv /\ RunInv
  BY DeleteInvInit, RunInvInit
<1>2. DeleteInv /\ RunInv /\ [RunNext]_rvars => (DeleteInv /\ RunInv)'
  BY DeleteInvStep, TypesStep, TargetStep, SettledStep, ListingStep, ExtrasStep, DirsStep,
     BudgetStep, ExitStep DEF RunInv
<1>3. RunInv => ExitTellsTruth
  BY DEF RunInv
<1> QED BY <1>1, <1>2, <1>3, PTL DEF RunSpec

-----------------------------------------------------------------------------
(* Sums over finite sets.                                                  *)

\* A set of naturals has a least element.
LEMMA LeastNat ==
  ASSUME NEW S, S \subseteq Nat, S # {}
  PROVE  Min(S) \in S /\ \A y \in S : Min(S) <= y
<1>1. \E x \in S : \A y \in S : x <= y
  <2>1. PICK x \in S : \A y \in S : ~(<<y, x>> \in OpToRel(<, Nat))
    BY NatLessThanWellFounded, WFMin
  <2>2. \A y \in S : ~(y < x)
    BY <2>1 DEF OpToRel
  <2> QED BY <2>2
<1> QED BY <1>1 DEF Min

\* Induction up to n, over a set in place of a predicate.
LEMMA CountTo ==
  ASSUME NEW n \in Nat, NEW P, 0 \in P, \A i \in 1 .. n : i - 1 \in P => i \in P
  PROVE  \A i \in 0 .. n : i \in P
<1> SUFFICES ASSUME \E i \in 0 .. n : i \notin P
             PROVE  FALSE
  OBVIOUS
<1> DEFINE bad == {i \in 0 .. n : i \notin P}
           m == Min(bad)
<1>1. m \in bad /\ \A y \in bad : m <= y
  BY LeastNat
<1> HIDE DEF m
<1>2. m \in 1 .. n /\ m - 1 \in 0 .. n
  BY <1>1
<1> QED BY <1>1, <1>2

\* Induction over the subsets of a finite set, over a set in place of a predicate.
LEMMA OnSubsets ==
  ASSUME NEW S, IsFiniteSet(S), NEW P,
         \A s \in SUBSET S : (\A x \in s : s \ {x} \in P) => s \in P
  PROVE  \A s \in SUBSET S : s \in P
<1> DEFINE Q == {n \in Nat : \A s \in SUBSET S : Cardinality(s) = n => s \in P}
<1>1. \A s \in SUBSET S : IsFiniteSet(s) /\ Cardinality(s) \in Nat
  BY FS_Subset, FS_CardinalityType
<1>2. 0 \in Q
  <2>1. ASSUME NEW s \in SUBSET S, Cardinality(s) = 0
        PROVE  s \in P
    <3>1. s = {}
      BY <1>1, <2>1, FS_EmptySet
    <3> QED BY <3>1
  <2> QED BY <2>1
<1>3. ASSUME NEW n \in Nat \ {0}, n - 1 \in Q
      PROVE  n \in Q
  <2>1. ASSUME NEW s \in SUBSET S, Cardinality(s) = n
        PROVE  s \in P
    <3>1. \A x \in s : Cardinality(s \ {x}) = n - 1
      BY <1>1, <2>1, FS_RemoveElement
    <3>2. \A x \in s : s \ {x} \in SUBSET S
      OBVIOUS
    <3>3. \A x \in s : s \ {x} \in P
      BY <1>3, <3>1, <3>2
    <3> QED BY <3>3
  <2> QED BY <2>1
<1> HIDE DEF Q
<1>4. ASSUME NEW s \in SUBSET S
      PROVE  s \in P
  <2> DEFINE n == Cardinality(s)
  <2>1. n \in Nat
    BY <1>1
  <2> HIDE DEF n
  <2>2. \A i \in 1 .. n : i - 1 \in Q => i \in Q
    BY <1>3, <2>1
  <2>3. n \in Q
    BY <1>2, <2>1, <2>2, CountTo
  <2> QED BY <2>3 DEF Q, n
<1> QED BY <1>4

Any(s) == CHOOSE x \in s : TRUE

\* g is the sum of w over each subset of S: the equation MapThenSumSet chooses a solution of.
Solves(g, w, S) ==
  g = [s \in SUBSET S |-> IF s = {} THEN 0 ELSE w[Any(s)] + g[s \ {Any(s)}]]
Weights(w, S) == \A x \in S : w[x] \in Int
Total(w, S) == (CHOOSE g : Solves(g, w, S))[S]

Sums(g, w, S) == /\ g \in [SUBSET S -> Int] /\ Solves(g, w, S)
                 /\ \A T \in SUBSET S : Total(w, T) = g[T]

\* The element the sum takes out next.
LEMMA AnyIn == \A s : s # {} => Any(s) \in s
  BY DEF Any

\* A solution at the empty set and at the others.
LEMMA SolvesAt ==
  ASSUME NEW S, NEW w, NEW g, Solves(g, w, S)
  PROVE  /\ g[{}] = 0
         /\ \A s \in SUBSET S : s # {} => g[s] = w[Any(s)] + g[s \ {Any(s)}]
<1>1. g = [s \in SUBSET S |-> IF s = {} THEN 0 ELSE w[Any(s)] + g[s \ {Any(s)}]]
  BY DEF Solves
<1>2. {} \in SUBSET S
  OBVIOUS
<1> QED BY <1>1, <1>2

\* A finite set has a solution: by induction on the size of the subsets.
LEMMA SolutionExists ==
  ASSUME NEW S, IsFiniteSet(S), NEW w, Weights(w, S)
  PROVE  \E g : Solves(g, w, S) /\ g \in [SUBSET S -> Int]
<1> DEFINE k == Cardinality(S)
           Upto(n) == {s \in SUBSET S : Cardinality(s) <= n}
           Good(n, g) == /\ g \in [Upto(n) -> Int]
                         /\ \A s \in Upto(n) :
                              g[s] = IF s = {} THEN 0 ELSE w[Any(s)] + g[s \ {Any(s)}]
           P == {n \in 0 .. k : \E g : Good(n, g)}
<1>1. \A s \in SUBSET S : IsFiniteSet(s) /\ Cardinality(s) \in Nat /\ Cardinality(s) <= k
  BY FS_Subset, FS_CardinalityType
<1>2. k \in Nat
  BY <1>1
<1>3. \A s \in SUBSET S : \A x \in s : Cardinality(s \ {x}) = Cardinality(s) - 1
  BY <1>1, FS_RemoveElement
<1>4. \A s \in SUBSET S : s # {} <=> Cardinality(s) # 0
  BY <1>1, FS_EmptySet
<1>5. \A s \in SUBSET S : s # {} => Any(s) \in S /\ w[Any(s)] \in Int
                                    /\ Cardinality(s \ {Any(s)}) = Cardinality(s) - 1
  BY <1>3, AnyIn DEF Weights
<1> HIDE DEF k
<1>6. 0 \in P
  <2> DEFINE g == [s \in Upto(0) |-> 0]
  <2>1. \A s \in Upto(0) : s = {}
    BY <1>1, <1>4
  <2>2. g \in [Upto(0) -> Int]
    OBVIOUS
  <2>3. Good(0, g)
    BY <2>1, <2>2
  <2> HIDE DEF Good, g
  <2> QED BY <1>2, <2>3
<1>7. ASSUME NEW n \in 1 .. k, n - 1 \in P
      PROVE  n \in P
  <2>1. PICK g : Good(n - 1, g)
    BY <1>7
  <2> DEFINE h == [s \in Upto(n) |-> IF Cardinality(s) = n THEN w[Any(s)] + g[s \ {Any(s)}] ELSE g[s]]
  <2>2. n \in Nat /\ n >= 1 /\ n - 1 \in Nat
    OBVIOUS
  <2>3. \A s \in Upto(n) : Cardinality(s) = n => s # {} /\ s \ {Any(s)} \in Upto(n - 1)
    BY <1>1, <1>4, <1>5, <2>2
  <2>4. \A s \in Upto(n) : Cardinality(s) # n => s \in Upto(n - 1)
    BY <1>1, <2>2
  <2>5. \A s \in Upto(n) : s # {} => s \ {Any(s)} \in Upto(n - 1) /\ s \ {Any(s)} \in Upto(n)
                                     /\ Cardinality(s \ {Any(s)}) # n
    BY <1>1, <1>5, <2>2
  <2> HIDE DEF Upto
  <2>6. ASSUME NEW s \in Upto(n) PROVE h[s] \in Int
    <3>1. CASE Cardinality(s) = n
      BY <2>1, <2>3, <1>5, <3>1 DEF Upto
    <3>2. CASE Cardinality(s) # n
      BY <2>1, <2>4, <3>2
    <3> QED BY <3>1, <3>2
  <2>7. ASSUME NEW s \in Upto(n)
        PROVE  h[s] = IF s = {} THEN 0 ELSE w[Any(s)] + h[s \ {Any(s)}]
    <3>1. CASE s = {}
      <4>1. Cardinality(s) # n
        BY <2>3, <3>1
      <4> QED BY <2>1, <2>4, <3>1, <4>1
    <3>2. CASE s # {}
      <4>1. h[s \ {Any(s)}] = g[s \ {Any(s)}]
        BY <2>5, <3>2
      <4>2. CASE Cardinality(s) = n
        BY <3>2, <4>1, <4>2
      <4>3. CASE Cardinality(s) # n
        <5>1. h[s] = g[s] /\ s \in Upto(n - 1)
          BY <2>4, <4>3
        <5> QED BY <2>1, <3>2, <4>1, <5>1
      <4> QED BY <4>2, <4>3
    <3> QED BY <3>1, <3>2
  <2>8. Good(n, h)
    BY <2>6, <2>7
  <2> HIDE DEF Good, h
  <2> QED BY <1>2, <2>8
<1>8. k \in P
  <2> HIDE DEF P
  <2> QED BY <1>2, <1>6, <1>7, CountTo
<1>9. PICK g : Good(k, g)
  BY <1>8
<1>10. Upto(k) = SUBSET S
  BY <1>1
<1>11. g \in [SUBSET S -> Int]
       /\ \A s \in SUBSET S : g[s] = IF s = {} THEN 0 ELSE w[Any(s)] + g[s \ {Any(s)}]
  BY <1>9, <1>10
<1>12. Solves(g, w, S)
  BY <1>11 DEF Solves
<1> QED BY <1>11, <1>12

\* Solutions agree on the subsets of both sets.
LEMMA SolutionUnique ==
  ASSUME NEW S, IsFiniteSet(S), NEW w, NEW v, \A x \in S : w[x] = v[x],
         NEW T \in SUBSET S, NEW g, Solves(g, w, S), NEW h, Solves(h, v, T)
  PROVE  \A s \in SUBSET T : g[s] = h[s]
<1> DEFINE P == {s \in SUBSET T : g[s] = h[s]}
<1>1. IsFiniteSet(T)
  BY FS_Subset
<1>2. ASSUME NEW s \in SUBSET T, \A x \in s : s \ {x} \in P
      PROVE  s \in P
  <2>1. CASE s = {}
    BY <2>1, SolvesAt
  <2>2. CASE s # {}
    <3>1. Any(s) \in s /\ Any(s) \in S /\ s \in SUBSET S
      BY <2>2, AnyIn
    <3>2. s \ {Any(s)} \in P
      BY <1>2, <3>1
    <3>3. g[s \ {Any(s)}] = h[s \ {Any(s)}]
      BY <3>2
    <3>4. g[s] = w[Any(s)] + g[s \ {Any(s)}] /\ h[s] = v[Any(s)] + h[s \ {Any(s)}]
      BY <2>2, <3>1, SolvesAt
    <3> QED BY <3>1, <3>3, <3>4
  <2> QED BY <2>1, <2>2
<1> HIDE DEF P
<1>3. \A s \in SUBSET T : s \in P
  BY <1>1, <1>2, OnSubsets
<1> QED BY <1>3 DEF P

\* Any solution gives the total.
LEMMA TotalIs ==
  ASSUME NEW S, IsFiniteSet(S), NEW w, Weights(w, S), NEW g, Solves(g, w, S)
  PROVE  Total(w, S) = g[S]
<1> DEFINE h == CHOOSE f : Solves(f, w, S)
<1>1. Solves(h, w, S)
  OBVIOUS
<1> HIDE DEF h
<1>2. S \in SUBSET S /\ \A x \in S : w[x] = w[x]
  OBVIOUS
<1>3. h[S] = g[S]
  BY <1>1, <1>2, SolutionUnique
<1> QED BY <1>3 DEF Total, h

\* One solution gives the totals of all subsets.
LEMMA TotalSolves ==
  ASSUME NEW S, IsFiniteSet(S), NEW w, Weights(w, S)
  PROVE  \E g : Sums(g, w, S)
<1>1. PICK g : Solves(g, w, S) /\ g \in [SUBSET S -> Int]
  BY SolutionExists
<1>2. ASSUME NEW T \in SUBSET S PROVE Total(w, T) = g[T]
  <2>1. IsFiniteSet(T) /\ Weights(w, T)
    BY FS_Subset DEF Weights
  <2> DEFINE h == CHOOSE f : Solves(f, w, T)
  <2>2. Solves(h, w, T)
    BY <2>1, SolutionExists
  <2> HIDE DEF h
  <2>3. h[T] = g[T]
    BY <1>1, <2>2, SolutionUnique
  <2> QED BY <2>3 DEF Total, h
<1>3. Sums(g, w, S)
  BY <1>1, <1>2 DEF Sums
<1> QED BY <1>3

\* A total of integers is an integer.
LEMMA TotalType ==
  ASSUME NEW S, IsFiniteSet(S), NEW w, Weights(w, S)
  PROVE  Total(w, S) \in Int
<1>1. PICK g : Sums(g, w, S)
  BY TotalSolves
<1> QED BY <1>1 DEF Sums

\* The total depends on the weights of the members only.
LEMMA TotalSame ==
  ASSUME NEW S, IsFiniteSet(S), NEW w, NEW v, Weights(w, S), \A x \in S : w[x] = v[x]
  PROVE  Total(w, S) = Total(v, S)
<1>1. Weights(v, S)
  BY DEF Weights
<1>2. PICK g : Sums(g, w, S)
  BY TotalSolves
<1>3. PICK h : Sums(h, v, S)
  BY <1>1, TotalSolves
<1>4. g[S] = h[S]
  BY <1>2, <1>3, SolutionUnique DEF Sums
<1> QED BY <1>2, <1>3, <1>4 DEF Sums

\* The total of nothing.
LEMMA TotalEmpty ==
  ASSUME NEW w
  PROVE  Total(w, {}) = 0
<1>1. IsFiniteSet({}) /\ Weights(w, {})
  BY FS_EmptySet DEF Weights
<1>2. PICK g : Sums(g, w, {})
  BY <1>1, TotalSolves
<1>3. {} \in SUBSET {}
  OBVIOUS
<1> QED BY <1>2, <1>3, SolvesAt DEF Sums

\* Any element may be taken out first.
LEMMA TotalRemove ==
  ASSUME NEW S, IsFiniteSet(S), NEW w, Weights(w, S), NEW x \in S
  PROVE  Total(w, S) = w[x] + Total(w, S \ {x})
<1>0. PICK g : Sums(g, w, S)
  BY TotalSolves
<1>1. /\ g \in [SUBSET S -> Int] /\ Solves(g, w, S)
      /\ \A T \in SUBSET S : Total(w, T) = g[T]
  BY <1>0 DEF Sums
<1> DEFINE P == {s \in SUBSET S : \A y \in s : g[s] = w[y] + g[s \ {y}]}
<1>2. ASSUME NEW s \in SUBSET S, \A y \in s : s \ {y} \in P
      PROVE  s \in P
  <2>1. ASSUME NEW y \in s PROVE g[s] = w[y] + g[s \ {y}]
    <3> DEFINE z == Any(s)
    <3>1. z \in s
      BY AnyIn
    <3>2. g[s] = w[z] + g[s \ {z}]
      BY <1>1, SolvesAt
    <3> HIDE DEF z
    <3>3. CASE y = z
      BY <3>2, <3>3
    <3>4. CASE y # z
      <4>1. g[s \ {z}] = w[y] + g[(s \ {z}) \ {y}]
        BY <1>2, <3>1, <3>4
      <4>2. g[s \ {y}] = w[z] + g[(s \ {y}) \ {z}]
        BY <1>2, <3>1, <3>4
      <4>3. (s \ {y}) \ {z} = (s \ {z}) \ {y}
        OBVIOUS
      <4>4. w[y] \in Int /\ w[z] \in Int /\ g[(s \ {z}) \ {y}] \in Int
        <5>1. (s \ {z}) \ {y} \in SUBSET S
          OBVIOUS
        <5>2. y \in S /\ z \in S
          BY <3>1
        <5> QED BY <1>1, <5>1, <5>2 DEF Weights
      <4> DEFINE rest == g[(s \ {z}) \ {y}]
                 wy == w[y]
                 wz == w[z]
      <4>5. g[s] = wz + (wy + rest)
        BY <3>2, <4>1
      <4>6. wy + g[s \ {y}] = wy + (wz + rest)
        BY <4>2, <4>3
      <4>7. wy \in Int /\ wz \in Int /\ rest \in Int
        BY <4>4
      <4> HIDE DEF rest, wy, wz
      <4>8. wz + (wy + rest) = wy + (wz + rest)
        BY <4>7
      <4> QED BY <4>5, <4>6, <4>8 DEF wy
    <3> QED BY <3>3, <3>4
  <2> QED BY <2>1
<1> HIDE DEF P
<1>3. S \in P
  BY <1>2, OnSubsets
<1>4. g[S] = w[x] + g[S \ {x}]
  BY <1>3 DEF P
<1> QED BY <1>1, <1>4

\* Sum, WeightedSum and the sum of lengths are totals.
LEMMA SumIs ==
  ASSUME NEW b
  PROVE  Sum(b) = Total(b, DOMAIN b)
  BY DEF Sum, MapThenSumSet, MapThenFoldSet, Total, Solves, Any

\* The weights of the second sum, as a function.
LEMMA WeightedSumIs ==
  ASSUME NEW b, NEW from, IsFiniteSet(DOMAIN b),
         \A j \in DOMAIN b : (from + j) * b[j] \in Int
  PROVE  WeightedSum(b, from) = Total([j \in DOMAIN b |-> (from + j) * b[j]], DOMAIN b)
<1> DEFINE S == DOMAIN b
           w == [j \in S |-> (from + j) * b[j]]
           Eq(g) == g = [s \in SUBSET S |-> IF s = {} THEN 0
                          ELSE (from + Any(s)) * b[Any(s)] + g[s \ {Any(s)}]]
           f == CHOOSE g : Eq(g)
<1>1. WeightedSum(b, from) = f[S]
  BY DEF WeightedSum, MapThenSumSet, MapThenFoldSet, Any
<1>2. Weights(w, S)
  BY DEF Weights
<1>3. PICK g : Solves(g, w, S)
  BY <1>2, SolutionExists
<1>4. ASSUME NEW h PROVE Eq(h) <=> Solves(h, w, S)
  <2>1. ASSUME NEW s \in SUBSET S, s # {}
        PROVE  w[Any(s)] = (from + Any(s)) * b[Any(s)]
    BY <2>1, AnyIn
  <2>2. [s \in SUBSET S |-> IF s = {} THEN 0
                          ELSE (from + Any(s)) * b[Any(s)] + h[s \ {Any(s)}]]
        = [s \in SUBSET S |-> IF s = {} THEN 0 ELSE w[Any(s)] + h[s \ {Any(s)}]]
    BY <2>1
  <2> QED BY <2>2 DEF Solves
<1>5. Solves(f, w, S)
  <2>1. Eq(f)
    BY <1>3, <1>4
  <2> HIDE DEF Eq, f, w, S
  <2> QED BY <1>4, <2>1
<1> HIDE DEF Eq, f, w
<1>6. Total(w, S) = f[S]
  BY <1>2, <1>5, TotalIs
<1> QED BY <1>1, <1>6 DEF w

\* The lengths of the misses, as a function.
LEMMA LengthsSum ==
  ASSUME NEW S, IsFiniteSet(S), \A m \in S : m.len \in Int
  PROVE  MapThenSumSet(LAMBDA m : m.len, S) = Total([m \in S |-> m.len], S)
<1> DEFINE w == [m \in S |-> m.len]
           Eq(g) == g = [s \in SUBSET S |-> IF s = {} THEN 0
                          ELSE Any(s).len + g[s \ {Any(s)}]]
           f == CHOOSE g : Eq(g)
<1>1. MapThenSumSet(LAMBDA m : m.len, S) = f[S]
  BY DEF MapThenSumSet, MapThenFoldSet, Any
<1>2. Weights(w, S)
  BY DEF Weights
<1>3. PICK g : Solves(g, w, S)
  BY <1>2, SolutionExists
<1>4. ASSUME NEW h PROVE Eq(h) <=> Solves(h, w, S)
  <2>1. ASSUME NEW s \in SUBSET S, s # {}
        PROVE  w[Any(s)] = Any(s).len
    BY <2>1, AnyIn
  <2>2. [s \in SUBSET S |-> IF s = {} THEN 0 ELSE Any(s).len + h[s \ {Any(s)}]]
        = [s \in SUBSET S |-> IF s = {} THEN 0 ELSE w[Any(s)] + h[s \ {Any(s)}]]
    BY <2>1
  <2> QED BY <2>2 DEF Solves
<1>5. Solves(f, w, S)
  <2>1. Eq(f)
    BY <1>3, <1>4
  <2> HIDE DEF Eq, f, w
  <2> QED BY <1>4, <2>1
<1> HIDE DEF Eq, f, w
<1>6. Total(w, S) = f[S]
  BY <1>2, <1>5, TotalIs
<1> QED BY <1>1, <1>6 DEF w

-----------------------------------------------------------------------------
(* The two sums of a block.                                                *)

Weighted(b, from) == [j \in DOMAIN b |-> (from + j) * b[j]]

\* Products of integers are integers.
LEMMA Products == \A a, b \in Int : a * b \in Int
  OBVIOUS

\* What the sums of a block are taken over.
LEMMA BlockWeights ==
  ASSUME NEW b \in Seq(Nat), NEW from \in Nat
  PROVE  /\ DOMAIN b = 1 .. Len(b) /\ Len(b) \in Nat /\ IsFiniteSet(DOMAIN b)
         /\ Weights(b, DOMAIN b) /\ Weights(Weighted(b, from), DOMAIN b)
         /\ WeightedSum(b, from) = Total(Weighted(b, from), DOMAIN b)
         /\ Sum(b) \in Int /\ WeightedSum(b, from) \in Int
<1>1. DOMAIN b = 1 .. Len(b) /\ Len(b) \in Nat /\ \A j \in DOMAIN b : j \in Nat /\ b[j] \in Nat
  OBVIOUS
<1>2. IsFiniteSet(DOMAIN b)
  BY <1>1, FS_Interval
<1>3. \A j \in DOMAIN b : (from + j) * b[j] \in Int
  <2>1. ASSUME NEW j \in DOMAIN b PROVE (from + j) * b[j] \in Int
    <3>1. from + j \in Int /\ b[j] \in Int
      BY <1>1
    <3> QED BY <3>1, Products
  <2> QED BY <2>1
<1>4. Weights(b, DOMAIN b) /\ Weights(Weighted(b, from), DOMAIN b)
  BY <1>1, <1>3 DEF Weights, Weighted
<1>5. WeightedSum(b, from) = Total(Weighted(b, from), DOMAIN b)
  BY <1>2, <1>3, WeightedSumIs DEF Weighted
<1> QED BY <1>1, <1>2, <1>4, <1>5, SumIs, TotalType

\* The sums of an empty block.
LEMMA EmptySums ==
  ASSUME NEW from \in Nat
  PROVE  Sum(<<>>) = 0 /\ WeightedSum(<<>>, from) = 0
<1>1. <<>> \in Seq(Nat) /\ DOMAIN <<>> = {}
  OBVIOUS
<1> QED BY <1>1, BlockWeights, SumIs, TotalEmpty

\* The sums of a block with one byte more.
LEMMA AppendSums ==
  ASSUME NEW b \in Seq(Nat), NEW x \in Nat, NEW from \in Nat
  PROVE  /\ Sum(Append(b, x)) = Sum(b) + x
         /\ WeightedSum(Append(b, x), from) = WeightedSum(b, from) + (from + Len(b) + 1) * x
<1> DEFINE c == Append(b, x)
           n == Len(b) + 1
           C == DOMAIN c
           B == DOMAIN b
           u == Weighted(c, from)
           v == Weighted(b, from)
<1>1. c \in Seq(Nat) /\ n \in C /\ C \ {n} = B /\ c[n] = x /\ \A j \in B : c[j] = b[j]
  <2>1. c \in Seq(Nat) /\ Len(c) = n /\ Len(b) \in Nat
    OBVIOUS
  <2>2. C = 1 .. n /\ B = 1 .. Len(b)
    BY <2>1
  <2>3. c[n] = x /\ \A j \in 1 .. Len(b) : c[j] = b[j]
    OBVIOUS
  <2>4. (1 .. n) \ {n} = 1 .. Len(b) /\ n \in 1 .. n
    BY <2>1
  <2> HIDE DEF c, n, B, C
  <2> QED BY <2>1, <2>2, <2>3, <2>4
<1>2. u[n] = (from + n) * x /\ \A j \in B : v[j] = u[j]
  BY <1>1 DEF Weighted
<1>3. /\ IsFiniteSet(C) /\ IsFiniteSet(B) /\ Weights(b, B) /\ Weights(v, B)
      /\ Weights(c, C) /\ Weights(u, C)
  BY <1>1, BlockWeights
<1>3a. Weights(c, C) /\ Weights(u, C) /\ Weights(b, B) /\ Weights(v, B)
  BY <1>3
<1> HIDE DEF c, n, C, B, u, v
<1>4. Total(c, C) = x + Total(b, B)
  <2>1. Total(c, C) = c[n] + Total(c, B)
    BY <1>1, <1>3, TotalRemove
  <2>2. Total(b, B) = Total(c, B)
    BY <1>1, <1>3, TotalSame
  <2> QED BY <1>1, <2>1, <2>2
<1>5. Total(u, C) = (from + n) * x + Total(v, B)
  <2>1. Total(u, C) = u[n] + Total(u, B)
    BY <1>1, <1>3, TotalRemove
  <2>2. Total(v, B) = Total(u, B)
    BY <1>2, <1>3, TotalSame
  <2> QED BY <1>2, <2>1, <2>2
<1>6. Sum(c) = Total(c, C) /\ Sum(b) = Total(b, B)
  BY SumIs DEF C, B
<1>7. WeightedSum(c, from) = Total(u, C) /\ WeightedSum(b, from) = Total(v, B)
  BY <1>1, BlockWeights DEF u, v, C, B
<1>8. Sum(b) \in Int /\ WeightedSum(b, from) \in Int
  BY BlockWeights
<1>9. from + n = from + Len(b) + 1 /\ from + n \in Int
  BY DEF n
<1>10. (from + n) * x \in Int
  BY <1>9, Products
<1> DEFINE k == (from + n) * x
<1>11. Sum(c) = Sum(b) + x
  BY <1>4, <1>6, <1>8
<1>12. WeightedSum(c, from) = WeightedSum(b, from) + k
  <2>1. WeightedSum(c, from) = k + WeightedSum(b, from)
    BY <1>5, <1>7
  <2> HIDE DEF k
  <2>2. k \in Int
    BY <1>10 DEF k
  <2> QED BY <1>8, <2>1, <2>2
<1> QED BY <1>9, <1>11, <1>12 DEF c

\* A prefix is the next shorter prefix and one byte.
LEMMA Snoc ==
  ASSUME NEW X, NEW b \in Seq(X), NEW i \in 1 .. Len(b)
  PROVE  /\ SubSeq(b, 1, i) = Append(SubSeq(b, 1, i - 1), b[i])
         /\ SubSeq(b, 1, i) \in Seq(X) /\ Len(SubSeq(b, 1, i)) = i
         /\ SubSeq(b, 1, i - 1) \in Seq(X) /\ Len(SubSeq(b, 1, i - 1)) = i - 1
         /\ b[i] \in X
<1>1. Len(b) \in Nat /\ b[i] \in X
  OBVIOUS
<1>2. SubSeq(b, 1, i) \in Seq(X) /\ Len(SubSeq(b, 1, i)) = i
  OBVIOUS
<1>3. SubSeq(b, 1, i - 1) \in Seq(X) /\ Len(SubSeq(b, 1, i - 1)) = i - 1
  OBVIOUS
<1>4. \A j \in 1 .. i : SubSeq(b, 1, i)[j] = Append(SubSeq(b, 1, i - 1), b[i])[j]
  BY <1>1, <1>3
<1> QED BY <1>1, <1>2, <1>3, <1>4

\* The sums of two spans: why a block may be fed in pieces.
LEMMA ConcatSums ==
  ASSUME NEW b \in Seq(Nat), NEW c \in Seq(Nat), NEW from \in Nat
  PROVE  /\ Sum(b \o c) = Sum(b) + Sum(c)
         /\ WeightedSum(b \o c, from) = WeightedSum(b, from) + WeightedSum(c, from + Len(b))
<1> DEFINE C(i) == SubSeq(c, 1, i)
           P == {i \in 0 .. Len(c) :
                   /\ Sum(b \o C(i)) = Sum(b) + Sum(C(i))
                   /\ WeightedSum(b \o C(i), from)
                        = WeightedSum(b, from) + WeightedSum(C(i), from + Len(b))}
<1>1. Len(c) \in Nat /\ Len(b) \in Nat /\ from + Len(b) \in Nat
  OBVIOUS
<1>2. 0 \in P
  <2>1. C(0) = <<>> /\ b \o <<>> = b
    OBVIOUS
  <2>2. Sum(b) \in Int /\ WeightedSum(b, from) \in Int
    BY BlockWeights
  <2>3. Sum(<<>>) = 0 /\ WeightedSum(<<>>, from + Len(b)) = 0
    BY <1>1, EmptySums
  <2> DEFINE z == C(0)
             bz == b \o C(0)
  <2>4. z = <<>> /\ bz = b
    BY <2>1
  <2> HIDE DEF C, z, bz
  <2>5. Sum(bz) = Sum(b) + Sum(z)
    BY <2>2, <2>3, <2>4
  <2>6. WeightedSum(bz, from) = WeightedSum(b, from) + WeightedSum(z, from + Len(b))
    BY <2>2, <2>3, <2>4
  <2> QED BY <1>1, <2>5, <2>6 DEF z, bz
<1>3. ASSUME NEW i \in 1 .. Len(c), i - 1 \in P
      PROVE  i \in P
  <2>1. C(i) = Append(C(i - 1), c[i]) /\ C(i - 1) \in Seq(Nat) /\ Len(C(i - 1)) = i - 1 /\ c[i] \in Nat
    BY Snoc
  <2> DEFINE d == C(i - 1)
             e == b \o d
             k == (from + Len(b) + i) * c[i]
  <2>2. b \o Append(d, c[i]) = Append(b \o d, c[i])
    BY <2>1, SMTT(30)
  <2>3. e \in Seq(Nat) /\ Len(e) = Len(b) + (i - 1)
    BY <2>1
  <2>4. /\ Sum(e) = Sum(b) + Sum(d)
        /\ WeightedSum(e, from) = WeightedSum(b, from) + WeightedSum(d, from + Len(b))
    BY <1>3
  <2>5. d \in Seq(Nat) /\ Len(d) = i - 1 /\ C(i) = Append(d, c[i])
    BY <2>1
  <2> HIDE DEF d, e, C
  <2>6. /\ Sum(Append(e, c[i])) = Sum(e) + c[i]
        /\ WeightedSum(Append(e, c[i]), from) = WeightedSum(e, from) + (from + Len(e) + 1) * c[i]
    BY <2>1, <2>3, AppendSums
  <2>7. /\ Sum(Append(d, c[i])) = Sum(d) + c[i]
        /\ WeightedSum(Append(d, c[i]), from + Len(b))
             = WeightedSum(d, from + Len(b)) + ((from + Len(b)) + Len(d) + 1) * c[i]
    BY <1>1, <2>1, <2>5, AppendSums
  <2>8. from + Len(e) + 1 = from + Len(b) + i /\ (from + Len(b)) + Len(d) + 1 = from + Len(b) + i
    BY <1>1, <2>3, <2>5
  <2>9. /\ Sum(b) \in Int /\ Sum(d) \in Int /\ WeightedSum(b, from) \in Int
        /\ WeightedSum(d, from + Len(b)) \in Int /\ k \in Int
    <3>1. from + Len(b) + i \in Int /\ c[i] \in Int
      BY <1>1, <2>1
    <3>2. k \in Int
      BY <3>1, Products
    <3> HIDE DEF k
    <3> QED BY <1>1, <2>5, <3>2, BlockWeights
  <2>10. WeightedSum(Append(e, c[i]), from) = WeightedSum(e, from) + k
    BY <2>6, <2>8
  <2>11. WeightedSum(Append(d, c[i]), from + Len(b)) = WeightedSum(d, from + Len(b)) + k
    BY <2>7, <2>8
  <2>12. b \o C(i) = Append(e, c[i])
    BY <2>2, <2>5 DEF e
  <2> HIDE DEF k
  <2>13. Sum(b \o C(i)) = Sum(b) + Sum(C(i))
    <3>1. c[i] \in Int
      BY <2>1
    <3>2. Sum(b \o C(i)) = (Sum(b) + Sum(d)) + c[i]
      BY <2>4, <2>6, <2>12
    <3>3. Sum(C(i)) = Sum(d) + c[i]
      BY <2>5, <2>7
    <3> QED BY <2>9, <3>1, <3>2, <3>3
  <2>14. WeightedSum(b \o C(i), from) = WeightedSum(b, from) + WeightedSum(C(i), from + Len(b))
    BY <2>4, <2>5, <2>9, <2>10, <2>11, <2>12
  <2> QED BY <2>13, <2>14
<1> HIDE DEF P
<1>4. Len(c) \in P
  <2> DEFINE n == Len(c)
  <2> HIDE DEF n
  <2>1. n \in Nat /\ \A i \in 1 .. n : i - 1 \in P => i \in P
    BY <1>1, <1>3 DEF n
  <2>2. \A i \in 0 .. n : i \in P
    BY <1>2, <2>1, CountTo
  <2>3. n \in P
    BY <2>1, <2>2
  <2> QED BY <2>3 DEF n
<1>5. C(Len(c)) = c
  OBVIOUS
<1> QED BY <1>4, <1>5 DEF P

\* Moving every byte one place up adds the plain sum.
LEMMA ShiftedSum ==
  ASSUME NEW c \in Seq(Nat)
  PROVE  WeightedSum(c, 1) = WeightedSum(c, 0) + Sum(c)
<1> DEFINE C(i) == SubSeq(c, 1, i)
           P == {i \in 0 .. Len(c) : WeightedSum(C(i), 1) = WeightedSum(C(i), 0) + Sum(C(i))}
<1>1. Len(c) \in Nat
  OBVIOUS
<1>2. 0 \in P
  <2>1. C(0) = <<>>
    OBVIOUS
  <2>2. Sum(<<>>) = 0 /\ WeightedSum(<<>>, 1) = 0 /\ WeightedSum(<<>>, 0) = 0
    BY EmptySums
  <2> HIDE DEF C
  <2>3. WeightedSum(C(0), 1) = WeightedSum(C(0), 0) + Sum(C(0))
    BY <2>1, <2>2
  <2> QED BY <1>1, <2>3
<1>3. ASSUME NEW i \in 1 .. Len(c), i - 1 \in P
      PROVE  i \in P
  <2> DEFINE d == C(i - 1)
             x == c[i]
  <2>1. C(i) = Append(d, x) /\ d \in Seq(Nat) /\ Len(d) = i - 1 /\ x \in Nat
    BY Snoc
  <2>2. WeightedSum(d, 1) = WeightedSum(d, 0) + Sum(d)
    BY <1>3
  <2> HIDE DEF d, x, C
  <2>3. /\ Sum(Append(d, x)) = Sum(d) + x
        /\ WeightedSum(Append(d, x), 0) = WeightedSum(d, 0) + (0 + Len(d) + 1) * x
    BY <2>1, AppendSums
  <2>4. WeightedSum(Append(d, x), 1) = WeightedSum(d, 1) + (1 + Len(d) + 1) * x
    BY <2>1, AppendSums
  <2>5. 0 + Len(d) + 1 = i /\ 1 + Len(d) + 1 = i + 1
    BY <2>1
  <2>6. i \in Int /\ x \in Int /\ (i + 1) * x = i * x + x /\ i * x \in Int
    BY <2>1
  <2>7. Sum(d) \in Int /\ WeightedSum(d, 0) \in Int
    BY <2>1, BlockWeights
  <2> DEFINE k == i * x
  <2>8. /\ WeightedSum(Append(d, x), 1) = WeightedSum(d, 1) + (k + x)
        /\ WeightedSum(Append(d, x), 0) = WeightedSum(d, 0) + k /\ k \in Int
    BY <2>3, <2>4, <2>5, <2>6
  <2> HIDE DEF k
  <2>9. WeightedSum(Append(d, x), 1) = WeightedSum(Append(d, x), 0) + Sum(Append(d, x))
    BY <2>2, <2>3, <2>6, <2>7, <2>8
  <2>10. WeightedSum(C(i), 1) = WeightedSum(C(i), 0) + Sum(C(i))
    BY <2>1, <2>9
  <2> QED BY <2>10
<1> HIDE DEF P
<1>4. Len(c) \in P
  <2> DEFINE n == Len(c)
  <2> HIDE DEF n
  <2>1. n \in Nat /\ \A i \in 1 .. n : i - 1 \in P => i \in P
    BY <1>1, <1>3 DEF n
  <2>2. \A i \in 0 .. n : i \in P
    BY <1>2, <2>1, CountTo
  <2>3. n \in P
    BY <2>1, <2>2
  <2> QED BY <2>3 DEF n
<1>5. C(Len(c)) = c
  OBVIOUS
<1> QED BY <1>4, <1>5 DEF P

-----------------------------------------------------------------------------
(* Remainders and blocks.                                                  *)

\* Multiplication is monotone.
LEMMA Larger ==
  ASSUME NEW m \in Nat, NEW k \in Int, NEW n \in Int, k <= n
  PROVE  k * m <= n * m /\ k * m \in Int /\ n * m \in Int
  OBVIOUS

\* Multiplication distributes.
LEMMA Distribute ==
  ASSUME NEW m \in Int, NEW k \in Int, NEW n \in Int
  PROVE  /\ (k + n) * m = k * m + n * m /\ (k - n) * m = k * m - n * m
         /\ (k + 1) * m = k * m + m /\ (k - 1) * m = k * m - m
         /\ k * m \in Int /\ n * m \in Int
  OBVIOUS

\* Quotient and remainder.
LEMMA Division ==
  ASSUME NEW m \in Nat \ {0}, NEW a \in Int
  PROVE  /\ a % m = a - (a \div m) * m /\ a % m \in 0 .. m - 1 /\ a \div m \in Int
         /\ (a \div m) * m \in Int
<1>1. a \div m \in Int /\ a % m = a - (a \div m) * m
  OBVIOUS
<1>2. a % m \in 0 .. m - 1
  OBVIOUS
<1>3. (a \div m) * m \in Int
  BY <1>1, Distribute
<1> QED BY <1>1, <1>2, <1>3, Zenon

\* ... are unique.
LEMMA OneQuotient ==
  ASSUME NEW m \in Nat \ {0}, NEW q \in Int, NEW d \in Int,
         NEW r \in 0 .. m - 1, NEW s \in 0 .. m - 1, q * m + r = d * m + s
  PROVE  q = d /\ r = s
<1>1. q * m \in Int /\ d * m \in Int
  BY Distribute
<1>2. ~(q < d)
  <2> SUFFICES ASSUME q + 1 <= d PROVE FALSE
    OBVIOUS
  <2>1. (q + 1) * m <= d * m
    BY Larger
  <2>2. (q + 1) * m = q * m + m
    BY Distribute
  <2> QED BY <1>1, <2>1, <2>2
<1>3. ~(d < q)
  <2> SUFFICES ASSUME d + 1 <= q PROVE FALSE
    OBVIOUS
  <2>1. (d + 1) * m <= q * m
    BY Larger
  <2>2. (d + 1) * m = d * m + m
    BY Distribute
  <2> QED BY <1>1, <2>1, <2>2
<1>4. q = d
  BY <1>2, <1>3
<1> QED BY <1>1, <1>4

\* Multiples of the modulus do not count.
LEMMA Remainder ==
  ASSUME NEW m \in Nat \ {0}, NEW a \in Int, NEW k \in Int
  PROVE  (a + k * m) % m = a % m
<1> DEFINE q == a \div m
           r == a % m
           b == a + k * m
           d == b \div m
           s == b % m
<1>0. k * m \in Int
  BY Distribute
<1>1. b \in Int
  BY <1>0
<1>2a. r = a - q * m /\ r \in 0 .. m - 1 /\ q \in Int /\ q * m \in Int
  BY Division
<1>3a. s = b - d * m /\ s \in 0 .. m - 1 /\ d \in Int /\ d * m \in Int
  BY <1>1, Division
<1> HIDE DEF q, r, d, s
<1>2. a = q * m + r /\ r \in 0 .. m - 1 /\ q \in Int
  BY <1>2a
<1>3. b = d * m + s /\ s \in 0 .. m - 1 /\ d \in Int
  BY <1>1, <1>3a
<1>4. (q + k) * m = q * m + k * m /\ q * m \in Int
  BY <1>2, Distribute
<1>5. (q + k) * m + r = d * m + s
  BY <1>0, <1>2, <1>3, <1>4
<1>6. q + k \in Int
  BY <1>2
<1>7. r = s
  BY <1>2, <1>3, <1>5, <1>6, OneQuotient
<1> QED BY <1>7 DEF r, s, b

\* Reducing before or after an addition is the same.
LEMMA RollMod ==
  ASSUME NEW m \in Nat \ {0}, NEW a \in Int, NEW b \in Int, NEW c \in Int
  PROVE  /\ ((a % m) + c) % m = (a + c) % m
         /\ ((b % m) + c - (a % m)) % m = (b + c - a) % m
<1> DEFINE q == a \div m
           r == a % m
           d == b \div m
           s == b % m
<1>1a. r = a - q * m /\ r \in 0 .. m - 1 /\ q \in Int /\ q * m \in Int
  BY Division
<1>2a. s = b - d * m /\ s \in 0 .. m - 1 /\ d \in Int /\ d * m \in Int
  BY Division
<1> HIDE DEF q, r, d, s
<1>1. a = q * m + r /\ r \in 0 .. m - 1 /\ q \in Int
  BY <1>1a
<1>2. b = d * m + s /\ s \in 0 .. m - 1 /\ d \in Int
  BY <1>2a
<1>3. q * m \in Int /\ d * m \in Int /\ (d - q) * m = d * m - q * m /\ d - q \in Int
  BY <1>1, <1>2, Distribute
<1>4. a + c = (r + c) + q * m /\ r + c \in Int
  BY <1>1, <1>3
<1>5. b + c - a = (s + c - r) + (d - q) * m /\ s + c - r \in Int
  BY <1>1, <1>2, <1>3
<1> DEFINE t == r + c
           u == s + c - r
           e == d - q
<1>6. t \in Int /\ u \in Int /\ e \in Int /\ a + c = t + q * m /\ b + c - a = u + e * m
  BY <1>3, <1>4, <1>5
<1> HIDE DEF t, u, e
<1>7. (t + q * m) % m = t % m /\ (u + e * m) % m = u % m
  BY <1>1, <1>6, Remainder
<1> QED BY <1>6, <1>7 DEF r, s, t, u

\* WeakRoll gives what WeakInit would give for the window one byte further.
LEMMA RollIsInit ==
  ASSUME NEW f \in Seq(Nat), NEW p \in Nat, p + L + 1 <= Len(f)
  PROVE  WeakRoll(WeakInit(SubSeq(f, p + 1, p + L)), f[p + 1], f[p + L + 1])
           = WeakInit(SubSeq(f, p + 2, p + L + 1))
<1> DEFINE x == f[p + 1]
           y == f[p + L + 1]
           c == SubSeq(f, p + 2, p + L)
           a == SubSeq(f, p + 1, p + L)
           b == SubSeq(f, p + 2, p + L + 1)
<1>0. L \in Nat \ {0} /\ WeakMod \in Nat \ {0} /\ Len(f) \in Nat
  BY DeltaAssumption
<1>1. a = <<x>> \o c
  <2>1. p + 1 \in 1 .. Len(f) /\ p + L \in p + 1 .. Len(f) /\ (p + 1) + 1 = p + 2
    BY <1>0
  <2> QED BY <2>1, SubSeqRecursiveFirst, ZenonT(60)
<1>2. b = c \o <<y>>
  <2>1. p + 2 \in 1 .. Len(f) /\ p + L + 1 \in p + 2 .. Len(f) /\ (p + L + 1) - 1 = p + L
    BY <1>0
  <2> QED BY <2>1, SubSeqRecursiveSecond
<1>3. c \in Seq(Nat) /\ Len(c) = L - 1 /\ x \in Nat /\ y \in Nat
  <2>1. p + 1 \in 1 .. Len(f) /\ p + L + 1 \in 1 .. Len(f)
    BY <1>0
  <2>2. \A i \in p + 2 .. p + L : f[i] \in Nat
    BY <1>0
  <2>3. p + 2 \in Int /\ p + L \in Int
    BY <1>0
  <2>4. c \in Seq(Nat) /\ Len(c) = IF p + 2 <= p + L THEN (p + L) - (p + 2) + 1 ELSE 0
    BY <2>2, <2>3, SubSeqProperties
  <2> QED BY <1>0, <2>1, <2>4
<1>4. <<x>> \in Seq(Nat) /\ Len(<<x>>) = 1 /\ <<y>> \in Seq(Nat)
  BY <1>3
<1> DEFINE S == Sum(c)
           W == WeightedSum(c, 0)
           k == L * y
<1> HIDE DEF x, y, c, a, b
<1>5. S \in Int /\ W \in Int /\ k \in Int
  BY <1>0, <1>3, BlockWeights, Products
<1>6. Sum(<<x>>) = x /\ Sum(<<y>>) = y /\ WeightedSum(<<x>>, 0) = x
      /\ WeightedSum(<<y>>, L - 1) = k
  <2>1. <<>> \in Seq(Nat) /\ Len(<<>>) = 0 /\ <<x>> = Append(<<>>, x) /\ <<y>> = Append(<<>>, y)
    OBVIOUS
  <2>2. L - 1 \in Nat /\ L - 1 + 0 + 1 = L /\ 0 + 0 + 1 = 1
    BY <1>0
  <2>3. Sum(<<>>) = 0 /\ WeightedSum(<<>>, 0) = 0 /\ WeightedSum(<<>>, L - 1) = 0
    BY <2>2, EmptySums
  <2> DEFINE e == <<>>
  <2>e. e \in Seq(Nat) /\ Len(e) = 0
    BY <2>1
  <2> HIDE DEF e
  <2>4a. /\ Sum(Append(e, x)) = Sum(e) + x
         /\ WeightedSum(Append(e, x), 0) = WeightedSum(e, 0) + (0 + Len(e) + 1) * x
    <3>1. x \in Nat /\ 0 \in Nat
      BY <1>3
    <3> QED BY <2>e, <3>1, AppendSums, ZenonT(60)
  <2>5a. /\ Sum(Append(e, y)) = Sum(e) + y
         /\ WeightedSum(Append(e, y), L - 1) = WeightedSum(e, L - 1) + (L - 1 + Len(e) + 1) * y
    BY <1>3, <2>2, <2>e, AppendSums, ZenonT(60)
  <2>4. /\ Sum(Append(<<>>, x)) = 0 + x
        /\ WeightedSum(Append(<<>>, x), 0) = 0 + (0 + 0 + 1) * x
    BY <2>3, <2>e, <2>4a DEF e
  <2>5. /\ Sum(Append(<<>>, y)) = 0 + y
        /\ WeightedSum(Append(<<>>, y), L - 1) = 0 + (L - 1 + 0 + 1) * y
    BY <2>3, <2>e, <2>5a DEF e
  <2>6. (0 + 0 + 1) * x = x /\ 0 + x = x /\ 0 + y = y
    BY <1>3
  <2>7. WeightedSum(<<y>>, L - 1) = 0 + k
    BY <2>1, <2>2, <2>5
  <2> HIDE DEF k
  <2>8. WeightedSum(<<y>>, L - 1) = k
    BY <2>7, <1>5
  <2> QED BY <1>3, <2>1, <2>4, <2>5, <2>6, <2>8
<1>7. Sum(a) = x + S /\ WeightedSum(a, 0) = x + (W + S)
  <2>1. Sum(<<x>> \o c) = Sum(<<x>>) + S
        /\ WeightedSum(<<x>> \o c, 0) = WeightedSum(<<x>>, 0) + WeightedSum(c, 0 + 1)
    <3> DEFINE h == <<x>>
    <3>1. h \in Seq(Nat) /\ Len(h) = 1
      BY <1>4
    <3> HIDE DEF h
    <3>2. Sum(h \o c) = Sum(h) + S
          /\ WeightedSum(h \o c, 0) = WeightedSum(h, 0) + WeightedSum(c, 0 + Len(h))
      BY <1>3, <3>1, ConcatSums
    <3> QED BY <3>1, <3>2 DEF h
  <2>2. WeightedSum(c, 1) = W + S /\ 0 + 1 = 1
    BY <1>3, ShiftedSum
  <2> QED BY <1>1, <1>6, <2>1, <2>2
<1>8. Sum(b) = S + y /\ WeightedSum(b, 0) = W + k
  <2>1. Sum(c \o <<y>>) = S + Sum(<<y>>)
        /\ WeightedSum(c \o <<y>>, 0) = W + WeightedSum(<<y>>, 0 + Len(c))
    BY <1>3, <1>4, ConcatSums, ZenonT(60)
  <2>2. 0 + Len(c) = L - 1
    BY <1>0, <1>3
  <2> QED BY <1>2, <1>6, <2>1, <2>2
<1> DEFINE A == Sum(a)
           B == WeightedSum(a, 0)
<1>9. A \in Int /\ B \in Int /\ Sum(b) = A + (y - x) /\ WeightedSum(b, 0) = B + k - A
  <2> HIDE DEF k, S, W
  <2> QED BY <1>3, <1>5, <1>7, <1>8
<1> DEFINE u == A % WeakMod
           v == B % WeakMod
<1>10. u \in Int /\ v \in Int
  <2> HIDE DEF A, B
  <2>1. u \in 0 .. WeakMod - 1
    BY <1>0, <1>9, Division
  <2>2. v \in 0 .. WeakMod - 1
    BY <1>0, <1>9, Division
  <2> QED BY <1>0, <2>1, <2>2
<1>11. WeakInit(a) = [s1 |-> u, s2 |-> v] /\ WeakInit(b) = [s1 |-> Sum(b) % WeakMod, s2 |-> WeightedSum(b, 0) % WeakMod]
  BY DEF WeakInit
<1>12. WeakRoll(WeakInit(a), x, y) = [s1 |-> (u + y - x) % WeakMod, s2 |-> (v + k - u) % WeakMod]
  BY <1>11 DEF WeakRoll
<1> HIDE DEF A, B, k
<1>13. (u + (y - x)) % WeakMod = (A + (y - x)) % WeakMod /\ (v + k - u) % WeakMod = (B + k - A) % WeakMod
  <2>1. y - x \in Int
    BY <1>3
  <2> DEFINE z == y - x
  <2> HIDE DEF z
  <2>2. z \in Int /\ k \in Int /\ A \in Int /\ B \in Int
    BY <1>5, <1>9, <2>1 DEF z
  <2>3. ((A % WeakMod) + z) % WeakMod = (A + z) % WeakMod
    BY <1>0, <2>2, RollMod, ZenonT(60)
  <2>4. ((B % WeakMod) + k - (A % WeakMod)) % WeakMod = (B + k - A) % WeakMod
    BY <1>0, <2>2, RollMod, ZenonT(60)
  <2> QED BY <2>3, <2>4 DEF z
<1> HIDE DEF u, v
<1>14. u + (y - x) = u + y - x
  BY <1>3, <1>10
<1>15. WeakRoll(WeakInit(a), x, y) = WeakInit(b)
  BY <1>9, <1>11, <1>12, <1>13, <1>14
<1> QED BY <1>15 DEF a, b, x, y

-----------------------------------------------------------------------------
\* The number of blocks of a file.
LEMMA BlocksOf ==
  ASSUME NEW n \in Nat
  PROVE  /\ BlockCount(n) \in Nat
         /\ n <= BlockCount(n) * L /\ BlockCount(n) * L < n + L
         /\ \A i \in Nat : i < BlockCount(n) <=> i * L < n
<1> DEFINE c == (n + L - 1) \div L
           r == (n + L - 1) % L
           cl == c * L
<1>0. L \in Nat \ {0} /\ n + L - 1 \in Int
  BY DeltaAssumption
<1>1. r = (n + L - 1) - cl /\ r \in 0 .. L - 1 /\ c \in Int /\ cl \in Int
  BY <1>0, Division
<1>2. BlockCount(n) = c
  BY DEF BlockCount
<1> HIDE DEF c, r
<1>3. n <= cl /\ cl < n + L
  <2> HIDE DEF cl
  <2> QED BY <1>0, <1>1
<1>4. c \in Nat
  <2> SUFFICES ASSUME c + 1 <= 0 PROVE FALSE
    BY <1>1
  <2>1. (c + 1) * L <= 0 * L /\ (c + 1) * L = cl + L /\ 0 * L = 0
    BY <1>0, <1>1, Larger, Distribute
  <2> HIDE DEF cl
  <2> QED BY <1>0, <1>1, <1>3, <2>1
<1>5. ASSUME NEW i \in Nat
      PROVE  i < c <=> i * L < n
  <2>0. i * L \in Int
    BY <1>0, Distribute
  <2>1. CASE i < c
    <3>1. i + 1 <= c
      BY <1>4, <2>1
    <3>2. (i + 1) * L <= cl
      BY <1>0, <1>1, <3>1, Larger
    <3>3. (i + 1) * L = i * L + L
      BY <1>0, Distribute
    <3> DEFINE il == i * L
    <3> HIDE DEF cl, il
    <3>4. il + L <= cl /\ il \in Int
      BY <2>0, <3>2, <3>3 DEF il
    <3>5. il < n
      BY <1>0, <1>1, <1>3, <3>4
    <3> QED BY <2>1, <3>5 DEF il
  <2>2. CASE ~(i < c)
    <3>1. cl <= i * L
      BY <1>0, <1>4, <2>2, Larger
    <3> HIDE DEF cl
    <3>2. ~(i * L < n)
      BY <1>1, <1>3, <2>0, <3>1
    <3> QED BY <2>2, <3>2
  <2> QED BY <2>1, <2>2
<1> QED BY <1>2, <1>3, <1>4, <1>5

\* The length of block i of n bytes, and where it ends.
LEMMA BlockLenIs ==
  ASSUME NEW n \in Nat, NEW i \in Nat
  PROVE  /\ i * L \in Nat /\ (i + 1) * L = i * L + L /\ i + 1 \in Nat /\ L \in Nat \ {0}
         /\ BlockLen(i, n) = IF i * L + L <= n THEN L ELSE n - i * L
<1>1. L \in Nat \ {0}
  BY DeltaAssumption
<1>2. i * L \in Int /\ (i + 1) * L = i * L + L /\ 0 * L <= i * L /\ 0 * L = 0
  BY <1>1, Larger, Distribute
<1> DEFINE il == i * L
<1> HIDE DEF il
<1>3. il \in Nat
  BY <1>2 DEF il
<1>4. BlockLen(i, n) = Min({L, n - il})
  BY DEF BlockLen, il
<1>5. BlockLen(i, n) = IF il + L <= n THEN L ELSE n - il
  BY <1>1, <1>3, <1>4, TwoOf
<1> QED BY <1>1, <1>2, <1>3, <1>5 DEF il

-----------------------------------------------------------------------------
(* The signer.                                                             *)

Part(i, n) == SubSeq(newFile, i * L + 1, i * L + n)
Signature(b) == [weak |-> WeakInit(b), strong |-> StrongHash(b)]
BlockSig(i) == Signature(Part(i, BlockLen(i, NewLen)))

FilesOk == /\ newFile \in Seq(Byte) /\ NewLen <= MaxNew /\ oldFile \in Seq(Byte)

SignerState == [consumed : Nat, avail : Nat, filled : Nat, s1 : Int, s2 : Int,
                strong : Seq(Byte), blocks : Seq([weak : [s1 : Int, s2 : Int], strong : Seq(Byte)])]

\* What has been fed is signed up to block i and, within it, up to what is filled.
SignInv ==
  LET i == Len(signer.blocks)
      done == signer.consumed - signer.avail
  IN  /\ signer \in SignerState
      /\ signer.consumed <= NewLen /\ signer.avail <= signer.consumed
      /\ i <= BlockCount(NewLen)
      /\ \A k \in 1 .. i : signer.blocks[k] = BlockSig(k - 1)
      /\ i = BlockCount(NewLen) => signer.filled = 0 /\ done = NewLen
      /\ i < BlockCount(NewLen) =>
           done = i * L + signer.filled /\ signer.filled < BlockLen(i, NewLen)
      /\ signer.strong = Part(i, signer.filled)
      /\ signer.s1 = Sum(signer.strong) /\ signer.s2 = WeightedSum(signer.strong, 0)

\* The types of the two files.
LEMMA FileFacts ==
  ASSUME FilesOk
  PROVE  /\ NewLen \in Nat /\ Len(oldFile) \in Nat /\ newFile \in Seq(Nat) /\ oldFile \in Seq(Nat)
         /\ L \in Nat \ {0} /\ Byte \subseteq Nat /\ NewLen = Len(newFile)
<1>1. Byte \subseteq Nat /\ L \in Nat \ {0}
  BY DeltaAssumption
<1>2. newFile \in Seq(Byte) /\ oldFile \in Seq(Byte)
  BY DEF FilesOk
<1>3. newFile \in Seq(Nat) /\ oldFile \in Seq(Nat)
  BY <1>1, <1>2, SeqMonotonic
<1> QED BY <1>1, <1>2, <1>3 DEF NewLen

\* A stretch of the new file.
LEMMA PartIs ==
  ASSUME FilesOk, NEW i \in Nat, NEW n \in Nat, i * L + n <= NewLen
  PROVE  /\ Part(i, n) \in Seq(Byte) /\ Part(i, n) \in Seq(Nat) /\ Len(Part(i, n)) = n
         /\ \A j \in 1 .. n : Part(i, n)[j] = newFile[i * L + j]
<1> DEFINE il == i * L
<1>1. il \in Nat /\ NewLen \in Nat /\ NewLen = Len(newFile) /\ Byte \subseteq Nat
  BY FileFacts, BlockLenIs
<1>1a. il + n <= NewLen
  OBVIOUS
<1> HIDE DEF il
<1>2. newFile \in Seq(Byte)
  BY DEF FilesOk
<1>3. \A k \in il + 1 .. il + n : newFile[k] \in Byte
  <2>1. \A k \in il + 1 .. il + n : k \in 1 .. Len(newFile)
    BY <1>1, <1>1a
  <2> QED BY <1>2, <2>1, ElementOfSeq
<1> DEFINE b == SubSeq(newFile, il + 1, il + n)
<1>4. /\ b \in Seq(Byte)
      /\ Len(b) = IF il + 1 <= il + n THEN (il + n) - (il + 1) + 1 ELSE 0
      /\ \A k \in 1 .. (il + n) - (il + 1) + 1 : b[k] = newFile[il + 1 + k - 1]
  <2>1. il + 1 \in Int /\ il + n \in Int
    BY <1>1
  <2> QED BY <1>3, <2>1, SubSeqProperties
<1> HIDE DEF b
<1>5. (il + n) - (il + 1) + 1 = n /\ \A k \in 1 .. n : il + 1 + k - 1 = il + k
  BY <1>1
<1>6. Len(b) = n
  BY <1>1, <1>4, <1>5
<1>7. \A k \in 1 .. n : b[k] = newFile[il + k]
  BY <1>4, <1>5
<1>8. b \in Seq(Nat)
  BY <1>1, <1>4, SeqMonotonic
<1>9. Part(i, n) = b
  BY DEF Part, b, il
<1> QED BY <1>4, <1>6, <1>7, <1>8, <1>9 DEF il

\* Nothing is signed yet.
LEMMA SignStart ==
  ASSUME FilesOk, signer = Idle
  PROVE  SignInv
<1>1. NewLen \in Nat /\ L \in Nat \ {0}
  BY FileFacts
<1> DEFINE c == BlockCount(NewLen)
<1>2. c \in Nat /\ NewLen <= c * L /\ (0 < c <=> 0 * L < NewLen) /\ 0 * L = 0
  BY <1>1, BlocksOf
<1>3. /\ signer.consumed = 0 /\ signer.avail = 0 /\ signer.filled = 0 /\ signer.s1 = 0
      /\ signer.s2 = 0 /\ signer.strong = <<>> /\ signer.blocks = <<>> /\ Len(signer.blocks) = 0
  BY DEF Idle
<1>4. signer \in SignerState
  BY <1>3 DEF Idle, SignerState
<1>5. Part(0, 0) = <<>>
  BY <1>1, <1>2, SubSeqEmpty DEF Part
<1>6. Sum(<<>>) = 0 /\ WeightedSum(<<>>, 0) = 0
  BY EmptySums
<1>7. 0 < c => 0 < BlockLen(0, NewLen)
  BY <1>1, <1>2, BlockLenIs
<1> HIDE DEF c
<1>8. 0 = c => NewLen = 0
  BY <1>1, <1>2
<1> QED BY <1>1, <1>2, <1>3, <1>4, <1>5, <1>6, <1>7, <1>8 DEF SignInv, c

\* A segment arrives.
LEMMA UpdateSigns ==
  ASSUME FilesOk, SignInv, NEW n, SignerUpdate(n)
  PROVE  SignInv'
<1>1. NewLen \in Nat /\ NewLen = Len(newFile)
  BY FileFacts
<1>2. /\ signer \in SignerState /\ signer.avail = 0
      /\ n \in 1 .. NewLen - signer.consumed
      /\ signer' = [signer EXCEPT !.avail = n, !.consumed = @ + n] /\ newFile' = newFile
  BY <1>1 DEF SignInv, SignerUpdate
<1>3. signer.consumed \in Nat /\ signer.avail \in Nat
  BY <1>2 DEF SignerState
<1>4. /\ signer'.consumed = signer.consumed + n /\ signer'.avail = n
      /\ signer'.filled = signer.filled /\ signer'.s1 = signer.s1 /\ signer'.s2 = signer.s2
      /\ signer'.strong = signer.strong /\ signer'.blocks = signer.blocks
  BY <1>2 DEF SignerState
<1>4a. signer' \in SignerState
  <2>1. signer.consumed + n \in Nat /\ n \in Nat
    BY <1>1, <1>2, <1>3
  <2> QED BY <1>2, <2>1 DEF SignerState
<1>5. /\ signer'.consumed - signer'.avail = signer.consumed - signer.avail
      /\ signer'.consumed <= NewLen /\ signer'.avail <= signer'.consumed
  BY <1>1, <1>2, <1>3, <1>4
<1>6. NewLen' = NewLen /\ \A i, k : Part(i, k)' = Part(i, k)
  BY <1>2 DEF NewLen, Part
<1>7. \A k : BlockSig(k)' = BlockSig(k)
  BY <1>6 DEF BlockSig
<1> QED BY <1>4, <1>4a, <1>5, <1>6, <1>7 DEF SignInv

\* The part of a segment that falls into the current block.
LEMMA SpanSigns ==
  ASSUME FilesOk, SignInv, SignerSpan
  PROVE  SignInv'
<1> DEFINE i == Len(signer.blocks)
           il == i * L
           from == signer.consumed - signer.avail
           len == BlockLen(i, NewLen)
           c == BlockCount(NewLen)
           span == Min({len - signer.filled, signer.avail})
           b == SubSeq(newFile, from + 1, from + span)
           s1 == signer.s1 + Sum(b)
           s2 == signer.s2 + WeightedSum(b, signer.filled)
           full == signer.filled + span = len
           all == signer.strong \o b
           block == [weak |-> [s1 |-> s1 % WeakMod, s2 |-> s2 % WeakMod], strong |-> StrongHash(all)]
<1>1. NewLen \in Nat /\ NewLen = Len(newFile) /\ L \in Nat \ {0} /\ newFile \in Seq(Byte) /\ newFile \in Seq(Nat)
  BY FileFacts DEF FilesOk
<1>2. signer \in SignerState /\ signer.avail > 0 /\ newFile' = newFile
  BY DEF SignInv, SignerSpan
<1>3. /\ signer.consumed \in Nat /\ signer.avail \in Nat /\ signer.filled \in Nat /\ i \in Nat
      /\ signer.consumed <= NewLen /\ signer.avail <= signer.consumed
  BY <1>2 DEF SignInv, SignerState
<1>4. c \in Nat /\ (i < c <=> il < NewLen) /\ i <= c
  BY <1>1, <1>3, BlocksOf DEF SignInv
<1>5. i < c
  <2>1. i = c => from = NewLen
    BY DEF SignInv
  <2>2. from < NewLen
    BY <1>1, <1>2, <1>3
  <2> QED BY <1>3, <1>4, <2>1, <2>2
<1>6. from = il + signer.filled /\ signer.filled < len
  BY <1>5 DEF SignInv
<1>7. il \in Nat /\ len = IF il + L <= NewLen THEN L ELSE NewLen - il
  BY <1>1, <1>3, BlockLenIs
<1>7a. (i + 1) * L = il + L
  BY <1>1, <1>3, BlockLenIs
<1>8. len \in Nat /\ len >= 1 /\ il + len <= NewLen /\ len <= L
  <2> HIDE DEF il, len
  <2> QED BY <1>1, <1>4, <1>5, <1>7
<1>9. /\ span \in Nat /\ span >= 1 /\ span <= signer.avail /\ signer.filled + span <= len
      /\ span = IF len - signer.filled <= signer.avail THEN len - signer.filled ELSE signer.avail
  <2>1. len - signer.filled \in Int /\ signer.avail \in Int
    BY <1>3, <1>8
  <2>2. span = IF len - signer.filled <= signer.avail THEN len - signer.filled ELSE signer.avail
    BY <2>1, TwoOf
  <2> HIDE DEF span, len
  <2> QED BY <1>2, <1>3, <1>6, <1>8, <2>2
<1>9a. /\ from \in Nat /\ from + span <= NewLen /\ signer.filled + span \in Nat
       /\ il + (signer.filled + span) <= NewLen /\ il + signer.filled \in Nat
       /\ il + signer.filled <= NewLen
       /\ from + span = il + (signer.filled + span) /\ from + 1 = il + signer.filled + 1
       /\ signer.avail - span \in Nat /\ signer.avail - span <= signer.consumed
       /\ signer.consumed - (signer.avail - span) = il + (signer.filled + span)
  <2> DEFINE co == signer.consumed
             av == signer.avail
             fl == signer.filled
  <2>1. /\ NewLen \in Nat /\ co \in Nat /\ av \in Nat /\ fl \in Nat /\ av <= co /\ co <= NewLen
        /\ co - av = il + fl /\ il \in Nat /\ len \in Nat /\ il + len <= NewLen
        /\ span \in Nat /\ span <= av /\ fl + span <= len
    BY <1>1, <1>3, <1>6, <1>7, <1>8, <1>9
  <2> HIDE DEF il, len, span, co, av, fl
  <2>2. /\ co - av \in Nat /\ (co - av) + span <= NewLen /\ fl + span \in Nat
        /\ il + (fl + span) <= NewLen /\ il + fl \in Nat /\ il + fl <= NewLen
        /\ (co - av) + span = il + (fl + span) /\ (co - av) + 1 = il + fl + 1
        /\ av - span \in Nat /\ av - span <= co /\ co - (av - span) = il + (fl + span)
    BY <2>1
  <2> QED BY <2>2 DEF co, av, fl
<1>10. /\ signer'.avail = signer.avail - span
       /\ signer'.filled = (IF full THEN 0 ELSE signer.filled + span)
       /\ signer'.s1 = (IF full THEN 0 ELSE s1) /\ signer'.s2 = (IF full THEN 0 ELSE s2)
       /\ signer'.strong = (IF full THEN <<>> ELSE all)
       /\ signer'.blocks = (IF full THEN Append(signer.blocks, block) ELSE signer.blocks)
       /\ signer'.consumed = signer.consumed
       /\ signer' = [consumed |-> signer'.consumed, avail |-> signer'.avail,
                     filled |-> signer'.filled, s1 |-> signer'.s1, s2 |-> signer'.s2,
                     strong |-> signer'.strong, blocks |-> signer'.blocks]
  <2>1. signer' = [signer EXCEPT
              !.avail = @ - span, !.filled = IF full THEN 0 ELSE @ + span,
              !.s1 = IF full THEN 0 ELSE s1, !.s2 = IF full THEN 0 ELSE s2,
              !.strong = IF full THEN <<>> ELSE @ \o b,
              !.blocks = IF ~full THEN @ ELSE Append(@, block)]
    BY <1>1 DEF SignerSpan
  <2>2. signer = [consumed |-> signer.consumed, avail |-> signer.avail,
                  filled |-> signer.filled, s1 |-> signer.s1, s2 |-> signer.s2,
                  strong |-> signer.strong, blocks |-> signer.blocks]
    BY <1>2 DEF SignerState
  <2> HIDE DEF span, full, s1, s2, b, block
  <2>3. signer' = [consumed |-> signer.consumed, avail |-> signer.avail - span,
                  filled |-> IF full THEN 0 ELSE signer.filled + span,
                  s1 |-> IF full THEN 0 ELSE s1, s2 |-> IF full THEN 0 ELSE s2,
                  strong |-> IF full THEN <<>> ELSE all,
                  blocks |-> IF full THEN Append(signer.blocks, block) ELSE signer.blocks]
    BY <2>1, <2>2
  <2> QED BY <2>3
<1>11. signer.strong = Part(i, signer.filled) /\ signer.strong \in Seq(Nat) /\ Len(signer.strong) = signer.filled
  <2>1. il + signer.filled <= NewLen
    BY <1>1, <1>3, <1>6, <1>7, <1>8
  <2> QED BY <1>3, <2>1, PartIs DEF SignInv
<1>12. all = Part(i, signer.filled + span)
  <2> DEFINE m == il + 1
             k == il + signer.filled
             n == il + (signer.filled + span)
  <2>1. m \in 1 .. Len(newFile) + 1 /\ k \in m - 1 .. Len(newFile) /\ n \in k .. Len(newFile)
    <3> HIDE DEF il, len, span
    <3>1. il \in Nat /\ il + signer.filled >= il /\ span >= 0
      BY <1>3, <1>7, <1>9
    <3>2. il + (signer.filled + span) >= il + signer.filled
      BY <1>3, <1>7, <1>9
    <3> QED BY <1>1, <1>9a, <3>1, <3>2
  <2>2. SubSeq(newFile, m, k) \o SubSeq(newFile, k + 1, n) = SubSeq(newFile, m, n)
    <3> HIDE DEF m, k, n
    <3> QED BY <1>1, <2>1, ConcatAdjacentSubSeq
  <2>3. from + 1 = k + 1 /\ from + span = n
    <3> HIDE DEF il, len, span
    <3> QED BY <1>3, <1>6, <1>7, <1>9
  <2>4. signer.strong = SubSeq(newFile, m, k)
    BY <1>11 DEF Part
  <2>5. b = SubSeq(newFile, k + 1, n)
    BY <2>3
  <2>6. Part(i, signer.filled + span) = SubSeq(newFile, m, n)
    BY DEF Part
  <2> HIDE DEF m, k, n, b, span
  <2> QED BY <2>2, <2>4, <2>5, <2>6
<1>13. /\ all \in Seq(Byte) /\ all \in Seq(Nat) /\ Len(all) = signer.filled + span
  <2>1. signer.filled + span \in Nat /\ il + (signer.filled + span) <= NewLen
    BY <1>9a
  <2> HIDE DEF all, span
  <2> QED BY <1>3, <1>12, <2>1, PartIs
<1>14. s1 = Sum(all) /\ s2 = WeightedSum(all, 0)
  <2>1. b \in Seq(Nat)
    <3>1. \A k \in from + 1 .. from + span : newFile[k] \in Nat
      <4>1. from \in Nat /\ from + span <= Len(newFile)
        BY <1>1, <1>9a
      <4>2. \A k \in from + 1 .. from + span : k \in 1 .. Len(newFile)
        <5> HIDE DEF from, span
        <5> QED BY <1>1, <1>9, <4>1
      <4> HIDE DEF from, span
      <4> QED BY <1>1, <4>2, ElementOfSeq
    <3>2. from + 1 \in Int /\ from + span \in Int
      <4> HIDE DEF span
      <4> QED BY <1>3, <1>9
    <3> HIDE DEF from, span
    <3> QED BY <3>1, <3>2, SubSeqProperties
  <2> DEFINE a == signer.strong
  <2>2. a \in Seq(Nat) /\ Len(a) = signer.filled /\ signer.s1 = Sum(a) /\ signer.s2 = WeightedSum(a, 0)
    BY <1>11 DEF SignInv
  <2> HIDE DEF a, b
  <2>3. Sum(a \o b) = Sum(a) + Sum(b) /\ WeightedSum(a \o b, 0) = WeightedSum(a, 0) + WeightedSum(b, 0 + Len(a))
    BY <2>1, <2>2, ConcatSums
  <2>4. 0 + Len(a) = signer.filled
    BY <1>3, <2>2
  <2> QED BY <2>2, <2>3, <2>4 DEF a
<1>15. block = Signature(all)
  BY <1>14 DEF Signature, WeakInit
<1>16. block \in [weak : [s1 : Int, s2 : Int], strong : Seq(Byte)]
  <2>1. WeakMod \in Nat \ {0}
    BY DeltaAssumption
  <2>2. s1 \in Int /\ s2 \in Int
    <3> HIDE DEF all, s1, s2
    <3> QED BY <1>13, <1>14, BlockWeights
  <2> HIDE DEF s1, s2, all
  <2>3. s1 % WeakMod \in Int /\ s2 % WeakMod \in Int
    BY <2>1, <2>2
  <2> QED BY <1>13, <2>3 DEF StrongHash
<1>17. NewLen' = NewLen /\ (\A a, k : Part(a, k)' = Part(a, k)) /\ (\A k : BlockSig(k)' = BlockSig(k))
  <2>1. NewLen' = NewLen /\ (\A a, k : Part(a, k)' = Part(a, k))
    BY <1>2 DEF NewLen, Part
  <2> QED BY <2>1 DEF BlockSig
<1> DEFINE done == signer'.consumed - signer'.avail
<1>18. done = il + (signer.filled + span) /\ signer'.avail \in Nat /\ signer'.avail <= signer.consumed
  <2>1. signer'.avail = signer.avail - span /\ signer'.consumed = signer.consumed
    BY <1>10
  <2> HIDE DEF il, len, span
  <2> QED BY <1>9a, <2>1
<1>19. CASE full
  <2>1. signer'.blocks = Append(signer.blocks, block) /\ signer.blocks \in Seq([weak : [s1 : Int, s2 : Int], strong : Seq(Byte)])
    BY <1>2, <1>10, <1>19 DEF SignerState
  <2>2. /\ Len(signer'.blocks) = i + 1 /\ signer'.blocks[i + 1] = block
        /\ \A k \in 1 .. i : signer'.blocks[k] = signer.blocks[k]
        /\ signer'.blocks \in Seq([weak : [s1 : Int, s2 : Int], strong : Seq(Byte)])
    <3> HIDE DEF block
    <3> QED BY <1>16, <2>1
  <2>3. block = BlockSig(i)
    BY <1>12, <1>15, <1>19 DEF BlockSig
  <2>4. \A k \in 1 .. i + 1 : signer'.blocks[k] = BlockSig(k - 1)
    <3>1. \A k \in 1 .. i : signer.blocks[k] = BlockSig(k - 1)
      BY DEF SignInv
    <3>2. (i + 1) - 1 = i /\ \A k \in 1 .. i + 1 : k \in 1 .. i \/ k = i + 1
      BY <1>3
    <3> HIDE DEF i, block
    <3> QED BY <2>2, <2>3, <3>1, <3>2
  <2>5. /\ signer'.filled = 0 /\ signer'.s1 = 0 /\ signer'.s2 = 0 /\ signer'.strong = <<>>
    BY <1>10, <1>19
  <2>6. signer' \in SignerState
    <3>1. signer'.consumed \in Nat
      BY <1>3, <1>10
    <3>2. signer'.filled \in Nat /\ signer'.s1 \in Int /\ signer'.s2 \in Int /\ signer'.strong \in Seq(Byte)
      BY <2>5
    <3>3. signer' = [consumed |-> signer'.consumed, avail |-> signer'.avail,
                     filled |-> signer'.filled, s1 |-> signer'.s1, s2 |-> signer'.s2,
                     strong |-> signer'.strong, blocks |-> signer'.blocks]
      BY <1>10
    <3> QED BY <1>18, <2>2, <3>1, <3>2, <3>3 DEF SignerState
  <2>7. Part(i + 1, 0) = <<>>
    BY <1>1, <1>7, <1>7a, SubSeqEmpty DEF Part
  <2>8. done = il + len
    BY <1>18, <1>19
  <2>9. i + 1 \in Nat /\ (i + 1 < c <=> (i + 1) * L < NewLen) /\ i + 1 <= c
    <3>1. i + 1 \in Nat /\ i + 1 <= c
      <4> HIDE DEF i, c
      <4> QED BY <1>3, <1>4, <1>5
    <3> QED BY <1>1, <3>1, BlocksOf
  <2>10. i + 1 = c => done = NewLen
    <3> HIDE DEF il, len, c, i, done
    <3> QED BY <1>1, <1>7, <1>7a, <1>8, <2>8, <2>9
  <2>11. i + 1 < c => done = (i + 1) * L + 0 /\ 0 < BlockLen(i + 1, NewLen)
    <3> SUFFICES ASSUME i + 1 < c PROVE done = (i + 1) * L + 0 /\ 0 < BlockLen(i + 1, NewLen)
      OBVIOUS
    <3>1. (i + 1) * L < NewLen
      BY <2>9
    <3>2. BlockLen(i + 1, NewLen) = IF (i + 1) * L + L <= NewLen THEN L ELSE NewLen - (i + 1) * L
      BY <1>1, <2>9, BlockLenIs
    <3> HIDE DEF il, len, c, i, done
    <3> QED BY <1>1, <1>7, <1>7a, <1>8, <2>8, <3>1, <3>2
  <2>12. Sum(<<>>) = 0 /\ WeightedSum(<<>>, 0) = 0
    BY EmptySums
  <2>13. signer'.consumed <= NewLen /\ signer'.avail <= signer'.consumed
    BY <1>3, <1>10, <1>18
  <2> HIDE DEF i, c, block
  <2> QED BY <1>17, <2>2, <2>4, <2>5, <2>6, <2>7, <2>9, <2>10, <2>11, <2>12, <2>13 DEF SignInv, c, i
<1>20. CASE ~full
  <2>1. /\ signer'.blocks = signer.blocks /\ signer'.filled = signer.filled + span
        /\ signer'.s1 = s1 /\ signer'.s2 = s2 /\ signer'.strong = all
    BY <1>10, <1>20
  <2>2. signer'.filled \in Nat /\ signer'.filled < len
    <3>1. signer.filled + span # len /\ signer.filled + span <= len /\ signer.filled + span \in Nat
      BY <1>9, <1>9a, <1>20
    <3> HIDE DEF len, span
    <3> QED BY <1>8, <2>1, <3>1
  <2>3. signer' \in SignerState
    <3>1. signer'.consumed \in Nat /\ signer.blocks \in Seq([weak : [s1 : Int, s2 : Int], strong : Seq(Byte)])
      BY <1>2, <1>3, <1>10 DEF SignerState
    <3>2. s1 \in Int /\ s2 \in Int
      <4> HIDE DEF all, s1, s2
      <4> QED BY <1>13, <1>14, BlockWeights
    <3> HIDE DEF all, s1, s2
    <3> QED BY <1>10, <1>13, <1>18, <2>1, <2>2, <3>1, <3>2 DEF SignerState
  <2>4. signer'.strong = Part(i, signer'.filled) /\ signer'.s1 = Sum(signer'.strong)
        /\ signer'.s2 = WeightedSum(signer'.strong, 0)
    BY <1>12, <1>14, <2>1
  <2>5. signer'.consumed <= NewLen /\ signer'.avail <= signer'.consumed
    BY <1>3, <1>10, <1>18
  <2>6. done = il + signer'.filled
    BY <1>18, <2>1
  <2>7. \A k \in 1 .. i : signer.blocks[k] = BlockSig(k - 1)
    BY DEF SignInv
  <2>8. i # c
    BY <1>3, <1>4, <1>5
  <2> HIDE DEF span, all, s1, s2, b
  <2> QED BY <1>4, <1>5, <1>17, <2>1, <2>2, <2>3, <2>4, <2>5, <2>6, <2>7, <2>8 DEF SignInv
<1> QED BY <1>19, <1>20

\* All blocks are signed once the whole file is fed.
LEMMA FinishSigns ==
  ASSUME FilesOk, SignInv, SignerFinish
  PROVE  sig' = GenerateSignatures(newFile)
<1> DEFINE i == Len(signer.blocks)
           c == BlockCount(NewLen)
<1>1. NewLen \in Nat /\ NewLen = Len(newFile) /\ L \in Nat \ {0}
  BY FileFacts
<1>2. signer \in SignerState /\ signer.avail = 0 /\ signer.consumed = NewLen /\ sig' = signer.blocks
  BY <1>1 DEF SignInv, SignerFinish
<1>3. signer.filled \in Nat /\ i \in Nat /\ DOMAIN signer.blocks = 1 .. i /\ signer.blocks = [k \in 1 .. i |-> signer.blocks[k]]
  BY <1>2 DEF SignerState
<1>4. c \in Nat /\ i <= c /\ (i < c <=> i * L < NewLen)
  BY <1>1, <1>3, BlocksOf DEF SignInv
<1>5. i = c
  <2> SUFFICES ASSUME i < c PROVE FALSE
    BY <1>3, <1>4
  <2>1. NewLen = i * L + signer.filled /\ signer.filled < BlockLen(i, NewLen)
    BY <1>1, <1>2 DEF SignInv
  <2>2. i * L \in Nat /\ BlockLen(i, NewLen) = IF i * L + L <= NewLen THEN L ELSE NewLen - i * L
    BY <1>1, <1>3, BlockLenIs
  <2> DEFINE iL == i * L
  <2>3. /\ NewLen = iL + signer.filled /\ signer.filled < BlockLen(i, NewLen) /\ iL \in Nat
        /\ BlockLen(i, NewLen) = IF iL + L <= NewLen THEN L ELSE NewLen - iL
    BY <2>1, <2>2
  <2> HIDE DEF iL
  <2> QED BY <1>1, <1>3, <2>3
<1>6. \A k \in 1 .. c : signer.blocks[k] = BlockSig(k - 1)
  BY <1>5 DEF SignInv
<1>7. GenerateSignatures(newFile) = [k \in 1 .. c |-> BlockSig(k - 1)]
  BY <1>1 DEF GenerateSignatures, BlockSig, Signature, Part
<1> HIDE DEF c, i
<1>8. signer.blocks = [k \in 1 .. c |-> BlockSig(k - 1)]
  BY <1>3, <1>5, <1>6
<1> QED BY <1>2, <1>7, <1>8

-----------------------------------------------------------------------------
(* The window.                                                             *)

OldLen == Len(oldFile)
OldAt(p) == SubSeq(oldFile, p + 1, p + L)

\* The window holds bytes of the old file, from physBase on.
Faithful(v) ==
  /\ v = [buf |-> v.buf, physBase |-> v.physBase, readErr |-> FALSE]
  /\ v.buf \in Seq(Byte) /\ v.physBase \in Nat
  /\ v.physBase + Len(v.buf) <= OldLen
  /\ \A j \in 1 .. Len(v.buf) : v.buf[j] = oldFile[v.physBase + j]

\* Dropping a prefix keeps the rest, and what is kept below p is less than a chunk.
LEMMA AdvanceKeeps ==
  ASSUME FilesOk, NEW v, Faithful(v), NEW p \in Nat, p <= v.physBase + Len(v.buf)
  PROVE  LET u == Advance(v, p)
         IN  /\ Faithful(u) /\ u.physBase + Len(u.buf) = v.physBase + Len(v.buf)
             /\ (v.physBase <= p => u.physBase <= p) /\ p - u.physBase < Chunk
             /\ Len(u.buf) <= Len(v.buf)
<1> DEFINE d == p - v.physBase
           n == Len(v.buf)
           cut == SubSeq(v.buf, d + 1, n)
           u == Advance(v, p)
<1>0. Chunk \in Nat \ {0} /\ OldLen \in Nat
  BY DeltaAssumption, FileFacts DEF OldLen
<1>1. v.buf \in Seq(Byte) /\ v.physBase \in Nat /\ n \in Nat /\ v.readErr = FALSE
  BY DEF Faithful
<1>2. CASE p <= v.physBase \/ d < Chunk
  BY <1>0, <1>1, <1>2 DEF Advance
<1>3. CASE ~(p <= v.physBase \/ d < Chunk)
  <2>1. d \in Nat /\ d <= n /\ v.physBase + d = p
    BY <1>1, <1>3
  <2>2. u = [v EXCEPT !.buf = cut, !.physBase = p]
    BY <1>3 DEF Advance
  <2>3. u.buf = cut /\ u.physBase = p /\ u.readErr = FALSE
        /\ u = [buf |-> cut, physBase |-> p, readErr |-> FALSE]
    BY <1>1, <2>2 DEF Faithful
  <2>4. \A k \in d + 1 .. n : v.buf[k] \in Byte
    <3> HIDE DEF d
    <3> QED BY <1>1, <2>1
  <2>5. /\ cut \in Seq(Byte) /\ Len(cut) = IF d + 1 <= n THEN n - (d + 1) + 1 ELSE 0
        /\ \A k \in 1 .. n - (d + 1) + 1 : cut[k] = v.buf[d + 1 + k - 1]
    <3>1. d + 1 \in Int /\ n \in Int
      BY <1>1, <2>1
    <3> HIDE DEF d, n
    <3> QED BY <2>4, <3>1, SubSeqProperties, SMTT(30)
  <2>6. Len(cut) = n - d
    <3> HIDE DEF d, n, cut
    <3> QED BY <1>1, <2>1, <2>5
  <2>7. ASSUME NEW k \in 1 .. Len(cut) PROVE cut[k] = oldFile[p + k]
    <3>1. k \in 1 .. n - (d + 1) + 1 /\ d + 1 + k - 1 = d + k /\ d + k \in 1 .. n
          /\ v.physBase + (d + k) = p + k
      <4> HIDE DEF d, n, cut
      <4> QED BY <1>1, <2>1, <2>6
    <3>2. cut[k] = v.buf[d + k]
      <4> HIDE DEF d, n, cut
      <4> QED BY <2>5, <3>1
    <3>3. v.buf[d + k] = oldFile[v.physBase + (d + k)]
      <4> HIDE DEF d
      <4> QED BY <3>1 DEF Faithful
    <3> QED BY <3>1, <3>2, <3>3
  <2>8. p + Len(cut) = v.physBase + n /\ v.physBase + n <= OldLen /\ n - d <= n
    <3>1. v.physBase + n <= OldLen
      BY DEF Faithful
    <3> HIDE DEF d, n, cut
    <3> QED BY <1>1, <2>1, <2>6, <3>1
  <2> HIDE DEF d, n, cut, u
  <2>9. Faithful(u)
    BY <2>3, <2>5, <2>7, <2>8 DEF Faithful
  <2> QED BY <1>0, <2>3, <2>6, <2>8, <2>9 DEF n, u
<1> QED BY <1>2, <1>3

\* Loading without an error appends bytes of the file, a chunk more than asked at most.
LEMMA LoadKeeps ==
  ASSUME FilesOk, NEW v, Faithful(v), NEW end \in Nat, end <= OldLen,
         NEW u \in LoadTo(v, end), u.readErr = FALSE
  PROVE  /\ Faithful(u) /\ u.physBase = v.physBase /\ end <= u.physBase + Len(u.buf)
         /\ Len(u.buf) <= Len(v.buf) \/ u.physBase + Len(u.buf) <= end + Chunk - 1
         /\ v.physBase + Len(v.buf) <= u.physBase + Len(u.buf)
<1> DEFINE n == Len(v.buf)
           have == v.physBase + n
<1>0. Chunk \in Nat \ {0} /\ OldLen \in Nat /\ OldLen = Len(oldFile) /\ oldFile \in Seq(Byte)
  BY DeltaAssumption, FileFacts DEF OldLen, FilesOk
<1>1. v.buf \in Seq(Byte) /\ v.physBase \in Nat /\ n \in Nat /\ v.readErr = FALSE /\ have <= OldLen
  BY DEF Faithful
<1>2. CASE have >= end
  <2>1. u = v
    BY <1>2 DEF LoadTo
  <2> QED BY <1>1, <1>2, <2>1
<1>3. CASE ~(have >= end)
  <2>0. Len(oldFile) \in Int /\ end + Chunk - 1 \in Int
    BY <1>0
  <2>1. Min({Len(oldFile), end + Chunk - 1})
          = IF Len(oldFile) <= end + Chunk - 1 THEN Len(oldFile) ELSE end + Chunk - 1
    BY <2>0, TwoOf
  <2>2. \E e \in end .. Min({Len(oldFile), end + Chunk - 1}) :
           u = [v EXCEPT !.buf = @ \o SubSeq(oldFile, have + 1, e), !.readErr = FALSE]
    <3>1. \/ \E e \in end .. Min({Len(oldFile), end + Chunk - 1}) :
               u = [v EXCEPT !.buf = @ \o SubSeq(oldFile, have + 1, e), !.readErr = FALSE]
          \/ \E e \in have .. end - 1 :
               u = [v EXCEPT !.buf = @ \o SubSeq(oldFile, have + 1, e), !.readErr = TRUE]
      BY <1>1, <1>3 DEF LoadTo
    <3>2. \A e : [v EXCEPT !.buf = @ \o SubSeq(oldFile, have + 1, e), !.readErr = TRUE].readErr = TRUE
      BY <1>1 DEF Faithful
    <3> QED BY <3>1, <3>2
  <2>3. PICK e \in end .. Min({Len(oldFile), end + Chunk - 1}) :
           u = [v EXCEPT !.buf = @ \o SubSeq(oldFile, have + 1, e), !.readErr = FALSE]
    BY <2>2
  <2> DEFINE c == SubSeq(oldFile, have + 1, e)
             b == v.buf \o c
  <2>4. e \in Nat /\ end <= e /\ e <= OldLen /\ e <= end + Chunk - 1
    BY <1>0, <2>1, <2>3
  <2>5. u = [buf |-> b, physBase |-> v.physBase, readErr |-> FALSE] /\ u.buf = b /\ u.physBase = v.physBase
    BY <2>3 DEF Faithful
  <2>6. \A k \in have + 1 .. e : oldFile[k] \in Byte
    <3> HIDE DEF have
    <3>1. have \in Nat
      BY <1>1 DEF have
    <3> QED BY <1>0, <2>4, <3>1
  <2>7. /\ c \in Seq(Byte) /\ Len(c) = IF have + 1 <= e THEN e - (have + 1) + 1 ELSE 0
        /\ \A k \in 1 .. e - (have + 1) + 1 : c[k] = oldFile[have + 1 + k - 1]
    <3>1. have + 1 \in Int
      BY <1>1
    <3> HIDE DEF have
    <3> QED BY <2>4, <2>6, <3>1, SubSeqProperties
  <2> HIDE DEF c
  <2>8. have \in Nat /\ have < end
    BY <1>1, <1>3
  <2>9. Len(c) = e - have
    <3> HIDE DEF have
    <3> QED BY <2>4, <2>7, <2>8
  <2>10. /\ b \in Seq(Byte) /\ Len(b) = n + (e - have)
         /\ \A k \in 1 .. n + (e - have) : b[k] = IF k <= n THEN v.buf[k] ELSE c[k - n]
    <3> HIDE DEF have
    <3>1. /\ b \in Seq(Byte) /\ Len(b) = n + Len(c)
          /\ \A k \in 1 .. n + Len(c) : b[k] = IF k <= n THEN v.buf[k] ELSE c[k - n]
      BY <1>1, <2>7, ConcatProperties
    <3> QED BY <2>9, <3>1
  <2>11. v.physBase + Len(b) = e
    <3> HIDE DEF b, n
    <3> QED BY <1>1, <2>4, <2>10
  <2>12. ASSUME NEW k \in 1 .. Len(b) PROVE b[k] = oldFile[v.physBase + k]
    <3>0. k \in 1 .. n + (e - have)
      <4> HIDE DEF have, n, b
      <4> QED BY <2>10
    <3>1. CASE k <= n
      <4>1. k \in 1 .. n
        BY <1>1, <3>1
      <4>2. v.buf[k] = oldFile[v.physBase + k]
        BY <4>1 DEF Faithful
      <4> HIDE DEF b, n, have
      <4> QED BY <2>10, <3>0, <3>1, <4>2
    <3>2. CASE ~(k <= n)
      <4>1. k - n \in 1 .. e - (have + 1) + 1 /\ have + 1 + (k - n) - 1 = v.physBase + k
        <5>1. have = v.physBase + n
          OBVIOUS
        <5> HIDE DEF have, n, b
        <5>2. n \in Nat /\ v.physBase \in Nat
          BY <1>1
        <5> DEFINE base == v.physBase
        <5>3. n \in Nat /\ base \in Nat /\ have = base + n
          BY <5>1, <5>2
        <5> HIDE DEF base
        <5>4. k \in Nat /\ k <= n + (e - have) /\ k > n /\ e \in Nat
          BY <2>4, <2>8, <3>0, <3>2, <5>3
        <5>5. k - n \in 1 .. e - (have + 1) + 1
          BY <2>8, <5>3, <5>4
        <5>6. have + 1 + (k - n) - 1 = base + k
          BY <5>3, <5>4
        <5> QED BY <5>5, <5>6 DEF base
      <4>2. c[k - n] = oldFile[have + 1 + (k - n) - 1]
        <5> DEFINE q == k - n
        <5> HIDE DEF have, q
        <5>1. q \in 1 .. e - (have + 1) + 1
          BY <4>1 DEF q
        <5>2. c[q] = oldFile[have + 1 + q - 1]
          BY <2>7, <5>1
        <5> QED BY <5>2 DEF q
      <4>3. b[k] = c[k - n]
        <5> HIDE DEF b, n, have
        <5> QED BY <2>10, <3>0, <3>2
      <4> HIDE DEF b, n, have
      <4> QED BY <4>1, <4>2, <4>3
    <3> QED BY <3>1, <3>2
  <2> HIDE DEF b, have
  <2>13. Faithful(u)
    BY <1>0, <1>1, <2>4, <2>5, <2>10, <2>11, <2>12 DEF Faithful
  <2>14. end <= u.physBase + Len(u.buf) /\ u.physBase + Len(u.buf) <= end + Chunk - 1
         /\ have <= u.physBase + Len(u.buf)
    BY <2>4, <2>5, <2>8, <2>11
  <2> QED BY <2>5, <2>13, <2>14 DEF have, n
<1> QED BY <1>2, <1>3

\* A byte of the window is the byte of the file.
LEMMA ByteAtIs ==
  ASSUME FilesOk, NEW v, Faithful(v), NEW o \in Nat,
         v.physBase <= o, o < v.physBase + Len(v.buf)
  PROVE  ByteAt(v, o) = oldFile[o + 1]
<1>1. v.physBase \in Nat /\ Len(v.buf) \in Nat
  BY DEF Faithful
<1> DEFINE k == o - v.physBase + 1
<1>2. k \in 1 .. Len(v.buf) /\ v.physBase + k = o + 1 /\ o - v.physBase < Len(v.buf)
  BY <1>1
<1>3. v.buf[k] = oldFile[v.physBase + k]
  <2> HIDE DEF k
  <2> QED BY <1>2 DEF Faithful
<1>4. ByteAt(v, o) = v.buf[k]
  BY <1>2 DEF ByteAt
<1> HIDE DEF k
<1> QED BY <1>2, <1>3, <1>4

\* A full window is a stretch of the file.
LEMMA WindowIs ==
  ASSUME FilesOk, NEW v, Faithful(v), NEW p \in Nat,
         v.physBase <= p, p + L <= v.physBase + Len(v.buf)
  PROVE  /\ Window(v, p) = OldAt(p) /\ OldAt(p) \in Seq(Byte) /\ Len(OldAt(p)) = L
         /\ \A j \in 1 .. L : OldAt(p)[j] = oldFile[p + j]
<1>1. /\ v.physBase \in Nat /\ Len(v.buf) \in Nat /\ L \in Nat \ {0} /\ p + L <= OldLen
      /\ OldLen \in Nat /\ OldLen = Len(oldFile) /\ oldFile \in Seq(Byte)
  BY FileFacts DEF Faithful, OldLen, FilesOk
<1>2. ASSUME NEW j \in 1 .. L
      PROVE  Window(v, p)[j] = oldFile[p + j] /\ oldFile[p + j] \in Byte
  <2> DEFINE o == p + j - 1
  <2>1. o \in Nat /\ v.physBase <= o /\ o < v.physBase + Len(v.buf) /\ o + 1 = p + j
        /\ p + j \in 1 .. Len(oldFile)
    BY <1>1
  <2>2. Window(v, p)[j] = ByteAt(v, o)
    BY DEF Window
  <2>3. ByteAt(v, o) = oldFile[o + 1]
    <3> HIDE DEF o
    <3> QED BY <2>1, ByteAtIs
  <2> HIDE DEF o
  <2>4. oldFile[p + j] \in Byte
    BY <1>1, <2>1, ElementOfSeq
  <2> QED BY <2>1, <2>2, <2>3, <2>4
<1>3. \A k \in p + 1 .. p + L : oldFile[k] \in Byte
  BY <1>1
<1>4. /\ OldAt(p) \in Seq(Byte) /\ Len(OldAt(p)) = IF p + 1 <= p + L THEN (p + L) - (p + 1) + 1 ELSE 0
      /\ \A k \in 1 .. (p + L) - (p + 1) + 1 : OldAt(p)[k] = oldFile[p + 1 + k - 1]
  BY <1>1, <1>3, SubSeqProperties DEF OldAt
<1>5. Len(OldAt(p)) = L /\ (p + L) - (p + 1) + 1 = L /\ \A k \in 1 .. L : p + 1 + k - 1 = p + k
  BY <1>1, <1>4
<1>6. \A k \in 1 .. L : OldAt(p)[k] = oldFile[p + k]
  BY <1>4, <1>5
<1>7. Window(v, p) = [j \in 1 .. L |-> ByteAt(v, p + j - 1)]
  BY DEF Window
<1>8. OldAt(p) = [j \in 1 .. L |-> OldAt(p)[j]]
  BY <1>4, <1>5
<1>9. Window(v, p) = OldAt(p)
  <2>1. Window(v, p) = [j \in 1 .. L |-> Window(v, p)[j]]
    BY <1>7
  <2>2. \A j \in 1 .. L : Window(v, p)[j] = OldAt(p)[j]
    BY <1>2, <1>6
  <2> HIDE <1>7
  <2> QED BY <1>8, <2>1, <2>2
<1> QED BY <1>4, <1>5, <1>6, <1>9

-----------------------------------------------------------------------------
(* The scans of BuildPlan and of the reference, one iteration at a time.   *)

PlanStart ==
  LET none == NewLen = 0 \/ OldLen < L
  IN  [p |-> 0, w |-> WeakInit(IF none THEN <<>> ELSE OldAt(0)),
       src |-> [i \in FullBlocks |-> -1], matchedBytes |-> 0,
       nextEval |-> EarlyStopPrefixBytes(OldLen), early |-> FALSE, done |-> none]

PlanIterate(s) ==
  LET i == Match(s.src, s.w, OldAt(s.p))
      p == s.p + L
      hit == [s EXCEPT !.p = p, !.src[i] = s.p, !.matchedBytes = @ + L]
  IN  IF s.done \/ s.early THEN s ELSE
      CASE i # NoBlock /\ p + L > OldLen -> [hit EXCEPT !.done = TRUE]
        [] i # NoBlock /\ p + L <= OldLen -> Evaluated([hit EXCEPT !.w = WeakInit(OldAt(p))])
        [] i = NoBlock /\ p >= OldLen -> [s EXCEPT !.done = TRUE]
        [] OTHER -> Evaluated([s EXCEPT !.p = @ + 1,
                        !.w = WeakRoll(s.w, oldFile[s.p + 1], oldFile[p + 1])])

PlanRun(st) ==
  st = [n \in 0 .. OldLen + 1 |-> IF n = 0 THEN PlanStart ELSE PlanIterate(st[n - 1])]
PlanStates == CHOOSE st : PlanRun(st)

RefStart == [p |-> 0, src |-> [i \in FullBlocks |-> -1]]

\* The unmatched blocks that are equal to the old file at p.
Equal(src, p) ==
  {i \in FullBlocks : src[i] = -1 /\ SubSeq(newFile, i * L + 1, (i + 1) * L) = OldAt(p)}

RefIterate(q) ==
  LET c == Equal(q.src, q.p)
  IN  IF q.p + L > OldLen THEN q
      ELSE IF c = {} THEN [q EXCEPT !.p = @ + 1]
      ELSE [p |-> q.p + L, src |-> [q.src EXCEPT ![Max(c)] = q.p]]

RefRun(st) ==
  st = [n \in 0 .. OldLen |-> IF n = 0 THEN RefStart ELSE RefIterate(st[n - 1])]
RefStates == CHOOSE st : RefRun(st)

\* BuildPlan is the plan of the last state of its scan.
LEMMA PlanIs == BuildPlan = PlanOf(PlanStates[OldLen + 1])
  BY DEF BuildPlan, PlanStates, PlanRun, PlanStart, PlanIterate, OldLen, OldAt

\* Reference lists the matches after each iteration.
LEMMA ReferenceIs == Reference = [n \in 0 .. OldLen |-> RefStates[n].src]
  BY DEF Reference, RefStates, RefRun, RefStart, RefIterate, Equal, OldLen, OldAt

\* The recursion of BuildPlan has a solution ...
LEMMA PlanRunExists ==
  ASSUME FilesOk
  PROVE  \E st : PlanRun(st)
<1> DEFINE m == OldLen + 1
           Good(k, g) == g = [n \in 0 .. k |-> IF n = 0 THEN PlanStart ELSE PlanIterate(g[n - 1])]
           P == {k \in 0 .. m : \E g : Good(k, g)}
<1>0. m \in Nat
  BY FileFacts DEF OldLen
<1> HIDE DEF m
<1>1. 0 \in P
  <2> DEFINE g == [n \in 0 .. 0 |-> PlanStart]
  <2>1. Good(0, g)
    OBVIOUS
  <2> HIDE DEF Good, g
  <2> QED BY <1>0, <2>1
<1>2. ASSUME NEW k \in 1 .. m, k - 1 \in P
      PROVE  k \in P
  <2>1. PICK g : Good(k - 1, g)
    BY <1>2
  <2> DEFINE h == [n \in 0 .. k |-> IF n = k THEN PlanIterate(g[k - 1]) ELSE g[n]]
  <2>2. \A n \in 0 .. k - 1 : g[n] = IF n = 0 THEN PlanStart ELSE PlanIterate(g[n - 1])
    BY <2>1
  <2>3. \A n \in 0 .. k : n # k => n \in 0 .. k - 1
    BY <1>0
  <2>4. \A n \in 0 .. k : n # 0 => n - 1 \in 0 .. k - 1 /\ n - 1 # k /\ n - 1 \in 0 .. k
    BY <1>0
  <2>5. \A n \in 0 .. k : h[n] = IF n = 0 THEN PlanStart ELSE PlanIterate(h[n - 1])
    <3>1. ASSUME NEW n \in 0 .. k
          PROVE  h[n] = IF n = 0 THEN PlanStart ELSE PlanIterate(h[n - 1])
      <4>1. CASE n = 0
        <5>1. n # k
          BY <1>0, <4>1
        <5> QED BY <2>2, <2>3, <4>1, <5>1
      <4>2. CASE n # 0
        <5>1. h[n - 1] = g[n - 1]
          BY <2>4, <4>2
        <5>2. CASE n = k
          BY <4>2, <5>1, <5>2
        <5>3. CASE n # k
          BY <2>2, <2>3, <4>2, <5>1, <5>3
        <5> QED BY <5>2, <5>3
      <4> QED BY <4>1, <4>2
    <3> QED BY <3>1
  <2>6. Good(k, h)
    BY <2>5
  <2> HIDE DEF Good, h
  <2> QED BY <1>0, <2>6
<1>3. m \in P
  <2> HIDE DEF P
  <2> QED BY <1>0, <1>1, <1>2, CountTo
<1>4. \E g : PlanRun(g)
  BY <1>3 DEF PlanRun, m
<1> QED BY <1>4

\* ... which starts at the start and iterates ...
LEMMA PlanRunAt ==
  ASSUME FilesOk, NEW st, PlanRun(st)
  PROVE  /\ OldLen + 1 \in Nat /\ st[0] = PlanStart
         /\ \A n \in 1 .. OldLen + 1 : st[n] = PlanIterate(st[n - 1])
<1> DEFINE m == OldLen + 1
<1>1. m \in Nat
  BY FileFacts DEF OldLen
<1>2. st = [n \in 0 .. m |-> IF n = 0 THEN PlanStart ELSE PlanIterate(st[n - 1])]
  BY DEF PlanRun
<1> HIDE DEF m
<1>3. \A n \in 0 .. m : st[n] = IF n = 0 THEN PlanStart ELSE PlanIterate(st[n - 1])
  BY <1>2
<1>4. 0 \in 0 .. m /\ \A n \in 1 .. m : n \in 0 .. m /\ n # 0
  BY <1>1
<1>5. st[0] = PlanStart /\ \A n \in 1 .. m : st[n] = PlanIterate(st[n - 1])
  BY <1>3, <1>4
<1> QED BY <1>1, <1>5 DEF m

\* ... and is the function BuildPlan defines.
LEMMA PlanRunIs ==
  ASSUME FilesOk, NEW st, PlanRun(st)
  PROVE  \A n \in 0 .. OldLen + 1 : PlanStates[n] = st[n]
<1>1. PlanRun(PlanStates)
  BY DEF PlanStates
<1> DEFINE m == OldLen + 1
           P == {n \in 0 .. m : PlanStates[n] = st[n]}
<1>2. m \in Nat /\ st[0] = PlanStart /\ \A n \in 1 .. m : st[n] = PlanIterate(st[n - 1])
  BY PlanRunAt
<1>3. PlanStates[0] = PlanStart /\ \A n \in 1 .. m : PlanStates[n] = PlanIterate(PlanStates[n - 1])
  BY <1>1, PlanRunAt
<1> HIDE DEF m
<1>4. 0 \in P
  BY <1>2, <1>3
<1>5. \A n \in 1 .. m : n - 1 \in P => n \in P
  BY <1>2, <1>3
<1> HIDE DEF P
<1>6. \A n \in 0 .. m : n \in P
  BY <1>2, <1>4, <1>5, CountTo
<1> QED BY <1>6 DEF P, m

\* The recursion of the reference has a solution ...
LEMMA RefRunExists ==
  ASSUME FilesOk
  PROVE  \E st : RefRun(st)
<1> DEFINE m == OldLen
           Good(k, g) == g = [n \in 0 .. k |-> IF n = 0 THEN RefStart ELSE RefIterate(g[n - 1])]
           P == {k \in 0 .. m : \E g : Good(k, g)}
<1>0. m \in Nat
  BY FileFacts DEF OldLen
<1> HIDE DEF m
<1>1. 0 \in P
  <2> DEFINE g == [n \in 0 .. 0 |-> RefStart]
  <2>1. Good(0, g)
    OBVIOUS
  <2> HIDE DEF Good, g
  <2> QED BY <1>0, <2>1
<1>2. ASSUME NEW k \in 1 .. m, k - 1 \in P
      PROVE  k \in P
  <2>1. PICK g : Good(k - 1, g)
    BY <1>2
  <2> DEFINE h == [n \in 0 .. k |-> IF n = k THEN RefIterate(g[k - 1]) ELSE g[n]]
  <2>2. \A n \in 0 .. k - 1 : g[n] = IF n = 0 THEN RefStart ELSE RefIterate(g[n - 1])
    BY <2>1
  <2>3. \A n \in 0 .. k : n # k => n \in 0 .. k - 1
    BY <1>0
  <2>4. \A n \in 0 .. k : n # 0 => n - 1 \in 0 .. k - 1 /\ n - 1 # k /\ n - 1 \in 0 .. k
    BY <1>0
  <2>5. \A n \in 0 .. k : h[n] = IF n = 0 THEN RefStart ELSE RefIterate(h[n - 1])
    <3>1. ASSUME NEW n \in 0 .. k
          PROVE  h[n] = IF n = 0 THEN RefStart ELSE RefIterate(h[n - 1])
      <4>1. CASE n = 0
        <5>1. n # k
          BY <1>0, <4>1
        <5> QED BY <2>2, <2>3, <4>1, <5>1
      <4>2. CASE n # 0
        <5>1. h[n - 1] = g[n - 1]
          BY <2>4, <4>2
        <5>2. CASE n = k
          BY <4>2, <5>1, <5>2
        <5>3. CASE n # k
          BY <2>2, <2>3, <4>2, <5>1, <5>3
        <5> QED BY <5>2, <5>3
      <4> QED BY <4>1, <4>2
    <3> QED BY <3>1
  <2>6. Good(k, h)
    BY <2>5
  <2> HIDE DEF Good, h
  <2> QED BY <1>0, <2>6
<1>3. m \in P
  <2> HIDE DEF P
  <2> QED BY <1>0, <1>1, <1>2, CountTo
<1>4. \E g : RefRun(g)
  BY <1>3 DEF RefRun, m
<1> QED BY <1>4

\* ... which starts at the start and iterates ...
LEMMA RefRunAt ==
  ASSUME FilesOk, NEW st, RefRun(st)
  PROVE  /\ OldLen \in Nat /\ st[0] = RefStart
         /\ \A n \in 1 .. OldLen : st[n] = RefIterate(st[n - 1])
<1> DEFINE m == OldLen
<1>1. m \in Nat
  BY FileFacts DEF OldLen
<1>2. st = [n \in 0 .. m |-> IF n = 0 THEN RefStart ELSE RefIterate(st[n - 1])]
  BY DEF RefRun
<1> HIDE DEF m
<1>3. \A n \in 0 .. m : st[n] = IF n = 0 THEN RefStart ELSE RefIterate(st[n - 1])
  BY <1>2
<1>4. 0 \in 0 .. m /\ \A n \in 1 .. m : n \in 0 .. m /\ n # 0
  BY <1>1
<1>5. st[0] = RefStart /\ \A n \in 1 .. m : st[n] = RefIterate(st[n - 1])
  BY <1>3, <1>4
<1> QED BY <1>1, <1>5 DEF m

\* ... and is the function the reference defines.
LEMMA RefRunIs ==
  ASSUME FilesOk, NEW st, RefRun(st)
  PROVE  \A n \in 0 .. OldLen : RefStates[n] = st[n]
<1>1. RefRun(RefStates)
  BY DEF RefStates
<1> DEFINE m == OldLen
           P == {n \in 0 .. m : RefStates[n] = st[n]}
<1>2. m \in Nat /\ st[0] = RefStart /\ \A n \in 1 .. m : st[n] = RefIterate(st[n - 1])
  BY RefRunAt
<1>3. RefStates[0] = RefStart /\ \A n \in 1 .. m : RefStates[n] = RefIterate(RefStates[n - 1])
  BY <1>1, RefRunAt
<1> HIDE DEF m
<1>4. 0 \in P
  BY <1>2, <1>3
<1>5. \A n \in 1 .. m : n - 1 \in P => n \in P
  BY <1>2, <1>3
<1> HIDE DEF P
<1>6. \A n \in 0 .. m : n \in P
  BY <1>2, <1>4, <1>5, CountTo
<1> QED BY <1>6 DEF P, m

-----------------------------------------------------------------------------
(* Matches.                                                                *)

\* A bounded set of naturals has a greatest element.
LEMMA GreatestNat ==
  ASSUME NEW n \in Nat, NEW S, S \subseteq 0 .. n, S # {}
  PROVE  Max(S) \in S /\ \A y \in S : y <= Max(S)
<1> DEFINE T == {n - x : x \in S}
<1>0. \A x \in S : x \in 0 .. n /\ n - x \in Nat
  OBVIOUS
<1>1. T \subseteq Nat /\ T # {}
  BY <1>0
<1> HIDE DEF T
<1>2. Min(T) \in T /\ \A y \in T : Min(T) <= y
  BY <1>1, LeastNat
<1> USE DEF T
<1>3. PICK x \in S : n - x = Min(T)
  BY <1>2
<1>4. \A y \in S : n - x <= n - y
  BY <1>2, <1>3
<1>5. \A y \in S : x >= y
  BY <1>0, <1>4
<1>6. \E z \in S : \A y \in S : z >= y
  BY <1>5
<1>7. Max(S) \in S /\ \A y \in S : Max(S) >= y
  BY <1>6 DEF Max
<1> QED BY <1>0, <1>7

\* The full blocks are the ones that end within the file.
LEMMA FullBlocksAre ==
  ASSUME FilesOk
  PROVE  /\ FullBlocks \subseteq 0 .. BlockCount(NewLen) /\ BlockCount(NewLen) \in Nat
         /\ \A i \in FullBlocks : /\ i \in Nat /\ i * L \in Nat /\ i * L + L <= NewLen
                                  /\ (i + 1) * L = i * L + L /\ i < BlockCount(NewLen)
                                  /\ BlockLen(i, NewLen) = L
         /\ \A i \in Nat : i * L + L <= NewLen => i \in FullBlocks
<1>1. NewLen \in Nat /\ L \in Nat \ {0}
  BY FileFacts
<1> DEFINE c == BlockCount(NewLen)
<1>2. c \in Nat /\ \A i \in Nat : i < c <=> i * L < NewLen
  BY <1>1, BlocksOf
<1> HIDE DEF c
<1>3. ASSUME NEW i \in FullBlocks
      PROVE  /\ i \in Nat /\ i * L \in Nat /\ i * L + L <= NewLen
             /\ (i + 1) * L = i * L + L /\ i < c /\ BlockLen(i, NewLen) = L
  <2>1. i \in Nat /\ i < c /\ BlockLen(i, NewLen) = L
    BY <1>2, <1>3 DEF FullBlocks, c
  <2>2. /\ i * L \in Nat /\ (i + 1) * L = i * L + L
        /\ BlockLen(i, NewLen) = IF i * L + L <= NewLen THEN L ELSE NewLen - i * L
    BY <1>1, <2>1, BlockLenIs
  <2> DEFINE il == i * L
  <2>3. il \in Nat /\ L = IF il + L <= NewLen THEN L ELSE NewLen - il
    BY <2>1, <2>2
  <2> HIDE DEF il
  <2>4. il + L <= NewLen
    BY <1>1, <2>3
  <2> QED BY <2>1, <2>2, <2>4 DEF il
<1>4. ASSUME NEW i \in Nat, i * L + L <= NewLen
      PROVE  i \in FullBlocks
  <2>1. /\ i * L \in Nat /\ BlockLen(i, NewLen) = L
    BY <1>1, <1>4, BlockLenIs
  <2>2. i * L < NewLen
    BY <1>1, <1>4, <2>1
  <2>3. i \in 0 .. c - 1
    BY <1>2, <2>2
  <2> QED BY <2>1, <2>3 DEF FullBlocks, c
<1>5. FullBlocks \subseteq 0 .. c
  BY <1>2, <1>3
<1> QED BY <1>2, <1>3, <1>4, <1>5 DEF c

SigOk == sig = GenerateSignatures(newFile)

\* With a right checksum, Match finds the highest unmatched block equal to the window.
LEMMA MatchIs ==
  ASSUME FilesOk, SigOk, NEW src, NEW p
  PROVE  /\ Match(src, WeakInit(OldAt(p)), OldAt(p))
              = IF Equal(src, p) = {} THEN NoBlock ELSE Max(Equal(src, p))
         /\ Equal(src, p) # {} => /\ Max(Equal(src, p)) \in Equal(src, p)
                                  /\ Max(Equal(src, p)) \in FullBlocks
                                  /\ Max(Equal(src, p)) # NoBlock
<1> DEFINE c == Equal(src, p)
           b == OldAt(p)
           e == {i \in Candidates(src, WeakInit(b)) : sig[i + 1].strong = StrongHash(b)}
<1>1. ASSUME NEW i \in FullBlocks
      PROVE  /\ sig[i + 1] = Signature(SubSeq(newFile, i * L + 1, (i + 1) * L))
             /\ sig[i + 1].weak = WeakInit(SubSeq(newFile, i * L + 1, (i + 1) * L))
             /\ sig[i + 1].strong = SubSeq(newFile, i * L + 1, (i + 1) * L)
  <2>1. i \in Nat /\ i < BlockCount(NewLen) /\ BlockCount(NewLen) \in Nat /\ (i + 1) * L = i * L + L
        /\ BlockLen(i, NewLen) = L /\ NewLen = Len(newFile)
    BY <1>1, FullBlocksAre, FileFacts
  <2>2. i + 1 \in 1 .. BlockCount(Len(newFile)) /\ (i + 1) - 1 = i
    BY <2>1
  <2>3. sig[i + 1] = Signature(SubSeq(newFile, i * L + 1, i * L + BlockLen(i, Len(newFile))))
    BY <2>2 DEF SigOk, GenerateSignatures, Signature
  <2>4. sig[i + 1] = Signature(SubSeq(newFile, i * L + 1, (i + 1) * L))
    BY <2>1, <2>3
  <2>5. \A x : Signature(x).weak = WeakInit(x) /\ Signature(x).strong = x
    BY DEF Signature, StrongHash
  <2> QED BY <2>4, <2>5
<1>2. e = c
  <2>1. \A i \in FullBlocks : i \in e <=> i \in c
    BY <1>1 DEF Candidates, Equal, StrongHash
  <2>2. e \subseteq FullBlocks /\ c \subseteq FullBlocks
    BY DEF Candidates, Equal
  <2> QED BY <2>1, <2>2
<1>3. Match(src, WeakInit(b), b) = IF e = {} THEN NoBlock ELSE Max(e)
  BY DEF Match
<1>4. ASSUME c # {}
      PROVE  Max(c) \in c /\ Max(c) \in FullBlocks /\ Max(c) # NoBlock
  <2>1. c \subseteq 0 .. BlockCount(NewLen) /\ BlockCount(NewLen) \in Nat /\ c \subseteq FullBlocks
    BY FullBlocksAre DEF Equal
  <2>2. Max(c) \in c
    <3> HIDE DEF c
    <3> QED BY <1>4, <2>1, GreatestNat
  <2> HIDE DEF c
  <2>3. Max(c) \in 0 .. BlockCount(NewLen)
    BY <2>1, <2>2
  <2> QED BY <2>1, <2>2, <2>3 DEF NoBlock
<1> HIDE DEF c, e
<1> QED BY <1>2, <1>3, <1>4 DEF c, b

-----------------------------------------------------------------------------
(* The state of a scan: blocks matched where they are equal, their bytes   *)
(* written, and the two other scans in step.                               *)

FileVars == <<newFile, oldFile, sig>>

\* Matches depend on the two files and the signatures only,
LEMMA SameMatches ==
  ASSUME UNCHANGED FileVars
  PROVE  /\ NewLen' = NewLen /\ OldLen' = OldLen /\ FullBlocks' = FullBlocks
         /\ \A p : OldAt(p)' = OldAt(p)
         /\ \A src, p : Equal(src, p)' = Equal(src, p)
         /\ \A src, w, b : Match(src, w, b)' = Match(src, w, b)
         /\ \A s : Evaluated(s)' = Evaluated(s)
<1>1. newFile' = newFile /\ oldFile' = oldFile /\ sig' = sig
  BY DEF FileVars
<1>2. NewLen' = NewLen /\ OldLen' = OldLen
  BY <1>1 DEF NewLen, OldLen
<1>3. FullBlocks' = FullBlocks
  BY <1>2 DEF FullBlocks
<1>4. \A p : OldAt(p)' = OldAt(p)
  BY <1>1 DEF OldAt
<1>5. \A src, p : Equal(src, p)' = Equal(src, p)
  BY <1>1, <1>3, <1>4 DEF Equal
<1>6. \A src, w : Candidates(src, w)' = Candidates(src, w)
  BY <1>1, <1>3 DEF Candidates
<1>7. \A src, w, b : Match(src, w, b)' = Match(src, w, b)
  <2>1. ASSUME NEW src, NEW w, NEW b PROVE Match(src, w, b)' = Match(src, w, b)
    <3> DEFINE e == {i \in Candidates(src, w) : sig[i + 1].strong = StrongHash(b)}
    <3>1. e' = e
      BY <1>1, <1>6
    <3>2. Match(src, w, b) = IF e = {} THEN NoBlock ELSE Max(e)
      BY DEF Match
    <3>3. Match(src, w, b)' = IF e' = {} THEN NoBlock ELSE Max(e')
      BY DEF Match, NoBlock
    <3> HIDE DEF e
    <3> QED BY <3>1, <3>2, <3>3
  <2> QED BY <2>1
<1>8. \A s : Evaluated(s)' = Evaluated(s)
  BY <1>1, <1>2 DEF Evaluated
<1> QED BY <1>2, <1>3, <1>4, <1>5, <1>7, <1>8

\* and so does an iteration,
LEMMA SameIterate ==
  ASSUME UNCHANGED FileVars
  PROVE  \A s : PlanIterate(s)' = PlanIterate(s)
<1> SUFFICES ASSUME NEW s PROVE PlanIterate(s)' = PlanIterate(s)
  OBVIOUS
<1>1. oldFile' = oldFile /\ OldLen' = OldLen
  BY SameMatches DEF FileVars
<1>2. OldAt(s.p)' = OldAt(s.p) /\ OldAt(s.p + L)' = OldAt(s.p + L)
  BY SameMatches
<1>3. Match(s.src, s.w, OldAt(s.p))' = Match(s.src, s.w, OldAt(s.p))
  BY <1>2, SameMatches
<1>4. \A x : Evaluated(x)' = Evaluated(x)
  BY SameMatches
<1> DEFINE i == Match(s.src, s.w, OldAt(s.p))
           at == OldAt(s.p + L)
           roll == [s EXCEPT !.p = @ + 1, !.w = WeakRoll(s.w, oldFile[s.p + 1], oldFile[s.p + L + 1])]
           hit == [s EXCEPT !.p = s.p + L, !.src[i] = s.p, !.matchedBytes = @ + L]
           again == [hit EXCEPT !.w = WeakInit(at)]
<1>5. i' = i /\ at' = at
  BY <1>2, <1>3
<1>6. roll' = roll /\ hit' = hit /\ again' = again
  <2> HIDE DEF i, at
  <2> QED BY <1>1, <1>5
<1>7. PlanIterate(s) =
        IF s.done \/ s.early THEN s ELSE
        CASE i # NoBlock /\ s.p + L + L > OldLen -> [hit EXCEPT !.done = TRUE]
        [] i # NoBlock /\ s.p + L + L <= OldLen -> Evaluated(again)
        [] i = NoBlock /\ s.p + L >= OldLen -> [s EXCEPT !.done = TRUE]
        [] OTHER -> Evaluated(roll)
  BY DEF PlanIterate
<1>8. PlanIterate(s)' =
        IF s.done \/ s.early THEN s ELSE
        CASE i' # NoBlock /\ s.p + L + L > OldLen' -> [hit' EXCEPT !.done = TRUE]
        [] i' # NoBlock /\ s.p + L + L <= OldLen' -> Evaluated(again)'
        [] i' = NoBlock /\ s.p + L >= OldLen' -> [s EXCEPT !.done = TRUE]
        [] OTHER -> Evaluated(roll)'
  BY DEF PlanIterate, NoBlock
<1>9. Evaluated(again)' = Evaluated(again) /\ Evaluated(roll)' = Evaluated(roll)
  BY <1>4, <1>6
<1> HIDE DEF i, hit, again, roll
<1> QED BY <1>1, <1>5, <1>6, <1>7, <1>8, <1>9

\* and so do the runs of the two scans.
LEMMA SameRuns ==
  ASSUME UNCHANGED FileVars
  PROVE  \A st : (PlanRun(st)' <=> PlanRun(st)) /\ (RefRun(st)' <=> RefRun(st))
<1>1. OldLen' = OldLen /\ NewLen' = NewLen
  BY SameMatches
<1>2. PlanStart' = PlanStart /\ RefStart' = RefStart
  BY <1>1, SameMatches DEF PlanStart, RefStart
<1>3. \A s : RefIterate(s)' = RefIterate(s)
  BY <1>1, SameMatches DEF RefIterate
<1>4. \A s : PlanIterate(s)' = PlanIterate(s)
  BY SameIterate
<1>5. \A st : PlanRun(st)' <=> PlanRun(st)
  BY <1>1, <1>2, <1>4 DEF PlanRun
<1>6. \A st : RefRun(st)' <=> RefRun(st)
  BY <1>1, <1>2, <1>3 DEF RefRun
<1> QED BY <1>5, <1>6

IsScan(s) == s = [p |-> s.p, w |-> s.w, src |-> s.src, matchedBytes |-> s.matchedBytes,
                  nextEval |-> s.nextEval, early |-> s.early]
IsPlan(t) == t = [p |-> t.p, w |-> t.w, src |-> t.src, matchedBytes |-> t.matchedBytes,
                  nextEval |-> t.nextEval, early |-> t.early, done |-> t.done]
ScanType(s) == IsScan(s) /\ s.p \in Nat /\ s.matchedBytes \in Nat /\ s.early \in BOOLEAN

\* The state t of BuildPlan and the state s of the streaming scan agree.
PlanMirrors(t, s) ==
  /\ IsPlan(t) /\ t.p = s.p /\ t.w = s.w /\ t.src = s.src
  /\ t.matchedBytes = s.matchedBytes /\ t.nextEval = s.nextEval /\ t.early = s.early

\* A block is matched where the old file has its bytes.
SrcOk(src) ==
  /\ src \in [FullBlocks -> Int]
  /\ \A i \in FullBlocks : src[i] # -1 => src[i] \in Nat /\ OldAt(src[i]) = Part(i, L)

WrittenOf(src) == {<<i * L + j - 1, newFile[i * L + j]>> : i \in Matched(src), j \in 1 .. L}

\* The fields of a scan after the early-stop test.
LEMMA ScanEarly ==
  ASSUME NEW s, IsScan(s), NEW x, x = [s EXCEPT !.early = TRUE]
  PROVE  /\ IsScan(x) /\ x.p = s.p /\ x.w = s.w /\ x.src = s.src
         /\ x.matchedBytes = s.matchedBytes /\ x.nextEval = s.nextEval /\ x.early = TRUE
  BY DEF IsScan

\* The test was not met: it is due again a stride later.
LEMMA ScanLater ==
  ASSUME NEW s, IsScan(s), NEW n, NEW x, x = [s EXCEPT !.nextEval = n]
  PROVE  /\ IsScan(x) /\ x.p = s.p /\ x.w = s.w /\ x.src = s.src
         /\ x.matchedBytes = s.matchedBytes /\ x.nextEval = n /\ x.early = s.early
  BY DEF IsScan

\* The same for BuildPlan's state.
LEMMA PlanEarly ==
  ASSUME NEW s, IsPlan(s), NEW x, x = [s EXCEPT !.early = TRUE]
  PROVE  /\ IsPlan(x) /\ x.p = s.p /\ x.w = s.w /\ x.src = s.src /\ x.done = s.done
         /\ x.matchedBytes = s.matchedBytes /\ x.nextEval = s.nextEval /\ x.early = TRUE
  BY DEF IsPlan

\* The same for BuildPlan's state.
LEMMA PlanLater ==
  ASSUME NEW s, IsPlan(s), NEW n, NEW x, x = [s EXCEPT !.nextEval = n]
  PROVE  /\ IsPlan(x) /\ x.p = s.p /\ x.w = s.w /\ x.src = s.src /\ x.done = s.done
         /\ x.matchedBytes = s.matchedBytes /\ x.nextEval = n /\ x.early = s.early
  BY DEF IsPlan

\* The test changes neither the cursor nor the matches.
LEMMA EvaluatedIs ==
  ASSUME NEW s, ScanType(s)
  PROVE  /\ ScanType(Evaluated(s)) /\ Evaluated(s).p = s.p /\ Evaluated(s).src = s.src
         /\ Evaluated(s).w = s.w
<1> DEFINE n == s.p + EvalStride
           x == [s EXCEPT !.early = TRUE]
           y == [s EXCEPT !.nextEval = n]
<1>1. Evaluated(s) \in {s, x, y}
  BY DEF Evaluated
<1>2. IsScan(s)
  BY DEF ScanType
<1> HIDE DEF n
<1>3. /\ IsScan(x) /\ x.p = s.p /\ x.w = s.w /\ x.src = s.src
      /\ x.matchedBytes = s.matchedBytes /\ x.early = TRUE
  <2> HIDE DEF x
  <2>1. x = [s EXCEPT !.early = TRUE]
    BY DEF x
  <2> QED BY <1>2, <2>1 DEF IsScan
<1>4. /\ IsScan(y) /\ y.p = s.p /\ y.w = s.w /\ y.src = s.src
      /\ y.matchedBytes = s.matchedBytes /\ y.early = s.early
  <2> HIDE DEF y
  <2>1. y = [s EXCEPT !.nextEval = n]
    BY DEF y
  <2> QED BY <1>2, <2>1 DEF IsScan
<1> HIDE DEF x, y
<1>5. ScanType(x) /\ ScanType(y)
  BY <1>3, <1>4 DEF ScanType
<1> QED BY <1>1, <1>3, <1>4, <1>5

\* Both scans come to the same verdict.
LEMMA EvaluatedMirrors ==
  ASSUME NEW s, ScanType(s), NEW t, PlanMirrors(t, s)
  PROVE  /\ PlanMirrors(Evaluated(t), Evaluated(s)) /\ Evaluated(t).done = t.done
         /\ ScanType(Evaluated(s)) /\ Evaluated(s).p = s.p /\ Evaluated(s).src = s.src
         /\ Evaluated(s).w = s.w
<1> DEFINE bad == ProjectedRejected(s.matchedBytes, s.p, Len(oldFile), NewLen)
           n == s.p + EvalStride
           x == [s EXCEPT !.early = TRUE]
           y == [s EXCEPT !.nextEval = n]
           u == [t EXCEPT !.early = TRUE]
           v == [t EXCEPT !.nextEval = n]
<1>1. Evaluated(s) = IF s.p < s.nextEval THEN s ELSE IF bad THEN x ELSE y
  BY DEF Evaluated
<1>2. Evaluated(t) = IF s.p < s.nextEval THEN t ELSE IF bad THEN u ELSE v
  BY DEF Evaluated, PlanMirrors
<1>3. IsScan(s) /\ IsPlan(t)
  BY DEF ScanType, PlanMirrors
<1> HIDE DEF bad, n
<1>4. /\ IsScan(x) /\ x.p = s.p /\ x.w = s.w /\ x.src = s.src
      /\ x.matchedBytes = s.matchedBytes /\ x.nextEval = s.nextEval /\ x.early = TRUE
  <2> HIDE DEF x
  <2>1. x = [s EXCEPT !.early = TRUE]
    BY DEF x
  <2> QED BY <1>3, <2>1, ScanEarly
<1>5. /\ IsScan(y) /\ y.p = s.p /\ y.w = s.w /\ y.src = s.src
      /\ y.matchedBytes = s.matchedBytes /\ y.nextEval = n /\ y.early = s.early
  <2> HIDE DEF y
  <2>1. y = [s EXCEPT !.nextEval = n]
    BY DEF y
  <2> QED BY <1>3, <2>1, ScanLater
<1>6. /\ IsPlan(u) /\ u.p = t.p /\ u.w = t.w /\ u.src = t.src /\ u.done = t.done
      /\ u.matchedBytes = t.matchedBytes /\ u.nextEval = t.nextEval /\ u.early = TRUE
  <2> HIDE DEF u
  <2>1. u = [t EXCEPT !.early = TRUE]
    BY DEF u
  <2> QED BY <1>3, <2>1, PlanEarly
<1>7. /\ IsPlan(v) /\ v.p = t.p /\ v.w = t.w /\ v.src = t.src /\ v.done = t.done
      /\ v.matchedBytes = t.matchedBytes /\ v.nextEval = n /\ v.early = t.early
  <2> HIDE DEF v
  <2>1. v = [t EXCEPT !.nextEval = n]
    BY DEF v
  <2> QED BY <1>3, <2>1, PlanLater
<1> HIDE DEF x, y, u, v
<1>8. CASE s.p < s.nextEval
  BY <1>1, <1>2, <1>8
<1>9. CASE ~(s.p < s.nextEval) /\ bad
  <2>1. Evaluated(s) = x /\ Evaluated(t) = u
    BY <1>1, <1>2, <1>9
  <2> QED BY <1>4, <1>6, <2>1 DEF ScanType, PlanMirrors
<1>10. CASE ~(s.p < s.nextEval) /\ ~bad
  <2>1. Evaluated(s) = y /\ Evaluated(t) = v
    BY <1>1, <1>2, <1>10
  <2> QED BY <1>5, <1>7, <2>1 DEF ScanType, PlanMirrors
<1> QED BY <1>8, <1>9, <1>10

\* The streaming scan after a match, without and with the next checksum, and
\* after a byte without one.
Hit(s, i) == [s EXCEPT !.p = s.p + L, !.src[i] = s.p, !.matchedBytes = @ + L]
HitAgain(s, i) == [s EXCEPT !.p = s.p + L, !.src[i] = s.p, !.matchedBytes = @ + L,
                            !.w = WeakInit(OldAt(s.p + L))]
Taken(s, i) == [s.src EXCEPT ![i] = s.p]
Rolled(s) == [s EXCEPT !.p = s.p + 1, !.w = WeakRoll(s.w, oldFile[s.p + 1], oldFile[s.p + L + 1])]

\* A match takes the same block in all three scans.
LEMMA MatchStep ==
  ASSUME FilesOk, SigOk, NEW s, ScanType(s), SrcOk(s.src),
         s.w = WeakInit(OldAt(s.p)), s.p + L <= OldLen, NEW i,
         i = Match(s.src, s.w, OldAt(s.p)), i # NoBlock, NEW src, src = Taken(s, i)
  PROVE  /\ i \in FullBlocks /\ OldAt(s.p) = Part(i, L) /\ SrcOk(src)
         /\ WrittenOf(src) = WrittenOf(s.src) \cup {<<i * L + j - 1, OldAt(s.p)[j]>> : j \in 1 .. L}
         /\ RefIterate([p |-> s.p, src |-> s.src]) = [p |-> s.p + L, src |-> src]
<1> DEFINE c == Equal(s.src, s.p)
<1>1. c # {} /\ i = Max(c) /\ i \in c /\ i \in FullBlocks
  BY MatchIs
<1>2. s.src[i] = -1 /\ SubSeq(newFile, i * L + 1, (i + 1) * L) = OldAt(s.p)
  BY <1>1 DEF Equal
<1>3. /\ i \in Nat /\ i * L \in Nat /\ i * L + L <= NewLen /\ (i + 1) * L = i * L + L
      /\ L \in Nat \ {0} /\ s.p \in Nat /\ OldLen \in Nat /\ NewLen \in Nat
  BY <1>1, FullBlocksAre, FileFacts DEF ScanType, OldLen
<1>4. OldAt(s.p) = Part(i, L)
  BY <1>2, <1>3 DEF Part
<1>5. s.src \in [FullBlocks -> Int]
  BY DEF SrcOk
<1>8. src \in [FullBlocks -> Int] /\ src[i] = s.p /\ \A k \in FullBlocks : k # i => src[k] = s.src[k]
  BY <1>1, <1>3, <1>5 DEF Taken
<1>9. SrcOk(src)
  BY <1>3, <1>4, <1>8 DEF SrcOk
<1>10. Matched(src) = Matched(s.src) \cup {i}
  <2>1. s.p # -1
    BY <1>3
  <2> QED BY <1>1, <1>2, <1>8, <2>1 DEF Matched
<1>11. WrittenOf(src) = WrittenOf(s.src) \cup {<<i * L + j - 1, OldAt(s.p)[j]>> : j \in 1 .. L}
  <2>1. \A j \in 1 .. L : OldAt(s.p)[j] = newFile[i * L + j]
    <3>1. L \in Nat /\ i \in Nat /\ i * L + L <= NewLen
      BY <1>3
    <3> QED BY <1>4, <3>1, PartIs
  <2>2. WrittenOf(src) = WrittenOf(s.src) \cup {<<i * L + j - 1, newFile[i * L + j]>> : j \in 1 .. L}
    BY <1>10 DEF WrittenOf
  <2>3. {<<i * L + j - 1, newFile[i * L + j]>> : j \in 1 .. L}
          = {<<i * L + j - 1, OldAt(s.p)[j]>> : j \in 1 .. L}
    BY <2>1
  <2> QED BY <2>2, <2>3
<1>12. RefIterate([p |-> s.p, src |-> s.src]) = [p |-> s.p + L, src |-> src]
  <2> DEFINE q == [p |-> s.p, src |-> s.src]
  <2>1. q.p = s.p /\ q.src = s.src /\ ~(q.p + L > OldLen)
    BY <1>3
  <2> HIDE DEF q
  <2>2. RefIterate(q) = [p |-> s.p + L, src |-> [s.src EXCEPT ![Max(c)] = s.p]]
    BY <1>1, <2>1 DEF RefIterate
  <2> QED BY <1>1, <2>2 DEF q, Taken
<1> QED BY <1>1, <1>4, <1>9, <1>11, <1>12

\* BuildPlan at a match.
LEMMA PlanMatch ==
  ASSUME FilesOk, NEW s, ScanType(s), s.early = FALSE,
         NEW i, i = Match(s.src, s.w, OldAt(s.p)), i # NoBlock, NEW t
  PROVE  PlanMirrors(t, s) /\ t.done = FALSE =>
         /\ ScanType(Hit(s, i)) /\ Hit(s, i).p = s.p + L /\ Hit(s, i).src = Taken(s, i)
         /\ Hit(s, i).early = FALSE
         /\ ScanType(HitAgain(s, i)) /\ HitAgain(s, i).p = s.p + L /\ HitAgain(s, i).src = Taken(s, i)
         /\ HitAgain(s, i).early = FALSE /\ HitAgain(s, i).w = WeakInit(OldAt(s.p + L))
         /\ s.p + L + L > OldLen => PlanMirrors(PlanIterate(t), Hit(s, i)) /\ PlanIterate(t).done = TRUE
         /\ s.p + L + L <= OldLen =>
              PlanMirrors(PlanIterate(t), Evaluated(HitAgain(s, i))) /\ PlanIterate(t).done = FALSE
<1> HAVE PlanMirrors(t, s) /\ t.done = FALSE
<1> DEFINE hit == Hit(s, i)
           again == HitAgain(s, i)
<1> DEFINE p == s.p + L
           w == WeakInit(OldAt(p))
           thit == [t EXCEPT !.p = p, !.src[i] = t.p, !.matchedBytes = @ + L]
           tend == [thit EXCEPT !.done = TRUE]
           tagain == [thit EXCEPT !.w = w]
           troll == [t EXCEPT !.p = @ + 1, !.w = WeakRoll(t.w, oldFile[t.p + 1], oldFile[p + 1])]
           tstop == [t EXCEPT !.done = TRUE]
<1>1. /\ IsScan(s) /\ IsPlan(t) /\ s.p \in Nat /\ s.matchedBytes \in Nat /\ t.p = s.p /\ t.w = s.w
      /\ t.src = s.src /\ t.matchedBytes = s.matchedBytes /\ t.nextEval = s.nextEval /\ t.early = s.early
      /\ L \in Nat /\ p \in Nat /\ OldLen \in Nat
  BY FileFacts DEF ScanType, PlanMirrors, OldLen
<1>2. PlanIterate(t) =
        IF t.done \/ t.early THEN t ELSE
        CASE i # NoBlock /\ p + L > OldLen -> tend
        [] i # NoBlock /\ p + L <= OldLen -> Evaluated(tagain)
        [] i = NoBlock /\ p >= OldLen -> tstop
        [] OTHER -> Evaluated(troll)
  BY <1>1 DEF PlanIterate
<1>3. ~(t.done \/ t.early)
  BY <1>1
<1> DEFINE m == s.matchedBytes + L
           src == Taken(s, i)
<1>4. /\ IsScan(hit) /\ hit.p = p /\ hit.w = s.w /\ hit.src = src
      /\ hit.matchedBytes = m /\ hit.nextEval = s.nextEval /\ hit.early = s.early
  <2> HIDE DEF p, hit
  <2>1. hit = [s EXCEPT !.p = p, !.src[i] = s.p, !.matchedBytes = @ + L]
    BY DEF p, hit, Hit
  <2> QED BY <1>1, <2>1 DEF Taken, IsScan
<1>5. /\ IsScan(again) /\ again.p = p /\ again.w = w /\ again.src = src
      /\ again.matchedBytes = m /\ again.nextEval = s.nextEval /\ again.early = s.early
  <2> HIDE DEF p, w, again
  <2>1. again = [s EXCEPT !.p = p, !.src[i] = s.p, !.matchedBytes = @ + L, !.w = w]
    BY DEF p, w, again, HitAgain
  <2> QED BY <1>1, <2>1 DEF Taken, IsScan
<1>6. /\ IsPlan(thit) /\ thit.p = p /\ thit.w = s.w /\ thit.src = src
      /\ thit.matchedBytes = m /\ thit.nextEval = s.nextEval /\ thit.early = s.early /\ thit.done = FALSE
  <2> HIDE DEF p, thit
  <2>1. thit = [t EXCEPT !.p = p, !.src[i] = s.p, !.matchedBytes = @ + L]
    BY <1>1 DEF thit
  <2> QED BY <1>1, <2>1 DEF Taken, IsPlan
<1> HIDE DEF p, w, thit, m, src, hit, again
<1>7. /\ IsPlan(tend) /\ tend.p = p /\ tend.w = s.w /\ tend.src = src
      /\ tend.matchedBytes = m /\ tend.nextEval = s.nextEval /\ tend.early = s.early /\ tend.done = TRUE
  <2> HIDE DEF tend
  <2>1. tend = [thit EXCEPT !.done = TRUE]
    BY DEF tend
  <2> QED BY <1>6, <2>1 DEF IsPlan
<1>8. /\ IsPlan(tagain) /\ tagain.p = p /\ tagain.w = w /\ tagain.src = src
      /\ tagain.matchedBytes = m /\ tagain.nextEval = s.nextEval /\ tagain.early = s.early
      /\ tagain.done = FALSE
  <2> HIDE DEF tagain
  <2>1. tagain = [thit EXCEPT !.w = w]
    BY DEF tagain
  <2> QED BY <1>6, <2>1 DEF IsPlan
<1> HIDE DEF tend, tagain, troll, tstop
<1>9. m \in Nat
  BY <1>1 DEF m
<1>10. ScanType(hit) /\ ScanType(again)
  BY <1>1, <1>4, <1>5, <1>9 DEF ScanType
<1>11. PlanMirrors(tend, hit) /\ PlanMirrors(tagain, again)
  BY <1>4, <1>5, <1>7, <1>8 DEF PlanMirrors
<1>12. p + L > OldLen => PlanMirrors(PlanIterate(t), hit) /\ PlanIterate(t).done = TRUE
  <2> SUFFICES ASSUME p + L > OldLen PROVE PlanMirrors(PlanIterate(t), hit) /\ PlanIterate(t).done = TRUE
    OBVIOUS
  <2>0. ~(p + L <= OldLen)
    BY <1>1
  <2>1. PlanIterate(t) = tend
    BY <1>2, <1>3, <2>0
  <2> QED BY <1>7, <1>11, <2>1
<1>13. p + L <= OldLen => PlanMirrors(PlanIterate(t), Evaluated(again)) /\ PlanIterate(t).done = FALSE
  <2> SUFFICES ASSUME p + L <= OldLen
               PROVE PlanMirrors(PlanIterate(t), Evaluated(again)) /\ PlanIterate(t).done = FALSE
    OBVIOUS
  <2>1. ~(p + L > OldLen)
    BY <1>1
  <2>2. PlanIterate(t) = Evaluated(tagain)
    BY <1>2, <1>3, <2>1
  <2>3. PlanMirrors(Evaluated(tagain), Evaluated(again)) /\ Evaluated(tagain).done = tagain.done
    BY <1>10, <1>11, EvaluatedMirrors
  <2> QED BY <1>8, <2>2, <2>3
<1> QED BY <1>4, <1>5, <1>10, <1>12, <1>13 DEF p, w, src, hit, again

\* Without a match, all three scans move on by a byte.
LEMMA PlanRolls ==
  ASSUME FilesOk, SigOk, NEW s, ScanType(s), NEW t, PlanMirrors(t, s), s.early = FALSE, t.done = FALSE,
         s.w = WeakInit(OldAt(s.p)), s.p + L <= OldLen,
         Match(s.src, s.w, OldAt(s.p)) = NoBlock,
         NEW roll, roll = Rolled(s)
  PROVE  /\ ScanType(roll) /\ roll.p = s.p + 1 /\ roll.src = s.src /\ roll.early = FALSE
         /\ s.p + L >= OldLen => PlanMirrors(PlanIterate(t), s) /\ PlanIterate(t).done = TRUE
         /\ s.p + L < OldLen =>
              /\ roll.w = WeakInit(OldAt(s.p + 1))
              /\ PlanMirrors(PlanIterate(t), Evaluated(roll)) /\ PlanIterate(t).done = FALSE
         /\ RefIterate([p |-> s.p, src |-> s.src]) = [p |-> s.p + 1, src |-> s.src]
<1> DEFINE p == s.p + L
           q == s.p + 1
           w == WeakRoll(s.w, oldFile[s.p + 1], oldFile[p + 1])
           i == Match(s.src, s.w, OldAt(s.p))
           thit == [t EXCEPT !.p = p, !.src[i] = t.p, !.matchedBytes = @ + L]
           tend == [thit EXCEPT !.done = TRUE]
           tagain == [thit EXCEPT !.w = WeakInit(OldAt(p))]
           troll == [t EXCEPT !.p = @ + 1, !.w = WeakRoll(t.w, oldFile[t.p + 1], oldFile[p + 1])]
           tstop == [t EXCEPT !.done = TRUE]
<1>0. Equal(s.src, s.p) = {}
  BY MatchIs
<1>1. /\ IsScan(s) /\ IsPlan(t) /\ s.p \in Nat /\ s.matchedBytes \in Nat /\ t.p = s.p /\ t.w = s.w
      /\ t.src = s.src /\ t.matchedBytes = s.matchedBytes /\ t.nextEval = s.nextEval /\ t.early = s.early
      /\ L \in Nat \ {0} /\ p \in Nat /\ OldLen \in Nat /\ OldLen = Len(oldFile) /\ oldFile \in Seq(Nat)
  BY FileFacts DEF ScanType, PlanMirrors, OldLen
<1>2. PlanIterate(t) =
        IF t.done \/ t.early THEN t ELSE
        CASE i # NoBlock /\ p + L > OldLen -> tend
        [] i # NoBlock /\ p + L <= OldLen -> Evaluated(tagain)
        [] i = NoBlock /\ p >= OldLen -> tstop
        [] OTHER -> Evaluated(troll)
  BY <1>1 DEF PlanIterate
<1>3. ~(t.done \/ t.early) /\ i = NoBlock
  BY <1>1
<1>4. /\ IsScan(roll) /\ roll.p = q /\ roll.w = w /\ roll.src = s.src
      /\ roll.matchedBytes = s.matchedBytes /\ roll.nextEval = s.nextEval /\ roll.early = s.early
  <2> HIDE DEF w, q
  <2>1. roll = [s EXCEPT !.p = q, !.w = w]
    BY DEF w, q, Rolled
  <2> QED BY <1>1, <2>1 DEF IsScan
<1>5. /\ IsPlan(troll) /\ troll.p = q /\ troll.w = w /\ troll.src = s.src /\ troll.done = FALSE
      /\ troll.matchedBytes = s.matchedBytes /\ troll.nextEval = s.nextEval /\ troll.early = s.early
  <2> HIDE DEF w, q, troll
  <2>1. troll = [t EXCEPT !.p = q, !.w = w]
    BY <1>1 DEF w, q, troll
  <2> QED BY <1>1, <2>1 DEF IsPlan
<1>6. /\ IsPlan(tstop) /\ tstop.p = s.p /\ tstop.w = s.w /\ tstop.src = s.src /\ tstop.done = TRUE
      /\ tstop.matchedBytes = s.matchedBytes /\ tstop.nextEval = s.nextEval /\ tstop.early = s.early
  <2> HIDE DEF tstop
  <2>1. tstop = [t EXCEPT !.done = TRUE]
    BY DEF tstop
  <2> QED BY <1>1, <2>1 DEF IsPlan
<1> HIDE DEF thit, tend, tagain, troll, tstop, i
<1>7. q \in Nat
  BY <1>1
<1>8. ScanType(roll)
  <2> HIDE DEF q, w
  <2> QED BY <1>1, <1>4, <1>7 DEF ScanType
<1>9. PlanMirrors(troll, roll) /\ PlanMirrors(tstop, s)
  <2> HIDE DEF q, w
  <2> QED BY <1>4, <1>5, <1>6 DEF PlanMirrors
<1>10. p >= OldLen => PlanMirrors(PlanIterate(t), s) /\ PlanIterate(t).done = TRUE
  <2> SUFFICES ASSUME p >= OldLen PROVE PlanMirrors(PlanIterate(t), s) /\ PlanIterate(t).done = TRUE
    OBVIOUS
  <2>1. PlanIterate(t) = tstop
    <3> HIDE DEF p
    <3> QED BY <1>2, <1>3
  <2> QED BY <1>6, <1>9, <2>1
<1>11. p < OldLen => PlanMirrors(PlanIterate(t), Evaluated(roll)) /\ PlanIterate(t).done = FALSE
  <2> SUFFICES ASSUME p < OldLen
               PROVE PlanMirrors(PlanIterate(t), Evaluated(roll)) /\ PlanIterate(t).done = FALSE
    OBVIOUS
  <2>1. ~(p >= OldLen)
    BY <1>1
  <2>2. PlanIterate(t) = Evaluated(troll)
    <3> HIDE DEF p
    <3> QED BY <1>2, <1>3, <2>1
  <2>3. PlanMirrors(Evaluated(troll), Evaluated(roll)) /\ Evaluated(troll).done = troll.done
    BY <1>8, <1>9, EvaluatedMirrors
  <2> QED BY <1>5, <2>2, <2>3
<1>12. RefIterate([p |-> s.p, src |-> s.src]) = [p |-> q, src |-> s.src]
  <2> DEFINE r == [p |-> s.p, src |-> s.src]
  <2>1. r.p = s.p /\ r.src = s.src /\ ~(r.p + L > OldLen)
    BY <1>1
  <2>2. [r EXCEPT !.p = @ + 1] = [p |-> q, src |-> s.src]
    OBVIOUS
  <2> HIDE DEF r
  <2>3. RefIterate(r) = [r EXCEPT !.p = @ + 1]
    BY <1>0, <2>1 DEF RefIterate
  <2> QED BY <2>2, <2>3 DEF r
<1>13. p < OldLen => w = WeakInit(OldAt(q))
  <2> SUFFICES ASSUME p < OldLen PROVE w = WeakInit(OldAt(q))
    OBVIOUS
  <2>1. s.p + L + 1 <= Len(oldFile) /\ q + 1 = s.p + 2 /\ q + L = s.p + L + 1
    <3> DEFINE a == s.p
    <3>1. a \in Nat /\ a + L < OldLen
      BY <1>1
    <3> HIDE DEF a
    <3>2. a + L + 1 <= OldLen /\ (a + 1) + 1 = a + 2 /\ (a + 1) + L = a + L + 1
      BY <1>1, <3>1
    <3> QED BY <1>1, <3>2 DEF a
  <2>2. WeakRoll(WeakInit(SubSeq(oldFile, s.p + 1, s.p + L)), oldFile[s.p + 1], oldFile[s.p + L + 1])
           = WeakInit(SubSeq(oldFile, s.p + 2, s.p + L + 1))
    BY <1>1, <2>1, RollIsInit
  <2> HIDE DEF q
  <2> QED BY <2>1, <2>2 DEF OldAt
<1> HIDE DEF w
<1> QED BY <1>1, <1>4, <1>8, <1>10, <1>11, <1>12, <1>13

-----------------------------------------------------------------------------
(* How the two other scans end, and where they start.                      *)

\* A scan that has ended stays as it is.
LEMMA PlanStays ==
  ASSUME FilesOk, NEW st, PlanRun(st), NEW n \in 0 .. OldLen + 1, st[n].done \/ st[n].early
  PROVE  st[OldLen + 1] = st[n]
<1> DEFINE m == OldLen + 1
           P == {k \in 0 .. m : k < n \/ st[k] = st[n]}
<1>1. m \in Nat /\ \A k \in 1 .. m : st[k] = PlanIterate(st[k - 1])
  BY PlanRunAt
<1>2. PlanIterate(st[n]) = st[n]
  <2> DEFINE s == st[n]
  <2>1. s.done \/ s.early
    OBVIOUS
  <2> HIDE DEF s
  <2>2. PlanIterate(s) = s
    BY <2>1 DEF PlanIterate
  <2> QED BY <2>2 DEF s
<1>3. n \in 0 .. m
  OBVIOUS
<1> HIDE DEF m
<1>4. 0 \in P
  BY <1>1, <1>3
<1>5. ASSUME NEW k \in 1 .. m, k - 1 \in P PROVE k \in P
  <2>1. CASE k < n
    BY <1>1, <1>5, <2>1
  <2>2. CASE k = n
    BY <1>1, <1>5, <2>2
  <2>3. CASE k > n
    <3>1. st[k - 1] = st[n] /\ k \in 0 .. m
      BY <1>1, <1>3, <1>5, <2>3
    <3>2. st[k] = PlanIterate(st[n])
      BY <1>1, <1>5, <3>1
    <3> QED BY <1>2, <3>1, <3>2
  <2> QED BY <1>1, <1>3, <1>5, <2>1, <2>2, <2>3
<1> HIDE DEF P
<1>6. m \in P
  BY <1>1, <1>4, <1>5, CountTo
<1>7. ~(m < n)
  BY <1>1, <1>3
<1> QED BY <1>6, <1>7 DEF P, m

\* A reference scan past the last window stays as it is.
LEMMA RefStays ==
  ASSUME FilesOk, NEW st, RefRun(st), NEW n \in 0 .. OldLen, st[n].p + L > OldLen
  PROVE  st[OldLen] = st[n]
<1> DEFINE m == OldLen
           P == {k \in 0 .. m : k < n \/ st[k] = st[n]}
<1>1. m \in Nat /\ \A k \in 1 .. m : st[k] = RefIterate(st[k - 1])
  BY RefRunAt
<1>2. RefIterate(st[n]) = st[n]
  <2> DEFINE s == st[n]
  <2>1. s.p + L > OldLen
    OBVIOUS
  <2> HIDE DEF s
  <2>2. RefIterate(s) = s
    BY <2>1 DEF RefIterate
  <2> QED BY <2>2 DEF s
<1>3. n \in 0 .. m
  OBVIOUS
<1> HIDE DEF m
<1>4. 0 \in P
  BY <1>1, <1>3
<1>5. ASSUME NEW k \in 1 .. m, k - 1 \in P PROVE k \in P
  <2>1. CASE k < n
    BY <1>1, <1>5, <2>1
  <2>2. CASE k = n
    BY <1>1, <1>5, <2>2
  <2>3. CASE k > n
    <3>1. st[k - 1] = st[n] /\ k \in 0 .. m
      BY <1>1, <1>3, <1>5, <2>3
    <3>2. st[k] = RefIterate(st[n])
      BY <1>1, <1>5, <3>1
    <3> QED BY <1>2, <3>1, <3>2
  <2> QED BY <1>1, <1>3, <1>5, <2>1, <2>2, <2>3
<1> HIDE DEF P
<1>6. m \in P
  BY <1>1, <1>4, <1>5, CountTo
<1>7. ~(m < n)
  BY <1>1, <1>3
<1> QED BY <1>6, <1>7 DEF P, m

Unmatched == [i \in FullBlocks |-> -1]

\* An empty file has no full block to match.
LEMMA RefFindsNothing ==
  ASSUME FilesOk, NEW st, RefRun(st), NewLen = 0
  PROVE  st[OldLen].src = Unmatched
<1> DEFINE m == OldLen
           P == {k \in 0 .. m : st[k] = [p |-> st[k].p, src |-> Unmatched]}
<1>1. m \in Nat /\ st[0] = RefStart /\ \A k \in 1 .. m : st[k] = RefIterate(st[k - 1])
  BY RefRunAt
<1>2. FullBlocks = {}
  <2>1. \A i \in FullBlocks : i * L \in Nat /\ i * L + L <= NewLen
    BY FullBlocksAre
  <2>2. L \in Nat \ {0}
    BY FileFacts
  <2>3. \A x \in Nat : ~(x + L <= 0)
    BY <2>2
  <2> QED BY <2>1, <2>3
<1>3. ASSUME NEW q, q = [p |-> q.p, src |-> Unmatched]
      PROVE  RefIterate(q) = [p |-> RefIterate(q).p, src |-> Unmatched]
  <2>1. Equal(q.src, q.p) = {}
    BY <1>2 DEF Equal
  <2>2. CASE q.p + L > OldLen
    BY <1>3, <2>2 DEF RefIterate
  <2>3. CASE ~(q.p + L > OldLen)
    <3>1. RefIterate(q) = [q EXCEPT !.p = @ + 1]
      BY <2>1, <2>3 DEF RefIterate
    <3> DEFINE y == RefIterate(q)
    <3>2. y = [q EXCEPT !.p = @ + 1]
      BY <3>1
    <3> HIDE DEF y
    <3>3. y = [p |-> y.p, src |-> Unmatched]
      BY <1>3, <3>2
    <3> QED BY <3>3 DEF y
  <2> QED BY <2>2, <2>3
<1> HIDE DEF m
<1>4. 0 \in P
  <2>1. st[0] = [p |-> 0, src |-> Unmatched]
    BY <1>1 DEF RefStart, Unmatched
  <2> QED BY <1>1, <2>1
<1>5. ASSUME NEW k \in 1 .. m, k - 1 \in P PROVE k \in P
  <2>1. st[k - 1] = [p |-> st[k - 1].p, src |-> Unmatched]
    BY <1>5
  <2>2. st[k] = RefIterate(st[k - 1]) /\ k \in 0 .. m
    BY <1>1, <1>5
  <2> DEFINE q == st[k - 1]
  <2>3. q = [p |-> q.p, src |-> Unmatched] /\ st[k] = RefIterate(q)
    BY <2>1, <2>2
  <2> HIDE DEF q
  <2>4. st[k] = [p |-> st[k].p, src |-> Unmatched]
    BY <1>3, <2>3
  <2> QED BY <2>2, <2>4
<1> HIDE DEF P
<1>6. m \in P
  BY <1>1, <1>4, <1>5, CountTo
<1>7. st[m] = [p |-> st[m].p, src |-> Unmatched]
  BY <1>6 DEF P
<1> DEFINE z == st[m]
<1> HIDE DEF z
<1>8. z = [p |-> z.p, src |-> Unmatched]
  BY <1>7 DEF z
<1>9. z.src = Unmatched
  BY <1>8
<1> QED BY <1>9 DEF z, m

-----------------------------------------------------------------------------
\* BuildPlan and the reference have been where the streaming scan is ...
InStep(s) ==
  \E st, rs : /\ PlanRun(st) /\ RefRun(rs)
              /\ \E n \in 0 .. s.p : /\ PlanMirrors(st[n], s) /\ st[n].done = FALSE
                                     /\ rs[n] = [p |-> s.p, src |-> s.src]

\* ... and, when it has ended, they end there.
EndsAs(s) ==
  \E st, rs : /\ PlanRun(st) /\ RefRun(rs)
              /\ st[OldLen + 1].src = s.src /\ st[OldLen + 1].early = s.early
              /\ \E n \in 0 .. OldLen : rs[n].src = s.src
              /\ s.early = FALSE => rs[OldLen].src = s.src

\* Nothing to scan: both other scans end at their start.
LEMMA StartEnds ==
  FilesOk /\ (NewLen = 0 \/ OldLen < L) => \A s : s.src = Unmatched /\ s.early = FALSE => EndsAs(s)
<1> SUFFICES ASSUME FilesOk, NewLen = 0 \/ OldLen < L, NEW s, s.src = Unmatched, s.early = FALSE
             PROVE  EndsAs(s)
  OBVIOUS
<1>1. PICK st : PlanRun(st)
  BY PlanRunExists
<1>2. PICK rs : RefRun(rs)
  BY RefRunExists
<1>3. OldLen + 1 \in Nat /\ OldLen \in Nat /\ st[0] = PlanStart /\ rs[0] = RefStart
  BY <1>1, <1>2, PlanRunAt, RefRunAt
<1>4. st[0].done /\ st[0].src = Unmatched /\ st[0].early = FALSE
  <2> DEFINE none == NewLen = 0 \/ OldLen < L
             w == WeakInit(IF none THEN <<>> ELSE OldAt(0))
             e == EarlyStopPrefixBytes(OldLen)
  <2>1. none
    OBVIOUS
  <2>2. st[0] = [p |-> 0, w |-> w, src |-> Unmatched, matchedBytes |-> 0, nextEval |-> e,
                 early |-> FALSE, done |-> none]
    BY <1>3 DEF PlanStart, Unmatched
  <2> HIDE DEF none, w, e
  <2>3. st[0].done = none
    BY <2>2
  <2>4. st[0].src = Unmatched
    BY <2>2
  <2>5. st[0].early = FALSE
    BY <2>2
  <2> QED BY <2>1, <2>3, <2>4, <2>5
<1>5. st[OldLen + 1] = st[0]
  <2>1. 0 \in 0 .. OldLen + 1
    BY <1>3
  <2> QED BY <1>1, <1>4, <2>1, PlanStays
<1>6. rs[0].src = Unmatched /\ rs[0].p = 0
  BY <1>3 DEF RefStart, Unmatched
<1>7. rs[OldLen].src = Unmatched
  <2>1. CASE NewLen = 0
    BY <1>2, <2>1, RefFindsNothing
  <2>2. CASE OldLen < L
    <3>1. 0 \in 0 .. OldLen /\ rs[0].p + L > OldLen
      <4>1. L \in Nat
        BY FileFacts
      <4> QED BY <1>3, <1>6, <2>2, <4>1
    <3>2. rs[OldLen] = rs[0]
      BY <1>2, <3>1, RefStays
    <3> QED BY <1>6, <3>2
  <2> QED BY <2>1, <2>2
<1>8. 0 \in 0 .. OldLen
  BY <1>3
<1> QED BY <1>1, <1>2, <1>4, <1>5, <1>6, <1>7, <1>8 DEF EndsAs

\* At the first window all three scans are at their start.
LEMMA StartInStep ==
  ASSUME FilesOk, ~(NewLen = 0 \/ OldLen < L), NEW s, s.p = 0, s.w = WeakInit(OldAt(0)),
         s.src = Unmatched, s.matchedBytes = 0, s.nextEval = EarlyStopPrefixBytes(OldLen), s.early = FALSE
  PROVE  InStep(s)
<1>1. PICK st : PlanRun(st)
  BY PlanRunExists
<1>2. PICK rs : RefRun(rs)
  BY RefRunExists
<1>3. st[0] = PlanStart /\ rs[0] = RefStart
  BY <1>1, <1>2, PlanRunAt, RefRunAt
<1> DEFINE t == st[0]
<1>4. t = [p |-> 0, w |-> WeakInit(OldAt(0)), src |-> Unmatched, matchedBytes |-> 0,
               nextEval |-> EarlyStopPrefixBytes(OldLen), early |-> FALSE, done |-> FALSE]
  BY <1>3 DEF PlanStart, Unmatched
<1> HIDE DEF t
<1>5. PlanMirrors(t, s) /\ t.done = FALSE
  BY <1>4 DEF PlanMirrors, IsPlan
<1>6. rs[0] = [p |-> s.p, src |-> s.src]
  BY <1>3 DEF RefStart, Unmatched
<1>7. 0 \in 0 .. s.p
  OBVIOUS
<1> QED BY <1>1, <1>2, <1>5, <1>6, <1>7 DEF InStep, t

-----------------------------------------------------------------------------
(* One iteration of the streaming scan is one of each other scan.          *)

\* One more iteration of both scans, seen from a state they were in.
LEMMA NextStep ==
  ASSUME FilesOk, NEW s, ScanType(s), s.p + L <= OldLen, InStep(s), s.early = FALSE,
         NEW e, e.p \in Nat, s.p < e.p,
         RefIterate([p |-> s.p, src |-> s.src]) = [p |-> e.p, src |-> e.src],
         \A t : PlanMirrors(t, s) /\ t.done = FALSE =>
                  PlanMirrors(PlanIterate(t), e)
  PROVE  /\ (\A t : PlanMirrors(t, s) /\ t.done = FALSE => PlanIterate(t).done = FALSE) =>
               /\ e.early = FALSE => InStep(e)
               /\ e.early = TRUE => EndsAs(e)
         /\ /\ \A t : PlanMirrors(t, s) /\ t.done = FALSE => PlanIterate(t).done = TRUE
            /\ e.p + L > OldLen /\ e.early = FALSE
            => EndsAs(e)
<1>1. PICK st, rs : /\ PlanRun(st) /\ RefRun(rs)
                    /\ \E n \in 0 .. s.p : /\ PlanMirrors(st[n], s) /\ st[n].done = FALSE
                                           /\ rs[n] = [p |-> s.p, src |-> s.src]
  BY DEF InStep
<1>2. PICK n \in 0 .. s.p : PlanMirrors(st[n], s) /\ st[n].done = FALSE /\ rs[n] = [p |-> s.p, src |-> s.src]
  BY <1>1
<1>3. s.p \in Nat /\ L \in Nat \ {0} /\ OldLen \in Nat
  BY FileFacts DEF ScanType, OldLen
<1> DEFINE k == n + 1
<1>4. k \in 1 .. OldLen /\ k \in 1 .. OldLen + 1 /\ k - 1 = n /\ k \in 0 .. OldLen + 1 /\ k \in 0 .. OldLen /\ k \in 0 .. e.p
  BY <1>2, <1>3
<1> HIDE DEF k
<1>5. st[k] = PlanIterate(st[n]) /\ rs[k] = RefIterate(rs[n])
  BY <1>1, <1>4, PlanRunAt, RefRunAt
<1>6. PlanMirrors(st[k], e) /\ rs[k] = [p |-> e.p, src |-> e.src]
  BY <1>2, <1>5
<1>7. rs[k].p = e.p /\ rs[k].src = e.src /\ st[k].src = e.src /\ st[k].early = e.early
  BY <1>6 DEF PlanMirrors
<1>8. ASSUME st[k].done = FALSE, e.early = FALSE PROVE InStep(e)
  BY <1>1, <1>4, <1>6, <1>8 DEF InStep
<1>9. ASSUME e.early = TRUE PROVE EndsAs(e)
  <2>1. st[OldLen + 1] = st[k]
    BY <1>1, <1>4, <1>7, <1>9, PlanStays
  <2> QED BY <1>1, <1>4, <1>7, <1>9, <2>1 DEF EndsAs
<1>10. ASSUME st[k].done = TRUE, e.p + L > OldLen, e.early = FALSE PROVE EndsAs(e)
  <2>1. st[OldLen + 1] = st[k]
    BY <1>1, <1>4, <1>10, PlanStays
  <2>2. rs[OldLen] = rs[k]
    BY <1>1, <1>4, <1>7, <1>10, RefStays
  <2> QED BY <1>1, <1>4, <1>7, <2>1, <2>2 DEF EndsAs
<1>11. (\A t : PlanMirrors(t, s) /\ t.done = FALSE => PlanIterate(t).done = FALSE) => st[k].done = FALSE
  BY <1>2, <1>5
<1>12. (\A t : PlanMirrors(t, s) /\ t.done = FALSE => PlanIterate(t).done = TRUE) => st[k].done = TRUE
  BY <1>2, <1>5
<1> QED BY <1>8, <1>9, <1>10, <1>11, <1>12

\* A match is one iteration of the other scans.
LEMMA MatchGoesOn ==
  ASSUME FilesOk, SigOk, NEW s, ScanType(s), SrcOk(s.src), InStep(s), s.early = FALSE,
         s.w = WeakInit(OldAt(s.p)), s.p + L <= OldLen,
         NEW i, i = Match(s.src, s.w, OldAt(s.p)), i # NoBlock,
         NEW hit, hit = Hit(s, i),
         NEW again, again = HitAgain(s, i),
         NEW e, e = Evaluated(again)
  PROVE  /\ ScanType(hit) /\ hit.src = Taken(s, i) /\ hit.early = FALSE
         /\ s.p + L + L > OldLen => EndsAs(hit)
         /\ s.p + L + L <= OldLen =>
              /\ ScanType(e) /\ e.p = s.p + L /\ e.src = Taken(s, i)
              /\ e.w = WeakInit(OldAt(s.p + L))
              /\ (e.early = FALSE => InStep(e)) /\ (e.early = TRUE => EndsAs(e))
<1> DEFINE src == Taken(s, i)
           p == s.p + L
<1>1. s.p \in Nat /\ L \in Nat \ {0} /\ OldLen \in Nat
  BY FileFacts DEF ScanType, OldLen
<1>2. p \in Nat /\ s.p < p
  BY <1>1
<1>3. RefIterate([p |-> s.p, src |-> s.src]) = [p |-> p, src |-> src]
  <2> HIDE DEF src
  <2>1. src = Taken(s, i)
    BY DEF src
  <2> QED BY <2>1, MatchStep
<1>4. ASSUME NEW t, PlanMirrors(t, s), t.done = FALSE
      PROVE  /\ ScanType(hit) /\ hit.p = p /\ hit.src = src /\ hit.early = FALSE
             /\ ScanType(again) /\ again.p = p /\ again.src = src
             /\ again.early = FALSE /\ again.w = WeakInit(OldAt(p))
             /\ p + L > OldLen => PlanMirrors(PlanIterate(t), hit) /\ PlanIterate(t).done = TRUE
             /\ p + L <= OldLen =>
                  PlanMirrors(PlanIterate(t), e) /\ PlanIterate(t).done = FALSE
  <2> HIDE DEF src, p
  <2>1. ScanType(Hit(s, i)) /\ ScanType(HitAgain(s, i))
    BY <1>4, PlanMatch
  <2>2. Hit(s, i).p = s.p + L /\ Hit(s, i).src = Taken(s, i) /\ Hit(s, i).early = FALSE
    BY <1>4, PlanMatch
  <2>3. /\ HitAgain(s, i).p = s.p + L /\ HitAgain(s, i).src = Taken(s, i)
        /\ HitAgain(s, i).early = FALSE
    BY <1>4, PlanMatch
  <2>4. HitAgain(s, i).w = WeakInit(OldAt(s.p + L))
    BY <1>4, PlanMatch
  <2>5. s.p + L + L > OldLen => PlanMirrors(PlanIterate(t), Hit(s, i))
    BY <1>4, PlanMatch
  <2>6. s.p + L + L > OldLen => PlanIterate(t).done = TRUE
    BY <1>4, PlanMatch
  <2>7. s.p + L + L <= OldLen => PlanMirrors(PlanIterate(t), Evaluated(HitAgain(s, i)))
    BY <1>4, PlanMatch
  <2>8. s.p + L + L <= OldLen => PlanIterate(t).done = FALSE
    BY <1>4, PlanMatch
  <2> QED BY <2>1, <2>2, <2>3, <2>4, <2>5, <2>6, <2>7, <2>8 DEF src, p
<1>5. \E t : PlanMirrors(t, s) /\ t.done = FALSE
  BY DEF InStep
<1> HIDE DEF src, p
<1>6. /\ ScanType(hit) /\ hit.p = p /\ hit.src = src /\ hit.early = FALSE
      /\ ScanType(again) /\ again.p = p /\ again.src = src
      /\ again.early = FALSE /\ again.w = WeakInit(OldAt(p))
  BY <1>4, <1>5
<1>7. ASSUME p + L > OldLen PROVE EndsAs(hit)
  <2>1. \A t : PlanMirrors(t, s) /\ t.done = FALSE => PlanMirrors(PlanIterate(t), hit)
    BY <1>4, <1>7
  <2>2. \A t : PlanMirrors(t, s) /\ t.done = FALSE => PlanIterate(t).done = TRUE
    BY <1>4, <1>7
  <2>3. hit.p \in Nat /\ s.p < hit.p /\ hit.p + L > OldLen
        /\ RefIterate([p |-> s.p, src |-> s.src]) = [p |-> hit.p, src |-> hit.src]
    BY <1>2, <1>3, <1>6, <1>7
  <2> QED BY <1>6, <2>1, <2>2, <2>3, NextStep
<1>8. ASSUME p + L <= OldLen
      PROVE  /\ ScanType(e) /\ e.p = p /\ e.src = src /\ e.w = WeakInit(OldAt(p))
             /\ (e.early = FALSE => InStep(e)) /\ (e.early = TRUE => EndsAs(e))
  <2>1. \A t : PlanMirrors(t, s) /\ t.done = FALSE => PlanMirrors(PlanIterate(t), e)
    BY <1>4, <1>8
  <2>2. \A t : PlanMirrors(t, s) /\ t.done = FALSE => PlanIterate(t).done = FALSE
    BY <1>4, <1>8
  <2>3. ScanType(e) /\ e.p = p /\ e.src = src /\ e.w = WeakInit(OldAt(p))
    BY <1>6, EvaluatedIs
  <2>4. e.p \in Nat /\ s.p < e.p
        /\ RefIterate([p |-> s.p, src |-> s.src]) = [p |-> e.p, src |-> e.src]
    BY <1>2, <1>3, <2>3
  <2>5. (e.early = FALSE => InStep(e)) /\ (e.early = TRUE => EndsAs(e))
    BY <2>1, <2>2, <2>4, NextStep
  <2> QED BY <2>3, <2>5
<1> QED BY <1>6, <1>7, <1>8 DEF p, src

\* A roll is one iteration of the other scans.
LEMMA RollGoesOn ==
  ASSUME FilesOk, SigOk, NEW s, ScanType(s), SrcOk(s.src), InStep(s), s.early = FALSE,
         s.w = WeakInit(OldAt(s.p)), s.p + L <= OldLen,
         Match(s.src, s.w, OldAt(s.p)) = NoBlock,
         NEW roll, roll = Rolled(s),
         NEW e, e = Evaluated(roll)
  PROVE  /\ s.p + L >= OldLen => EndsAs(s)
         /\ s.p + L < OldLen =>
              /\ ScanType(e) /\ e.p = s.p + 1 /\ e.src = s.src /\ e.w = WeakInit(OldAt(s.p + 1))
              /\ (e.early = FALSE => InStep(e)) /\ (e.early = TRUE => EndsAs(e))
<1> DEFINE q == s.p + 1
           p == s.p + L
<1>1. s.p \in Nat /\ L \in Nat \ {0} /\ OldLen \in Nat
  BY FileFacts DEF ScanType, OldLen
<1>2. q \in Nat /\ s.p < q
  BY <1>1
<1>4. ASSUME NEW t, PlanMirrors(t, s), t.done = FALSE
      PROVE  /\ ScanType(roll) /\ roll.p = q /\ roll.src = s.src /\ roll.early = FALSE
             /\ p >= OldLen => PlanMirrors(PlanIterate(t), s) /\ PlanIterate(t).done = TRUE
             /\ p < OldLen => /\ roll.w = WeakInit(OldAt(q))
                              /\ PlanMirrors(PlanIterate(t), e) /\ PlanIterate(t).done = FALSE
             /\ RefIterate([p |-> s.p, src |-> s.src]) = [p |-> q, src |-> s.src]
  BY <1>4, PlanRolls
<1>5. \E t : PlanMirrors(t, s) /\ t.done = FALSE
  BY DEF InStep
<1> HIDE DEF q, p
<1>6. /\ ScanType(roll) /\ roll.p = q /\ roll.src = s.src /\ roll.early = FALSE
      /\ p < OldLen => roll.w = WeakInit(OldAt(q))
      /\ RefIterate([p |-> s.p, src |-> s.src]) = [p |-> q, src |-> s.src]
  BY <1>4, <1>5
<1>7. ASSUME p >= OldLen PROVE EndsAs(s)
  <2>1. PICK st, rs : /\ PlanRun(st) /\ RefRun(rs)
                      /\ \E n \in 0 .. s.p : /\ PlanMirrors(st[n], s) /\ st[n].done = FALSE
                                             /\ rs[n] = [p |-> s.p, src |-> s.src]
    BY DEF InStep
  <2>2. PICK n \in 0 .. s.p : PlanMirrors(st[n], s) /\ st[n].done = FALSE /\ rs[n] = [p |-> s.p, src |-> s.src]
    BY <2>1
  <2> DEFINE k == n + 1
  <2>3. k \in 1 .. OldLen /\ k \in 1 .. OldLen + 1 /\ k - 1 = n /\ k \in 0 .. OldLen + 1 /\ k \in 0 .. OldLen
    BY <1>1, <2>2
  <2> HIDE DEF k
  <2>4. st[k] = PlanIterate(st[n]) /\ rs[k] = RefIterate(rs[n])
    BY <2>1, <2>3, PlanRunAt, RefRunAt
  <2>5. PlanMirrors(st[k], s) /\ st[k].done = TRUE /\ rs[k] = [p |-> q, src |-> s.src]
    BY <1>4, <1>6, <1>7, <2>2, <2>4
  <2>6. rs[k].p = q /\ rs[k].src = s.src /\ st[k].src = s.src /\ st[k].early = s.early
    BY <2>5 DEF PlanMirrors
  <2>7. q + L > OldLen
    BY <1>1, <1>7 DEF p, q
  <2>8. st[OldLen + 1] = st[k]
    BY <2>1, <2>3, <2>5, PlanStays
  <2>9. rs[OldLen] = rs[k]
    BY <2>1, <2>3, <2>6, <2>7, RefStays
  <2> QED BY <2>1, <2>3, <2>6, <2>8, <2>9 DEF EndsAs
<1>8. ASSUME p < OldLen
      PROVE  /\ ScanType(e) /\ e.p = q /\ e.src = s.src /\ e.w = WeakInit(OldAt(q))
             /\ (e.early = FALSE => InStep(e)) /\ (e.early = TRUE => EndsAs(e))
  <2>1. \A t : PlanMirrors(t, s) /\ t.done = FALSE => PlanMirrors(PlanIterate(t), e)
    BY <1>4, <1>8
  <2>2. \A t : PlanMirrors(t, s) /\ t.done = FALSE => PlanIterate(t).done = FALSE
    BY <1>4, <1>8
  <2>3. ScanType(e) /\ e.p = q /\ e.src = s.src /\ e.w = WeakInit(OldAt(q))
    BY <1>6, <1>8, EvaluatedIs
  <2>4. e.p \in Nat /\ s.p < e.p
        /\ RefIterate([p |-> s.p, src |-> s.src]) = [p |-> e.p, src |-> e.src]
    BY <1>2, <1>6, <2>3
  <2>5. (e.early = FALSE => InStep(e)) /\ (e.early = TRUE => EndsAs(e))
    BY <2>1, <2>2, <2>4, NextStep
  <2> QED BY <2>3, <2>5
<1> QED BY <1>7, <1>8 DEF p, q

-----------------------------------------------------------------------------
(* The invariant.                                                          *)

Bounded(v) == Len(v.buf) <= 2 * Chunk + L
WinType(v) == v = [buf |-> v.buf, physBase |-> v.physBase, readErr |-> v.readErr] /\ v.readErr \in BOOLEAN

\* The scan at a window of the old file, with its checksum.
ScanOk(s, v, t) ==
  /\ ScanType(s) /\ s.early = FALSE /\ SrcOk(s.src) /\ t = WrittenOf(s.src)
  /\ Faithful(v) /\ Bounded(v)
  /\ v.physBase <= s.p /\ s.p + L <= v.physBase + Len(v.buf)
  /\ s.w = WeakInit(OldAt(s.p)) /\ InStep(s)

EndOk(s, v, t) ==
  /\ s.early \in BOOLEAN /\ SrcOk(s.src) /\ t = WrittenOf(s.src)
  /\ Bounded(v) /\ EndsAs(s)

ScanStart == [p |-> 0, w |-> [s1 |-> 0, s2 |-> 0], src |-> Unmatched, matchedBytes |-> 0,
              nextEval |-> EarlyStopPrefixBytes(OldLen), early |-> FALSE]

DeltaInv ==
  /\ FilesOk
  /\ stage \in {"sign", "signed", "first", "scan", "emit", "planned", "use", "fallback"}
  /\ WinType(win)
  /\ stage = "sign" => SignInv
  /\ stage # "sign" => SigOk
  /\ stage \in {"sign", "signed", "first"} => win = Closed /\ temp = {}
  /\ stage = "first" => scan = ScanStart /\ ~(NewLen = 0 \/ OldLen < L)
  /\ stage = "scan" /\ win.readErr = FALSE => ScanOk(scan, win, temp)
  /\ stage \in {"emit", "planned", "use"} /\ win.readErr = FALSE => EndOk(scan, win, temp)
  /\ stage \in {"planned", "use"} => plan = PlanOf(scan)
  /\ stage = "use" => win.readErr = FALSE /\ scan.early = FALSE

Lengths(misses) == MapThenSumSet(LAMBDA m : m.len, misses)

\* The parts of the invariant depend on the files, the signatures and their arguments only.
LEMMA SameOk ==
  ASSUME UNCHANGED FileVars
  PROVE  /\ FilesOk' <=> FilesOk
         /\ SigOk' <=> SigOk
         /\ \A s, v, t : ScanOk(s, v, t)' <=> ScanOk(s, v, t)
         /\ \A s, v, t : EndOk(s, v, t)' <=> EndOk(s, v, t)
         /\ \A s : PlanOf(s)' = PlanOf(s)
<1>1. newFile' = newFile /\ oldFile' = oldFile /\ sig' = sig
  BY DEF FileVars
<1>2. NewLen' = NewLen /\ OldLen' = OldLen /\ FullBlocks' = FullBlocks /\ \A p : OldAt(p)' = OldAt(p)
  BY SameMatches
<1>3. \A i, n : Part(i, n)' = Part(i, n)
  BY <1>1 DEF Part
<1>4. FilesOk' <=> FilesOk
  BY <1>1, <1>2 DEF FilesOk
<1>5. SigOk' <=> SigOk
  BY <1>1, <1>2 DEF SigOk
<1>6. \A src : SrcOk(src)' <=> SrcOk(src)
  BY <1>2, <1>3 DEF SrcOk
<1>7. \A src : Matched(src)' = Matched(src) /\ Missing(src)' = Missing(src)
  BY <1>2 DEF Matched, Missing
<1>8. \A src : WrittenOf(src)' = WrittenOf(src)
  BY <1>1, <1>7 DEF WrittenOf
<1>9. \A v : (Faithful(v)' <=> Faithful(v)) /\ (Bounded(v)' <=> Bounded(v))
  BY <1>1, <1>2 DEF Faithful, Bounded
<1>10. \A st : (PlanRun(st)' <=> PlanRun(st)) /\ (RefRun(st)' <=> RefRun(st))
  BY SameRuns
<1>11. \A t, s : PlanMirrors(t, s)' <=> PlanMirrors(t, s)
  BY DEF PlanMirrors, IsPlan
<1>12. \A s : (InStep(s)' <=> InStep(s))
  BY <1>10, <1>11 DEF InStep
<1>13. \A s : (EndsAs(s)' <=> EndsAs(s))
  BY <1>2, <1>10 DEF EndsAs
<1>14. \A s : (ScanType(s)' <=> ScanType(s))
  BY DEF ScanType, IsScan
<1>15. \A s, v, t : ScanOk(s, v, t)' <=> ScanOk(s, v, t)
  BY <1>2, <1>6, <1>8, <1>9, <1>12, <1>14 DEF ScanOk
<1>16. \A s, v, t : EndOk(s, v, t)' <=> EndOk(s, v, t)
  BY <1>2, <1>6, <1>8, <1>9, <1>13 DEF EndOk
<1>17. \A r : MissOp(r)' = MissOp(r)
  BY <1>2 DEF MissOp
<1>18. \A s : PlanOf(s)' = PlanOf(s)
  <2> SUFFICES ASSUME NEW s PROVE PlanOf(s)' = PlanOf(s)
    OBVIOUS
  <2> DEFINE misses == {MissOp(r) : r \in MissRuns(Missing(s.src))}
             copies == {[src |-> s.src[i], off |-> i * L] : i \in Matched(s.src)}
             bytes == MapThenSumSet(LAMBDA m : m.len, misses)
  <2>1. misses' = misses /\ copies' = copies
    BY <1>7, <1>17 DEF MissRuns
  <2>2. bytes' = bytes
    <3> HIDE DEF misses
    <3>1. bytes = Lengths(misses)
      BY DEF Lengths
    <3>2. bytes' = Lengths(misses)'
      BY DEF Lengths
    <3> HIDE DEF bytes
    <3> QED BY <2>1, <3>1, <3>2
  <2>3. PlanOf(s) = IF s.early THEN [NoPlan EXCEPT !.downloadBytes = NewLen]
                    ELSE [copies |-> copies, misses |-> misses, downloadBytes |-> bytes]
    BY DEF PlanOf
  <2>4. PlanOf(s)' = IF s.early THEN [NoPlan EXCEPT !.downloadBytes = NewLen']
                    ELSE [copies |-> copies', misses |-> misses', downloadBytes |-> bytes']
    BY DEF PlanOf, NoPlan
  <2> HIDE DEF misses, copies, bytes
  <2> QED BY <1>2, <2>1, <2>2, <2>3, <2>4
<1> QED BY <1>4, <1>5, <1>15, <1>16, <1>18

\* The files of DeltaInit and StartScan.
LEMMA InitFiles ==
  ASSUME NEW n \in Nat, NEW f \in Files(n)
  PROVE  f \in Seq(Byte) /\ Len(f) <= n
<1>1. PICK k \in 0 .. n : f \in [1 .. k -> Byte]
  BY DEF Files
<1>2. k \in Nat
  BY <1>1
<1>3. f \in Seq(Byte)
  BY <1>1, <1>2
<1>4. Len(f) = k
  BY <1>1, <1>2, <1>3
<1> QED BY <1>1, <1>3, <1>4

\* The invariant holds at first.
LEMMA InitInv == DeltaInit => DeltaInv
<1> HAVE DeltaInit
<1>1. newFile \in Seq(Byte) /\ Len(newFile) <= MaxNew /\ MaxNew \in Nat
  BY DeltaAssumption, InitFiles DEF DeltaInit
<1>2. oldFile \in Seq(Byte)
  BY DEF DeltaInit
<1>3. FilesOk
  BY <1>1, <1>2 DEF FilesOk, NewLen
<1>4. stage = "sign" /\ win = Closed /\ temp = {} /\ signer = Idle
  BY DEF DeltaInit
<1>5. SignInv
  BY <1>3, <1>4, SignStart
<1>6. WinType(win)
  BY <1>4 DEF WinType, Closed
<1> QED BY <1>3, <1>4, <1>5, <1>6 DEF DeltaInv

-----------------------------------------------------------------------------
(* The signer and the start of the scan keep the invariant.                *)

\* SignerUpdate keeps it,
LEMMA UpdateInv ==
  ASSUME DeltaInv, NEW n, SignerUpdate(n)
  PROVE  DeltaInv'
<1>1. UNCHANGED FileVars /\ stage = "sign" /\ stage' = "sign" /\ win' = win /\ temp' = temp
  BY DEF SignerUpdate, FileVars
<1>2. SignInv'
  BY <1>1, UpdateSigns DEF DeltaInv
<1>3. FilesOk' /\ WinType(win)' /\ (win = Closed)' /\ (temp = {})'
  BY <1>1, SameOk DEF DeltaInv, WinType, Closed
<1> QED BY <1>1, <1>2, <1>3 DEF DeltaInv

\* SignerSpan,
LEMMA SpanInv ==
  ASSUME DeltaInv, SignerSpan
  PROVE  DeltaInv'
<1>1. UNCHANGED FileVars /\ stage = "sign" /\ stage' = "sign" /\ win' = win /\ temp' = temp
  BY DEF SignerSpan, FileVars
<1>2. SignInv'
  BY <1>1, SpanSigns DEF DeltaInv
<1>3. FilesOk' /\ WinType(win)' /\ (win = Closed)' /\ (temp = {})'
  BY <1>1, SameOk DEF DeltaInv, WinType, Closed
<1> QED BY <1>1, <1>2, <1>3 DEF DeltaInv

\* and SignerFinish.
LEMMA FinishInv ==
  ASSUME DeltaInv, SignerFinish
  PROVE  DeltaInv'
<1>1. newFile' = newFile /\ oldFile' = oldFile /\ stage = "sign" /\ stage' = "signed" /\ win' = win /\ temp' = temp
  BY DEF SignerFinish
<1>2. sig' = GenerateSignatures(newFile)
  BY <1>1, FinishSigns DEF DeltaInv
<1>3. SigOk'
  BY <1>1, <1>2 DEF SigOk
<1>4. FilesOk' /\ WinType(win)' /\ (win = Closed)' /\ (temp = {})'
  BY <1>1 DEF DeltaInv, WinType, Closed, FilesOk, NewLen
<1> QED BY <1>1, <1>3, <1>4 DEF DeltaInv

\* No block is matched and nothing is written at first.
LEMMA UnmatchedOk == SrcOk(Unmatched) /\ WrittenOf(Unmatched) = {}
<1>1. Unmatched \in [FullBlocks -> Int] /\ \A i \in FullBlocks : Unmatched[i] = -1
  BY DEF Unmatched
<1>2. Matched(Unmatched) = {}
  BY <1>1 DEF Matched
<1> QED BY <1>1, <1>2 DEF SrcOk, WrittenOf

\* StartScan keeps the invariant,
LEMMA StartInv ==
  ASSUME DeltaInv, NEW f \in Files(MaxOld), StartScan(f)
  PROVE  DeltaInv'
<1>1. /\ newFile' = newFile /\ oldFile' = f /\ sig' = sig /\ stage = "signed"
      /\ win' = win /\ temp' = temp /\ win = Closed /\ temp = {} /\ SigOk /\ FilesOk
      /\ stage' \in {"emit", "first"}
  BY DEF StartScan, DeltaInv
<1>2. f \in Seq(Byte)
  BY DeltaAssumption, InitFiles
<1>3. NewLen' = NewLen /\ OldLen' = Len(f) /\ FullBlocks' = FullBlocks /\ Unmatched' = Unmatched
  BY <1>1 DEF NewLen, OldLen, FullBlocks, Unmatched
<1>4. FilesOk' /\ SigOk' /\ WinType(win)' /\ (win = Closed)' /\ (temp = {})'
  <2>1. FilesOk'
    BY <1>1, <1>2, <1>3 DEF FilesOk
  <2>2. SigOk'
    BY <1>1 DEF SigOk
  <2> QED BY <1>1, <2>1, <2>2 DEF DeltaInv, WinType, Closed
<1>5. CASE NewLen = 0 \/ Len(f) < L
  <2>1. stage' = "emit" /\ scan' = [NoScan EXCEPT !.src = Unmatched]
    BY <1>5 DEF StartScan, Unmatched
  <2>2. scan'.src = Unmatched /\ scan'.early = FALSE
    BY <2>1 DEF NoScan
  <2>3. (NewLen = 0 \/ OldLen < L)'
    BY <1>3, <1>5
  <2>4. (FilesOk /\ (NewLen = 0 \/ OldLen < L) => \A s : s.src = Unmatched /\ s.early = FALSE => EndsAs(s))'
    BY StartEnds, PTL
  <2>5. EndsAs(scan)'
    <3> PICK s : s = scan'
      OBVIOUS
    <3>1. s.src = Unmatched' /\ s.early = FALSE
      BY <1>3, <2>2
    <3>2. EndsAs(s)'
      BY <1>4, <2>3, <2>4, <3>1
    <3> QED BY <3>2
  <2>6. (SrcOk(Unmatched) /\ WrittenOf(Unmatched) = {})'
    BY UnmatchedOk, PTL
  <2>7. SrcOk(scan.src)' /\ (temp = WrittenOf(scan.src))'
    BY <1>3, <1>4, <2>2, <2>6
  <2>8. Bounded(win)'
    <3>1. Chunk \in Nat /\ L \in Nat /\ Len(<<>>) = 0
      BY DeltaAssumption
    <3>2. win'.buf = <<>>
      BY <1>1 DEF Closed
    <3> QED BY <3>1, <3>2 DEF Bounded
  <2>9. EndOk(scan, win, temp)'
    BY <2>2, <2>5, <2>7, <2>8 DEF EndOk
  <2> QED BY <1>4, <2>1, <2>9 DEF DeltaInv
<1>6. CASE ~(NewLen = 0 \/ Len(f) < L)
  <2>1. stage' = "first" /\ scan' = [NoScan EXCEPT !.src = Unmatched, !.nextEval = EarlyStopPrefixBytes(Len(f))]
    BY <1>6 DEF StartScan, Unmatched
  <2>2. (~(NewLen = 0 \/ OldLen < L))'
    BY <1>3, <1>6
  <2>3. (scan = ScanStart)'
    BY <1>3, <2>1 DEF ScanStart, NoScan
  <2> QED BY <1>4, <2>1, <2>2, <2>3 DEF DeltaInv
<1> QED BY <1>5, <1>6

\* and FirstWindow.
LEMMA FirstInv ==
  ASSUME DeltaInv, FirstWindow
  PROVE  DeltaInv'
<1>1. UNCHANGED FileVars /\ stage = "first" /\ stage' = "scan" /\ temp' = temp
  BY DEF FirstWindow, FileVars
<1>2. /\ FilesOk /\ SigOk /\ win = Closed /\ temp = {} /\ scan = ScanStart
      /\ ~(NewLen = 0 \/ OldLen < L)
  BY <1>1 DEF DeltaInv
<1>3. PICK v \in LoadTo(win, L) : win' = v /\ scan' = [scan EXCEPT !.w = WeakInit(Window(v, 0))]
  BY DEF FirstWindow
<1>4. FilesOk' /\ SigOk'
  BY <1>1, <1>2, SameOk
<1>5. Faithful(Closed) /\ Closed.physBase = 0 /\ Len(Closed.buf) = 0 /\ Closed.readErr = FALSE
      /\ Closed = [buf |-> Closed.buf, physBase |-> Closed.physBase, readErr |-> Closed.readErr]
  <2>1. OldLen \in Nat
    BY <1>2, FileFacts DEF OldLen
  <2> QED BY <2>1 DEF Faithful, Closed
<1>6. WinType(v)
  BY <1>2, <1>3, <1>5 DEF LoadTo, WinType
<1>7. ASSUME v.readErr = FALSE PROVE ScanOk(scan', v, temp)
  <2>1. L \in Nat \ {0} /\ Chunk \in Nat /\ OldLen \in Nat /\ L <= OldLen
    BY <1>2, FileFacts, DeltaAssumption DEF OldLen
  <2>2. /\ Faithful(v) /\ v.physBase = 0 /\ L <= v.physBase + Len(v.buf)
        /\ Len(v.buf) <= 0 \/ v.physBase + Len(v.buf) <= L + Chunk - 1
    BY <1>2, <1>3, <1>5, <1>7, <2>1, LoadKeeps
  <2>3. Len(v.buf) \in Nat
    BY <2>2 DEF Faithful
  <2>4. Bounded(v)
    BY <2>1, <2>2, <2>3 DEF Bounded
  <2>5. Window(v, 0) = OldAt(0)
    BY <1>2, <2>1, <2>2, WindowIs
  <2> PICK s : s = scan'
    OBVIOUS
  <2>6. s = [p |-> 0, w |-> WeakInit(OldAt(0)), src |-> Unmatched, matchedBytes |-> 0,
             nextEval |-> EarlyStopPrefixBytes(OldLen), early |-> FALSE]
    BY <1>2, <1>3, <2>5 DEF ScanStart
  <2>7. /\ s.p = 0 /\ s.w = WeakInit(OldAt(0)) /\ s.src = Unmatched /\ s.matchedBytes = 0
        /\ s.nextEval = EarlyStopPrefixBytes(OldLen) /\ s.early = FALSE /\ IsScan(s)
    BY <2>6 DEF IsScan
  <2>8. ScanType(s)
    <3>1. s.early \in BOOLEAN
      BY <2>7
    <3>2. s.p \in Nat /\ s.matchedBytes \in Nat
      BY <2>7
    <3> QED BY <2>7, <3>1, <3>2 DEF ScanType
  <2>9. InStep(s)
    BY <1>2, <2>7, StartInStep
  <2>10. SrcOk(s.src) /\ temp = WrittenOf(s.src)
    BY <1>2, <2>7, UnmatchedOk
  <2>11. v.physBase <= s.p /\ s.p + L <= v.physBase + Len(v.buf)
    BY <2>1, <2>2, <2>3, <2>7
  <2>12. s.w = WeakInit(OldAt(s.p))
    BY <2>7
  <2>13. ScanOk(s, v, temp)
    BY <2>2, <2>4, <2>7, <2>8, <2>9, <2>10, <2>11, <2>12 DEF ScanOk
  <2> QED BY <2>13
<1>8. (win.readErr = FALSE => ScanOk(scan, win, temp))'
  <2> PICK s, t : s = scan' /\ t = temp
    OBVIOUS
  <2>1. v.readErr = FALSE => ScanOk(s, v, t)
    BY <1>7
  <2>2. v.readErr = FALSE => ScanOk(s, v, t)'
    BY <1>1, <2>1, SameOk
  <2> QED BY <1>1, <1>3, <2>2
<1>9. WinType(win)'
  <2>1. WinType(v)'
    BY <1>6 DEF WinType
  <2> QED BY <1>3, <2>1
<1> QED BY <1>1, <1>4, <1>8, <1>9 DEF DeltaInv

-----------------------------------------------------------------------------
(* A match keeps the invariant.                                            *)

\* advance() does not touch the read error.
LEMMA ErrKept ==
  ASSUME NEW v, WinType(v), NEW p, NEW u, u = Advance(v, p)
  PROVE  WinType(u) /\ u.readErr = v.readErr
<1> DEFINE b == SubSeq(v.buf, p - v.physBase + 1, Len(v.buf))
<1>1. u = v \/ u = [v EXCEPT !.buf = b, !.physBase = p]
  BY DEF Advance
<1> HIDE DEF b
<1>2. CASE u = [v EXCEPT !.buf = b, !.physBase = p]
  <2>1. u = [buf |-> b, physBase |-> p, readErr |-> v.readErr]
    BY <1>2 DEF WinType
  <2> QED BY <2>1 DEF WinType
<1> QED BY <1>1, <1>2

\* A read error is never cleared.
LEMMA LoadType ==
  ASSUME NEW v, WinType(v), NEW end, NEW u \in LoadTo(v, end)
  PROVE  WinType(u) /\ (u.readErr = FALSE => v.readErr = FALSE)
<1> DEFINE B(e) == v.buf \o SubSeq(oldFile, v.physBase + Len(v.buf) + 1, e)
<1>1. \/ u = v
      \/ v.readErr = FALSE /\ \E e : u = [v EXCEPT !.buf = B(e), !.readErr = FALSE]
      \/ v.readErr = FALSE /\ \E e : u = [v EXCEPT !.buf = B(e), !.readErr = TRUE]
  BY DEF LoadTo, WinType
<1> HIDE DEF B
<1>2. CASE \E e : u = [v EXCEPT !.buf = B(e), !.readErr = FALSE]
  <2>1. PICK e : u = [v EXCEPT !.buf = B(e), !.readErr = FALSE]
    BY <1>2
  <2>2. u = [buf |-> B(e), physBase |-> v.physBase, readErr |-> FALSE]
    BY <2>1 DEF WinType
  <2>3. WinType(u)
    BY <2>2 DEF WinType
  <2> QED BY <1>1, <2>3
<1>3. CASE \E e : u = [v EXCEPT !.buf = B(e), !.readErr = TRUE]
  <2>1. PICK e : u = [v EXCEPT !.buf = B(e), !.readErr = TRUE]
    BY <1>3
  <2>2. u = [buf |-> B(e), physBase |-> v.physBase, readErr |-> TRUE]
    BY <2>1 DEF WinType
  <2>3. WinType(u)
    BY <2>2 DEF WinType
  <2> QED BY <1>1, <2>3
<1> QED BY <1>1, <1>2, <1>3

\* What the scan sees at p is the old file, and the window stays bounded.
LEMMA Sees ==
  ASSUME FilesOk, NEW s, NEW v, NEW t, ScanOk(s, v, t), NEW u, u = Advance(v, s.p)
  PROVE  /\ Faithful(u) /\ Bounded(u) /\ u.physBase <= s.p /\ s.p - u.physBase < Chunk
         /\ s.p + L <= u.physBase + Len(u.buf) /\ Window(u, s.p) = OldAt(s.p)
         /\ s.p \in Nat /\ L \in Nat \ {0} /\ Chunk \in Nat \ {0} /\ OldLen \in Nat /\ s.p + L <= OldLen
         /\ u.physBase \in Nat /\ Len(u.buf) \in Nat
<1>1. /\ s.p \in Nat /\ Faithful(v) /\ Bounded(v) /\ v.physBase <= s.p
      /\ s.p + L <= v.physBase + Len(v.buf)
  BY DEF ScanOk, ScanType
<1>2. L \in Nat \ {0} /\ Chunk \in Nat \ {0} /\ OldLen \in Nat
  BY FileFacts, DeltaAssumption DEF OldLen
<1>3. v.physBase \in Nat /\ Len(v.buf) \in Nat /\ v.physBase + Len(v.buf) <= OldLen
  BY <1>1 DEF Faithful
<1>4. s.p <= v.physBase + Len(v.buf)
  BY <1>1, <1>2, <1>3
<1>5. /\ Faithful(u) /\ u.physBase + Len(u.buf) = v.physBase + Len(v.buf)
      /\ u.physBase <= s.p /\ s.p - u.physBase < Chunk /\ Len(u.buf) <= Len(v.buf)
  BY <1>1, <1>4, AdvanceKeeps
<1>6. u.physBase \in Nat /\ Len(u.buf) \in Nat
  BY <1>5 DEF Faithful
<1>7. Bounded(u)
  BY <1>1, <1>2, <1>3, <1>5, <1>6 DEF Bounded
<1>8. s.p + L <= u.physBase + Len(u.buf)
  BY <1>1, <1>5
<1>9. Window(u, s.p) = OldAt(s.p)
  BY <1>1, <1>5, <1>8, WindowIs
<1>10. s.p + L <= OldLen
  BY <1>1, <1>2, <1>3
<1> QED BY <1>1, <1>2, <1>5, <1>6, <1>7, <1>8, <1>9, <1>10

\* The next window, after a match.
LEMMA SeesNext ==
  ASSUME FilesOk, NEW v, Faithful(v), Bounded(v), NEW p \in Nat, v.physBase <= p, p <= v.physBase + Len(v.buf),
         p + L <= OldLen, NEW u \in LoadTo(Advance(v, p), p + L), u.readErr = FALSE
  PROVE  /\ Faithful(u) /\ Bounded(u) /\ u.physBase <= p /\ p + L <= u.physBase + Len(u.buf)
         /\ Window(u, p) = OldAt(p)
<1> PICK a : a = Advance(v, p)
  OBVIOUS
<1>1. L \in Nat \ {0} /\ Chunk \in Nat \ {0} /\ OldLen \in Nat
  BY FileFacts, DeltaAssumption DEF OldLen
<1>2. v.physBase \in Nat /\ Len(v.buf) \in Nat
  BY DEF Faithful
<1>3. /\ Faithful(a) /\ a.physBase <= p /\ p - a.physBase < Chunk /\ Len(a.buf) <= Len(v.buf)
  BY AdvanceKeeps
<1>4. a.physBase \in Nat /\ Len(a.buf) \in Nat
  BY <1>3 DEF Faithful
<1>5. p + L \in Nat
  BY <1>1
<1>6. /\ Faithful(u) /\ u.physBase = a.physBase /\ p + L <= u.physBase + Len(u.buf)
      /\ Len(u.buf) <= Len(a.buf) \/ u.physBase + Len(u.buf) <= p + L + Chunk - 1
  BY <1>3, <1>5, LoadKeeps
<1>7. Len(u.buf) \in Nat
  BY <1>6 DEF Faithful
<1>8. Bounded(u)
  <2>1. Len(v.buf) <= 2 * Chunk + L
    BY DEF Bounded
  <2> DEFINE lu == Len(u.buf)
             la == Len(a.buf)
             b == a.physBase
             c == 2 * Chunk
  <2>2. lu \in Nat /\ la \in Nat /\ b \in Nat /\ c = Chunk + Chunk /\ p - b < Chunk /\ la <= c + L
        /\ (lu <= la \/ b + lu <= p + L + Chunk - 1)
    BY <1>1, <1>2, <1>3, <1>4, <1>6, <1>7, <2>1
  <2> HIDE DEF lu, la, b, c
  <2>3. lu <= c + L
    BY <1>1, <2>2
  <2> QED BY <2>3 DEF Bounded, lu, c
<1>9. Window(u, p) = OldAt(p)
  BY <1>3, <1>6, WindowIs
<1> QED BY <1>3, <1>6, <1>8, <1>9

BlockBytes(i, b) == {<<i * L + j - 1, b[j]>> : j \in 1 .. L}
HitWith(s, i, w) == [s EXCEPT !.p = s.p + L, !.src[i] = s.p, !.matchedBytes = @ + L, !.w = w]

\* The matches after a match.
LEMMA HitSrc ==
  ASSUME NEW s, ScanType(s), NEW i
  PROVE  HitAgain(s, i).src = Taken(s, i) /\ ScanType(HitAgain(s, i))
<1> DEFINE p == s.p + L
           w == WeakInit(OldAt(p))
           a == HitAgain(s, i)
<1>0. L \in Nat /\ s.p \in Nat /\ p \in Nat /\ IsScan(s) /\ s.matchedBytes \in Nat /\ s.early \in BOOLEAN
  BY DeltaAssumption DEF ScanType
<1>1. a = [s EXCEPT !.p = p, !.src[i] = s.p, !.matchedBytes = @ + L, !.w = w]
  BY DEF HitAgain
<1> HIDE DEF p, w, a
<1>2. /\ IsScan(a) /\ a.p = p /\ a.src = Taken(s, i) /\ a.matchedBytes = s.matchedBytes + L
      /\ a.early = s.early
  BY <1>0, <1>1 DEF IsScan, Taken
<1>3. s.matchedBytes + L \in Nat
  BY <1>0
<1>4. ScanType(a)
  BY <1>0, <1>2, <1>3 DEF ScanType
<1> QED BY <1>2, <1>4 DEF a

\* Whatever the next window is, the scan goes on or ends as it should.
AfterMatch(s, v, i, x) ==
  \A u \in LoadTo(Advance(v, s.p + L), s.p + L + L) : u.readErr = FALSE =>
    \A e : e = Evaluated(HitWith(s, i, WeakInit(Window(u, s.p + L)))) =>
      /\ e.early \in BOOLEAN
      /\ e.early = FALSE => ScanOk(e, u, x)
      /\ e.early = TRUE => EndOk(e, u, x)

\* After a match without a read error, the scan is as the invariant says.
LEMMA MatchedOk ==
  ASSUME FilesOk, SigOk, NEW s, NEW v0, NEW t, ScanOk(s, v0, t), NEW v, v = Advance(v0, s.p),
         NEW i, i = Match(s.src, s.w, Window(v, s.p)), i # NoBlock,
         NEW x, x = t \cup BlockBytes(i, Window(v, s.p))
  PROVE  /\ s.p + L + L > OldLen => EndOk(Hit(s, i), v, x)
         /\ s.p + L + L <= OldLen => AfterMatch(s, v, i, x)
<1> DEFINE p == s.p + L
           src == Taken(s, i)
<1>1. /\ ScanType(s) /\ s.early = FALSE /\ SrcOk(s.src) /\ t = WrittenOf(s.src)
      /\ s.w = WeakInit(OldAt(s.p)) /\ InStep(s)
  BY DEF ScanOk
<1>2. /\ Faithful(v) /\ Bounded(v) /\ v.physBase <= s.p /\ s.p - v.physBase < Chunk
      /\ p <= v.physBase + Len(v.buf) /\ Window(v, s.p) = OldAt(s.p)
      /\ s.p \in Nat /\ L \in Nat \ {0} /\ Chunk \in Nat \ {0} /\ OldLen \in Nat /\ p <= OldLen
      /\ v.physBase \in Nat /\ Len(v.buf) \in Nat
  BY Sees
<1>3. i = Match(s.src, s.w, OldAt(s.p))
  BY <1>2
<1>4. SrcOk(src) /\ x = WrittenOf(src)
  <2> PICK y : y = Taken(s, i)
    OBVIOUS
  <2>1. SrcOk(y) /\ WrittenOf(y) = WrittenOf(s.src) \cup {<<i * L + j - 1, OldAt(s.p)[j]>> : j \in 1 .. L}
    BY <1>1, <1>2, <1>3, MatchStep
  <2> QED BY <1>1, <1>2, <2>1 DEF BlockBytes
<1>5. /\ ScanType(Hit(s, i)) /\ Hit(s, i).src = src /\ Hit(s, i).early = FALSE
      /\ p + L > OldLen => EndsAs(Hit(s, i))
  BY <1>1, <1>2, <1>3, MatchGoesOn, ZenonT(60)
<1>6. p + L > OldLen => EndOk(Hit(s, i), v, x)
  <2> HIDE DEF src, p
  <2>1. Hit(s, i).early \in BOOLEAN
    BY <1>5
  <2> QED BY <1>2, <1>4, <1>5, <2>1 DEF EndOk
<1>7. ASSUME p + L <= OldLen, NEW u \in LoadTo(Advance(v, p), p + L), u.readErr = FALSE,
             NEW e, e = Evaluated(HitWith(s, i, WeakInit(Window(u, p))))
      PROVE  /\ e.early \in BOOLEAN
             /\ e.early = FALSE => ScanOk(e, u, x)
             /\ e.early = TRUE => EndOk(e, u, x)
  <2>1. p \in Nat /\ v.physBase <= p
    BY <1>2
  <2> HIDE DEF p, src
  <2>2. /\ Faithful(u) /\ Bounded(u) /\ u.physBase <= p /\ p + L <= u.physBase + Len(u.buf)
        /\ Window(u, p) = OldAt(p)
    BY <1>2, <1>7, <2>1, SeesNext
  <2>3. e = Evaluated(HitAgain(s, i))
    BY <1>7, <2>2 DEF HitWith, HitAgain, p
  <2>4. /\ ScanType(e) /\ e.p = p /\ e.src = src /\ e.w = WeakInit(OldAt(p))
        /\ (e.early = FALSE => InStep(e)) /\ (e.early = TRUE => EndsAs(e))
    <3>0. s.p + L <= OldLen /\ s.p + L + L <= OldLen
      BY <1>2, <1>7 DEF p
    <3>1. ScanType(e) /\ e.p = s.p + L
      BY <1>1, <1>3, <2>3, <3>0, MatchGoesOn, ZenonT(60)
    <3>2. e.src = Taken(s, i)
      BY <1>1, <2>3, HitSrc, EvaluatedIs
    <3>2a. e.w = WeakInit(OldAt(s.p + L))
      BY <1>1, <1>3, <2>3, <3>0, MatchGoesOn
    <3>3. e.early = FALSE => InStep(e)
      BY <1>1, <1>3, <2>3, <3>0, MatchGoesOn
    <3>4. e.early = TRUE => EndsAs(e)
      BY <1>1, <1>3, <2>3, <3>0, MatchGoesOn
    <3> QED BY <3>1, <3>2, <3>2a, <3>3, <3>4 DEF p, src
  <2>5. e.early \in BOOLEAN
    BY <2>4 DEF ScanType
  <2>6. e.early = FALSE => ScanOk(e, u, x)
    BY <1>4, <2>2, <2>4 DEF ScanOk
  <2>7. e.early = TRUE => EndOk(e, u, x)
    BY <1>4, <2>2, <2>4, <2>5 DEF EndOk
  <2> QED BY <2>5, <2>6, <2>7
<1> QED BY <1>6, <1>7 DEF AfterMatch

-----------------------------------------------------------------------------
(* A roll keeps the invariant.                                             *)

RolledWith(s, w) == [s EXCEPT !.p = s.p + 1, !.w = w]

\* After a roll without a read error, the scan is as the invariant says.
LEMMA RolledOk ==
  ASSUME FilesOk, SigOk, NEW s, NEW v0, NEW t, ScanOk(s, v0, t), NEW v, v = Advance(v0, s.p),
         Match(s.src, s.w, Window(v, s.p)) = NoBlock
  PROVE  /\ s.p + L >= OldLen => EndOk(s, v, t)
         /\ s.p + L < OldLen =>
              \A u \in LoadTo(v, s.p + L + 1) : u.readErr = FALSE =>
                \A e : e = Evaluated(RolledWith(s, WeakRoll(s.w, ByteAt(u, s.p), ByteAt(u, s.p + L)))) =>
                  /\ e.early \in BOOLEAN
                  /\ e.early = FALSE => ScanOk(e, u, t)
                  /\ e.early = TRUE => EndOk(e, u, t)
<1> DEFINE p == s.p + L
           q == s.p + 1
<1>1. /\ ScanType(s) /\ s.early = FALSE /\ SrcOk(s.src) /\ t = WrittenOf(s.src)
      /\ s.w = WeakInit(OldAt(s.p)) /\ InStep(s)
  BY DEF ScanOk
<1>2. /\ Faithful(v) /\ Bounded(v) /\ v.physBase <= s.p /\ s.p - v.physBase < Chunk
      /\ p <= v.physBase + Len(v.buf) /\ Window(v, s.p) = OldAt(s.p)
      /\ s.p \in Nat /\ L \in Nat \ {0} /\ Chunk \in Nat \ {0} /\ OldLen \in Nat /\ p <= OldLen
      /\ v.physBase \in Nat /\ Len(v.buf) \in Nat
  BY Sees
<1>3. Match(s.src, s.w, OldAt(s.p)) = NoBlock
  BY <1>2
<1>4. p >= OldLen => EndOk(s, v, t)
  <2>1. p >= OldLen => EndsAs(s)
    BY <1>1, <1>2, <1>3, RollGoesOn
  <2>2. s.early \in BOOLEAN
    BY <1>1
  <2> HIDE DEF p
  <2> QED BY <1>1, <1>2, <2>1, <2>2 DEF EndOk
<1>5. ASSUME p < OldLen, NEW u \in LoadTo(v, p + 1), u.readErr = FALSE,
             NEW e, e = Evaluated(RolledWith(s, WeakRoll(s.w, ByteAt(u, s.p), ByteAt(u, p))))
      PROVE  /\ e.early \in BOOLEAN
             /\ e.early = FALSE => ScanOk(e, u, t)
             /\ e.early = TRUE => EndOk(e, u, t)
  <2>1. p + 1 \in Nat /\ p + 1 <= OldLen /\ q + L = p + 1 /\ p \in Nat /\ q \in Nat /\ s.p <= p /\ s.p < p + 1 /\ s.p <= q
    BY <1>2, <1>5, SMTT(30)
  <2>2. /\ Faithful(u) /\ u.physBase = v.physBase /\ p + 1 <= u.physBase + Len(u.buf)
        /\ Len(u.buf) <= Len(v.buf) \/ u.physBase + Len(u.buf) <= p + 1 + Chunk - 1
    <3> HIDE DEF p
    <3> QED BY <1>2, <1>5, <2>1, LoadKeeps
  <2>3. Len(u.buf) \in Nat
    BY <2>2 DEF Faithful
  <2>4. Bounded(u)
    <3> DEFINE lu == Len(u.buf)
               lv == Len(v.buf)
               b == v.physBase
               c == 2 * Chunk
               r == s.p
    <3>1. lv <= c + L
      BY <1>2 DEF Bounded
    <3>2. lu \in Nat /\ lv \in Nat /\ b \in Nat /\ r \in Nat /\ c = Chunk + Chunk /\ r - b < Chunk
          /\ (lu <= lv \/ b + lu <= r + L + 1 + Chunk - 1)
      BY <1>2, <2>2, <2>3
    <3> HIDE DEF lu, lv, b, c, r
    <3>3. lu <= c + L
      BY <1>2, <3>1, <3>2
    <3> QED BY <3>3 DEF Bounded, lu, c
  <2>5. ByteAt(u, s.p) = oldFile[s.p + 1] /\ ByteAt(u, p) = oldFile[p + 1]
    <3>1. u.physBase <= s.p /\ s.p < u.physBase + Len(u.buf) /\ u.physBase <= p /\ p < u.physBase + Len(u.buf)
      <4> DEFINE lu == Len(u.buf)
                 b == v.physBase
                 r == s.p
      <4>1. /\ lu \in Nat /\ b \in Nat /\ r \in Nat /\ p \in Nat /\ b <= r /\ r <= p /\ p + 1 <= b + lu
            /\ u.physBase = b
        BY <1>2, <2>1, <2>2, <2>3
      <4> HIDE DEF lu, b, r, p
      <4>2. b <= r /\ r < b + lu /\ b <= p /\ p < b + lu
        BY <4>1
      <4> QED BY <4>1, <4>2 DEF lu, r
    <3> HIDE DEF p
    <3>2. ByteAt(u, s.p) = oldFile[s.p + 1]
      BY <1>2, <2>2, <3>1, ByteAtIs
    <3>3. ByteAt(u, p) = oldFile[p + 1]
      BY <2>1, <2>2, <3>1, ByteAtIs
    <3> QED BY <3>2, <3>3
  <2>6. e = Evaluated(Rolled(s))
    <3>1. e = Evaluated(RolledWith(s, WeakRoll(s.w, oldFile[s.p + 1], oldFile[p + 1])))
      BY <1>5, <2>5
    <3> QED BY <3>1 DEF RolledWith, Rolled
  <2>7. ScanType(e) /\ e.p = s.p + 1
    BY <1>1, <1>2, <1>3, <1>5, <2>6, RollGoesOn
  <2>8. e.src = s.src
    BY <1>1, <1>2, <1>3, <1>5, <2>6, RollGoesOn, ZenonT(60)
  <2>9. e.w = WeakInit(OldAt(s.p + 1))
    BY <1>1, <1>2, <1>3, <1>5, <2>6, RollGoesOn
  <2>10. e.early = FALSE => InStep(e)
    BY <1>1, <1>2, <1>3, <1>5, <2>6, RollGoesOn
  <2>11. e.early = TRUE => EndsAs(e)
    BY <1>1, <1>2, <1>3, <1>5, <2>6, RollGoesOn
  <2>12. u.physBase <= e.p /\ e.p + L <= u.physBase + Len(u.buf)
    <3>1. e.p = q
      BY <2>7
    <3> HIDE DEF p, q
    <3> QED BY <1>2, <2>1, <2>2, <2>3, <3>1
  <2>13. e.w = WeakInit(OldAt(e.p))
    BY <2>7, <2>9
  <2>14. e.early \in BOOLEAN
    BY <2>7 DEF ScanType
  <2> HIDE DEF p, q
  <2>15. e.early = FALSE => ScanOk(e, u, t)
    BY <1>1, <2>2, <2>4, <2>7, <2>8, <2>10, <2>12, <2>13 DEF ScanOk
  <2>16. e.early = TRUE => EndOk(e, u, t)
    BY <1>1, <2>4, <2>8, <2>11, <2>14 DEF EndOk
  <2> QED BY <2>14, <2>15, <2>16
<1> QED BY <1>4, <1>5

-----------------------------------------------------------------------------
(* The steps of the scan, the emission and the verdict.                    *)

\* A step of the scan: what holds of the new values holds in the new state.
LEMMA ScanStepInv ==
  ASSUME DeltaInv, UNCHANGED FileVars, stage = "scan", WinType(win'),
         stage' \in {"scan", "emit"},
         NEW e, NEW u, NEW x, e = scan', u = win', x = temp',
         u.readErr = FALSE => /\ stage' = "scan" => ScanOk(e, u, x)
                              /\ stage' = "emit" => EndOk(e, u, x)
  PROVE  DeltaInv'
<1>1. FilesOk' /\ SigOk'
  BY SameOk DEF DeltaInv
<1>2. WinType(win)'
  BY DEF WinType
<1>3. /\ ScanOk(e, u, x)' <=> ScanOk(e, u, x)
      /\ EndOk(e, u, x)' <=> EndOk(e, u, x)
  BY SameOk
<1>4. (stage = "scan" /\ win.readErr = FALSE => ScanOk(scan, win, temp))'
  BY <1>3
<1>5. (stage = "emit" /\ win.readErr = FALSE => EndOk(scan, win, temp))'
  BY <1>3
<1> QED BY <1>1, <1>2, <1>4, <1>5 DEF DeltaInv

\* ScanMatches keeps the invariant,
LEMMA MatchesInv ==
  ASSUME DeltaInv, ScanMatches
  PROVE  DeltaInv'
<1> PICK v : v = Advance(win, scan.p)
  OBVIOUS
<1> PICK i : i = Match(scan.src, scan.w, Window(v, scan.p))
  OBVIOUS
<1> PICK x : x = temp'
  OBVIOUS
<1> DEFINE p == scan.p + L
<1>1. /\ UNCHANGED FileVars /\ stage = "scan" /\ i # NoBlock
      /\ x = temp \cup BlockBytes(i, Window(v, scan.p))
  BY DEF ScanMatches, FileVars, BlockBytes
<1>2. FilesOk /\ SigOk /\ WinType(win) /\ (win.readErr = FALSE => ScanOk(scan, win, temp))
  BY <1>1 DEF DeltaInv
<1>3. WinType(v) /\ v.readErr = win.readErr
  BY <1>2, ErrKept
<1>4. CASE p + L > OldLen
  <2>1. win' = v /\ stage' = "emit" /\ scan' = Hit(scan, i)
    BY <1>4 DEF ScanMatches, Hit, OldLen
  <2> PICK e : e = scan'
    OBVIOUS
  <2>2. v.readErr = FALSE => EndOk(e, v, x)
    <3> SUFFICES ASSUME v.readErr = FALSE PROVE EndOk(e, v, x)
      OBVIOUS
    <3>1. ScanOk(scan, win, temp)
      BY <1>2, <1>3
    <3>2. EndOk(Hit(scan, i), v, x)
      BY <1>1, <1>2, <1>4, <3>1, MatchedOk
    <3> QED BY <2>1, <3>2
  <2> QED BY <1>1, <1>3, <2>1, <2>2, ScanStepInv
<1>5. CASE ~(p + L > OldLen)
  <2>1. PICK u \in LoadTo(Advance(v, p), p + L) :
          LET s == Evaluated([scan EXCEPT !.p = p, !.src[i] = scan.p,
                                 !.matchedBytes = @ + L, !.w = WeakInit(Window(u, p))])
          IN  win' = u /\ scan' = s /\ stage' = IF s.early THEN "emit" ELSE "scan"
    BY <1>5 DEF ScanMatches, OldLen
  <2> PICK e : e = scan'
    OBVIOUS
  <2>2. /\ win' = u /\ e = Evaluated(HitWith(scan, i, WeakInit(Window(u, p))))
        /\ stage' = IF e.early THEN "emit" ELSE "scan"
    BY <2>1 DEF HitWith
  <2>3. WinType(Advance(v, p)) /\ Advance(v, p).readErr = v.readErr
    BY <1>3, ErrKept
  <2>4. WinType(u) /\ (u.readErr = FALSE => v.readErr = FALSE)
    <3> PICK a : a = Advance(v, p)
      OBVIOUS
    <3>1. WinType(a) /\ a.readErr = v.readErr /\ u \in LoadTo(a, p + L)
      BY <2>1, <2>3
    <3> QED BY <3>1, LoadType
  <2>5. u.readErr = FALSE => /\ stage' = "scan" => ScanOk(e, u, x)
                             /\ stage' = "emit" => EndOk(e, u, x)
    <3> SUFFICES ASSUME u.readErr = FALSE
                 PROVE  /\ stage' = "scan" => ScanOk(e, u, x)
                        /\ stage' = "emit" => EndOk(e, u, x)
      OBVIOUS
    <3>1. ScanOk(scan, win, temp)
      BY <1>2, <1>3, <2>4
    <3>2. p + L <= OldLen
      <4>1. scan.p \in Nat /\ L \in Nat /\ OldLen \in Nat
        BY <1>2, <3>1, Sees
      <4> QED BY <1>5, <4>1
    <3>3. AfterMatch(scan, v, i, x)
      BY <1>1, <1>2, <3>1, <3>2, MatchedOk
    <3>4. /\ e.early \in BOOLEAN
          /\ e.early = FALSE => ScanOk(e, u, x)
          /\ e.early = TRUE => EndOk(e, u, x)
      BY <2>1, <2>2, <3>3 DEF AfterMatch
    <3> QED BY <2>2, <3>4
  <2>6. stage' \in {"scan", "emit"}
    BY <2>2
  <2> QED BY <1>1, <2>2, <2>4, <2>5, <2>6, ScanStepInv
<1> QED BY <1>4, <1>5

\* ScanRolls,
LEMMA RollsInv ==
  ASSUME DeltaInv, ScanRolls
  PROVE  DeltaInv'
<1> PICK v : v = Advance(win, scan.p)
  OBVIOUS
<1> PICK x : x = temp'
  OBVIOUS
<1> DEFINE p == scan.p + L
<1>1. /\ UNCHANGED FileVars /\ stage = "scan" /\ x = temp
      /\ Match(scan.src, scan.w, Window(v, scan.p)) = NoBlock
  BY DEF ScanRolls, FileVars
<1>2. FilesOk /\ SigOk /\ WinType(win) /\ (win.readErr = FALSE => ScanOk(scan, win, temp))
  BY <1>1 DEF DeltaInv
<1>3. WinType(v) /\ v.readErr = win.readErr
  BY <1>2, ErrKept
<1>4. CASE p >= OldLen
  <2>1. win' = v /\ stage' = "emit" /\ scan' = scan
    BY <1>4 DEF ScanRolls, OldLen
  <2> PICK e : e = scan'
    OBVIOUS
  <2>2. v.readErr = FALSE => EndOk(e, v, x)
    <3> SUFFICES ASSUME v.readErr = FALSE PROVE EndOk(e, v, x)
      OBVIOUS
    <3>1. ScanOk(scan, win, temp)
      BY <1>2, <1>3
    <3>2. EndOk(scan, v, temp)
      BY <1>1, <1>2, <1>4, <3>1, RolledOk
    <3> QED BY <1>1, <2>1, <3>2
  <2> QED BY <1>1, <1>3, <2>1, <2>2, ScanStepInv
<1>5. CASE ~(p >= OldLen)
  <2>1. PICK u \in LoadTo(v, p + 1) :
          LET w == WeakRoll(scan.w, ByteAt(u, scan.p), ByteAt(u, p))
              s == Evaluated([scan EXCEPT !.p = scan.p + 1, !.w = w])
          IN  win' = u /\ scan' = s /\ stage' = IF s.early THEN "emit" ELSE "scan"
    BY <1>5 DEF ScanRolls, OldLen
  <2> PICK e : e = scan'
    OBVIOUS
  <2>2. /\ win' = u /\ e = Evaluated(RolledWith(scan, WeakRoll(scan.w, ByteAt(u, scan.p), ByteAt(u, p))))
        /\ stage' = IF e.early THEN "emit" ELSE "scan"
    BY <2>1 DEF RolledWith
  <2>4. WinType(u) /\ (u.readErr = FALSE => v.readErr = FALSE)
    BY <1>3, <2>1, LoadType
  <2>5. u.readErr = FALSE => /\ stage' = "scan" => ScanOk(e, u, x)
                             /\ stage' = "emit" => EndOk(e, u, x)
    <3> SUFFICES ASSUME u.readErr = FALSE
                 PROVE  /\ stage' = "scan" => ScanOk(e, u, x)
                        /\ stage' = "emit" => EndOk(e, u, x)
      OBVIOUS
    <3>1. ScanOk(scan, win, temp)
      BY <1>2, <1>3, <2>4
    <3>2. p < OldLen
      <4>1. scan.p \in Nat /\ L \in Nat /\ OldLen \in Nat
        BY <1>2, <3>1, Sees
      <4> QED BY <1>5, <4>1
    <3>3. /\ e.early \in BOOLEAN
          /\ e.early = FALSE => ScanOk(e, u, temp)
          /\ e.early = TRUE => EndOk(e, u, temp)
      BY <1>1, <1>2, <2>1, <2>2, <3>1, <3>2, RolledOk
    <3> QED BY <1>1, <2>2, <3>3
  <2>6. stage' \in {"scan", "emit"}
    BY <2>2
  <2> QED BY <1>1, <2>2, <2>4, <2>5, <2>6, ScanStepInv
<1> QED BY <1>4, <1>5

\* and Emit.
LEMMA EmitInv ==
  ASSUME DeltaInv, Emit
  PROVE  DeltaInv'
<1>1. UNCHANGED FileVars /\ stage = "emit" /\ stage' = "planned" /\ scan' = scan /\ win' = win /\ temp' = temp
      /\ plan' = PlanOf(scan)
  BY DEF Emit, FileVars
<1> PICK e, u, x : e = scan /\ u = win /\ x = temp
  OBVIOUS
<1>2. FilesOk' /\ SigOk' /\ WinType(win)'
  BY <1>1, SameOk DEF DeltaInv, WinType
<1>3. u.readErr = FALSE => EndOk(e, u, x)
  BY <1>1 DEF DeltaInv
<1>4. u.readErr = FALSE => EndOk(e, u, x)'
  BY <1>1, <1>3, SameOk
<1>5. (win.readErr = FALSE => EndOk(scan, win, temp))'
  BY <1>1, <1>4
<1>6. PlanOf(e)' = PlanOf(e)
  BY <1>1, SameOk
<1>7. (plan = PlanOf(scan))'
  BY <1>1, <1>6
<1> QED BY <1>1, <1>2, <1>5, <1>7 DEF DeltaInv

\* A product below the word size is not cut.
LEMMA SmallMod ==
  ASSUME NEW m \in Nat \ {0}, NEW a \in Nat, a < m
  PROVE  a % m = a
<1> DEFINE q == a \div m
           r == a % m
<1>0. a \in Int
  OBVIOUS
<1>1. r = a - q * m /\ r \in 0 .. m - 1 /\ q \in Int /\ q * m \in Int
  BY <1>0, Division
<1> HIDE DEF q, r
<1>2. q * m + r = 0 * m + a /\ 0 * m = 0 /\ a \in 0 .. m - 1
  BY <1>1
<1>3. r = a
  BY <1>1, <1>2, OneQuotient
<1> QED BY <1>3 DEF r

\* Downloading the whole file brings no benefit.
LEMMA WholeIsRejected ==
  ASSUME FilesOk
  PROVE  BenefitRejected(NewLen, NewLen)
<1>1. NewLen \in Nat /\ NewLen <= MaxNew /\ MaxNew \in Nat /\ Word \in Nat \ {0} /\ MaxNew * 100 < Word
  BY FileFacts, DeltaAssumption DEF FilesOk
<1>2. NewLen * 100 \in Nat /\ NewLen * 65 \in Nat /\ NewLen * 65 <= NewLen * 100 /\ NewLen * 100 < Word
  BY <1>1
<1> DEFINE a == NewLen * 100
           b == NewLen * 65
<1>3. a \in Nat /\ b \in Nat /\ b <= a /\ a < Word
  BY <1>2
<1> HIDE DEF a, b
<1>4. a % Word = a /\ b % Word = b
  BY <1>1, <1>3, SmallMod
<1>5. a % Word >= b % Word
  BY <1>3, <1>4
<1> QED BY <1>5 DEF BenefitRejected, a, b

\* Decide keeps the invariant: it never uses the plan of an early stop.
LEMMA DecideInv ==
  ASSUME DeltaInv, Decide
  PROVE  DeltaInv'
<1>1. UNCHANGED FileVars /\ stage = "planned" /\ scan' = scan /\ win' = win /\ temp' = temp /\ plan' = plan
      /\ stage' \in {"fallback", "use"}
  BY DEF Decide, FileVars
<1>2. stage' = "use" => ~win.readErr /\ ~BenefitRejected(plan.downloadBytes, NewLen)
  BY DEF Decide
<1> PICK e, u, x : e = scan /\ u = win /\ x = temp
  OBVIOUS
<1>3. FilesOk' /\ SigOk' /\ WinType(win)' /\ FilesOk
  BY <1>1, SameOk DEF DeltaInv, WinType
<1>4. (u.readErr = FALSE => EndOk(e, u, x)) /\ plan = PlanOf(e) /\ WinType(u)
  BY <1>1 DEF DeltaInv
<1>5. u.readErr = FALSE => EndOk(e, u, x)'
  BY <1>1, <1>4, SameOk
<1>6. (win.readErr = FALSE => EndOk(scan, win, temp))'
  BY <1>1, <1>5
<1>7. (plan = PlanOf(scan))'
  <2>1. PlanOf(e)' = PlanOf(e)
    BY <1>1, SameOk
  <2> QED BY <1>1, <1>4, <2>1
<1>8. stage' = "use" => win'.readErr = FALSE /\ scan'.early = FALSE
  <2> SUFFICES ASSUME stage' = "use" PROVE u.readErr = FALSE /\ e.early = FALSE
    BY <1>1
  <2>1. u.readErr = FALSE
    BY <1>2, <1>4 DEF WinType
  <2>2. e.early \in BOOLEAN
    BY <1>4, <2>1 DEF EndOk
  <2>3. e.early => plan.downloadBytes = NewLen
    BY <1>4 DEF PlanOf, NoPlan
  <2>4. ~e.early
    BY <1>2, <1>3, <2>3, WholeIsRejected
  <2> QED BY <2>1, <2>2, <2>4
<1> QED BY <1>1, <1>3, <1>6, <1>7, <1>8 DEF DeltaInv

\* A stuttering step keeps the invariant.
LEMMA KeepsInv ==
  ASSUME DeltaInv, UNCHANGED dvars
  PROVE  DeltaInv'
<1>1. UNCHANGED FileVars /\ stage' = stage /\ scan' = scan /\ win' = win /\ temp' = temp /\ plan' = plan /\ signer' = signer
  BY DEF dvars, FileVars
<1> PICK e, u, x : e = scan /\ u = win /\ x = temp
  OBVIOUS
<1>2. FilesOk' /\ (SigOk' <=> SigOk) /\ WinType(win)'
  BY <1>1, SameOk DEF DeltaInv, WinType
<1>3. (ScanOk(e, u, x)' <=> ScanOk(e, u, x)) /\ (EndOk(e, u, x)' <=> EndOk(e, u, x)) /\ PlanOf(e)' = PlanOf(e)
  BY <1>1, SameOk
<1>4. (ScanOk(scan, win, temp)' <=> ScanOk(scan, win, temp)) /\ (EndOk(scan, win, temp)' <=> EndOk(scan, win, temp))
      /\ PlanOf(scan)' = PlanOf(scan)
  BY <1>1, <1>3
<1>5. SignInv' <=> SignInv
  <2>1. newFile' = newFile
    BY <1>1 DEF FileVars
  <2>2. NewLen' = NewLen /\ \A i, k : Part(i, k)' = Part(i, k)
    BY <2>1 DEF NewLen, Part
  <2>3. \A k : BlockSig(k)' = BlockSig(k)
    BY <2>2 DEF BlockSig
  <2> QED BY <1>1, <2>2, <2>3 DEF SignInv
<1>6. (scan = ScanStart /\ ~(NewLen = 0 \/ OldLen < L))' <=> (scan = ScanStart /\ ~(NewLen = 0 \/ OldLen < L))
  BY <1>1, SameMatches DEF ScanStart, Unmatched
<1>7. Closed' = Closed
  BY DEF Closed
<1> QED BY <1>1, <1>2, <1>4, <1>5, <1>6, <1>7 DEF DeltaInv

\* Every step keeps the invariant.
LEMMA NextInv ==
  ASSUME DeltaInv, [DeltaNext]_dvars
  PROVE  DeltaInv'
<1>1. CASE \E n \in 1 .. MaxNew : SignerUpdate(n)
  BY <1>1, UpdateInv
<1>2. CASE SignerSpan
  BY <1>2, SpanInv
<1>3. CASE SignerFinish
  BY <1>3, FinishInv
<1>4. CASE \E f \in Files(MaxOld) : StartScan(f)
  BY <1>4, StartInv
<1>5. CASE FirstWindow
  BY <1>5, FirstInv
<1>6. CASE ScanMatches
  BY <1>6, MatchesInv
<1>7. CASE ScanRolls
  BY <1>7, RollsInv
<1>8. CASE Emit
  BY <1>8, EmitInv
<1>9. CASE Decide
  BY <1>9, DecideInv
<1>10. CASE UNCHANGED dvars
  BY <1>10, KeepsInv
<1> QED BY <1>1, <1>2, <1>3, <1>4, <1>5, <1>6, <1>7, <1>8, <1>9, <1>10 DEF DeltaNext

\* The inductive invariant of the delta, for all alphabets, file lengths, block, chunk
\* and slice sizes, moduli and thresholds: the blocks signed so far are those of the new
\* file however it was cut into segments; until a read fails, the window holds a bounded
\* stretch of the old file around the cursor and the rolled checksum is the checksum of
\* the window; each matched block has equal bytes in the old file and the temp file holds
\* exactly the matched blocks; and BuildPlan and the byte-by-byte reference reach the
\* same state after as many iterations (StreamingSigner, SlidingWindow and
\* BuildPlanStreaming in delta.cpp).
THEOREM DeltaInvariant == DeltaSpec => []DeltaInv
<1>1. DeltaInit => DeltaInv
  BY InitInv
<1>2. DeltaInv /\ [DeltaNext]_dvars => DeltaInv'
  BY NextInv
<1> QED BY <1>1, <1>2, PTL DEF DeltaSpec

-----------------------------------------------------------------------------
(* The streaming scan agrees with the scans of the whole file.             *)

\* The plan depends on the matches and the early stop only.
LEMMA SamePlan ==
  ASSUME NEW a, NEW b, a.src = b.src, a.early = b.early
  PROVE  PlanOf(a) = PlanOf(b)
  BY DEF PlanOf

\* The reference after n iterations.
LEMMA ReferenceAt ==
  ASSUME FilesOk, NEW rs, RefRun(rs), NEW n \in 0 .. OldLen
  PROVE  Reference[n] = rs[n].src /\ Reference[n] \in Range(Reference)
<1>1. Reference[n] = RefStates[n].src /\ DOMAIN Reference = 0 .. OldLen
  BY ReferenceIs
<1>2. RefStates[n] = rs[n]
  BY RefRunIs
<1>3. Reference[n] \in Range(Reference)
  BY <1>1 DEF Range
<1> QED BY <1>1, <1>2, <1>3

\* The scan in progress has matched what the reference has.
LEMMA ScanAgrees ==
  ASSUME FilesOk, NEW s, NEW v, NEW t, ScanOk(s, v, t)
  PROVE  s.src \in Range(Reference)
<1>1. ScanType(s) /\ InStep(s) /\ s.p \in Nat
  BY DEF ScanOk, ScanType
<1>2. PICK st, rs : /\ PlanRun(st) /\ RefRun(rs)
                    /\ \E n \in 0 .. s.p : /\ PlanMirrors(st[n], s) /\ st[n].done = FALSE
                                           /\ rs[n] = [p |-> s.p, src |-> s.src]
  BY <1>1 DEF InStep
<1>3. PICK n \in 0 .. s.p : rs[n] = [p |-> s.p, src |-> s.src]
  BY <1>2
<1>4. OldLen \in Nat /\ s.p + L <= OldLen /\ L \in Nat
  BY Sees
<1>5. n \in 0 .. OldLen
  BY <1>1, <1>4
<1>6. rs[n].src = s.src
  BY <1>3
<1> QED BY <1>2, <1>5, <1>6, ReferenceAt

\* At the end of the scan.
LEMMA EndAgrees ==
  ASSUME FilesOk, NEW s, NEW v, NEW t, EndOk(s, v, t)
  PROVE  /\ PlanOf(s) = BuildPlan /\ s.src \in Range(Reference)
         /\ s.early = FALSE => s.src = Reference[OldLen]
<1>1. PICK st, rs : /\ PlanRun(st) /\ RefRun(rs)
                    /\ st[OldLen + 1].src = s.src /\ st[OldLen + 1].early = s.early
                    /\ \E n \in 0 .. OldLen : rs[n].src = s.src
                    /\ s.early = FALSE => rs[OldLen].src = s.src
  BY DEF EndOk, EndsAs
<1>2. OldLen \in Nat
  BY FileFacts DEF OldLen
<1> PICK z : z = PlanStates[OldLen + 1]
  OBVIOUS
<1>3. z = st[OldLen + 1]
  <2>1. OldLen + 1 \in 0 .. OldLen + 1
    BY <1>2
  <2> QED BY <1>1, <2>1, PlanRunIs
<1>4. BuildPlan = PlanOf(z)
  BY PlanIs
<1>5. PlanOf(z) = PlanOf(s)
  <2>1. z.src = s.src /\ z.early = s.early
    BY <1>1, <1>3
  <2> QED BY <2>1, SamePlan
<1>6. s.src \in Range(Reference)
  BY <1>1, ReferenceAt
<1>7. s.early = FALSE => s.src = Reference[OldLen]
  <2>1. OldLen \in 0 .. OldLen
    BY <1>2
  <2> QED BY <1>1, <2>1, ReferenceAt
<1> QED BY <1>4, <1>5, <1>6, <1>7

\* The invariant implies the property.
LEMMA InvAgrees == DeltaInv => StreamingAgrees
<1> HAVE DeltaInv
<1>1. FilesOk /\ WinType(win) /\ win.readErr \in BOOLEAN
  BY DEF DeltaInv, WinType
<1>2. stage = "signed" => sig = GenerateSignatures(newFile)
  BY DEF DeltaInv, SigOk
<1>3. ASSUME stage = "planned", ~win.readErr PROVE plan = BuildPlan
  <2>1. EndOk(scan, win, temp) /\ plan = PlanOf(scan)
    BY <1>1, <1>3 DEF DeltaInv
  <2> QED BY <1>1, <2>1, EndAgrees
<1>4. ASSUME stage = "scan", ~win.readErr
      PROVE  /\ scan.src \in Range(Reference)
             /\ scan.w = WeakInit(SubSeq(oldFile, scan.p + 1, scan.p + L))
             /\ Len(win.buf) <= 2 * Chunk + L
  <2>1. ScanOk(scan, win, temp)
    BY <1>1, <1>4 DEF DeltaInv
  <2>2. scan.w = WeakInit(OldAt(scan.p)) /\ Bounded(win)
    BY <2>1 DEF ScanOk
  <2>3. scan.src \in Range(Reference)
    BY <1>1, <2>1, ScanAgrees
  <2> QED BY <2>2, <2>3 DEF OldAt, Bounded
<1>5. ASSUME stage = "emit", ~win.readErr
      PROVE  /\ scan.src \in Range(Reference)
             /\ ~scan.early => scan.src = Reference[Len(oldFile)]
             /\ Len(win.buf) <= 2 * Chunk + L
  <2>1. EndOk(scan, win, temp)
    BY <1>1, <1>5 DEF DeltaInv
  <2>2. scan.early \in BOOLEAN /\ Bounded(win)
    BY <2>1 DEF EndOk
  <2>3. scan.src \in Range(Reference) /\ (scan.early = FALSE => scan.src = Reference[OldLen])
    BY <1>1, <2>1, EndAgrees
  <2> QED BY <2>2, <2>3 DEF OldLen, Bounded
<1> QED BY <1>2, <1>3, <1>4, <1>5 DEF StreamingAgrees

\* AC-02/AC-03 for every value of the constants: the streaming signatures are those of
\* GenerateSignatures, the rolled checksum is the one computed afresh, the window is
\* bounded, the matches are those of the byte-by-byte reference and the streaming plan is
\* the plan of BuildPlan, early stop included.
THEOREM StreamingIsExact == DeltaSpec => []StreamingAgrees
  BY DeltaInvariant, InvAgrees, PTL

-----------------------------------------------------------------------------
(* Bytes and blocks.                                                       *)

\* k \div m is the greatest number whose multiple is at most k.
LEMMA Quotient ==
  ASSUME NEW m \in Nat \ {0}, NEW k \in Nat
  PROVE  /\ k \div m \in Nat
         /\ \A n \in Int : n <= k \div m <=> n * m <= k
<1> DEFINE q == k \div m
           r == k % m
<1>0. k \in Int
  OBVIOUS
<1>1. r = k - q * m /\ r \in 0 .. m - 1 /\ q \in Int /\ q * m \in Int
  BY <1>0, Division
<1> HIDE DEF q, r
<1> DEFINE qm == q * m
<1>2. qm \in Int /\ qm <= k /\ k < qm + m
  BY <1>1
<1> HIDE DEF qm
<1>3. ASSUME NEW n \in Int PROVE n <= q <=> n * m <= k
  <2>1. CASE n <= q
    <3>1. n * m <= q * m /\ n * m \in Int
      BY <1>1, <2>1, Larger
    <3> QED BY <1>2, <2>1, <3>1 DEF qm
  <2>2. CASE ~(n <= q)
    <3>1. q + 1 <= n
      BY <1>1, <2>2
    <3>2. (q + 1) * m <= n * m /\ n * m \in Int
      BY <1>1, <3>1, Larger
    <3>3. (q + 1) * m = qm + m
      BY <1>1, Distribute DEF qm
    <3> DEFINE nm == n * m
    <3>4. qm + m <= nm /\ nm \in Int
      BY <3>2, <3>3
    <3> HIDE DEF nm
    <3>5. ~(nm <= k)
      BY <1>2, <3>4
    <3> QED BY <2>2, <3>5 DEF nm
  <2> QED BY <2>1, <2>2
<1>4. q \in Nat
  <2>1. 0 * m = 0 /\ 0 <= q <=> 0 * m <= k
    BY <1>3
  <2>2. 0 <= q
    <3>1. 0 <= q <=> 0 * m <= k
      BY <1>3
    <3>2. 0 * m = 0
      OBVIOUS
    <3> QED BY <3>1, <3>2
  <2> QED BY <1>1, <2>2
<1> QED BY <1>3, <1>4 DEF q

\* The byte k of block i.
LEMMA InBlock ==
  ASSUME FilesOk, NEW k \in Nat
  PROVE  /\ k \div L \in Nat /\ (k \div L) * L \in Nat /\ (k \div L) * L <= k /\ k < (k \div L) * L + L
         /\ k < NewLen => k \div L < BlockCount(NewLen)
         /\ \A i \in Nat : i * L <= k /\ k < i * L + L => i = k \div L
<1>1. L \in Nat \ {0} /\ NewLen \in Nat
  BY FileFacts
<1> DEFINE q == k \div L
<1>2. q \in Nat /\ \A n \in Int : n <= q <=> n * L <= k
  BY <1>1, Quotient
<1> HIDE DEF q
<1>3. q * L <= k /\ ~((q + 1) * L <= k)
  <2>1. q \in Int /\ q <= q /\ q + 1 \in Int /\ ~(q + 1 <= q)
    BY <1>2
  <2> QED BY <1>2, <2>1
<1>4. q * L \in Nat /\ (q + 1) * L = q * L + L
  BY <1>1, <1>2, BlockLenIs
<1>5. k < q * L + L
  BY <1>1, <1>3, <1>4
<1>6. k < NewLen => q < BlockCount(NewLen)
  <2>1. q < BlockCount(NewLen) <=> q * L < NewLen
    BY <1>1, <1>2, BlocksOf
  <2> QED BY <1>1, <1>3, <1>4, <2>1
<1>7. ASSUME NEW i \in Nat, i * L <= k, k < i * L + L PROVE i = q
  <2>1. i <= q
    BY <1>2, <1>7
  <2>2. i + 1 \in Int /\ (i + 1) * L = i * L + L /\ i * L \in Nat
    BY <1>1, BlockLenIs
  <2>3. ~((i + 1) * L <= k)
    BY <1>1, <1>7, <2>2
  <2>4. ~(i + 1 <= q)
    BY <1>2, <2>2, <2>3
  <2> QED BY <1>2, <2>1, <2>4
<1> QED BY <1>2, <1>3, <1>4, <1>5, <1>6, <1>7 DEF q

-----------------------------------------------------------------------------
(* Runs of missing blocks.                                                 *)

BytesOf(m) == m.off .. m.off + m.len - 1

\* The bytes of a run are those of its blocks.
LEMMA RunBytes ==
  ASSUME FilesOk, NEW M, M \subseteq 0 .. BlockCount(NewLen) - 1, NEW r \in MissRuns(M)
  PROVE  LET m == MissOp(r)
         IN  /\ m.off \in Nat /\ m.len \in Nat /\ m.len >= 1 /\ m.off + m.len <= NewLen
             /\ \A k \in Nat : k \in BytesOf(m) <=> k < NewLen /\ k \div L \in r[1] .. r[2]
<1>1. L \in Nat \ {0} /\ NewLen \in Nat
  BY FileFacts
<1> DEFINE a == r[1]
           b == r[2]
           aL == a * L
           eL == (b + 1) * L
           end == Min({NewLen, eL})
           c == BlockCount(NewLen)
           m == MissOp(r)
<1>2. a \in M /\ b \in M /\ a <= b
  BY DEF MissRuns
<1>3. c \in Nat /\ \A i \in Nat : i < c <=> i * L < NewLen
  BY <1>1, BlocksOf
<1>4. a \in Nat /\ b \in Nat /\ a < c /\ b < c
  <2> HIDE DEF a, b, c
  <2>1. a \in 0 .. c - 1 /\ b \in 0 .. c - 1
    BY <1>2 DEF c
  <2> QED BY <1>3, <2>1
<1> HIDE DEF a, b, c
<1>5. aL \in Nat /\ aL < NewLen /\ (a + 1) * L = aL + L /\ a + 1 \in Int
  BY <1>1, <1>3, <1>4, BlockLenIs
<1>6. eL \in Int /\ (a + 1) * L <= eL
  <2>1. a + 1 \in Int /\ b + 1 \in Int /\ a + 1 <= b + 1
    BY <1>2, <1>4
  <2> QED BY <1>1, <2>1, Larger
<1> HIDE DEF aL, eL
<1>7. end = IF NewLen <= eL THEN NewLen ELSE eL
  BY <1>1, <1>6, TwoOf
<1>8. m.off = aL /\ m.len = end - aL
  BY DEF MissOp, a, b, aL, eL
<1> HIDE DEF end, m
<1>9. end \in Int /\ end <= NewLen /\ aL < end
  BY <1>1, <1>5, <1>6, <1>7
<1>10. m.off \in Nat /\ m.len \in Nat /\ m.len >= 1 /\ m.off + m.len = end
  BY <1>5, <1>8, <1>9
<1>11. BytesOf(m) = aL .. end - 1
  BY <1>8, <1>10 DEF BytesOf
<1>12. ASSUME NEW k \in Nat PROVE k \in BytesOf(m) <=> k < NewLen /\ k \div L \in a .. b
  <2> DEFINE q == k \div L
  <2>1. q \in Nat /\ \A n \in Int : n <= q <=> n * L <= k
    BY <1>1, Quotient
  <2> HIDE DEF q
  <2>2. a <= q <=> aL <= k
    BY <1>4, <2>1 DEF aL
  <2>3. b + 1 <= q <=> eL <= k
    BY <1>4, <2>1 DEF eL
  <2>4. q \in a .. b <=> aL <= k /\ ~(eL <= k)
    BY <1>4, <2>1, <2>2, <2>3
  <2>5. k \in aL .. end - 1 <=> aL <= k /\ k < NewLen /\ ~(eL <= k)
    BY <1>1, <1>5, <1>6, <1>7
  <2>6. k \in aL .. end - 1 <=> k < NewLen /\ q \in a .. b
    BY <2>4, <2>5
  <2> QED BY <1>11, <2>6 DEF q
<1> QED BY <1>9, <1>10, <1>12 DEF a, b, m

\* Every missing block lies in a run ...
LEMMA RunOf ==
  ASSUME NEW c \in Nat, NEW M, M \subseteq 0 .. c, NEW i \in M
  PROVE  \E r \in MissRuns(M) : i \in r[1] .. r[2]
<1> DEFINE A == {a \in 0 .. i : a .. i \subseteq M}
           B == {b \in i .. c : i .. b \subseteq M}
           a == Min(A)
           b == Max(B)
<1>0. i \in 0 .. c /\ i \in Nat
  OBVIOUS
<1>1. i .. i = {i}
  BY <1>0
<1>2. i \in A /\ i \in B
  BY <1>0, <1>1
<1>3. A \subseteq Nat /\ B \subseteq 0 .. c /\ A # {} /\ B # {}
  BY <1>0, <1>2
<1>4. a \in A /\ \A y \in A : a <= y
  <2> HIDE DEF A
  <2> QED BY <1>3, LeastNat
<1>5. b \in B /\ \A y \in B : y <= b
  <2> HIDE DEF B
  <2> QED BY <1>3, GreatestNat
<1> HIDE DEF a, b
<1>6. a \in 0 .. i /\ b \in i .. c /\ a .. i \subseteq M /\ i .. b \subseteq M
  BY <1>4, <1>5
<1>7. a .. b \subseteq M
  <2>1. \A x \in a .. b : x \in a .. i \/ x \in i .. b
    BY <1>0, <1>6
  <2> QED BY <1>6, <2>1
<1>8. a - 1 \notin M
  <2> SUFFICES ASSUME a - 1 \in M PROVE FALSE
    OBVIOUS
  <2>1. a - 1 \in 0 .. c
    OBVIOUS
  <2>2. \A x \in a - 1 .. i : x = a - 1 \/ x \in a .. i
    BY <1>0, <1>6
  <2>3. a - 1 \in A
    BY <1>0, <1>6, <2>1, <2>2
  <2>4. a <= a - 1
    BY <1>4, <2>3
  <2> QED BY <1>6, <2>4
<1>9. b + 1 \notin M
  <2> SUFFICES ASSUME b + 1 \in M PROVE FALSE
    OBVIOUS
  <2>1. b + 1 \in 0 .. c
    OBVIOUS
  <2>2. \A x \in i .. b + 1 : x = b + 1 \/ x \in i .. b
    BY <1>0, <1>6
  <2>3. b + 1 \in B
    BY <1>0, <1>6, <2>1, <2>2
  <2>4. b + 1 <= b
    BY <1>5, <2>3
  <2> QED BY <1>6, <2>4
<1> DEFINE r == <<a, b>>
<1>10. r[1] = a /\ r[2] = b
  OBVIOUS
<1>11. a \in M /\ b \in M /\ a <= b /\ i \in a .. b
  <2>1. a \in a .. i /\ b \in i .. b /\ a <= b /\ i \in a .. b
    BY <1>0, <1>6
  <2> QED BY <1>6, <2>1
<1>12. r \in MissRuns(M)
  BY <1>7, <1>8, <1>9, <1>11 DEF MissRuns
<1> QED BY <1>10, <1>11, <1>12

\* ... and in only one.
LEMMA OneRun ==
  ASSUME NEW M, M \subseteq Nat, NEW r \in MissRuns(M), NEW s \in MissRuns(M), NEW i \in Nat,
         i \in r[1] .. r[2], i \in s[1] .. s[2]
  PROVE  r = s
<1>1. /\ r \in M \X M /\ s \in M \X M
      /\ r[1] .. r[2] \subseteq M /\ r[1] - 1 \notin M /\ r[2] + 1 \notin M
      /\ s[1] .. s[2] \subseteq M /\ s[1] - 1 \notin M /\ s[2] + 1 \notin M
  BY DEF MissRuns
<1> DEFINE a == r[1]
           b == r[2]
           c == s[1]
           d == s[2]
<1>2. a \in M /\ b \in M /\ c \in M /\ d \in M
  BY <1>1
<1>3. a \in Nat /\ b \in Nat /\ c \in Nat /\ d \in Nat
  BY <1>2
<1>4. r = <<a, b>> /\ s = <<c, d>>
  BY <1>1
<1>5. /\ i \in a .. b /\ i \in c .. d
      /\ \A x \in a .. b : x \in M
      /\ \A x \in c .. d : x \in M
      /\ a - 1 \notin M /\ b + 1 \notin M /\ c - 1 \notin M /\ d + 1 \notin M
  BY <1>1
<1> HIDE DEF a, b, c, d
<1>6. a = c
  <2>1. ~(a < c)
    <3> SUFFICES ASSUME a < c PROVE FALSE
      OBVIOUS
    <3>1. c - 1 \in a .. b
      BY <1>3, <1>5
    <3> QED BY <1>5, <3>1
  <2>2. ~(c < a)
    <3> SUFFICES ASSUME c < a PROVE FALSE
      OBVIOUS
    <3>1. a - 1 \in c .. d
      BY <1>3, <1>5
    <3> QED BY <1>5, <3>1
  <2> QED BY <1>3, <2>1, <2>2
<1>7. b = d
  <2>1. ~(b < d)
    <3> SUFFICES ASSUME b < d PROVE FALSE
      OBVIOUS
    <3>1. b + 1 \in c .. d
      BY <1>3, <1>5
    <3> QED BY <1>5, <3>1
  <2>2. ~(d < b)
    <3> SUFFICES ASSUME d < b PROVE FALSE
      OBVIOUS
    <3>1. d + 1 \in a .. b
      BY <1>3, <1>5
    <3> QED BY <1>5, <3>1
  <2> QED BY <1>3, <2>1, <2>2
<1> QED BY <1>4, <1>6, <1>7

-----------------------------------------------------------------------------
(* What is fetched.                                                        *)

AllBytes(S) == UNION {BytesOf(m) : m \in S}

\* The slices of a miss cover exactly its bytes.
LEMMA SliceIs ==
  ASSUME NEW m, m.off \in Nat, m.len \in Nat, m.len >= 1, NEW x \in Nat
  PROVE  x \in BytesOf(m) <=> \E s \in Slices(m) : x \in s.off .. s.off + s.len - 1
<1> DEFINE z == SliceLen
           top == (m.len - 1) \div z
           Sl(k) == [off |-> m.off + k * z, len |-> Min({z, m.len - k * z})]
<1>1. z \in Nat \ {0} /\ m.len - 1 \in Nat
  BY DeltaAssumption
<1>2. top \in Nat /\ \A n \in Int : n <= top <=> n * z <= m.len - 1
  BY <1>1, Quotient
<1>3. Slices(m) = {Sl(k) : k \in 0 .. top}
  BY DEF Slices
<1>4. ASSUME NEW k \in 0 .. top
      PROVE  LET s == Sl(k)
                 kz == k * z
             IN  /\ kz \in Nat /\ kz <= m.len - 1
                 /\ s.off = m.off + kz
                 /\ s.len = IF z <= m.len - kz THEN z ELSE m.len - kz
  <2>1. k \in Nat /\ k \in Int /\ k <= top
    BY <1>2
  <2>2. k * z \in Int /\ 0 * z <= k * z /\ 0 * z = 0
    BY <1>1, <2>1, Larger
  <2>3. k * z <= m.len - 1
    BY <1>2, <2>1
  <2> DEFINE kz == k * z
  <2>4. kz \in Nat
    BY <2>2
  <2>5. Min({z, m.len - kz}) = IF z <= m.len - kz THEN z ELSE m.len - kz
    <3> HIDE DEF kz, z
    <3>1. m.len - kz \in Int /\ z \in Int
      BY <1>1, <2>4
    <3> QED BY <3>1, TwoOf
  <2> QED BY <2>3, <2>4, <2>5
<1> HIDE DEF Sl, top
<1>5. ASSUME NEW k \in 0 .. top, x \in Sl(k).off .. Sl(k).off + Sl(k).len - 1
      PROVE  x \in BytesOf(m)
  <2> DEFINE kz == k * z
  <2>1. /\ kz \in Nat /\ kz <= m.len - 1
        /\ Sl(k).off = m.off + kz
        /\ Sl(k).len = IF z <= m.len - kz THEN z ELSE m.len - kz
    BY <1>4
  <2> HIDE DEF kz, z
  <2>2. Sl(k).off + Sl(k).len <= m.off + m.len /\ Sl(k).off \in Nat /\ m.off <= Sl(k).off /\ Sl(k).len \in Nat
    BY <1>1, <2>1
  <2> QED BY <1>5, <2>2 DEF BytesOf
<1>6. ASSUME x \in BytesOf(m)
      PROVE  \E k \in 0 .. top : x \in Sl(k).off .. Sl(k).off + Sl(k).len - 1
  <2> DEFINE y == x - m.off
             k == y \div z
  <2>1. y \in Nat /\ y <= m.len - 1
    BY <1>6 DEF BytesOf
  <2>2. x = m.off + y
    OBVIOUS
  <2> HIDE DEF y
  <2>3. k \in Nat /\ \A n \in Int : n <= k <=> n * z <= y
    BY <1>1, <2>1, Quotient
  <2> HIDE DEF k
  <2>4. k * z <= y /\ ~((k + 1) * z <= y) /\ (k + 1) * z = k * z + z /\ k * z \in Int
    <3>1. k \in Int /\ k <= k /\ k + 1 \in Int /\ ~(k + 1 <= k)
      BY <2>3
    <3>2. (k + 1) * z = k * z + z /\ k * z \in Int
      BY <1>1, <3>1, Distribute
    <3> QED BY <2>3, <3>1, <3>2
  <2> DEFINE kz == k * z
  <2>5. kz \in Int /\ kz <= y /\ ~(kz + z <= y)
    BY <2>4
  <2>6. kz <= m.len - 1
    <3> HIDE DEF kz
    <3> QED BY <2>1, <2>5
  <2>7. k \in 0 .. top
    BY <1>2, <2>3, <2>6
  <2>8. /\ kz \in Nat
        /\ Sl(k).off = m.off + kz
        /\ Sl(k).len = IF z <= m.len - kz THEN z ELSE m.len - kz
    BY <1>4, <2>7
  <2> HIDE DEF kz, z
  <2>9. x \in Sl(k).off .. Sl(k).off + Sl(k).len - 1
    BY <1>1, <2>1, <2>2, <2>5, <2>8
  <2> QED BY <2>7, <2>9
<1> HIDE DEF z
<1>7. (\E s \in Slices(m) : x \in s.off .. s.off + s.len - 1)
      <=> \E k \in 0 .. top : x \in Sl(k).off .. Sl(k).off + Sl(k).len - 1
  BY <1>3
<1> QED BY <1>5, <1>6, <1>7

MissOps(M) == {MissOp(r) : r \in MissRuns(M)}

\* A byte is fetched when its block is missing.
LEMMA MissesAre ==
  ASSUME FilesOk, NEW M, M \subseteq 0 .. BlockCount(NewLen) - 1
  PROVE  /\ AllBytes(MissOps(M)) = {k \in 0 .. NewLen - 1 : k \div L \in M}
         /\ UNION {UNION {s.off .. s.off + s.len - 1 : s \in Slices(m)} : m \in MissOps(M)}
              = AllBytes(MissOps(M))
<1>1. NewLen \in Nat /\ BlockCount(NewLen) \in Nat
  BY FileFacts, FullBlocksAre
<1>2. M \subseteq Nat /\ M \subseteq 0 .. BlockCount(NewLen)
  BY <1>1
<1>3. ASSUME NEW m \in MissOps(M)
      PROVE  /\ m.off \in Nat /\ m.len \in Nat /\ m.len >= 1
             /\ \A k \in BytesOf(m) : k \in 0 .. NewLen - 1 /\ k \div L \in M
  <2>1. PICK r \in MissRuns(M) : m = MissOp(r)
    BY DEF MissOps
  <2>2. /\ m.off \in Nat /\ m.len \in Nat /\ m.len >= 1 /\ m.off + m.len <= NewLen
        /\ \A k \in Nat : k \in BytesOf(m) <=> k < NewLen /\ k \div L \in r[1] .. r[2]
    BY <2>1, RunBytes
  <2>3. r[1] .. r[2] \subseteq M
    BY DEF MissRuns
  <2>4. \A k \in BytesOf(m) : k \in Nat
    BY <2>2 DEF BytesOf
  <2>5. \A k \in BytesOf(m) : k < NewLen /\ k \div L \in M
    BY <2>2, <2>3, <2>4
  <2>6. \A k \in BytesOf(m) : k \in 0 .. NewLen - 1
    BY <1>1, <2>4, <2>5
  <2> QED BY <2>2, <2>5, <2>6
<1>4. ASSUME NEW k \in 0 .. NewLen - 1, k \div L \in M
      PROVE  \E m \in MissOps(M) : k \in BytesOf(m)
  <2> DEFINE q == k \div L
  <2>0. q \in M
    BY <1>4
  <2> HIDE DEF q
  <2>1. PICK r \in MissRuns(M) : q \in r[1] .. r[2]
    BY <1>1, <1>2, <2>0, RunOf
  <2>2. k \in Nat /\ k < NewLen
    BY <1>1
  <2>3. k \in BytesOf(MissOp(r))
    BY <2>1, <2>2, RunBytes DEF q
  <2> QED BY <2>3 DEF MissOps
<1>5. AllBytes(MissOps(M)) = {k \in 0 .. NewLen - 1 : k \div L \in M}
  BY <1>3, <1>4 DEF AllBytes
<1>6. ASSUME NEW m \in MissOps(M)
      PROVE  UNION {s.off .. s.off + s.len - 1 : s \in Slices(m)} = BytesOf(m)
  <2>1. m.off \in Nat /\ m.len \in Nat /\ m.len >= 1
    BY <1>3
  <2>2. \A x \in Nat : x \in BytesOf(m) <=> \E s \in Slices(m) : x \in s.off .. s.off + s.len - 1
    BY <2>1, SliceIs
  <2>3. \A x \in BytesOf(m) : x \in Nat
    BY <2>1 DEF BytesOf
  <2>4. ASSUME NEW s \in Slices(m), NEW x \in s.off .. s.off + s.len - 1
        PROVE  x \in Nat
    <3>0. PICK k \in 0 .. (m.len - 1) \div SliceLen :
            s = [off |-> m.off + k * SliceLen, len |-> Min({SliceLen, m.len - k * SliceLen})]
      BY DEF Slices
    <3>1. s.off = m.off + k * SliceLen
      BY <3>0
    <3>2. SliceLen \in Nat \ {0} /\ m.len - 1 \in Nat
      BY <2>1, DeltaAssumption
    <3>3. k \in Nat
      <4> DEFINE top == (m.len - 1) \div SliceLen
      <4>1. top \in Nat
        BY <3>2, Quotient
      <4> HIDE DEF top
      <4>2. k \in 0 .. top
        BY DEF top
      <4> QED BY <4>1, <4>2
    <3>4. k * SliceLen \in Int /\ 0 * SliceLen <= k * SliceLen /\ 0 * SliceLen = 0
      BY <3>2, <3>3, Larger
    <3> DEFINE kz == k * SliceLen
    <3>5. kz \in Nat
      BY <3>4
    <3> HIDE DEF kz
    <3>6. s.off = m.off + kz
      BY <3>1 DEF kz
    <3>7. s.off \in Nat
      BY <2>1, <3>5, <3>6
    <3> QED BY <3>7
  <2> QED BY <2>2, <2>3, <2>4
<1>7. UNION {UNION {s.off .. s.off + s.len - 1 : s \in Slices(m)} : m \in MissOps(M)}
        = UNION {BytesOf(m) : m \in MissOps(M)}
  <2> HIDE DEF MissOps
  <2> QED BY <1>6
<1> QED BY <1>5, <1>7 DEF AllBytes

\* There are finitely many misses.
LEMMA MissesFinite ==
  ASSUME FilesOk, NEW M, M \subseteq 0 .. BlockCount(NewLen) - 1
  PROVE  IsFiniteSet(MissOps(M))
<1> DEFINE c == BlockCount(NewLen)
           R == MissRuns(M)
           f == [r \in R |-> MissOp(r)]
<1>1. c \in Nat
  BY FullBlocksAre
<1>2. IsFiniteSet(0 .. c - 1)
  BY <1>1, FS_Interval
<1>3. IsFiniteSet(M)
  BY <1>2, FS_Subset
<1>4. IsFiniteSet(M \X M)
  BY <1>3, FS_Product
<1>5. IsFiniteSet(R)
  <2>1. R \subseteq M \X M
    BY DEF MissRuns
  <2> QED BY <1>4, <2>1, FS_Subset
<1> HIDE DEF R
<1>6. f \in Surjection(R, MissOps(M))
  BY DEF Surjection, MissOps, R
<1> HIDE DEF f
<1> QED BY <1>5, <1>6, FS_Surjection

\* Different misses fetch different bytes.
LEMMA MissesApart ==
  ASSUME FilesOk, NEW M, M \subseteq 0 .. BlockCount(NewLen) - 1,
         NEW m \in MissOps(M), NEW n \in MissOps(M), m # n
  PROVE  BytesOf(m) \cap BytesOf(n) = {}
<1> SUFFICES ASSUME NEW k \in BytesOf(m), k \in BytesOf(n)
             PROVE  FALSE
  OBVIOUS
<1>1. BlockCount(NewLen) \in Nat /\ M \subseteq Nat
  BY FullBlocksAre
<1>2. PICK r \in MissRuns(M) : m = MissOp(r)
  BY DEF MissOps
<1>3. PICK s \in MissRuns(M) : n = MissOp(s)
  BY DEF MissOps
<1>4. m.off \in Nat /\ m.len \in Nat
  BY <1>2, RunBytes
<1>5. k \in Nat
  BY <1>4 DEF BytesOf
<1>6. k \div L \in r[1] .. r[2]
  BY <1>2, <1>5, RunBytes
<1>7. k \div L \in s[1] .. s[2]
  BY <1>3, <1>5, RunBytes
<1>8. k \div L \in Nat
  BY <1>5, InBlock
<1>9. r = s
  BY <1>1, <1>6, <1>7, <1>8, OneRun
<1> QED BY <1>2, <1>3, <1>9

\* The sum of the lengths of disjoint ranges is the number of their bytes.
LEMMA LengthsCount ==
  ASSUME NEW S, IsFiniteSet(S),
         \A m \in S : m.off \in Nat /\ m.len \in Nat,
         \A m, n \in S : m # n => BytesOf(m) \cap BytesOf(n) = {}
  PROVE  Lengths(S) = Cardinality(AllBytes(S))
<1> DEFINE w == [m \in S |-> m.len]
           P == {T \in SUBSET S : IsFiniteSet(AllBytes(T)) /\ Total(w, T) = Cardinality(AllBytes(T))}
<1>1. \A m \in S : w[m] = m.len /\ w[m] \in Int
  OBVIOUS
<1> HIDE DEF w
<1>2. ASSUME NEW T \in SUBSET S, \A m \in T : T \ {m} \in P
      PROVE  T \in P
  <2>1. CASE T = {}
    <3>1. AllBytes(T) = {}
      BY <2>1 DEF AllBytes
    <3>2. IsFiniteSet({}) /\ Cardinality({}) = 0
      BY FS_EmptySet
    <3>3. Total(w, T) = 0
      BY <2>1, TotalEmpty
    <3> QED BY <3>1, <3>2, <3>3
  <2>2. CASE T # {}
    <3>1. PICK m \in T : TRUE
      BY <2>2
    <3> DEFINE U == T \ {m}
               A == AllBytes(U)
    <3>2. IsFiniteSet(A) /\ Total(w, U) = Cardinality(A)
      BY <1>2
    <3>3. AllBytes(T) = BytesOf(m) \cup A
      BY DEF AllBytes
    <3>4. BytesOf(m) \cap A = {}
      <4>1. \A n \in U : BytesOf(m) \cap BytesOf(n) = {}
        OBVIOUS
      <4> HIDE DEF U
      <4> QED BY <4>1 DEF AllBytes
    <3>5. IsFiniteSet(BytesOf(m)) /\ Cardinality(BytesOf(m)) = m.len
      <4>1. m.off \in Int /\ m.off + m.len - 1 \in Int /\ m.off \in Nat /\ m.len \in Nat
        OBVIOUS
      <4>2. /\ IsFiniteSet(m.off .. m.off + m.len - 1)
            /\ Cardinality(m.off .. m.off + m.len - 1)
                 = IF m.off > m.off + m.len - 1 THEN 0 ELSE (m.off + m.len - 1) - m.off + 1
        BY <4>1, FS_Interval
      <4> QED BY <4>1, <4>2 DEF BytesOf
    <3>6. IsFiniteSet(T) /\ Weights(w, T)
      BY <1>1, FS_Subset DEF Weights
    <3>7. Total(w, T) = w[m] + Total(w, U)
      BY <3>6, TotalRemove
    <3> HIDE DEF U, A
    <3>8. /\ IsFiniteSet(BytesOf(m) \cup A)
          /\ Cardinality(BytesOf(m) \cup A)
               = Cardinality(BytesOf(m)) + Cardinality(A) - Cardinality(BytesOf(m) \cap A)
      BY <3>2, <3>5, FS_Union
    <3>9. Cardinality(BytesOf(m) \cap A) = 0
      BY <3>4, FS_EmptySet
    <3>10. Cardinality(A) \in Nat /\ m.len \in Nat
      BY <3>2, FS_CardinalityType
    <3>11. Total(w, T) = m.len + Cardinality(A)
      BY <1>1, <3>2, <3>7
    <3>12. Cardinality(AllBytes(T)) = m.len + Cardinality(A)
      BY <3>3, <3>5, <3>8, <3>9, <3>10
    <3>13. IsFiniteSet(AllBytes(T))
      BY <3>3, <3>8
    <3> QED BY <3>11, <3>12, <3>13
  <2> QED BY <2>1, <2>2
<1> HIDE DEF P
<1>3. \A T \in SUBSET S : T \in P
  BY <1>2, OnSubsets
<1>4. Total(w, S) = Cardinality(AllBytes(S))
  BY <1>3 DEF P
<1>5. Lengths(S) = Total(w, S)
  <2>1. MapThenSumSet(LAMBDA m : m.len, S) = Total([m \in S |-> m.len], S)
    BY LengthsSum
  <2> QED BY <2>1 DEF Lengths, w
<1> QED BY <1>4, <1>5

-----------------------------------------------------------------------------
(* What is written.                                                        *)

\* A byte of a matched block is written once and right, one of a missing block never.
LEMMA WrittenIs ==
  ASSUME FilesOk, NEW src, NEW k \in 0 .. NewLen - 1
  PROVE  /\ k \div L \in Missing(src) => \A b : <<k, b>> \notin WrittenOf(src)
         /\ k \div L \notin Missing(src) => {w \in WrittenOf(src) : w[1] = k} = {<<k, newFile[k + 1]>>}
<1>1. NewLen \in Nat /\ L \in Nat \ {0} /\ BlockCount(NewLen) \in Nat
  BY FileFacts, FullBlocksAre
<1>2. k \in Nat /\ k < NewLen
  BY <1>1
<1> DEFINE q == k \div L
           qL == q * L
<1>3. /\ q \in Nat /\ qL \in Nat /\ qL <= k /\ k < qL + L
      /\ q < BlockCount(NewLen)
      /\ \A i \in Nat : i * L <= k /\ k < i * L + L => i = q
  BY <1>2, InBlock
<1> HIDE DEF q
<1>4. ASSUME NEW i \in Matched(src), NEW j \in 1 .. L, i * L + j - 1 = k
      PROVE  i = q /\ <<i * L + j - 1, newFile[i * L + j]>> = <<k, newFile[k + 1]>>
  <2> DEFINE iL == i * L
  <2>1. i \in Nat /\ iL \in Nat
    BY FullBlocksAre DEF Matched
  <2>1a. iL + j - 1 = k
    BY <1>4
  <2>2. iL <= k /\ k < iL + L /\ iL + j = k + 1
    <3> HIDE DEF iL
    <3> QED BY <1>1, <2>1, <2>1a
  <2>3. i = q
    BY <1>3, <2>1, <2>2
  <2> QED BY <1>4, <2>2, <2>3
<1>5. q \in Missing(src) <=> q \notin Matched(src)
  BY <1>1, <1>3 DEF Missing
<1>6. ASSUME q \notin Matched(src), NEW b PROVE <<k, b>> \notin WrittenOf(src)
  <2> SUFFICES ASSUME <<k, b>> \in WrittenOf(src) PROVE FALSE
    OBVIOUS
  <2>1. PICK i \in Matched(src), j \in 1 .. L : <<k, b>> = <<i * L + j - 1, newFile[i * L + j]>>
    BY DEF WrittenOf
  <2> QED BY <1>4, <1>6, <2>1
<1>7. ASSUME q \in Matched(src)
      PROVE  {w \in WrittenOf(src) : w[1] = k} = {<<k, newFile[k + 1]>>}
  <2> DEFINE j == k - qL + 1
  <2>1. j \in 1 .. L /\ qL + j - 1 = k /\ qL + j = k + 1
    <3> HIDE DEF qL
    <3> QED BY <1>1, <1>2, <1>3
  <2> HIDE DEF j
  <2>2. <<k, newFile[k + 1]>> \in WrittenOf(src)
    <3>1. <<q * L + j - 1, newFile[q * L + j]>> \in WrittenOf(src)
      BY <1>7, <2>1 DEF WrittenOf
    <3>2. q * L + j - 1 = k /\ q * L + j = k + 1
      BY <2>1
    <3> QED BY <3>1, <3>2
  <2>3. ASSUME NEW w \in WrittenOf(src), w[1] = k PROVE w = <<k, newFile[k + 1]>>
    <3>1. PICK i \in Matched(src), h \in 1 .. L : w = <<i * L + h - 1, newFile[i * L + h]>>
      BY DEF WrittenOf
    <3>2. i * L + h - 1 = k
      BY <2>3, <3>1
    <3> QED BY <1>4, <3>1, <3>2
  <2> QED BY <2>2, <2>3
<1> QED BY <1>5, <1>6, <1>7 DEF q

-----------------------------------------------------------------------------
(* A plan that is used is sound.                                           *)

\* The invariant implies the property.
LEMMA InvReconstructs == DeltaInv => PlanReconstructs
<1> SUFFICES ASSUME DeltaInv, stage = "use" PROVE PlanReconstructs
  BY DEF PlanReconstructs
<1>1. FilesOk /\ EndOk(scan, win, temp) /\ plan = PlanOf(scan) /\ scan.early = FALSE
  BY DEF DeltaInv
<1> DEFINE src == scan.src
           M == Missing(src)
           S == MissOps(M)
<1>2. SrcOk(src) /\ temp = WrittenOf(src)
  BY <1>1 DEF EndOk
<1>3. M \subseteq 0 .. BlockCount(NewLen) - 1
  BY DEF Missing
<1>4. /\ plan.misses = S
      /\ plan.copies = {[src |-> src[i], off |-> i * L] : i \in Matched(src)}
      /\ plan.downloadBytes = Lengths(S)
  BY <1>1 DEF PlanOf, MissOps, Lengths
<1> HIDE DEF M, S
<1>5. /\ AllBytes(S) = {k \in 0 .. NewLen - 1 : k \div L \in M}
      /\ UNION {UNION {s.off .. s.off + s.len - 1 : s \in Slices(m)} : m \in S} = AllBytes(S)
  BY <1>1, <1>3, MissesAre DEF S
<1>6. Fetched = {k \in 0 .. NewLen - 1 : k \div L \in M} /\ Fetched = AllBytes(S)
  BY <1>4, <1>5 DEF Fetched
<1>7. plan.downloadBytes = Cardinality(Fetched)
  <2>1. IsFiniteSet(S)
    BY <1>1, <1>3, MissesFinite DEF S
  <2>2. \A m \in S : m.off \in Nat /\ m.len \in Nat
    <3> SUFFICES ASSUME NEW m \in S PROVE m.off \in Nat /\ m.len \in Nat
      OBVIOUS
    <3>1. PICK r \in MissRuns(M) : m = MissOp(r)
      BY DEF S, MissOps
    <3> QED BY <1>1, <1>3, <3>1, RunBytes
  <2>3. \A m, n \in S : m # n => BytesOf(m) \cap BytesOf(n) = {}
    BY <1>1, <1>3, MissesApart DEF S
  <2>4. Lengths(S) = Cardinality(AllBytes(S))
    BY <2>1, <2>2, <2>3, LengthsCount
  <2> QED BY <1>4, <1>6, <2>4
<1>8. ASSUME NEW k \in 0 .. NewLen - 1
      PROVE  IF k \in Fetched THEN \A b \in Byte : <<k, b>> \notin temp
             ELSE {w \in temp : w[1] = k} = {<<k, newFile[k + 1]>>}
  <2>1. CASE k \in Fetched
    <3>1. k \div L \in Missing(src)
      BY <1>6, <2>1 DEF M
    <3>2. \A b : <<k, b>> \notin WrittenOf(src)
      BY <1>1, <3>1, WrittenIs
    <3> QED BY <1>2, <2>1, <3>2
  <2>2. CASE k \notin Fetched
    <3>1. k \div L \notin Missing(src)
      BY <1>6, <2>2 DEF M
    <3>2. {w \in WrittenOf(src) : w[1] = k} = {<<k, newFile[k + 1]>>}
      BY <1>1, <3>1, WrittenIs
    <3> QED BY <1>2, <2>2, <3>2
  <2> QED BY <2>1, <2>2
<1>9. ASSUME NEW c \in plan.copies
      PROVE  SubSeq(oldFile, c.src + 1, c.src + L) = SubSeq(newFile, c.off + 1, c.off + L)
  <2>1. PICK i \in Matched(src) : c = [src |-> src[i], off |-> i * L]
    BY <1>4
  <2>2. i \in FullBlocks /\ src[i] # -1
    BY DEF Matched
  <2>3. OldAt(src[i]) = Part(i, L)
    BY <1>2, <2>2 DEF SrcOk
  <2>4. c.src = src[i] /\ c.off = i * L
    BY <2>1
  <2> QED BY <2>3, <2>4 DEF OldAt, Part
<1>10. Fetched \subseteq 0 .. NewLen - 1
  BY <1>6
<1> QED BY <1>7, <1>8, <1>9, <1>10 DEF PlanReconstructs

\* For every value of the constants, a plan that Decide lets the client use rebuilds the
\* new file: the bytes written while scanning are right and, with the slices to be fetched,
\* partition the file; downloadBytes is the number of bytes fetched, and every copy names
\* equal bytes of the two files.
THEOREM PlanIsSound == DeltaSpec => []PlanReconstructs
  BY DeltaInvariant, InvReconstructs, PTL
==============================================================================
