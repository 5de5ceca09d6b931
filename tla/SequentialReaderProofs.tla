----------------------- MODULE SequentialReaderProofs -----------------------
(***************************************************************************)
(* Proofs about SequentialReader, for every file size, every window, with  *)
(* and without backpressure and cancellation.                              *)
(***************************************************************************)
EXTENDS SequentialReader, FunctionTheorems, FiniteSetTheorems, TLAPS

Completion == [off : Offset, status : {"Ok", "Eof", "Error", "Cancelled"}]

TypeOK ==
    /\ nextSubmit \in 0 .. Chunks /\ nextYield \in 0 .. nextSubmit
    /\ inFlight \in 0 .. ReadAhead
    /\ error \in BOOLEAN /\ cancelled \in BOOLEAN
    /\ reordered \subseteq Completion /\ ready \subseteq Completion
    /\ atDriver \subseteq Offset
    /\ pc \in {"idle", "next"} /\ returned \in {"none", "data", "eof", "fail"}

-----------------------------------------------------------------------------
(* The inductive invariant.                                                *)

Offs(S) == {c.off : c \in S}

\* The reads in flight: at the driver, or completed there and not drained.
Pending == atDriver \cup Offs(ready)
Held == Offs(reordered)

\* A chunk is in at most one place, all of it lies between the next chunk to hand out
\* and the next to submit, and nothing there is missing until an error or a cancel.
Places ==
    /\ \A a, b \in ready : a.off = b.off => a = b
    /\ \A a, b \in reordered : a.off = b.off => a = b
    /\ atDriver \cap Offs(ready) = {} /\ Pending \cap Held = {}
    /\ Pending \cup Held \subseteq nextYield .. (nextSubmit - 1)
    /\ ~error /\ ~cancelled => nextYield .. (nextSubmit - 1) \subseteq Pending \cup Held

\* inFlight_ counts the reads in flight.
WindowExact == inFlight = Cardinality(Pending)

\* next() runs only with something left to hand out; only a cancelled driver makes
\* Cancelled completions.
CallShape ==
    /\ pc = "next" => ~error /\ nextYield < Chunks
    /\ \A c \in ready \cup reordered : c.status = "Cancelled" => cancelled

\* The reads of P before h.
Before(P, h) == Cardinality({d \in P : d < h})

\* How far submission may get (to n) past a read h of P that is still in flight: each read
\* in flight before h that is handed out lets the window move on.
Ahead(P, n, h) == 2 * (n - h - 1) <= (ReadAhead - Before(P, h)) * (ReadAhead - Before(P, h) - 1)

Settled == ~cancelled /\ ~error /\ (pc = "idle" \/ nextYield \in Held)

\* While the reader waits for a read nothing is submitted; once it has come, the window may
\* be filled up at once.
Reach ==
    /\ \A h \in Pending : Ahead(Pending, nextSubmit, h)
    /\ Settled => \A h \in Pending : Ahead(Pending, nextSubmit + (ReadAhead - inFlight), h)

\* The same for the chunk to hand out next, whether it is in flight or held back.
Span ==
    /\ 2 * (nextSubmit - nextYield) <= ReadAhead * (ReadAhead + 1)
    /\ Settled => 2 * (nextSubmit - nextYield + (ReadAhead - inFlight))
                    <= ReadAhead * (ReadAhead + 1) + (IF pc = "idle" THEN 0 ELSE 2)

IInv == TypeOK /\ Places /\ WindowExact /\ CallShape /\ Reach /\ Span /\ CleanEofMeansComplete

-----------------------------------------------------------------------------
(* Arithmetic and counting.                                                *)

LEMMA TriangleStep == \A n \in Nat : (n + 1) * n = n * (n - 1) + 2 * n
  OBVIOUS

LEMMA TriangleFirst == \A n \in Nat \ {0} : 2 * (n - 1) <= n * (n - 1)
  <1> SUFFICES ASSUME NEW n \in Nat \ {0} PROVE 2 * (n - 1) <= n * (n - 1)
    OBVIOUS
  <1>1. CASE n = 1
    BY <1>1
  <1>2. CASE n > 1
    BY <1>2
  <1> QED
    BY <1>1, <1>2

LEMMA TriangleMonotone == \A a, b \in Nat : a <= b => a * (a - 1) <= b * (b - 1)
  <1> SUFFICES ASSUME NEW a \in Nat, NEW b \in Nat, a <= b
               PROVE  a * (a - 1) <= b * (b - 1)
    OBVIOUS
  <1>1. CASE a = 0
    BY <1>1
  <1>2. CASE a > 0
    <2>1. a * (a - 1) <= b * (a - 1)
      BY <1>2
    <2>2. b * (a - 1) <= b * (b - 1)
      BY <1>2
    <2> QED
      BY <2>1, <2>2
  <1> QED
    BY <1>1, <1>2

\* A completion is known by its offset.
LEMMA CountByOffset ==
    ASSUME NEW S \in SUBSET Completion, \A a, b \in S : a.off = b.off => a = b
    PROVE  /\ Offs(S) \subseteq Offset /\ IsFiniteSet(Offs(S))
           /\ IsFiniteSet(S) /\ Cardinality(S) = Cardinality(Offs(S))
  <1>1. Offs(S) \subseteq Offset
    BY DEF Offs, Completion
  <1>2. IsFiniteSet(Offs(S))
    <2>1. IsFiniteSet(Offset)
      BY ReaderAssumption, FS_Interval DEF Offset, ReaderAssumption
    <2> QED
      BY <1>1, <2>1, FS_Subset
  <1> DEFINE g == [c \in S |-> c.off]
  <1>3. g \in Bijection(S, Offs(S))
    <2>1. g \in [S -> Offs(S)]
      BY DEF Offs
    <2>2. \A a, b \in S : g[a] = g[b] => a = b
      OBVIOUS
    <2>3. \A o \in Offs(S) : \E c \in S : g[c] = o
      BY DEF Offs
    <2> QED
      BY <2>1, <2>2, <2>3, Fun_IsBij
  <1>4. ExistsBijection(Offs(S), S)
    BY <1>3, Fun_BijInverse DEF ExistsBijection
  <1> QED
    BY <1>1, <1>2, <1>4, FS_Bijection

LEMMA BeforeType ==
    ASSUME NEW P \in SUBSET Nat, IsFiniteSet(P), NEW h \in P
    PROVE  Before(P, h) \in Nat /\ Before(P, h) + 1 <= Cardinality(P)
  <1> DEFINE B == {d \in P : d < h}
  <1>1. IsFiniteSet(B) /\ Cardinality(B) \in Nat
    BY FS_Subset, FS_CardinalityType
  <1>2. B \cup {h} \subseteq P /\ h \notin B
    OBVIOUS
  <1>3. Cardinality(B \cup {h}) = Cardinality(B) + 1
    BY <1>1, <1>2, FS_AddElement
  <1>4. Cardinality(B \cup {h}) <= Cardinality(P)
    BY <1>2, FS_Subset
  <1> QED
    BY <1>1, <1>3, <1>4 DEF Before

LEMMA AheadBy ==
    ASSUME NEW P, NEW n, NEW h, NEW r, r = ReadAhead - Before(P, h),
           2 * (n - h - 1) <= r * (r - 1)
    PROVE  Ahead(P, n, h)
  BY DEF Ahead

LEMMA AheadWeaken ==
    ASSUME NEW P \in SUBSET Nat, IsFiniteSet(P), NEW h \in P, NEW n \in Int, NEW m \in Int,
           n <= m, Ahead(P, m, h)
    PROVE  Ahead(P, n, h)
  <1>1. PICK r \in Int : r = ReadAhead - Before(P, h)
    BY BeforeType, ReaderAssumption DEF ReaderAssumption
  <1>2. 2 * (m - h - 1) <= r * (r - 1)
    BY <1>1, Zenon DEF Ahead
  <1>3. PICK bound \in Int : bound = r * (r - 1)
    OBVIOUS
  <1>4. 2 * (n - h - 1) <= bound
    BY <1>2, <1>3
  <1> QED
    BY <1>1, <1>3, <1>4, AheadBy, Zenon

\* Refilling the window keeps the reach of every read, old and new.
LEMMA Refilled ==
    ASSUME NEW P \in SUBSET Nat, IsFiniteSet(P), NEW n \in Nat, \A d \in P : d < n,
           NEW t \in Nat, Cardinality(P) + t <= ReadAhead,
           \A h \in P : Ahead(P, n + (ReadAhead - Cardinality(P)), h)
    PROVE  LET Q == P \cup n .. (n + t - 1)
           IN  /\ IsFiniteSet(Q) /\ Cardinality(Q) = Cardinality(P) + t
               /\ \A h \in Q : Ahead(Q, n + (ReadAhead - Cardinality(P)), h)
  <1> USE ReaderAssumption DEF ReaderAssumption
  <1> DEFINE N == n .. (n + t - 1)
             Q == P \cup N
             top == n + (ReadAhead - Cardinality(P))
  <1>0. Cardinality(P) \in Nat
    BY FS_CardinalityType
  <1>1. ASSUME NEW k \in Nat
        PROVE  /\ IsFiniteSet(P \cup n .. (n + k - 1))
               /\ Cardinality(P \cup n .. (n + k - 1)) = Cardinality(P) + k
    <2> DEFINE K == n .. (n + k - 1)
    <2>1. IsFiniteSet(K) /\ Cardinality(K) = k
      BY FS_Interval
    <2>2. Cardinality(P \cap K) = 0
      <3>1. P \cap K = {}
        OBVIOUS
      <3> QED
        BY <3>1, FS_EmptySet
    <2> HIDE DEF K
    <2>3. IsFiniteSet(P \cup K)
          /\ Cardinality(P \cup K) = Cardinality(P) + Cardinality(K) - Cardinality(P \cap K)
      BY <2>1, FS_Union
    <2>4. Cardinality(P \cup K) = Cardinality(P) + k
      BY <1>0, <2>1, <2>2, <2>3
    <2> QED
      BY <2>3, <2>4 DEF K
  <1>2. ASSUME NEW h \in P PROVE Ahead(Q, top, h)
    <2>1. {d \in Q : d < h} = {d \in P : d < h}
      OBVIOUS
    <2> QED
      BY <2>1 DEF Ahead, Before
  <1>3. ASSUME NEW h \in N PROVE Ahead(Q, top, h)
    <2>1. h - n \in Nat /\ h - n < t /\ n + (h - n) - 1 = h - 1 /\ h \in Nat
      OBVIOUS
    <2>2. {d \in Q : d < h} = P \cup n .. (n + (h - n) - 1)
      <3>1. \A d \in P : d \in Nat /\ d < h
        BY <2>1
      <3>2. \A d \in Nat : (d \in N /\ d < h) <=> d \in n .. (h - 1)
        BY <2>1
      <3>3. \A d : d \in N \/ d \in n .. (h - 1) => d \in Nat
        OBVIOUS
      <3> HIDE DEF N
      <3> QED
        BY <2>1, <3>1, <3>2, <3>3
    <2>3. Before(Q, h) = Cardinality(P) + (h - n)
      BY <1>1, <2>1, <2>2 DEF Before
    <2>4. PICK r \in Nat \ {0} : r = ReadAhead - Before(Q, h)
      BY <1>0, <2>1, <2>3
    <2>5. top - h - 1 = r - 1
      BY <1>0, <2>1, <2>3, <2>4
    <2>6. 2 * (r - 1) <= r * (r - 1)
      BY TriangleFirst
    <2> QED
      BY <2>4, <2>5, <2>6 DEF Ahead
  <1> QED
    BY <1>1, <1>2, <1>3

\* Draining reads from the window keeps the reach; when the oldest one is among them,
\* there is room for a whole window more.
LEMMA Drained ==
    ASSUME NEW P \in SUBSET Nat, IsFiniteSet(P), Cardinality(P) <= ReadAhead,
           NEW A \in SUBSET P, NEW n \in Nat, \A h \in P : Ahead(P, n, h)
    PROVE  /\ \A h \in A : Ahead(A, n, h)
           /\ \A y \in P \ A : (\A d \in P : y <= d) =>
                \A h \in A : Ahead(A, n + (ReadAhead - Cardinality(A)), h)
  <1> USE ReaderAssumption DEF ReaderAssumption
  <1>1. IsFiniteSet(A) /\ Cardinality(A) \in Nat /\ Cardinality(P) \in Nat
        /\ Cardinality(A) <= Cardinality(P)
    BY FS_Subset, FS_CardinalityType
  <1>2. ASSUME NEW h \in A PROVE Ahead(A, n, h)
    <2>1. Before(P, h) \in Nat /\ Before(P, h) < ReadAhead /\ Before(A, h) \in Nat
          /\ Before(A, h) < ReadAhead
      BY <1>1, BeforeType
    <2>2. Before(A, h) <= Before(P, h)
      <3>1. {d \in A : d < h} \subseteq {d \in P : d < h}
        OBVIOUS
      <3> QED
        BY <3>1, FS_Subset DEF Before
    <2>3. PICK a \in Nat, p \in Nat : a = ReadAhead - Before(A, h) /\ p = ReadAhead - Before(P, h)
      BY <2>1
    <2>4. p * (p - 1) <= a * (a - 1)
      BY <2>1, <2>2, <2>3, TriangleMonotone
    <2>5. 2 * (n - h - 1) <= p * (p - 1)
      BY <2>3 DEF Ahead
    <2>6. 2 * (n - h - 1) <= a * (a - 1)
      BY <2>4, <2>5
    <2> QED
      BY <2>3, <2>6 DEF Ahead
  <1>3. ASSUME NEW y \in P \ A, \A d \in P : y <= d, NEW h \in A
        PROVE  Ahead(A, n + (ReadAhead - Cardinality(A)), h)
    <2>1. Before(P, h) \in Nat /\ Before(P, h) < ReadAhead /\ Before(A, h) \in Nat
          /\ Before(A, h) + 1 <= Cardinality(A)
      BY <1>1, BeforeType
    <2>2. Before(A, h) + 1 <= Before(P, h)
      <3> DEFINE BA == {d \in A : d < h}
                 BP == {d \in P : d < h}
      <3>1. BA \cup {y} \subseteq BP /\ y \notin BA
        <4>1. y \in Nat /\ h \in Nat /\ y # h /\ y <= h
          BY <1>3
        <4>2. y \in BP
          BY <4>1
        <4>3. BA \subseteq BP /\ y \notin BA
          OBVIOUS
        <4> QED
          BY <4>2, <4>3
      <3>2. IsFiniteSet(BA) /\ IsFiniteSet(BP)
        BY <1>1, FS_Subset
      <3>3. Cardinality(BA \cup {y}) = Cardinality(BA) + 1
        BY <3>1, <3>2, FS_AddElement
      <3>4. Cardinality(BA \cup {y}) <= Cardinality(BP)
        BY <3>1, <3>2, FS_Subset
      <3> QED
        BY <3>3, <3>4 DEF Before
    <2>3. PICK a \in Nat, p \in Nat :
             a = ReadAhead - Before(A, h) - 1 /\ p = ReadAhead - Before(P, h)
      BY <1>1, <2>1, <2>2
    <2>4. p * (p - 1) <= a * (a - 1)
      BY <2>1, <2>2, <2>3, TriangleMonotone
    <2>5. 2 * (n - h - 1) <= p * (p - 1)
      BY <2>3 DEF Ahead
    <2>6. 2 * (ReadAhead - Cardinality(A)) <= 2 * a
      BY <1>1, <2>1, <2>3
    <2>7. PICK b \in Nat : b = ReadAhead - Before(A, h) /\ b = a + 1
      BY <2>1, <2>3
    <2>8. PICK q \in Int : q = n + (ReadAhead - Cardinality(A))
      BY <1>1
    <2>9. 2 * (q - h - 1) <= b * (b - 1)
      <3> DEFINE ap == a * (a - 1)
                 pp == p * (p - 1)
                 bb == b * (b - 1)
      <3>1. b = a + 1 /\ (a + 1) * a = ap + 2 * a
        BY <2>7, TriangleStep
      <3>2. ap \in Int /\ pp \in Int /\ bb = ap + 2 * a /\ pp <= ap /\ 2 * (n - h - 1) <= pp
        BY <2>4, <2>5, <3>1
      <3> HIDE DEF ap, pp, bb
      <3>3. 2 * (q - h - 1) <= bb
        BY <1>1, <2>6, <2>8, <3>2
      <3> QED
        BY <3>3 DEF bb
    <2> QED
      <3>1. Ahead(A, q, h)
        BY <2>7, <2>9, AheadBy, Zenon
      <3> QED
        BY <2>8, <3>1, Zenon
  <1> QED
    BY <1>2, <1>3

-----------------------------------------------------------------------------
(* The steps.                                                              *)

LEMMA PendingFinite ==
    ASSUME TypeOK
    PROVE  /\ Pending \subseteq Nat /\ IsFiniteSet(Pending) /\ Pending \subseteq Offset
           /\ Held \subseteq Offset
  <1>1. Pending \subseteq Offset /\ Held \subseteq Offset
    BY DEF TypeOK, Pending, Held, Offs, Completion
  <1>2. IsFiniteSet(Offset) /\ Offset \subseteq Nat
    BY ReaderAssumption, FS_Interval DEF Offset, ReaderAssumption
  <1> QED
    BY <1>1, <1>2, FS_Subset

\* refill(): the window is filled up in part or whole; nothing when cancelled.
LEMMA RefillTakes ==
    ASSUME TypeOK, Refill
    PROVE  \E took \in Nat :
             /\ inFlight + took <= ReadAhead /\ nextSubmit + took <= Chunks
             /\ inFlight' = inFlight + took /\ nextSubmit' = nextSubmit + took
             /\ atDriver' = atDriver \cup nextSubmit .. (nextSubmit + took - 1)
             /\ cancelled => took = 0
  <1> DEFINE planned == Smaller(ReadAhead - inFlight, Chunks - nextSubmit)
             plan    == IF planned > 0 THEN planned ELSE 0
             taken   == IF cancelled THEN {0}
                        ELSE IF MayBackpressure THEN 0 .. plan ELSE {plan}
  <1>1. PICK took \in taken :
          /\ inFlight' = inFlight + took
          /\ nextSubmit' = nextSubmit + took
          /\ atDriver' = atDriver \cup nextSubmit .. (nextSubmit + took - 1)
    BY Zenon DEF Refill
  <1>2. plan \in Nat /\ inFlight + plan <= ReadAhead /\ nextSubmit + plan <= Chunks
    BY ReaderAssumption DEF TypeOK, ReaderAssumption, Smaller
  <1>3. took \in 0 .. plan /\ (cancelled => took = 0)
    <2> HIDE DEF plan
    <2> QED
      BY <1>2
  <1>4. took \in Nat /\ inFlight + took <= ReadAhead /\ nextSubmit + took <= Chunks
    <2> HIDE DEF plan, taken
    <2> QED
      BY <1>2, <1>3, ReaderAssumption DEF TypeOK, ReaderAssumption
  <1> QED
    BY <1>1, <1>3, <1>4

\* A refill from a settled state: every read, old and new, keeps its reach.
LEMMA RefillReach ==
    ASSUME IInv, Refill, ready' = ready,
           ~cancelled => \A h \in Pending : Ahead(Pending, nextSubmit + (ReadAhead - inFlight), h)
    PROVE  /\ inFlight' \in 0 .. ReadAhead /\ nextSubmit' \in nextSubmit .. Chunks
           /\ atDriver' \subseteq Offset
           /\ nextSubmit' - inFlight' = nextSubmit - inFlight
           /\ Pending' = Pending \cup nextSubmit .. (nextSubmit' - 1)
           /\ atDriver' = atDriver \cup nextSubmit .. (nextSubmit' - 1)
           /\ WindowExact'
           /\ \A h \in Pending' : Ahead(Pending', nextSubmit', h)
           /\ ~cancelled =>
                \A h \in Pending' : Ahead(Pending', nextSubmit' + (ReadAhead - inFlight'), h)
           /\ cancelled => nextSubmit' = nextSubmit /\ inFlight' = inFlight
  <1> USE ReaderAssumption DEF ReaderAssumption, IInv
  <1>1. PICK took \in Nat :
             /\ inFlight + took <= ReadAhead /\ nextSubmit + took <= Chunks
             /\ inFlight' = inFlight + took /\ nextSubmit' = nextSubmit + took
             /\ atDriver' = atDriver \cup nextSubmit .. (nextSubmit + took - 1)
             /\ cancelled => took = 0
    BY RefillTakes
  <1>2. /\ inFlight' \in 0 .. ReadAhead /\ nextSubmit' \in nextSubmit .. Chunks
        /\ nextSubmit' - inFlight' = nextSubmit - inFlight
        /\ cancelled => nextSubmit' = nextSubmit /\ inFlight' = inFlight
        /\ nextSubmit + took - 1 = nextSubmit' - 1
    BY <1>1 DEF TypeOK
  <1>3. atDriver' \subseteq Offset
    BY <1>1 DEF TypeOK, Offset
  <1>4. Pending' = Pending \cup nextSubmit .. (nextSubmit + took - 1)
    BY <1>1 DEF Pending
  <1>5. /\ Pending \in SUBSET Nat /\ IsFiniteSet(Pending) /\ nextSubmit \in Nat
        /\ \A d \in Pending : d < nextSubmit
    BY PendingFinite DEF TypeOK, Places
  <1>6. CASE ~cancelled
    <2>1. Cardinality(Pending) = inFlight
      BY DEF WindowExact
    <2>2. /\ IsFiniteSet(Pending') /\ Cardinality(Pending') = inFlight + took
          /\ \A h \in Pending' : Ahead(Pending', nextSubmit + (ReadAhead - inFlight), h)
      BY <1>1, <1>4, <1>5, <1>6, <2>1, Refilled
    <2>3. nextSubmit' + (ReadAhead - inFlight') = nextSubmit + (ReadAhead - inFlight)
      BY <1>1 DEF TypeOK
    <2>4. ASSUME NEW h \in Pending' PROVE Ahead(Pending', nextSubmit', h)
      <3>1. Pending' \in SUBSET Nat /\ nextSubmit' <= nextSubmit + (ReadAhead - inFlight)
        BY <1>1, <1>4, <1>5 DEF TypeOK
      <3>2. nextSubmit' \in Int /\ nextSubmit + (ReadAhead - inFlight) \in Int
        BY <1>1 DEF TypeOK
      <3> QED
        BY <2>2, <3>1, <3>2, AheadWeaken
    <2> QED
      BY <1>1, <1>2, <1>3, <1>4, <1>6, <2>2, <2>3, <2>4 DEF WindowExact
  <1>7. CASE cancelled
    <2>1. Pending' = Pending /\ nextSubmit' = nextSubmit /\ inFlight' = inFlight
      BY <1>1, <1>2, <1>4, <1>7 DEF TypeOK
    <2> QED
      BY <1>1, <1>2, <1>3, <1>4, <1>7, <2>1 DEF WindowExact, Reach
  <1> QED
    BY <1>6, <1>7

LEMMA IntervalFacts ==
    ASSUME NEW m \in Nat, NEW n \in Nat
    PROVE  \A x \in m .. (n - 1) : x \in Nat /\ m <= x /\ x < n
  OBVIOUS

LEMMA IntervalSplit ==
    ASSUME NEW l \in Nat, NEW m \in Nat, NEW n \in Nat
    PROVE  \A x \in l .. (n - 1) : x \in l .. (m - 1) \/ x \in m .. (n - 1)
  OBVIOUS

LEMMA IntervalWiden ==
    ASSUME NEW l \in Nat, NEW m \in Nat, NEW n \in Nat, l <= m
    PROVE  \A x \in m .. (n - 1) : x \in l .. (n - 1)
  OBVIOUS

\* Filling the window up to R does not take submission farther than it may go.
LEMMA WindowMoves ==
    ASSUME NEW s \in Int, NEW t \in Int, NEW y \in Int, NEW f \in Int, NEW g \in Int,
           NEW R \in Int, NEW b \in Int,
           t - g = s - f, g <= R, 2 * (s - y + (R - f)) <= b
    PROVE  2 * (t - y) <= b /\ 2 * (t - y + (R - g)) <= b /\ 2 * (t - y + (R - g)) <= b + 2
  OBVIOUS

LEMMA YieldMoves ==
    ASSUME NEW s \in Int, NEW y \in Int, NEW b \in Int, 2 * (s - y) <= b
    PROVE  2 * (s - (y + 1)) <= b
  OBVIOUS

\* The places after a refill that may follow the hand-out of a chunk.
LEMMA RefillPlaces ==
    ASSUME TypeOK, Places, nextSubmit' \in nextSubmit .. Chunks, nextYield' \in Nat,
           UNCHANGED <<ready, error, cancelled>>, reordered' \subseteq reordered,
           Pending' = Pending \cup nextSubmit .. (nextSubmit' - 1),
           atDriver' = atDriver \cup nextSubmit .. (nextSubmit' - 1),
           \A x \in Pending \cup Held' : nextYield' <= x, nextYield' <= nextSubmit,
           ~error /\ ~cancelled => nextYield' .. (nextSubmit - 1) \subseteq Pending \cup Held'
    PROVE  Places'
  <1> DEFINE N == nextSubmit .. (nextSubmit' - 1)
  <1>0. nextSubmit \in Nat /\ nextSubmit' \in Nat /\ nextSubmit <= nextSubmit'
    BY ReaderAssumption DEF TypeOK, ReaderAssumption
  <1>1. \A x \in Pending \cup Held : x \in Nat /\ x < nextSubmit
    BY DEF Places, TypeOK
  <1>2. \A x \in N : x \in Nat /\ nextSubmit <= x /\ x < nextSubmit'
    BY <1>0, IntervalFacts
  <1>3. Held' \subseteq Held /\ Offs(ready)' = Offs(ready) /\ Offs(ready) \subseteq Pending
    BY DEF Held, Offs, Pending
  <1>4. N \cap (Pending \cup Held) = {}
    <2> HIDE DEF N
    <2> QED
      BY <1>1, <1>2 DEF TypeOK
  <1>5. /\ atDriver' \cap Offs(ready)' = {} /\ Pending' \cap Held' = {}
        /\ \A a, b \in ready' : a.off = b.off => a = b
        /\ \A a, b \in reordered' : a.off = b.off => a = b
    <2> HIDE DEF N
    <2> QED
      BY <1>3, <1>4 DEF Places, N
  <1>6. Pending' \cup Held' \subseteq nextYield' .. (nextSubmit' - 1)
    <2>1. ASSUME NEW x \in Pending \cup Held' PROVE x \in nextYield' .. (nextSubmit' - 1)
      BY <1>1, <1>3 DEF TypeOK
    <2>2. ASSUME NEW x \in N PROVE x \in nextYield' .. (nextSubmit' - 1)
      BY <1>0, IntervalWiden
    <2> QED
      BY <2>1, <2>2
  <1>7. ~error' /\ ~cancelled' => nextYield' .. (nextSubmit' - 1) \subseteq Pending' \cup Held'
    <2>1. ASSUME NEW x \in nextYield' .. (nextSubmit' - 1)
          PROVE  x \in nextYield' .. (nextSubmit - 1) \/ x \in N
      BY <1>0, IntervalSplit
    <2> HIDE DEF N
    <2> QED
      BY <2>1 DEF N
  <1> QED
    BY <1>5, <1>6, <1>7 DEF Places

LEMMA CallNextInv == ASSUME IInv, CallNext PROVE IInv'
  <1> USE ReaderAssumption DEF ReaderAssumption, IInv
  <1>0. UNCHANGED <<nextYield, error, reordered, ready, cancelled>> /\ pc = "idle"
    BY DEF CallNext
  <1>1. CASE /\ (error \/ nextYield >= Chunks) /\ UNCHANGED <<nextSubmit, inFlight, atDriver, pc>>
             /\ returned' \in {"fail", "eof"} /\ (returned' = "eof" => nextYield >= Chunks)
    <2>1. Pending' = Pending /\ Held' = Held
      BY <1>0, <1>1 DEF Pending, Held
    <2> QED
      BY <1>0, <1>1, <2>1 DEF TypeOK, Places, WindowExact, CallShape, Reach, Settled, Span,
                              CleanEofMeansComplete
  <1>2. CASE ~error /\ nextYield < Chunks /\ Refill /\ pc' = "next" /\ returned' = returned
    <2>1. ~cancelled => Settled
      BY <1>0, <1>2 DEF Settled
    <2>2. /\ inFlight' \in 0 .. ReadAhead /\ nextSubmit' \in nextSubmit .. Chunks
          /\ atDriver' \subseteq Offset
          /\ nextSubmit' - inFlight' = nextSubmit - inFlight
          /\ Pending' = Pending \cup nextSubmit .. (nextSubmit' - 1)
          /\ atDriver' = atDriver \cup nextSubmit .. (nextSubmit' - 1)
          /\ WindowExact'
          /\ \A h \in Pending' : Ahead(Pending', nextSubmit', h)
          /\ ~cancelled =>
               \A h \in Pending' : Ahead(Pending', nextSubmit' + (ReadAhead - inFlight'), h)
          /\ cancelled => nextSubmit' = nextSubmit /\ inFlight' = inFlight
      BY <1>0, <1>2, <2>1, RefillReach DEF Reach
    <2>3. TypeOK'
      BY <1>0, <1>2, <2>2 DEF TypeOK
    <2>4. Places'
      <3>1. Held' = Held
        BY <1>0 DEF Held
      <3>2. /\ \A x \in Pending \cup Held' : nextYield' <= x
            /\ nextYield' \in Nat /\ nextYield' <= nextSubmit
        BY <1>0, <3>1 DEF Places, TypeOK
      <3>3. ~error /\ ~cancelled => nextYield' .. (nextSubmit - 1) \subseteq Pending \cup Held'
        BY <1>0, <3>1 DEF Places
      <3> QED
        BY <1>0, <2>2, <3>2, <3>3, RefillPlaces
    <2>5. CallShape' /\ CleanEofMeansComplete'
      BY <1>0, <1>2 DEF CallShape, CleanEofMeansComplete
    <2>6. Reach'
      BY <1>0, <2>2 DEF Reach, Settled
    <2>7. Span'
      <3>1. PICK tri \in Int : tri = ReadAhead * (ReadAhead + 1)
        OBVIOUS
      <3>2. /\ nextSubmit \in Int /\ nextYield \in Int /\ inFlight \in Int /\ ReadAhead \in Int
            /\ nextSubmit' \in Int /\ inFlight' \in Int /\ inFlight' <= ReadAhead
        BY <2>2, <2>3 DEF TypeOK
      <3>3. CASE cancelled
        BY <1>0, <2>2, <3>3 DEF Span, Settled
      <3>4. CASE ~cancelled
        <4>1. 2 * (nextSubmit - nextYield + (ReadAhead - inFlight)) <= tri
          BY <1>0, <2>1, <3>1, <3>4 DEF Span
        <4>2. /\ 2 * (nextSubmit' - nextYield) <= tri
              /\ 2 * (nextSubmit' - nextYield + (ReadAhead - inFlight')) <= tri + 2
          BY <2>2, <3>2, <4>1, WindowMoves, ZenonT(60)
        <4> QED
          BY <1>0, <1>2, <3>1, <4>2 DEF Span
      <3> QED
        BY <3>3, <3>4
    <2> QED
      BY <2>2, <2>3, <2>4, <2>5, <2>6, <2>7
  <1> QED
    BY <1>1, <1>2 DEF CallNext

LEMMA YieldInv == ASSUME IInv, Yield PROVE IInv'
  <1> USE ReaderAssumption DEF ReaderAssumption, IInv
  <1>1. PICK c \in reordered :
          /\ c.off = nextYield
          /\ reordered' = reordered \ {c}
          /\ \/ /\ c.status \in {"Error", "Eof"}
                /\ error' = TRUE /\ returned' = "fail"
                /\ UNCHANGED <<nextYield, nextSubmit, inFlight, atDriver>>
             \/ /\ c.status = "Ok"
                /\ nextYield' = nextYield + 1 /\ returned' = "data"
                /\ Refill /\ UNCHANGED error
             \/ /\ c.status = "Cancelled"
                /\ returned' = "eof"
                /\ Refill /\ UNCHANGED <<nextYield, error>>
    BY DEF Yield
  <1>2. pc = "next" /\ pc' = "idle" /\ ready' = ready /\ cancelled' = cancelled
    BY DEF Yield
  <1>3. /\ nextYield \in Held /\ Held' = Held \ {nextYield} /\ nextYield \notin Pending
        /\ reordered' \subseteq Completion /\ ~error /\ nextYield < Chunks
        /\ nextYield < nextSubmit
    <2>1. nextYield \in Held
      BY <1>1 DEF Held, Offs
    <2>2. Held' = Held \ {nextYield}
      BY <1>1 DEF Held, Offs, Places
    <2> QED
      BY <1>1, <1>2, <2>1, <2>2 DEF Places, CallShape, TypeOK
  <1>4. \A a, b \in reordered' : a.off = b.off => a = b
    BY <1>1 DEF Places
  <1>5. CASE /\ error' = TRUE /\ returned' = "fail"
             /\ UNCHANGED <<nextYield, nextSubmit, inFlight, atDriver>>
    <2>1. Pending' = Pending
      BY <1>2, <1>5 DEF Pending
    <2>2. Places'
      BY <1>2, <1>3, <1>4, <1>5, <2>1 DEF Places
    <2>3. CallShape' /\ CleanEofMeansComplete'
      BY <1>1, <1>2, <1>5 DEF CallShape, CleanEofMeansComplete
    <2> QED
      BY <1>2, <1>3, <1>5, <2>1, <2>2, <2>3 DEF TypeOK, WindowExact, Reach, Settled, Span
  <1>6. CASE /\ Refill /\ error' = error
             /\ \/ nextYield' = nextYield + 1 /\ returned' = "data"
                \/ nextYield' = nextYield /\ returned' = "eof" /\ cancelled
    <2>1. ~cancelled => Settled
      BY <1>3 DEF Settled
    <2>2. /\ inFlight' \in 0 .. ReadAhead /\ nextSubmit' \in nextSubmit .. Chunks
          /\ atDriver' \subseteq Offset
          /\ nextSubmit' - inFlight' = nextSubmit - inFlight
          /\ Pending' = Pending \cup nextSubmit .. (nextSubmit' - 1)
          /\ atDriver' = atDriver \cup nextSubmit .. (nextSubmit' - 1)
          /\ WindowExact'
          /\ \A h \in Pending' : Ahead(Pending', nextSubmit', h)
          /\ ~cancelled =>
               \A h \in Pending' : Ahead(Pending', nextSubmit' + (ReadAhead - inFlight'), h)
          /\ cancelled => nextSubmit' = nextSubmit /\ inFlight' = inFlight
      BY <1>2, <1>6, <2>1, RefillReach DEF Reach
    <2>3. TypeOK'
      BY <1>2, <1>3, <1>6, <2>2 DEF TypeOK
    <2>4. Places'
      <3>1. /\ \A x \in Pending \cup Held' : nextYield' <= x
            /\ nextYield' \in Nat /\ nextYield' <= nextSubmit
        <4>1. \A x \in Pending \cup Held' : x \in Nat /\ nextYield <= x /\ x # nextYield
          BY <1>3 DEF Places, TypeOK
        <4> QED
          BY <1>3, <1>6, <4>1 DEF TypeOK
      <3>2. ~error /\ ~cancelled => nextYield' .. (nextSubmit - 1) \subseteq Pending \cup Held'
        <4> SUFFICES ASSUME ~error, ~cancelled, NEW x \in nextYield' .. (nextSubmit - 1)
                     PROVE  x \in Pending \cup Held'
          OBVIOUS
        <4>1. x \in nextYield .. (nextSubmit - 1) /\ x # nextYield
          BY <1>6 DEF TypeOK
        <4> QED
          BY <1>3, <4>1 DEF Places
      <3> QED
        BY <1>1, <1>2, <1>6, <2>2, <3>1, <3>2, RefillPlaces
    <2>5. CallShape' /\ CleanEofMeansComplete'
      BY <1>1, <1>2, <1>6 DEF CallShape, CleanEofMeansComplete
    <2>6. Reach'
      BY <1>2, <2>2 DEF Reach, Settled
    <2>7. Span'
      <3>1. PICK tri \in Int : tri = ReadAhead * (ReadAhead + 1)
        OBVIOUS
      <3>2. /\ nextSubmit \in Int /\ nextYield \in Int /\ inFlight \in Int /\ ReadAhead \in Int
            /\ nextSubmit' \in Int /\ inFlight' \in Int /\ inFlight' <= ReadAhead
            /\ nextYield' \in Int
        BY <2>2, <2>3 DEF TypeOK
      <3>3. CASE cancelled
        <4>1. 2 * (nextSubmit - nextYield) <= tri /\ nextSubmit' = nextSubmit
          BY <2>2, <3>1, <3>3 DEF Span
        <4>2. 2 * (nextSubmit' - nextYield') <= tri
          BY <1>6, <3>2, <4>1, YieldMoves
        <4> QED
          BY <1>2, <3>1, <3>3, <4>2 DEF Span, Settled
      <3>4. CASE ~cancelled
        <4>1. /\ 2 * (nextSubmit - nextYield + (ReadAhead - inFlight)) <= tri + 2
              /\ nextYield' = nextYield + 1
          BY <1>2, <1>6, <2>1, <3>1, <3>4 DEF Span
        <4>2. 2 * (nextSubmit - nextYield' + (ReadAhead - inFlight)) <= tri
          BY <3>2, <4>1
        <4>3. /\ 2 * (nextSubmit' - nextYield') <= tri
              /\ 2 * (nextSubmit' - nextYield' + (ReadAhead - inFlight')) <= tri
          BY <2>2, <3>2, <4>2, WindowMoves
        <4>4. tri = tri + 0
          OBVIOUS
        <4> QED
          BY <1>2, <3>1, <4>3, <4>4 DEF Span
      <3> QED
        BY <3>3, <3>4
    <2> QED
      BY <2>2, <2>3, <2>4, <2>5, <2>6, <2>7
  <1>7. c.status = "Cancelled" => cancelled
    BY DEF CallShape
  <1> QED
    BY <1>1, <1>5, <1>6, <1>7

LEMMA DrainInv == ASSUME IInv, Drain PROVE IInv'
  <1> USE ReaderAssumption DEF ReaderAssumption, IInv
  <1>1. /\ pc = "next" /\ Awaited /\ ready' = {}
        /\ reordered' = reordered \cup {c \in ready : \A d \in reordered : d.off # c.off}
        /\ inFlight' = inFlight - Smaller(inFlight, Cardinality(ready))
        /\ UNCHANGED <<nextSubmit, nextYield, error, atDriver, cancelled, pc, returned>>
    BY DEF Drain
  <1>2. /\ reordered' = reordered \cup ready /\ nextYield \notin Held
        /\ Pending' = atDriver /\ Held' = Held \cup Offs(ready)
    <2>1. nextYield \notin Held
      BY <1>1 DEF Awaited, Held, Offs
    <2>2. reordered' = reordered \cup ready
      BY <1>1 DEF Places, Pending, Held, Offs
    <2> QED
      BY <1>1, <2>1, <2>2 DEF Pending, Held, Offs
  <1>3. /\ inFlight' = Cardinality(atDriver) /\ inFlight' \in 0 .. inFlight
        /\ Pending \in SUBSET Nat /\ IsFiniteSet(Pending) /\ Cardinality(Pending) <= ReadAhead
    <2>1. IsFiniteSet(ready) /\ Cardinality(ready) = Cardinality(Offs(ready))
          /\ IsFiniteSet(Offs(ready))
      BY CountByOffset DEF Places, TypeOK
    <2>2. Pending \in SUBSET Nat /\ IsFiniteSet(Pending)
      BY PendingFinite
    <2>3. Pending \ Offs(ready) = atDriver /\ Pending \cap Offs(ready) = Offs(ready)
      BY DEF Pending, Places
    <2>4. Cardinality(atDriver) = Cardinality(Pending) - Cardinality(ready)
      <3>1. Cardinality(Pending \ Offs(ready))
              = Cardinality(Pending) - Cardinality(Pending \cap Offs(ready))
        BY <2>2, FS_Difference
      <3> QED
        BY <2>1, <2>3, <3>1
    <2>5. Cardinality(atDriver) \in Nat /\ Cardinality(ready) \in Nat
      BY <2>1, <2>2, FS_Subset, FS_CardinalityType DEF Pending
    <2> QED
      BY <1>1, <2>2, <2>4, <2>5 DEF WindowExact, Smaller, TypeOK
  <1>4. TypeOK'
    BY <1>1, <1>2, <1>3 DEF TypeOK
  <1>5. Places'
    <2>1. Offs(ready') = {}
      BY <1>1 DEF Offs
    <2>2. \A a, b \in reordered \cup ready : a.off = b.off => a = b
      BY DEF Places, Pending, Held, Offs
    <2> QED
      BY <1>1, <1>2, <2>1, <2>2 DEF Places, Pending
  <1>6. WindowExact' /\ CallShape' /\ CleanEofMeansComplete'
    BY <1>1, <1>2, <1>3 DEF WindowExact, CallShape, CleanEofMeansComplete
  <1>7. Reach' /\ Span'
    <2>1. atDriver \in SUBSET Pending /\ nextSubmit \in Nat
      BY DEF Pending, TypeOK
    <2>2. \A h \in atDriver : Ahead(atDriver, nextSubmit, h)
      BY <1>3, <2>1, Drained DEF Reach
    <2>3. CASE ~Settled'
      BY <1>1, <1>2, <2>2, <2>3 DEF Reach, Span
    <2>4. CASE Settled'
      <3>1. nextYield \in Offs(ready) /\ nextYield \in Pending \ atDriver
        BY <1>1, <1>2, <2>4 DEF Settled, Pending, Places
      <3>2. \A d \in Pending : nextYield <= d
        BY DEF Places, TypeOK
      <3>3. \A h \in atDriver : Ahead(atDriver, nextSubmit + (ReadAhead - Cardinality(atDriver)), h)
        BY <1>3, <2>1, <3>1, <3>2, Drained DEF Reach
      <3>4. Before(Pending, nextYield) = 0
        <4>1. {d \in Pending : d < nextYield} = {}
          BY <3>2, PendingFinite DEF TypeOK
        <4> QED
          BY <4>1, FS_EmptySet DEF Before
      <3>5. Ahead(Pending, nextSubmit, nextYield)
        BY <3>1 DEF Reach
      <3>6. 2 * (nextSubmit - nextYield - 1) <= ReadAhead * (ReadAhead - 1)
        BY <3>4, <3>5 DEF Ahead
      <3>7. ReadAhead * (ReadAhead + 1) = ReadAhead * (ReadAhead - 1) + 2 * ReadAhead
        BY TriangleStep
      <3>8. 2 * (nextSubmit - nextYield + (ReadAhead - inFlight')) <= ReadAhead * (ReadAhead + 1) + 2
        <4> DEFINE tri == ReadAhead * (ReadAhead + 1)
                   low == ReadAhead * (ReadAhead - 1)
        <4>1. tri \in Int /\ low \in Int /\ tri = low + 2 * ReadAhead
              /\ 2 * (nextSubmit - nextYield - 1) <= low
          BY <3>6, <3>7
        <4> HIDE DEF tri, low
        <4>2. 2 * (nextSubmit - nextYield + (ReadAhead - inFlight')) <= tri + 2
          BY <1>3, <4>1 DEF TypeOK
        <4> QED
          BY <4>2 DEF tri
      <3> QED
        BY <1>1, <1>2, <1>3, <2>2, <3>3, <3>8 DEF Reach, Span
    <2> QED
      BY <2>3, <2>4
  <1> QED
    BY <1>4, <1>5, <1>6, <1>7

\* A read completes, or is cancelled: it stays in flight until it is drained.
LEMMA DriverInv ==
    ASSUME IInv, Cancel \/ \E off \in Offset : Complete(off)
    PROVE  IInv'
  <1> USE ReaderAssumption DEF ReaderAssumption, IInv
  <1>1. UNCHANGED <<nextSubmit, nextYield, inFlight, error, reordered, pc, returned>>
        /\ (cancelled' = cancelled \/ cancelled' = TRUE)
    BY DEF Cancel, Complete
  <1>2. PICK S, new : /\ S \subseteq atDriver /\ atDriver' = atDriver \ S
                      /\ ready' = ready \cup new /\ new \subseteq Completion
                      /\ Offs(new) = S /\ \A a, b \in new : a.off = b.off => a = b
                      /\ \A c \in new : c.status = "Cancelled" => cancelled'
    <2>1. CASE Cancel
      <3>1. PICK queued \in SUBSET atDriver :
               /\ atDriver' = atDriver \ queued
               /\ ready' = ready \cup [off : queued, status : {"Cancelled"}]
        BY <2>1 DEF Cancel
      <3> DEFINE new == [off : queued, status : {"Cancelled"}]
      <3>2. new \subseteq Completion /\ \A a, b \in new : a.off = b.off => a = b
        BY DEF Completion, TypeOK
      <3>3. Offs(new) = queued
        <4>1. ASSUME NEW q \in queued PROVE q \in Offs(new)
          <5>1. \E r \in new : r.off = q
            <6>1. [off |-> q, status |-> "Cancelled"] \in new
              OBVIOUS
            <6> QED
              BY <6>1
          <5> QED
            BY <5>1 DEF Offs
        <4> QED
          BY <4>1 DEF Offs
      <3>4. cancelled' = TRUE
        BY <2>1 DEF Cancel
      <3> QED
        BY <3>1, <3>2, <3>3, <3>4
    <2>2. CASE \E off \in Offset : Complete(off)
      <3>1. PICK off \in atDriver, st \in {"Ok", "Eof", "Error"} :
               /\ atDriver' = atDriver \ {off}
               /\ ready' = ready \cup {[off |-> off, status |-> st]}
        BY <2>2 DEF Complete
      <3> DEFINE new == {[off |-> off, status |-> st]}
      <3>2. new \subseteq Completion /\ Offs(new) = {off}
        BY DEF Completion, TypeOK, Offs
      <3> QED
        BY <3>1, <3>2
    <2> QED
      BY <2>1, <2>2
  <1>3. Offs(ready') = Offs(ready) \cup S
    BY <1>2 DEF Offs
  <1>4. Pending' = Pending /\ Held' = Held
    BY <1>1, <1>2, <1>3 DEF Pending, Held
  <1>5. Places'
    <2>1. \A a, b \in ready' : a.off = b.off => a = b
      BY <1>2 DEF Places, Offs
    <2>2. atDriver' \cap Offs(ready') = {}
      BY <1>2, <1>3 DEF Places
    <2> QED
      BY <1>1, <1>4, <2>1, <2>2 DEF Places
  <1>6. TypeOK' /\ CallShape'
    BY <1>1, <1>2 DEF TypeOK, CallShape
  <1> QED
    BY <1>1, <1>4, <1>5, <1>6 DEF WindowExact, Reach, Settled, Span, CleanEofMeansComplete

\* The guard at the end of next()'s loop is never reached before a cancel.
LEMMA GiveUpInv == ASSUME IInv, GiveUp PROVE IInv'
  <1> USE ReaderAssumption DEF ReaderAssumption, IInv
  <1>1. /\ pc = "next" /\ Awaited /\ ready = {} /\ inFlight = 0 /\ nextSubmit >= Chunks
        /\ returned' = "eof" /\ pc' = "idle"
        /\ UNCHANGED <<nextSubmit, nextYield, inFlight, error, reordered, atDriver, ready,
                       cancelled>>
    BY DEF GiveUp
  <1>2. cancelled
    <2> SUFFICES ASSUME ~cancelled PROVE FALSE
      BY DEF TypeOK
    <2>1. nextYield \in Pending \cup Held
      BY <1>1 DEF CallShape, Places, TypeOK
    <2>2. Pending = {}
      BY <1>1, PendingFinite, FS_EmptySet DEF WindowExact
    <2>3. nextYield \notin Held
      BY <1>1 DEF Awaited, Held, Offs
    <2> QED
      BY <2>1, <2>2, <2>3
  <1>3. Pending' = Pending /\ Held' = Held
    BY <1>1 DEF Pending, Held
  <1> QED
    BY <1>1, <1>2, <1>3 DEF TypeOK, Places, WindowExact, CallShape, Reach, Settled, Span,
                            CleanEofMeansComplete

-----------------------------------------------------------------------------
(* The theorems.                                                           *)

LEMMA InitIInv == Init => IInv
  <1> SUFFICES ASSUME Init PROVE IInv
    OBVIOUS
  <1> USE ReaderAssumption DEF ReaderAssumption, Init
  <1>1. Pending = {} /\ Held = {} /\ Offs(ready) = {}
    BY DEF Pending, Held, Offs
  <1>2. TypeOK
    <2>1. 0 \in 0 .. Chunks /\ 0 \in 0 .. ReadAhead /\ 0 \in 0 .. 0
      OBVIOUS
    <2>2. error \in BOOLEAN /\ cancelled \in BOOLEAN
      OBVIOUS
    <2> QED
      BY <2>1, <2>2 DEF TypeOK
  <1>5. Places
    <2>1. nextYield .. (nextSubmit - 1) = {}
      OBVIOUS
    <2> QED
      BY <1>1, <2>1 DEF Places
  <1>6. CallShape /\ CleanEofMeansComplete
    BY DEF CallShape, CleanEofMeansComplete
  <1>3. WindowExact /\ Reach
    BY <1>1, FS_EmptySet DEF WindowExact, Reach
  <1>4. Span
    <2>1. ReadAhead * (ReadAhead + 1) >= 2 * ReadAhead
      OBVIOUS
    <2> QED
      BY <2>1 DEF Span
  <1> QED
    BY <1>2, <1>3, <1>4, <1>5, <1>6 DEF IInv

LEMMA NextIInv == IInv /\ [Next]_vars => IInv'
  <1> SUFFICES ASSUME IInv, [Next]_vars PROVE IInv'
    OBVIOUS
  <1>1. CASE UNCHANGED vars
    <2>1. Pending' = Pending /\ Held' = Held /\ Offs(ready)' = Offs(ready)
      BY <1>1 DEF vars, Pending, Held, Offs
    <2> QED
      BY <1>1, <2>1 DEF vars, IInv, TypeOK, Places, WindowExact, CallShape, Reach, Settled, Span,
                        CleanEofMeansComplete
  <1> QED
    BY <1>1, CallNextInv, YieldInv, DrainInv, GiveUpInv, DriverInv DEF Next

LEMMA Invariance == Spec => []IInv
  BY InitIInv, NextIInv, PTL DEF Spec

LEMMA HeldBounded == IInv => MemoryBounded
  <1> SUFFICES ASSUME IInv PROVE MemoryBounded
    OBVIOUS
  <1> USE ReaderAssumption DEF ReaderAssumption, IInv
  <1>1. Cardinality(reordered) = Cardinality(Held) /\ IsFiniteSet(Held)
    BY CountByOffset DEF TypeOK, Places, Held
  <1>2. Cardinality(Pending \cup Held) = inFlight + Cardinality(reordered)
    <2>1. Cardinality(Pending \cap Held) = 0
      BY FS_EmptySet DEF Places
    <2>2. Cardinality(Pending \cup Held)
            = Cardinality(Pending) + Cardinality(Held) - Cardinality(Pending \cap Held)
      BY <1>1, PendingFinite, FS_Union
    <2>3. Cardinality(Held) \in Nat
      BY <1>1, FS_CardinalityType
    <2> QED
      BY <1>1, <2>1, <2>2, <2>3 DEF WindowExact, TypeOK
  <1>3. Cardinality(Pending \cup Held) <= nextSubmit - nextYield
    <2> DEFINE all == nextYield .. (nextSubmit - 1)
    <2>1. IsFiniteSet(all) /\ Cardinality(all) = nextSubmit - nextYield
      <3>1. /\ nextYield \in Int /\ nextSubmit - 1 \in Int
            /\ (IF nextYield > nextSubmit - 1 THEN 0 ELSE (nextSubmit - 1) - nextYield + 1)
                 = nextSubmit - nextYield
        BY DEF TypeOK
      <3> QED
        BY <3>1, FS_Interval
    <2>2. Pending \cup Held \in SUBSET all
      BY DEF Places
    <2> HIDE DEF all
    <2>3. Cardinality(Pending \cup Held) <= Cardinality(all)
      BY <2>1, <2>2, FS_Subset
    <2> QED
      BY <2>1, <2>3
  <1>4. Cardinality(reordered) \in Nat
    BY <1>1, FS_CardinalityType
  <1>5. 2 * (inFlight + Cardinality(reordered)) <= 2 * (nextSubmit - nextYield)
    BY <1>2, <1>3, <1>4 DEF TypeOK
  <1>6. 2 * (nextSubmit - nextYield) <= ReadAhead * (ReadAhead + 1)
    BY DEF Span
  <1> QED
    BY <1>4, <1>5, <1>6 DEF MemoryBounded, TypeOK

\* The reader never has more than the window in flight, and never holds more chunks,
\* in flight or back for ordering, than the triangular number of the window: whatever
\* the size of the file and the order in which the driver completes the reads.
THEOREM MemoryHolds == Spec => []MemoryBounded
  BY Invariance, HeldBounded, PTL

\* As long as the driver is not cancelled, 0 bytes with ok=true means that every chunk of
\* the file was handed out, whatever errors and short reads came back.
THEOREM CleanEofHolds == Spec => []CleanEofMeansComplete
  <1>1. IInv => CleanEofMeansComplete
    BY DEF IInv
  <1> QED
    BY <1>1, Invariance, PTL
=============================================================================
