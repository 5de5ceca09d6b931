------------------------ MODULE ClientTransferProofs ------------------------
(***************************************************************************)
(* Proofs about the client's session loop: every file is in one place, lane *)
(* slots are exact, late frames of failed lanes are harmless, and a session *)
(* that ends complete has the whole listing, for all files, lanes, limits   *)
(* and failures.                                                            *)
(***************************************************************************)
EXTENDS ClientTransfer, SequenceTheorems, FiniteSetTheorems, WellFoundedInduction, TLAPS

-----------------------------------------------------------------------------
(* Types.                                                                  *)

Verdict == {"unchanged", "transferred", "failed"}
Work == [pendingBatch : Seq(Small), pending : Seq(File \ Small), retryBatch : Seq(Small),
         retry : Seq(File \ Small), scheduled : SUBSET File, retries : [File -> Nat],
         resolved : SUBSET File, ioTasks : SUBSET File, ioResults : SUBSET (File \X BOOLEAN),
         ioOutstanding : Int, verdicts : [File -> Seq(Verdict)], failed : Nat]

FileRequest == [type : {"FileOpen"}, lane : Lane, sid : Nat]
BatchRequest == [type : {"FileBatchOpen"}, lane : Lane, sid : Nat, files : Seq(Small)]
BatchRest == [type : {"batch"}, lane : Lane, sid : Nat, chunks : Nat]
StreamRequest == FileRequest \cup BatchRequest \cup BatchRest
HashRequest == [type : {"HashRequest"}, lane : Lane, rel : File]

StreamTypes == {"FileEnd", "FileError", "FileBatchOpen", "FileBatchChunk", "FileBatchEnd"}
PlainFrame == [type : StreamTypes \ {"FileBatchOpen"}, lane : Lane, sid : Nat]
Header == [type : {"FileBatchOpen"}, lane : Lane, sid : Nat, files : Seq(Small), ok : SUBSET Small]
HashAnswer == [type : {"HashResponse"}, lane : Lane, rel : File]
EntryFrame == [type : {"ManifestEntry"}, rel : File]
EndFrame == [type : {"ManifestEnd"}]
Frames == PlainFrame \cup Header \cup HashAnswer \cup EntryFrame \cup EndFrame

Batch == [headerReady : BOOLEAN, waiting : Seq(Small)]

\* What is asked for on streams, and the frames to come in the order they are handled.
Requests == {r \in asked : r.type # "HashRequest"}
Coming == readyFrames \o incomingPriority

LaneType ==
    /\ healthy \in [Lane -> BOOLEAN] /\ recving \in [Lane -> BOOLEAN]
    /\ drained \in [Lane -> BOOLEAN] /\ inFlight \in [Lane -> Nat]
    /\ nextStreamId \in [Lane -> Nat]

LoopType ==
    /\ empty \subseteq Small /\ toList \subseteq File /\ remoteFiles \subseteq File
    /\ manifestBatch \in Seq(EntryFrame) /\ incomingManifest \in Seq(EntryFrame \cup EndFrame)
    /\ incomingPriority \in Seq(PlainFrame \cup Header \cup HashAnswer)
    /\ readyFrames \in Seq(Frames)
    /\ result \in {"running", "complete", "incomplete"}
    /\ pc = "process" <=> readyFrames # <<>>
    /\ comparing \in [DOMAIN comparing -> {"queued", "TransferNow", "Skip", "Hash"}]
    /\ DOMAIN comparing \subseteq File
    /\ work \in Work

-----------------------------------------------------------------------------
(* The network: e stands for empty, q for Requests, s for Coming, d and b for the client's *)
(* streams, h for healthy and n for nextStreamId.                            *)

Key(m) == <<m.lane, m.sid>>
Once(s) == \A i, j \in DOMAIN s : s[i] = s[j] => i = j
ChunkOf(k) == [type |-> "FileBatchChunk", lane |-> k[1], sid |-> k[2]]
OnStream(m) == m.type \in StreamTypes

NetType(q, s, d, b) ==
    /\ q \subseteq StreamRequest /\ IsFiniteSet(q) /\ s \in Seq(Frames)
    /\ d \in [DOMAIN d -> File \ Small] /\ b \in [DOMAIN b -> Batch]
    /\ DOMAIN d \cup DOMAIN b \subseteq Lane \X Nat
    /\ IsFiniteSet(DOMAIN d) /\ IsFiniteSet(DOMAIN b) /\ DOMAIN d \cap DOMAIN b = {}
    /\ \A r \in q : r.type = "FileBatchOpen" => Once(r.files)
    /\ \A i \in DOMAIN s : s[i].type = "FileBatchOpen" =>
          Once(s[i].files) /\ s[i].ok \subseteq ToSet(s[i].files)
    /\ \A k \in DOMAIN b : Once(b[k].waiting)

\* A stream id is used once.
IdsFresh(q, s, d, b, n) ==
    /\ \A k \in DOMAIN d \cup DOMAIN b : k[2] < n[k[1]]
    /\ \A r \in q : r.sid < n[r.lane]
    /\ \A i \in DOMAIN s : OnStream(s[i]) => s[i].sid < n[s[i].lane]
    /\ \A p, r \in q : Key(p) = Key(r) => p = r

\* A stream that is gone while its answer is under way was on a lane that is down.
AnswersKnown(q, s, d, b, h) ==
    /\ \A r \in q :
          /\ r.type = "FileOpen" => Key(r) \notin DOMAIN b /\ (h[r.lane] => Key(r) \in DOMAIN d)
          /\ r.type # "FileOpen" => Key(r) \notin DOMAIN d /\ (h[r.lane] => Key(r) \in DOMAIN b)
    /\ \A i \in DOMAIN s :
          LET t == s[i].type
          IN  /\ t = "FileEnd" =>
                    Key(s[i]) \notin DOMAIN b /\ (h[s[i].lane] => Key(s[i]) \in DOMAIN d)
              /\ t \in {"FileBatchOpen", "FileBatchChunk", "FileBatchEnd"} =>
                    Key(s[i]) \notin DOMAIN d /\ (h[s[i].lane] => Key(s[i]) \in DOMAIN b)
              /\ t = "FileError" => (h[s[i].lane] => Key(s[i]) \in DOMAIN d \cup DOMAIN b)

\* An answer is one terminal frame; that of a batch is a header, chunks and one
\* terminal frame.
Grammar(q, s) ==
    \A i \in DOMAIN s : OnStream(s[i]) =>
        /\ \A r \in q : Key(r) = Key(s[i]) =>
              r.type = "batch" /\ s[i].type \in {"FileBatchOpen", "FileBatchChunk"}
        /\ \A j \in DOMAIN s : i < j /\ OnStream(s[j]) /\ Key(s[j]) = Key(s[i]) =>
              /\ s[i].type \in {"FileBatchOpen", "FileBatchChunk"}
              /\ s[j].type \in {"FileBatchChunk", "FileBatchEnd", "FileError"}

HeaderAt(s, k, i) == s[i].type = "FileBatchOpen" /\ Key(s[i]) = k

\* An open batch knows its header, or the header comes before all else.
HeaderFirst(q, s, b) ==
    \A k \in DOMAIN b :
        /\ b[k].headerReady =>
              /\ \A r \in q : Key(r) = k => r.type = "batch"
              /\ \A i \in DOMAIN s : ~HeaderAt(s, k, i)
        /\ ~b[k].headerReady =>
              /\ b[k].waiting = <<>>
              /\ \A r \in q : r.type = "batch" /\ Key(r) = k => \E i \in DOMAIN s : HeaderAt(s, k, i)
              /\ \A j \in DOMAIN s : OnStream(s[j]) /\ Key(s[j]) = k =>
                    \E i \in DOMAIN s : i <= j /\ HeaderAt(s, k, i)

\* Room for every chunk that is sent and to be sent.
Fits(q, s, k, room) ==
    /\ Occurrences(ChunkOf(k), s) <= room
    /\ \A r \in q : r.type = "batch" /\ Key(r) = k => Occurrences(ChunkOf(k), s) + r.chunks <= room

ChunksFit(e, q, s, b) ==
    \A k \in DOMAIN b :
        /\ b[k].headerReady => Fits(q, s, k, Len(b[k].waiting))
        /\ \A i \in DOMAIN s : HeaderAt(s, k, i) => Fits(q, s, k, Cardinality(s[i].ok \ e))

Net(e, q, s, d, b, h, n) ==
    /\ NetType(q, s, d, b) /\ IdsFresh(q, s, d, b, n) /\ AnswersKnown(q, s, d, b, h)
    /\ Grammar(q, s) /\ HeaderFirst(q, s, b) /\ ChunksFit(e, q, s, b)

NetInv == Net(empty, Requests, Coming, activeDownloads, activeBatches, healthy, nextStreamId)

-----------------------------------------------------------------------------
(* Lanes, the manifest, the hash fallback and the places of a file.        *)

LanesExact ==
    \A l \in Lane :
        /\ healthy[l] => inFlight[l] = Cardinality(Streams(l))
        /\ drained[l] => ~healthy[l] /\ inFlight[l] = 0 /\ Streams(l) = {}
        /\ inFlight[l] <= StreamLimit

In(x, S) == IF x \in S THEN 1 ELSE 0
Is(x, y) == IF x = y THEN 1 ELSE 0
Entry(f) == [type |-> "ManifestEntry", rel |-> f]

\* A file is listed once, and ManifestEnd comes after the last entry.
ListedOnce ==
    \A f \in File :
        In(f, toList) + In(f, remoteFiles) + Occurrences(Entry(f), manifestBatch)
            + Occurrences(Entry(f), incomingManifest) + Occurrences(Entry(f), readyFrames) = 1

EndLast ==
    /\ \A i \in DOMAIN incomingManifest : incomingManifest[i].type = "ManifestEnd" =>
          i = Len(incomingManifest) /\ endSent
    /\ \A i \in DOMAIN readyFrames : readyFrames[i].type = "ManifestEnd" =>
          i = Len(readyFrames) /\ incomingManifest = <<>> /\ endSent
    /\ endSent => toList = {} /\ manifestBatch = <<>>
    /\ manifestDone => remoteFiles = File

ManifestInv == ListedOnce /\ EndLast

\* Only files the comparison could not decide are hashed.
HashInv ==
    /\ hashRequested \subseteq remoteFiles \ DOMAIN comparing /\ work.resolved \subseteq hashRequested
    /\ work.scheduled \subseteq remoteFiles \ (DOMAIN comparing \cup (hashRequested \ work.resolved))
    /\ fallbackReady \in Seq(hashRequested) /\ pendingHash \in Seq(hashRequested)
    /\ DOMAIN localHash = File
    /\ \A f \in File : localHash[f] # "none" => f \in hashRequested
    /\ IsFiniteSet(asked) /\ asked \subseteq HashRequest \cup StreamRequest
    /\ \A r \in asked : r.type = "HashRequest" => r.rel \in hashRequested
    /\ \A i \in DOMAIN Coming : Coming[i].type = "HashResponse" => Coming[i].rel \in hashRequested
    /\ hashSent \in Nat /\ hashReceived \in Nat /\ hashSent - hashReceived <= HashWindow

\* A file is in one place; only a file of a batch may be in none.
PlaceInv ==
    /\ \A f \in File : Places(f) <= 1 /\ (f \notin Small => Places(f) = 1)
    /\ work.ioOutstanding = Cardinality(work.ioTasks) + Cardinality(work.ioResults)

Inv ==
    /\ LaneType /\ LoopType /\ NetInv /\ LanesExact /\ ManifestInv /\ HashInv /\ PlaceInv
    /\ CompleteHasFullView

-----------------------------------------------------------------------------
(* Induction and folds.                                                    *)

LEMMA LeastOf ==
    ASSUME NEW S, S \subseteq Nat, S # {}
    PROVE  Min(S) \in S /\ \A y \in S : Min(S) <= y
  <1>1. \E x \in S : \A y \in S : x <= y
    <2>1. PICK x \in S : \A y \in S : ~(<<y, x>> \in OpToRel(<, Nat))
      BY NatLessThanWellFounded, WFMin
    <2>2. \A y \in S : ~(y < x)
      BY <2>1 DEF OpToRel
    <2> QED
      BY <2>2
  <1> QED
    BY <1>1 DEF Min

\* Induction up to n, over a set in place of a predicate.
LEMMA UpTo ==
    ASSUME NEW n \in Nat, NEW P, 0 \in P, \A i \in 1 .. n : i - 1 \in P => i \in P
    PROVE  \A i \in 0 .. n : i \in P
  <1> SUFFICES ASSUME \E i \in 0 .. n : i \notin P
               PROVE  FALSE
    OBVIOUS
  <1> DEFINE bad == {i \in 0 .. n : i \notin P}
             m == Min(bad)
  <1>1. m \in bad /\ \A y \in bad : m <= y
    BY LeastOf
  <1> HIDE DEF m
  <1>2. m \in 1 .. n /\ m - 1 \in 0 .. n
    BY <1>1
  <1> QED
    BY <1>1, <1>2

LEMMA GreatestOf ==
    ASSUME NEW n \in Nat, NEW S \in SUBSET (1 .. n), S # {}
    PROVE  Max(S) \in S /\ \A y \in S : y <= Max(S)
  <1> DEFINE T == {n - x : x \in S}
  <1>0. \A x \in S : x \in 1 .. n /\ n - x \in Nat
    OBVIOUS
  <1>1. T \subseteq Nat /\ T # {}
    BY <1>0
  <1> HIDE DEF T
  <1>2. Min(T) \in T /\ \A y \in T : Min(T) <= y
    BY <1>1, LeastOf
  <1> USE DEF T
  <1>3. PICK x \in S : n - x = Min(T)
    BY <1>2
  <1>4. \A y \in S : n - x <= n - y
    BY <1>2, <1>3
  <1>5. \A y \in S : x >= y
    BY <1>4
  <1>6. \E z \in S : \A y \in S : z >= y
    BY <1>5
  <1>7. Max(S) \in S /\ \A y \in S : Max(S) >= y
    BY <1>6 DEF Max
  <1> QED
    BY <1>7

\* g solves the equation a fold is defined by, where it stays among the arguments of op.
FoldOf(g, op, base, seq) ==
    /\ g[{}] = base
    /\ \A s \in SUBSET (1 .. Len(seq)) :
          s # {} /\ <<g[s \ {Max(s)}], seq[Max(s)]>> \in DOMAIN op =>
             g[s] = op[<<g[s \ {Max(s)}], seq[Max(s)]>>]

LEMMA FoldExists ==
    ASSUME NEW W, NEW S, NEW op \in [W \X S -> W], NEW base \in W, NEW seq \in Seq(S)
    PROVE  \E g \in [SUBSET (1 .. Len(seq)) -> W] : FoldOf(g, op, base, seq)
  <1> DEFINE n == Len(seq)
             Good(m, g) ==
                /\ g \in [SUBSET (1 .. m) -> W]
                /\ \A s \in SUBSET (1 .. m) :
                      g[s] = IF s = {} THEN base ELSE op[<<g[s \ {Max(s)}], seq[Max(s)]>>]
             P == {m \in 0 .. n : \E g : Good(m, g)}
  <1>0. n \in Nat /\ DOMAIN seq = 1 .. n /\ \A i \in 1 .. n : seq[i] \in S
    OBVIOUS
  <1> HIDE DEF n
  <1>1. 0 \in P
    <2> DEFINE g == [s \in SUBSET (1 .. 0) |-> base]
    <2>1. Good(0, g)
      OBVIOUS
    <2> HIDE DEF Good, g
    <2> QED
      BY <1>0, <2>1
  <1>2. ASSUME NEW m \in 1 .. n, m - 1 \in P
        PROVE  m \in P
    <2>1. PICK g : Good(m - 1, g)
      BY <1>2
    <2> DEFINE h == [s \in SUBSET (1 .. m) |->
                        IF m \in s THEN op[<<g[s \ {m}], seq[m]>>] ELSE g[s]]
    <2>2. \A s \in SUBSET (1 .. m) : m \notin s => s \in SUBSET (1 .. (m - 1))
      OBVIOUS
    <2>3. h \in [SUBSET (1 .. m) -> W]
      <3>1. seq[m] \in S
        BY <1>0
      <3>2. \A s \in SUBSET (1 .. m) : g[s \ {m}] \in W
        BY <2>1, <2>2
      <3> QED
        BY <2>1, <2>2, <3>1, <3>2
    <2>4. ASSUME NEW s \in SUBSET (1 .. m)
          PROVE  h[s] = IF s = {} THEN base ELSE op[<<h[s \ {Max(s)}], seq[Max(s)]>>]
      <3>1. CASE m \in s
        <4>1. m \in Nat /\ s \in SUBSET (1 .. m) /\ s # {}
          BY <1>0, <3>1
        <4>2. Max(s) \in s /\ m <= Max(s)
          BY <3>1, <4>1, GreatestOf
        <4>3. Max(s) = m
          <5>1. Max(s) \in 1 .. m
            BY <4>1, <4>2
          <5> QED
            BY <4>2, <5>1
        <4>4. h[s \ {m}] = g[s \ {m}]
          OBVIOUS
        <4> QED
          BY <3>1, <4>3, <4>4
      <3>2. CASE m \notin s
        <4>1. h[s] = g[s] /\ s \in SUBSET (1 .. (m - 1))
          BY <3>2
        <4>2. h[s \ {Max(s)}] = g[s \ {Max(s)}]
          BY <3>2
        <4> QED
          BY <2>1, <4>1, <4>2
      <3> QED
        BY <3>1, <3>2
    <2>5. Good(m, h)
      BY <2>3, <2>4
    <2> HIDE DEF Good, h
    <2> QED
      BY <1>0, <2>5
  <1> HIDE DEF P
  <1>3. n \in P
    <2>1. \A i \in 1 .. n : i - 1 \in P => i \in P
      BY <1>2
    <2>2. \A i \in 0 .. n : i \in P
      BY <1>0, <1>1, <2>1, UpTo
    <2> QED
      BY <1>0, <2>2
  <1>4. PICK g : Good(n, g)
    BY <1>3 DEF P
  <1>5. g \in [SUBSET (1 .. n) -> W] /\ FoldOf(g, op, base, seq)
    BY <1>4 DEF FoldOf, n
  <1> QED
    BY <1>5 DEF n

LEMMA MaxTo ==
    ASSUME NEW i \in Nat \ {0}
    PROVE  Max(1 .. i) = i
  <1>1. 1 .. i \in SUBSET (1 .. i) /\ i \in 1 .. i /\ 1 .. i # {}
    OBVIOUS
  <1>2. Max(1 .. i) \in 1 .. i /\ i <= Max(1 .. i)
    BY <1>1, GreatestOf
  <1> QED
    BY <1>2

LEMMA MaxIn ==
    ASSUME NEW n \in Nat
    PROVE  \A s \in SUBSET (1 .. n) : s # {} => Max(s) \in 1 .. n /\ s \ {Max(s)} \in SUBSET (1 .. n)
  BY GreatestOf

\* ws are the values that applying op along seq goes through, from base to last.
RunOf(ws, W, op, base, seq, last) ==
    /\ ws \in [0 .. Len(seq) -> W] /\ ws[0] = base /\ ws[Len(seq)] = last
    /\ \A i \in 1 .. Len(seq) : ws[i] = op[<<ws[i - 1], seq[i]>>]

\* A fold goes through the elements of the sequence from the first to the last.
LEMMA FoldRuns ==
    ASSUME NEW W, NEW S, NEW op \in [W \X S -> W], NEW base \in W, NEW seq \in Seq(S),
           NEW g, FoldOf(g, op, base, seq)
    PROVE  \E ws : RunOf(ws, W, op, base, seq, g[1 .. Len(seq)])
  <1> DEFINE n == Len(seq)
             ws == [i \in 0 .. n |-> g[1 .. i]]
             P == {i \in 0 .. n : ws[i] \in W}
  <1>1. n \in Nat /\ \A i \in 1 .. n : seq[i] \in S
    OBVIOUS
  <1>2. ws[0] = base /\ 0 \in P
    <2>1. 1 .. 0 = {} /\ 0 \in 0 .. n
      BY <1>1
    <2> QED
      BY <2>1 DEF FoldOf
  <1>3. ASSUME NEW i \in 1 .. n, ws[i - 1] \in W
        PROVE  ws[i] = op[<<ws[i - 1], seq[i]>>]
    <2>1. i \in Nat \ {0} /\ i <= n /\ i \in 0 .. n /\ i - 1 \in 0 .. n
      BY <1>1
    <2>2. \A j \in 1 .. i : j \in 1 .. n
      BY <1>1
    <2>3. 1 .. i \in SUBSET (1 .. n) /\ 1 \in 1 .. i
      BY <2>1, <2>2
    <2>4. (1 .. i) \ {i} = 1 .. (i - 1)
      BY <2>1
    <2>5. Max(1 .. i) = i
      BY <2>1, MaxTo
    <2>6. g[1 .. (i - 1)] \in W /\ seq[i] \in S
      BY <1>1, <1>3, <2>1
    <2> QED
      BY <2>1, <2>3, <2>4, <2>5, <2>6 DEF FoldOf
  <1>4. ASSUME NEW i \in 1 .. n, i - 1 \in P
        PROVE  i \in P
    <2>1. ws[i - 1] \in W /\ seq[i] \in S /\ i \in 0 .. n
      BY <1>1, <1>4
    <2>2. ws[i] = op[<<ws[i - 1], seq[i]>>]
      BY <1>3, <2>1
    <2> HIDE DEF ws
    <2> QED
      BY <2>1, <2>2
  <1> HIDE DEF P
  <1>5. \A i \in 0 .. n : i \in P
    BY <1>1, <1>2, <1>4, UpTo
  <1> USE DEF P
  <1>6. ws \in [0 .. n -> W] /\ \A i \in 1 .. n : ws[i - 1] \in W
    BY <1>1, <1>5
  <1>7. \A i \in 1 .. n : ws[i] = op[<<ws[i - 1], seq[i]>>]
    BY <1>3, <1>6
  <1>8. ws[n] = g[1 .. n]
    BY <1>1
  <1> HIDE DEF ws
  <1>9. RunOf(ws, W, op, base, seq, g[1 .. Len(seq)])
    BY <1>2, <1>6, <1>7, <1>8 DEF RunOf, n
  <1> QED
    BY <1>9

-----------------------------------------------------------------------------
(* Counting in sequences.                                                  *)

LEMMA OccType ==
    ASSUME NEW S, NEW s \in Seq(S), NEW x
    PROVE  Occurrences(x, s) \in Nat /\ IsFiniteSet({i \in DOMAIN s : s[i] = x})
  <1>1. DOMAIN s = 1 .. Len(s) /\ Len(s) \in Nat
    OBVIOUS
  <1>2. IsFiniteSet(1 .. Len(s)) /\ {i \in DOMAIN s : s[i] = x} \in SUBSET (1 .. Len(s))
    BY <1>1, FS_Interval
  <1>3. IsFiniteSet({i \in DOMAIN s : s[i] = x})
    BY <1>2, FS_Subset
  <1> QED
    BY <1>3, FS_CardinalityType DEF Occurrences

LEMMA OccEmpty == \A x : Occurrences(x, <<>>) = 0
  <1> TAKE x
  <1>1. {i \in DOMAIN <<>> : <<>>[i] = x} = {}
    OBVIOUS
  <1> QED
    BY <1>1, FS_EmptySet DEF Occurrences

LEMMA AppendType ==
    ASSUME NEW S, NEW s \in Seq(S), NEW x \in S
    PROVE  Append(s, x) \in Seq(S)
  OBVIOUS

LEMMA OccAppend ==
    ASSUME NEW S, NEW s \in Seq(S), NEW y \in S, NEW x
    PROVE  Occurrences(x, Append(s, y)) = Occurrences(x, s) + Is(x, y)
  <1> DEFINE t == Append(s, y)
             n == Len(s)
             A == {i \in DOMAIN s : s[i] = x}
             B == {i \in DOMAIN t : t[i] = x}
  <1>1. /\ n \in Nat /\ DOMAIN s = 1 .. n /\ DOMAIN t = 1 .. (n + 1) /\ t[n + 1] = y
        /\ \A i \in 1 .. n : t[i] = s[i]
    OBVIOUS
  <1>2. IsFiniteSet(A) /\ Cardinality(A) \in Nat
    BY OccType, FS_CardinalityType
  <1>6. Occurrences(x, s) = Cardinality(A) /\ Occurrences(x, t) = Cardinality(B)
    BY DEF Occurrences
  <1> HIDE DEF t
  <1>3. CASE x = y
    <2>1. B = A \cup {n + 1} /\ n + 1 \notin A
      BY <1>1, <1>3
    <2> HIDE DEF A, B
    <2>2. Cardinality(B) = Cardinality(A) + 1
      BY <1>2, <2>1, FS_AddElement
    <2>3. Is(x, y) = 1
      BY <1>3 DEF In, Is
    <2> QED
      BY <1>6, <2>2, <2>3 DEF t
  <1>4. CASE x # y
    <2>1. B = A
      BY <1>1, <1>4
    <2>2. Is(x, y) = 0
      BY <1>4 DEF In, Is
    <2> HIDE DEF A, B
    <2>3. Occurrences(x, t) = Occurrences(x, s) + Is(x, y)
      BY <1>2, <1>6, <2>1, <2>2
    <2> QED
      BY <2>3 DEF t
  <1> QED
    BY <1>3, <1>4

LEMMA OccConcat ==
    ASSUME NEW S, NEW s \in Seq(S), NEW t \in Seq(S), NEW x
    PROVE  Occurrences(x, s \o t) = Occurrences(x, s) + Occurrences(x, t)
  <1> DEFINE m == Len(s)
             A == {i \in DOMAIN s : s[i] = x}
             T == {i \in DOMAIN t : t[i] = x}
             B == {i \in (m + 1) .. (m + Len(t)) : t[i - m] = x}
             C == {i \in DOMAIN (s \o t) : (s \o t)[i] = x}
             h == [i \in T |-> i + m]
  <1>1. /\ m \in Nat /\ Len(t) \in Nat /\ DOMAIN s = 1 .. m /\ DOMAIN t = 1 .. Len(t)
        /\ DOMAIN (s \o t) = 1 .. (m + Len(t))
        /\ \A i \in 1 .. m : (s \o t)[i] = s[i]
        /\ \A i \in (m + 1) .. (m + Len(t)) : (s \o t)[i] = t[i - m]
    OBVIOUS
  <1>2. IsFiniteSet(A) /\ IsFiniteSet(T)
    BY OccType
  <1>3. h \in Bijection(T, B)
    <2>1. h \in [T -> B]
      BY <1>1
    <2>2. \A i, j \in T : h[i] = h[j] => i = j
      BY <1>1
    <2>3. \A j \in B : \E i \in T : h[i] = j
      <3> TAKE j \in B
      <3>1. j - m \in T /\ h[j - m] = j
        BY <1>1
      <3> QED
        BY <3>1
    <2> QED
      BY <2>1, <2>2, <2>3 DEF Bijection, Injection, Surjection, IsInjective
  <1>4. IsFiniteSet(B) /\ Cardinality(B) = Cardinality(T)
    BY <1>2, <1>3, FS_Bijection DEF ExistsBijection
  <1>5. C = A \cup B /\ A \cap B = {}
    BY <1>1
  <1>0. /\ Occurrences(x, s) = Cardinality(A) /\ Occurrences(x, t) = Cardinality(T)
        /\ Occurrences(x, s \o t) = Cardinality(C)
    BY DEF Occurrences
  <1> HIDE DEF A, B, C, T, h
  <1>6. Cardinality(C) = Cardinality(A) + Cardinality(B) - Cardinality({})
    BY <1>2, <1>4, <1>5, FS_Union
  <1>7. Cardinality({}) = 0 /\ Cardinality(A) \in Nat /\ Cardinality(T) \in Nat
    BY <1>2, FS_EmptySet, FS_CardinalityType
  <1> QED
    BY <1>0, <1>4, <1>6, <1>7

LEMMA OccTail ==
    ASSUME NEW S, NEW s \in Seq(S), s # <<>>, NEW x
    PROVE  Occurrences(x, s) = Is(x, Head(s)) + Occurrences(x, Tail(s))
  <1>1. /\ s = <<Head(s)>> \o Tail(s) /\ <<Head(s)>> \in Seq(S) /\ Tail(s) \in Seq(S)
        /\ <<Head(s)>> = Append(<<>>, Head(s)) /\ Head(s) \in S /\ <<>> \in Seq(S)
    OBVIOUS
  <1>2. Occurrences(x, Append(<<>>, Head(s))) = Occurrences(x, <<>>) + Is(x, Head(s))
    <2> DEFINE e == <<>>
               y == Head(s)
    <2>1. e \in Seq(S) /\ y \in S
      BY <1>1
    <2> HIDE DEF e, y
    <2>2. Occurrences(x, Append(e, y)) = Occurrences(x, e) + Is(x, y)
      BY <2>1, OccAppend
    <2> QED
      BY <2>2 DEF e, y
  <1>3. Is(x, Head(s)) \in Nat /\ Occurrences(x, <<>>) = 0
    BY OccEmpty DEF In, Is
  <1>4. Occurrences(x, <<Head(s)>>) = Is(x, Head(s))
    BY <1>1, <1>2, <1>3
  <1>5. Occurrences(x, <<Head(s)>> \o Tail(s)) = Occurrences(x, <<Head(s)>>) + Occurrences(x, Tail(s))
    BY <1>1, OccConcat
  <1> QED
    BY <1>1, <1>4, <1>5

LEMMA OccSplit ==
    ASSUME NEW S, NEW s \in Seq(S), NEW n \in 0 .. Len(s), NEW x
    PROVE  /\ SubSeq(s, 1, n) \in Seq(S) /\ SubSeq(s, n + 1, Len(s)) \in Seq(S)
           /\ s = SubSeq(s, 1, n) \o SubSeq(s, n + 1, Len(s))
           /\ Occurrences(x, s) = Occurrences(x, SubSeq(s, 1, n))
                                     + Occurrences(x, SubSeq(s, n + 1, Len(s)))
  <1>1. SubSeq(s, 1, n) \in Seq(S) /\ SubSeq(s, n + 1, Len(s)) \in Seq(S)
    OBVIOUS
  <1>2. s = SubSeq(s, 1, n) \o SubSeq(s, n + 1, Len(s))
    <2>1. SubSeq(s, 1, n) \o SubSeq(s, n + 1, Len(s)) = SubSeq(s, 1, Len(s))
      <3>1. 1 \in 1 .. Len(s) + 1 /\ n \in 1 - 1 .. Len(s) /\ Len(s) \in n .. Len(s)
        OBVIOUS
      <3> QED
        BY <3>1, ConcatAdjacentSubSeq, Zenon
    <2> QED
      BY <2>1, SubSeqFull
  <1> QED
    BY <1>1, <1>2, OccConcat

LEMMA OccNone ==
    ASSUME NEW S, NEW s \in Seq(S), NEW x
    PROVE  Occurrences(x, s) = 0 <=> \A i \in DOMAIN s : s[i] # x
  <1> DEFINE A == {i \in DOMAIN s : s[i] = x}
  <1>1. IsFiniteSet(A)
    BY OccType
  <1>2. Cardinality(A) = 0 <=> A = {}
    BY <1>1, FS_EmptySet
  <1> QED
    BY <1>2 DEF Occurrences

\* A sequence without repetitions counts as a set.
LEMMA OccOnce ==
    ASSUME NEW S, NEW s \in Seq(S), NEW x, Once(s)
    PROVE  Occurrences(x, s) = In(x, ToSet(s))
  <1> DEFINE A == {i \in DOMAIN s : s[i] = x}
  <1>1. CASE x \in ToSet(s)
    <2>1. PICK i \in DOMAIN s : s[i] = x
      BY <1>1 DEF ToSet
    <2>2. A = {i}
      BY <2>1 DEF Once
    <2>3. Cardinality({i}) = 1
      BY FS_Singleton
    <2> QED
      BY <1>1, <2>2, <2>3 DEF Occurrences, In, Is
  <1>2. CASE x \notin ToSet(s)
    <2>1. Occurrences(x, s) = 0
      BY <1>2, OccNone DEF ToSet
    <2> QED
      BY <1>2, <2>1 DEF In, Is
  <1> QED
    BY <1>1, <1>2

LEMMA PairSize ==
    ASSUME NEW i, NEW j, i # j
    PROVE  Cardinality({i, j}) = 2
  <1> DEFINE T == {i}
             n == Cardinality(T)
             m == Cardinality(T \cup {j})
  <1>1. {i, j} = T \cup {j} /\ j \notin T
    OBVIOUS
  <1>2. IsFiniteSet(T) /\ n = 1
    BY FS_Singleton
  <1> HIDE DEF T
  <1>3. m = n + 1
    BY <1>1, <1>2, FS_AddElement
  <1>4. m = Cardinality({i, j})
    BY <1>1
  <1> HIDE DEF n, m
  <1>5. m = 2
    BY <1>2, <1>3
  <1> QED
    BY <1>4, <1>5

LEMMA OnceOcc ==
    ASSUME NEW S, NEW s \in Seq(S), \A x \in S : Occurrences(x, s) <= 1
    PROVE  Once(s)
  <1> SUFFICES ASSUME NEW i \in DOMAIN s, NEW j \in DOMAIN s, s[i] = s[j], i # j
               PROVE  FALSE
    BY DEF Once
  <1> DEFINE A == {k \in DOMAIN s : s[k] = s[i]}
  <1>1. IsFiniteSet(A) /\ s[i] \in S /\ i \in A /\ j \in A
    BY OccType
  <1>2. Cardinality(A) <= 1
    BY <1>1 DEF Occurrences
  <1> HIDE DEF A
  <1>3. {i, j} \in SUBSET A /\ Cardinality({i, j}) = 2
    <2>1. {i, j} \in SUBSET A
      BY <1>1
    <2>2. Cardinality({i, j}) = 2
      BY PairSize
    <2> QED
      BY <2>1, <2>2
  <1>4. Cardinality({i, j}) <= Cardinality(A) /\ Cardinality(A) \in Nat
    BY <1>1, <1>3, FS_Subset, FS_CardinalityType
  <1> QED
    BY <1>2, <1>3, <1>4

-----------------------------------------------------------------------------
(* The main loop's work: what the helpers do to it.                        *)

Queued(w, f) == Occurrences(f, w.pendingBatch) + Occurrences(f, w.pending)
                   + Occurrences(f, w.retryBatch) + Occurrences(f, w.retry)
Results(w, f) == Cardinality({r \in w.ioResults : r[1] = f})
Counted(w, f) == Len(w.verdicts[f])
Held(w, f) == Queued(w, f) + In(f, w.ioTasks) + Results(w, f) + Counted(w, f)

SameIo(w, v) ==
    v.ioTasks = w.ioTasks /\ v.ioResults = w.ioResults /\ v.ioOutstanding = w.ioOutstanding
SameHash(w, v) == v.scheduled = w.scheduled /\ v.resolved = w.resolved

\* v is w with file f counted or queued once more.
Adds(w, v, f) ==
    /\ v \in Work /\ SameIo(w, v) /\ SameHash(w, v)
    /\ \A g \in File : Held(v, g) = Held(w, g) + Is(g, f)

LEMMA WorkHas ==
    ASSUME NEW w \in Work
    PROVE  /\ w.pendingBatch \in Seq(Small) /\ w.retryBatch \in Seq(Small)
           /\ w.pending \in Seq(File \ Small) /\ w.retry \in Seq(File \ Small)
           /\ w.scheduled \subseteq File /\ w.resolved \subseteq File /\ w.ioTasks \subseteq File
           /\ w.ioResults \subseteq File \X BOOLEAN /\ w.retries \in [File -> Nat]
           /\ w.verdicts \in [File -> Seq(Verdict)] /\ w.ioOutstanding \in Int /\ w.failed \in Nat
  BY DEF Work

LEMMA OneType == \A x, y : Is(x, y) \in {0, 1} /\ In(x, y) \in {0, 1}
  BY DEF Is, In

LEMMA ResultsFinite ==
    ASSUME NEW w \in Work
    PROVE  /\ IsFiniteSet(w.ioResults) /\ IsFiniteSet(w.ioTasks)
           /\ \A f : IsFiniteSet({r \in w.ioResults : r[1] = f})
  <1>1. IsFiniteSet(File) /\ IsFiniteSet(BOOLEAN)
    <2>1. BOOLEAN = {TRUE} \cup {FALSE}
      OBVIOUS
    <2>2. IsFiniteSet({TRUE}) /\ IsFiniteSet({FALSE})
      BY FS_Singleton
    <2>3. IsFiniteSet({TRUE} \cup {FALSE})
      BY <2>2, FS_Union
    <2>4. IsFiniteSet(File)
      BY ClientAssumption
    <2> QED
      BY <2>1, <2>3, <2>4, Zenon
  <1>2. IsFiniteSet(File \X BOOLEAN)
    BY <1>1, FS_Product
  <1>3. IsFiniteSet(w.ioResults) /\ IsFiniteSet(w.ioTasks)
    BY <1>1, <1>2, WorkHas, FS_Subset
  <1> QED
    BY <1>3, FS_Subset

LEMMA HeldType ==
    ASSUME NEW w \in Work, NEW f \in File
    PROVE  /\ Occurrences(f, w.pendingBatch) \in Nat /\ Occurrences(f, w.pending) \in Nat
           /\ Occurrences(f, w.retryBatch) \in Nat /\ Occurrences(f, w.retry) \in Nat
           /\ Queued(w, f) \in Nat /\ Results(w, f) \in Nat /\ Counted(w, f) \in Nat
           /\ In(f, w.ioTasks) \in Nat /\ Held(w, f) \in Nat
  <1>1. /\ Occurrences(f, w.pendingBatch) \in Nat /\ Occurrences(f, w.pending) \in Nat
        /\ Occurrences(f, w.retryBatch) \in Nat /\ Occurrences(f, w.retry) \in Nat
    BY WorkHas, OccType
  <1>2. Queued(w, f) \in Nat
    BY <1>1 DEF Queued
  <1>3. Results(w, f) \in Nat
    BY ResultsFinite, FS_CardinalityType DEF Results
  <1>4. Counted(w, f) \in Nat
    BY WorkHas DEF Counted
  <1>5. In(f, w.ioTasks) \in Nat
    BY DEF In, Is
  <1> QED
    BY <1>1, <1>2, <1>3, <1>4, <1>5 DEF Held

\* w and v agree on everything but the queues and the verdicts.
LEMMA AddsOne ==
    ASSUME NEW w \in Work, NEW v \in Work, NEW f \in File, SameIo(w, v), SameHash(w, v),
           \A g \in File : Queued(v, g) + Counted(v, g)
                              = Queued(w, g) + Counted(w, g) + Is(g, f)
    PROVE  Adds(w, v, f)
  <1>1. ASSUME NEW g \in File
        PROVE  Held(v, g) = Held(w, g) + Is(g, f)
    <2>1. /\ Queued(v, g) + Counted(v, g) = Queued(w, g) + Counted(w, g) + Is(g, f)
          /\ Results(v, g) = Results(w, g) /\ In(g, v.ioTasks) = In(g, w.ioTasks)
      BY DEF Results, SameIo
    <2>2. /\ Queued(v, g) \in Nat /\ Queued(w, g) \in Nat /\ Results(w, g) \in Nat
          /\ Counted(v, g) \in Nat /\ Counted(w, g) \in Nat
          /\ In(g, w.ioTasks) \in Nat
      BY HeldType
    <2>3. Is(g, f) \in Nat
      BY DEF In, Is
    <2> QED
      BY <2>1, <2>2, <2>3 DEF Held
  <1> QED
    BY <1>1 DEF Adds

LEMMA SettleIs ==
    ASSUME NEW w \in Work, NEW f \in File, NEW x \in Verdict
    PROVE  Adds(w, Settle(w, f, x), f)
  <1> DEFINE vs == [w.verdicts EXCEPT ![f] = Append(@, x)]
             n == IF x = "failed" THEN w.failed + 1 ELSE w.failed
             v == [w EXCEPT !.verdicts = vs, !.failed = n]
  <1>1. vs \in [File -> Seq(Verdict)] /\ n \in Nat
    BY WorkHas
  <1>2. ASSUME NEW g \in File
        PROVE  Len(vs[g]) = Len(w.verdicts[g]) + Is(g, f)
    <2>1. w.verdicts[g] \in Seq(Verdict)
      BY WorkHas
    <2>2. CASE g = f
      <3>1. vs[g] = Append(w.verdicts[g], x)
        BY <2>2, WorkHas
      <3>2. Len(Append(w.verdicts[g], x)) = Len(w.verdicts[g]) + 1
        BY <2>1
      <3> QED
        BY <2>2, <3>1, <3>2 DEF In, Is
    <2>3. CASE g # f
      <3>1. vs[g] = w.verdicts[g] /\ Len(w.verdicts[g]) \in Nat
        BY <2>1, <2>3, WorkHas
      <3> QED
        BY <2>3, <3>1 DEF In, Is
    <2> QED
      BY <2>2, <2>3
  <1>3. Settle(w, f, x) = v
    BY DEF Settle
  <1> HIDE DEF vs, n
  <1>4. v \in Work
    BY <1>1 DEF Work
  <1>5. /\ SameIo(w, v) /\ SameHash(w, v) /\ v.verdicts = vs
        /\ v.pendingBatch = w.pendingBatch /\ v.pending = w.pending
        /\ v.retryBatch = w.retryBatch /\ v.retry = w.retry
    BY DEF SameIo, SameHash, Work
  <1> HIDE DEF v
  <1>6. ASSUME NEW g \in File
        PROVE  Queued(v, g) + Counted(v, g) = Queued(w, g) + Counted(w, g) + Is(g, f)
    <2>1. Queued(v, g) = Queued(w, g) /\ Counted(v, g) = Len(vs[g])
          /\ Counted(w, g) = Len(w.verdicts[g])
      BY <1>5 DEF Queued, Counted
    <2>2. Queued(w, g) \in Nat /\ Counted(w, g) \in Nat /\ Is(g, f) \in Nat
      BY HeldType DEF In, Is
    <2> QED
      BY <1>2, <2>1, <2>2
  <1>7. Adds(w, v, f)
    BY <1>4, <1>5, <1>6, AddsOne
  <1> QED
    BY <1>3, <1>7

LEMMA EnqueueIs ==
    ASSUME NEW w \in Work, NEW f \in File, NEW b \in BOOLEAN
    PROVE  Adds(w, EnqueueTransfer(w, f, b), f)
  <1>1. /\ f \in Small => /\ Append(w.retryBatch, f) \in Seq(Small)
                          /\ Append(w.pendingBatch, f) \in Seq(Small)
        /\ f \notin Small => /\ Append(w.retry, f) \in Seq(File \ Small)
                             /\ Append(w.pending, f) \in Seq(File \ Small)
    BY WorkHas
  <1>2. ASSUME NEW g \in File
        PROVE  /\ Is(g, f) \in Nat /\ Counted(w, g) \in Nat
               /\ Occurrences(g, w.pendingBatch) \in Nat /\ Occurrences(g, w.pending) \in Nat
               /\ Occurrences(g, w.retryBatch) \in Nat /\ Occurrences(g, w.retry) \in Nat
    BY HeldType DEF In, Is
  <1>3. CASE b /\ f \in Small
    <2> DEFINE s == Append(w.retryBatch, f)
               v == [w EXCEPT !.retryBatch = s]
    <2>1. \A g \in File : Occurrences(g, s) = Occurrences(g, w.retryBatch) + Is(g, f)
      BY <1>3, OccAppend, WorkHas
    <2>2. s \in Seq(Small) /\ EnqueueTransfer(w, f, b) = v
      BY <1>1, <1>3 DEF EnqueueTransfer
    <2> HIDE DEF s
    <2>3. /\ v \in Work /\ SameIo(w, v) /\ SameHash(w, v) /\ \A g : Counted(v, g) = Counted(w, g)
          /\ v.retryBatch = s /\ v.pendingBatch = w.pendingBatch /\ v.pending = w.pending
          /\ v.retry = w.retry
      BY <2>2 DEF Work, SameIo, SameHash, Counted
    <2> HIDE DEF v
    <2>4. \A g \in File : Queued(v, g) + Counted(v, g)
                             = Queued(w, g) + Counted(w, g) + Is(g, f)
      BY <1>2, <2>1, <2>3 DEF Queued
    <2> QED
      BY <2>2, <2>3, <2>4, AddsOne
  <1>4. CASE b /\ f \notin Small
    <2> DEFINE s == Append(w.retry, f)
               v == [w EXCEPT !.retry = s]
    <2>1. \A g \in File : Occurrences(g, s) = Occurrences(g, w.retry) + Is(g, f)
      BY <1>4, OccAppend, WorkHas
    <2>2. s \in Seq(File \ Small) /\ EnqueueTransfer(w, f, b) = v
      BY <1>1, <1>4 DEF EnqueueTransfer
    <2> HIDE DEF s
    <2>3. /\ v \in Work /\ SameIo(w, v) /\ SameHash(w, v) /\ \A g : Counted(v, g) = Counted(w, g)
          /\ v.retryBatch = w.retryBatch /\ v.pendingBatch = w.pendingBatch
          /\ v.pending = w.pending /\ v.retry = s
      BY <2>2 DEF Work, SameIo, SameHash, Counted
    <2> HIDE DEF v
    <2>4. \A g \in File : Queued(v, g) + Counted(v, g)
                             = Queued(w, g) + Counted(w, g) + Is(g, f)
      BY <1>2, <2>1, <2>3 DEF Queued
    <2> QED
      BY <2>2, <2>3, <2>4, AddsOne
  <1>5. CASE ~b /\ f \in Small
    <2> DEFINE s == Append(w.pendingBatch, f)
               v == [w EXCEPT !.pendingBatch = s]
    <2>1. \A g \in File : Occurrences(g, s) = Occurrences(g, w.pendingBatch) + Is(g, f)
      BY <1>5, OccAppend, WorkHas
    <2>2. s \in Seq(Small) /\ EnqueueTransfer(w, f, b) = v
      BY <1>1, <1>5 DEF EnqueueTransfer
    <2> HIDE DEF s
    <2>3. /\ v \in Work /\ SameIo(w, v) /\ SameHash(w, v) /\ \A g : Counted(v, g) = Counted(w, g)
          /\ v.retryBatch = w.retryBatch /\ v.pendingBatch = s /\ v.pending = w.pending
          /\ v.retry = w.retry
      BY <2>2 DEF Work, SameIo, SameHash, Counted
    <2> HIDE DEF v
    <2>4. \A g \in File : Queued(v, g) + Counted(v, g)
                             = Queued(w, g) + Counted(w, g) + Is(g, f)
      BY <1>2, <2>1, <2>3 DEF Queued
    <2> QED
      BY <2>2, <2>3, <2>4, AddsOne
  <1>6. CASE ~b /\ f \notin Small
    <2> DEFINE s == Append(w.pending, f)
               v == [w EXCEPT !.pending = s]
    <2>1. \A g \in File : Occurrences(g, s) = Occurrences(g, w.pending) + Is(g, f)
      BY <1>6, OccAppend, WorkHas
    <2>2. s \in Seq(File \ Small) /\ EnqueueTransfer(w, f, b) = v
      BY <1>1, <1>6 DEF EnqueueTransfer
    <2> HIDE DEF s
    <2>3. /\ v \in Work /\ SameIo(w, v) /\ SameHash(w, v) /\ \A g : Counted(v, g) = Counted(w, g)
          /\ v.retryBatch = w.retryBatch /\ v.pendingBatch = w.pendingBatch
          /\ v.pending = s /\ v.retry = w.retry
      BY <2>2 DEF Work, SameIo, SameHash, Counted
    <2> HIDE DEF v
    <2>4. \A g \in File : Queued(v, g) + Counted(v, g)
                             = Queued(w, g) + Counted(w, g) + Is(g, f)
      BY <1>2, <2>1, <2>3 DEF Queued
    <2> QED
      BY <2>2, <2>3, <2>4, AddsOne
  <1> QED
    BY <1>3, <1>4, <1>5, <1>6

\* The fields Held looks at.
SameHeld(w, v) ==
    /\ v.pendingBatch = w.pendingBatch /\ v.pending = w.pending /\ v.retryBatch = w.retryBatch
    /\ v.retry = w.retry /\ v.ioTasks = w.ioTasks /\ v.ioResults = w.ioResults
    /\ v.verdicts = w.verdicts

LEMMA HeldSame ==
    ASSUME NEW w, NEW v, SameHeld(w, v)
    PROVE  \A g : Held(v, g) = Held(w, g)
  BY DEF SameHeld, Held, Queued, Results, Counted

LEMMA RetriesIs ==
    ASSUME NEW w \in Work, NEW f \in File, NEW n \in Nat
    PROVE  LET v == [w EXCEPT !.retries[f] = n]
           IN  v \in Work /\ SameIo(w, v) /\ SameHash(w, v) /\ \A g : Held(v, g) = Held(w, g)
  <1> DEFINE r == [w.retries EXCEPT ![f] = n]
             v == [w EXCEPT !.retries = r]
  <1>1. r \in [File -> Nat]
    BY WorkHas
  <1>2. v = [w EXCEPT !.retries[f] = n]
    OBVIOUS
  <1> HIDE DEF r
  <1>3. v \in Work /\ SameIo(w, v) /\ SameHash(w, v) /\ SameHeld(w, v)
    BY <1>1 DEF Work, SameIo, SameHash, SameHeld
  <1> HIDE DEF v
  <1>4. \A g : Held(v, g) = Held(w, g)
    BY <1>3, HeldSame
  <1> QED
    BY <1>2, <1>3, <1>4

LEMMA MarkFailedIs ==
    ASSUME NEW w \in Work, NEW f \in File
    PROVE  Adds(w, MarkTransferFailed(w, f), f)
  <1> DEFINE u == Settle(w, f, "failed")
             n == 0
             v == [u EXCEPT !.retries[f] = n]
  <1>1. Adds(w, u, f)
    BY SettleIs DEF Verdict
  <1>0. u \in Work /\ n \in Nat
    BY <1>1 DEF Adds
  <1> HIDE DEF u, n
  <1>2. v \in Work /\ SameIo(u, v) /\ SameHash(u, v) /\ \A g : Held(v, g) = Held(u, g)
    BY <1>0, RetriesIs
  <1> HIDE DEF v
  <1>3. Adds(w, v, f)
    BY <1>1, <1>2 DEF Adds, SameIo, SameHash
  <1> QED
    BY <1>3 DEF MarkTransferFailed, u, v, n

LEMMA TransferredIs ==
    ASSUME NEW w \in Work, NEW f \in File
    PROVE  Adds(w, Transferred(w, f), f)
  <1> DEFINE u == Settle(w, f, "transferred")
             n == 0
             v == [u EXCEPT !.retries[f] = n]
  <1>1. Adds(w, u, f)
    BY SettleIs DEF Verdict
  <1>0. u \in Work /\ n \in Nat
    BY <1>1 DEF Adds
  <1> HIDE DEF u, n
  <1>2. v \in Work /\ SameIo(u, v) /\ SameHash(u, v) /\ \A g : Held(v, g) = Held(u, g)
    BY <1>0, RetriesIs
  <1> HIDE DEF v
  <1>3. Adds(w, v, f)
    BY <1>1, <1>2 DEF Adds, SameIo, SameHash
  <1> QED
    BY <1>3 DEF Transferred, u, v, n

LEMMA RetryOrFailIs ==
    ASSUME NEW w \in Work, NEW f \in File
    PROVE  Adds(w, RetryOrFail(w, f), f)
  <1>1. CASE w.retries[f] < MaxTransferRetries
    <2> DEFINE n == w.retries[f] + 1
               u == [w EXCEPT !.retries[f] = n]
               v == EnqueueTransfer(u, f, TRUE)
    <2>1. n \in Nat
      BY WorkHas
    <2>2. v = RetryOrFail(w, f)
      BY <1>1 DEF RetryOrFail
    <2> HIDE DEF n
    <2>3. u \in Work /\ SameIo(w, u) /\ SameHash(w, u) /\ \A g : Held(u, g) = Held(w, g)
      BY <2>1, RetriesIs
    <2> HIDE DEF u
    <2>4. Adds(u, v, f)
      BY <2>3, EnqueueIs
    <2> HIDE DEF v
    <2>5. Adds(w, v, f)
      BY <2>3, <2>4 DEF Adds, SameIo, SameHash
    <2> QED
      BY <2>2, <2>5
  <1>2. CASE ~(w.retries[f] < MaxTransferRetries)
    BY <1>2, MarkFailedIs DEF RetryOrFail
  <1> QED
    BY <1>1, <1>2

\* A file is scheduled once.
LEMMA ScheduleIs ==
    ASSUME NEW w \in Work, NEW f \in File, f \notin w.scheduled
    PROVE  LET v == ScheduleTransfer(w, f)
           IN  /\ v \in Work /\ SameIo(w, v) /\ v.resolved = w.resolved
               /\ v.scheduled = w.scheduled \cup {f}
               /\ \A g \in File : Held(v, g) = Held(w, g) + Is(g, f)
  <1> DEFINE s == w.scheduled \cup {f}
             u == [w EXCEPT !.scheduled = s]
             v == EnqueueTransfer(u, f, FALSE)
  <1>1. s \in SUBSET File
    BY WorkHas
  <1>2. ScheduleTransfer(w, f) = v
    BY DEF ScheduleTransfer
  <1>0. s = w.scheduled \cup {f}
    OBVIOUS
  <1> HIDE DEF s
  <1>3. u \in Work /\ SameIo(w, u) /\ u.resolved = w.resolved /\ u.scheduled = s /\ SameHeld(w, u)
    BY <1>1 DEF Work, SameIo, SameHeld
  <1> HIDE DEF u
  <1>4. \A g : Held(u, g) = Held(w, g)
    BY <1>3, HeldSame
  <1>5. Adds(u, v, f)
    BY <1>3, EnqueueIs
  <1> HIDE DEF v
  <1> QED
    BY <1>0, <1>2, <1>3, <1>4, <1>5 DEF Adds, SameIo, SameHash

LEMMA ResolvedIs ==
    ASSUME NEW w \in Work, NEW f \in File
    PROVE  LET v == [w EXCEPT !.resolved = @ \cup {f}]
           IN  /\ v \in Work /\ SameIo(w, v) /\ v.scheduled = w.scheduled
               /\ v.resolved = w.resolved \cup {f} /\ \A g : Held(v, g) = Held(w, g)
  <1> DEFINE s == w.resolved \cup {f}
             v == [w EXCEPT !.resolved = s]
  <1>1. s \in SUBSET File
    BY WorkHas
  <1>2. [w EXCEPT !.resolved = @ \cup {f}] = v /\ s = w.resolved \cup {f}
    OBVIOUS
  <1> HIDE DEF s
  <1>3. v \in Work /\ SameIo(w, v) /\ v.scheduled = w.scheduled /\ v.resolved = s /\ SameHeld(w, v)
    BY <1>1 DEF Work, SameIo, SameHeld
  <1> HIDE DEF v
  <1>4. \A g : Held(v, g) = Held(w, g)
    BY <1>3, HeldSame
  <1> QED
    BY <1>2, <1>3, <1>4

-----------------------------------------------------------------------------
(* The write pool.                                                         *)

IoBal(w) == w.ioOutstanding = Cardinality(w.ioTasks) + Cardinality(w.ioResults)

LEMMA DispatchIs ==
    ASSUME NEW w \in Work, NEW f \in File, f \notin w.ioTasks
    PROVE  LET v == DispatchBatchWrite(w, f)
           IN  /\ v \in Work /\ SameHash(w, v) /\ v.ioTasks = w.ioTasks \cup {f}
               /\ v.ioResults = w.ioResults
               /\ (IoBal(w) => IoBal(v)) /\ \A g \in File : Held(v, g) = Held(w, g) + Is(g, f)
  <1> DEFINE t == w.ioTasks \cup {f}
             n == w.ioOutstanding + 1
             v == [w EXCEPT !.ioTasks = t, !.ioOutstanding = n]
  <1>1. t \in SUBSET File /\ n \in Int /\ v = DispatchBatchWrite(w, f)
    BY WorkHas DEF DispatchBatchWrite
  <1>2. Cardinality(t) = Cardinality(w.ioTasks) + 1 /\ Cardinality(w.ioTasks) \in Nat
        /\ Cardinality(w.ioResults) \in Nat
    BY ResultsFinite, FS_AddElement, FS_CardinalityType
  <1>3. \A g \in File : In(g, t) = In(g, w.ioTasks) + Is(g, f)
    BY DEF In, Is
  <1>0. n = w.ioOutstanding + 1 /\ t = w.ioTasks \cup {f}
    OBVIOUS
  <1> HIDE DEF t, n
  <1>4. /\ v \in Work /\ SameHash(w, v) /\ v.ioTasks = t /\ v.ioOutstanding = n
        /\ v.ioResults = w.ioResults /\ v.pendingBatch = w.pendingBatch /\ v.pending = w.pending
        /\ v.retryBatch = w.retryBatch /\ v.retry = w.retry /\ v.verdicts = w.verdicts
    BY <1>1 DEF Work, SameHash
  <1> HIDE DEF v
  <1>5. IoBal(w) => IoBal(v)
    BY <1>0, <1>2, <1>4, WorkHas DEF IoBal
  <1>6. ASSUME NEW g \in File
        PROVE  Held(v, g) = Held(w, g) + Is(g, f)
    <2>1. Queued(v, g) = Queued(w, g) /\ Results(v, g) = Results(w, g) /\ Counted(v, g) = Counted(w, g)
          /\ In(g, v.ioTasks) = In(g, w.ioTasks) + Is(g, f)
      BY <1>3, <1>4 DEF Queued, Results, Counted
    <2>2. /\ Queued(w, g) \in Nat /\ Results(w, g) \in Nat /\ Counted(w, g) \in Nat
          /\ In(g, w.ioTasks) \in Nat /\ Is(g, f) \in Nat
      BY HeldType, OneType
    <2> QED
      BY <2>1, <2>2 DEF Held
  <1> QED
    BY <1>0, <1>1, <1>4, <1>5, <1>6

\* An entry leaves the results.
LEMMA ResultTaken ==
    ASSUME NEW w \in Work, NEW r \in w.ioResults
    PROVE  LET v == [w EXCEPT !.ioResults = @ \ {r}, !.ioOutstanding = @ - 1]
           IN  /\ v \in Work /\ SameHash(w, v) /\ v.ioTasks = w.ioTasks
               /\ v.ioResults = w.ioResults \ {r} /\ r[1] \in File
               /\ (IoBal(w) => IoBal(v)) /\ \A g \in File : Held(v, g) + Is(g, r[1]) = Held(w, g)
  <1> DEFINE t == w.ioResults \ {r}
             n == w.ioOutstanding - 1
             v == [w EXCEPT !.ioResults = t, !.ioOutstanding = n]
  <1>1. /\ t \in SUBSET (File \X BOOLEAN) /\ n \in Int /\ r[1] \in File
        /\ v = [w EXCEPT !.ioResults = @ \ {r}, !.ioOutstanding = @ - 1]
    BY WorkHas
  <1>2. Cardinality(t) = Cardinality(w.ioResults) - 1 /\ Cardinality(w.ioTasks) \in Nat
        /\ Cardinality(w.ioResults) \in Nat
    BY ResultsFinite, FS_RemoveElement, FS_CardinalityType
  <1>3. ASSUME NEW g \in File
        PROVE  Cardinality({x \in t : x[1] = g}) + Is(g, r[1])
                  = Cardinality({x \in w.ioResults : x[1] = g})
    <2> DEFINE A == {x \in w.ioResults : x[1] = g}
               B == {x \in t : x[1] = g}
    <2>1. IsFiniteSet(A) /\ Cardinality(A) \in Nat
      BY ResultsFinite, FS_CardinalityType
    <2>2. CASE g = r[1]
      <3>1. B = A \ {r} /\ r \in A
        BY <2>2
      <3> HIDE DEF A, B
      <3>2. Cardinality(B) = Cardinality(A) - 1
        BY <2>1, <3>1, FS_RemoveElement
      <3>3. Is(g, r[1]) = 1
        BY <2>2 DEF Is
      <3>4. Cardinality(B) + Is(g, r[1]) = Cardinality(A)
        BY <2>1, <3>2, <3>3
      <3> QED
        BY <3>4 DEF A, B
    <2>3. CASE g # r[1]
      <3>1. B = A
        BY <2>3
      <3>2. Is(g, r[1]) = 0
        BY <2>3 DEF Is
      <3> HIDE DEF A, B
      <3>3. Cardinality(B) + Is(g, r[1]) = Cardinality(A)
        BY <2>1, <3>1, <3>2
      <3> QED
        BY <3>3 DEF A, B
    <2> QED
      BY <2>2, <2>3
  <1>0. n = w.ioOutstanding - 1 /\ t = w.ioResults \ {r}
    OBVIOUS
  <1> HIDE DEF t, n
  <1>4. /\ v \in Work /\ SameHash(w, v) /\ v.ioTasks = w.ioTasks /\ v.ioOutstanding = n
        /\ v.ioResults = t /\ v.pendingBatch = w.pendingBatch /\ v.pending = w.pending
        /\ v.retryBatch = w.retryBatch /\ v.retry = w.retry /\ v.verdicts = w.verdicts
    BY <1>1 DEF Work, SameHash
  <1> HIDE DEF v
  <1>5. IoBal(w) => IoBal(v)
    BY <1>0, <1>2, <1>4, WorkHas DEF IoBal
  <1>6. ASSUME NEW g \in File
        PROVE  Held(v, g) + Is(g, r[1]) = Held(w, g)
    <2>1. Queued(v, g) = Queued(w, g) /\ Results(v, g) + Is(g, r[1]) = Results(w, g)
          /\ Counted(v, g) = Counted(w, g) /\ In(g, v.ioTasks) = In(g, w.ioTasks)
      BY <1>3, <1>4 DEF Queued, Results, Counted
    <2>2. /\ Queued(w, g) \in Nat /\ Results(w, g) \in Nat /\ Counted(w, g) \in Nat
          /\ In(g, w.ioTasks) \in Nat /\ Is(g, r[1]) \in Nat /\ Results(v, g) \in Nat
      BY <1>4, HeldType, OneType
    <2> QED
      BY <2>1, <2>2 DEF Held
  <1> QED
    BY <1>0, <1>1, <1>4, <1>5, <1>6

LEMMA WriteResultIs ==
    ASSUME NEW w \in Work, NEW r \in w.ioResults
    PROVE  LET v == WriteResult(w, r)
           IN  /\ v \in Work /\ SameHash(w, v) /\ v.ioTasks = w.ioTasks
               /\ v.ioResults = w.ioResults \ {r}
               /\ (IoBal(w) => IoBal(v)) /\ \A g \in File : Held(v, g) = Held(w, g)
  <1> DEFINE u == [w EXCEPT !.ioResults = @ \ {r}, !.ioOutstanding = @ - 1]
             v == IF r[2] THEN Transferred(u, r[1]) ELSE RetryOrFail(u, r[1])
  <1>1. /\ u \in Work /\ SameHash(w, u) /\ u.ioTasks = w.ioTasks
        /\ u.ioResults = w.ioResults \ {r} /\ r[1] \in File
        /\ (IoBal(w) => IoBal(u)) /\ \A g \in File : Held(u, g) + Is(g, r[1]) = Held(w, g)
    BY ResultTaken
  <1>2. v = WriteResult(w, r)
    BY DEF WriteResult
  <1> HIDE DEF u
  <1>3. Adds(u, v, r[1])
    BY <1>1, TransferredIs, RetryOrFailIs
  <1> HIDE DEF v
  <1>4. IoBal(u) => IoBal(v)
    BY <1>3 DEF Adds, SameIo, IoBal
  <1>5. \A g \in File : Held(v, g) = Held(w, g)
    BY <1>1, <1>3, HeldType, OneType DEF Adds
  <1> QED
    BY <1>1, <1>2, <1>3, <1>4, <1>5 DEF Adds, SameIo, SameHash

-----------------------------------------------------------------------------
(* The folds, unrolled into the works they go through.                     *)

LEMMA DispatchType ==
    ASSUME NEW w \in Work, NEW f \in File
    PROVE  DispatchBatchWrite(w, f) \in Work
  <1> DEFINE t == w.ioTasks \cup {f}
             n == w.ioOutstanding + 1
  <1>1. t \in SUBSET File /\ n \in Int
        /\ DispatchBatchWrite(w, f) = [w EXCEPT !.ioTasks = t, !.ioOutstanding = n]
    BY WorkHas DEF DispatchBatchWrite
  <1> HIDE DEF t, n
  <1>2. [w EXCEPT !.ioTasks = t, !.ioOutstanding = n] \in Work
    BY <1>1 DEF Work
  <1> QED
    BY <1>1, <1>2

LEMMA WriteResultType ==
    ASSUME NEW w \in Work, NEW r \in File \X BOOLEAN
    PROVE  WriteResult(w, r) \in Work
  <1> DEFINE t == w.ioResults \ {r}
             n == w.ioOutstanding - 1
             v == [w EXCEPT !.ioResults = t, !.ioOutstanding = n]
  <1>1. t \in SUBSET (File \X BOOLEAN) /\ n \in Int /\ r[1] \in File
        /\ WriteResult(w, r) = IF r[2] THEN Transferred(v, r[1]) ELSE RetryOrFail(v, r[1])
    BY WorkHas DEF WriteResult
  <1> HIDE DEF t, n
  <1>2. v \in Work
    BY <1>1 DEF Work
  <1> HIDE DEF v
  <1>3. Transferred(v, r[1]) \in Work /\ RetryOrFail(v, r[1]) \in Work
    BY <1>1, <1>2, TransferredIs, RetryOrFailIs DEF Adds
  <1> QED
    BY <1>1, <1>3

LEMMA ScheduleType ==
    ASSUME NEW w \in Work, NEW f \in File
    PROVE  ScheduleTransfer(w, f) \in Work
  <1>1. CASE f \in w.scheduled
    BY <1>1 DEF ScheduleTransfer
  <1>2. CASE f \notin w.scheduled
    BY <1>2, ScheduleIs
  <1> QED
    BY <1>1, <1>2

\* The steps of the folds, by name.
OpenOne(ok, v, f) ==
    IF f \notin ok THEN MarkTransferFailed(v, f)
    ELSE IF f \in empty THEN DispatchBatchWrite(v, f) ELSE v
ResolveOne(same, v, f) ==
    IF f \in v.resolved \/ ~HashesReady(f) THEN v
    ELSE [(IF f \in same THEN Settle(v, f, "unchanged") ELSE ScheduleTransfer(v, f))
          EXCEPT !.resolved = @ \cup {f}]
SweepOne(v, f) ==
    IF f \in v.resolved THEN v ELSE [ScheduleTransfer(v, f) EXCEPT !.resolved = @ \cup {f}]
SweepAll(w, fs) ==
    FoldLeft(LAMBDA v, f : IF f \in v.resolved THEN v
                           ELSE [ScheduleTransfer(v, f) EXCEPT !.resolved = @ \cup {f}], w, fs)
CompareOne(v, f) == CompareResult(v, f, comparing[f])
CompareAll(w, fs) == FoldLeft(LAMBDA v, f : CompareResult(v, f, comparing[f]), w, fs)
WriteAll(w, rs) == FoldLeft(WriteResult, w, rs)
WaitAll(ok, s, fs) == FoldLeft(LAMBDA t, f : IF f \in ok \ empty THEN Append(t, f) ELSE t, s, fs)
WaitOne(ok, s, f) == IF f \in ok \ empty THEN Append(s, f) ELSE s

LEMMA OpenOneType ==
    ASSUME NEW ok, NEW w \in Work, NEW f \in File PROVE OpenOne(ok, w, f) \in Work
  <1>1. MarkTransferFailed(w, f) \in Work /\ DispatchBatchWrite(w, f) \in Work
    BY MarkFailedIs, DispatchType DEF Adds
  <1> QED
    BY <1>1 DEF OpenOne

LEMMA ResolveOneType ==
    ASSUME NEW same, NEW w \in Work, NEW f \in File PROVE ResolveOne(same, w, f) \in Work
  <1> DEFINE u == IF f \in same THEN Settle(w, f, "unchanged") ELSE ScheduleTransfer(w, f)
  <1>1. u \in Work
    BY SettleIs, ScheduleType DEF Adds, Verdict
  <1>2. ResolveOne(same, w, f) \in {w, [u EXCEPT !.resolved = @ \cup {f}]}
    BY DEF ResolveOne
  <1> HIDE DEF u
  <1>3. [u EXCEPT !.resolved = @ \cup {f}] \in Work
    BY <1>1, ResolvedIs
  <1> QED
    BY <1>2, <1>3

LEMMA SweepOneType ==
    ASSUME NEW w \in Work, NEW f \in File PROVE SweepOne(w, f) \in Work
  <1> DEFINE u == ScheduleTransfer(w, f)
  <1>1. u \in Work
    BY ScheduleType
  <1>2. SweepOne(w, f) \in {w, [u EXCEPT !.resolved = @ \cup {f}]}
    BY DEF SweepOne
  <1> HIDE DEF u
  <1>3. [u EXCEPT !.resolved = @ \cup {f}] \in Work
    BY <1>1, ResolvedIs
  <1> QED
    BY <1>2, <1>3

LEMMA CompareOneType ==
    ASSUME NEW w \in Work, NEW f \in File PROVE CompareOne(w, f) \in Work
  <1>1. ScheduleTransfer(w, f) \in Work /\ Settle(w, f, "unchanged") \in Work
    BY SettleIs, ScheduleType DEF Adds, Verdict
  <1>2. CompareOne(w, f) \in {w, ScheduleTransfer(w, f), Settle(w, f, "unchanged")}
    BY DEF CompareOne, CompareResult
  <1> QED
    BY <1>1, <1>2

LEMMA WaitOneType ==
    ASSUME NEW ok, NEW s \in Seq(Small), NEW f \in Small PROVE WaitOne(ok, s, f) \in Seq(Small)
  BY DEF WaitOne

RetryRun(base, seq, ws) ==
    /\ ws \in [0 .. Len(seq) -> Work] /\ ws[0] = base /\ ws[Len(seq)] = RetryAll(base, seq)
    /\ \A i \in 1 .. Len(seq) : ws[i] = RetryOrFail(ws[i - 1], seq[i])

LEMMA RetryUnrolls ==
    ASSUME NEW base \in Work, NEW seq \in Seq(File)
    PROVE  \E ws : RetryRun(base, seq, ws)
  <1> DEFINE n == Len(seq)
             op == [p \in Work \X File |-> RetryOrFail(p[1], p[2])]
             Def(h) == [s \in SUBSET DOMAIN seq |->
                           IF s = {} THEN base
                           ELSE LET x == Max(s) IN RetryOrFail(h[s \ {x}], seq[x])]
             iter == CHOOSE h : h = Def(h)
  <1>0. n \in Nat /\ DOMAIN seq = 1 .. n /\ n = Len(seq) /\ \A i \in 1 .. n : seq[i] \in File
    OBVIOUS
  <1>1. op \in [Work \X File -> Work] /\ \A x \in Work, y \in File : op[<<x, y>>] = RetryOrFail(x, y)
    BY RetryOrFailIs DEF Adds
  <1> HIDE DEF op, n
  <1>2. \E h : h = Def(h)
    <2>1. PICK g \in [SUBSET (1 .. n) -> Work] : FoldOf(g, op, base, seq)
      BY <1>1, FoldExists DEF n
    <2>2. ASSUME NEW s \in SUBSET (1 .. n), s # {}
          PROVE  g[s] = RetryOrFail(g[s \ {Max(s)}], seq[Max(s)])
      <3>1. Max(s) \in 1 .. n /\ s \ {Max(s)} \in SUBSET (1 .. n)
        BY <1>0, <2>2, MaxIn
      <3>2. g[s \ {Max(s)}] \in Work /\ seq[Max(s)] \in File
        BY <1>0, <2>1, <3>1
      <3>3. <<g[s \ {Max(s)}], seq[Max(s)]>> \in DOMAIN op
        BY <1>1, <3>2
      <3>4. g[s] = op[<<g[s \ {Max(s)}], seq[Max(s)]>>]
        BY <1>0, <2>1, <2>2, <3>3 DEF FoldOf
      <3> QED
        BY <1>1, <3>2, <3>4
    <2>3. g[{}] = base
      BY <2>1 DEF FoldOf
    <2>4. g = Def(g)
      BY <1>0, <2>2, <2>3
    <2> HIDE DEF Def
    <2> QED
      BY <2>4
  <1>3. iter = Def(iter)
    <2> HIDE DEF Def
    <2> QED
      BY <1>2
  <1>4. iter[1 .. n] = RetryAll(base, seq)
    BY <1>0 DEF RetryAll, FoldLeft, MapThenFoldSet
  <1> HIDE DEF iter
  <1>5. \A s \in SUBSET (1 .. n) :
           iter[s] = IF s = {} THEN base ELSE RetryOrFail(iter[s \ {Max(s)}], seq[Max(s)])
    BY <1>0, <1>3
  <1> HIDE DEF Def
  <1>6. FoldOf(iter, op, base, seq)
    <2>1. iter[{}] = base
      BY <1>5
    <2>2. ASSUME NEW s \in SUBSET (1 .. n), s # {}, <<iter[s \ {Max(s)}], seq[Max(s)]>> \in DOMAIN op
          PROVE  iter[s] = op[<<iter[s \ {Max(s)}], seq[Max(s)]>>]
      <3>1. iter[s \ {Max(s)}] \in Work /\ seq[Max(s)] \in File
        BY <1>1, <2>2
      <3> QED
        BY <1>1, <1>5, <2>2, <3>1
    <2> QED
      BY <1>0, <2>1, <2>2 DEF FoldOf
  <1>7. PICK ws : RunOf(ws, Work, op, base, seq, iter[1 .. n])
    <2>1. op \in [Work \X File -> Work]
      BY <1>1
    <2>2. \E ws : RunOf(ws, Work, op, base, seq, iter[1 .. Len(seq)])
      BY <1>6, <2>1, FoldRuns
    <2> QED
      BY <2>2 DEF n
  <1>8. ASSUME NEW i \in 1 .. n
        PROVE  ws[i] = RetryOrFail(ws[i - 1], seq[i])
    <2>1. ws[i - 1] \in Work /\ seq[i] \in File
      <3>1. i - 1 \in 0 .. n
        BY <1>0
      <3> QED
        BY <1>0, <1>7, <3>1 DEF RunOf, n
    <2> QED
      BY <1>1, <1>7, <2>1 DEF RunOf, n
  <1>9. RetryRun(base, seq, ws)
    BY <1>4, <1>7, <1>8 DEF RetryRun, RunOf, n
  <1> QED
    BY <1>9

OpenRun(ok, base, seq, ws) ==
    /\ ws \in [0 .. Len(seq) -> Work] /\ ws[0] = base /\ ws[Len(seq)] = OpenEntries(base, seq, ok)
    /\ \A i \in 1 .. Len(seq) : ws[i] = OpenOne(ok, ws[i - 1], seq[i])

LEMMA OpenUnrolls ==
    ASSUME NEW ok, NEW base \in Work, NEW seq \in Seq(File)
    PROVE  \E ws : OpenRun(ok, base, seq, ws)
  <1> DEFINE n == Len(seq)
             op == [p \in Work \X File |-> OpenOne(ok, p[1], p[2])]
             Def(h) == [s \in SUBSET DOMAIN seq |->
                           IF s = {} THEN base
                           ELSE LET x == Max(s) IN OpenOne(ok, h[s \ {x}], seq[x])]
             iter == CHOOSE h : h = Def(h)
  <1>0. n \in Nat /\ DOMAIN seq = 1 .. n /\ n = Len(seq) /\ \A i \in 1 .. n : seq[i] \in File
    OBVIOUS
  <1>1. op \in [Work \X File -> Work] /\ \A x \in Work, y \in File : op[<<x, y>>] = OpenOne(ok, x, y)
    BY OpenOneType
  <1> HIDE DEF op, n
  <1>2. \E h : h = Def(h)
    <2>1. PICK g \in [SUBSET (1 .. n) -> Work] : FoldOf(g, op, base, seq)
      BY <1>1, FoldExists DEF n
    <2>2. ASSUME NEW s \in SUBSET (1 .. n), s # {}
          PROVE  g[s] = OpenOne(ok, g[s \ {Max(s)}], seq[Max(s)])
      <3>1. Max(s) \in 1 .. n /\ s \ {Max(s)} \in SUBSET (1 .. n)
        BY <1>0, <2>2, MaxIn
      <3>2. g[s \ {Max(s)}] \in Work /\ seq[Max(s)] \in File
        BY <1>0, <2>1, <3>1
      <3>3. <<g[s \ {Max(s)}], seq[Max(s)]>> \in DOMAIN op
        BY <1>1, <3>2
      <3>4. g[s] = op[<<g[s \ {Max(s)}], seq[Max(s)]>>]
        BY <1>0, <2>1, <2>2, <3>3 DEF FoldOf
      <3> QED
        BY <1>1, <3>2, <3>4
    <2>3. g[{}] = base
      BY <2>1 DEF FoldOf
    <2>4. g = Def(g)
      BY <1>0, <2>2, <2>3
    <2> HIDE DEF Def
    <2> QED
      BY <2>4
  <1>3. iter = Def(iter)
    <2> HIDE DEF Def
    <2> QED
      BY <1>2
  <1>4. iter[1 .. n] = OpenEntries(base, seq, ok)
    BY <1>0 DEF OpenEntries, OpenOne, FoldLeft, MapThenFoldSet
  <1> HIDE DEF iter
  <1>5. \A s \in SUBSET (1 .. n) :
           iter[s] = IF s = {} THEN base ELSE OpenOne(ok, iter[s \ {Max(s)}], seq[Max(s)])
    BY <1>0, <1>3
  <1> HIDE DEF Def
  <1>6. FoldOf(iter, op, base, seq)
    <2>1. iter[{}] = base
      BY <1>5
    <2>2. ASSUME NEW s \in SUBSET (1 .. n), s # {}, <<iter[s \ {Max(s)}], seq[Max(s)]>> \in DOMAIN op
          PROVE  iter[s] = op[<<iter[s \ {Max(s)}], seq[Max(s)]>>]
      <3>1. iter[s \ {Max(s)}] \in Work /\ seq[Max(s)] \in File
        BY <1>1, <2>2
      <3> QED
        BY <1>1, <1>5, <2>2, <3>1
    <2> QED
      BY <1>0, <2>1, <2>2 DEF FoldOf
  <1>7. PICK ws : RunOf(ws, Work, op, base, seq, iter[1 .. n])
    <2>1. op \in [Work \X File -> Work]
      BY <1>1
    <2>2. \E ws : RunOf(ws, Work, op, base, seq, iter[1 .. Len(seq)])
      BY <1>6, <2>1, FoldRuns
    <2> QED
      BY <2>2 DEF n
  <1>8. ASSUME NEW i \in 1 .. n
        PROVE  ws[i] = OpenOne(ok, ws[i - 1], seq[i])
    <2>1. ws[i - 1] \in Work /\ seq[i] \in File
      <3>1. i - 1 \in 0 .. n
        BY <1>0
      <3> QED
        BY <1>0, <1>7, <3>1 DEF RunOf, n
    <2> QED
      BY <1>1, <1>7, <2>1 DEF RunOf, n
  <1>9. OpenRun(ok, base, seq, ws)
    BY <1>4, <1>7, <1>8 DEF OpenRun, RunOf, n
  <1> QED
    BY <1>9

ResolveRun(same, base, seq, ws) ==
    /\ ws \in [0 .. Len(seq) -> Work] /\ ws[0] = base /\ ws[Len(seq)] = ResolveFallback(base, seq, same)
    /\ \A i \in 1 .. Len(seq) : ws[i] = ResolveOne(same, ws[i - 1], seq[i])

LEMMA ResolveUnrolls ==
    ASSUME NEW same, NEW base \in Work, NEW seq \in Seq(File)
    PROVE  \E ws : ResolveRun(same, base, seq, ws)
  <1> DEFINE n == Len(seq)
             op == [p \in Work \X File |-> ResolveOne(same, p[1], p[2])]
             Def(h) == [s \in SUBSET DOMAIN seq |->
                           IF s = {} THEN base
                           ELSE LET x == Max(s) IN ResolveOne(same, h[s \ {x}], seq[x])]
             iter == CHOOSE h : h = Def(h)
  <1>0. n \in Nat /\ DOMAIN seq = 1 .. n /\ n = Len(seq) /\ \A i \in 1 .. n : seq[i] \in File
    OBVIOUS
  <1>1. op \in [Work \X File -> Work] /\ \A x \in Work, y \in File : op[<<x, y>>] = ResolveOne(same, x, y)
    BY ResolveOneType
  <1> HIDE DEF op, n
  <1>2. \E h : h = Def(h)
    <2>1. PICK g \in [SUBSET (1 .. n) -> Work] : FoldOf(g, op, base, seq)
      BY <1>1, FoldExists DEF n
    <2>2. ASSUME NEW s \in SUBSET (1 .. n), s # {}
          PROVE  g[s] = ResolveOne(same, g[s \ {Max(s)}], seq[Max(s)])
      <3>1. Max(s) \in 1 .. n /\ s \ {Max(s)} \in SUBSET (1 .. n)
        BY <1>0, <2>2, MaxIn
      <3>2. g[s \ {Max(s)}] \in Work /\ seq[Max(s)] \in File
        BY <1>0, <2>1, <3>1
      <3>3. <<g[s \ {Max(s)}], seq[Max(s)]>> \in DOMAIN op
        BY <1>1, <3>2
      <3>4. g[s] = op[<<g[s \ {Max(s)}], seq[Max(s)]>>]
        BY <1>0, <2>1, <2>2, <3>3 DEF FoldOf
      <3> QED
        BY <1>1, <3>2, <3>4
    <2>3. g[{}] = base
      BY <2>1 DEF FoldOf
    <2>4. g = Def(g)
      BY <1>0, <2>2, <2>3
    <2> HIDE DEF Def
    <2> QED
      BY <2>4
  <1>3. iter = Def(iter)
    <2> HIDE DEF Def
    <2> QED
      BY <1>2
  <1>4. iter[1 .. n] = ResolveFallback(base, seq, same)
    BY <1>0 DEF ResolveFallback, ResolveOne, FoldLeft, MapThenFoldSet
  <1> HIDE DEF iter
  <1>5. \A s \in SUBSET (1 .. n) :
           iter[s] = IF s = {} THEN base ELSE ResolveOne(same, iter[s \ {Max(s)}], seq[Max(s)])
    BY <1>0, <1>3
  <1> HIDE DEF Def
  <1>6. FoldOf(iter, op, base, seq)
    <2>1. iter[{}] = base
      BY <1>5
    <2>2. ASSUME NEW s \in SUBSET (1 .. n), s # {}, <<iter[s \ {Max(s)}], seq[Max(s)]>> \in DOMAIN op
          PROVE  iter[s] = op[<<iter[s \ {Max(s)}], seq[Max(s)]>>]
      <3>1. iter[s \ {Max(s)}] \in Work /\ seq[Max(s)] \in File
        BY <1>1, <2>2
      <3> QED
        BY <1>1, <1>5, <2>2, <3>1
    <2> QED
      BY <1>0, <2>1, <2>2 DEF FoldOf
  <1>7. PICK ws : RunOf(ws, Work, op, base, seq, iter[1 .. n])
    <2>1. op \in [Work \X File -> Work]
      BY <1>1
    <2>2. \E ws : RunOf(ws, Work, op, base, seq, iter[1 .. Len(seq)])
      BY <1>6, <2>1, FoldRuns
    <2> QED
      BY <2>2 DEF n
  <1>8. ASSUME NEW i \in 1 .. n
        PROVE  ws[i] = ResolveOne(same, ws[i - 1], seq[i])
    <2>1. ws[i - 1] \in Work /\ seq[i] \in File
      <3>1. i - 1 \in 0 .. n
        BY <1>0
      <3> QED
        BY <1>0, <1>7, <3>1 DEF RunOf, n
    <2> QED
      BY <1>1, <1>7, <2>1 DEF RunOf, n
  <1>9. ResolveRun(same, base, seq, ws)
    BY <1>4, <1>7, <1>8 DEF ResolveRun, RunOf, n
  <1> QED
    BY <1>9

SweepRun(base, seq, ws) ==
    /\ ws \in [0 .. Len(seq) -> Work] /\ ws[0] = base /\ ws[Len(seq)] = SweepAll(base, seq)
    /\ \A i \in 1 .. Len(seq) : ws[i] = SweepOne(ws[i - 1], seq[i])

LEMMA SweepUnrolls ==
    ASSUME NEW base \in Work, NEW seq \in Seq(File)
    PROVE  \E ws : SweepRun(base, seq, ws)
  <1> DEFINE n == Len(seq)
             op == [p \in Work \X File |-> SweepOne(p[1], p[2])]
             Def(h) == [s \in SUBSET DOMAIN seq |->
                           IF s = {} THEN base
                           ELSE LET x == Max(s) IN SweepOne(h[s \ {x}], seq[x])]
             iter == CHOOSE h : h = Def(h)
  <1>0. n \in Nat /\ DOMAIN seq = 1 .. n /\ n = Len(seq) /\ \A i \in 1 .. n : seq[i] \in File
    OBVIOUS
  <1>1. op \in [Work \X File -> Work] /\ \A x \in Work, y \in File : op[<<x, y>>] = SweepOne(x, y)
    BY SweepOneType
  <1> HIDE DEF op, n
  <1>2. \E h : h = Def(h)
    <2>1. PICK g \in [SUBSET (1 .. n) -> Work] : FoldOf(g, op, base, seq)
      BY <1>1, FoldExists DEF n
    <2>2. ASSUME NEW s \in SUBSET (1 .. n), s # {}
          PROVE  g[s] = SweepOne(g[s \ {Max(s)}], seq[Max(s)])
      <3>1. Max(s) \in 1 .. n /\ s \ {Max(s)} \in SUBSET (1 .. n)
        BY <1>0, <2>2, MaxIn
      <3>2. g[s \ {Max(s)}] \in Work /\ seq[Max(s)] \in File
        BY <1>0, <2>1, <3>1
      <3>3. <<g[s \ {Max(s)}], seq[Max(s)]>> \in DOMAIN op
        BY <1>1, <3>2
      <3>4. g[s] = op[<<g[s \ {Max(s)}], seq[Max(s)]>>]
        BY <1>0, <2>1, <2>2, <3>3 DEF FoldOf
      <3> QED
        BY <1>1, <3>2, <3>4
    <2>3. g[{}] = base
      BY <2>1 DEF FoldOf
    <2>4. g = Def(g)
      BY <1>0, <2>2, <2>3
    <2> HIDE DEF Def
    <2> QED
      BY <2>4
  <1>3. iter = Def(iter)
    <2> HIDE DEF Def
    <2> QED
      BY <1>2
  <1>4. iter[1 .. n] = SweepAll(base, seq)
    BY <1>0 DEF SweepAll, SweepOne, FoldLeft, MapThenFoldSet
  <1> HIDE DEF iter
  <1>5. \A s \in SUBSET (1 .. n) :
           iter[s] = IF s = {} THEN base ELSE SweepOne(iter[s \ {Max(s)}], seq[Max(s)])
    BY <1>0, <1>3
  <1> HIDE DEF Def
  <1>6. FoldOf(iter, op, base, seq)
    <2>1. iter[{}] = base
      BY <1>5
    <2>2. ASSUME NEW s \in SUBSET (1 .. n), s # {}, <<iter[s \ {Max(s)}], seq[Max(s)]>> \in DOMAIN op
          PROVE  iter[s] = op[<<iter[s \ {Max(s)}], seq[Max(s)]>>]
      <3>1. iter[s \ {Max(s)}] \in Work /\ seq[Max(s)] \in File
        BY <1>1, <2>2
      <3> QED
        BY <1>1, <1>5, <2>2, <3>1
    <2> QED
      BY <1>0, <2>1, <2>2 DEF FoldOf
  <1>7. PICK ws : RunOf(ws, Work, op, base, seq, iter[1 .. n])
    <2>1. op \in [Work \X File -> Work]
      BY <1>1
    <2>2. \E ws : RunOf(ws, Work, op, base, seq, iter[1 .. Len(seq)])
      BY <1>6, <2>1, FoldRuns
    <2> QED
      BY <2>2 DEF n
  <1>8. ASSUME NEW i \in 1 .. n
        PROVE  ws[i] = SweepOne(ws[i - 1], seq[i])
    <2>1. ws[i - 1] \in Work /\ seq[i] \in File
      <3>1. i - 1 \in 0 .. n
        BY <1>0
      <3> QED
        BY <1>0, <1>7, <3>1 DEF RunOf, n
    <2> QED
      BY <1>1, <1>7, <2>1 DEF RunOf, n
  <1>9. SweepRun(base, seq, ws)
    BY <1>4, <1>7, <1>8 DEF SweepRun, RunOf, n
  <1> QED
    BY <1>9

CompareRun(base, seq, ws) ==
    /\ ws \in [0 .. Len(seq) -> Work] /\ ws[0] = base /\ ws[Len(seq)] = CompareAll(base, seq)
    /\ \A i \in 1 .. Len(seq) : ws[i] = CompareOne(ws[i - 1], seq[i])

LEMMA CompareUnrolls ==
    ASSUME NEW base \in Work, NEW seq \in Seq(File)
    PROVE  \E ws : CompareRun(base, seq, ws)
  <1> DEFINE n == Len(seq)
             op == [p \in Work \X File |-> CompareOne(p[1], p[2])]
             Def(h) == [s \in SUBSET DOMAIN seq |->
                           IF s = {} THEN base
                           ELSE LET x == Max(s) IN CompareOne(h[s \ {x}], seq[x])]
             iter == CHOOSE h : h = Def(h)
  <1>0. n \in Nat /\ DOMAIN seq = 1 .. n /\ n = Len(seq) /\ \A i \in 1 .. n : seq[i] \in File
    OBVIOUS
  <1>1. op \in [Work \X File -> Work] /\ \A x \in Work, y \in File : op[<<x, y>>] = CompareOne(x, y)
    BY CompareOneType
  <1> HIDE DEF op, n
  <1>2. \E h : h = Def(h)
    <2>1. PICK g \in [SUBSET (1 .. n) -> Work] : FoldOf(g, op, base, seq)
      BY <1>1, FoldExists DEF n
    <2>2. ASSUME NEW s \in SUBSET (1 .. n), s # {}
          PROVE  g[s] = CompareOne(g[s \ {Max(s)}], seq[Max(s)])
      <3>1. Max(s) \in 1 .. n /\ s \ {Max(s)} \in SUBSET (1 .. n)
        BY <1>0, <2>2, MaxIn
      <3>2. g[s \ {Max(s)}] \in Work /\ seq[Max(s)] \in File
        BY <1>0, <2>1, <3>1
      <3>3. <<g[s \ {Max(s)}], seq[Max(s)]>> \in DOMAIN op
        BY <1>1, <3>2
      <3>4. g[s] = op[<<g[s \ {Max(s)}], seq[Max(s)]>>]
        BY <1>0, <2>1, <2>2, <3>3 DEF FoldOf
      <3> QED
        BY <1>1, <3>2, <3>4
    <2>3. g[{}] = base
      BY <2>1 DEF FoldOf
    <2>4. g = Def(g)
      BY <1>0, <2>2, <2>3
    <2> HIDE DEF Def
    <2> QED
      BY <2>4
  <1>3. iter = Def(iter)
    <2> HIDE DEF Def
    <2> QED
      BY <1>2
  <1>4. iter[1 .. n] = CompareAll(base, seq)
    BY <1>0 DEF CompareAll, CompareOne, FoldLeft, MapThenFoldSet
  <1> HIDE DEF iter
  <1>5. \A s \in SUBSET (1 .. n) :
           iter[s] = IF s = {} THEN base ELSE CompareOne(iter[s \ {Max(s)}], seq[Max(s)])
    BY <1>0, <1>3
  <1> HIDE DEF Def
  <1>6. FoldOf(iter, op, base, seq)
    <2>1. iter[{}] = base
      BY <1>5
    <2>2. ASSUME NEW s \in SUBSET (1 .. n), s # {}, <<iter[s \ {Max(s)}], seq[Max(s)]>> \in DOMAIN op
          PROVE  iter[s] = op[<<iter[s \ {Max(s)}], seq[Max(s)]>>]
      <3>1. iter[s \ {Max(s)}] \in Work /\ seq[Max(s)] \in File
        BY <1>1, <2>2
      <3> QED
        BY <1>1, <1>5, <2>2, <3>1
    <2> QED
      BY <1>0, <2>1, <2>2 DEF FoldOf
  <1>7. PICK ws : RunOf(ws, Work, op, base, seq, iter[1 .. n])
    <2>1. op \in [Work \X File -> Work]
      BY <1>1
    <2>2. \E ws : RunOf(ws, Work, op, base, seq, iter[1 .. Len(seq)])
      BY <1>6, <2>1, FoldRuns
    <2> QED
      BY <2>2 DEF n
  <1>8. ASSUME NEW i \in 1 .. n
        PROVE  ws[i] = CompareOne(ws[i - 1], seq[i])
    <2>1. ws[i - 1] \in Work /\ seq[i] \in File
      <3>1. i - 1 \in 0 .. n
        BY <1>0
      <3> QED
        BY <1>0, <1>7, <3>1 DEF RunOf, n
    <2> QED
      BY <1>1, <1>7, <2>1 DEF RunOf, n
  <1>9. CompareRun(base, seq, ws)
    BY <1>4, <1>7, <1>8 DEF CompareRun, RunOf, n
  <1> QED
    BY <1>9

WriteRun(base, seq, ws) ==
    /\ ws \in [0 .. Len(seq) -> Work] /\ ws[0] = base /\ ws[Len(seq)] = WriteAll(base, seq)
    /\ \A i \in 1 .. Len(seq) : ws[i] = WriteResult(ws[i - 1], seq[i])

LEMMA WriteUnrolls ==
    ASSUME NEW base \in Work, NEW seq \in Seq((File \X BOOLEAN))
    PROVE  \E ws : WriteRun(base, seq, ws)
  <1> DEFINE n == Len(seq)
             op == [p \in Work \X (File \X BOOLEAN) |-> WriteResult(p[1], p[2])]
             Def(h) == [s \in SUBSET DOMAIN seq |->
                           IF s = {} THEN base
                           ELSE LET x == Max(s) IN WriteResult(h[s \ {x}], seq[x])]
             iter == CHOOSE h : h = Def(h)
  <1>0. n \in Nat /\ DOMAIN seq = 1 .. n /\ n = Len(seq) /\ \A i \in 1 .. n : seq[i] \in (File \X BOOLEAN)
    OBVIOUS
  <1>1. op \in [Work \X (File \X BOOLEAN) -> Work] /\ \A x \in Work, y \in (File \X BOOLEAN) : op[<<x, y>>] = WriteResult(x, y)
    BY WriteResultType
  <1> HIDE DEF op, n
  <1>2. \E h : h = Def(h)
    <2>1. PICK g \in [SUBSET (1 .. n) -> Work] : FoldOf(g, op, base, seq)
      BY <1>1, FoldExists DEF n
    <2>2. ASSUME NEW s \in SUBSET (1 .. n), s # {}
          PROVE  g[s] = WriteResult(g[s \ {Max(s)}], seq[Max(s)])
      <3>1. Max(s) \in 1 .. n /\ s \ {Max(s)} \in SUBSET (1 .. n)
        BY <1>0, <2>2, MaxIn
      <3>2. g[s \ {Max(s)}] \in Work /\ seq[Max(s)] \in (File \X BOOLEAN)
        BY <1>0, <2>1, <3>1
      <3>3. <<g[s \ {Max(s)}], seq[Max(s)]>> \in DOMAIN op
        BY <1>1, <3>2
      <3>4. g[s] = op[<<g[s \ {Max(s)}], seq[Max(s)]>>]
        BY <1>0, <2>1, <2>2, <3>3 DEF FoldOf
      <3> QED
        BY <1>1, <3>2, <3>4
    <2>3. g[{}] = base
      BY <2>1 DEF FoldOf
    <2>4. g = Def(g)
      BY <1>0, <2>2, <2>3
    <2> HIDE DEF Def
    <2> QED
      BY <2>4
  <1>3. iter = Def(iter)
    <2> HIDE DEF Def
    <2> QED
      BY <1>2
  <1>4. iter[1 .. n] = WriteAll(base, seq)
    BY <1>0 DEF WriteAll, FoldLeft, MapThenFoldSet
  <1> HIDE DEF iter
  <1>5. \A s \in SUBSET (1 .. n) :
           iter[s] = IF s = {} THEN base ELSE WriteResult(iter[s \ {Max(s)}], seq[Max(s)])
    BY <1>0, <1>3
  <1> HIDE DEF Def
  <1>6. FoldOf(iter, op, base, seq)
    <2>1. iter[{}] = base
      BY <1>5
    <2>2. ASSUME NEW s \in SUBSET (1 .. n), s # {}, <<iter[s \ {Max(s)}], seq[Max(s)]>> \in DOMAIN op
          PROVE  iter[s] = op[<<iter[s \ {Max(s)}], seq[Max(s)]>>]
      <3>1. iter[s \ {Max(s)}] \in Work /\ seq[Max(s)] \in (File \X BOOLEAN)
        BY <1>1, <2>2
      <3> QED
        BY <1>1, <1>5, <2>2, <3>1
    <2> QED
      BY <1>0, <2>1, <2>2 DEF FoldOf
  <1>7. PICK ws : RunOf(ws, Work, op, base, seq, iter[1 .. n])
    <2>1. op \in [Work \X (File \X BOOLEAN) -> Work]
      BY <1>1
    <2>2. \E ws : RunOf(ws, Work, op, base, seq, iter[1 .. Len(seq)])
      BY <1>6, <2>1, FoldRuns
    <2> QED
      BY <2>2 DEF n
  <1>8. ASSUME NEW i \in 1 .. n
        PROVE  ws[i] = WriteResult(ws[i - 1], seq[i])
    <2>1. ws[i - 1] \in Work /\ seq[i] \in (File \X BOOLEAN)
      <3>1. i - 1 \in 0 .. n
        BY <1>0
      <3> QED
        BY <1>0, <1>7, <3>1 DEF RunOf, n
    <2> QED
      BY <1>1, <1>7, <2>1 DEF RunOf, n
  <1>9. WriteRun(base, seq, ws)
    BY <1>4, <1>7, <1>8 DEF WriteRun, RunOf, n
  <1> QED
    BY <1>9

WaitRun(ok, base, seq, ws) ==
    /\ ws \in [0 .. Len(seq) -> Seq(Small)] /\ ws[0] = base /\ ws[Len(seq)] = WaitAll(ok, base, seq)
    /\ \A i \in 1 .. Len(seq) : ws[i] = WaitOne(ok, ws[i - 1], seq[i])

LEMMA WaitUnrolls ==
    ASSUME NEW ok, NEW base \in Seq(Small), NEW seq \in Seq(Small)
    PROVE  \E ws : WaitRun(ok, base, seq, ws)
  <1> DEFINE n == Len(seq)
             op == [p \in Seq(Small) \X Small |-> WaitOne(ok, p[1], p[2])]
             Def(h) == [s \in SUBSET DOMAIN seq |->
                           IF s = {} THEN base
                           ELSE LET x == Max(s) IN WaitOne(ok, h[s \ {x}], seq[x])]
             iter == CHOOSE h : h = Def(h)
  <1>0. n \in Nat /\ DOMAIN seq = 1 .. n /\ n = Len(seq) /\ \A i \in 1 .. n : seq[i] \in Small
    OBVIOUS
  <1>1. op \in [Seq(Small) \X Small -> Seq(Small)] /\ \A x \in Seq(Small), y \in Small : op[<<x, y>>] = WaitOne(ok, x, y)
    BY WaitOneType
  <1> HIDE DEF op, n
  <1>2. \E h : h = Def(h)
    <2>1. PICK g \in [SUBSET (1 .. n) -> Seq(Small)] : FoldOf(g, op, base, seq)
      BY <1>1, FoldExists DEF n
    <2>2. ASSUME NEW s \in SUBSET (1 .. n), s # {}
          PROVE  g[s] = WaitOne(ok, g[s \ {Max(s)}], seq[Max(s)])
      <3>1. Max(s) \in 1 .. n /\ s \ {Max(s)} \in SUBSET (1 .. n)
        BY <1>0, <2>2, MaxIn
      <3>2. g[s \ {Max(s)}] \in Seq(Small) /\ seq[Max(s)] \in Small
        BY <1>0, <2>1, <3>1
      <3>3. <<g[s \ {Max(s)}], seq[Max(s)]>> \in DOMAIN op
        BY <1>1, <3>2
      <3>4. g[s] = op[<<g[s \ {Max(s)}], seq[Max(s)]>>]
        BY <1>0, <2>1, <2>2, <3>3 DEF FoldOf
      <3> QED
        BY <1>1, <3>2, <3>4
    <2>3. g[{}] = base
      BY <2>1 DEF FoldOf
    <2>4. g = Def(g)
      BY <1>0, <2>2, <2>3
    <2> HIDE DEF Def
    <2> QED
      BY <2>4
  <1>3. iter = Def(iter)
    <2> HIDE DEF Def
    <2> QED
      BY <1>2
  <1>4. iter[1 .. n] = WaitAll(ok, base, seq)
    BY <1>0 DEF WaitAll, WaitOne, FoldLeft, MapThenFoldSet
  <1> HIDE DEF iter
  <1>5. \A s \in SUBSET (1 .. n) :
           iter[s] = IF s = {} THEN base ELSE WaitOne(ok, iter[s \ {Max(s)}], seq[Max(s)])
    BY <1>0, <1>3
  <1> HIDE DEF Def
  <1>6. FoldOf(iter, op, base, seq)
    <2>1. iter[{}] = base
      BY <1>5
    <2>2. ASSUME NEW s \in SUBSET (1 .. n), s # {}, <<iter[s \ {Max(s)}], seq[Max(s)]>> \in DOMAIN op
          PROVE  iter[s] = op[<<iter[s \ {Max(s)}], seq[Max(s)]>>]
      <3>1. iter[s \ {Max(s)}] \in Seq(Small) /\ seq[Max(s)] \in Small
        BY <1>1, <2>2
      <3> QED
        BY <1>1, <1>5, <2>2, <3>1
    <2> QED
      BY <1>0, <2>1, <2>2 DEF FoldOf
  <1>7. PICK ws : RunOf(ws, Seq(Small), op, base, seq, iter[1 .. n])
    <2>1. op \in [Seq(Small) \X Small -> Seq(Small)]
      BY <1>1
    <2>2. \E ws : RunOf(ws, Seq(Small), op, base, seq, iter[1 .. Len(seq)])
      BY <1>6, <2>1, FoldRuns
    <2> QED
      BY <2>2 DEF n
  <1>8. ASSUME NEW i \in 1 .. n
        PROVE  ws[i] = WaitOne(ok, ws[i - 1], seq[i])
    <2>1. ws[i - 1] \in Seq(Small) /\ seq[i] \in Small
      <3>1. i - 1 \in 0 .. n
        BY <1>0
      <3> QED
        BY <1>0, <1>7, <3>1 DEF RunOf, n
    <2> QED
      BY <1>1, <1>7, <2>1 DEF RunOf, n
  <1>9. WaitRun(ok, base, seq, ws)
    BY <1>4, <1>7, <1>8 DEF WaitRun, RunOf, n
  <1> QED
    BY <1>9

-----------------------------------------------------------------------------
(* What the folds do.                                                      *)

Prefix(s, i) == {s[j] : j \in 1 .. i}

LEMMA PrefixIs ==
    ASSUME NEW S, NEW s \in Seq(S)
    PROVE  /\ Prefix(s, 0) = {} /\ Prefix(s, Len(s)) = ToSet(s)
           /\ \A i \in 1 .. Len(s) :
                 /\ Prefix(s, i) = Prefix(s, i - 1) \cup {s[i]} /\ s[i] \in S
                 /\ Once(s) => s[i] \notin Prefix(s, i - 1)
  <1>1. Len(s) \in Nat /\ DOMAIN s = 1 .. Len(s) /\ \A i \in 1 .. Len(s) : s[i] \in S
    OBVIOUS
  <1>2. Prefix(s, 0) = {}
    BY DEF Prefix
  <1>3. Prefix(s, Len(s)) = ToSet(s)
    BY <1>1 DEF Prefix, ToSet
  <1>4. ASSUME NEW i \in 1 .. Len(s)
        PROVE  /\ Prefix(s, i) = Prefix(s, i - 1) \cup {s[i]} /\ s[i] \in S
               /\ Once(s) => s[i] \notin Prefix(s, i - 1)
    <2>1. /\ i \in Nat /\ i \in 1 .. i /\ \A j \in 1 .. (i - 1) : j \in 1 .. i /\ j \in 1 .. Len(s) /\ j # i
          /\ \A j \in 1 .. i : j = i \/ j \in 1 .. (i - 1)
      BY <1>1
    <2>2. Prefix(s, i) = Prefix(s, i - 1) \cup {s[i]}
      BY <2>1 DEF Prefix
    <2>3. ASSUME Once(s) PROVE s[i] \notin Prefix(s, i - 1)
      BY <1>1, <2>1, <2>3 DEF Prefix, Once
    <2> QED
      BY <1>1, <2>2, <2>3
  <1> QED
    BY <1>2, <1>3, <1>4

\* The sequences that enumerate a set.
LEMMA SeqsOf ==
    ASSUME NEW S, IsFiniteSet(S), NEW s \in SetToSeqs(S)
    PROVE  s \in Seq(S) /\ Once(s) /\ ToSet(s) = S
  <1> DEFINE n == Cardinality(S)
  <1>1. n \in Nat
    BY FS_CardinalityType
  <1>2. s \in [1 .. n -> S] /\ \A i, j \in 1 .. n : i # j => s[i] # s[j]
    BY DEF SetToSeqs
  <1>3. IsFiniteSet(1 .. n) /\ Cardinality(1 .. n) = n
    BY <1>1, FS_Interval
  <1>4. s \in Injection(1 .. n, S)
    BY <1>2 DEF Injection, IsInjective
  <1>5. s \in Surjection(1 .. n, S)
    BY <1>3, <1>4, FS_Injection
  <1> HIDE DEF n
  <1>6. s \in Seq(S) /\ DOMAIN s = 1 .. n
    BY <1>1, <1>2
  <1>7. Once(s)
    BY <1>2, <1>6 DEF Once
  <1>8. ToSet(s) = S
    BY <1>2, <1>5, <1>6 DEF Surjection, ToSet
  <1> QED
    BY <1>6, <1>7, <1>8

LEMMA OccPrefix ==
    ASSUME NEW S, NEW s \in Seq(S), NEW x
    PROVE  /\ Occurrences(x, SubSeq(s, 1, 0)) = 0 /\ SubSeq(s, 1, Len(s)) = s
           /\ \A i \in 1 .. Len(s) : /\ Occurrences(x, SubSeq(s, 1, i - 1)) \in Nat
                                     /\ Occurrences(x, SubSeq(s, 1, i))
                                          = Occurrences(x, SubSeq(s, 1, i - 1)) + Is(x, s[i])
  <1>1. SubSeq(s, 1, 0) = <<>> /\ SubSeq(s, 1, Len(s)) = s
    BY SubSeqFull
  <1>2. ASSUME NEW i \in 1 .. Len(s)
        PROVE  /\ Occurrences(x, SubSeq(s, 1, i - 1)) \in Nat
               /\ Occurrences(x, SubSeq(s, 1, i)) = Occurrences(x, SubSeq(s, 1, i - 1)) + Is(x, s[i])
    <2> DEFINE t == SubSeq(s, 1, i - 1)
    <2>1. t \in Seq(S) /\ s[i] \in S /\ SubSeq(s, 1, i) = Append(t, s[i])
      OBVIOUS
    <2> HIDE DEF t
    <2>2. Occurrences(x, t) \in Nat /\ Occurrences(x, Append(t, s[i])) = Occurrences(x, t) + Is(x, s[i])
      BY <2>1, OccAppend, OccType
    <2> QED
      BY <2>1, <2>2 DEF t
  <1> QED
    BY <1>1, <1>2, OccEmpty

LEMMA RetryAllIs ==
    ASSUME NEW w \in Work, NEW fs \in Seq(File)
    PROVE  LET v == RetryAll(w, fs)
           IN  /\ v \in Work /\ SameIo(w, v) /\ SameHash(w, v)
               /\ \A g \in File : Held(v, g) = Held(w, g) + Occurrences(g, fs)
  <1> DEFINE n == Len(fs)
             Is1(v, i) == /\ v \in Work /\ SameIo(w, v) /\ SameHash(w, v)
                          /\ \A g \in File : Held(v, g) = Held(w, g) + Occurrences(g, SubSeq(fs, 1, i))
  <1>0. n \in Nat /\ \A i \in 1 .. n : fs[i] \in File
    OBVIOUS
  <1>8. PICK ws : RetryRun(w, fs, ws)
    BY RetryUnrolls
  <1>1. /\ ws \in [0 .. n -> Work] /\ ws[0] = w /\ ws[n] = RetryAll(w, fs)
        /\ \A i \in 1 .. n : ws[i] = RetryOrFail(ws[i - 1], fs[i])
    BY <1>8 DEF RetryRun
  <1>7. SubSeq(fs, 1, n) = fs
    BY OccPrefix
  <1>9. /\ \A g : Occurrences(g, SubSeq(fs, 1, 0)) = 0
        /\ \A g : \A i \in 1 .. n : /\ Occurrences(g, SubSeq(fs, 1, i - 1)) \in Nat
                                    /\ Occurrences(g, SubSeq(fs, 1, i))
                                          = Occurrences(g, SubSeq(fs, 1, i - 1)) + Is(g, fs[i])
    BY OccPrefix
  <1> HIDE DEF n
  <1> DEFINE P == {i \in 0 .. n : Is1(ws[i], i)}
  <1>2. 0 \in P
    <2>1. \A g \in File : Held(w, g) = Held(w, g) + Occurrences(g, SubSeq(fs, 1, 0))
      BY <1>9, HeldType
    <2> QED
      BY <1>0, <1>1, <2>1 DEF SameIo, SameHash
  <1>3. ASSUME NEW i \in 1 .. n, i - 1 \in P
        PROVE  i \in P
    <2>1. Is1(ws[i - 1], i - 1) /\ fs[i] \in File /\ i \in 0 .. n
      BY <1>0, <1>3
    <2>2. Adds(ws[i - 1], ws[i], fs[i])
      BY <1>1, <2>1, RetryOrFailIs
    <2>3. ASSUME NEW g \in File
          PROVE  Held(ws[i], g) = Held(w, g) + Occurrences(g, SubSeq(fs, 1, i))
      <3>1. /\ Held(ws[i], g) = Held(ws[i - 1], g) + Is(g, fs[i])
            /\ Held(ws[i - 1], g) = Held(w, g) + Occurrences(g, SubSeq(fs, 1, i - 1))
        BY <2>1, <2>2 DEF Adds
      <3>2. Held(w, g) \in Nat /\ Is(g, fs[i]) \in Nat
        <4>1. Held(w, g) \in Nat
          BY HeldType
        <4> QED
          BY <4>1 DEF Is
      <3> QED
        BY <1>9, <3>1, <3>2
    <2>4. Is1(ws[i], i)
      BY <2>1, <2>2, <2>3 DEF Adds, SameIo, SameHash
    <2> HIDE DEF Is1
    <2> QED
      BY <2>1, <2>4
  <1> HIDE DEF P
  <1>4. \A i \in 0 .. n : i \in P
    BY <1>0, <1>2, <1>3, UpTo
  <1>5. Is1(ws[n], n)
    BY <1>0, <1>4 DEF P
  <1> QED
    BY <1>1, <1>5, <1>7

\* The first i entries that do not wait for bytes.
Opened(fs, ok, i) == Prefix(fs, i) \ (ok \ empty)

LEMMA OpenIs ==
    ASSUME NEW w \in Work, NEW fs \in Seq(File), NEW ok, Once(fs), ToSet(fs) \cap w.ioTasks = {}
    PROVE  LET v == OpenEntries(w, fs, ok)
           IN  /\ v \in Work /\ SameHash(w, v) /\ (IoBal(w) => IoBal(v))
               /\ \A g \in File : Held(v, g) = Held(w, g) + In(g, ToSet(fs) \ (ok \ empty))
  <1> DEFINE n == Len(fs)
             wait == ok \ empty
             Is1(v, i) == /\ v \in Work /\ SameHash(w, v) /\ (IoBal(w) => IoBal(v))
                          /\ v.ioTasks \subseteq w.ioTasks \cup Prefix(fs, i)
                          /\ \A g \in File : Held(v, g) = Held(w, g) + In(g, Opened(fs, ok, i))
  <1>0. n \in Nat /\ \A i \in 1 .. n : fs[i] \in File
    OBVIOUS
  <1>8. PICK ws : OpenRun(ok, w, fs, ws)
    BY OpenUnrolls
  <1>1. /\ ws \in [0 .. n -> Work] /\ ws[0] = w /\ ws[n] = OpenEntries(w, fs, ok)
        /\ \A i \in 1 .. n : ws[i] = OpenOne(ok, ws[i - 1], fs[i])
    BY <1>8 DEF OpenRun
  <1>7. Prefix(fs, n) = ToSet(fs) /\ Prefix(fs, 0) = {}
    BY PrefixIs
  <1>9. \A i \in 1 .. n : /\ Prefix(fs, i) = Prefix(fs, i - 1) \cup {fs[i]}
                          /\ fs[i] \notin Prefix(fs, i - 1) /\ fs[i] \notin w.ioTasks
    BY PrefixIs DEF ToSet
  <1> HIDE DEF n
  <1> DEFINE P == {i \in 0 .. n : Is1(ws[i], i)}
  <1>2. 0 \in P
    <2>1. \A g \in File : Held(w, g) = Held(w, g) + In(g, Opened(fs, ok, 0))
      <3>1. \A g : In(g, Opened(fs, ok, 0)) = 0
        BY <1>7 DEF In, Opened
      <3>2. \A g \in File : Held(w, g) \in Nat
        BY HeldType
      <3> QED
        BY <3>1, <3>2
    <2> QED
      BY <1>0, <1>1, <2>1 DEF SameHash
  <1>3. ASSUME NEW i \in 1 .. n, i - 1 \in P
        PROVE  i \in P
    <2> DEFINE u == ws[i - 1]
               v == ws[i]
               f == fs[i]
    <2>0. i \in 0 .. n
      BY <1>0
    <2>1. Is1(u, i - 1) /\ f \in File /\ v = OpenOne(ok, u, f)
      <3>1. Is1(ws[i - 1], i - 1)
        BY <1>3
      <3> HIDE DEF Is1
      <3> QED
        BY <1>0, <1>1, <3>1
    <2>2. /\ Prefix(fs, i) = Prefix(fs, i - 1) \cup {f} /\ f \notin Prefix(fs, i - 1)
          /\ f \notin w.ioTasks
      BY <1>9
    <2> HIDE DEF u, v, f
    <2>3. CASE f \in wait
      <3>1. v = u
        BY <2>1, <2>3 DEF OpenOne
      <3>2. \A g : In(g, Opened(fs, ok, i)) = In(g, Opened(fs, ok, i - 1))
        BY <2>2, <2>3 DEF In, Opened
      <3>3. Is1(v, i)
        BY <2>1, <2>2, <3>1, <3>2
      <3> HIDE DEF Is1
      <3> QED
        BY <2>0, <3>3 DEF v
    <2>4. CASE f \notin wait
      <3>1. /\ v \in Work /\ SameHash(u, v) /\ (IoBal(u) => IoBal(v)) /\ v.ioTasks \subseteq u.ioTasks \cup {f}
            /\ \A g \in File : Held(v, g) = Held(u, g) + Is(g, f)
        <4>1. CASE f \notin ok
          <5>1. Adds(u, v, f)
            BY <2>1, <4>1, MarkFailedIs DEF OpenOne
          <5> QED
            BY <5>1 DEF Adds, SameIo, IoBal
        <4>2. CASE f \in ok /\ f \in empty
          <5>1. v = DispatchBatchWrite(u, f) /\ f \notin u.ioTasks
            BY <2>1, <2>2, <4>2 DEF OpenOne
          <5> QED
            BY <2>1, <5>1, DispatchIs
        <4> QED
          BY <2>4, <4>1, <4>2
      <3>2. \A g : In(g, Opened(fs, ok, i)) = In(g, Opened(fs, ok, i - 1)) + Is(g, f)
        BY <2>2, <2>4 DEF In, Is, Opened
      <3>3. \A g \in File : Held(v, g) = Held(w, g) + In(g, Opened(fs, ok, i))
        <4> TAKE g \in File
        <4>1. Held(w, g) \in Nat
          BY HeldType
        <4>2. /\ Is(g, f) \in {0, 1} /\ In(g, Opened(fs, ok, i - 1)) \in {0, 1}
          BY OneType
        <4>3. /\ Held(v, g) = Held(u, g) + Is(g, f)
              /\ Held(u, g) = Held(w, g) + In(g, Opened(fs, ok, i - 1))
          BY <2>1, <3>1
        <4> QED
          BY <3>2, <4>1, <4>2, <4>3
      <3>4. Is1(v, i)
        BY <2>1, <2>2, <3>1, <3>3 DEF SameHash
      <3> HIDE DEF Is1
      <3> QED
        BY <2>0, <3>4 DEF v
    <2> QED
      BY <2>3, <2>4
  <1> HIDE DEF P
  <1>4. \A i \in 0 .. n : i \in P
    BY <1>0, <1>2, <1>3, UpTo
  <1>5. Is1(ws[n], n)
    BY <1>0, <1>4 DEF P
  <1> QED
    BY <1>1, <1>5, <1>7 DEF Opened

\* v is w with some files of hr moved from the fallback to where they go next.
Resolves(hr, w, v) ==
    /\ v \in Work /\ SameIo(w, v) /\ w.resolved \subseteq v.resolved /\ v.resolved \subseteq hr
    /\ w.scheduled \subseteq v.scheduled /\ v.scheduled \subseteq w.scheduled \cup v.resolved
    /\ v.scheduled \cap (hr \ v.resolved) = {}
    /\ \A g \in File : Held(v, g) + In(g, hr \ v.resolved) = Held(w, g) + In(g, hr \ w.resolved)

LEMMA ResolvesOne ==
    ASSUME NEW hr, NEW w \in Work, NEW u \in Work, NEW f \in File, f \in hr, f \notin w.resolved,
           w.resolved \subseteq hr, w.scheduled \cap (hr \ w.resolved) = {}, SameIo(w, u),
           u.resolved = w.resolved, w.scheduled \subseteq u.scheduled,
           u.scheduled \subseteq w.scheduled \cup {f},
           \A g \in File : Held(u, g) = Held(w, g) + Is(g, f)
    PROVE  Resolves(hr, w, [u EXCEPT !.resolved = @ \cup {f}])
  <1> DEFINE v == [u EXCEPT !.resolved = @ \cup {f}]
  <1>1. /\ v \in Work /\ SameIo(u, v) /\ v.scheduled = u.scheduled
        /\ v.resolved = u.resolved \cup {f} /\ \A g : Held(v, g) = Held(u, g)
    BY ResolvedIs
  <1> HIDE DEF v
  <1>2. ASSUME NEW g \in File
        PROVE  Held(v, g) + In(g, hr \ v.resolved) = Held(w, g) + In(g, hr \ w.resolved)
    <2>1. In(g, hr \ v.resolved) + Is(g, f) = In(g, hr \ w.resolved)
      BY <1>1 DEF In, Is
    <2>2. Held(w, g) \in Nat
      BY HeldType
    <2>3. In(g, hr \ v.resolved) \in {0, 1} /\ Is(g, f) \in {0, 1} /\ In(g, hr \ w.resolved) \in {0, 1}
      BY OneType
    <2>4. Held(v, g) = Held(w, g) + Is(g, f)
      BY <1>1
    <2> DEFINE a == In(g, hr \ v.resolved)
               b == In(g, hr \ w.resolved)
    <2>5. a + Is(g, f) = b /\ a \in {0, 1} /\ b \in {0, 1}
      BY <2>1, <2>3
    <2> HIDE DEF a, b
    <2>6. Held(v, g) + a = Held(w, g) + b
      BY <2>2, <2>3, <2>4, <2>5
    <2> QED
      BY <2>6 DEF a, b
  <1>3. Resolves(hr, w, v)
    BY <1>1, <1>2 DEF Resolves, SameIo
  <1> QED
    BY <1>3 DEF v

LEMMA ResolvesSelf ==
    ASSUME NEW hr, NEW w \in Work, w.resolved \subseteq hr, w.scheduled \cap (hr \ w.resolved) = {}
    PROVE  Resolves(hr, w, w)
  BY DEF Resolves, SameIo

LEMMA ResolvesTrans ==
    ASSUME NEW hr, NEW u, NEW v, NEW w, Resolves(hr, u, v), Resolves(hr, v, w)
    PROVE  Resolves(hr, u, w)
  BY DEF Resolves, SameIo

LEMMA ResolveOneIs ==
    ASSUME NEW hr, NEW same, NEW w \in Work, NEW f \in File, f \in hr,
           w.resolved \subseteq hr, w.scheduled \cap (hr \ w.resolved) = {}
    PROVE  Resolves(hr, w, ResolveOne(same, w, f))
  <1>1. CASE f \in w.resolved \/ ~HashesReady(f)
    BY <1>1, ResolvesSelf DEF ResolveOne
  <1>2. CASE f \notin w.resolved /\ HashesReady(f)
    <2> DEFINE u == IF f \in same THEN Settle(w, f, "unchanged") ELSE ScheduleTransfer(w, f)
    <2>1. /\ u \in Work /\ SameIo(w, u) /\ u.resolved = w.resolved /\ w.scheduled \subseteq u.scheduled
          /\ u.scheduled \subseteq w.scheduled \cup {f}
          /\ \A g \in File : Held(u, g) = Held(w, g) + Is(g, f)
      <3>1. CASE f \in same
        <4>1. Adds(w, Settle(w, f, "unchanged"), f)
          BY SettleIs DEF Verdict
        <4> QED
          BY <3>1, <4>1 DEF Adds, SameHash
      <3>2. CASE f \notin same
        <4>1. f \notin w.scheduled
          BY <1>2
        <4> QED
          BY <3>2, <4>1, ScheduleIs
      <3> QED
        BY <3>1, <3>2
    <2>2. ResolveOne(same, w, f) = [u EXCEPT !.resolved = @ \cup {f}]
      BY <1>2 DEF ResolveOne
    <2> HIDE DEF u
    <2>3. f \notin w.resolved
      BY <1>2
    <2> QED
      BY <2>1, <2>2, <2>3, ResolvesOne
  <1> QED
    BY <1>1, <1>2

LEMMA SweepOneIs ==
    ASSUME NEW hr, NEW w \in Work, NEW f \in File, f \in hr,
           w.resolved \subseteq hr, w.scheduled \cap (hr \ w.resolved) = {}
    PROVE  Resolves(hr, w, SweepOne(w, f)) /\ f \in SweepOne(w, f).resolved
  <1>1. CASE f \in w.resolved
    BY <1>1, ResolvesSelf DEF SweepOne
  <1>2. CASE f \notin w.resolved
    <2> DEFINE u == ScheduleTransfer(w, f)
    <2>1. /\ u \in Work /\ SameIo(w, u) /\ u.resolved = w.resolved /\ w.scheduled \subseteq u.scheduled
          /\ u.scheduled \subseteq w.scheduled \cup {f}
          /\ \A g \in File : Held(u, g) = Held(w, g) + Is(g, f)
      <3>1. f \notin w.scheduled
        BY <1>2
      <3> QED
        BY <3>1, ScheduleIs
    <2>2. SweepOne(w, f) = [u EXCEPT !.resolved = @ \cup {f}]
      BY <1>2 DEF SweepOne
    <2> HIDE DEF u
    <2>3. Resolves(hr, w, [u EXCEPT !.resolved = @ \cup {f}])
      BY <1>2, <2>1, ResolvesOne
    <2> QED
      BY <2>1, <2>2, <2>3, ResolvedIs
  <1> QED
    BY <1>1, <1>2

LEMMA ResolveFallbackIs ==
    ASSUME NEW hr \in SUBSET File, NEW same, NEW w \in Work, NEW fs \in Seq(hr),
           w.resolved \subseteq hr, w.scheduled \cap (hr \ w.resolved) = {}
    PROVE  Resolves(hr, w, ResolveFallback(w, fs, same))
  <1> DEFINE n == Len(fs)
  <1>0. n \in Nat /\ \A i \in 1 .. n : fs[i] \in hr /\ fs[i] \in File
    OBVIOUS
  <1>7. fs \in Seq(File)
    OBVIOUS
  <1>8. PICK ws : ResolveRun(same, w, fs, ws)
    BY <1>7, ResolveUnrolls
  <1>1. /\ ws \in [0 .. n -> Work] /\ ws[0] = w /\ ws[n] = ResolveFallback(w, fs, same)
        /\ \A i \in 1 .. n : ws[i] = ResolveOne(same, ws[i - 1], fs[i])
    BY <1>8 DEF ResolveRun
  <1> HIDE DEF n
  <1> DEFINE P == {i \in 0 .. n : Resolves(hr, w, ws[i])}
  <1>2. 0 \in P
    BY <1>0, <1>1, ResolvesSelf
  <1>3. ASSUME NEW i \in 1 .. n, i - 1 \in P
        PROVE  i \in P
    <2>1. /\ Resolves(hr, w, ws[i - 1]) /\ fs[i] \in File /\ fs[i] \in hr
          /\ ws[i] = ResolveOne(same, ws[i - 1], fs[i])
      BY <1>0, <1>1, <1>3
    <2>2. Resolves(hr, ws[i - 1], ws[i])
      <3>1. /\ ws[i - 1] \in Work /\ ws[i - 1].resolved \subseteq hr
            /\ ws[i - 1].scheduled \cap (hr \ ws[i - 1].resolved) = {}
        BY <2>1 DEF Resolves
      <3>2. Resolves(hr, ws[i - 1], ResolveOne(same, ws[i - 1], fs[i]))
        BY <2>1, <3>1, ResolveOneIs
      <3> QED
        BY <2>1, <3>2
    <2>3. Resolves(hr, w, ws[i]) /\ i \in 0 .. n
      BY <1>0, <2>1, <2>2, ResolvesTrans
    <2> QED
      BY <2>3
  <1> HIDE DEF P
  <1>4. \A i \in 0 .. n : i \in P
    BY <1>0, <1>2, <1>3, UpTo
  <1> QED
    BY <1>0, <1>1, <1>4 DEF P

LEMMA SweepAllIs ==
    ASSUME NEW hr \in SUBSET File, NEW w \in Work, NEW fs \in Seq(hr),
           w.resolved \subseteq hr, w.scheduled \cap (hr \ w.resolved) = {}
    PROVE  Resolves(hr, w, SweepAll(w, fs))
  <1> DEFINE n == Len(fs)
  <1>0. n \in Nat /\ \A i \in 1 .. n : fs[i] \in hr /\ fs[i] \in File
    OBVIOUS
  <1>7. fs \in Seq(File)
    OBVIOUS
  <1>8. PICK ws : SweepRun(w, fs, ws)
    BY <1>7, SweepUnrolls
  <1>1. /\ ws \in [0 .. n -> Work] /\ ws[0] = w /\ ws[n] = SweepAll(w, fs)
        /\ \A i \in 1 .. n : ws[i] = SweepOne(ws[i - 1], fs[i])
    BY <1>8 DEF SweepRun
  <1> HIDE DEF n
  <1> DEFINE P == {i \in 0 .. n : Resolves(hr, w, ws[i])}
  <1>2. 0 \in P
    BY <1>0, <1>1, ResolvesSelf
  <1>3. ASSUME NEW i \in 1 .. n, i - 1 \in P
        PROVE  i \in P
    <2>1. /\ Resolves(hr, w, ws[i - 1]) /\ fs[i] \in File /\ fs[i] \in hr
          /\ ws[i] = SweepOne(ws[i - 1], fs[i])
      BY <1>0, <1>1, <1>3
    <2>2. Resolves(hr, ws[i - 1], ws[i])
      <3>1. /\ ws[i - 1] \in Work /\ ws[i - 1].resolved \subseteq hr
            /\ ws[i - 1].scheduled \cap (hr \ ws[i - 1].resolved) = {}
        BY <2>1 DEF Resolves
      <3>2. Resolves(hr, ws[i - 1], SweepOne(ws[i - 1], fs[i]))
        BY <2>1, <3>1, SweepOneIs
      <3> QED
        BY <2>1, <3>2
    <2>3. Resolves(hr, w, ws[i]) /\ i \in 0 .. n
      BY <1>0, <2>1, <2>2, ResolvesTrans
    <2> QED
      BY <2>3
  <1> HIDE DEF P
  <1>4. \A i \in 0 .. n : i \in P
    BY <1>0, <1>2, <1>3, UpTo
  <1> QED
    BY <1>0, <1>1, <1>4 DEF P

LEMMA WriteAllIs ==
    ASSUME NEW w \in Work, NEW rs \in Seq(w.ioResults), Once(rs)
    PROVE  LET v == WriteAll(w, rs)
           IN  /\ v \in Work /\ SameHash(w, v) /\ v.ioTasks = w.ioTasks
               /\ v.ioResults = w.ioResults \ ToSet(rs)
               /\ (IoBal(w) => IoBal(v)) /\ \A g \in File : Held(v, g) = Held(w, g)
  <1> DEFINE n == Len(rs)
             Is1(v, i) == /\ v \in Work /\ SameHash(w, v) /\ v.ioTasks = w.ioTasks
                          /\ v.ioResults = w.ioResults \ Prefix(rs, i)
                          /\ (IoBal(w) => IoBal(v)) /\ \A g \in File : Held(v, g) = Held(w, g)
  <1>0. n \in Nat /\ \A i \in 1 .. n : rs[i] \in w.ioResults
    OBVIOUS
  <1>7. rs \in Seq(File \X BOOLEAN)
    BY WorkHas
  <1>8. PICK ws : WriteRun(w, rs, ws)
    BY <1>7, WriteUnrolls
  <1>1. /\ ws \in [0 .. n -> Work] /\ ws[0] = w /\ ws[n] = WriteAll(w, rs)
        /\ \A i \in 1 .. n : ws[i] = WriteResult(ws[i - 1], rs[i])
    BY <1>8 DEF WriteRun
  <1>6. Prefix(rs, n) = ToSet(rs) /\ Prefix(rs, 0) = {}
    BY PrefixIs
  <1>9. \A i \in 1 .. n : /\ Prefix(rs, i) = Prefix(rs, i - 1) \cup {rs[i]}
                          /\ rs[i] \notin Prefix(rs, i - 1)
    BY PrefixIs
  <1> HIDE DEF n
  <1> DEFINE P == {i \in 0 .. n : Is1(ws[i], i)}
  <1>2. 0 \in P
    BY <1>0, <1>1, <1>6 DEF SameHash
  <1>3. ASSUME NEW i \in 1 .. n, i - 1 \in P
        PROVE  i \in P
    <2> DEFINE u == ws[i - 1]
               v == ws[i]
               r == rs[i]
    <2>0. i \in 0 .. n
      BY <1>0
    <2>1. Is1(u, i - 1) /\ r \in w.ioResults /\ v = WriteResult(u, r)
      <3>1. Is1(ws[i - 1], i - 1)
        BY <1>3
      <3> HIDE DEF Is1
      <3> QED
        BY <1>0, <1>1, <3>1
    <2>2. Prefix(rs, i) = Prefix(rs, i - 1) \cup {r} /\ r \notin Prefix(rs, i - 1)
      BY <1>9
    <2> HIDE DEF u, v, r
    <2>3. /\ v \in Work /\ SameHash(u, v) /\ v.ioTasks = u.ioTasks
          /\ v.ioResults = u.ioResults \ {r}
          /\ (IoBal(u) => IoBal(v)) /\ \A g \in File : Held(v, g) = Held(u, g)
      <3>1. u \in Work /\ r \in u.ioResults
        BY <2>1, <2>2
      <3> QED
        BY <2>1, <3>1, WriteResultIs
    <2>4. Is1(v, i)
      BY <2>1, <2>2, <2>3 DEF SameHash
    <2> HIDE DEF Is1
    <2> QED
      BY <2>0, <2>4 DEF v
  <1> HIDE DEF P
  <1>4. \A i \in 0 .. n : i \in P
    BY <1>0, <1>2, <1>3, UpTo
  <1>5. Is1(ws[n], n)
    BY <1>0, <1>4 DEF P
  <1> QED
    BY <1>1, <1>5, <1>6

\* The files of a prefix the comparison has decided.
Decided(fs, i) == {f \in Prefix(fs, i) : comparing[f] \in {"TransferNow", "Skip"}}

LEMMA CompareAllIs ==
    ASSUME NEW w \in Work, NEW fs \in Seq(File), Once(fs), ToSet(fs) \cap w.scheduled = {}
    PROVE  LET v == CompareAll(w, fs)
           IN  /\ v \in Work /\ SameIo(w, v) /\ v.resolved = w.resolved
               /\ v.scheduled \subseteq w.scheduled \cup {f \in ToSet(fs) : comparing[f] = "TransferNow"}
               /\ \A g \in File : Held(v, g) = Held(w, g) + In(g, Decided(fs, Len(fs)))
  <1> DEFINE n == Len(fs)
             Is1(v, i) ==
                /\ v \in Work /\ SameIo(w, v) /\ v.resolved = w.resolved
                /\ v.scheduled \subseteq w.scheduled \cup {f \in Prefix(fs, i) : comparing[f] = "TransferNow"}
                /\ \A g \in File : Held(v, g) = Held(w, g) + In(g, Decided(fs, i))
  <1>0. n \in Nat /\ \A i \in 1 .. n : fs[i] \in File
    OBVIOUS
  <1>8. PICK ws : CompareRun(w, fs, ws)
    BY CompareUnrolls
  <1>1. /\ ws \in [0 .. n -> Work] /\ ws[0] = w /\ ws[n] = CompareAll(w, fs)
        /\ \A i \in 1 .. n : ws[i] = CompareOne(ws[i - 1], fs[i])
    BY <1>8 DEF CompareRun
  <1>7. Prefix(fs, n) = ToSet(fs) /\ Prefix(fs, 0) = {}
    BY PrefixIs
  <1>9. \A i \in 1 .. n : /\ Prefix(fs, i) = Prefix(fs, i - 1) \cup {fs[i]}
                          /\ fs[i] \notin Prefix(fs, i - 1) /\ fs[i] \notin w.scheduled
    BY PrefixIs DEF ToSet
  <1> HIDE DEF n
  <1> DEFINE P == {i \in 0 .. n : Is1(ws[i], i)}
  <1>2. 0 \in P
    <2>1. \A g \in File : Held(w, g) = Held(w, g) + In(g, Decided(fs, 0))
      <3>1. \A g : In(g, Decided(fs, 0)) = 0
        BY <1>7 DEF In, Decided
      <3>2. \A g \in File : Held(w, g) \in Nat
        BY HeldType
      <3> QED
        BY <3>1, <3>2
    <2> QED
      BY <1>0, <1>1, <2>1 DEF SameIo
  <1>3. ASSUME NEW i \in 1 .. n, i - 1 \in P
        PROVE  i \in P
    <2> DEFINE u == ws[i - 1]
               v == ws[i]
               f == fs[i]
    <2>0. i \in 0 .. n
      BY <1>0
    <2>1. Is1(u, i - 1) /\ f \in File /\ v = CompareOne(u, f)
      <3>1. Is1(ws[i - 1], i - 1)
        BY <1>3
      <3> HIDE DEF Is1
      <3> QED
        BY <1>0, <1>1, <3>1
    <2>2. /\ Prefix(fs, i) = Prefix(fs, i - 1) \cup {f} /\ f \notin Prefix(fs, i - 1)
          /\ f \notin w.scheduled
      BY <1>9
    <2> HIDE DEF u, v, f
    <2>3. CASE comparing[f] \notin {"TransferNow", "Skip"}
      <3>1. v = u
        BY <2>1, <2>3 DEF CompareOne, CompareResult
      <3>2. \A g : In(g, Decided(fs, i)) = In(g, Decided(fs, i - 1))
        BY <2>2, <2>3 DEF In, Decided
      <3>3. Is1(v, i)
        BY <2>1, <2>2, <3>1, <3>2
      <3> HIDE DEF Is1
      <3> QED
        BY <2>0, <3>3 DEF v
    <2>4. CASE comparing[f] \in {"TransferNow", "Skip"}
      <3>1. /\ v \in Work /\ SameIo(u, v) /\ v.resolved = u.resolved
            /\ v.scheduled \subseteq u.scheduled \cup {x \in {f} : comparing[f] = "TransferNow"}
            /\ \A g \in File : Held(v, g) = Held(u, g) + Is(g, f)
        <4>1. CASE comparing[f] = "Skip"
          <5>1. v = Settle(u, f, "unchanged")
            BY <2>1, <4>1 DEF CompareOne, CompareResult
          <5>2. Adds(u, v, f)
            BY <2>1, <5>1, SettleIs DEF Verdict
          <5> QED
            BY <5>2 DEF Adds, SameHash
        <4>2. CASE comparing[f] = "TransferNow"
          <5>1. v = ScheduleTransfer(u, f) /\ f \notin u.scheduled
            BY <2>1, <2>2, <4>2 DEF CompareOne, CompareResult
          <5> QED
            BY <2>1, <4>2, <5>1, ScheduleIs
        <4> QED
          BY <2>4, <4>1, <4>2
      <3>2. \A g : In(g, Decided(fs, i)) = In(g, Decided(fs, i - 1)) + Is(g, f)
        BY <2>2, <2>4 DEF In, Is, Decided
      <3>3. \A g \in File : Held(v, g) = Held(w, g) + In(g, Decided(fs, i))
        <4> TAKE g \in File
        <4>1. Held(w, g) \in Nat
          BY HeldType
        <4>2. Is(g, f) \in {0, 1} /\ In(g, Decided(fs, i - 1)) \in {0, 1}
          BY OneType
        <4>3. /\ Held(v, g) = Held(u, g) + Is(g, f)
              /\ Held(u, g) = Held(w, g) + In(g, Decided(fs, i - 1))
          BY <2>1, <3>1
        <4> QED
          BY <3>2, <4>1, <4>2, <4>3
      <3>4. v.scheduled \subseteq w.scheduled \cup {x \in Prefix(fs, i) : comparing[x] = "TransferNow"}
        BY <2>1, <2>2, <3>1
      <3>5. Is1(v, i)
        BY <2>1, <3>1, <3>3, <3>4 DEF SameIo
      <3> HIDE DEF Is1
      <3> QED
        BY <2>0, <3>5 DEF v
    <2> QED
      BY <2>3, <2>4
  <1> HIDE DEF P
  <1>4. \A i \in 0 .. n : i \in P
    BY <1>0, <1>2, <1>3, UpTo
  <1>5. Is1(ws[n], n)
    BY <1>0, <1>4 DEF P
  <1> QED
    BY <1>1, <1>5, <1>7 DEF n

LEMMA OnceAppend ==
    ASSUME NEW S, NEW s \in Seq(S), NEW x \in S, Once(s), x \notin ToSet(s)
    PROVE  Once(Append(s, x)) /\ ToSet(Append(s, x)) = ToSet(s) \cup {x}
  <1> DEFINE t == Append(s, x)
             n == Len(s)
  <1>1. /\ n \in Nat /\ DOMAIN s = 1 .. n /\ DOMAIN t = 1 .. (n + 1) /\ t[n + 1] = x
        /\ \A i \in 1 .. n : t[i] = s[i]
    OBVIOUS
  <1> HIDE DEF t, n
  <1>2. \A i \in 1 .. (n + 1) : i = n + 1 \/ i \in 1 .. n
    BY <1>1
  <1>3. \A i \in 1 .. n : i \in 1 .. (n + 1)
    BY <1>1
  <1>4. n + 1 \in 1 .. (n + 1)
    BY <1>1
  <1>5. Once(t)
    BY <1>1, <1>2 DEF Once, ToSet
  <1>6. ToSet(t) = ToSet(s) \cup {x}
    BY <1>1, <1>2, <1>3, <1>4 DEF ToSet
  <1> QED
    BY <1>5, <1>6 DEF t

LEMMA UpToSize ==
    ASSUME NEW n \in Nat
    PROVE  IsFiniteSet(1 .. n) /\ Cardinality(1 .. n) = n
  <1> DEFINE c == Cardinality(1 .. n)
  <1>1. 1 \in Int /\ n \in Int
    OBVIOUS
  <1>2. IsFiniteSet(1 .. n) /\ c = IF 1 > n THEN 0 ELSE n - 1 + 1
    BY <1>1, FS_Interval
  <1> HIDE DEF c
  <1>3. c = n
    BY <1>2
  <1> QED
    BY <1>2, <1>3 DEF c

LEMMA SetWithinLen ==
    ASSUME NEW S, NEW s \in Seq(S)
    PROVE  IsFiniteSet(ToSet(s)) /\ Cardinality(ToSet(s)) <= Len(s)
  <1>0. Len(s) \in Nat /\ DOMAIN s = 1 .. Len(s)
    OBVIOUS
  <1>1. IsFiniteSet(1 .. Len(s)) /\ Cardinality(1 .. Len(s)) = Len(s)
    BY <1>0, UpToSize
  <1>2. s \in Surjection(1 .. Len(s), ToSet(s))
    BY <1>0 DEF Surjection, ToSet
  <1> QED
    BY <1>1, <1>2, FS_Surjection

LEMMA WaitingIs ==
    ASSUME NEW fs \in Seq(Small), NEW ok, Once(fs), ok \subseteq ToSet(fs)
    PROVE  LET v == WaitingEntries(fs, ok)
           IN  /\ v \in Seq(Small) /\ Once(v) /\ ToSet(v) = ok \ empty
               /\ Cardinality(ok \ empty) <= Len(v)
  <1> DEFINE n == Len(fs)
             e == <<>>
             wait == ok \ empty
             Is1(v, i) == v \in Seq(Small) /\ Once(v) /\ ToSet(v) = Prefix(fs, i) \cap wait
  <1>0. n \in Nat /\ (\A i \in 1 .. n : fs[i] \in Small) /\ e \in Seq(Small) /\ Once(e) /\ ToSet(e) = {}
    BY DEF Once, ToSet
  <1>6. WaitAll(ok, e, fs) = WaitingEntries(fs, ok)
    BY DEF WaitAll, WaitingEntries
  <1> HIDE DEF e
  <1>8. PICK ws : WaitRun(ok, e, fs, ws)
    BY <1>0, WaitUnrolls
  <1>1. /\ ws \in [0 .. n -> Seq(Small)] /\ ws[0] = e /\ ws[n] = WaitAll(ok, e, fs)
        /\ \A i \in 1 .. n : ws[i] = WaitOne(ok, ws[i - 1], fs[i])
    BY <1>8 DEF WaitRun
  <1>7. Prefix(fs, n) = ToSet(fs) /\ Prefix(fs, 0) = {}
    BY PrefixIs
  <1>9. \A i \in 1 .. n : /\ Prefix(fs, i) = Prefix(fs, i - 1) \cup {fs[i]}
                          /\ fs[i] \notin Prefix(fs, i - 1)
    BY PrefixIs
  <1> HIDE DEF n
  <1> DEFINE P == {i \in 0 .. n : Is1(ws[i], i)}
  <1>2. 0 \in P
    BY <1>0, <1>1, <1>7
  <1>3. ASSUME NEW i \in 1 .. n, i - 1 \in P
        PROVE  i \in P
    <2> DEFINE u == ws[i - 1]
               v == ws[i]
               f == fs[i]
    <2>0. i \in 0 .. n
      BY <1>0
    <2>1. Is1(u, i - 1) /\ f \in Small /\ v = WaitOne(ok, u, f)
      <3>1. Is1(ws[i - 1], i - 1)
        BY <1>3
      <3> HIDE DEF Is1
      <3> QED
        BY <1>0, <1>1, <3>1
    <2>2. Prefix(fs, i) = Prefix(fs, i - 1) \cup {f} /\ f \notin Prefix(fs, i - 1)
      BY <1>9
    <2> HIDE DEF u, v, f
    <2>3. CASE f \in wait
      <3>1. v = Append(u, f)
        BY <2>1, <2>3 DEF WaitOne
      <3>2. u \in Seq(Small) /\ Once(u) /\ f \notin ToSet(u)
        BY <2>1, <2>2
      <3>3. Once(v) /\ ToSet(v) = ToSet(u) \cup {f}
        BY <2>1, <3>1, <3>2, OnceAppend
      <3>4. v \in Seq(Small)
        BY <2>1, <3>1, <3>2
      <3>5. Is1(v, i)
        BY <2>1, <2>2, <2>3, <3>3, <3>4
      <3> HIDE DEF Is1
      <3> QED
        BY <2>0, <3>5 DEF v
    <2>4. CASE f \notin wait
      <3>1. v = u
        BY <2>1, <2>4 DEF WaitOne
      <3>5. Is1(v, i)
        BY <2>1, <2>2, <2>4, <3>1
      <3> HIDE DEF Is1
      <3> QED
        BY <2>0, <3>5 DEF v
    <2> QED
      BY <2>3, <2>4
  <1> HIDE DEF P
  <1>4. \A i \in 0 .. n : i \in P
    BY <1>0, <1>2, <1>3, UpTo
  <1>5. Is1(ws[n], n)
    BY <1>0, <1>4 DEF P
  <1>10. ws[n] \in Seq(Small) /\ Once(ws[n]) /\ ToSet(ws[n]) = ok \ empty
    BY <1>5, <1>7
  <1>11. Cardinality(ok \ empty) <= Len(ws[n])
    BY <1>10, SetWithinLen
  <1> QED
    BY <1>1, <1>6, <1>10, <1>11

-----------------------------------------------------------------------------
(* What failoverScan queues again.                                         *)

LEMMA CardSplit ==
    ASSUME NEW S, IsFiniteSet(S), NEW T
    PROVE  /\ Cardinality(S) \in Nat /\ Cardinality(S \ T) \in Nat /\ Cardinality(S \cap T) \in Nat
           /\ IsFiniteSet(S \ T) /\ IsFiniteSet(S \cap T)
           /\ Cardinality(S) = Cardinality(S \ T) + Cardinality(S \cap T)
  <1>1. IsFiniteSet(S \ T) /\ Cardinality(S \ T) = Cardinality(S) - Cardinality(S \cap T)
    BY FS_Difference
  <1>2. IsFiniteSet(S \cap T)
    BY FS_Intersection
  <1>3. Cardinality(S) \in Nat /\ Cardinality(S \ T) \in Nat /\ Cardinality(S \cap T) \in Nat
    BY <1>1, <1>2, FS_CardinalityType
  <1> QED
    BY <1>1, <1>2, <1>3

\* The places in an enumeration of S that hold elements of T.
LEMMA CountIn ==
    ASSUME NEW S, IsFiniteSet(S), NEW s \in SetToSeqs(S), NEW T \in SUBSET S
    PROVE  Cardinality({i \in DOMAIN s : s[i] \in T}) = Cardinality(T)
  <1> DEFINE D == {i \in DOMAIN s : s[i] \in T}
             h == [i \in D |-> s[i]]
  <1>1. s \in Seq(S) /\ Once(s) /\ ToSet(s) = S
    BY SeqsOf
  <1>2. h \in [D -> T] /\ \A i, j \in D : h[i] = h[j] => i = j
    BY <1>1 DEF Once
  <1>3. \A y \in T : \E i \in D : h[i] = y
    BY <1>1 DEF ToSet
  <1>4. h \in Bijection(D, T)
    BY <1>2, <1>3 DEF Bijection, Injection, Surjection, IsInjective
  <1>5. IsFiniteSet(D)
    <2>1. Len(s) \in Nat /\ DOMAIN s = 1 .. Len(s)
      BY <1>1
    <2>2. IsFiniteSet(1 .. Len(s)) /\ D \in SUBSET (1 .. Len(s))
      BY <2>1, FS_Interval
    <2> QED
      BY <2>2, FS_Subset
  <1> QED
    BY <1>4, <1>5, FS_Bijection DEF ExistsBijection

\* Concatenation goes through the prefixes' concatenations.
LEMMA FlattenRuns ==
    ASSUME NEW S, NEW seqs \in Seq(Seq(S)), Len(seqs) # 0
    PROVE  \E ws : /\ ws \in [1 .. Len(seqs) -> Seq(S)] /\ ws[Len(seqs)] = FlattenSeq(seqs)
                   /\ ws[1] = seqs[1]
                   /\ \A i \in 2 .. Len(seqs) : ws[i] = ws[i - 1] \o seqs[i]
  <1> DEFINE n == Len(seqs)
             Def(h) == [i \in 1 .. Len(seqs) |-> IF i = 1 THEN seqs[i] ELSE h[i - 1] \o seqs[i]]
             iter == CHOOSE h : h = Def(h)
             Good(m, g) == /\ g \in [1 .. m -> Seq(S)]
                           /\ \A i \in 1 .. m : g[i] = IF i = 1 THEN seqs[i] ELSE g[i - 1] \o seqs[i]
             P == {m \in 0 .. n : \E g : Good(m, g)}
  <1>0. n \in Nat \ {0} /\ n = Len(seqs) /\ \A i \in 1 .. n : seqs[i] \in Seq(S)
    OBVIOUS
  <1>9. iter[Len(seqs)] = FlattenSeq(seqs)
    BY DEF FlattenSeq
  <1> HIDE DEF n
  <1>1. 0 \in P
    <2> DEFINE g == [i \in 1 .. 0 |-> <<>>]
    <2>1. Good(0, g)
      OBVIOUS
    <2> HIDE DEF Good, g
    <2> QED
      BY <1>0, <2>1
  <1>2. ASSUME NEW m \in 1 .. n, m - 1 \in P
        PROVE  m \in P
    <2>1. PICK g : Good(m - 1, g)
      BY <1>2
    <2> DEFINE x == IF m = 1 THEN seqs[m] ELSE g[m - 1] \o seqs[m]
               h == [i \in 1 .. m |-> IF i = m THEN x ELSE g[i]]
    <2>2. m \in Nat /\ m \in 1 .. m /\ \A i \in 1 .. m : i = m \/ (i \in 1 .. (m - 1) /\ i # m)
      BY <1>0
    <2>6. \A i \in 1 .. m : i # 1 => i - 1 \in 1 .. (m - 1) /\ i - 1 \in 1 .. m /\ i - 1 # m
      BY <2>2
    <2>3. x \in Seq(S)
      <3>1. CASE m = 1
        BY <1>0, <3>1
      <3>2. CASE m # 1
        <4>1. g[m - 1] \in Seq(S) /\ seqs[m] \in Seq(S)
          BY <1>0, <2>1, <2>2, <2>6, <3>2
        <4> QED
          BY <3>2, <4>1
      <3> QED
        BY <3>1, <3>2
    <2>9. \A i \in 1 .. (m - 1) : i \in 1 .. m /\ i # m
      BY <2>2
    <2>7. h[m] = x /\ \A i \in 1 .. (m - 1) : i \in 1 .. m /\ h[i] = g[i]
      <3> HIDE DEF x
      <3> QED
        BY <2>2, <2>9
    <2>4. h \in [1 .. m -> Seq(S)]
      BY <2>1, <2>2, <2>3
    <2>5. ASSUME NEW i \in 1 .. m
          PROVE  h[i] = IF i = 1 THEN seqs[i] ELSE h[i - 1] \o seqs[i]
      <3>1. CASE i = m
        BY <2>6, <2>7, <3>1
      <3>2. CASE i # m
        <4>1. i \in 1 .. (m - 1)
          BY <2>2, <3>2
        <4> HIDE DEF h
        <4>2. i # 1 => h[i - 1] = g[i - 1]
          BY <2>6, <2>7
        <4> QED
          BY <2>1, <2>7, <4>1, <4>2
      <3> QED
        BY <3>1, <3>2
    <2>8. Good(m, h)
      BY <2>4, <2>5
    <2> HIDE DEF Good, h
    <2> QED
      BY <1>0, <2>8
  <1> HIDE DEF P
  <1>3. \A i \in 0 .. n : i \in P
    BY <1>0, <1>1, <1>2, UpTo
  <1>4. PICK g : Good(n, g)
    <2>1. n \in P
      BY <1>0, <1>3
    <2> HIDE DEF Good
    <2> QED
      BY <2>1 DEF P
  <1>5. g = Def(g)
    <2>1. g = [i \in 1 .. n |-> g[i]]
      BY <1>4
    <2> QED
      BY <1>0, <1>4, <2>1
  <1>6. iter = Def(iter)
    <2> HIDE DEF Def
    <2> QED
      BY <1>5
  <1> HIDE DEF iter
  <1>7. \A i \in 1 .. n : iter[i] = IF i = 1 THEN seqs[i] ELSE iter[i - 1] \o seqs[i]
    BY <1>0, <1>6
  <1>8. DOMAIN iter = 1 .. n /\ iter = [i \in 1 .. n |-> iter[i]]
    BY <1>0, <1>6
  <1> HIDE DEF Def
  <1> DEFINE Q == {i \in 0 .. n : i = 0 \/ iter[i] \in Seq(S)}
  <1>10. 0 \in Q
    BY <1>0
  <1>11. ASSUME NEW i \in 1 .. n, i - 1 \in Q
         PROVE  i \in Q
    <2>1. i \in 0 .. n /\ seqs[i] \in Seq(S) /\ (i # 1 => i - 1 # 0)
      BY <1>0
    <2>2. i # 1 => iter[i - 1] \in Seq(S)
      BY <1>11, <2>1
    <2>3. iter[i] \in Seq(S)
      <3>1. CASE i = 1
        BY <1>7, <2>1, <3>1
      <3>2. CASE i # 1
        <4>1. iter[i] = iter[i - 1] \o seqs[i]
          BY <1>7, <3>2
        <4>2. iter[i - 1] \o seqs[i] \in Seq(S)
          BY <2>1, <2>2, <3>2
        <4> QED
          BY <4>1, <4>2
      <3> QED
        BY <3>1, <3>2
    <2> QED
      BY <2>1, <2>3
  <1> HIDE DEF Q
  <1>12. \A i \in 0 .. n : i \in Q
    BY <1>0, <1>10, <1>11, UpTo
  <1>13. \A i \in 1 .. n : iter[i] \in Seq(S)
    BY <1>0, <1>12 DEF Q
  <1>14. iter \in [1 .. n -> Seq(S)]
    BY <1>8, <1>13
  <1>16. 1 \in 1 .. n /\ \A i \in 2 .. n : i \in 1 .. n /\ i # 1
    BY <1>0
  <1>15. iter[1] = seqs[1] /\ \A i \in 2 .. n : iter[i] = iter[i - 1] \o seqs[i]
    BY <1>7, <1>16
  <1> QED
    BY <1>0, <1>9, <1>14, <1>15

LEMMA FlattenIs ==
    ASSUME NEW S, NEW seqs \in Seq(Seq(S)), \A i \in DOMAIN seqs : Once(seqs[i])
    PROVE  /\ FlattenSeq(seqs) \in Seq(S)
           /\ \A x : Occurrences(x, FlattenSeq(seqs))
                        = Cardinality({i \in DOMAIN seqs : x \in ToSet(seqs[i])})
  <1>1. CASE Len(seqs) = 0
    <2>1. seqs = <<>> /\ FlattenSeq(seqs) = <<>> /\ <<>> \in Seq(S)
      BY <1>1 DEF FlattenSeq
    <2>2. \A x : {i \in DOMAIN seqs : x \in ToSet(seqs[i])} = {}
      BY <2>1
    <2> QED
      BY <2>1, <2>2, OccEmpty, FS_EmptySet
  <1>2. CASE Len(seqs) # 0
    <2> DEFINE n == Len(seqs)
               C(x, i) == {j \in 1 .. i : x \in ToSet(seqs[j])}
    <2>0. n \in Nat \ {0} /\ n = Len(seqs) /\ DOMAIN seqs = 1 .. n /\ \A i \in 1 .. n : seqs[i] \in Seq(S)
      BY <1>2
    <2>1. PICK ws : /\ ws \in [1 .. n -> Seq(S)] /\ ws[n] = FlattenSeq(seqs)
                    /\ ws[1] = seqs[1]
                    /\ \A i \in 2 .. n : ws[i] = ws[i - 1] \o seqs[i]
      BY <1>2, FlattenRuns
    <2> HIDE DEF n
    <2>2. ASSUME NEW x, NEW i \in 1 .. n
          PROVE  /\ IsFiniteSet(C(x, i)) /\ Cardinality(C(x, i)) \in Nat /\ C(x, 0) = {}
                 /\ Cardinality(C(x, 0)) = 0 /\ Cardinality(C(x, i - 1)) \in Nat
                 /\ Cardinality(C(x, i)) = Cardinality(C(x, i - 1)) + Occurrences(x, seqs[i])
      <3>1. i \in Int /\ i - 1 \in Int /\ IsFiniteSet(1 .. i) /\ IsFiniteSet(1 .. (i - 1))
        BY <2>0, FS_Interval
      <3>2. C(x, i) \in SUBSET (1 .. i) /\ C(x, i - 1) \in SUBSET (1 .. (i - 1)) /\ C(x, 0) = {}
        OBVIOUS
      <3>3. IsFiniteSet(C(x, i)) /\ IsFiniteSet(C(x, i - 1))
        BY <3>1, <3>2, FS_Subset
      <3>4. Cardinality(C(x, i)) \in Nat /\ Cardinality(C(x, i - 1)) \in Nat
        BY <3>3, FS_CardinalityType
      <3>5. Occurrences(x, seqs[i]) = In(x, ToSet(seqs[i]))
        <4>1. seqs[i] \in Seq(S) /\ Once(seqs[i])
          BY <2>0
        <4> QED
          BY <4>1, OccOnce
      <3>6. i \notin C(x, i - 1) /\ C(x, i) = C(x, i - 1) \cup {j \in {i} : x \in ToSet(seqs[j])}
        BY <2>0
      <3>7. CASE x \in ToSet(seqs[i])
        <4>1. C(x, i) = C(x, i - 1) \cup {i} /\ i \notin C(x, i - 1)
          BY <3>6, <3>7
        <4> HIDE DEF C
        <4>2. Cardinality(C(x, i)) = Cardinality(C(x, i - 1)) + 1
          BY <3>3, <4>1, FS_AddElement
        <4>3. In(x, ToSet(seqs[i])) = 1
          BY <3>7 DEF In
        <4> QED
          BY <3>2, <3>3, <3>4, <3>5, <4>2, <4>3, FS_EmptySet
      <3>8. CASE x \notin ToSet(seqs[i])
        <4>1. C(x, i) = C(x, i - 1)
          BY <3>6, <3>8
        <4> HIDE DEF C
        <4>3. In(x, ToSet(seqs[i])) = 0
          BY <3>8 DEF In
        <4>4. Cardinality(C(x, i)) = Cardinality(C(x, i - 1)) + Occurrences(x, seqs[i])
          BY <3>4, <3>5, <4>1, <4>3
        <4> QED
          BY <3>2, <3>3, <3>4, <4>4, FS_EmptySet
      <3> QED
        BY <3>7, <3>8
    <2> HIDE DEF C
    <2>3. ASSUME NEW x
          PROVE  Occurrences(x, ws[n]) = Cardinality(C(x, n))
      <3> DEFINE P == {i \in 0 .. n : i = 0 \/ Occurrences(x, ws[i]) = Cardinality(C(x, i))}
      <3>1. 0 \in P
        BY <2>0
      <3>2. ASSUME NEW i \in 1 .. n, i - 1 \in P
            PROVE  i \in P
        <4>1. /\ IsFiniteSet(C(x, i)) /\ Cardinality(C(x, i)) \in Nat /\ C(x, 0) = {}
              /\ Cardinality(C(x, 0)) = 0 /\ Cardinality(C(x, i - 1)) \in Nat
              /\ Cardinality(C(x, i)) = Cardinality(C(x, i - 1)) + Occurrences(x, seqs[i])
          BY <2>2
        <4>4. i \in 0 .. n /\ seqs[i] \in Seq(S)
          BY <2>0
        <4>2. i \in 0 .. n /\ seqs[i] \in Seq(S) /\ Occurrences(x, seqs[i]) \in Nat
          BY <4>4, OccType
        <4>3. Occurrences(x, ws[i]) = Cardinality(C(x, i))
          <5>1. CASE i = 1
            BY <2>1, <4>1, <4>2, <5>1
          <5>2. CASE i # 1
            <6>4. i \in 2 .. n /\ i - 1 \in 1 .. n /\ i - 1 # 0
              BY <2>0, <5>2
            <6>1. ws[i] = ws[i - 1] \o seqs[i] /\ ws[i - 1] \in Seq(S) /\ i - 1 # 0
              BY <2>1, <6>4
            <6>2. Occurrences(x, ws[i - 1]) = Cardinality(C(x, i - 1))
              BY <3>2, <6>1
            <6>3. Occurrences(x, ws[i - 1] \o seqs[i]) = Occurrences(x, ws[i - 1]) + Occurrences(x, seqs[i])
              BY <4>2, <6>1, OccConcat
            <6> QED
              BY <4>1, <6>1, <6>2, <6>3
          <5> QED
            BY <5>1, <5>2
        <4> QED
          BY <4>2, <4>3
      <3> HIDE DEF P
      <3>3. \A i \in 0 .. n : i \in P
        BY <2>0, <3>1, <3>2, UpTo
      <3> QED
        BY <2>0, <3>3 DEF P
    <2>4. \A x : {i \in DOMAIN seqs : x \in ToSet(seqs[i])} = C(x, n)
      BY <2>0 DEF C
    <2>5. ws[n] \in Seq(S)
      BY <2>0, <2>1
    <2> QED
      BY <2>1, <2>3, <2>4, <2>5
  <1> QED
    BY <1>1, <1>2

-----------------------------------------------------------------------------
(* Frames and requests.                                                    *)

LEMMA FrameIs ==
    ASSUME NEW m \in Frames
    PROVE  /\ OnStream(m) => /\ m.lane \in Lane /\ m.sid \in Nat /\ Key(m) \in Lane \X Nat
                             /\ Key(m)[1] = m.lane /\ Key(m)[2] = m.sid
           /\ m.type = "FileBatchOpen" => m.files \in Seq(Small) /\ m.ok \subseteq Small
           /\ OnStream(m) \/ m.type \in {"HashResponse", "ManifestEntry", "ManifestEnd"}
           /\ OnStream(m) <=> m \in PlainFrame \cup Header
  BY DEF Frames, PlainFrame, Header, HashAnswer, EntryFrame, EndFrame, OnStream, StreamTypes, Key

LEMMA RequestIs ==
    ASSUME NEW r \in StreamRequest
    PROVE  /\ r.type \in {"FileOpen", "FileBatchOpen", "batch"}
           /\ r.lane \in Lane /\ r.sid \in Nat /\ Key(r) \in Lane \X Nat
           /\ Key(r)[1] = r.lane /\ Key(r)[2] = r.sid
           /\ r.type = "batch" => r.chunks \in Nat
           /\ r.type = "FileBatchOpen" => r.files \in Seq(Small)
  BY DEF StreamRequest, FileRequest, BatchRequest, BatchRest, Key

LEMMA ChunkIs ==
    ASSUME NEW m \in Frames, NEW k \in Lane \X Nat
    PROVE  m = ChunkOf(k) <=> m.type = "FileBatchChunk" /\ Key(m) = k
  <1>1. ASSUME m = ChunkOf(k) PROVE m.type = "FileBatchChunk" /\ Key(m) = k
    BY <1>1 DEF ChunkOf, Key
  <1>2. ASSUME m.type = "FileBatchChunk", Key(m) = k PROVE m = ChunkOf(k)
    <2>1. m \in PlainFrame
      BY <1>2, FrameIs DEF OnStream, StreamTypes, Header
    <2>2. m = [type |-> m.type, lane |-> m.lane, sid |-> m.sid]
      BY <2>1 DEF PlainFrame
    <2>3. k[1] = m.lane /\ k[2] = m.sid
      BY <1>2 DEF Key
    <2> QED
      BY <1>2, <2>2, <2>3 DEF ChunkOf
  <1> QED
    BY <1>1, <1>2

LEMMA AppendIs ==
    ASSUME NEW S, NEW s \in Seq(S), NEW m \in S
    PROVE  LET t == Append(s, m)
               z == Len(s) + 1
           IN  /\ t \in Seq(S) /\ z \in DOMAIN t /\ t[z] = m /\ z \in Nat
               /\ \A i \in DOMAIN s : i \in DOMAIN t /\ t[i] = s[i] /\ i < z /\ i \in Nat
               /\ \A i \in DOMAIN t : i \in DOMAIN s \/ i = z
  OBVIOUS

LEMMA ConcatIs ==
    ASSUME NEW S, NEW s \in Seq(S), NEW t \in Seq(S)
    PROVE  /\ s \o t \in Seq(S) /\ DOMAIN s \subseteq DOMAIN (s \o t)
           /\ \A i \in DOMAIN s : (s \o t)[i] = s[i]
           /\ \A i \in DOMAIN (s \o t) \ DOMAIN s : \E j \in DOMAIN t : (s \o t)[i] = t[j]
  <1>1. /\ Len(s) \in Nat /\ Len(t) \in Nat /\ DOMAIN s = 1 .. Len(s) /\ DOMAIN t = 1 .. Len(t)
        /\ DOMAIN (s \o t) = 1 .. (Len(s) + Len(t)) /\ s \o t \in Seq(S)
        /\ \A i \in 1 .. Len(s) : (s \o t)[i] = s[i]
        /\ \A i \in (Len(s) + 1) .. (Len(s) + Len(t)) : (s \o t)[i] = t[i - Len(s)]
    OBVIOUS
  <1>2. \A i \in DOMAIN (s \o t) \ DOMAIN s : i - Len(s) \in DOMAIN t /\ (s \o t)[i] = t[i - Len(s)]
    BY <1>1
  <1>3. DOMAIN s \subseteq DOMAIN (s \o t)
    BY <1>1
  <1> QED
    BY <1>1, <1>2, <1>3

LEMMA TailIs ==
    ASSUME NEW S, NEW s \in Seq(S), s # <<>>
    PROVE  LET t == Tail(s)
           IN  /\ t \in Seq(S) /\ Head(s) = s[1] /\ 1 \in DOMAIN s /\ s[1] \in S
               /\ \A i \in DOMAIN t : i + 1 \in DOMAIN s /\ t[i] = s[i + 1] /\ i \in Nat /\ 1 < i + 1
               /\ \A i \in DOMAIN s : i = 1 \/ i - 1 \in DOMAIN t
  <1>1. /\ Len(s) \in Nat \ {0} /\ DOMAIN s = 1 .. Len(s) /\ Tail(s) \in Seq(S)
        /\ DOMAIN Tail(s) = 1 .. (Len(s) - 1) /\ Head(s) = s[1] /\ s[1] \in S
        /\ \A i \in 1 .. (Len(s) - 1) : Tail(s)[i] = s[i + 1]
    OBVIOUS
  <1> QED
    BY <1>1

-----------------------------------------------------------------------------
(* Steps of the network that do not touch streams.                         *)

\* Frames that are not of a stream, at the end.
LEMMA NetOther ==
    ASSUME NEW e, NEW q, NEW s, NEW d, NEW b, NEW h, NEW n, Net(e, q, s, d, b, h, n),
           NEW t \in Seq(Frames), \A i \in DOMAIN t : ~OnStream(t[i])
    PROVE  Net(e, q, s \o t, d, b, h, n)
  <1> DEFINE u == s \o t
  <1>0. s \in Seq(Frames) /\ DOMAIN b \subseteq Lane \X Nat
    BY DEF Net, NetType
  <1>1. /\ u \in Seq(Frames) /\ DOMAIN s \subseteq DOMAIN u /\ \A i \in DOMAIN s : u[i] = s[i]
        /\ \A i \in DOMAIN u \ DOMAIN s : \E j \in DOMAIN t : u[i] = t[j]
    BY <1>0, ConcatIs
  <1>2. \A i \in DOMAIN u \ DOMAIN s : ~OnStream(u[i]) /\ u[i].type \notin StreamTypes
    BY <1>1 DEF OnStream
  <1>3. ASSUME NEW k \in DOMAIN b
        PROVE  Occurrences(ChunkOf(k), u) = Occurrences(ChunkOf(k), s)
    <2>1. \A i \in DOMAIN t : t[i] # ChunkOf(k)
      BY DEF ChunkOf, OnStream, StreamTypes
    <2>2. Occurrences(ChunkOf(k), t) = 0 /\ Occurrences(ChunkOf(k), s) \in Nat
      BY <1>0, <2>1, OccNone, OccType
    <2>3. Occurrences(ChunkOf(k), s \o t) = Occurrences(ChunkOf(k), s) + Occurrences(ChunkOf(k), t)
      BY <1>0, OccConcat
    <2> QED
      BY <2>2, <2>3
  <1> HIDE DEF u
  <1>4. NetType(q, u, d, b)
    BY <1>1, <1>2 DEF Net, NetType, StreamTypes
  <1>5. IdsFresh(q, u, d, b, n)
    BY <1>1, <1>2 DEF Net, IdsFresh
  <1>6. AnswersKnown(q, u, d, b, h)
    BY <1>1, <1>2 DEF Net, AnswersKnown, StreamTypes
  <1>7. Grammar(q, u)
    BY <1>1, <1>2 DEF Net, Grammar
  <1>8. HeaderFirst(q, u, b)
    <2>1. \A k : \A i \in DOMAIN u : HeaderAt(u, k, i) <=> i \in DOMAIN s /\ HeaderAt(s, k, i)
      BY <1>1, <1>2 DEF HeaderAt, StreamTypes
    <2> QED
      BY <1>1, <1>2, <2>1 DEF Net, HeaderFirst
  <1>9. ChunksFit(e, q, u, b)
    <2>1. \A k : \A i \in DOMAIN u : HeaderAt(u, k, i) => i \in DOMAIN s /\ HeaderAt(s, k, i) /\ u[i] = s[i]
      BY <1>1, <1>2 DEF HeaderAt, StreamTypes
    <2> QED
      BY <1>3, <2>1 DEF Net, ChunksFit, Fits
  <1>10. Net(e, q, u, d, b, h, n)
    BY <1>4, <1>5, <1>6, <1>7, <1>8, <1>9 DEF Net
  <1> QED
    BY <1>10 DEF u

\* A lane fails.
LEMMA NetDies ==
    ASSUME NEW e, NEW q, NEW s, NEW d, NEW b, NEW h, NEW n, Net(e, q, s, d, b, h, n),
           NEW g \in [Lane -> BOOLEAN], \A l \in Lane : g[l] => h[l]
    PROVE  Net(e, q, s, d, b, g, n)
  <1>1. \A r \in q : r.lane \in Lane
    BY RequestIs DEF Net, NetType
  <1>2. \A i \in DOMAIN s : OnStream(s[i]) => s[i].lane \in Lane
    BY FrameIs DEF Net, NetType
  <1>3. AnswersKnown(q, s, d, b, g)
    BY <1>1, <1>2 DEF Net, AnswersKnown, OnStream, StreamTypes
  <1> QED
    BY <1>3 DEF Net

\* A stream id is skipped.
LEMMA NetSkips ==
    ASSUME NEW e, NEW q, NEW s, NEW d, NEW b, NEW h, NEW n \in [Lane -> Nat],
           Net(e, q, s, d, b, h, n), NEW l \in Lane
    PROVE  Net(e, q, s, d, b, h, [n EXCEPT ![l] = @ + 1])
  <1> DEFINE m == [n EXCEPT ![l] = @ + 1]
  <1>0. \A x \in Lane : n[x] \in Nat /\ m[x] \in Nat /\ n[x] <= m[x]
    OBVIOUS
  <1>1. \A r \in q : r.lane \in Lane /\ r.sid \in Nat
    BY RequestIs DEF Net, NetType
  <1>2. \A i \in DOMAIN s : OnStream(s[i]) => s[i].lane \in Lane /\ s[i].sid \in Nat
    BY FrameIs DEF Net, NetType
  <1>3. \A k \in DOMAIN d \cup DOMAIN b : k[1] \in Lane /\ k[2] \in Nat
    BY DEF Net, NetType
  <1> HIDE DEF m
  <1>4. \A a, x, y \in Nat : a < x /\ x <= y => a < y
    OBVIOUS
  <1>5. IdsFresh(q, s, d, b, m)
    BY <1>0, <1>1, <1>2, <1>3, <1>4 DEF Net, IdsFresh
  <1>6. Net(e, q, s, d, b, h, m)
    BY <1>5 DEF Net
  <1> QED
    BY <1>6 DEF m

-----------------------------------------------------------------------------
(* The client takes a frame.                                               *)

\* ks are dropped from the streams: no answers are under way for them, or their lanes
\* are down.
LEMMA NetForgets ==
    ASSUME NEW e, NEW q, NEW s, NEW d, NEW b, NEW h, NEW n, Net(e, q, s, d, b, h, n), NEW ks,
           \A r \in q : Key(r) \in ks => ~h[r.lane],
           \A i \in DOMAIN s : OnStream(s[i]) /\ Key(s[i]) \in ks => ~h[s[i].lane]
    PROVE  Net(e, q, s, Without(d, ks), Without(b, ks), h, n)
  <1> DEFINE dd == Without(d, ks)
             bb == Without(b, ks)
  <1>1. /\ DOMAIN dd = DOMAIN d \ ks /\ DOMAIN bb = DOMAIN b \ ks
        /\ \A k \in DOMAIN dd : dd[k] = d[k]
        /\ dd = [k \in DOMAIN dd |-> d[k]] /\ bb = [k \in DOMAIN bb |-> b[k]]
    BY DEF Without, Restrict
  <1>2. \A k \in DOMAIN bb : bb[k] = b[k]
    BY DEF Without, Restrict
  <1> HIDE DEF dd, bb
  <1>3. NetType(q, s, dd, bb)
    <2>1. IsFiniteSet(DOMAIN dd) /\ IsFiniteSet(DOMAIN bb)
      BY <1>1, FS_Subset DEF Net, NetType
    <2>2. dd \in [DOMAIN dd -> File \ Small] /\ bb \in [DOMAIN bb -> Batch]
      BY <1>1 DEF Net, NetType
    <2> QED
      BY <1>1, <1>2, <2>1, <2>2 DEF Net, NetType
  <1>4. IdsFresh(q, s, dd, bb, n)
    BY <1>1 DEF Net, IdsFresh
  <1>5. AnswersKnown(q, s, dd, bb, h)
    BY <1>1 DEF Net, AnswersKnown, OnStream, StreamTypes
  <1>6. HeaderFirst(q, s, bb)
    BY <1>1, <1>2 DEF Net, HeaderFirst
  <1>7. ChunksFit(e, q, s, bb)
    BY <1>1, <1>2 DEF Net, ChunksFit
  <1>8. Net(e, q, s, dd, bb, h, n)
    BY <1>3, <1>4, <1>5, <1>6, <1>7 DEF Net
  <1> QED
    BY <1>8 DEF dd, bb

\* What holds of the rest whatever the first frame is.
LEMMA TailKeeps ==
    ASSUME NEW e, NEW q, NEW s, NEW d, NEW b, NEW h, NEW n, Net(e, q, s, d, b, h, n), s # <<>>
    PROVE  LET t == Tail(s)
           IN  /\ NetType(q, t, d, b) /\ IdsFresh(q, t, d, b, n) /\ AnswersKnown(q, t, d, b, h)
               /\ Grammar(q, t)
               /\ \A k \in DOMAIN b, room \in Nat : Fits(q, s, k, room) => Fits(q, t, k, room)
               /\ \A i \in DOMAIN t : t[i].type = "FileBatchOpen" => Cardinality(t[i].ok \ e) \in Nat
               /\ \A k \in DOMAIN b : Len(b[k].waiting) \in Nat
  <1> DEFINE t == Tail(s)
  <1>0. s \in Seq(Frames) /\ DOMAIN b \subseteq Lane \X Nat
    BY DEF Net, NetType
  <1>1. /\ t \in Seq(Frames) /\ Head(s) = s[1] /\ 1 \in DOMAIN s /\ s[1] \in Frames
        /\ \A i \in DOMAIN t : i + 1 \in DOMAIN s /\ t[i] = s[i + 1] /\ i \in Nat /\ 1 < i + 1
        /\ \A i \in DOMAIN s : i = 1 \/ i - 1 \in DOMAIN t
    BY <1>0, TailIs
  <1>2. \A i \in DOMAIN s : i \in Nat /\ (i # 1 => i - 1 \in DOMAIN t /\ t[i - 1] = s[i])
    <2>1. \A i \in DOMAIN s : i \in Nat /\ (i - 1) + 1 = i
      BY <1>0
    <2> QED
      BY <1>1, <2>1
  <1>3. ASSUME NEW k \in DOMAIN b
        PROVE  /\ Occurrences(ChunkOf(k), t) \in Nat /\ Occurrences(ChunkOf(k), s) \in Nat
               /\ Occurrences(ChunkOf(k), t) <= Occurrences(ChunkOf(k), s)
    <2>1. Occurrences(ChunkOf(k), s) = Is(ChunkOf(k), Head(s)) + Occurrences(ChunkOf(k), t)
      BY <1>0, OccTail
    <2>2. Occurrences(ChunkOf(k), t) \in Nat /\ Occurrences(ChunkOf(k), s) \in Nat
      BY <1>0, <1>1, OccType
    <2>3. Is(ChunkOf(k), Head(s)) \in {0, 1}
      BY OneType
    <2> QED
      BY <2>1, <2>2, <2>3
  <1> HIDE DEF t
  <1>4. NetType(q, t, d, b)
    BY <1>1 DEF Net, NetType
  <1>5. IdsFresh(q, t, d, b, n)
    BY <1>1 DEF Net, IdsFresh
  <1>6. AnswersKnown(q, t, d, b, h)
    BY <1>1 DEF Net, AnswersKnown
  <1>7. Grammar(q, t)
    <2>1. \A i, j \in DOMAIN t : i < j => i + 1 < j + 1
      BY <1>1
    <2> QED
      BY <1>1, <2>1 DEF Net, Grammar
  <1>13. ASSUME NEW k \in DOMAIN b, NEW room \in Nat, Fits(q, s, k, room)
        PROVE  Fits(q, t, k, room)
    <2>1. \A r \in q : r.type = "batch" => r.chunks \in Nat
      BY RequestIs DEF Net, NetType
    <2>2. /\ Occurrences(ChunkOf(k), t) \in Nat /\ Occurrences(ChunkOf(k), s) \in Nat
          /\ Occurrences(ChunkOf(k), t) <= Occurrences(ChunkOf(k), s)
      BY <1>3
    <2> QED
      BY <1>13, <2>1, <2>2 DEF Fits
  <1>14. \A k \in DOMAIN b : Len(b[k].waiting) \in Nat
    BY DEF Net, NetType, Batch
  <1>15. ASSUME NEW i \in DOMAIN t, t[i].type = "FileBatchOpen"
        PROVE  Cardinality(t[i].ok \ e) \in Nat /\ t[i] = s[i + 1]
    <2>1. t[i] \in Frames
      BY <1>1
    <2>2. t[i].ok \subseteq Small /\ IsFiniteSet(Small)
      BY <1>15, <2>1, FrameIs, ClientAssumption, FS_Subset
    <2>3. IsFiniteSet(t[i].ok \ e)
      BY <2>2, FS_Subset
    <2> QED
      BY <1>1, <2>3, FS_CardinalityType
  <1> QED
    BY <1>4, <1>5, <1>6, <1>7, <1>13, <1>14, <1>15 DEF t

\* The first frame goes.
LEMMA NetTail ==
    ASSUME NEW e, NEW q, NEW s, NEW d, NEW b, NEW h, NEW n, Net(e, q, s, d, b, h, n), s # <<>>,
           OnStream(Head(s)) => Key(Head(s)) \notin DOMAIN b \/ Head(s).type # "FileBatchOpen"
    PROVE  Net(e, q, Tail(s), d, b, h, n)
  <1> DEFINE t == Tail(s)
  <1>0. s \in Seq(Frames) /\ DOMAIN b \subseteq Lane \X Nat
    BY DEF Net, NetType
  <1>1. /\ t \in Seq(Frames) /\ Head(s) = s[1] /\ 1 \in DOMAIN s /\ s[1] \in Frames
        /\ \A i \in DOMAIN t : i + 1 \in DOMAIN s /\ t[i] = s[i + 1] /\ i \in Nat /\ 1 < i + 1
        /\ \A i \in DOMAIN s : i = 1 \/ i - 1 \in DOMAIN t
    BY <1>0, TailIs
  <1>2. \A i \in DOMAIN s : i \in Nat /\ (i # 1 => i - 1 \in DOMAIN t /\ t[i - 1] = s[i])
    <2>1. \A i \in DOMAIN s : i \in Nat /\ (i - 1) + 1 = i
      BY <1>0
    <2> QED
      BY <1>1, <2>1
  <1>3. /\ NetType(q, t, d, b) /\ IdsFresh(q, t, d, b, n) /\ AnswersKnown(q, t, d, b, h)
        /\ Grammar(q, t)
        /\ \A k \in DOMAIN b, room \in Nat : Fits(q, s, k, room) => Fits(q, t, k, room)
        /\ \A i \in DOMAIN t : t[i].type = "FileBatchOpen" => Cardinality(t[i].ok \ e) \in Nat
        /\ \A k \in DOMAIN b : Len(b[k].waiting) \in Nat
    BY TailKeeps
  <1> HIDE DEF t
  <1>10. \A k \in DOMAIN b : \A i \in DOMAIN t : HeaderAt(t, k, i) <=> HeaderAt(s, k, i + 1)
    BY <1>1 DEF HeaderAt
  <1>11. \A k \in DOMAIN b : \A i \in DOMAIN s : HeaderAt(s, k, i) =>
            i - 1 \in DOMAIN t /\ HeaderAt(t, k, i - 1) /\ i \in Nat
    BY <1>1, <1>2 DEF HeaderAt, OnStream, StreamTypes
  <1>8. HeaderFirst(q, t, b)
    <2>1. ASSUME NEW k \in DOMAIN b, b[k].headerReady
          PROVE  /\ \A r \in q : Key(r) = k => r.type = "batch"
                 /\ \A i \in DOMAIN t : ~HeaderAt(t, k, i)
      BY <1>1, <1>10, <2>1 DEF Net, HeaderFirst
    <2>2. ASSUME NEW k \in DOMAIN b, ~b[k].headerReady
          PROVE  /\ b[k].waiting = <<>>
                 /\ \A r \in q : r.type = "batch" /\ Key(r) = k => \E i \in DOMAIN t : HeaderAt(t, k, i)
      BY <1>11, <2>2 DEF Net, HeaderFirst
    <2>3. ASSUME NEW k \in DOMAIN b, ~b[k].headerReady, NEW j \in DOMAIN t, OnStream(t[j]), Key(t[j]) = k
          PROVE  \E i \in DOMAIN t : i <= j /\ HeaderAt(t, k, i)
      <3>1. PICK i \in DOMAIN s : i <= j + 1 /\ HeaderAt(s, k, i)
        BY <1>1, <2>3 DEF Net, HeaderFirst
      <3>2. i - 1 \in DOMAIN t /\ HeaderAt(t, k, i - 1) /\ i - 1 <= j
        BY <1>1, <1>11, <3>1
      <3> QED
        BY <3>2
    <2> QED
      BY <2>1, <2>2, <2>3 DEF HeaderFirst
  <1>9. ChunksFit(e, q, t, b)
    <2>4. ASSUME NEW k \in DOMAIN b, b[k].headerReady
          PROVE  Fits(q, t, k, Len(b[k].waiting))
      BY <1>3, <2>4 DEF Net, ChunksFit
    <2>5. ASSUME NEW k \in DOMAIN b, NEW i \in DOMAIN t, HeaderAt(t, k, i)
          PROVE  Fits(q, t, k, Cardinality(t[i].ok \ e))
      <3>1. /\ HeaderAt(s, k, i + 1) /\ i + 1 \in DOMAIN s /\ t[i].type = "FileBatchOpen"
            /\ t[i] = s[i + 1]
        BY <1>1, <1>10, <2>5 DEF HeaderAt
      <3>2. Fits(q, s, k, Cardinality(s[i + 1].ok \ e))
        BY <3>1 DEF Net, ChunksFit
      <3> QED
        BY <1>3, <3>1, <3>2
    <2> QED
      BY <2>4, <2>5 DEF ChunksFit
  <1>12. Net(e, q, t, d, b, h, n)
    BY <1>3, <1>8, <1>9 DEF Net
  <1> QED
    BY <1>12 DEF t

\* The header of an open batch.
LEMMA NetHeader ==
    ASSUME NEW e, NEW q, NEW s, NEW d, NEW b, NEW h, NEW n, Net(e, q, s, d, b, h, n), s # <<>>,
           Head(s).type = "FileBatchOpen", Key(Head(s)) \in DOMAIN b,
           NEW w \in Seq(Small), Once(w), Cardinality(Head(s).ok \ e) <= Len(w)
    PROVE  Net(e, q, Tail(s), d,
               [b EXCEPT ![Key(Head(s))] = [headerReady |-> TRUE, waiting |-> w]], h, n)
  <1> DEFINE t == Tail(s)
             k == Key(Head(s))
             x == [headerReady |-> TRUE, waiting |-> w]
             c == [b EXCEPT ![k] = x]
  <1>0. s \in Seq(Frames) /\ DOMAIN b \subseteq Lane \X Nat /\ b \in [DOMAIN b -> Batch]
    BY DEF Net, NetType
  <1>1. /\ t \in Seq(Frames) /\ Head(s) = s[1] /\ 1 \in DOMAIN s /\ s[1] \in Frames
        /\ \A i \in DOMAIN t : i + 1 \in DOMAIN s /\ t[i] = s[i + 1] /\ i \in Nat /\ 1 < i + 1
        /\ \A i \in DOMAIN s : i = 1 \/ i - 1 \in DOMAIN t
    BY <1>0, TailIs
  <1>2. \A i \in DOMAIN s : i \in Nat /\ (i # 1 => i - 1 \in DOMAIN t /\ t[i - 1] = s[i])
    <2>1. \A i \in DOMAIN s : i \in Nat /\ (i - 1) + 1 = i
      BY <1>0
    <2> QED
      BY <1>1, <2>1
  <1>3. /\ NetType(q, t, d, b) /\ IdsFresh(q, t, d, b, n) /\ AnswersKnown(q, t, d, b, h)
        /\ Grammar(q, t)
        /\ \A y \in DOMAIN b, room \in Nat : Fits(q, s, y, room) => Fits(q, t, y, room)
        /\ \A i \in DOMAIN t : t[i].type = "FileBatchOpen" => Cardinality(t[i].ok \ e) \in Nat
        /\ \A y \in DOMAIN b : Len(b[y].waiting) \in Nat
    BY TailKeeps
  <1>4. /\ DOMAIN c = DOMAIN b /\ c[k] = x /\ \A y \in DOMAIN b : y # k => c[y] = b[y]
        /\ x.headerReady = TRUE /\ x.waiting = w /\ x \in Batch /\ c \in [DOMAIN b -> Batch]
    BY <1>0 DEF Batch
  <1>5. k \in DOMAIN b /\ HeaderAt(s, k, 1) /\ OnStream(s[1]) /\ Key(s[1]) = k
    BY <1>1 DEF HeaderAt, OnStream, StreamTypes
  <1>6. \A i \in DOMAIN t : HeaderAt(t, k, i) => FALSE
    <2>1. \A i \in DOMAIN s : 1 < i /\ OnStream(s[i]) /\ Key(s[i]) = k => s[i].type # "FileBatchOpen"
      BY <1>1, <1>5 DEF Net, Grammar
    <2> QED
      BY <1>1, <2>1 DEF HeaderAt, OnStream, StreamTypes
  <1>7. \A r \in q : Key(r) = k => r.type = "batch"
    BY <1>1, <1>5 DEF Net, Grammar
  <1> HIDE DEF t, c, x, k
  <1>8. NetType(q, t, d, c) /\ IdsFresh(q, t, d, c, n) /\ AnswersKnown(q, t, d, c, h)
    <2>1. \A y \in DOMAIN c : Once(c[y].waiting)
      BY <1>3, <1>4 DEF NetType
    <2> QED
      BY <1>3, <1>4, <2>1 DEF NetType, IdsFresh, AnswersKnown
  <1>10. \A y \in DOMAIN b : \A i \in DOMAIN t : HeaderAt(t, y, i) <=> HeaderAt(s, y, i + 1)
    BY <1>1 DEF HeaderAt
  <1>11. \A y \in DOMAIN b \ {k} : \A i \in DOMAIN s : HeaderAt(s, y, i) =>
            i - 1 \in DOMAIN t /\ HeaderAt(t, y, i - 1) /\ i \in Nat
    BY <1>1, <1>2, <1>5 DEF HeaderAt
  <1>12. HeaderFirst(q, t, c)
    <2>1. ASSUME NEW y \in DOMAIN b \ {k}, b[y].headerReady
          PROVE  /\ \A r \in q : Key(r) = y => r.type = "batch"
                 /\ \A i \in DOMAIN t : ~HeaderAt(t, y, i)
      BY <1>1, <1>10, <2>1 DEF Net, HeaderFirst
    <2>2. ASSUME NEW y \in DOMAIN b \ {k}, ~b[y].headerReady
          PROVE  /\ b[y].waiting = <<>>
                 /\ \A r \in q : r.type = "batch" /\ Key(r) = y => \E i \in DOMAIN t : HeaderAt(t, y, i)
      BY <1>11, <2>2 DEF Net, HeaderFirst
    <2>3. ASSUME NEW y \in DOMAIN b \ {k}, ~b[y].headerReady, NEW j \in DOMAIN t, OnStream(t[j]), Key(t[j]) = y
          PROVE  \E i \in DOMAIN t : i <= j /\ HeaderAt(t, y, i)
      <3>1. PICK i \in DOMAIN s : i <= j + 1 /\ HeaderAt(s, y, i)
        BY <1>1, <2>3 DEF Net, HeaderFirst
      <3>2. i - 1 \in DOMAIN t /\ HeaderAt(t, y, i - 1) /\ i - 1 <= j
        BY <1>1, <1>11, <3>1
      <3> QED
        BY <3>2
    <2>4. c[k].headerReady
      BY <1>4
    <2> QED
      BY <1>4, <1>6, <1>7, <2>1, <2>2, <2>3, <2>4 DEF HeaderFirst
  <1>13. ChunksFit(e, q, t, c)
    <2>1. ASSUME NEW y \in DOMAIN b \ {k}, b[y].headerReady
          PROVE  Fits(q, t, y, Len(b[y].waiting))
      BY <1>3, <2>1 DEF Net, ChunksFit
    <2>2. ASSUME NEW y \in DOMAIN b, NEW i \in DOMAIN t, HeaderAt(t, y, i)
          PROVE  Fits(q, t, y, Cardinality(t[i].ok \ e))
      <3>1. /\ HeaderAt(s, y, i + 1) /\ i + 1 \in DOMAIN s /\ t[i].type = "FileBatchOpen"
            /\ t[i] = s[i + 1]
        BY <1>1, <1>10, <2>2 DEF HeaderAt
      <3>2. Fits(q, s, y, Cardinality(s[i + 1].ok \ e))
        BY <3>1 DEF Net, ChunksFit
      <3> QED
        BY <1>3, <3>1, <3>2
    <2>3. Fits(q, t, k, Len(w))
      <3>1. Fits(q, s, k, Cardinality(s[1].ok \ e))
        BY <1>1, <1>5 DEF Net, ChunksFit
      <3>2. Cardinality(s[1].ok \ e) \in Nat /\ Len(w) \in Nat
        <4>1. s[1].ok \subseteq Small /\ IsFiniteSet(Small)
          BY <1>1, FrameIs, ClientAssumption, FS_Subset
        <4>2. IsFiniteSet(s[1].ok \ e)
          BY <4>1, FS_Subset
        <4> QED
          BY <4>2, FS_CardinalityType
      <3>3. \A r \in q : r.type = "batch" => r.chunks \in Nat
        BY RequestIs DEF Net, NetType
      <3>4. Occurrences(ChunkOf(k), s) \in Nat
        BY <1>0, OccType
      <3>6. Cardinality(s[1].ok \ e) <= Len(w)
        BY <1>1
      <3> DEFINE a == Cardinality(s[1].ok \ e)
                 o == Occurrences(ChunkOf(k), s)
      <3>7. /\ a \in Nat /\ a <= Len(w) /\ o \in Nat /\ o <= a
            /\ \A r \in q : r.type = "batch" /\ Key(r) = k => o + r.chunks <= a
        BY <3>1, <3>2, <3>4, <3>6 DEF Fits
      <3> HIDE DEF a, o
      <3>8. o <= Len(w) /\ \A r \in q : r.type = "batch" /\ Key(r) = k => o + r.chunks <= Len(w)
        BY <3>2, <3>3, <3>7
      <3>5. Fits(q, s, k, Len(w))
        BY <3>8 DEF Fits, o
      <3> QED
        BY <1>3, <1>5, <3>2, <3>5
    <2> QED
      BY <1>4, <2>1, <2>2, <2>3 DEF ChunksFit
  <1>14. Net(e, q, t, d, c, h, n)
    BY <1>3, <1>8, <1>12, <1>13 DEF Net
  <1> QED
    BY <1>14 DEF t, c, k, x

\* The bytes of an entry of an open batch.
LEMMA NetChunk ==
    ASSUME NEW e, NEW q, NEW s, NEW d, NEW b, NEW h, NEW n, Net(e, q, s, d, b, h, n), s # <<>>,
           Head(s).type = "FileBatchChunk", Key(Head(s)) \in DOMAIN b
    PROVE  LET k == Key(Head(s))
           IN  /\ b[k].headerReady /\ b[k].waiting # <<>>
               /\ Net(e, q, Tail(s), d, [b EXCEPT ![k].waiting = Tail(@)], h, n)
  <1> DEFINE t == Tail(s)
             k == Key(Head(s))
             w == Tail(b[k].waiting)
             c == [b EXCEPT ![k].waiting = Tail(@)]
  <1>0. /\ s \in Seq(Frames) /\ DOMAIN b \subseteq Lane \X Nat /\ b \in [DOMAIN b -> Batch]
        /\ k \in DOMAIN b /\ Once(b[k].waiting)
    BY DEF Net, NetType
  <1>1. /\ t \in Seq(Frames) /\ Head(s) = s[1] /\ 1 \in DOMAIN s /\ s[1] \in Frames
    BY <1>0, TailIs
  <1>2. Net(e, q, t, d, b, h, n)
    BY NetTail
  <1>3. b[k].headerReady
    <2>1. OnStream(s[1]) /\ Key(s[1]) = k /\ s[1].type = "FileBatchChunk"
      BY <1>1 DEF OnStream, StreamTypes
    <2>2. ASSUME ~b[k].headerReady PROVE FALSE
      <3>1. PICK i \in DOMAIN s : i <= 1 /\ HeaderAt(s, k, i)
        BY <1>0, <1>1, <2>1, <2>2 DEF Net, HeaderFirst
      <3>2. i = 1
        BY <1>0, <3>1
      <3> QED
        BY <2>1, <3>1, <3>2 DEF HeaderAt
    <2> QED
      BY <2>2 DEF Batch
  <1>4. Occurrences(ChunkOf(k), s) = 1 + Occurrences(ChunkOf(k), t) /\ Occurrences(ChunkOf(k), t) \in Nat
    <2>1. Head(s) = ChunkOf(k)
      BY <1>0, <1>1, ChunkIs
    <2>2. Is(ChunkOf(k), Head(s)) = 1
      BY <2>1 DEF Is
    <2> QED
      BY <1>0, <1>1, <2>2, OccTail, OccType
  <1>5. Fits(q, s, k, Len(b[k].waiting))
    BY <1>0, <1>3 DEF Net, ChunksFit
  <1>6. b[k].waiting \in Seq(Small) /\ Len(b[k].waiting) \in Nat
    BY <1>0 DEF Batch
  <1>7. b[k].waiting # <<>>
    BY <1>4, <1>5, <1>6 DEF Fits
  <1>8. w \in Seq(Small) /\ Len(w) = Len(b[k].waiting) - 1 /\ Once(w)
    <2>1. w \in Seq(Small) /\ Len(w) = Len(b[k].waiting) - 1
      BY <1>6, <1>7
    <2>2. \A i \in DOMAIN w : i + 1 \in DOMAIN b[k].waiting /\ w[i] = b[k].waiting[i + 1] /\ i \in Nat
      BY <1>6, <1>7, TailIs
    <2>3. Once(b[k].waiting)
      BY <1>0
    <2>4. ASSUME NEW i \in DOMAIN w, NEW j \in DOMAIN w, w[i] = w[j]
          PROVE  i = j
      <3>1. /\ i + 1 \in DOMAIN b[k].waiting /\ j + 1 \in DOMAIN b[k].waiting
            /\ b[k].waiting[i + 1] = b[k].waiting[j + 1] /\ i \in Nat /\ j \in Nat
        BY <2>2, <2>4
      <3>2. i + 1 = j + 1
        BY <2>3, <3>1 DEF Once
      <3> QED
        BY <3>1, <3>2
    <2> QED
      BY <2>1, <2>4 DEF Once
  <1>9. Fits(q, t, k, Len(w))
    <2>1. \A r \in q : r.type = "batch" => r.chunks \in Nat
      BY RequestIs DEF Net, NetType
    <2> QED
      BY <1>4, <1>5, <1>6, <1>8, <2>1 DEF Fits
  <1>10. /\ DOMAIN c = DOMAIN b /\ \A y \in DOMAIN b : y # k => c[y] = b[y]
         /\ c[k].waiting = w /\ c[k].headerReady = b[k].headerReady /\ c \in [DOMAIN b -> Batch]
    BY <1>0, <1>8 DEF Batch
  <1> HIDE DEF t, c, w, k
  <1>11. NetType(q, t, d, c) /\ IdsFresh(q, t, d, c, n) /\ AnswersKnown(q, t, d, c, h)
    <2>1. \A y \in DOMAIN c : Once(c[y].waiting)
      BY <1>2, <1>8, <1>10 DEF Net, NetType
    <2> QED
      BY <1>2, <1>10, <2>1 DEF Net, NetType, IdsFresh, AnswersKnown
  <1>12. HeaderFirst(q, t, c)
    BY <1>2, <1>3, <1>10 DEF Net, HeaderFirst
  <1>13. ChunksFit(e, q, t, c)
    BY <1>2, <1>9, <1>10 DEF Net, ChunksFit
  <1>14. Net(e, q, t, d, c, h, n)
    BY <1>2, <1>11, <1>12, <1>13 DEF Net
  <1> QED
    BY <1>3, <1>7, <1>14 DEF t, c, k

-----------------------------------------------------------------------------
(* The server answers a request, and the client opens a stream.            *)

\* The frame m answers request r; what is left of r, if anything, is in p.
Answers(e, q, r, m, p) ==
    /\ r \in q /\ m \in Frames /\ OnStream(m) /\ Key(m) = Key(r)
    /\ p \subseteq StreamRequest /\ IsFiniteSet(p)
    /\ \A x, y \in p : Key(x) = Key(y) => x = y
    /\ r.type = "FileOpen" => m.type \in {"FileEnd", "FileError"}
    /\ r.type = "FileBatchOpen" =>
          m.type = "FileBatchOpen" /\ Once(m.files) /\ m.ok \subseteq ToSet(m.files)
    /\ r.type = "batch" => m.type \in {"FileBatchChunk", "FileBatchEnd", "FileError"}
    /\ m.type = "FileBatchChunk" => r.chunks > 0
    /\ \A x \in p : \/ x \in q /\ x # r
                    \/ /\ x.type = "batch" /\ Key(x) = Key(r) /\ r.type # "FileOpen"
                       /\ m.type \in {"FileBatchOpen", "FileBatchChunk"}
                       /\ m.type = "FileBatchOpen" => x.chunks = Cardinality(m.ok \ e)
                       /\ m.type = "FileBatchChunk" => x.chunks + 1 = r.chunks

LEMMA NetAnswers ==
    ASSUME NEW e, NEW q, NEW s, NEW d, NEW b, NEW h, NEW n, Net(e, q, s, d, b, h, n),
           NEW r, NEW m, NEW p, Answers(e, q, r, m, p)
    PROVE  Net(e, p, Append(s, m), d, b, h, n)
  <1> DEFINE t == Append(s, m)
             z == Len(s) + 1
             k == Key(r)
  <1>0. /\ s \in Seq(Frames) /\ DOMAIN b \subseteq Lane \X Nat /\ q \subseteq StreamRequest
        /\ r \in StreamRequest /\ r \in q /\ m \in Frames /\ p \subseteq StreamRequest
        /\ OnStream(m) /\ Key(m) = k
    BY DEF Net, NetType, Answers
  <1>1. /\ t \in Seq(Frames) /\ z \in DOMAIN t /\ t[z] = m /\ z \in Nat
        /\ \A i \in DOMAIN s : i \in DOMAIN t /\ t[i] = s[i] /\ i < z /\ i \in Nat
        /\ \A i \in DOMAIN t : i \in DOMAIN s \/ i = z
    BY <1>0, AppendIs
  <1>2. m.lane = r.lane /\ m.sid = r.sid /\ k \in Lane \X Nat
    BY <1>0, FrameIs, RequestIs DEF Key
  <1>20. \A x \in p : Key(x) = k => x.lane = r.lane /\ x.sid = r.sid
    BY <1>0, RequestIs DEF Key
  <1>3. \A i \in DOMAIN s : OnStream(s[i]) /\ Key(s[i]) = k =>
           r.type = "batch" /\ s[i].type \in {"FileBatchOpen", "FileBatchChunk"}
    BY <1>0 DEF Net, Grammar
  <1>4. \A x \in q : Key(x) = k => x = r
    BY <1>0 DEF Net, IdsFresh
  <1>5. \A y \in Lane \X Nat : Occurrences(ChunkOf(y), t) = Occurrences(ChunkOf(y), s) + Is(ChunkOf(y), m)
    BY <1>0, OccAppend
  <1>6. \A y \in Lane \X Nat : Occurrences(ChunkOf(y), s) \in Nat
    BY <1>0, OccType
  <1>7. \A y \in Lane \X Nat : Is(ChunkOf(y), m) = IF m.type = "FileBatchChunk" /\ y = k THEN 1 ELSE 0
    BY <1>0, ChunkIs DEF Is
  <1>8. /\ r.type \in {"FileOpen", "FileBatchOpen", "batch"}
        /\ r.type = "FileOpen" => k \notin DOMAIN b /\ (h[r.lane] => k \in DOMAIN d)
        /\ r.type # "FileOpen" => k \notin DOMAIN d /\ (h[r.lane] => k \in DOMAIN b)
    BY <1>0, RequestIs DEF Net, AnswersKnown
  <1> HIDE DEF t, z, k
  <1>9. NetType(p, t, d, b)
    <2>1. \A x \in p : x.type = "FileBatchOpen" => Once(x.files)
      BY DEF Net, NetType, Answers
    <2>2. \A i \in DOMAIN t : t[i].type = "FileBatchOpen" =>
             Once(t[i].files) /\ t[i].ok \subseteq ToSet(t[i].files)
      BY <1>1, <1>8 DEF Net, NetType, Answers
    <2> QED
      BY <1>1, <2>1, <2>2 DEF Net, NetType, Answers
  <1>10. IdsFresh(p, t, d, b, n)
    <2>1. \A x \in p : x.sid < n[x.lane]
      BY <1>0, <1>20 DEF Net, IdsFresh, Answers, k
    <2>2. \A i \in DOMAIN t : OnStream(t[i]) => t[i].sid < n[t[i].lane]
      BY <1>0, <1>1, <1>2 DEF Net, IdsFresh
    <2> QED
      BY <2>1, <2>2 DEF Net, IdsFresh, Answers
  <1>11. AnswersKnown(p, t, d, b, h)
    <2>1. ASSUME NEW x \in p
          PROVE  /\ x.type = "FileOpen" => Key(x) \notin DOMAIN b /\ (h[x.lane] => Key(x) \in DOMAIN d)
                 /\ x.type # "FileOpen" => Key(x) \notin DOMAIN d /\ (h[x.lane] => Key(x) \in DOMAIN b)
      <3>1. CASE x \in q
        BY <3>1 DEF Net, AnswersKnown
      <3>2. CASE x \notin q
        BY <1>8, <1>20, <3>2 DEF Answers, k
      <3> QED
        BY <3>1, <3>2
    <2>2. ASSUME NEW i \in DOMAIN t
          PROVE  LET y == t[i].type
                 IN  /\ y = "FileEnd" =>
                           Key(t[i]) \notin DOMAIN b /\ (h[t[i].lane] => Key(t[i]) \in DOMAIN d)
                     /\ y \in {"FileBatchOpen", "FileBatchChunk", "FileBatchEnd"} =>
                           Key(t[i]) \notin DOMAIN d /\ (h[t[i].lane] => Key(t[i]) \in DOMAIN b)
                     /\ y = "FileError" => (h[t[i].lane] => Key(t[i]) \in DOMAIN d \cup DOMAIN b)
      <3>1. CASE i \in DOMAIN s
        BY <1>1, <3>1 DEF Net, AnswersKnown
      <3>2. CASE i = z
        <4>1. t[i] = m /\ Key(m) = k /\ m.lane = r.lane
          BY <1>0, <1>1, <1>2, <3>2
        <4> QED
          BY <1>8, <4>1 DEF Answers
      <3> QED
        BY <1>1, <3>1, <3>2
    <2> QED
      BY <2>1, <2>2 DEF AnswersKnown
  <1>12. Grammar(p, t)
    <2>1. ASSUME NEW i \in DOMAIN t, OnStream(t[i]), NEW x \in p, Key(x) = Key(t[i])
          PROVE  x.type = "batch" /\ t[i].type \in {"FileBatchOpen", "FileBatchChunk"}
      <3>1. CASE i \in DOMAIN s
        BY <1>1, <1>3, <2>1, <3>1 DEF Net, Grammar, Answers, k
      <3>2. CASE i = z
        BY <1>0, <1>1, <1>4, <2>1, <3>2 DEF Answers, k
      <3> QED
        BY <1>1, <3>1, <3>2
    <2>2. ASSUME NEW i \in DOMAIN t, NEW j \in DOMAIN t, i < j, OnStream(t[i]), OnStream(t[j]),
                 Key(t[j]) = Key(t[i])
          PROVE  /\ t[i].type \in {"FileBatchOpen", "FileBatchChunk"}
                 /\ t[j].type \in {"FileBatchChunk", "FileBatchEnd", "FileError"}
      <3>1. i \in DOMAIN s
        BY <1>1, <2>2
      <3>2. CASE j \in DOMAIN s
        BY <1>1, <2>2, <3>1, <3>2 DEF Net, Grammar
      <3>3. CASE j = z
        BY <1>0, <1>1, <1>3, <2>2, <3>1, <3>3 DEF Answers
      <3> QED
        BY <1>1, <3>2, <3>3
    <2> QED
      BY <2>1, <2>2 DEF Grammar
  <1>13. \A y \in DOMAIN b : \A i \in DOMAIN t :
            HeaderAt(t, y, i) <=> \/ i \in DOMAIN s /\ HeaderAt(s, y, i)
                                  \/ i = z /\ m.type = "FileBatchOpen" /\ y = k
    <2>1. z \notin DOMAIN s
      BY <1>1
    <2> QED
      BY <1>0, <1>1, <2>1 DEF HeaderAt
  <1>14. HeaderFirst(p, t, b)
    <2>1. ASSUME NEW y \in DOMAIN b, b[y].headerReady
          PROVE  /\ \A x \in p : Key(x) = y => x.type = "batch"
                 /\ \A i \in DOMAIN t : ~HeaderAt(t, y, i)
      <3>1. \A x \in p : Key(x) = y => x.type = "batch"
        BY <2>1 DEF Net, HeaderFirst, Answers
      <3>2. m.type = "FileBatchOpen" => y # k
        BY <1>0, <1>8, <2>1 DEF Net, HeaderFirst, Answers, k
      <3> QED
        BY <1>13, <2>1, <3>1, <3>2 DEF Net, HeaderFirst
    <2>2. ASSUME NEW y \in DOMAIN b, ~b[y].headerReady
          PROVE  b[y].waiting = <<>>
      BY <2>2 DEF Net, HeaderFirst
    <2>3. ASSUME NEW y \in DOMAIN b, ~b[y].headerReady, y = k
          PROVE  \E i \in DOMAIN t : i <= z /\ HeaderAt(t, y, i)
      <3>1. CASE m.type = "FileBatchOpen"
        <4>1. HeaderAt(t, y, z) /\ z <= z
          BY <1>1, <1>13, <2>3, <3>1
        <4> QED
          BY <1>1, <4>1
      <3>2. CASE m.type # "FileBatchOpen"
        <4>1. r.type = "batch"
          BY <1>8, <2>3, <3>2 DEF Answers
        <4>2. PICK i \in DOMAIN s : HeaderAt(s, y, i)
          BY <1>0, <2>3, <4>1 DEF Net, HeaderFirst, k
        <4>3. i \in DOMAIN t /\ i <= z /\ HeaderAt(t, y, i)
          BY <1>1, <1>13, <4>2
        <4> QED
          BY <4>3
      <3> QED
        BY <3>1, <3>2
    <2>4. ASSUME NEW y \in DOMAIN b, ~b[y].headerReady, NEW x \in p, x.type = "batch", Key(x) = y
          PROVE  \E i \in DOMAIN t : HeaderAt(t, y, i)
      <3>1. CASE x \in q
        BY <1>1, <1>13, <2>4, <3>1 DEF Net, HeaderFirst
      <3>2. CASE x \notin q
        <4>1. y = k
          BY <2>4, <3>2 DEF Answers, k
        <4> QED
          BY <2>3, <2>4, <4>1
      <3> QED
        BY <3>1, <3>2
    <2>5. ASSUME NEW y \in DOMAIN b, ~b[y].headerReady, NEW j \in DOMAIN t, OnStream(t[j]), Key(t[j]) = y
          PROVE  \E i \in DOMAIN t : i <= j /\ HeaderAt(t, y, i)
      <3>1. CASE j \in DOMAIN s
        BY <1>1, <1>13, <2>5, <3>1 DEF Net, HeaderFirst
      <3>2. CASE j = z
        BY <1>0, <1>1, <2>3, <2>5, <3>2
      <3> QED
        BY <1>1, <3>1, <3>2
    <2> QED
      BY <2>1, <2>2, <2>4, <2>5 DEF HeaderFirst
  <1>15. ASSUME NEW y \in DOMAIN b, NEW room \in Nat, Fits(q, s, y, room), m.type = "FileBatchOpen" => y # k
         PROVE  Fits(p, t, y, room)
    <2> DEFINE o == Occurrences(ChunkOf(y), s)
               c == Is(ChunkOf(y), m)
    <2>1. /\ o \in Nat /\ Occurrences(ChunkOf(y), t) = o + c
          /\ c = IF m.type = "FileBatchChunk" /\ y = k THEN 1 ELSE 0
      BY <1>0, <1>5, <1>6, <1>7
    <2>2. o <= room /\ \A x \in q : x.type = "batch" /\ Key(x) = y => o + x.chunks <= room
      BY <1>15 DEF Fits
    <2>3. \A x \in p \cup q : x.type = "batch" => x.chunks \in Nat
      BY <1>0, RequestIs
    <2> HIDE DEF o, c
    <2>4. m.type = "FileBatchChunk" => r.type = "batch" /\ r.chunks > 0
      BY <1>8 DEF Answers
    <2>5. o + c <= room
      <3>1. CASE c = 0
        BY <2>1, <2>2, <3>1
      <3>2. CASE c # 0
        <4>1. c = 1 /\ m.type = "FileBatchChunk" /\ y = k /\ r.chunks \in Nat /\ o + r.chunks <= room /\ r.chunks > 0
          BY <1>0, <2>1, <2>2, <2>3, <2>4, <3>2 DEF k
        <4> QED
          BY <2>1, <4>1
      <3> QED
        BY <3>1, <3>2
    <2>6. ASSUME NEW x \in p, x.type = "batch", Key(x) = y
          PROVE  o + c + x.chunks <= room
      <3>1. CASE x \in q /\ x # r
        <4>1. y # k
          BY <1>4, <2>6, <3>1
        <4> QED
          BY <2>1, <2>2, <2>3, <2>6, <3>1, <4>1
      <3>2. CASE ~(x \in q /\ x # r)
        <4>1. y = k /\ m.type = "FileBatchChunk" /\ x.chunks + 1 = r.chunks
          BY <1>15, <2>6, <3>2 DEF Answers, k
        <4>2. c = 1 /\ r.chunks \in Nat /\ x.chunks \in Nat /\ o + r.chunks <= room
          BY <1>0, <2>1, <2>2, <2>3, <2>4, <2>6, <4>1 DEF k
        <4> QED
          BY <2>1, <4>1, <4>2
      <3> QED
        BY <3>1, <3>2
    <2> QED
      BY <2>1, <2>5, <2>6 DEF Fits
  <1>16. \A y \in DOMAIN b : Len(b[y].waiting) \in Nat
    BY DEF Net, NetType, Batch
  <1>17. ASSUME NEW x \in Frames, x.type = "FileBatchOpen"
         PROVE  Cardinality(x.ok \ e) \in Nat
    <2>1. x.ok \subseteq Small /\ IsFiniteSet(Small)
      BY <1>17, FrameIs, ClientAssumption, FS_Subset
    <2>2. IsFiniteSet(x.ok \ e)
      BY <2>1, FS_Subset
    <2> QED
      BY <2>2, FS_CardinalityType
  <1>18. ChunksFit(e, p, t, b)
    <2>1. ASSUME NEW y \in DOMAIN b, b[y].headerReady
          PROVE  Fits(p, t, y, Len(b[y].waiting))
      <3>1. m.type = "FileBatchOpen" => y # k
        BY <1>0, <1>8, <2>1 DEF Net, HeaderFirst, Answers, k
      <3> QED
        BY <1>15, <1>16, <2>1, <3>1 DEF Net, ChunksFit
    <2>2. ASSUME NEW y \in DOMAIN b, NEW i \in DOMAIN t, HeaderAt(t, y, i)
          PROVE  Fits(p, t, y, Cardinality(t[i].ok \ e))
      <3>1. CASE i \in DOMAIN s
        <4>1. HeaderAt(s, y, i) /\ t[i] = s[i] /\ s[i] \in Frames /\ s[i].type = "FileBatchOpen" /\ Key(s[i]) = y
          BY <1>0, <1>1, <2>2, <3>1 DEF HeaderAt
        <4>2. Fits(q, s, y, Cardinality(s[i].ok \ e)) /\ Cardinality(s[i].ok \ e) \in Nat
          BY <1>17, <3>1, <4>1 DEF Net, ChunksFit
        <4>3. m.type = "FileBatchOpen" => y # k
          BY <1>3, <1>8, <3>1, <4>1 DEF Answers, OnStream, StreamTypes
        <4> QED
          BY <1>15, <4>1, <4>2, <4>3
      <3>2. CASE i = z
        <4>1. m.type = "FileBatchOpen" /\ y = k /\ t[i] = m
          BY <1>0, <1>1, <2>2, <3>2 DEF HeaderAt
        <4>2. r.type = "FileBatchOpen"
          BY <1>8, <4>1 DEF Answers
        <4>3. \A j \in DOMAIN s : s[j] # ChunkOf(y)
          <5>1. \A j \in DOMAIN s : s[j] \in Frames
            BY <1>0
          <5> QED
            BY <1>2, <1>3, <4>1, <4>2, <5>1, ChunkIs DEF OnStream, StreamTypes
        <4>4. Occurrences(ChunkOf(y), s) = 0
          BY <1>0, <4>3, OccNone
        <4>5. Occurrences(ChunkOf(y), t) = 0
          BY <1>2, <1>5, <1>7, <4>1, <4>4
        <4>6. \A x \in p : x.type = "batch" /\ Key(x) = y => x.chunks = Cardinality(m.ok \ e)
          BY <1>4, <4>1 DEF Answers
        <4>7. Cardinality(m.ok \ e) \in Nat
          BY <1>0, <1>17, <4>1
        <4> DEFINE a == Cardinality(m.ok \ e)
        <4>8. a \in Nat /\ \A x \in p : x.type = "batch" /\ Key(x) = y => x.chunks = a
          BY <4>6, <4>7
        <4> HIDE DEF a
        <4>9. Fits(p, t, y, a)
          BY <4>5, <4>8 DEF Fits
        <4> QED
          BY <4>1, <4>9 DEF a
      <3> QED
        BY <1>1, <3>1, <3>2
    <2> QED
      BY <2>1, <2>2 DEF ChunksFit
  <1>19. Net(e, p, t, d, b, h, n)
    BY <1>9, <1>10, <1>11, <1>12, <1>14, <1>18 DEF Net
  <1> QED
    BY <1>19 DEF t

\* Nothing is known of the next stream id of lane l.
LEMMA FreshId ==
    ASSUME NEW e, NEW q, NEW s, NEW d, NEW b, NEW h, NEW n \in [Lane -> Nat],
           Net(e, q, s, d, b, h, n), NEW l \in Lane
    PROVE  LET k == <<l, n[l]>>
           IN  /\ k \in Lane \X Nat /\ k \notin DOMAIN d /\ k \notin DOMAIN b
               /\ \A r \in q : Key(r) # k
               /\ \A i \in DOMAIN s : OnStream(s[i]) => Key(s[i]) # k
  <1> DEFINE k == <<l, n[l]>>
  <1>0. k \in Lane \X Nat /\ k[1] = l /\ k[2] = n[l] /\ n[l] \in Nat /\ ~(n[l] < n[l])
    OBVIOUS
  <1>1. k \notin DOMAIN d /\ k \notin DOMAIN b
    BY <1>0 DEF Net, IdsFresh
  <1>2. \A r \in q : Key(r) # k
    BY <1>0, RequestIs DEF Net, NetType, IdsFresh, Key
  <1>3. \A i \in DOMAIN s : OnStream(s[i]) => Key(s[i]) # k
    BY <1>0, FrameIs DEF Net, NetType, IdsFresh, Key
  <1> QED
    BY <1>0, <1>1, <1>2, <1>3

\* A single-file stream is entered; the request for it goes out, or the lane fails.
LEMMA NetDownload ==
    ASSUME NEW e, NEW q, NEW s, NEW d, NEW b, NEW h, NEW n \in [Lane -> Nat],
           Net(e, q, s, d, b, h, n), NEW l \in Lane, NEW f \in File \ Small,
           NEW p, p = q \/ p = q \cup {[type |-> "FileOpen", lane |-> l, sid |-> n[l]]}
    PROVE  Net(e, p, s, With(d, <<l, n[l]>>, f), b, h, [n EXCEPT ![l] = @ + 1])
  <1> DEFINE k == <<l, n[l]>>
             c == With(d, k, f)
             m == [n EXCEPT ![l] = @ + 1]
             r == [type |-> "FileOpen", lane |-> l, sid |-> n[l]]
  <1>1. /\ k \in Lane \X Nat /\ k \notin DOMAIN d /\ k \notin DOMAIN b
        /\ \A x \in q : Key(x) # k
        /\ \A i \in DOMAIN s : OnStream(s[i]) => Key(s[i]) # k
    BY FreshId
  <1>2. DOMAIN c = DOMAIN d \cup {k} /\ c[k] = f /\ \A y \in DOMAIN d : c[y] = d[y]
    BY <1>1 DEF With
  <1>3. c \in [DOMAIN c -> File \ Small]
    <2>1. c = [y \in DOMAIN d \cup {k} |-> c[y]]
      BY <1>1 DEF With
    <2>2. \A y \in DOMAIN d : d[y] \in File \ Small
      BY DEF Net, NetType
    <2> QED
      BY <1>2, <2>1, <2>2
  <1>4. r \in StreamRequest /\ r.type = "FileOpen" /\ Key(r) = k /\ r.lane = l /\ r.sid = n[l]
    BY DEF StreamRequest, FileRequest, Key
  <1>5. Net(e, q, s, d, b, h, m)
    BY NetSkips
  <1>6. m[l] = n[l] + 1 /\ n[l] \in Nat /\ k[1] = l /\ k[2] = n[l] /\ n[l] < m[l]
    OBVIOUS
  <1>7. p \in {q, q \cup {r}}
    OBVIOUS
  <1> HIDE DEF c, m, r, k
  <1>8. NetType(p, s, c, b)
    <2>4. IsFiniteSet(q) /\ q \subseteq StreamRequest
      BY DEF Net, NetType
    <2>5. IsFiniteSet(q \cup {r}) /\ q \cup {r} \subseteq StreamRequest
      BY <1>4, <2>4, FS_AddElement
    <2>1. IsFiniteSet(p) /\ p \subseteq StreamRequest
      BY <1>7, <2>4, <2>5
    <2>2. IsFiniteSet(DOMAIN c) /\ DOMAIN c \cap DOMAIN b = {} /\ DOMAIN c \cup DOMAIN b \subseteq Lane \X Nat
      BY <1>1, <1>2, FS_AddElement DEF Net, NetType
    <2>3. \A x \in p : x.type = "FileBatchOpen" => Once(x.files)
      BY <1>4, <1>7 DEF Net, NetType
    <2> QED
      BY <1>3, <2>1, <2>2, <2>3 DEF Net, NetType
  <1>9. IdsFresh(p, s, c, b, m)
    <2>1. \A y \in DOMAIN c \cup DOMAIN b : y[2] < m[y[1]]
      BY <1>2, <1>5, <1>6 DEF Net, IdsFresh
    <2>2. \A x \in p : x.sid < m[x.lane]
      BY <1>4, <1>5, <1>6, <1>7 DEF Net, IdsFresh
    <2>3. \A x, y \in p : Key(x) = Key(y) => x = y
      BY <1>1, <1>4, <1>5, <1>7 DEF Net, IdsFresh
    <2> QED
      BY <1>5, <2>1, <2>2, <2>3 DEF Net, IdsFresh
  <1>10. AnswersKnown(p, s, c, b, h)
    <2>1. \A x \in p : /\ x.type = "FileOpen" => Key(x) \notin DOMAIN b /\ (h[x.lane] => Key(x) \in DOMAIN c)
                       /\ x.type # "FileOpen" => Key(x) \notin DOMAIN c /\ (h[x.lane] => Key(x) \in DOMAIN b)
      BY <1>1, <1>2, <1>4, <1>7 DEF Net, AnswersKnown
    <2> QED
      BY <1>1, <1>2, <2>1 DEF Net, AnswersKnown, OnStream, StreamTypes
  <1>11. Grammar(p, s)
    BY <1>1, <1>4, <1>7 DEF Net, Grammar
  <1>12. HeaderFirst(p, s, b)
    BY <1>1, <1>4, <1>7 DEF Net, HeaderFirst
  <1>13. ChunksFit(e, p, s, b)
    <2>1. \A y, room : Fits(q, s, y, room) => Fits(p, s, y, room)
      BY <1>4, <1>7 DEF Fits
    <2> QED
      BY <2>1 DEF Net, ChunksFit
  <1>14. Net(e, p, s, c, b, h, m)
    BY <1>8, <1>9, <1>10, <1>11, <1>12, <1>13 DEF Net
  <1> QED
    BY <1>14 DEF c, m, k

\* A batch is asked for.
LEMMA NetBatch ==
    ASSUME NEW e, NEW q, NEW s, NEW d, NEW b, NEW h, NEW n \in [Lane -> Nat],
           Net(e, q, s, d, b, h, n), NEW l \in Lane, NEW fs \in Seq(Small), Once(fs)
    PROVE  Net(e, q \cup {[type |-> "FileBatchOpen", lane |-> l, sid |-> n[l], files |-> fs]}, s, d,
               With(b, <<l, n[l]>>, [headerReady |-> FALSE, waiting |-> <<>>]), h,
               [n EXCEPT ![l] = @ + 1])
  <1> DEFINE k == <<l, n[l]>>
             v == [headerReady |-> FALSE, waiting |-> <<>>]
             c == With(b, k, v)
             m == [n EXCEPT ![l] = @ + 1]
             r == [type |-> "FileBatchOpen", lane |-> l, sid |-> n[l], files |-> fs]
             p == q \cup {r}
  <1>1. /\ k \in Lane \X Nat /\ k \notin DOMAIN d /\ k \notin DOMAIN b
        /\ \A x \in q : Key(x) # k
        /\ \A i \in DOMAIN s : OnStream(s[i]) => Key(s[i]) # k
    BY FreshId
  <1>2. DOMAIN c = DOMAIN b \cup {k} /\ c[k] = v /\ \A y \in DOMAIN b : c[y] = b[y]
    BY <1>1 DEF With
  <1>15. v \in Batch /\ v.headerReady = FALSE /\ v.waiting = <<>> /\ Once(v.waiting)
    BY DEF Batch, Once
  <1>3. c \in [DOMAIN c -> Batch]
    <2>1. c = [y \in DOMAIN b \cup {k} |-> c[y]]
      BY <1>1 DEF With
    <2>2. \A y \in DOMAIN b : b[y] \in Batch
      BY DEF Net, NetType
    <2> HIDE DEF c
    <2> QED
      BY <1>2, <1>15, <2>1, <2>2
  <1>4. /\ r \in StreamRequest /\ r.type = "FileBatchOpen" /\ Key(r) = k /\ r.lane = l
        /\ r.sid = n[l] /\ r.files = fs
    BY DEF StreamRequest, BatchRequest, Key
  <1>5. Net(e, q, s, d, b, h, m)
    BY NetSkips
  <1>6. m[l] = n[l] + 1 /\ n[l] \in Nat /\ k[1] = l /\ k[2] = n[l] /\ n[l] < m[l]
    OBVIOUS
  <1> HIDE DEF c, m, r, k, v
  <1>8. NetType(p, s, d, c)
    <2>1. IsFiniteSet(p) /\ p \subseteq StreamRequest
      BY <1>4, FS_AddElement DEF Net, NetType
    <2>2. IsFiniteSet(DOMAIN c) /\ DOMAIN d \cap DOMAIN c = {} /\ DOMAIN d \cup DOMAIN c \subseteq Lane \X Nat
      BY <1>1, <1>2, FS_AddElement DEF Net, NetType
    <2>3. \A x \in p : x.type = "FileBatchOpen" => Once(x.files)
      BY <1>4 DEF Net, NetType
    <2>4. \A y \in DOMAIN c : Once(c[y].waiting)
      BY <1>2, <1>15 DEF Net, NetType
    <2> QED
      BY <1>3, <2>1, <2>2, <2>3, <2>4 DEF Net, NetType
  <1>9. IdsFresh(p, s, d, c, m)
    <2>1. \A y \in DOMAIN d \cup DOMAIN c : y[2] < m[y[1]]
      BY <1>2, <1>5, <1>6 DEF Net, IdsFresh
    <2>2. \A x \in p : x.sid < m[x.lane]
      BY <1>4, <1>5, <1>6 DEF Net, IdsFresh
    <2>3. \A x, y \in p : Key(x) = Key(y) => x = y
      BY <1>1, <1>4, <1>5 DEF Net, IdsFresh
    <2> QED
      BY <1>5, <2>1, <2>2, <2>3 DEF Net, IdsFresh
  <1>10. AnswersKnown(p, s, d, c, h)
    <2>1. \A x \in p : /\ x.type = "FileOpen" => Key(x) \notin DOMAIN c /\ (h[x.lane] => Key(x) \in DOMAIN d)
                       /\ x.type # "FileOpen" => Key(x) \notin DOMAIN d /\ (h[x.lane] => Key(x) \in DOMAIN c)
      BY <1>1, <1>2, <1>4 DEF Net, AnswersKnown
    <2> QED
      BY <1>1, <1>2, <2>1 DEF Net, AnswersKnown, OnStream, StreamTypes
  <1>11. Grammar(p, s)
    BY <1>1, <1>4 DEF Net, Grammar
  <1>16. \A i \in DOMAIN s : ~HeaderAt(s, k, i)
    BY <1>1 DEF HeaderAt, OnStream, StreamTypes
  <1>12. HeaderFirst(p, s, c)
    <2>1. ASSUME NEW y \in DOMAIN b
          PROVE  /\ b[y].headerReady =>
                       /\ \A x \in p : Key(x) = y => x.type = "batch"
                       /\ \A i \in DOMAIN s : ~HeaderAt(s, y, i)
                 /\ ~b[y].headerReady =>
                       /\ b[y].waiting = <<>>
                       /\ \A x \in p : x.type = "batch" /\ Key(x) = y => \E i \in DOMAIN s : HeaderAt(s, y, i)
                       /\ \A j \in DOMAIN s : OnStream(s[j]) /\ Key(s[j]) = y =>
                             \E i \in DOMAIN s : i <= j /\ HeaderAt(s, y, i)
      BY <1>1, <1>4 DEF Net, HeaderFirst
    <2>2. \A x \in p : x.type = "batch" => Key(x) # k
      BY <1>1, <1>4
    <2> QED
      BY <1>1, <1>2, <1>15, <2>1, <2>2 DEF HeaderFirst
  <1>13. ChunksFit(e, p, s, c)
    <2>1. \A y, room : Fits(q, s, y, room) => Fits(p, s, y, room)
      BY <1>4 DEF Fits
    <2> QED
      BY <1>2, <1>15, <1>16, <2>1 DEF Net, ChunksFit
  <1>14. Net(e, p, s, d, c, h, m)
    BY <1>8, <1>9, <1>10, <1>11, <1>12, <1>13 DEF Net
  <1> QED
    BY <1>14 DEF c, m, k, r, v

-----------------------------------------------------------------------------
(* Lane slots.                                                             *)

StreamsOn(D, l) == {k \in D : k[1] = l}

\* LanesExact of the stream keys D, of healthy, drained and inFlight.
Exact(D, h, dr, fl) ==
    \A l \in Lane :
        /\ h[l] => fl[l] = Cardinality(StreamsOn(D, l))
        /\ dr[l] => ~h[l] /\ fl[l] = 0 /\ StreamsOn(D, l) = {}
        /\ fl[l] <= StreamLimit

LEMMA LanesExactIs ==
    /\ LanesExact <=> Exact(DOMAIN activeDownloads \cup DOMAIN activeBatches, healthy, drained, inFlight)
    /\ LanesExact' <=> Exact(DOMAIN activeDownloads' \cup DOMAIN activeBatches', healthy', drained', inFlight')
  BY DEF LanesExact, Exact, Streams, StreamsOn

LEMMA ExactDies ==
    ASSUME NEW D, NEW h, NEW dr, NEW fl, Exact(D, h, dr, fl),
           NEW g, \A l \in Lane : g[l] => h[l]
    PROVE  Exact(D, g, dr, fl)
  BY DEF Exact

\* A stream is opened on a healthy lane with a free slot.
LEMMA ExactOpens ==
    ASSUME NEW D, IsFiniteSet(D), NEW h, NEW dr, NEW fl \in [Lane -> Nat], Exact(D, h, dr, fl),
           NEW l \in Lane, h[l], fl[l] < StreamLimit, NEW k, k[1] = l, k \notin D
    PROVE  Exact(D \cup {k}, h, dr, [fl EXCEPT ![l] = @ + 1])
  <1> DEFINE gl == [fl EXCEPT ![l] = @ + 1]
  <1>1. \A m \in Lane : m # l => StreamsOn(D \cup {k}, m) = StreamsOn(D, m) /\ gl[m] = fl[m]
    BY DEF StreamsOn
  <1>2. gl[l] = fl[l] + 1 /\ fl[l] \in Nat
    OBVIOUS
  <1>3. StreamsOn(D \cup {k}, l) = StreamsOn(D, l) \cup {k} /\ k \notin StreamsOn(D, l)
    BY DEF StreamsOn
  <1>4. IsFiniteSet(StreamsOn(D, l))
    BY FS_Subset DEF StreamsOn
  <1>5. Cardinality(StreamsOn(D \cup {k}, l)) = Cardinality(StreamsOn(D, l)) + 1
    BY <1>3, <1>4, FS_AddElement
  <1>6. StreamLimit \in Nat
    BY ClientAssumption
  <1> HIDE DEF gl
  <1>7. ASSUME NEW m \in Lane
        PROVE  /\ h[m] => gl[m] = Cardinality(StreamsOn(D \cup {k}, m))
               /\ dr[m] => ~h[m] /\ gl[m] = 0 /\ StreamsOn(D \cup {k}, m) = {}
               /\ gl[m] <= StreamLimit
    <2>1. CASE m = l
      BY <1>2, <1>5, <1>6, <2>1 DEF Exact
    <2>2. CASE m # l
      BY <1>1, <2>2 DEF Exact
    <2> QED
      BY <2>1, <2>2
  <1> QED
    BY <1>7 DEF Exact, gl

\* A stream is entered on a lane that fails.
LEMMA ExactEnters ==
    ASSUME NEW D, NEW h \in [Lane -> BOOLEAN], NEW dr, NEW fl, Exact(D, h, dr, fl),
           NEW l \in Lane, h[l], NEW k, k[1] = l
    PROVE  Exact(D \cup {k}, [h EXCEPT ![l] = FALSE], dr, fl)
  <1>1. \A m \in Lane : m # l => StreamsOn(D \cup {k}, m) = StreamsOn(D, m)
    BY DEF StreamsOn
  <1>2. \A m \in Lane : [h EXCEPT ![l] = FALSE][m] <=> h[m] /\ m # l
    OBVIOUS
  <1> QED
    BY <1>1, <1>2 DEF Exact

\* What a lane's slot count becomes when a stream ends.
Released(fl, l) == [fl EXCEPT ![l] = IF @ > 0 THEN @ - 1 ELSE 0]

\* A stream is closed, or one that is not there on a lane that is down.
LEMMA ExactCloses ==
    ASSUME NEW D, IsFiniteSet(D), NEW h, NEW dr, NEW fl \in [Lane -> Nat], Exact(D, h, dr, fl),
           NEW l \in Lane, NEW k, k[1] = l, k \in D \/ ~h[l]
    PROVE  Exact(D \ {k}, h, dr, Released(fl, l)) /\ Released(fl, l) \in [Lane -> Nat]
  <1> DEFINE gl == Released(fl, l)
  <1>1. \A m \in Lane : m # l => StreamsOn(D \ {k}, m) = StreamsOn(D, m) /\ gl[m] = fl[m]
    BY DEF StreamsOn, Released
  <1>2. gl[l] = (IF fl[l] > 0 THEN fl[l] - 1 ELSE 0) /\ fl[l] \in Nat
    BY DEF Released
  <1>3. StreamsOn(D \ {k}, l) = StreamsOn(D, l) \ {k}
    BY DEF StreamsOn
  <1>4. IsFiniteSet(StreamsOn(D, l))
    BY FS_Subset DEF StreamsOn
  <1>5. StreamLimit \in Nat /\ Cardinality(StreamsOn(D, l)) \in Nat
    BY <1>4, FS_CardinalityType, ClientAssumption
  <1>6. k \in D => Cardinality(StreamsOn(D \ {k}, l)) = Cardinality(StreamsOn(D, l)) - 1
                   /\ Cardinality(StreamsOn(D, l)) > 0 /\ StreamsOn(D, l) # {}
    <2>1. SUFFICES ASSUME k \in D
                   PROVE  Cardinality(StreamsOn(D \ {k}, l)) = Cardinality(StreamsOn(D, l)) - 1
                          /\ Cardinality(StreamsOn(D, l)) > 0 /\ StreamsOn(D, l) # {}
      OBVIOUS
    <2>2. k \in StreamsOn(D, l)
      BY <2>1 DEF StreamsOn
    <2>3. Cardinality(StreamsOn(D, l) \ {k}) = Cardinality(StreamsOn(D, l)) - 1
      BY <1>4, <2>2, FS_RemoveElement
    <2>4. Cardinality(StreamsOn(D, l)) # 0
      BY <1>4, <2>2, FS_EmptySet
    <2>5. Cardinality(StreamsOn(D \ {k}, l)) = Cardinality(StreamsOn(D, l)) - 1
      BY <1>3, <2>3
    <2>6. Cardinality(StreamsOn(D, l)) > 0
      BY <1>5, <2>4
    <2> QED
      BY <2>2, <2>5, <2>6
  <1>9. gl \in [Lane -> Nat]
    BY DEF Released
  <1> HIDE DEF gl
  <1>7. ASSUME NEW m \in Lane
        PROVE  /\ h[m] => gl[m] = Cardinality(StreamsOn(D \ {k}, m))
               /\ dr[m] => ~h[m] /\ gl[m] = 0 /\ StreamsOn(D \ {k}, m) = {}
               /\ gl[m] <= StreamLimit
    <2>1. CASE m = l
      BY <1>2, <1>3, <1>5, <1>6, <2>1 DEF Exact
    <2>2. CASE m # l
      BY <1>1, <2>2 DEF Exact
    <2> QED
      BY <2>1, <2>2
  <1> QED
    BY <1>7, <1>9 DEF Exact, gl

\* The streams of the lanes in dead, all of them down, are forgotten.
LEMMA ExactDrains ==
    ASSUME NEW D, NEW h, NEW dr, NEW fl \in [Lane -> Nat], Exact(D, h, dr, fl),
           NEW dead, \A l \in dead : ~h[l],
           NEW C, \A l \in Lane : StreamsOn(C, l) = IF l \in dead THEN {} ELSE StreamsOn(D, l),
           NEW er, \A l \in Lane : er[l] <=> dr[l] \/ l \in dead,
           NEW gl, \A l \in Lane : gl[l] = IF l \in dead THEN 0 ELSE fl[l]
    PROVE  Exact(C, h, er, gl)
  <1>2. StreamLimit \in Nat
    BY ClientAssumption
  <1>5. \A l \in Lane :
           /\ h[l] => fl[l] = Cardinality(StreamsOn(D, l))
           /\ dr[l] => ~h[l] /\ fl[l] = 0 /\ StreamsOn(D, l) = {}
           /\ fl[l] <= StreamLimit
    BY DEF Exact
  <1>6. \A l \in Lane : l \in dead => ~h[l] /\ gl[l] = 0 /\ StreamsOn(C, l) = {} /\ 0 <= StreamLimit
    BY <1>2
  <1>7. \A l \in Lane : l \notin dead => gl[l] = fl[l] /\ StreamsOn(C, l) = StreamsOn(D, l) /\ (er[l] => dr[l])
    OBVIOUS
  <1> QED
    BY <1>5, <1>6, <1>7 DEF Exact

\* pickConnection returns a healthy lane with a free slot.
LEMMA PickIs ==
    ASSUME LaneType, NEW forced, PickConnection(forced) # NoLane
    PROVE  LET l == PickConnection(forced)
           IN  l \in Lane /\ healthy[l] /\ inFlight[l] < StreamLimit
  <1> DEFINE bias(l) == IF l = Primary /\ ~manifestDone THEN 1 ELSE 0
             lanes == [l \in Lane |-> [healthy |-> healthy[l], inFlight |-> inFlight[l],
                                       weight |-> 1, bias |-> bias(l)]]
             free == {l \in Lane : healthy[l] /\ inFlight[l] < StreamLimit}
             E == IF forced /\ lanes[0].healthy THEN free \cap {0} ELSE free
             load(l) == inFlight[l] + bias(l)
             least == {l \in E : \A m \in E : ~(load(m) < load(l))}
  <1>1. PickConnection(forced) = IF E = {} THEN NoLane ELSE Min(least)
    <2>1. {l \in DOMAIN lanes : lanes[l].healthy /\ lanes[l].inFlight < StreamLimit} = free
      OBVIOUS
    <2>2. \A l \in Lane : /\ lanes[l].inFlight = inFlight[l] /\ lanes[l].bias = bias(l)
                          /\ lanes[l].weight = 1 /\ load(l) \in Nat
      BY DEF LaneType
    <2>3. \A l, m \in Lane : LessLoaded(lanes[m], lanes[l]) <=> load(m) < load(l)
      BY <2>2 DEF LessLoaded, LaneType
    <2>4. E \subseteq Lane
      OBVIOUS
    <2>5. {l \in E : \A m \in E : ~LessLoaded(lanes[m], lanes[l])} = least
      BY <2>3, <2>4
    <2> HIDE DEF least
    <2> QED
      BY <2>1, <2>5 DEF PickConnection, SelectLeastLoadedLane
  <1>6. \A l \in E : load(l) \in Nat
    BY DEF LaneType
  <1>7. E \subseteq free /\ free \subseteq Lane
    OBVIOUS
  <1>8. Lane \subseteq Nat
    BY ClientAssumption DEF Lane
  <1>9. \A l \in free : healthy[l] /\ inFlight[l] < StreamLimit
    OBVIOUS
  <1> HIDE DEF E, load, free
  <1>2. E # {}
    BY <1>1
  <1>3. least # {}
    <2> DEFINE Loads == {load(l) : l \in E}
    <2>1. Loads \subseteq Nat /\ Loads # {}
      BY <1>2, <1>6
    <2>2. PICK l \in E : \A z \in Loads : load(l) <= z
      BY <2>1, LeastOf
    <2>4. \A m \in E : load(l) <= load(m) /\ load(l) \in Nat /\ load(m) \in Nat
      BY <1>6, <2>2
    <2>5. l \in least
      BY <2>4
    <2> QED
      BY <2>5
  <1>10. least \subseteq E
    OBVIOUS
  <1> HIDE DEF least
  <1>4. Min(least) \in least
    BY <1>3, <1>7, <1>8, <1>10, LeastOf
  <1> QED
    BY <1>1, <1>2, <1>4, <1>7, <1>9, <1>10

LEMMA NextLaneIs ==
    ASSUME LaneType, NextLane # NoLane
    PROVE  NextLane \in Lane /\ healthy[NextLane] /\ inFlight[NextLane] < StreamLimit
  BY PickIs DEF NextLane

-----------------------------------------------------------------------------
(* The places of a file.                                                   *)

Stage(f) ==
    In(f, File \ remoteFiles) + In(f, DOMAIN comparing) + In(f, hashRequested \ work.resolved)
Singles(d, f) == Cardinality({k \in DOMAIN d : d[k] = f})
Waits(b, f) == Cardinality({k \in DOMAIN b : f \in ToSet(b[k].waiting)})
AsksFor(m, f) == m.type = "FileBatchOpen" /\ f \in ToSet(m.files)
Headers(q, s, b, f) == {m \in q \cup ToSet(s) : AsksFor(m, f) /\ Key(m) \in DOMAIN b}
Headerless(q, s, b, f) == Cardinality(Headers(q, s, b, f))

\* What the network holds of a file.
Fetching(q, s, d, b, f) == Singles(d, f) + Waits(b, f) + Headerless(q, s, b, f)

PlaceType == LoopType /\ NetInv

LEMMA HeadersFinite ==
    ASSUME NEW q, NEW s, NEW d, NEW b, NetType(q, s, d, b), NEW f
    PROVE  /\ IsFiniteSet(Headers(q, s, b, f)) /\ Headerless(q, s, b, f) \in Nat
           /\ IsFiniteSet({k \in DOMAIN d : d[k] = f}) /\ Singles(d, f) \in Nat
           /\ IsFiniteSet({k \in DOMAIN b : f \in ToSet(b[k].waiting)}) /\ Waits(b, f) \in Nat
           /\ Fetching(q, s, d, b, f) \in Nat
  <1>1. IsFiniteSet(q) /\ s \in Seq(Frames) /\ IsFiniteSet(DOMAIN d) /\ IsFiniteSet(DOMAIN b)
    BY DEF NetType
  <1>2. IsFiniteSet(ToSet(s))
    BY <1>1, SetWithinLen
  <1>3. IsFiniteSet(q \cup ToSet(s))
    BY <1>1, <1>2, FS_Union
  <1>4. IsFiniteSet(Headers(q, s, b, f))
    BY <1>3, FS_Subset DEF Headers
  <1>5. IsFiniteSet({k \in DOMAIN d : d[k] = f})
    BY <1>1, FS_Subset
  <1>6. IsFiniteSet({k \in DOMAIN b : f \in ToSet(b[k].waiting)})
    BY <1>1, FS_Subset
  <1>7. Headerless(q, s, b, f) \in Nat
    BY <1>4, FS_CardinalityType DEF Headerless
  <1>8. Singles(d, f) \in Nat
    BY <1>5, FS_CardinalityType DEF Singles
  <1>9. Waits(b, f) \in Nat
    BY <1>6, FS_CardinalityType DEF Waits
  <1> QED
    BY <1>4, <1>5, <1>6, <1>7, <1>8, <1>9 DEF Fetching

LEMMA OneOrNone ==
    ASSUME NEW x, NEW y, NEW S, NEW T, x \in S => T = {y}, x \notin S => T = {}
    PROVE  IsFiniteSet(T) /\ Cardinality(T) = In(x, S)
  <1>1. IsFiniteSet({y}) /\ Cardinality({y}) = 1 /\ IsFiniteSet({}) /\ Cardinality({}) = 0
    BY FS_EmptySet, FS_Singleton
  <1>2. CASE x \in S
    BY <1>1, <1>2 DEF In
  <1>3. CASE x \notin S
    BY <1>1, <1>3 DEF In
  <1> QED
    BY <1>2, <1>3

LEMMA StageIs ==
    ASSUME NEW f \in File
    PROVE  Cardinality({p \in {"listing", "compare", "fallback"} :
                          \/ p = "listing" /\ f \notin remoteFiles
                          \/ p = "compare" /\ f \in DOMAIN comparing
                          \/ p = "fallback" /\ f \in hashRequested \ work.resolved})
              = Stage(f)
  <1> DEFINE SA == {p \in {"listing"} : f \notin remoteFiles}
             SB == {p \in {"compare"} : f \in DOMAIN comparing}
             SC == {p \in {"fallback"} : f \in hashRequested \ work.resolved}
             S == {p \in {"listing", "compare", "fallback"} :
                          \/ p = "listing" /\ f \notin remoteFiles
                          \/ p = "compare" /\ f \in DOMAIN comparing
                          \/ p = "fallback" /\ f \in hashRequested \ work.resolved}
  <1> DEFINE XA == File \ remoteFiles
             XB == DOMAIN comparing
             XC == hashRequested \ work.resolved
  <1>12. /\ (f \in XA => SA = {"listing"}) /\ (f \notin XA => SA = {})
         /\ (f \in XB => SB = {"compare"}) /\ (f \notin XB => SB = {})
         /\ (f \in XC => SC = {"fallback"}) /\ (f \notin XC => SC = {})
    OBVIOUS
  <1>1. S = (SA \cup SB) \cup SC
    OBVIOUS
  <1>5. SA \cap SB = {} /\ (SA \cup SB) \cap SC = {}
    OBVIOUS
  <1> HIDE DEF SA, SB, SC, XA, XB, XC
  <1>2. /\ IsFiniteSet(SA) /\ Cardinality(SA) = In(f, XA)
    BY <1>12, OneOrNone
  <1>3. /\ IsFiniteSet(SB) /\ Cardinality(SB) = In(f, XB)
    BY <1>12, OneOrNone
  <1>4. /\ IsFiniteSet(SC) /\ Cardinality(SC) = In(f, XC)
    BY <1>12, OneOrNone
  <1>6. IsFiniteSet(SA \cup SB) /\ Cardinality(SA \cup SB) = Cardinality(SA) + Cardinality(SB) - Cardinality(SA \cap SB)
    BY <1>2, <1>3, FS_Union
  <1>7. Cardinality((SA \cup SB) \cup SC) = Cardinality(SA \cup SB) + Cardinality(SC) - Cardinality((SA \cup SB) \cap SC)
    BY <1>4, <1>6, FS_Union
  <1>8. Cardinality({}) = 0
    BY FS_EmptySet
  <1>9. Cardinality(S) = Cardinality((SA \cup SB) \cup SC)
    BY <1>1
  <1>10. In(f, XA) \in {0, 1} /\ In(f, XB) \in {0, 1} /\ In(f, XC) \in {0, 1}
    BY DEF In
  <1> HIDE DEF S
  <1> DEFINE a == In(f, XA)
             b == In(f, XB)
             c == In(f, XC)
             ab == Cardinality(SA \cup SB)
             abc == Cardinality((SA \cup SB) \cup SC)
  <1>13. ab = a + b - 0 /\ abc = ab + c - 0 /\ a \in {0, 1} /\ b \in {0, 1} /\ c \in {0, 1}
    BY <1>2, <1>3, <1>4, <1>5, <1>6, <1>7, <1>8, <1>10
  <1>14. Cardinality(S) = abc /\ Stage(f) = a + b + c
    BY <1>9 DEF Stage, XA, XB, XC
  <1> HIDE DEF a, b, c, ab, abc
  <1>11. Cardinality(S) = Stage(f)
    BY <1>13, <1>14
  <1> QED
    BY <1>11 DEF S

\* Places, as a sum of named parts.
LEMMA PlacesIs ==
    PlaceType => \A f \in File :
       Places(f) = Stage(f) + Held(work, f) + Fetching(Requests, Coming, activeDownloads, activeBatches, f)
  <1> SUFFICES ASSUME PlaceType, NEW f \in File
               PROVE  Places(f) = Stage(f) + Held(work, f)
                         + Fetching(Requests, Coming, activeDownloads, activeBatches, f)
    OBVIOUS
  <1>1. /\ work \in Work /\ readyFrames \in Seq(Frames) /\ incomingPriority \in Seq(Frames)
        /\ NetType(Requests, Coming, activeDownloads, activeBatches)
    <2>1. incomingPriority \in Seq(PlainFrame \cup Header \cup HashAnswer)
      BY DEF PlaceType, LoopType
    <2>2. incomingPriority \in Seq(Frames)
      BY <2>1 DEF Frames
    <2> QED
      BY <2>2 DEF PlaceType, LoopType, NetInv, Net
  <1> DEFINE stage == Cardinality({p \in {"listing", "compare", "fallback"} :
                          \/ p = "listing" /\ f \notin remoteFiles
                          \/ p = "compare" /\ f \in DOMAIN comparing
                          \/ p = "fallback" /\ f \in hashRequested \ work.resolved})
             occ == Occurrences(f, work.pendingBatch \o work.pending \o work.retryBatch \o work.retry)
             singles == Cardinality({k \in DOMAIN activeDownloads : activeDownloads[k] = f})
             waits == Cardinality({k \in DOMAIN activeBatches : Contains(activeBatches[k].waiting, f)})
             heads == Cardinality(HeaderlessBatches(f))
             tasks == Cardinality({f} \cap work.ioTasks)
             done == Cardinality({r \in work.ioResults : r[1] = f})
             verd == Len(work.verdicts[f])
  <1>2. Places(f) = stage + occ + singles + waits + heads + tasks + done + verd
    BY DEF Places
  <1>3. stage = Stage(f)
    BY StageIs
  <1>4. occ = Queued(work, f)
    <2> DEFINE a == work.pendingBatch
               b == work.pending
               c == work.retryBatch
               d == work.retry
    <2>1. a \in Seq(File) /\ b \in Seq(File) /\ c \in Seq(File) /\ d \in Seq(File)
      <3>1. Small \subseteq File
        BY ClientAssumption
      <3> QED
        BY <1>1, <3>1, WorkHas
    <2> HIDE DEF a, b, c, d
    <2>2. a \o b \in Seq(File)
      BY <2>1
    <2>3. (a \o b) \o c \in Seq(File)
      BY <2>1, <2>2
    <2>4. Occurrences(f, a \o b) = Occurrences(f, a) + Occurrences(f, b)
      BY <2>1, OccConcat
    <2>5. Occurrences(f, (a \o b) \o c) = Occurrences(f, a \o b) + Occurrences(f, c)
      BY <2>1, <2>2, OccConcat
    <2>6. Occurrences(f, ((a \o b) \o c) \o d) = Occurrences(f, (a \o b) \o c) + Occurrences(f, d)
      BY <2>1, <2>3, OccConcat
    <2>7. Occurrences(f, ((a \o b) \o c) \o d)
             = Occurrences(f, a) + Occurrences(f, b) + Occurrences(f, c) + Occurrences(f, d)
      BY <2>4, <2>5, <2>6
    <2> QED
      BY <2>7 DEF Queued, a, b, c, d
  <1>5. singles = Singles(activeDownloads, f)
    BY DEF Singles
  <1>6. waits = Waits(activeBatches, f)
    <2>1. \A k \in DOMAIN activeBatches : activeBatches[k].waiting \in Seq(Small)
      BY <1>1 DEF NetType, Batch
    <2>2. \A k \in DOMAIN activeBatches : Contains(activeBatches[k].waiting, f)
                                             <=> f \in ToSet(activeBatches[k].waiting)
      BY <2>1 DEF Contains, ToSet
    <2>3. {k \in DOMAIN activeBatches : Contains(activeBatches[k].waiting, f)}
             = {k \in DOMAIN activeBatches : f \in ToSet(activeBatches[k].waiting)}
      BY <2>2
    <2> QED
      BY <2>3 DEF Waits
  <1>7. heads = Headerless(Requests, Coming, activeBatches, f)
    <2>1. ToSet(Coming) = ToSet(incomingPriority) \cup ToSet(readyFrames)
      <3>1. DOMAIN Coming = 1 .. (Len(readyFrames) + Len(incomingPriority))
        BY <1>1 DEF Coming
      <3>2. \A i \in 1 .. Len(readyFrames) : i \in DOMAIN Coming /\ Coming[i] = readyFrames[i]
        BY <1>1 DEF Coming
      <3>3. \A i \in 1 .. Len(incomingPriority) :
               i + Len(readyFrames) \in DOMAIN Coming /\ Coming[i + Len(readyFrames)] = incomingPriority[i]
        BY <1>1 DEF Coming
      <3>4. \A i \in DOMAIN Coming :
               \/ i \in 1 .. Len(readyFrames)
               \/ i - Len(readyFrames) \in 1 .. Len(incomingPriority) /\ i = (i - Len(readyFrames)) + Len(readyFrames)
        BY <1>1, <3>1
      <3>5. DOMAIN readyFrames = 1 .. Len(readyFrames) /\ DOMAIN incomingPriority = 1 .. Len(incomingPriority)
        BY <1>1
      <3>6. ToSet(Coming) \subseteq ToSet(incomingPriority) \cup ToSet(readyFrames)
        BY <3>2, <3>3, <3>4, <3>5 DEF ToSet
      <3>7. ToSet(incomingPriority) \cup ToSet(readyFrames) \subseteq ToSet(Coming)
        BY <3>2, <3>3, <3>5 DEF ToSet
      <3> QED
        BY <3>6, <3>7
    <2>2. HeaderlessBatches(f) = Headers(Requests, Coming, activeBatches, f)
      BY <2>1 DEF HeaderlessBatches, Headers, AsksFor, Key, Requests
    <2> QED
      BY <2>2 DEF Headerless
  <1>8. tasks = In(f, work.ioTasks)
    <2>1. {f} \cap work.ioTasks = IF f \in work.ioTasks THEN {f} ELSE {}
      OBVIOUS
    <2>2. Cardinality({f}) = 1 /\ Cardinality({}) = 0
      BY FS_EmptySet, FS_Singleton
    <2> QED
      BY <2>1, <2>2 DEF In
  <1>9. done = Results(work, f) /\ verd = Counted(work, f)
    BY DEF Results, Counted
  <1>10. /\ Queued(work, f) \in Nat /\ Results(work, f) \in Nat /\ Counted(work, f) \in Nat
         /\ In(f, work.ioTasks) \in Nat
    BY <1>1, HeldType
  <1>11. /\ Singles(activeDownloads, f) \in Nat /\ Waits(activeBatches, f) \in Nat
         /\ Headerless(Requests, Coming, activeBatches, f) \in Nat
    BY <1>1, HeadersFinite
  <1>12. Stage(f) \in Nat
    BY DEF Stage, In
  <1> HIDE DEF stage, occ, singles, waits, heads, tasks, done, verd
  <1> QED
    BY <1>2, <1>3, <1>4, <1>5, <1>6, <1>7, <1>8, <1>9, <1>10, <1>11, <1>12 DEF Held, Fetching

LEMMA PlacesNext ==
    PlaceType' => (\A f \in File :
       Places(f) = Stage(f) + Held(work, f) + Fetching(Requests, Coming, activeDownloads, activeBatches, f))'
  BY PlacesIs, PTL

Load(f) == Stage(f) + Held(work, f) + Fetching(Requests, Coming, activeDownloads, activeBatches, f)

LEMMA PlaceKeeps ==
    ASSUME PlaceType, PlaceType', PlaceInv,
           \A f \in File : Load(f)' <= Load(f) /\ (f \notin Small => Load(f) <= Load(f)'),
           IoBal(work')
    PROVE  PlaceInv'
  <1>1. \A f \in File : Places(f) = Load(f)
    BY PlacesIs DEF Load
  <1>2. \A f \in File : Places(f)' = Load(f)'
    BY PlacesNext DEF Load
  <1>3. \A f \in File : Load(f) \in Nat
    <2>1. NetType(Requests, Coming, activeDownloads, activeBatches) /\ work \in Work
      BY DEF PlaceType, NetInv, Net, LoopType
    <2>2. ASSUME NEW f \in File
          PROVE  Load(f) \in Nat
      <3>1. Held(work, f) \in Nat
        BY <2>1, HeldType
      <3>2. Fetching(Requests, Coming, activeDownloads, activeBatches, f) \in Nat
        BY <2>1, HeadersFinite
      <3>3. Stage(f) \in Nat
        BY DEF Stage, In
      <3> QED
        BY <3>1, <3>2, <3>3 DEF Load
    <2> QED
      BY <2>2
  <1>4. \A f \in File : Load(f)' \in Nat
    <2>1. NetType(Requests', Coming', activeDownloads', activeBatches') /\ work' \in Work
      BY DEF PlaceType, NetInv, Net, LoopType
    <2>2. ASSUME NEW f \in File
          PROVE  Load(f)' \in Nat
      <3>1. Held(work', f) \in Nat
        BY <2>1, HeldType
      <3>2. Fetching(Requests', Coming', activeDownloads', activeBatches', f) \in Nat
        BY <2>1, HeadersFinite
      <3>3. Stage(f)' \in Nat
        BY DEF Stage, In
      <3> QED
        BY <3>1, <3>2, <3>3 DEF Load
    <2> QED
      BY <2>2
  <1> DEFINE N(f) == Load(f)'
  <1>5. \A f \in File : N(f) \in Nat /\ N(f) <= Load(f) /\ (f \notin Small => Load(f) <= N(f)) /\ Places(f)' = N(f)
    BY <1>2, <1>4
  <1> HIDE DEF N
  <1>6. \A f \in File : Load(f) <= 1 /\ (f \notin Small => Load(f) = 1)
    BY <1>1 DEF PlaceInv
  <1>7. \A f \in File : N(f) <= 1 /\ (f \notin Small => N(f) = 1)
    BY <1>3, <1>5, <1>6
  <1> QED
    BY <1>5, <1>7 DEF PlaceInv, IoBal

-----------------------------------------------------------------------------
(* How the network's part of a file changes.                               *)

LEMMA SetAppend ==
    ASSUME NEW S, NEW s \in Seq(S), NEW m \in S
    PROVE  ToSet(Append(s, m)) = ToSet(s) \cup {m}
  BY AppendIs DEF ToSet

LEMMA SetConcat ==
    ASSUME NEW S, NEW s \in Seq(S), NEW t \in Seq(S)
    PROVE  ToSet(s \o t) = ToSet(s) \cup ToSet(t)
  <1>1. \A i \in 1 .. Len(t) : i + Len(s) \in DOMAIN (s \o t) /\ (s \o t)[i + Len(s)] = t[i]
    OBVIOUS
  <1>2. DOMAIN t = 1 .. Len(t)
    OBVIOUS
  <1>3. ToSet(t) \subseteq ToSet(s \o t)
    BY <1>1, <1>2 DEF ToSet
  <1>4. ToSet(s) \subseteq ToSet(s \o t)
    BY ConcatIs DEF ToSet
  <1>5. ToSet(s \o t) \subseteq ToSet(s) \cup ToSet(t)
    <2> SUFFICES ASSUME NEW i \in DOMAIN (s \o t)
                 PROVE  (s \o t)[i] \in ToSet(s) \cup ToSet(t)
      BY DEF ToSet
    <2>1. CASE i \in DOMAIN s
      BY <2>1, ConcatIs DEF ToSet
    <2>2. CASE i \notin DOMAIN s
      BY <2>2, ConcatIs DEF ToSet
    <2> QED
      BY <2>1, <2>2
  <1> QED
    BY <1>3, <1>4, <1>5

LEMMA SetTail ==
    ASSUME NEW S, NEW s \in Seq(S), s # <<>>
    PROVE  ToSet(s) = {Head(s)} \cup ToSet(Tail(s))
  <1>1. ToSet(s) \subseteq {Head(s)} \cup ToSet(Tail(s))
    <2> SUFFICES ASSUME NEW i \in DOMAIN s
                 PROVE  s[i] \in {Head(s)} \cup ToSet(Tail(s))
      BY DEF ToSet
    <2>1. CASE i = 1
      BY <2>1, TailIs
    <2>2. CASE i # 1
      <3>1. i - 1 \in DOMAIN Tail(s) /\ i \in Nat
        BY <2>2, TailIs
      <3>2. Tail(s)[i - 1] = s[(i - 1) + 1] /\ (i - 1) + 1 = i
        BY <3>1, TailIs
      <3> QED
        BY <3>1, <3>2 DEF ToSet
    <2> QED
      BY <2>1, <2>2
  <1>2. {Head(s)} \cup ToSet(Tail(s)) \subseteq ToSet(s)
    BY TailIs DEF ToSet
  <1> QED
    BY <1>1, <1>2

\* The same headers are to come.
LEMMA FetchSame ==
    ASSUME NEW q, NEW s, NEW p, NEW t, NEW d, NEW b,
           \A m : m.type = "FileBatchOpen" /\ Key(m) \in DOMAIN b =>
                     (m \in q \cup ToSet(s) <=> m \in p \cup ToSet(t))
    PROVE  \A f : Fetching(p, t, d, b, f) = Fetching(q, s, d, b, f)
  <1>1. \A f : Headers(p, t, b, f) = Headers(q, s, b, f)
    BY DEF Headers, AsksFor
  <1> QED
    BY <1>1 DEF Fetching, Headerless

\* A request turns into its header.
LEMMA FetchAnswered ==
    ASSUME NEW e, NEW q, NEW s, NEW d, NEW b, NEW h, NEW n, Net(e, q, s, d, b, h, n),
           NEW r \in q, r.type = "FileBatchOpen", NEW m \in Frames, m.type = "FileBatchOpen",
           Key(m) = Key(r), m.files = r.files, NEW x, x.type # "FileBatchOpen", NEW f
    PROVE  Fetching((q \ {r}) \cup {x}, Append(s, m), d, b, f) = Fetching(q, s, d, b, f)
  <1> DEFINE H == Headers(q, s, b, f)
             G == Headers((q \ {r}) \cup {x}, Append(s, m), b, f)
  <1>1. IsFiniteSet(H)
    BY HeadersFinite DEF Net
  <1>2. s \in Seq(Frames)
    BY DEF Net, NetType
  <1>3. ToSet(Append(s, m)) = ToSet(s) \cup {m}
    BY <1>2, SetAppend
  <1>4. \A y \in ToSet(s) : y.type = "FileBatchOpen" => Key(y) # Key(r)
    BY DEF Net, Grammar, ToSet, OnStream, StreamTypes
  <1>5. r \notin ToSet(s) /\ m \notin ToSet(s)
    BY <1>4
  <1>6. m \notin q
    <2> SUFFICES ASSUME m \in q
                 PROVE  FALSE
      OBVIOUS
    <2>1. m = r
      BY DEF Net, IdsFresh
    <2>2. m \in BatchRequest /\ m \in Header
      BY DEF Net, NetType, StreamRequest, FileRequest, BatchRequest, BatchRest, Frames, PlainFrame,
             Header, HashAnswer, EntryFrame, EndFrame
    <2>3. DOMAIN m = {"type", "lane", "sid", "files"}
      BY <2>2 DEF BatchRequest
    <2>4. "ok" \in DOMAIN m
      BY <2>2 DEF Header
    <2> QED
      BY <2>3, <2>4
  <1>7. CASE r \in H
    <2>1. G = (H \ {r}) \cup {m}
      BY <1>3, <1>5, <1>7 DEF Headers, AsksFor
    <2>2. Cardinality(H \ {r}) = Cardinality(H) - 1 /\ IsFiniteSet(H \ {r})
      BY <1>1, <1>7, FS_RemoveElement
    <2>3. m \notin H \ {r}
      BY <1>5, <1>6 DEF Headers
    <2>4. Cardinality((H \ {r}) \cup {m}) = Cardinality(H \ {r}) + 1
      BY <2>2, <2>3, FS_AddElement
    <2>5. Cardinality(H) \in Nat
      BY <1>1, FS_CardinalityType
    <2>6. Cardinality(G) = Cardinality(H)
      <3> HIDE DEF G, H
      <3> QED BY <2>1, <2>2, <2>4, <2>5
    <2> QED
      BY <2>6 DEF Fetching, Headerless
  <1>8. CASE r \notin H
    <2>1. G = H
      BY <1>3, <1>8 DEF Headers, AsksFor
    <2> QED
      BY <2>1 DEF Fetching, Headerless
  <1> QED
    BY <1>7, <1>8

\* Streams are forgotten.
LEMMA FetchForgets ==
    ASSUME NEW q, NEW s, NEW d, NEW b, NetType(q, s, d, b), NEW ks, NEW f
    PROVE  LET lost == Cardinality({k \in DOMAIN d : d[k] = f} \cap ks)
                          + Cardinality({k \in DOMAIN b : f \in ToSet(b[k].waiting)} \cap ks)
           IN  /\ Fetching(q, s, Without(d, ks), Without(b, ks), f) + lost <= Fetching(q, s, d, b, f)
               /\ f \notin Small =>
                     Fetching(q, s, Without(d, ks), Without(b, ks), f) + lost = Fetching(q, s, d, b, f)
  <1> DEFINE c == Without(d, ks)
             g == Without(b, ks)
             A == {k \in DOMAIN d : d[k] = f}
             B == {k \in DOMAIN b : f \in ToSet(b[k].waiting)}
  <1>1. /\ IsFiniteSet(Headers(q, s, b, f)) /\ IsFiniteSet(A) /\ IsFiniteSet(B)
        /\ Headerless(q, s, b, f) \in Nat
    <2>1. IsFiniteSet(Headers(q, s, b, f)) /\ Headerless(q, s, b, f) \in Nat
      BY HeadersFinite
    <2>2. IsFiniteSet(DOMAIN d) /\ IsFiniteSet(DOMAIN b)
      BY DEF NetType
    <2>3. IsFiniteSet(A) /\ IsFiniteSet(B)
      BY <2>2, FS_Subset
    <2> QED
      BY <2>1, <2>3
  <1>2. {k \in DOMAIN c : c[k] = f} = A \ ks
    BY DEF Without, Restrict
  <1>3. {k \in DOMAIN g : f \in ToSet(g[k].waiting)} = B \ ks
    BY DEF Without, Restrict
  <1>4. Headers(q, s, g, f) \subseteq Headers(q, s, b, f)
    BY DEF Headers, Without, Restrict
  <1>5. Headerless(q, s, g, f) <= Headerless(q, s, b, f) /\ Headerless(q, s, g, f) \in Nat
    BY <1>1, <1>4, FS_Subset, FS_CardinalityType DEF Headerless
  <1>6. f \notin Small => Headerless(q, s, g, f) = 0 /\ Headerless(q, s, b, f) = 0
    <2> SUFFICES ASSUME f \notin Small
                 PROVE  Headerless(q, s, g, f) = 0 /\ Headerless(q, s, b, f) = 0
      OBVIOUS
    <2>1. \A m \in q : m.type = "FileBatchOpen" => m.files \in Seq(Small)
      BY RequestIs DEF NetType
    <2>2. \A m \in ToSet(s) : m.type = "FileBatchOpen" => m.files \in Seq(Small)
      BY FrameIs DEF NetType, ToSet
    <2>3. Headers(q, s, b, f) = {}
      BY <2>1, <2>2 DEF Headers, AsksFor, ToSet
    <2>4. Headers(q, s, g, f) = {}
      BY <1>4, <2>3
    <2> QED
      BY <2>3, <2>4, FS_EmptySet DEF Headerless
  <1>7. /\ Cardinality(A) \in Nat /\ Cardinality(A \ ks) \in Nat /\ Cardinality(A \cap ks) \in Nat
        /\ Cardinality(A) = Cardinality(A \ ks) + Cardinality(A \cap ks)
    BY <1>1, CardSplit
  <1>8. /\ Cardinality(B) \in Nat /\ Cardinality(B \ ks) \in Nat /\ Cardinality(B \cap ks) \in Nat
        /\ Cardinality(B) = Cardinality(B \ ks) + Cardinality(B \cap ks)
    BY <1>1, CardSplit
  <1>9. Singles(c, f) = Cardinality(A \ ks) /\ Singles(d, f) = Cardinality(A)
    BY <1>2 DEF Singles
  <1>10. Waits(g, f) = Cardinality(B \ ks) /\ Waits(b, f) = Cardinality(B)
    BY <1>3 DEF Waits
  <1> HIDE DEF A, B, c, g
  <1>11. /\ Fetching(q, s, c, g, f) + (Cardinality(A \cap ks) + Cardinality(B \cap ks)) <= Fetching(q, s, d, b, f)
         /\ f \notin Small =>
              Fetching(q, s, c, g, f) + (Cardinality(A \cap ks) + Cardinality(B \cap ks)) = Fetching(q, s, d, b, f)
    BY <1>1, <1>5, <1>6, <1>7, <1>8, <1>9, <1>10 DEF Fetching
  <1> QED
    BY <1>11 DEF A, B, c, g

\* A file stream is opened.
LEMMA FetchDownload ==
    ASSUME NEW q, NEW s, NEW d, NEW b, NetType(q, s, d, b), NEW k, k \notin DOMAIN d, NEW g, NEW f,
           NEW p, \A m : m.type = "FileBatchOpen" => (m \in p <=> m \in q)
    PROVE  Fetching(p, s, With(d, k, g), b, f) = Fetching(q, s, d, b, f) + Is(f, g)
  <1> DEFINE A == {x \in DOMAIN d : d[x] = f}
             B == {x \in DOMAIN With(d, k, g) : With(d, k, g)[x] = f}
  <1>0. Waits(b, f) \in Nat /\ Headerless(q, s, b, f) \in Nat
    BY HeadersFinite
  <1>8. IsFiniteSet(DOMAIN d)
    BY DEF NetType
  <1>1. IsFiniteSet(A) /\ k \notin A
    BY <1>8, FS_Subset
  <1>2. B = IF f = g THEN A \cup {k} ELSE A
    BY DEF With
  <1>3. Cardinality(A) \in Nat /\ Cardinality(A \cup {k}) = Cardinality(A) + 1
    BY <1>1, FS_AddElement, FS_CardinalityType
  <1>4. Singles(d, f) = Cardinality(A) /\ Singles(With(d, k, g), f) = Cardinality(B)
    BY DEF Singles
  <1> HIDE DEF A, B
  <1>5. Singles(With(d, k, g), f) = Singles(d, f) + Is(f, g) /\ Singles(d, f) \in Nat
    BY <1>2, <1>3, <1>4 DEF Is
  <1>6. Headerless(p, s, b, f) = Headerless(q, s, b, f)
    <2>1. Headers(p, s, b, f) = Headers(q, s, b, f)
      BY DEF Headers, AsksFor
    <2> QED
      BY <2>1 DEF Headerless
  <1>7. Is(f, g) \in {0, 1}
    BY DEF Is
  <1> QED
    BY <1>0, <1>5, <1>6, <1>7 DEF Fetching

\* A batch is asked for.
LEMMA FetchBatch ==
    ASSUME NEW e, NEW q, NEW s, NEW d, NEW b, NEW h, NEW n \in [Lane -> Nat],
           Net(e, q, s, d, b, h, n), NEW l \in Lane, NEW fs, NEW f
    PROVE  Fetching(q \cup {[type |-> "FileBatchOpen", lane |-> l, sid |-> n[l], files |-> fs]}, s, d,
                    With(b, <<l, n[l]>>, [headerReady |-> FALSE, waiting |-> <<>>]), f)
              = Fetching(q, s, d, b, f) + In(f, ToSet(fs))
  <1> DEFINE k == <<l, n[l]>>
             v == [headerReady |-> FALSE, waiting |-> <<>>]
             c == With(b, k, v)
             r == [type |-> "FileBatchOpen", lane |-> l, sid |-> n[l], files |-> fs]
             H == Headers(q, s, b, f)
             G == Headers(q \cup {r}, s, c, f)
  <1>1. /\ k \notin DOMAIN b /\ (\A x \in q : Key(x) # k)
        /\ \A i \in DOMAIN s : OnStream(s[i]) => Key(s[i]) # k
    BY FreshId
  <1>2. IsFiniteSet(H) /\ Singles(d, f) \in Nat /\ Waits(b, f) \in Nat
    BY HeadersFinite DEF Net
  <1>3. Key(r) = k /\ r.type = "FileBatchOpen" /\ r.files = fs /\ v.waiting = <<>>
    BY DEF Key
  <1> HIDE DEF k, v, r
  <1>4. DOMAIN c = DOMAIN b \cup {k} /\ c[k] = v /\ \A y \in DOMAIN b : c[y] = b[y]
    BY <1>1 DEF c, With
  <1> HIDE DEF c
  <1>5. \A m \in q \cup ToSet(s) : m.type = "FileBatchOpen" => Key(m) # k
    BY <1>1 DEF ToSet, OnStream, StreamTypes
  <1>6. G = IF f \in ToSet(fs) THEN H \cup {r} ELSE H
    BY <1>3, <1>4, <1>5 DEF Headers, AsksFor
  <1>7. r \notin H
    BY <1>3, <1>5 DEF Headers
  <1>8. Cardinality(H) \in Nat /\ Cardinality(H \cup {r}) = Cardinality(H) + 1
    BY <1>2, <1>7, FS_AddElement, FS_CardinalityType
  <1>9. Headerless(q, s, b, f) = Cardinality(H) /\ Headerless(q \cup {r}, s, c, f) = Cardinality(G)
    BY DEF Headerless
  <1> HIDE DEF H, G
  <1>10. Headerless(q \cup {r}, s, c, f) = Headerless(q, s, b, f) + In(f, ToSet(fs))
    BY <1>6, <1>8, <1>9 DEF In
  <1>11. Waits(c, f) = Waits(b, f)
    <2>1. f \notin ToSet(v.waiting)
      BY <1>3 DEF ToSet
    <2>2. {y \in DOMAIN c : f \in ToSet(c[y].waiting)} = {y \in DOMAIN b : f \in ToSet(b[y].waiting)}
      BY <1>1, <1>4, <2>1
    <2> QED
      BY <2>2 DEF Waits
  <1>12. In(f, ToSet(fs)) \in {0, 1} /\ Headerless(q, s, b, f) \in Nat
    BY <1>8, <1>9 DEF In
  <1>13. Fetching(q \cup {r}, s, d, c, f) = Fetching(q, s, d, b, f) + In(f, ToSet(fs))
    BY <1>2, <1>10, <1>11, <1>12 DEF Fetching
  <1> QED
    BY <1>13 DEF c, k, r, v

\* The header of an open batch is taken: the entries in w wait for their bytes.
LEMMA FetchHeader ==
    ASSUME NEW e, NEW q, NEW s, NEW d, NEW b, NEW h, NEW n, Net(e, q, s, d, b, h, n), s # <<>>,
           Head(s).type = "FileBatchOpen", Key(Head(s)) \in DOMAIN b, NEW w, NEW f
    PROVE  Fetching(q, Tail(s), d,
                    [b EXCEPT ![Key(Head(s))] = [headerReady |-> TRUE, waiting |-> w]], f)
                + In(f, ToSet(Head(s).files))
              = Fetching(q, s, d, b, f) + In(f, ToSet(w))
  <1> DEFINE k == Key(Head(s))
             v == [headerReady |-> TRUE, waiting |-> w]
             c == [b EXCEPT ![k] = v]
             H == Headers(q, s, b, f)
             G == Headers(q, Tail(s), c, f)
  <1>1. s \in Seq(Frames) /\ Head(s) = s[1] /\ 1 \in DOMAIN s /\ OnStream(Head(s))
    BY TailIs DEF Net, NetType, OnStream, StreamTypes
  <1>2. IsFiniteSet(H) /\ Singles(d, f) \in Nat /\ Waits(b, f) \in Nat
    BY HeadersFinite DEF Net
  <1>18. IsFiniteSet(DOMAIN b)
    BY DEF Net, NetType
  <1>3. v.waiting = w
    OBVIOUS
  <1>4. DOMAIN c = DOMAIN b /\ c[k] = v /\ \A y \in DOMAIN b : y # k => c[y] = b[y]
    BY DEF Net, NetType
  <1>5. HeaderAt(s, k, 1)
    BY <1>1 DEF HeaderAt
  <1>6. ~b[k].headerReady /\ b[k].waiting = <<>>
    BY <1>1, <1>5 DEF Net, HeaderFirst
  <1>7. \A m \in q \cup ToSet(Tail(s)) : m.type = "FileBatchOpen" => Key(m) # k
    <2>1. \A m \in q : m.type = "FileBatchOpen" => Key(m) # k
      BY <1>1 DEF Net, Grammar
    <2>2. ASSUME NEW i \in DOMAIN Tail(s), Tail(s)[i].type = "FileBatchOpen"
          PROVE  Key(Tail(s)[i]) # k
      <3>1. i + 1 \in DOMAIN s /\ Tail(s)[i] = s[i + 1] /\ 1 < i + 1
        BY <1>1, TailIs
      <3>2. OnStream(s[i + 1]) /\ s[i + 1].type = "FileBatchOpen"
        BY <2>2, <3>1 DEF OnStream, StreamTypes
      <3> QED
        BY <1>1, <3>1, <3>2 DEF Net, Grammar
    <2> QED
      BY <2>1, <2>2 DEF ToSet
  <1> HIDE DEF k, v, c
  <1>8. ToSet(s) = {Head(s)} \cup ToSet(Tail(s))
    BY <1>1, SetTail
  <1>9. H = IF f \in ToSet(Head(s).files) THEN G \cup {Head(s)} ELSE G
    BY <1>4, <1>8 DEF Headers, AsksFor, k
  <1>10. Head(s) \notin G
    BY <1>7 DEF Headers, AsksFor, k
  <1>11. IsFiniteSet(G)
    BY <1>2, <1>9, FS_Subset
  <1>12. Cardinality(G) \in Nat /\ Cardinality(G \cup {Head(s)}) = Cardinality(G) + 1
    BY <1>10, <1>11, FS_AddElement, FS_CardinalityType
  <1>13. Headerless(q, s, b, f) = Cardinality(H) /\ Headerless(q, Tail(s), c, f) = Cardinality(G)
    BY DEF Headerless
  <1> HIDE DEF H, G
  <1>14. /\ Headerless(q, s, b, f) = Headerless(q, Tail(s), c, f) + In(f, ToSet(Head(s).files))
         /\ Headerless(q, Tail(s), c, f) \in Nat
    BY <1>9, <1>12, <1>13 DEF In
  <1>15. Waits(c, f) = Waits(b, f) + In(f, ToSet(w))
    <2> DEFINE A == {y \in DOMAIN b : f \in ToSet(b[y].waiting)}
               B == {y \in DOMAIN c : f \in ToSet(c[y].waiting)}
    <2>1. k \notin A
      BY <1>6 DEF ToSet
    <2>2. B = IF f \in ToSet(w) THEN A \cup {k} ELSE A
      BY <1>3, <1>4, <2>1 DEF k
    <2>5. IsFiniteSet(A)
      BY <1>18, FS_Subset
    <2>3. Cardinality(A) \in Nat /\ Cardinality(A \cup {k}) = Cardinality(A) + 1
      BY <2>1, <2>5, FS_AddElement, FS_CardinalityType
    <2>4. Waits(c, f) = Cardinality(B) /\ Waits(b, f) = Cardinality(A)
      BY DEF Waits
    <2> HIDE DEF A, B
    <2> QED
      BY <2>2, <2>3, <2>4 DEF In
  <1>16. In(f, ToSet(w)) \in {0, 1} /\ In(f, ToSet(Head(s).files)) \in {0, 1}
    BY DEF In
  <1>17. Fetching(q, Tail(s), d, c, f) + In(f, ToSet(Head(s).files)) = Fetching(q, s, d, b, f) + In(f, ToSet(w))
    BY <1>2, <1>14, <1>15, <1>16 DEF Fetching
  <1> QED
    BY <1>17 DEF c, k, v

\* The first waiting entry of a batch gets its bytes.
LEMMA FetchChunk ==
    ASSUME NEW q, NEW s, NEW d, NEW b, NetType(q, s, d, b), NEW k \in DOMAIN b, b[k].waiting # <<>>, NEW f
    PROVE  Fetching(q, s, d, [b EXCEPT ![k].waiting = Tail(@)], f) + Is(f, Head(b[k].waiting))
              = Fetching(q, s, d, b, f)
  <1> DEFINE w == b[k].waiting
             c == [b EXCEPT ![k].waiting = Tail(@)]
             A == {y \in DOMAIN b : f \in ToSet(b[y].waiting)}
             B == {y \in DOMAIN c : f \in ToSet(c[y].waiting)}
  <1>1. w \in Seq(Small) /\ Once(w) /\ b[k] \in Batch /\ b \in [DOMAIN b -> Batch]
    BY DEF NetType, Batch
  <1>2. DOMAIN c = DOMAIN b /\ c[k].waiting = Tail(w) /\ \A y \in DOMAIN b : y # k => c[y] = b[y]
    BY <1>1 DEF Batch
  <1>3. ToSet(w) = {Head(w)} \cup ToSet(Tail(w))
    BY <1>1, SetTail
  <1>4. Head(w) \notin ToSet(Tail(w))
    <2> SUFFICES ASSUME NEW i \in DOMAIN Tail(w), Tail(w)[i] = Head(w)
                 PROVE  FALSE
      BY DEF ToSet
    <2>1. i + 1 \in DOMAIN w /\ w[i + 1] = w[1] /\ 1 \in DOMAIN w /\ 1 < i + 1 /\ i \in Nat
      BY <1>1, TailIs
    <2> QED
      BY <1>1, <2>1 DEF Once
  <1>5. Singles(d, f) \in Nat /\ Waits(b, f) \in Nat /\ Headerless(q, s, b, f) \in Nat
    BY HeadersFinite
  <1>13. IsFiniteSet(DOMAIN b)
    BY DEF NetType
  <1>14. IsFiniteSet(A)
    BY <1>13, FS_Subset
  <1>6. A = (IF f = Head(w) THEN B \cup {k} ELSE B) /\ (f = Head(w) => k \notin B)
    <2> HIDE DEF c
    <2> QED BY <1>2, <1>3, <1>4
  <1>7. IsFiniteSet(B)
    BY <1>14, <1>6, FS_Subset
  <1>8. Cardinality(B) \in Nat /\ (f = Head(w) => Cardinality(B \cup {k}) = Cardinality(B) + 1)
    BY <1>6, <1>7, FS_AddElement, FS_CardinalityType
  <1>9. Waits(c, f) = Cardinality(B) /\ Waits(b, f) = Cardinality(A)
    BY DEF Waits
  <1>10. Headerless(q, s, c, f) = Headerless(q, s, b, f)
    BY <1>2 DEF Headerless, Headers
  <1> HIDE DEF A, B, c
  <1>11. Waits(b, f) = Waits(c, f) + Is(f, Head(w)) /\ Waits(c, f) \in Nat /\ Is(f, Head(w)) \in {0, 1}
    BY <1>6, <1>8, <1>9 DEF Is
  <1>12. Fetching(q, s, d, c, f) + Is(f, Head(w)) = Fetching(q, s, d, b, f)
    BY <1>5, <1>10, <1>11 DEF Fetching
  <1> QED
    BY <1>12 DEF c

-----------------------------------------------------------------------------
(* What a step leaves alone keeps its invariant.                           *)

Shrinks == \A l \in Lane : healthy'[l] => healthy[l]

LEMMA NetKept ==
    ASSUME NetInv, healthy' \in [Lane -> BOOLEAN], Shrinks, Requests' = Requests, Coming' = Coming,
           UNCHANGED <<empty, activeDownloads, activeBatches, nextStreamId>>
    PROVE  NetInv'
  <1>1. Net(empty, Requests, Coming, activeDownloads, activeBatches, healthy', nextStreamId)
    BY NetDies DEF NetInv, Shrinks
  <1> QED
    BY <1>1 DEF NetInv

LEMMA LanesKept ==
    ASSUME LanesExact, Shrinks, UNCHANGED <<drained, inFlight>>,
           DOMAIN activeDownloads' = DOMAIN activeDownloads, DOMAIN activeBatches' = DOMAIN activeBatches
    PROVE  LanesExact'
  BY DEF LanesExact, Streams, Shrinks

LEMMA ManifestKept ==
    ASSUME ManifestInv, UNCHANGED <<toList, endSent, remoteFiles, manifestBatch, incomingManifest,
                                    readyFrames, manifestDone>>
    PROVE  ManifestInv'
  BY DEF ManifestInv, ListedOnce, EndLast, Occurrences

\* No new hash requests and answers.
HashQuiet ==
    /\ IsFiniteSet(asked') /\ asked' \subseteq HashRequest \cup StreamRequest
    /\ \A r \in asked' : r.type = "HashRequest" => r \in asked
    /\ \A i \in DOMAIN Coming' : Coming'[i].type = "HashResponse" =>
          \E j \in DOMAIN Coming : Coming'[i] = Coming[j]

LEMMA HashKept ==
    ASSUME HashInv, HashQuiet, UNCHANGED hashVars, UNCHANGED remoteFiles,
           DOMAIN comparing' = DOMAIN comparing, SameHash(work, work')
    PROVE  HashInv'
  <1>1. UNCHANGED <<pendingHash, hashRequested, hashSent, hashReceived, localHash, fallbackReady>>
    BY DEF hashVars
  <1>2. work'.resolved = work.resolved /\ work'.scheduled = work.scheduled
    BY DEF SameHash
  <1>3. \A r \in asked' : r.type = "HashRequest" => r.rel \in hashRequested
    BY DEF HashInv, HashQuiet
  <1>4. \A i \in DOMAIN Coming' : Coming'[i].type = "HashResponse" => Coming'[i].rel \in hashRequested
    BY DEF HashInv, HashQuiet
  <1> QED
    BY <1>1, <1>2, <1>3, <1>4 DEF HashInv, HashQuiet

LEMMA QuietSame ==
    ASSUME HashInv, UNCHANGED asked, Coming' = Coming
    PROVE  HashQuiet /\ Requests' = Requests
  BY DEF HashInv, HashQuiet, Requests

LEMMA PlaceSame ==
    ASSUME PlaceType, PlaceType', PlaceInv, IoBal(work'),
           \A f \in File : Stage(f)' + Held(work', f) = Stage(f) + Held(work, f),
           \A f \in File : Fetching(Requests', Coming', activeDownloads', activeBatches', f)
                              = Fetching(Requests, Coming, activeDownloads, activeBatches, f)
    PROVE  PlaceInv'
  <1>1. ASSUME NEW f \in File
        PROVE  Load(f)' = Load(f) /\ Load(f) \in Nat
    <2>1. NetType(Requests, Coming, activeDownloads, activeBatches) /\ work \in Work /\ work' \in Work
      BY DEF PlaceType, NetInv, Net, LoopType
    <2>2. Held(work, f) \in Nat /\ Held(work', f) \in Nat
      BY <2>1, HeldType
    <2>3. Fetching(Requests, Coming, activeDownloads, activeBatches, f) \in Nat
      BY <2>1, HeadersFinite
    <2>4. Stage(f) \in Nat /\ Stage(f)' \in Nat
      BY DEF Stage, In
    <2>5. Stage(f)' + Held(work', f) = Stage(f) + Held(work, f)
      OBVIOUS
    <2>6. Fetching(Requests', Coming', activeDownloads', activeBatches', f)
             = Fetching(Requests, Coming, activeDownloads, activeBatches, f)
      OBVIOUS
    <2>7. Load(f) = (Stage(f) + Held(work, f)) + Fetching(Requests, Coming, activeDownloads, activeBatches, f)
      BY DEF Load
    <2>8. Load(f)' = (Stage(f)' + Held(work', f)) + Fetching(Requests', Coming', activeDownloads', activeBatches', f)
      BY DEF Load
    <2>9. Load(f)' = Load(f)
      BY <2>5, <2>6, <2>7, <2>8
    <2> QED
      BY <2>2, <2>3, <2>4, <2>7, <2>9
  <1>2. \A f \in File : Load(f)' <= Load(f) /\ (f \notin Small => Load(f) <= Load(f)')
    <2> TAKE f \in File
    <2>1. Load(f)' = Load(f) /\ Load(f) \in Nat
      BY <1>1
    <2> HIDE DEF Load
    <2> QED
      BY <2>1
  <1> QED
    BY <1>2, PlaceKeeps

StageSame ==
    UNCHANGED <<remoteFiles, hashRequested>> /\ DOMAIN comparing' = DOMAIN comparing
        /\ work'.resolved = work.resolved

LEMMA StageKept ==
    ASSUME StageSame
    PROVE  \A f : Stage(f)' = Stage(f)
  BY DEF StageSame, Stage

LEMMA PlaceKept ==
    ASSUME PlaceType, PlaceType', PlaceInv, UNCHANGED <<work, activeDownloads, activeBatches>>, StageSame,
           Requests' = Requests, Coming' = Coming
    PROVE  PlaceInv'
  <1>1. IoBal(work')
    BY DEF PlaceInv, IoBal
  <1>2. \A f \in File : Stage(f)' + Held(work', f) = Stage(f) + Held(work, f)
    BY StageKept
  <1> QED
    BY <1>1, <1>2, PlaceSame

LEMMA InvParts ==
    ASSUME Inv
    PROVE  /\ LaneType /\ LoopType /\ NetInv /\ LanesExact /\ ManifestInv /\ HashInv /\ PlaceInv
           /\ PlaceType /\ IoBal(work) /\ work \in Work
           /\ readyFrames \in Seq(Frames) /\ incomingPriority \in Seq(Frames)
           /\ Coming \in Seq(Frames) /\ Requests \subseteq StreamRequest
           /\ NetType(Requests, Coming, activeDownloads, activeBatches)
           /\ Net(empty, Requests, Coming, activeDownloads, activeBatches, healthy, nextStreamId)
  <1>1. incomingPriority \in Seq(PlainFrame \cup Header \cup HashAnswer)
    BY DEF Inv, LoopType
  <1>2. incomingPriority \in Seq(Frames)
    BY <1>1 DEF Frames
  <1>3. Net(empty, Requests, Coming, activeDownloads, activeBatches, healthy, nextStreamId)
    BY DEF Inv, NetInv
  <1>4. NetType(Requests, Coming, activeDownloads, activeBatches)
    BY <1>3 DEF Net
  <1>5. Coming \in Seq(Frames) /\ Requests \subseteq StreamRequest
    BY <1>4 DEF NetType
  <1> QED
    BY <1>2, <1>3, <1>4, <1>5 DEF Inv, PlaceType, PlaceInv, IoBal, LoopType

\* The invariant after a step of a running session that does not end complete.
LEMMA InvNext ==
    ASSUME LaneType', LoopType', NetInv', LanesExact', ManifestInv', HashInv', PlaceInv',
           result' # "complete"
    PROVE  Inv'
  BY DEF Inv, CompleteHasFullView

-----------------------------------------------------------------------------
(* The worker pools and failing lanes.                                     *)

LEMMA CompareFinishesStep ==
    ASSUME Inv, Running, NEW f \in File, CompareFinishes(f)
    PROVE  Inv'
  <1> USE InvParts
  <1>1. /\ UNCHANGED connVars /\ UNCHANGED serverVars /\ UNCHANGED frameVars /\ UNCHANGED mainVars
        /\ UNCHANGED hashVars /\ UNCHANGED <<activeDownloads, activeBatches, work>>
    BY DEF CompareFinishes
  <1>2. Coming' = Coming /\ UNCHANGED asked
    BY <1>1 DEF Coming, frameVars, serverVars
  <1>3. HashQuiet /\ Requests' = Requests
    BY <1>2, QuietSame
  <1>4. /\ DOMAIN comparing' = DOMAIN comparing
        /\ comparing' \in [DOMAIN comparing -> {"queued", "TransferNow", "Skip", "Hash"}]
    BY ClientAssumption DEF CompareFinishes, LoopType
  <1>5. LaneType'
    BY <1>1 DEF LaneType, connVars
  <1>6. LoopType'
    BY <1>1, <1>4 DEF LoopType, serverVars, frameVars, mainVars
  <1>7. NetInv'
    BY <1>1, <1>2, <1>3, <1>5, NetKept DEF connVars, serverVars, Shrinks, LaneType
  <1>8. LanesExact'
    BY <1>1, LanesKept DEF connVars, Shrinks
  <1>9. ManifestInv'
    BY <1>1, ManifestKept DEF serverVars, frameVars, mainVars
  <1>10. HashInv'
    BY <1>1, <1>3, <1>4, HashKept DEF mainVars, SameHash
  <1>11. StageSame
    BY <1>1, <1>4 DEF StageSame, mainVars, hashVars
  <1>12. PlaceInv'
    BY <1>1, <1>2, <1>3, <1>6, <1>7, <1>11, PlaceKept DEF PlaceType
  <1>13. result' # "complete"
    BY <1>1 DEF Running, mainVars
  <1> QED
    BY <1>5, <1>6, <1>7, <1>8, <1>9, <1>10, <1>12, <1>13, InvNext

\* The hash pool's steps.
LEMMA HashWorkerStep ==
    ASSUME Inv, Running, NEW f \in File, HashStarts(f) \/ HashFinishes(f)
    PROVE  Inv'
  <1> USE InvParts
  <1>1. /\ UNCHANGED connVars /\ UNCHANGED serverVars /\ UNCHANGED frameVars /\ UNCHANGED mainVars
        /\ UNCHANGED <<comparing, pendingHash, hashRequested, hashSent, hashReceived>>
        /\ UNCHANGED <<activeDownloads, activeBatches, work>>
    BY DEF HashStarts, HashFinishes
  <1>2. Coming' = Coming /\ UNCHANGED asked
    BY <1>1 DEF Coming, frameVars, serverVars
  <1>3. HashQuiet /\ Requests' = Requests
    BY <1>2, QuietSame
  <1>5. LaneType'
    BY <1>1 DEF LaneType, connVars
  <1>6. LoopType'
    BY <1>1 DEF LoopType, serverVars, frameVars, mainVars
  <1>7. NetInv'
    BY <1>1, <1>2, <1>3, <1>5, NetKept DEF connVars, serverVars, Shrinks, LaneType
  <1>8. LanesExact'
    BY <1>1, LanesKept DEF connVars, Shrinks
  <1>9. ManifestInv'
    BY <1>1, ManifestKept DEF serverVars, frameVars, mainVars
  <1>10. HashInv'
    <2>1. f \in hashRequested
      BY DEF HashStarts, HashFinishes, HashInv
    <2>2. DOMAIN localHash' = File /\ \A g \in File : localHash'[g] # "none" => g \in hashRequested
      BY <2>1 DEF HashStarts, HashFinishes, HashInv
    <2>5. fallbackReady \in Seq(hashRequested)
      BY DEF HashInv
    <2>6. fallbackReady' = fallbackReady \/ fallbackReady' = Append(fallbackReady, f)
      BY DEF HashStarts, HashFinishes
    <2>3. fallbackReady' \in Seq(hashRequested)
      <3>1. Append(fallbackReady, f) \in Seq(hashRequested)
        BY <2>1, <2>5, AppendType
      <3> QED
        BY <2>5, <2>6, <3>1
    <2>4. UNCHANGED remoteFiles
      BY <1>1 DEF mainVars
    <2> QED
      BY <1>1, <1>2, <2>2, <2>3, <2>4 DEF HashInv
  <1>11. StageSame
    BY <1>1 DEF StageSame, mainVars
  <1>12. PlaceInv'
    BY <1>1, <1>2, <1>3, <1>6, <1>7, <1>11, PlaceKept DEF PlaceType
  <1>13. result' # "complete"
    BY <1>1 DEF Running, mainVars
  <1> QED
    BY <1>5, <1>6, <1>7, <1>8, <1>9, <1>10, <1>12, <1>13, InvNext

\* What WriteFinishes does to the write pool.
LEMMA WrittenIs ==
    ASSUME NEW w \in Work, NEW f \in w.ioTasks, NEW ok \in BOOLEAN, IoBal(w), Results(w, f) = 0
    PROVE  LET v == [w EXCEPT !.ioTasks = @ \ {f}, !.ioResults = @ \cup {<<f, ok>>}]
           IN  /\ v \in Work /\ SameHash(w, v) /\ IoBal(v)
               /\ \A g \in File : Held(v, g) = Held(w, g)
  <1> DEFINE v == [w EXCEPT !.ioTasks = @ \ {f}, !.ioResults = @ \cup {<<f, ok>>}]
             r == <<f, ok>>
  <1>1. f \in File /\ w.ioTasks \subseteq File /\ w.ioResults \subseteq File \X BOOLEAN
    BY WorkHas
  <1>2. v \in Work
    <2>1. w.ioTasks \ {f} \in SUBSET File /\ w.ioResults \cup {r} \in SUBSET (File \X BOOLEAN)
      BY <1>1
    <2> QED
      BY <2>1 DEF Work
  <1>3. /\ v.ioTasks = w.ioTasks \ {f} /\ v.ioResults = w.ioResults \cup {r}
        /\ v.ioOutstanding = w.ioOutstanding /\ SameHash(w, v)
        /\ v.pendingBatch = w.pendingBatch /\ v.pending = w.pending /\ v.retryBatch = w.retryBatch
        /\ v.retry = w.retry /\ v.verdicts = w.verdicts
    BY DEF Work, SameHash
  <1>4. IsFiniteSet(w.ioTasks) /\ IsFiniteSet(w.ioResults)
        /\ IsFiniteSet({x \in w.ioResults : x[1] = f})
    BY ResultsFinite
  <1>5. {x \in w.ioResults : x[1] = f} = {}
    <2>1. Cardinality({x \in w.ioResults : x[1] = f}) = 0
      BY DEF Results
    <2> QED
      BY <1>4, <2>1, FS_EmptySet
  <1>6. r \notin w.ioResults /\ r[1] = f
    BY <1>5
  <1>7. Cardinality(w.ioTasks \ {f}) = Cardinality(w.ioTasks) - 1 /\ Cardinality(w.ioTasks) \in Nat
    BY <1>4, FS_RemoveElement, FS_CardinalityType
  <1>8. Cardinality(w.ioResults \cup {r}) = Cardinality(w.ioResults) + 1 /\ Cardinality(w.ioResults) \in Nat
    BY <1>4, <1>6, FS_AddElement, FS_CardinalityType
  <1> HIDE DEF v, r
  <1>9. IoBal(v)
    BY <1>3, <1>7, <1>8 DEF IoBal
  <1>10. ASSUME NEW g \in File
         PROVE  Held(v, g) = Held(w, g)
    <2>1. Queued(v, g) = Queued(w, g) /\ Counted(v, g) = Counted(w, g)
      BY <1>3 DEF Queued, Counted
    <2>2. CASE g # f
      <3>1. {x \in v.ioResults : x[1] = g} = {x \in w.ioResults : x[1] = g}
        BY <1>3, <1>6, <2>2
      <3>2. In(g, v.ioTasks) = In(g, w.ioTasks)
        BY <1>3, <2>2 DEF In
      <3> QED
        BY <2>1, <3>1, <3>2 DEF Held, Results
    <2>3. CASE g = f
      <3>1. {x \in v.ioResults : x[1] = f} = {r}
        BY <1>3, <1>5, <1>6
      <3>2. Results(v, f) = 1
        BY <3>1, FS_Singleton DEF Results
      <3>3. In(f, v.ioTasks) = 0 /\ In(f, w.ioTasks) = 1
        BY <1>3 DEF In
      <3>4. Queued(w, f) \in Nat /\ Counted(w, f) \in Nat
        BY <1>1, HeldType
      <3> QED
        BY <2>1, <2>3, <3>2, <3>3, <3>4 DEF Held
    <2> QED
      BY <2>2, <2>3
  <1> QED
    BY <1>2, <1>3, <1>9, <1>10 DEF v

\* A file in one stage is in no other.
LEMMA Alone ==
    ASSUME Inv, NEW f \in File
    PROVE  /\ Stage(f) + Held(work, f)
                 + Fetching(Requests, Coming, activeDownloads, activeBatches, f) <= 1
           /\ Stage(f) \in Nat /\ Held(work, f) \in Nat
           /\ Fetching(Requests, Coming, activeDownloads, activeBatches, f) \in Nat
           /\ Queued(work, f) \in Nat /\ In(f, work.ioTasks) \in Nat /\ Results(work, f) \in Nat
           /\ Counted(work, f) \in Nat
           /\ Held(work, f) = Queued(work, f) + In(f, work.ioTasks) + Results(work, f) + Counted(work, f)
  <1>1. PlaceType /\ work \in Work /\ NetType(Requests, Coming, activeDownloads, activeBatches) /\ PlaceInv
    BY InvParts
  <1>2. Places(f) = Stage(f) + Held(work, f) + Fetching(Requests, Coming, activeDownloads, activeBatches, f)
    BY <1>1, PlacesIs
  <1>3. Stage(f) \in Nat
    BY DEF Stage, In
  <1>4. /\ Held(work, f) \in Nat /\ Queued(work, f) \in Nat /\ In(f, work.ioTasks) \in Nat
        /\ Results(work, f) \in Nat /\ Counted(work, f) \in Nat
    BY <1>1, HeldType
  <1>5. Fetching(Requests, Coming, activeDownloads, activeBatches, f) \in Nat
    BY <1>1, HeadersFinite
  <1>6. Places(f) <= 1
    BY <1>1 DEF PlaceInv
  <1> QED
    BY <1>2, <1>3, <1>4, <1>5, <1>6 DEF Held

LEMMA AloneThen ==
    ASSUME Inv, NEW f \in File
    PROVE  LET F == Fetching(Requests, Coming, activeDownloads, activeBatches, f)
           IN  /\ Stage(f) <= 1 /\ Held(work, f) + F \in Nat
               /\ F >= 1 => Held(work, f) = 0 /\ In(f, work.ioTasks) = 0
  <1> DEFINE a == Stage(f)
             h == Held(work, f)
             F == Fetching(Requests, Coming, activeDownloads, activeBatches, f)
             i == Queued(work, f)
             j == In(f, work.ioTasks)
             k == Results(work, f)
             l == Counted(work, f)
  <1>1. /\ a + h + F <= 1 /\ a \in Nat /\ h \in Nat /\ F \in Nat
        /\ i \in Nat /\ j \in Nat /\ k \in Nat /\ l \in Nat /\ h = i + j + k + l
    BY Alone
  <1> HIDE DEF a, h, F, i, j, k, l
  <1>2. a <= 1 /\ h + F \in Nat /\ (F >= 1 => h = 0 /\ j = 0)
    BY <1>1
  <1> QED
    BY <1>2 DEF a, h, F, j

LEMMA WriteFinishesStep ==
    ASSUME Inv, Running, NEW f \in File, WriteFinishes(f)
    PROVE  Inv'
  <1> USE InvParts
  <1>1. /\ UNCHANGED connVars /\ UNCHANGED serverVars /\ UNCHANGED frameVars /\ UNCHANGED mainVars
        /\ UNCHANGED hashVars /\ UNCHANGED <<comparing, activeDownloads, activeBatches>>
    BY DEF WriteFinishes
  <1>2. Coming' = Coming /\ UNCHANGED asked
    BY <1>1 DEF Coming, frameVars, serverVars
  <1>3. HashQuiet /\ Requests' = Requests
    BY <1>2, QuietSame
  <1>4. /\ work' \in Work /\ SameHash(work, work') /\ IoBal(work')
        /\ \A g \in File : Held(work', g) = Held(work, g)
    <2>1. f \in work.ioTasks
      BY DEF WriteFinishes
    <2>2. In(f, work.ioTasks) = 1
      BY <2>1 DEF In
    <2>5. /\ Stage(f) + Held(work, f)
                 + Fetching(Requests, Coming, activeDownloads, activeBatches, f) <= 1
          /\ Stage(f) \in Nat /\ Held(work, f) \in Nat
          /\ Fetching(Requests, Coming, activeDownloads, activeBatches, f) \in Nat
      BY Alone
    <2>6. Held(work, f) <= 1
      BY <2>5
    <2>7. /\ Queued(work, f) \in Nat /\ Results(work, f) \in Nat /\ Counted(work, f) \in Nat
          /\ Held(work, f) = Queued(work, f) + In(f, work.ioTasks) + Results(work, f) + Counted(work, f)
      BY Alone
    <2>3. Results(work, f) = 0
      BY <2>2, <2>6, <2>7
    <2>4. PICK ok \in BOOLEAN : work' = [work EXCEPT !.ioTasks = @ \ {f}, !.ioResults = @ \cup {<<f, ok>>}]
      BY DEF WriteFinishes
    <2> QED
      BY <2>1, <2>3, <2>4, WrittenIs
  <1>5. LaneType'
    BY <1>1 DEF LaneType, connVars
  <1>6. LoopType'
    BY <1>1, <1>4 DEF LoopType, serverVars, frameVars, mainVars
  <1>7. NetInv'
    BY <1>1, <1>2, <1>3, <1>5, NetKept DEF connVars, serverVars, Shrinks, LaneType
  <1>8. LanesExact'
    BY <1>1, LanesKept DEF connVars, Shrinks
  <1>9. ManifestInv'
    BY <1>1, ManifestKept DEF serverVars, frameVars, mainVars
  <1>10. HashInv'
    BY <1>1, <1>3, <1>4, HashKept DEF mainVars
  <1>11. StageSame
    BY <1>1, <1>4 DEF StageSame, mainVars, hashVars, SameHash
  <1>12. PlaceInv'
    <2>1. \A g \in File : Stage(g)' + Held(work', g) = Stage(g) + Held(work, g)
      BY <1>4, <1>11, StageKept
    <2> QED
      BY <1>1, <1>2, <1>3, <1>4, <1>6, <1>7, <2>1, PlaceSame DEF PlaceType
  <1>13. result' # "complete"
    BY <1>1 DEF Running, mainVars
  <1> QED
    BY <1>5, <1>6, <1>7, <1>8, <1>9, <1>10, <1>12, <1>13, InvNext

LEMMA LaneDiesStep ==
    ASSUME Inv, Running, NEW l \in Lane, LaneDies(l)
    PROVE  Inv'
  <1> USE InvParts
  <1>1. /\ UNCHANGED <<drained, inFlight, nextStreamId>> /\ UNCHANGED serverVars /\ UNCHANGED frameVars
        /\ UNCHANGED mainVars /\ UNCHANGED hashVars
        /\ UNCHANGED <<comparing, activeDownloads, activeBatches, work>>
    BY DEF LaneDies
  <1>2. Coming' = Coming /\ UNCHANGED asked
    BY <1>1 DEF Coming, frameVars, serverVars
  <1>3. HashQuiet /\ Requests' = Requests
    BY <1>2, QuietSame
  <1>4. Shrinks
    BY DEF LaneDies, LaneType, Shrinks
  <1>5. LaneType'
    BY <1>1 DEF LaneType, LaneDies
  <1>6. LoopType'
    BY <1>1 DEF LoopType, serverVars, frameVars, mainVars
  <1>7. NetInv'
    BY <1>1, <1>2, <1>3, <1>4, <1>5, NetKept DEF serverVars, LaneType
  <1>8. LanesExact'
    BY <1>1, <1>4, LanesKept
  <1>9. ManifestInv'
    BY <1>1, ManifestKept DEF serverVars, frameVars, mainVars
  <1>10. HashInv'
    BY <1>1, <1>3, HashKept DEF mainVars, SameHash
  <1>11. StageSame
    BY <1>1 DEF StageSame, mainVars, hashVars
  <1>12. PlaceInv'
    BY <1>1, <1>2, <1>3, <1>6, <1>7, <1>11, PlaceKept DEF PlaceType
  <1>13. result' # "complete"
    BY <1>1 DEF Running, mainVars
  <1> QED
    BY <1>5, <1>6, <1>7, <1>8, <1>9, <1>10, <1>12, <1>13, InvNext

-----------------------------------------------------------------------------
(* The manifest.                                                           *)

Listed(f, t, r, m, i, y) ==
    In(f, t) + In(f, r) + Occurrences(Entry(f), m) + Occurrences(Entry(f), i) + Occurrences(Entry(f), y)

LEMMA EntriesDiffer == \A f, g : Entry(f) = Entry(g) <=> f = g
  BY DEF Entry

LEMMA ListedIs ==
    /\ ListedOnce <=> \A f \in File : Listed(f, toList, remoteFiles, manifestBatch, incomingManifest, readyFrames) = 1
    /\ ListedOnce' <=> \A f \in File : Listed(f, toList', remoteFiles', manifestBatch', incomingManifest', readyFrames') = 1
  BY DEF ListedOnce, Listed

ManifestFrame == EntryFrame \cup EndFrame

LEMMA ManifestTypes ==
    ASSUME LoopType
    PROVE  /\ manifestBatch \in Seq(ManifestFrame) /\ incomingManifest \in Seq(ManifestFrame)
           /\ readyFrames \in Seq(Frames)
           /\ \A i \in DOMAIN manifestBatch : manifestBatch[i].type = "ManifestEntry"
           /\ \A f \in File : /\ Entry(f) \in ManifestFrame /\ Entry(f) \in Frames
                              /\ Occurrences(Entry(f), manifestBatch) \in Nat
                              /\ Occurrences(Entry(f), incomingManifest) \in Nat
                              /\ Occurrences(Entry(f), readyFrames) \in Nat
  <1>1. manifestBatch \in Seq(EntryFrame) /\ incomingManifest \in Seq(ManifestFrame) /\ readyFrames \in Seq(Frames)
    BY DEF LoopType, ManifestFrame
  <1>2. manifestBatch \in Seq(ManifestFrame)
    BY <1>1 DEF ManifestFrame
  <1>3. \A i \in DOMAIN manifestBatch : manifestBatch[i].type = "ManifestEntry"
    <2>1. \A i \in DOMAIN manifestBatch : manifestBatch[i] \in EntryFrame
      BY <1>1
    <2>2. \A m \in EntryFrame : m.type = "ManifestEntry"
      BY DEF EntryFrame
    <2> QED
      BY <2>1, <2>2
  <1>4. ASSUME NEW f \in File
        PROVE  /\ Entry(f) \in ManifestFrame /\ Entry(f) \in Frames
               /\ Occurrences(Entry(f), manifestBatch) \in Nat
               /\ Occurrences(Entry(f), incomingManifest) \in Nat
               /\ Occurrences(Entry(f), readyFrames) \in Nat
    <2>1. Entry(f) \in ManifestFrame /\ Entry(f) \in Frames
      BY DEF Entry, ManifestFrame, EntryFrame, Frames
    <2>2. Occurrences(Entry(f), manifestBatch) \in Nat
      BY <1>2, OccType
    <2>3. Occurrences(Entry(f), incomingManifest) \in Nat
      BY <1>1, OccType
    <2>4. Occurrences(Entry(f), readyFrames) \in Nat
      BY <1>1, OccType
    <2> QED
      BY <2>1, <2>2, <2>3, <2>4
  <1> QED
    BY <1>1, <1>2, <1>3, <1>4

\* The receive thread hands over what it has been holding back.
LEMMA ManifestFlush ==
    ASSUME LoopType, ManifestInv, incomingManifest' = incomingManifest \o manifestBatch, manifestBatch' = <<>>,
           UNCHANGED <<toList, endSent, remoteFiles, readyFrames, manifestDone>>
    PROVE  ManifestInv'
  <1> USE ManifestTypes
  <1>1. ASSUME NEW f \in File
        PROVE  Listed(f, toList', remoteFiles', manifestBatch', incomingManifest', readyFrames') = 1
    <2>1. Occurrences(Entry(f), incomingManifest') =
             Occurrences(Entry(f), incomingManifest) + Occurrences(Entry(f), manifestBatch)
      BY OccConcat
    <2>2. Occurrences(Entry(f), manifestBatch') = 0
      BY OccEmpty
    <2>3. Listed(f, toList, remoteFiles, manifestBatch, incomingManifest, readyFrames) = 1
      BY ListedIs DEF ManifestInv
    <2>4. In(f, toList) \in {0, 1} /\ In(f, remoteFiles) \in {0, 1}
      BY DEF In
    <2>5. /\ Occurrences(Entry(f), manifestBatch) \in Nat /\ Occurrences(Entry(f), incomingManifest) \in Nat
          /\ Occurrences(Entry(f), readyFrames) \in Nat
      OBVIOUS
    <2> QED
      BY <2>1, <2>2, <2>3, <2>4, <2>5 DEF Listed
  <1>2. endSent => incomingManifest' = incomingManifest
    BY DEF ManifestInv, EndLast
  <1>3. ~endSent => \A i \in DOMAIN incomingManifest' : incomingManifest'[i].type # "ManifestEnd"
    <2> SUFFICES ASSUME ~endSent, NEW i \in DOMAIN incomingManifest'
                 PROVE  incomingManifest'[i].type # "ManifestEnd"
      OBVIOUS
    <2>1. CASE i \in DOMAIN incomingManifest
      <3>1. incomingManifest'[i] = incomingManifest[i]
        BY <2>1, ConcatIs
      <3> QED
        BY <2>1, <3>1 DEF ManifestInv, EndLast
    <2>2. CASE i \notin DOMAIN incomingManifest
      <3> DEFINE S == EntryFrame \cup EndFrame
                 both == incomingManifest \o manifestBatch
      <3>2. incomingManifest \in Seq(S) /\ manifestBatch \in Seq(S)
        BY DEF LoopType
      <3>3. incomingManifest' = both
        OBVIOUS
      <3>4. \A x \in DOMAIN both \ DOMAIN incomingManifest : \E j \in DOMAIN manifestBatch : both[x] = manifestBatch[j]
        <4> HIDE DEF S
        <4> QED
          BY <3>2, ConcatIs
      <3>1. \E j \in DOMAIN manifestBatch : incomingManifest'[i] = manifestBatch[j]
        <4> HIDE DEF both
        <4> QED
          BY <2>2, <3>3, <3>4
      <3> QED
        BY <3>1
    <2> QED
      BY <2>1, <2>2
  <1>4. EndLast'
    BY <1>2, <1>3 DEF ManifestInv, EndLast
  <1> QED
    BY <1>1, <1>4, ListedIs DEF ManifestInv

\* An entry is listed.
LEMMA ManifestListed ==
    ASSUME LoopType, ManifestInv, NEW g \in toList, g \in File, toList' = toList \ {g},
           manifestBatch' = Append(manifestBatch, Entry(g)),
           UNCHANGED <<incomingManifest, endSent, remoteFiles, readyFrames, manifestDone>>
    PROVE  ManifestInv'
  <1> USE ManifestTypes
  <1>1. ASSUME NEW f \in File
        PROVE  Listed(f, toList', remoteFiles', manifestBatch', incomingManifest', readyFrames') = 1
    <2>1. Occurrences(Entry(f), manifestBatch') = Occurrences(Entry(f), manifestBatch) + Is(Entry(f), Entry(g))
      BY OccAppend
    <2>2. In(f, toList) = In(f, toList') + Is(Entry(f), Entry(g)) /\ Is(Entry(f), Entry(g)) \in {0, 1}
      BY DEF In, Is, Entry
    <2>3. Listed(f, toList, remoteFiles, manifestBatch, incomingManifest, readyFrames) = 1
      BY ListedIs DEF ManifestInv
    <2>4. In(f, toList') \in {0, 1} /\ In(f, remoteFiles) \in {0, 1}
      BY DEF In
    <2>5. /\ Occurrences(Entry(f), manifestBatch) \in Nat /\ Occurrences(Entry(f), incomingManifest) \in Nat
          /\ Occurrences(Entry(f), readyFrames) \in Nat
      OBVIOUS
    <2> DEFINE a == In(f, toList)
               na == In(f, toList')
               b == In(f, remoteFiles)
               c == Occurrences(Entry(f), manifestBatch)
               nc == Occurrences(Entry(f), manifestBatch')
               d == Occurrences(Entry(f), incomingManifest)
               e == Occurrences(Entry(f), readyFrames)
               z == Is(Entry(f), Entry(g))
    <2>6. nc = c + z /\ a = na + z /\ z \in {0, 1} /\ na \in {0, 1} /\ b \in {0, 1}
      BY <2>1, <2>2, <2>4
    <2>7. a + b + c + d + e = 1 /\ c \in Nat /\ d \in Nat /\ e \in Nat
      BY <2>3, <2>5 DEF Listed
    <2>8. Listed(f, toList', remoteFiles', manifestBatch', incomingManifest', readyFrames') = na + b + nc + d + e
      BY DEF Listed
    <2> HIDE DEF a, na, b, c, nc, d, e, z
    <2> QED
      BY <2>6, <2>7, <2>8
  <1>2. EndLast'
    BY DEF ManifestInv, EndLast
  <1> QED
    BY <1>1, <1>2, ListedIs DEF ManifestInv

\* ManifestEnd follows the last entry.
LEMMA ManifestEnds ==
    ASSUME LoopType, ManifestInv, ~endSent, toList = {}, endSent', manifestBatch' = <<>>,
           incomingManifest' = incomingManifest \o manifestBatch \o <<[type |-> "ManifestEnd"]>>,
           UNCHANGED <<toList, remoteFiles, readyFrames, manifestDone>>
    PROVE  ManifestInv'
  <1> USE ManifestTypes
  <1> DEFINE m == [type |-> "ManifestEnd"]
             s == incomingManifest \o manifestBatch
  <1>1. s \in Seq(ManifestFrame) /\ m \in ManifestFrame /\ incomingManifest' = Append(s, m)
    <2>1. m \in ManifestFrame
      BY DEF ManifestFrame, EndFrame
    <2>2. s \in Seq(ManifestFrame)
      OBVIOUS
    <2>3. s \o <<m>> = Append(s, m)
      <3> HIDE DEF s, m
      <3> QED BY <2>1, <2>2
    <2> QED
      BY <2>1, <2>2, <2>3
  <1>2. ASSUME NEW f \in File
        PROVE  Listed(f, toList', remoteFiles', manifestBatch', incomingManifest', readyFrames') = 1
    <2>1. Occurrences(Entry(f), s) =
             Occurrences(Entry(f), incomingManifest) + Occurrences(Entry(f), manifestBatch)
      BY OccConcat
    <2>2. Occurrences(Entry(f), manifestBatch') = 0
      BY OccEmpty
    <2>3. Occurrences(Entry(f), incomingManifest') = Occurrences(Entry(f), s) + Is(Entry(f), m)
      BY <1>1, OccAppend
    <2>4. Is(Entry(f), m) = 0
      BY DEF Is, Entry
    <2>5. Listed(f, toList, remoteFiles, manifestBatch, incomingManifest, readyFrames) = 1
      BY ListedIs DEF ManifestInv
    <2>6. In(f, toList) \in {0, 1} /\ In(f, remoteFiles) \in {0, 1}
      BY DEF In
    <2>7. /\ Occurrences(Entry(f), manifestBatch) \in Nat /\ Occurrences(Entry(f), incomingManifest) \in Nat
          /\ Occurrences(Entry(f), readyFrames) \in Nat
      OBVIOUS
    <2> HIDE DEF s, m
    <2> QED
      BY <2>1, <2>2, <2>3, <2>4, <2>5, <2>6, <2>7 DEF Listed
  <1>3. \A i \in DOMAIN s : s[i].type # "ManifestEnd"
    <2> SUFFICES ASSUME NEW i \in DOMAIN s
                 PROVE  s[i].type # "ManifestEnd"
      OBVIOUS
    <2>1. CASE i \in DOMAIN incomingManifest
      <3>1. s[i] = incomingManifest[i]
        BY <2>1, ConcatIs
      <3> QED
        BY <2>1, <3>1 DEF ManifestInv, EndLast
    <2>2. CASE i \notin DOMAIN incomingManifest
      <3>1. \E j \in DOMAIN manifestBatch : s[i] = manifestBatch[j]
        BY <2>2, ConcatIs
      <3> QED
        BY <3>1
    <2> QED
      BY <2>1, <2>2
  <1> HIDE DEF s
  <1>4. \A i \in DOMAIN incomingManifest' : incomingManifest'[i].type = "ManifestEnd" =>
           i = Len(incomingManifest') /\ endSent'
    <2>1. Len(incomingManifest') = Len(s) + 1
      BY <1>1
    <2>2. \A i \in DOMAIN incomingManifest' : i \in DOMAIN s \/ i = Len(s) + 1
      BY <1>1, AppendIs
    <2>3. \A i \in DOMAIN s : incomingManifest'[i] = s[i]
      BY <1>1, AppendIs
    <2> QED
      BY <1>3, <2>1, <2>2, <2>3
  <1>5. EndLast'
    BY <1>4 DEF ManifestInv, EndLast
  <1> QED
    BY <1>2, <1>5, ListedIs DEF ManifestInv

\* A frame that is no manifest frame is taken.
LEMMA ManifestTail ==
    ASSUME LoopType, ManifestInv, readyFrames # <<>>, readyFrames' = Tail(readyFrames),
           Head(readyFrames).type \notin {"ManifestEntry", "ManifestEnd"},
           UNCHANGED <<toList, endSent, remoteFiles, manifestBatch, incomingManifest, manifestDone>>
    PROVE  ManifestInv'
  <1> USE ManifestTypes
  <1>1. ASSUME NEW f \in File
        PROVE  Occurrences(Entry(f), readyFrames') = Occurrences(Entry(f), readyFrames)
    <2>1. Occurrences(Entry(f), readyFrames) = Is(Entry(f), Head(readyFrames)) + Occurrences(Entry(f), Tail(readyFrames))
      BY OccTail
    <2>2. Is(Entry(f), Head(readyFrames)) = 0
      BY DEF Is, Entry
    <2>3. Tail(readyFrames) \in Seq(Frames)
      OBVIOUS
    <2>4. Occurrences(Entry(f), Tail(readyFrames)) \in Nat
      BY <2>3, OccType
    <2> QED
      BY <2>1, <2>2, <2>4
  <1>2. \A i \in DOMAIN readyFrames' : /\ i + 1 \in DOMAIN readyFrames /\ readyFrames'[i] = readyFrames[i + 1]
                                       /\ i \in Nat /\ Len(readyFrames) = Len(readyFrames') + 1
                                       /\ Len(readyFrames') \in Nat
    <2>1. \A i \in DOMAIN Tail(readyFrames) : i + 1 \in DOMAIN readyFrames
             /\ Tail(readyFrames)[i] = readyFrames[i + 1] /\ i \in Nat
      BY TailIs
    <2>2. Len(Tail(readyFrames)) = Len(readyFrames) - 1 /\ Len(readyFrames) \in Nat
          /\ Len(Tail(readyFrames)) \in Nat
      OBVIOUS
    <2> QED
      BY <2>1, <2>2
  <1>3. \A i \in DOMAIN readyFrames' : readyFrames'[i].type = "ManifestEnd" =>
          i = Len(readyFrames') /\ incomingManifest' = <<>> /\ endSent'
    BY <1>2 DEF ManifestInv, EndLast
  <1>4. EndLast'
    BY <1>3 DEF ManifestInv, EndLast
  <1>5. \A f \in File : Listed(f, toList', remoteFiles', manifestBatch', incomingManifest', readyFrames') = 1
    BY <1>1, ListedIs DEF ManifestInv, Listed
  <1> QED
    BY <1>4, <1>5, ListedIs DEF ManifestInv

LEMMA EntryIs ==
    ASSUME NEW m \in Frames, m.type = "ManifestEntry"
    PROVE  m.rel \in File /\ m = Entry(m.rel)
  BY DEF Frames, PlainFrame, StreamTypes, Header, HashAnswer, EntryFrame, EndFrame, Entry

\* An entry is taken: its file was not known.
LEMMA ManifestTaken ==
    ASSUME LoopType, ManifestInv, readyFrames # <<>>, readyFrames' = Tail(readyFrames),
           Head(readyFrames).type = "ManifestEntry", remoteFiles' = remoteFiles \cup {Head(readyFrames).rel},
           UNCHANGED <<toList, endSent, manifestBatch, incomingManifest, manifestDone>>
    PROVE  ManifestInv' /\ Head(readyFrames).rel \in File \ remoteFiles
  <1> USE ManifestTypes
  <1> DEFINE g == Head(readyFrames).rel
  <1>1. Head(readyFrames) \in Frames
    OBVIOUS
  <1>2. g \in File /\ Head(readyFrames) = Entry(g)
    BY <1>1, EntryIs
  <1>3. Tail(readyFrames) \in Seq(Frames)
    OBVIOUS
  <1>4. ASSUME NEW f \in File
        PROVE  /\ Occurrences(Entry(f), readyFrames) = Is(f, g) + Occurrences(Entry(f), readyFrames')
               /\ Occurrences(Entry(f), readyFrames') \in Nat /\ Is(f, g) \in {0, 1}
    <2>1. Occurrences(Entry(f), readyFrames) = Is(Entry(f), Head(readyFrames)) + Occurrences(Entry(f), Tail(readyFrames))
      BY OccTail
    <2>2. Is(Entry(f), Head(readyFrames)) = Is(f, g) /\ Is(f, g) \in {0, 1}
      <3> HIDE DEF g
      <3>1. Entry(f) = Entry(g) <=> f = g
        BY EntriesDiffer
      <3> QED
        BY <1>2, <3>1, OneType DEF Is
    <2>4. Occurrences(Entry(f), Tail(readyFrames)) \in Nat
      BY <1>3, OccType
    <2> QED
      BY <2>1, <2>2, <2>4
  <1>5. ASSUME NEW f \in File
        PROVE  /\ Listed(f, toList, remoteFiles, manifestBatch, incomingManifest, readyFrames) = 1
               /\ In(f, toList) \in {0, 1} /\ In(f, remoteFiles) \in {0, 1}
               /\ Occurrences(Entry(f), manifestBatch) \in Nat /\ Occurrences(Entry(f), incomingManifest) \in Nat
               /\ Occurrences(Entry(f), readyFrames) \in Nat
    BY ListedIs DEF ManifestInv, In
  <1>6. g \notin remoteFiles
    <2>1. Is(g, g) = 1
      BY DEF Is
    <2>2. Occurrences(Entry(g), readyFrames) >= 1
      BY <1>2, <1>4, <2>1
    <2>3. In(g, remoteFiles) = 0
      BY <1>2, <1>5, <2>2 DEF Listed
    <2> QED
      BY <2>3 DEF In
  <1>7. ASSUME NEW f \in File
        PROVE  Listed(f, toList', remoteFiles', manifestBatch', incomingManifest', readyFrames') = 1
    <2>1. In(f, remoteFiles') = In(f, remoteFiles) + Is(f, g)
      BY <1>6 DEF In, Is
    <2> DEFINE a == In(f, toList)
               b == In(f, remoteFiles)
               c == Occurrences(Entry(f), manifestBatch)
               d == Occurrences(Entry(f), incomingManifest)
               x == Occurrences(Entry(f), readyFrames)
               y == Occurrences(Entry(f), readyFrames')
               z == Is(f, g)
    <2>2. x = z + y /\ y \in Nat /\ z \in {0, 1}
      BY <1>4
    <2>3. a + b + c + d + x = 1 /\ a \in {0, 1} /\ b \in {0, 1} /\ c \in Nat /\ d \in Nat
      BY <1>5 DEF Listed
    <2>4. Listed(f, toList', remoteFiles', manifestBatch', incomingManifest', readyFrames') = a + (b + z) + c + d + y
      BY <2>1 DEF Listed
    <2> HIDE DEF a, b, c, d, x, y, z
    <2> QED
      BY <2>2, <2>3, <2>4
  <1>8. \A i \in DOMAIN readyFrames' : /\ i + 1 \in DOMAIN readyFrames /\ readyFrames'[i] = readyFrames[i + 1]
                                       /\ i \in Nat /\ Len(readyFrames) = Len(readyFrames') + 1
                                       /\ Len(readyFrames') \in Nat
    <2>1. \A i \in DOMAIN Tail(readyFrames) : i + 1 \in DOMAIN readyFrames
             /\ Tail(readyFrames)[i] = readyFrames[i + 1] /\ i \in Nat
      BY TailIs
    <2>2. Len(Tail(readyFrames)) = Len(readyFrames) - 1 /\ Len(readyFrames) \in Nat
          /\ Len(Tail(readyFrames)) \in Nat
      OBVIOUS
    <2> QED
      BY <2>1, <2>2
  <1>9. \A i \in DOMAIN readyFrames' : readyFrames'[i].type = "ManifestEnd" =>
          i = Len(readyFrames') /\ incomingManifest' = <<>> /\ endSent'
    BY <1>8 DEF ManifestInv, EndLast
  <1>10. EndLast'
    BY <1>2, <1>6, <1>9 DEF ManifestInv, EndLast
  <1> QED
    BY <1>2, <1>6, <1>7, <1>10, ListedIs DEF ManifestInv

\* ManifestEnd is taken: every file is known.
LEMMA ManifestDone ==
    ASSUME LoopType, ManifestInv, readyFrames # <<>>, readyFrames' = Tail(readyFrames),
           Head(readyFrames).type = "ManifestEnd",
           UNCHANGED <<toList, endSent, manifestBatch, incomingManifest, remoteFiles>>
    PROVE  ManifestInv'
  <1> USE ManifestTypes
  <1>1. 1 \in DOMAIN readyFrames /\ readyFrames[1] = Head(readyFrames)
    OBVIOUS
  <1>2. 1 = Len(readyFrames) /\ incomingManifest = <<>> /\ endSent
    BY <1>1 DEF ManifestInv, EndLast
  <1>3. toList = {} /\ manifestBatch = <<>>
    BY <1>2 DEF ManifestInv, EndLast
  <1>4. readyFrames' = <<>>
    BY <1>2
  <1>5. ASSUME NEW f \in File
        PROVE  /\ f \in remoteFiles
               /\ Listed(f, toList', remoteFiles', manifestBatch', incomingManifest', readyFrames') = 1
    <2>1. Occurrences(Entry(f), readyFrames) = 0
      <3>1. \A i \in DOMAIN readyFrames : i = 1
        BY <1>2
      <3>2. \A i \in DOMAIN readyFrames : readyFrames[i] # Entry(f)
        BY <1>1, <3>1 DEF Entry
      <3> QED
        BY <3>2, OccNone
    <2>2. Occurrences(Entry(f), readyFrames') = 0
      BY <1>4, OccEmpty
    <2>3. /\ Listed(f, toList, remoteFiles, manifestBatch, incomingManifest, readyFrames) = 1
          /\ In(f, remoteFiles) \in {0, 1}
      BY ListedIs DEF ManifestInv, In
    <2>4. In(f, toList) = 0
      BY <1>3 DEF In
    <2>5. Occurrences(Entry(f), manifestBatch) = 0 /\ Occurrences(Entry(f), incomingManifest) = 0
      BY <1>2, <1>3, OccEmpty
    <2>6. In(f, remoteFiles) = 1
      BY <2>1, <2>3, <2>4, <2>5 DEF Listed
    <2>7. Listed(f, toList', remoteFiles', manifestBatch', incomingManifest', readyFrames') = 1
      BY <2>1, <2>2, <2>3 DEF Listed
    <2> QED
      BY <2>6, <2>7 DEF In
  <1>6. remoteFiles' = File
    BY <1>5 DEF LoopType
  <1>7. EndLast'
    BY <1>2, <1>3, <1>4, <1>6 DEF EndLast
  <1> QED
    BY <1>5, <1>7, ListedIs DEF ManifestInv

\* The main loop takes the queued frames.
LEMMA ManifestQueued ==
    ASSUME LoopType, ManifestInv, readyFrames = <<>>, readyFrames' = incomingPriority \o incomingManifest,
           incomingManifest' = <<>>, UNCHANGED <<toList, endSent, manifestBatch, remoteFiles, manifestDone>>
    PROVE  ManifestInv'
  <1> USE ManifestTypes
  <1>1. incomingPriority \in Seq(Frames) /\ incomingManifest \in Seq(Frames)
        /\ \A i \in DOMAIN incomingPriority : incomingPriority[i].type \notin {"ManifestEntry", "ManifestEnd"}
    <2>1. incomingPriority \in Seq(PlainFrame \cup Header \cup HashAnswer)
      BY DEF LoopType
    <2>2. incomingPriority \in Seq(Frames)
      BY <2>1 DEF Frames
    <2>3. incomingManifest \in Seq(Frames)
      <3>1. ManifestFrame \subseteq Frames
        BY DEF ManifestFrame, Frames
      <3> QED
        BY <3>1
    <2>4. \A i \in DOMAIN incomingPriority : incomingPriority[i] \in PlainFrame \cup Header \cup HashAnswer
      BY <2>1
    <2>5. \A m \in PlainFrame \cup Header \cup HashAnswer : m.type \notin {"ManifestEntry", "ManifestEnd"}
      BY DEF PlainFrame, Header, HashAnswer, StreamTypes
    <2> QED
      BY <2>2, <2>3, <2>4, <2>5
  <1>2. ASSUME NEW f \in File
        PROVE  Listed(f, toList', remoteFiles', manifestBatch', incomingManifest', readyFrames') = 1
    <2>1. Occurrences(Entry(f), readyFrames') =
             Occurrences(Entry(f), incomingPriority) + Occurrences(Entry(f), incomingManifest)
      BY <1>1, OccConcat
    <2>2. Occurrences(Entry(f), incomingPriority) = 0
      <3>1. \A i \in DOMAIN incomingPriority : incomingPriority[i] # Entry(f)
        BY <1>1 DEF Entry
      <3> QED
        BY <1>1, <3>1, OccNone
    <2>3. Occurrences(Entry(f), incomingManifest') = 0 /\ Occurrences(Entry(f), readyFrames) = 0
      BY OccEmpty
    <2>4. Listed(f, toList, remoteFiles, manifestBatch, incomingManifest, readyFrames) = 1
      BY ListedIs DEF ManifestInv
    <2>5. In(f, toList) \in {0, 1} /\ In(f, remoteFiles) \in {0, 1}
      BY DEF In
    <2>6. Occurrences(Entry(f), manifestBatch) \in Nat /\ Occurrences(Entry(f), incomingManifest) \in Nat
      OBVIOUS
    <2> QED
      BY <2>1, <2>2, <2>3, <2>4, <2>5, <2>6 DEF Listed
  <1>3. ASSUME NEW i \in DOMAIN readyFrames', readyFrames'[i].type = "ManifestEnd"
        PROVE  i = Len(readyFrames') /\ endSent
    <2>1. i \in 1 .. (Len(incomingPriority) + Len(incomingManifest))
          /\ Len(readyFrames') = Len(incomingPriority) + Len(incomingManifest)
          /\ Len(incomingPriority) \in Nat /\ Len(incomingManifest) \in Nat
      BY <1>1
    <2>2. i > Len(incomingPriority)
      <3>1. i <= Len(incomingPriority) => i \in DOMAIN incomingPriority /\ readyFrames'[i] = incomingPriority[i]
        BY <1>1, <2>1
      <3> QED
        BY <1>1, <1>3, <2>1, <3>1
    <2>3. i - Len(incomingPriority) \in DOMAIN incomingManifest
          /\ readyFrames'[i] = incomingManifest[i - Len(incomingPriority)]
      BY <1>1, <2>1, <2>2
    <2>4. i - Len(incomingPriority) = Len(incomingManifest) /\ endSent
      BY <1>3, <2>3 DEF ManifestInv, EndLast
    <2> QED
      BY <2>1, <2>4
  <1>4. EndLast'
    BY <1>3 DEF ManifestInv, EndLast
  <1> QED
    BY <1>2, <1>4, ListedIs DEF ManifestInv

-----------------------------------------------------------------------------
(* The server and the receive threads.                                     *)

\* What the push of a frame leaves true, whatever is asked and answered.
LEMMA PushIs ==
    ASSUME Inv, Running, NEW l \in Lane, NEW m \in PlainFrame \cup Header \cup HashAnswer, Push(l, m)
    PROVE  /\ LaneType' /\ LoopType' /\ LanesExact' /\ ManifestInv' /\ StageSame /\ result' # "complete"
           /\ Coming' = Append(Coming, m) /\ m \in Frames
           /\ UNCHANGED hashVars /\ UNCHANGED remoteFiles /\ DOMAIN comparing' = DOMAIN comparing
           /\ UNCHANGED <<work, activeDownloads, activeBatches, empty, healthy, nextStreamId>>
  <1> USE InvParts
  <1>1. /\ UNCHANGED connVars /\ UNCHANGED <<empty, toList, endSent, readyFrames>> /\ UNCHANGED mainVars
        /\ UNCHANGED hashVars /\ UNCHANGED <<comparing, activeDownloads, activeBatches, work>>
        /\ incomingPriority' = Append(incomingPriority, m)
    BY DEF Push
  <1>2. m \in Frames
    BY DEF Frames
  <1>3. Coming' = Append(Coming, m)
    <2>1. readyFrames \o Append(incomingPriority, m) = Append(readyFrames \o incomingPriority, m)
      BY <1>2
    <2> QED
      BY <1>1, <2>1 DEF Coming
  <1>4. \/ UNCHANGED <<manifestBatch, incomingManifest>>
        \/ incomingManifest' = incomingManifest \o manifestBatch /\ manifestBatch' = <<>>
    BY DEF Push
  <1>5. LaneType'
    BY <1>1 DEF LaneType, connVars
  <1>6. manifestBatch' \in Seq(EntryFrame) /\ incomingManifest' \in Seq(EntryFrame \cup EndFrame)
        /\ incomingPriority' \in Seq(PlainFrame \cup Header \cup HashAnswer)
    <2>1. /\ manifestBatch \in Seq(EntryFrame) /\ incomingManifest \in Seq(EntryFrame \cup EndFrame)
          /\ incomingPriority \in Seq(PlainFrame \cup Header \cup HashAnswer)
      BY DEF LoopType
    <2>2. incomingManifest \o manifestBatch \in Seq(EntryFrame \cup EndFrame)
      BY <2>1
    <2>3. <<>> \in Seq(EntryFrame)
      OBVIOUS
    <2>4. Append(incomingPriority, m) \in Seq(PlainFrame \cup Header \cup HashAnswer)
      BY <2>1
    <2> QED
      BY <1>1, <1>4, <2>1, <2>2, <2>3, <2>4
  <1>7. LoopType'
    BY <1>1, <1>6 DEF LoopType, mainVars
  <1>8. LanesExact'
    BY <1>1, LanesKept DEF connVars, Shrinks
  <1>9. ManifestInv'
    <2>1. UNCHANGED <<toList, endSent, remoteFiles, readyFrames, manifestDone>>
      BY <1>1 DEF mainVars
    <2> QED
      BY <1>4, <2>1, ManifestKept, ManifestFlush
  <1>10. StageSame
    BY <1>1 DEF StageSame, mainVars, hashVars
  <1>11. result' # "complete"
    BY <1>1 DEF Running, mainVars
  <1> QED
    BY <1>1, <1>2, <1>3, <1>5, <1>7, <1>8, <1>9, <1>10, <1>11 DEF connVars, mainVars

\* A frame that is appended is the only new one.
LEMMA QuietAppend ==
    ASSUME HashInv, Coming \in Seq(Frames), NEW m \in Frames, Coming' = Append(Coming, m), m.type # "HashResponse",
           IsFiniteSet(asked'), asked' \subseteq HashRequest \cup StreamRequest,
           \A r \in asked' : r.type = "HashRequest" => r \in asked
    PROVE  HashQuiet
  <1>1. \A i \in DOMAIN Coming' : i \in DOMAIN Coming \/ Coming'[i] = m
    BY AppendIs
  <1>2. \A i \in DOMAIN Coming : Coming'[i] = Coming[i]
    BY AppendIs
  <1> QED
    BY <1>1, <1>2 DEF HashQuiet

\* A stream request is answered by m; x stands for what is left of it.
LEMMA AnswerStep ==
    ASSUME Inv, Running, NEW r \in asked, r.type # "HashRequest", NEW m \in PlainFrame \cup Header,
           Push(r.lane, m), asked' \subseteq HashRequest \cup StreamRequest, IsFiniteSet(asked'),
           \A x \in asked' : x.type = "HashRequest" => x \in asked,
           Answers(empty, Requests, r, m, Requests'),
           \A f \in File : Fetching(Requests', Coming', activeDownloads, activeBatches, f)
                              = Fetching(Requests, Coming, activeDownloads, activeBatches, f)
    PROVE  Inv'
  <1> USE InvParts
  <1>1. r \in Requests /\ r.lane \in Lane
    BY RequestIs DEF Requests
  <1>2. /\ LaneType' /\ LoopType' /\ LanesExact' /\ ManifestInv' /\ StageSame /\ result' # "complete"
        /\ Coming' = Append(Coming, m) /\ m \in Frames
        /\ UNCHANGED hashVars /\ UNCHANGED remoteFiles /\ DOMAIN comparing' = DOMAIN comparing
        /\ UNCHANGED <<work, activeDownloads, activeBatches, empty, healthy, nextStreamId>>
    BY <1>1, PushIs
  <1>3. NetInv'
    <2>1. Net(empty, Requests', Append(Coming, m), activeDownloads, activeBatches, healthy, nextStreamId)
      BY NetAnswers
    <2> QED
      BY <1>2, <2>1 DEF NetInv
  <1>4. m.type # "HashResponse"
    BY DEF PlainFrame, Header, StreamTypes
  <1>5. HashQuiet
    BY <1>2, <1>4, QuietAppend
  <1>6. HashInv'
    BY <1>2, <1>5, HashKept DEF SameHash
  <1>7. PlaceInv'
    <2>1. IoBal(work')
      BY <1>2
    <2>2. \A f \in File : Stage(f)' + Held(work', f) = Stage(f) + Held(work, f)
      BY <1>2, StageKept
    <2>3. PlaceType'
      BY <1>2, <1>3 DEF PlaceType
    <2>4. \A f \in File : Fetching(Requests', Coming', activeDownloads', activeBatches', f)
                             = Fetching(Requests, Coming, activeDownloads, activeBatches, f)
      BY <1>2
    <2> QED
      BY <2>1, <2>2, <2>3, <2>4, PlaceSame
  <1> QED
    BY <1>2, <1>3, <1>6, <1>7, InvNext

LEMMA RestOf ==
    ASSUME Inv, NEW r \in asked, r.type # "HashRequest"
    PROVE  /\ r \in Requests /\ r \in StreamRequest /\ r.lane \in Lane /\ r.sid \in Nat
           /\ IsFiniteSet(asked \ {r}) /\ asked \ {r} \subseteq HashRequest \cup StreamRequest
           /\ {x \in asked \ {r} : x.type # "HashRequest"} = Requests \ {r}
           /\ IsFiniteSet(Requests) /\ \A x, y \in Requests : Key(x) = Key(y) => x = y
  <1> USE InvParts
  <1>1. r \in Requests
    BY DEF Requests
  <1>2. IsFiniteSet(asked) /\ asked \subseteq HashRequest \cup StreamRequest
    BY DEF HashInv
  <1>3. IsFiniteSet(asked \ {r})
    BY <1>2, FS_Subset
  <1>4. IsFiniteSet(Requests) /\ \A x, y \in Requests : Key(x) = Key(y) => x = y
    BY DEF Net, NetType, IdsFresh
  <1>5. {x \in asked \ {r} : x.type # "HashRequest"} = Requests \ {r}
    BY DEF Requests
  <1> QED
    BY <1>1, <1>2, <1>3, <1>4, <1>5, RequestIs

\* The same batch requests and headers as before, but for a frame of another type.
LEMMA FetchOther ==
    ASSUME NEW q, NEW s \in Seq(Frames), NEW d, NEW b, NEW m \in Frames, m.type # "FileBatchOpen",
           NEW p, \A x : x.type = "FileBatchOpen" => (x \in p <=> x \in q), NEW f
    PROVE  Fetching(p, Append(s, m), d, b, f) = Fetching(q, s, d, b, f)
  <1>1. ToSet(Append(s, m)) = ToSet(s) \cup {m}
    BY SetAppend
  <1> QED
    BY <1>1, FetchSame

LEMMA ServerSendsFileStep ==
    ASSUME Inv, Running, NEW r \in asked, ServerSendsFile(r)
    PROVE  Inv'
  <1> USE InvParts
  <1>1. r.type = "FileOpen" /\ asked' = asked \ {r}
    BY DEF ServerSendsFile
  <1>2. PICK a \in {"FileEnd", "FileError"} : Push(r.lane, [type |-> a, lane |-> r.lane, sid |-> r.sid])
    BY DEF ServerSendsFile
  <1> DEFINE m == [type |-> a, lane |-> r.lane, sid |-> r.sid]
  <1>3. /\ r \in Requests /\ r \in StreamRequest /\ r.lane \in Lane /\ r.sid \in Nat
        /\ IsFiniteSet(asked \ {r}) /\ asked \ {r} \subseteq HashRequest \cup StreamRequest
        /\ {x \in asked \ {r} : x.type # "HashRequest"} = Requests \ {r}
        /\ IsFiniteSet(Requests) /\ \A x, y \in Requests : Key(x) = Key(y) => x = y
    BY <1>1, RestOf
  <1>4. m \in PlainFrame /\ m.type = a /\ Key(m) = Key(r) /\ OnStream(m) /\ m \in Frames
    BY <1>3 DEF PlainFrame, StreamTypes, Key, OnStream, Frames
  <1>5. Requests' = Requests \ {r}
    BY <1>1, <1>3 DEF Requests
  <1> HIDE DEF m
  <1>6. Push(r.lane, m)
    BY <1>2 DEF m
  <1>7. Answers(empty, Requests, r, m, Requests')
    <2>1. IsFiniteSet(Requests')
      BY <1>3, <1>5, FS_Subset
    <2> QED
      BY <1>1, <1>3, <1>4, <1>5, <2>1 DEF Answers
  <1>8. Coming' = Append(Coming, m)
    BY <1>3, <1>4, <1>6, PushIs
  <1>9. \A f \in File : Fetching(Requests', Coming', activeDownloads, activeBatches, f)
                           = Fetching(Requests, Coming, activeDownloads, activeBatches, f)
    <2>1. \A x : x.type = "FileBatchOpen" => (x \in Requests' <=> x \in Requests)
      BY <1>1, <1>5
    <2>2. m.type # "FileBatchOpen"
      BY <1>4
    <2> QED
      BY <1>4, <1>8, <2>1, <2>2, FetchOther
  <1> QED
    BY <1>1, <1>3, <1>4, <1>6, <1>7, <1>9, AnswerStep

LEMMA ServerOpensBatchStep ==
    ASSUME Inv, Running, NEW r \in asked, ServerOpensBatch(r)
    PROVE  Inv'
  <1> USE InvParts
  <1>1. r.type = "FileBatchOpen"
    BY DEF ServerOpensBatch
  <1> DEFINE x(ok) == [type |-> "batch", lane |-> r.lane, sid |-> r.sid, chunks |-> Cardinality(ok \ empty)]
             m(ok) == [type |-> "FileBatchOpen", lane |-> r.lane, sid |-> r.sid, files |-> r.files, ok |-> ok]
  <1>2. PICK ok \in SUBSET ToSet(r.files) : asked' = (asked \ {r}) \cup {x(ok)} /\ Push(r.lane, m(ok))
    BY DEF ServerOpensBatch
  <1>3. /\ r \in Requests /\ r \in StreamRequest /\ r.lane \in Lane /\ r.sid \in Nat
        /\ IsFiniteSet(asked \ {r}) /\ asked \ {r} \subseteq HashRequest \cup StreamRequest
        /\ {y \in asked \ {r} : y.type # "HashRequest"} = Requests \ {r}
        /\ IsFiniteSet(Requests) /\ \A y, z \in Requests : Key(y) = Key(z) => y = z
    BY <1>1, RestOf
  <1>4. r.files \in Seq(Small) /\ Once(r.files)
    <2>1. r.files \in Seq(Small)
      BY <1>1, <1>3, RequestIs
    <2> QED
      BY <1>1, <1>3, <2>1 DEF NetType
  <1>5. ToSet(r.files) \subseteq Small /\ IsFiniteSet(ToSet(r.files))
    <2>1. ToSet(r.files) \subseteq Small
      BY <1>4 DEF ToSet
    <2>2. IsFiniteSet(ToSet(r.files))
      BY <1>4, SetWithinLen
    <2> QED
      BY <2>1, <2>2
  <1>6. Cardinality(ok \ empty) \in Nat
    BY <1>5, FS_Subset, FS_CardinalityType
  <1> DEFINE a == x(ok)
             b == m(ok)
  <1>7. /\ b \in Header /\ b.type = "FileBatchOpen" /\ Key(b) = Key(r) /\ OnStream(b) /\ b \in Frames
        /\ b.files = r.files /\ b.ok = ok
    BY <1>3, <1>4, <1>5 DEF Header, StreamTypes, Key, OnStream, Frames
  <1>8. a \in StreamRequest /\ a.type = "batch" /\ Key(a) = Key(r) /\ a.chunks = Cardinality(ok \ empty)
    BY <1>3, <1>6 DEF StreamRequest, BatchRest, Key
  <1>9. asked' = (asked \ {r}) \cup {a} /\ Push(r.lane, b)
    BY <1>2
  <1> HIDE DEF a, b, x, m
  <1>10. Requests' = (Requests \ {r}) \cup {a}
    BY <1>3, <1>8, <1>9 DEF Requests
  <1>11. Answers(empty, Requests, r, b, Requests')
    <2>1. IsFiniteSet(Requests \ {r})
      BY <1>3, FS_Subset
    <2>2. IsFiniteSet(Requests')
      BY <1>10, <2>1, FS_AddElement
    <2>3. \A y, z \in Requests' : Key(y) = Key(z) => y = z
      BY <1>3, <1>8, <1>10
    <2> QED
      BY <1>1, <1>3, <1>4, <1>7, <1>8, <1>10, <2>2, <2>3 DEF Answers
  <1>12. Coming' = Append(Coming, b)
    BY <1>3, <1>7, <1>9, PushIs
  <1>13. \A f \in File : Fetching(Requests', Coming', activeDownloads, activeBatches, f)
                           = Fetching(Requests, Coming, activeDownloads, activeBatches, f)
    <2>1. a.type # "FileBatchOpen"
      BY <1>8
    <2> QED
      BY <1>1, <1>3, <1>7, <1>10, <1>12, <2>1, FetchAnswered
  <1>14. IsFiniteSet(asked') /\ asked' \subseteq HashRequest \cup StreamRequest
    BY <1>3, <1>8, <1>9, FS_AddElement
  <1>15. \A y \in asked' : y.type = "HashRequest" => y \in asked
    BY <1>8, <1>9
  <1> QED
    BY <1>1, <1>7, <1>9, <1>11, <1>13, <1>14, <1>15, AnswerStep

LEMMA ServerSendsChunkStep ==
    ASSUME Inv, Running, NEW r \in asked, ServerSendsChunk(r)
    PROVE  Inv'
  <1> USE InvParts
  <1> DEFINE a == [r EXCEPT !.chunks = @ - 1]
             b == [type |-> "FileBatchChunk", lane |-> r.lane, sid |-> r.sid]
  <1>1. r.type = "batch" /\ r.chunks > 0 /\ asked' = (asked \ {r}) \cup {a} /\ Push(r.lane, b)
    BY DEF ServerSendsChunk
  <1>3. /\ r \in Requests /\ r \in StreamRequest /\ r.lane \in Lane /\ r.sid \in Nat
        /\ IsFiniteSet(asked \ {r}) /\ asked \ {r} \subseteq HashRequest \cup StreamRequest
        /\ {y \in asked \ {r} : y.type # "HashRequest"} = Requests \ {r}
        /\ IsFiniteSet(Requests) /\ \A y, z \in Requests : Key(y) = Key(z) => y = z
    BY <1>1, RestOf
  <1>4. r \in BatchRest /\ r.chunks \in Nat
    BY <1>1, <1>3 DEF StreamRequest, FileRequest, BatchRequest, BatchRest
  <1>7. /\ b \in PlainFrame /\ b.type = "FileBatchChunk" /\ Key(b) = Key(r) /\ OnStream(b) /\ b \in Frames
    BY <1>3 DEF PlainFrame, StreamTypes, Key, OnStream, Frames
  <1>8. a \in StreamRequest /\ a.type = "batch" /\ Key(a) = Key(r) /\ a.chunks + 1 = r.chunks
    <2>1. a.chunks = r.chunks - 1 /\ a.type = r.type /\ a.lane = r.lane /\ a.sid = r.sid
      BY <1>4 DEF BatchRest
    <2>2. r.chunks - 1 \in Nat
      BY <1>1, <1>4
    <2>3. a \in BatchRest
      BY <1>4, <2>2 DEF BatchRest
    <2> QED
      BY <1>1, <1>4, <2>1, <2>3 DEF StreamRequest, Key
  <1> HIDE DEF a, b
  <1>10. Requests' = (Requests \ {r}) \cup {a}
    BY <1>1, <1>3, <1>8 DEF Requests
  <1>11. Answers(empty, Requests, r, b, Requests')
    <2>1. IsFiniteSet(Requests \ {r})
      BY <1>3, FS_Subset
    <2>2. IsFiniteSet(Requests')
      BY <1>10, <2>1, FS_AddElement
    <2>3. \A y, z \in Requests' : Key(y) = Key(z) => y = z
      BY <1>3, <1>8, <1>10
    <2> QED
      BY <1>1, <1>3, <1>7, <1>8, <1>10, <2>2, <2>3 DEF Answers
  <1>12. Coming' = Append(Coming, b)
    BY <1>1, <1>3, <1>7, PushIs
  <1>13. \A f \in File : Fetching(Requests', Coming', activeDownloads, activeBatches, f)
                           = Fetching(Requests, Coming, activeDownloads, activeBatches, f)
    <2>1. \A x : x.type = "FileBatchOpen" => (x \in Requests' <=> x \in Requests)
      BY <1>1, <1>8, <1>10
    <2>2. b.type # "FileBatchOpen"
      BY <1>7
    <2> QED
      BY <1>7, <1>12, <2>1, <2>2, FetchOther
  <1>14. IsFiniteSet(asked') /\ asked' \subseteq HashRequest \cup StreamRequest
    BY <1>1, <1>3, <1>8, FS_AddElement
  <1>15. \A y \in asked' : y.type = "HashRequest" => y \in asked
    BY <1>1, <1>8
  <1> QED
    BY <1>1, <1>7, <1>11, <1>13, <1>14, <1>15, AnswerStep

LEMMA ServerEndsBatchStep ==
    ASSUME Inv, Running, NEW r \in asked, ServerEndsBatch(r)
    PROVE  Inv'
  <1> USE InvParts
  <1> DEFINE a == IF r.chunks = 0 THEN "FileBatchEnd" ELSE "FileError"
             m == [type |-> a, lane |-> r.lane, sid |-> r.sid]
  <1>1. r.type = "batch" /\ asked' = asked \ {r} /\ Push(r.lane, m)
    BY DEF ServerEndsBatch
  <1>3. /\ r \in Requests /\ r \in StreamRequest /\ r.lane \in Lane /\ r.sid \in Nat
        /\ IsFiniteSet(asked \ {r}) /\ asked \ {r} \subseteq HashRequest \cup StreamRequest
        /\ {x \in asked \ {r} : x.type # "HashRequest"} = Requests \ {r}
        /\ IsFiniteSet(Requests) /\ \A x, y \in Requests : Key(x) = Key(y) => x = y
    BY <1>1, RestOf
  <1>2. a \in {"FileBatchEnd", "FileError"}
    OBVIOUS
  <1> HIDE DEF a
  <1>4. m \in PlainFrame /\ m.type = a /\ Key(m) = Key(r) /\ OnStream(m) /\ m \in Frames
    BY <1>2, <1>3 DEF PlainFrame, StreamTypes, Key, OnStream, Frames
  <1>5. Requests' = Requests \ {r}
    BY <1>1, <1>3 DEF Requests
  <1> HIDE DEF m
  <1>7. Answers(empty, Requests, r, m, Requests')
    <2>1. IsFiniteSet(Requests')
      BY <1>3, <1>5, FS_Subset
    <2> QED
      BY <1>1, <1>2, <1>3, <1>4, <1>5, <2>1 DEF Answers
  <1>8. Coming' = Append(Coming, m)
    BY <1>1, <1>3, <1>4, PushIs
  <1>9. \A f \in File : Fetching(Requests', Coming', activeDownloads, activeBatches, f)
                           = Fetching(Requests, Coming, activeDownloads, activeBatches, f)
    <2>1. \A x : x.type = "FileBatchOpen" => (x \in Requests' <=> x \in Requests)
      BY <1>1, <1>5
    <2>2. m.type # "FileBatchOpen"
      BY <1>2, <1>4
    <2> QED
      BY <1>4, <1>8, <2>1, <2>2, FetchOther
  <1> QED
    BY <1>1, <1>3, <1>4, <1>7, <1>9, AnswerStep

LEMMA ServerHashesStep ==
    ASSUME Inv, Running, NEW r \in asked, ServerHashes(r)
    PROVE  Inv'
  <1> USE InvParts
  <1> DEFINE m == [type |-> "HashResponse", lane |-> r.lane, rel |-> r.rel]
  <1>1. r.type = "HashRequest" /\ asked' = asked \ {r} /\ Push(r.lane, m)
    BY DEF ServerHashes
  <1>2. r \in HashRequest /\ r.lane \in Lane /\ r.rel \in File
    <2>1. r \in HashRequest \cup StreamRequest
      BY DEF HashInv
    <2>2. r \notin StreamRequest
      BY <1>1, RequestIs
    <2> QED
      BY <2>1, <2>2 DEF HashRequest
  <1>3. r.rel \in hashRequested
    BY <1>1 DEF HashInv
  <1>4. m \in HashAnswer /\ m.type = "HashResponse" /\ m.rel = r.rel /\ ~OnStream(m)
    BY <1>2 DEF HashAnswer, OnStream, StreamTypes
  <1> HIDE DEF m
  <1>5. /\ LaneType' /\ LoopType' /\ LanesExact' /\ ManifestInv' /\ StageSame /\ result' # "complete"
        /\ Coming' = Append(Coming, m) /\ m \in Frames
        /\ UNCHANGED hashVars /\ UNCHANGED remoteFiles /\ DOMAIN comparing' = DOMAIN comparing
        /\ UNCHANGED <<work, activeDownloads, activeBatches, empty, healthy, nextStreamId>>
    BY <1>1, <1>2, <1>4, PushIs
  <1>6. Requests' = Requests
    BY <1>1 DEF Requests
  <1>7. NetInv'
    <2>1. <<m>> \in Seq(Frames) /\ \A i \in DOMAIN <<m>> : ~OnStream(<<m>>[i])
      BY <1>4, <1>5
    <2>2. Net(empty, Requests, Coming \o <<m>>, activeDownloads, activeBatches, healthy, nextStreamId)
      BY <2>1, NetOther
    <2>3. Coming \o <<m>> = Append(Coming, m)
      BY <1>5
    <2> QED
      BY <1>5, <1>6, <2>2, <2>3 DEF NetInv
  <1>8. HashInv'
    <2>1. IsFiniteSet(asked') /\ asked' \subseteq asked
      BY <1>1, FS_Subset DEF HashInv
    <2>2. \A i \in DOMAIN Coming' : Coming'[i].type = "HashResponse" => Coming'[i].rel \in hashRequested
      <3>1. \A i \in DOMAIN Coming' : i \in DOMAIN Coming \/ Coming'[i] = m
        BY <1>5, AppendIs
      <3>2. \A i \in DOMAIN Coming : Coming'[i] = Coming[i]
        BY <1>5, AppendIs
      <3> QED
        BY <1>3, <1>4, <3>1, <3>2 DEF HashInv
    <2>3. UNCHANGED <<pendingHash, hashRequested, hashSent, hashReceived, localHash, fallbackReady>>
      BY <1>5 DEF hashVars
    <2> QED
      BY <1>5, <2>1, <2>2, <2>3 DEF HashInv
  <1>9. PlaceInv'
    <2>1. m.type # "FileBatchOpen"
      BY <1>4
    <2>2. \A f \in File : Fetching(Requests', Coming', activeDownloads', activeBatches', f)
                             = Fetching(Requests, Coming, activeDownloads, activeBatches, f)
      BY <1>5, <1>6, <2>1, FetchOther
    <2>3. IoBal(work')
      BY <1>5
    <2>4. \A f \in File : Stage(f)' + Held(work', f) = Stage(f) + Held(work, f)
      BY <1>5, StageKept
    <2>5. PlaceType'
      BY <1>5, <1>7 DEF PlaceType
    <2> QED
      BY <2>2, <2>3, <2>4, <2>5, PlaceSame
  <1> QED
    BY <1>5, <1>7, <1>8, <1>9, InvNext

\* The steps that touch the manifest only.
LEMMA ManifestStep ==
    ASSUME Inv, Running, (\E f \in File : ServerLists(f)) \/ ServerEndsManifest
    PROVE  Inv'
  <1> USE InvParts
  <1>1. /\ UNCHANGED connVars /\ UNCHANGED <<empty, asked, incomingPriority, readyFrames>>
        /\ UNCHANGED mainVars /\ UNCHANGED hashVars
        /\ UNCHANGED <<comparing, activeDownloads, activeBatches, work>>
    BY DEF ServerLists, ServerEndsManifest
  <1>2. Coming' = Coming
    BY <1>1 DEF Coming
  <1>3. HashQuiet /\ Requests' = Requests
    BY <1>1, <1>2, QuietSame
  <1>4. /\ ManifestInv' /\ toList' \subseteq File
        /\ manifestBatch' \in Seq(EntryFrame) /\ incomingManifest' \in Seq(EntryFrame \cup EndFrame)
    <2>1. /\ manifestBatch \in Seq(EntryFrame) /\ incomingManifest \in Seq(EntryFrame \cup EndFrame)
          /\ toList \subseteq File
      BY DEF LoopType
    <2>2. UNCHANGED <<remoteFiles, manifestDone>>
      BY <1>1 DEF mainVars
    <2>3. ASSUME NEW f \in File, ServerLists(f)
          PROVE  /\ ManifestInv' /\ toList' \subseteq File
                 /\ manifestBatch' \in Seq(EntryFrame) /\ incomingManifest' \in Seq(EntryFrame \cup EndFrame)
      <3>1. /\ f \in toList /\ toList' = toList \ {f} /\ manifestBatch' = Append(manifestBatch, Entry(f))
            /\ UNCHANGED <<incomingManifest, endSent>>
        BY <2>3 DEF ServerLists, Entry
      <3>2. Entry(f) \in EntryFrame
        BY DEF Entry, EntryFrame
      <3>3. ManifestInv'
        BY <1>1, <2>2, <3>1, ManifestListed
      <3> QED
        BY <2>1, <3>1, <3>2, <3>3
    <2>4. ASSUME ServerEndsManifest
          PROVE  /\ ManifestInv' /\ toList' \subseteq File
                 /\ manifestBatch' \in Seq(EntryFrame) /\ incomingManifest' \in Seq(EntryFrame \cup EndFrame)
      <3>1. /\ ~endSent /\ toList = {} /\ endSent' = TRUE /\ manifestBatch' = <<>> /\ UNCHANGED toList
            /\ incomingManifest' = incomingManifest \o manifestBatch \o <<[type |-> "ManifestEnd"]>>
        BY <2>4 DEF ServerEndsManifest
      <3>2. ManifestInv'
        BY <1>1, <2>2, <3>1, ManifestEnds
      <3>3. [type |-> "ManifestEnd"] \in EndFrame
        BY DEF EndFrame
      <3>4. <<[type |-> "ManifestEnd"]>> \in Seq(EntryFrame \cup EndFrame)
        BY <3>3
      <3>5. incomingManifest \o manifestBatch \in Seq(EntryFrame \cup EndFrame)
        BY <2>1
      <3>6. incomingManifest' \in Seq(EntryFrame \cup EndFrame)
        BY <3>1, <3>4, <3>5
      <3> QED
        BY <2>1, <3>1, <3>2, <3>6
    <2> QED
      BY <2>3, <2>4
  <1>5. LaneType'
    BY <1>1 DEF LaneType, connVars
  <1>6. LoopType'
    BY <1>1, <1>4 DEF LoopType, mainVars
  <1>7. NetInv'
    BY <1>1, <1>2, <1>3, <1>5, NetKept DEF connVars, Shrinks, LaneType
  <1>8. LanesExact'
    BY <1>1, LanesKept DEF connVars, Shrinks
  <1>10. HashInv'
    BY <1>1, <1>3, HashKept DEF mainVars, SameHash
  <1>11. StageSame
    BY <1>1 DEF StageSame, mainVars, hashVars
  <1>12. PlaceInv'
    BY <1>1, <1>2, <1>3, <1>6, <1>7, <1>11, PlaceKept DEF PlaceType
  <1>13. result' # "complete"
    BY <1>1 DEF Running, mainVars
  <1> QED
    BY <1>4, <1>5, <1>6, <1>7, <1>8, <1>10, <1>12, <1>13, InvNext

-----------------------------------------------------------------------------
(* The main loop: steps that move on, and the end.                         *)

\* Nothing but pc and result changes.
LEMMA PcStep ==
    ASSUME Inv, pc # "process", pc' # "process", result' \in {"running", "complete", "incomplete"},
           UNCHANGED <<connVars, serverVars, frameVars, recvClosed, manifestDone, remoteFiles, comparing,
                       hashVars, activeDownloads, activeBatches, work>>
    PROVE  LaneType' /\ LoopType' /\ NetInv' /\ LanesExact' /\ ManifestInv' /\ HashInv' /\ PlaceInv'
  <1> USE InvParts
  <1>2. Coming' = Coming /\ UNCHANGED asked
    BY DEF Coming, frameVars, serverVars
  <1>3. HashQuiet /\ Requests' = Requests
    BY <1>2, QuietSame
  <1>5. LaneType'
    BY DEF LaneType, connVars
  <1>6. LoopType'
    BY DEF LoopType, serverVars, frameVars
  <1>7. NetInv'
    BY <1>2, <1>3, <1>5, NetKept DEF connVars, serverVars, Shrinks, LaneType
  <1>8. LanesExact'
    BY LanesKept DEF connVars, Shrinks
  <1>9. ManifestInv'
    BY ManifestKept DEF serverVars, frameVars
  <1>10. HashInv'
    BY <1>3, HashKept DEF SameHash
  <1>11. StageSame
    BY DEF StageSame, hashVars
  <1>12. PlaceInv'
    BY <1>2, <1>3, <1>6, <1>7, <1>11, PlaceKept DEF PlaceType
  <1> QED
    BY <1>5, <1>6, <1>7, <1>8, <1>9, <1>10, <1>12

LEMMA StartsDoneStep ==
    ASSUME Inv, StartsDone
    PROVE  Inv'
  <1>1. /\ pc = "start" /\ pc' = "drain" /\ result = "running" /\ result' = result
        /\ UNCHANGED <<connVars, serverVars, frameVars, recvClosed, manifestDone, remoteFiles, comparing,
                       hashVars, activeDownloads, activeBatches, work>>
    BY DEF StartsDone, Main
  <1>2. LaneType' /\ LoopType' /\ NetInv' /\ LanesExact' /\ ManifestInv' /\ HashInv' /\ PlaceInv'
    BY <1>1, PcStep
  <1> QED
    BY <1>1, <1>2, InvNext

\* With nothing left in any stage, a file that is fetched on its own has been counted.
LEMMA AllCounted ==
    ASSUME Inv, AllDone, NEW f \in File \ Small
    PROVE  remoteFiles = File /\ work.verdicts[f] # <<>>
  <1> USE InvParts
  <1>1. remoteFiles = File
    BY DEF AllDone, ManifestInv, EndLast
  <1>2. Stage(f) = 0
    <2>1. DOMAIN comparing = {}
      BY DEF AllDone
    <2>2. In(f, File \ remoteFiles) = 0 /\ In(f, DOMAIN comparing) = 0 /\ In(f, hashRequested \ work.resolved) = 0
      BY <1>1, <2>1 DEF In, AllDone
    <2> QED
      BY <2>2 DEF Stage
  <1>3. Queued(work, f) = 0
    <2>1. /\ Occurrences(f, work.pendingBatch) = 0 /\ Occurrences(f, work.pending) = 0
          /\ Occurrences(f, work.retryBatch) = 0 /\ Occurrences(f, work.retry) = 0
      BY OccEmpty DEF AllDone
    <2> QED
      BY <2>1 DEF Queued
  <1>4. work.ioTasks = {} /\ work.ioResults = {}
    <2>1. IsFiniteSet(work.ioTasks) /\ IsFiniteSet(work.ioResults)
      BY ResultsFinite
    <2>2. Cardinality(work.ioTasks) \in Nat /\ Cardinality(work.ioResults) \in Nat
      BY <2>1, FS_CardinalityType
    <2>3. Cardinality(work.ioTasks) + Cardinality(work.ioResults) = 0
      BY DEF IoBal, AllDone
    <2>4. Cardinality(work.ioTasks) = 0 /\ Cardinality(work.ioResults) = 0
      BY <2>2, <2>3
    <2> QED
      BY <2>1, <2>4, FS_EmptySet
  <1>5. In(f, work.ioTasks) = 0 /\ Results(work, f) = 0
    <2>1. {r \in work.ioResults : r[1] = f} = {}
      BY <1>4
    <2> QED
      BY <1>4, <2>1, FS_EmptySet DEF In, Results
  <1>6. Fetching(Requests, Coming, activeDownloads, activeBatches, f) = 0
    <2>1. DOMAIN activeDownloads = {} /\ DOMAIN activeBatches = {}
      BY DEF AllDone
    <2>2. {k \in DOMAIN activeDownloads : activeDownloads[k] = f} = {}
          /\ {k \in DOMAIN activeBatches : f \in ToSet(activeBatches[k].waiting)} = {}
          /\ Headers(Requests, Coming, activeBatches, f) = {}
      BY <2>1 DEF Headers
    <2>3. /\ Singles(activeDownloads, f) = 0 /\ Waits(activeBatches, f) = 0
          /\ Headerless(Requests, Coming, activeBatches, f) = 0
      BY <2>2, FS_EmptySet DEF Singles, Waits, Headerless
    <2> QED
      BY <2>3 DEF Fetching
  <1>7. Places(f) = Stage(f) + Held(work, f) + Fetching(Requests, Coming, activeDownloads, activeBatches, f)
    BY PlacesIs
  <1>8. Places(f) = 1
    BY DEF PlaceInv
  <1>9. Counted(work, f) \in Nat
    BY HeldType
  <1>10. Counted(work, f) = 1
    BY <1>2, <1>3, <1>5, <1>6, <1>7, <1>8, <1>9 DEF Held
  <1>11. Len(work.verdicts[f]) # 0
    BY <1>10 DEF Counted
  <1>12. Len(<<>>) = 0
    OBVIOUS
  <1> QED
    BY <1>1, <1>11, <1>12

LEMMA LeavesStep ==
    ASSUME Inv, Leaves
    PROVE  Inv'
  <1>1. /\ pc = "test" /\ pc' = "exit" /\ result = "running" /\ result' \in {"incomplete", "complete"}
        /\ UNCHANGED <<connVars, serverVars, frameVars, recvClosed, manifestDone, remoteFiles, comparing,
                       hashVars, activeDownloads, activeBatches, work>> /\ AllDone
    BY DEF Leaves, Main
  <1>2. LaneType' /\ LoopType' /\ NetInv' /\ LanesExact' /\ ManifestInv' /\ HashInv' /\ PlaceInv'
    BY <1>1, PcStep
  <1>3. remoteFiles = File
    BY <1>1, InvParts DEF AllDone, ManifestInv, EndLast
  <1>4. \A f \in File \ Small : work.verdicts[f] # <<>>
    BY <1>1, AllCounted
  <1>5. CompleteHasFullView'
    BY <1>1, <1>3, <1>4 DEF CompleteHasFullView
  <1> QED
    BY <1>2, <1>5 DEF Inv

-----------------------------------------------------------------------------
(* Starting transfers.                                                     *)

\* v is w but for one of the queues.
OnlyQueues(w, v) ==
    v \in Work /\ SameIo(w, v) /\ SameHash(w, v) /\ v.verdicts = w.verdicts

LEMMA QueueHeld ==
    ASSUME NEW w \in Work, NEW v \in Work, OnlyQueues(w, v), NEW g \in File, NEW n \in Nat,
           Queued(w, g) = Queued(v, g) + n
    PROVE  Held(w, g) = Held(v, g) + n
  <1>1. Queued(v, g) \in Nat /\ Results(w, g) \in Nat /\ Counted(w, g) \in Nat /\ In(g, w.ioTasks) \in Nat
    BY HeldType
  <1>2. Results(v, g) = Results(w, g) /\ Counted(v, g) = Counted(w, g) /\ In(g, v.ioTasks) = In(g, w.ioTasks)
    BY DEF OnlyQueues, SameIo, Results, Counted
  <1> QED
    BY <1>1, <1>2 DEF Held

LEMMA QueueIs ==
    ASSUME LoopType
    PROVE  /\ BatchTurn => /\ NextQueue \in {"pendingBatch", "retryBatch"}
                           /\ work[NextQueue] \in Seq(Small) /\ work[NextQueue] # <<>>
           /\ RegularTurn => /\ NextQueue \in {"pending", "retry"}
                             /\ work[NextQueue] \in Seq(File \ Small) /\ work[NextQueue] # <<>>
  <1>1. work \in Work
    BY DEF LoopType
  <1>2. NextQueue = "pendingBatch" => work.pendingBatch # <<>>
    BY DEF NextQueue
  <1>3. NextQueue = "retryBatch" => work.retryBatch # <<>>
    BY DEF NextQueue
  <1>4. NextQueue = "pending" => work.pending # <<>>
    BY DEF NextQueue
  <1>5. NextQueue = "retry" => work.retry # <<>>
    BY DEF NextQueue
  <1>6. /\ work.pendingBatch \in Seq(Small) /\ work.retryBatch \in Seq(Small)
        /\ work.pending \in Seq(File \ Small) /\ work.retry \in Seq(File \ Small)
    BY <1>1, WorkHas
  <1> QED
    BY <1>2, <1>3, <1>4, <1>5, <1>6 DEF BatchTurn, RegularTurn

\* The first file of a queue of single files goes.
LEMMA DequeueIs ==
    ASSUME NEW w \in Work, NEW q \in {"pending", "retry"}, w[q] # <<>>
    PROVE  /\ Head(w[q]) \in File \ Small /\ OnlyQueues(w, [w EXCEPT ![q] = Tail(@)])
           /\ \A g \in File : Held(w, g) = Held([w EXCEPT ![q] = Tail(@)], g) + Is(g, Head(w[q]))
  <1> DEFINE v == [w EXCEPT ![q] = Tail(@)]
  <1>1. w.pending \in Seq(File \ Small) /\ w.retry \in Seq(File \ Small)
    BY WorkHas
  <1>2. w[q] \in Seq(File \ Small)
    BY <1>1
  <1>3. Head(w[q]) \in File \ Small /\ Tail(w[q]) \in Seq(File \ Small)
    BY <1>2
  <1>4. v \in Work
    BY <1>3 DEF Work
  <1>5. /\ SameIo(w, v) /\ SameHash(w, v) /\ v.verdicts = w.verdicts
        /\ v.pendingBatch = w.pendingBatch /\ v.retryBatch = w.retryBatch
        /\ v[q] = Tail(w[q])
        /\ q = "pending" => v.pending = Tail(w.pending) /\ v.retry = w.retry
        /\ q = "retry" => v.retry = Tail(w.retry) /\ v.pending = w.pending
    BY DEF Work, SameIo, SameHash
  <1> HIDE DEF v
  <1>6. ASSUME NEW g \in File
        PROVE  Held(w, g) = Held(v, g) + Is(g, Head(w[q]))
    <2>1. Is(g, Head(w[q])) \in Nat
      BY DEF Is
    <2>2. /\ Occurrences(g, v.pendingBatch) \in Nat /\ Occurrences(g, v.pending) \in Nat
          /\ Occurrences(g, v.retryBatch) \in Nat /\ Occurrences(g, v.retry) \in Nat
      BY <1>4, HeldType
    <2>3. CASE q = "pending"
      <3>1. w.pending # <<>> /\ w[q] = w.pending
        BY <2>3
      <3>2. Occurrences(g, w.pending) = Is(g, Head(w.pending)) + Occurrences(g, Tail(w.pending))
        BY <1>1, <3>1, OccTail
      <3>3. Queued(w, g) = Queued(v, g) + Is(g, Head(w[q]))
        BY <1>5, <2>1, <2>2, <2>3, <3>1, <3>2 DEF Queued
      <3> QED
        BY <1>4, <1>5, <2>1, <3>3, QueueHeld DEF OnlyQueues
    <2>4. CASE q = "retry"
      <3>1. w.retry # <<>> /\ w[q] = w.retry
        BY <2>4
      <3>2. Occurrences(g, w.retry) = Is(g, Head(w.retry)) + Occurrences(g, Tail(w.retry))
        BY <1>1, <3>1, OccTail
      <3>3. Queued(w, g) = Queued(v, g) + Is(g, Head(w[q]))
        BY <1>5, <2>1, <2>2, <2>4, <3>1, <3>2 DEF Queued
      <3> QED
        BY <1>4, <1>5, <2>1, <3>3, QueueHeld DEF OnlyQueues
    <2> QED
      BY <2>3, <2>4
  <1> QED
    BY <1>3, <1>4, <1>5, <1>6 DEF OnlyQueues, v

\* The first n files of a batch queue go.
LEMMA SplitIs ==
    ASSUME NEW w \in Work, NEW q \in {"pendingBatch", "retryBatch"}, NEW n \in 0 .. Len(w[q])
    PROVE  LET v == [w EXCEPT ![q] = SubSeq(w[q], n + 1, Len(w[q]))]
           IN  /\ SubSeq(w[q], 1, n) \in Seq(Small) /\ OnlyQueues(w, v)
               /\ \A g \in File : Held(w, g) = Held(v, g) + Occurrences(g, SubSeq(w[q], 1, n))
  <1> DEFINE a == SubSeq(w[q], 1, n)
             z == SubSeq(w[q], n + 1, Len(w[q]))
             v == [w EXCEPT ![q] = z]
  <1>1. w.pendingBatch \in Seq(Small) /\ w.retryBatch \in Seq(Small)
    BY WorkHas
  <1>2. w[q] \in Seq(Small)
    BY <1>1
  <1>3. a \in Seq(Small) /\ z \in Seq(Small)
    BY <1>2, OccSplit
  <1>4. \A g : Occurrences(g, w[q]) = Occurrences(g, a) + Occurrences(g, z)
    BY <1>2, OccSplit
  <1> HIDE DEF a, z
  <1>5. v \in Work
    BY <1>3 DEF Work
  <1>6. /\ SameIo(w, v) /\ SameHash(w, v) /\ v.verdicts = w.verdicts
        /\ v.pending = w.pending /\ v.retry = w.retry
        /\ q = "pendingBatch" => v.pendingBatch = z /\ v.retryBatch = w.retryBatch
        /\ q = "retryBatch" => v.retryBatch = z /\ v.pendingBatch = w.pendingBatch
    BY DEF Work, SameIo, SameHash
  <1> HIDE DEF v
  <1>7. ASSUME NEW g \in File
        PROVE  Held(w, g) = Held(v, g) + Occurrences(g, a)
    <2>1. Occurrences(g, a) \in Nat
      BY <1>3, OccType
    <2>2. /\ Occurrences(g, v.pendingBatch) \in Nat /\ Occurrences(g, v.pending) \in Nat
          /\ Occurrences(g, v.retryBatch) \in Nat /\ Occurrences(g, v.retry) \in Nat
      BY <1>5, HeldType
    <2>3. Occurrences(g, w[q]) = Occurrences(g, a) + Occurrences(g, z)
      BY <1>4
    <2>4. CASE q = "pendingBatch"
      <3>1. w[q] = w.pendingBatch
        BY <2>4
      <3>2. Queued(w, g) = Queued(v, g) + Occurrences(g, a)
        BY <1>6, <2>1, <2>2, <2>3, <2>4, <3>1 DEF Queued
      <3> QED
        BY <1>5, <1>6, <2>1, <3>2, QueueHeld DEF OnlyQueues
    <2>5. CASE q = "retryBatch"
      <3>1. w[q] = w.retryBatch
        BY <2>5
      <3>2. Queued(w, g) = Queued(v, g) + Occurrences(g, a)
        BY <1>6, <2>1, <2>2, <2>3, <2>5, <3>1 DEF Queued
      <3> QED
        BY <1>5, <1>6, <2>1, <3>2, QueueHeld DEF OnlyQueues
    <2> QED
      BY <2>4, <2>5
  <1> QED
    BY <1>3, <1>5, <1>6, <1>7 DEF OnlyQueues, v, a, z

\* Queued files move within the client's own work; a lane may fail on the way.
LEMMA WorkStep ==
    ASSUME Inv, result = "running", result' = result, pc # "process", pc' # "process",
           LaneType', Shrinks, NetInv', work' \in Work, IoBal(work'), SameHash(work, work'),
           \A f \in File : Held(work', f) = Held(work, f),
           UNCHANGED <<drained, inFlight, serverVars, frameVars, manifestDone, remoteFiles, comparing,
                       hashVars, activeDownloads, activeBatches>>
    PROVE  Inv'
  <1> USE InvParts
  <1>2. Coming' = Coming /\ UNCHANGED asked
    BY DEF Coming, frameVars, serverVars
  <1>3. HashQuiet /\ Requests' = Requests
    BY <1>2, QuietSame
  <1>6. LoopType'
    BY DEF LoopType, serverVars, frameVars
  <1>8. LanesExact'
    BY LanesKept
  <1>9. ManifestInv'
    BY ManifestKept DEF serverVars, frameVars
  <1>10. HashInv'
    BY <1>3, HashKept
  <1>11. StageSame
    BY DEF StageSame, hashVars, SameHash
  <1>12. PlaceInv'
    <2>1. \A f \in File : Stage(f)' + Held(work', f) = Stage(f) + Held(work, f)
      BY <1>11, StageKept
    <2>2. PlaceType'
      BY <1>6 DEF PlaceType
    <2> QED
      BY <1>2, <1>3, <2>1, <2>2, PlaceSame
  <1> QED
    BY <1>6, <1>8, <1>9, <1>10, <1>12, InvNext

LEMMA IoBalSame ==
    ASSUME NEW w, NEW v, SameIo(w, v), IoBal(w)
    PROVE  IoBal(v)
  BY DEF SameIo, IoBal

LEMMA OpenFileFailsStep ==
    ASSUME Inv, OpenFileFails
    PROVE  Inv'
  <1> USE InvParts
  <1> DEFINE v == [work EXCEPT ![NextQueue] = Tail(@)]
             f == Head(work[NextQueue])
  <1>1. /\ pc = "start" /\ pc' = "start" /\ result = "running" /\ result' = result /\ RegularTurn
        /\ work' = RetryOrFail(v, f)
        /\ UNCHANGED <<connVars, serverVars, frameVars, manifestDone, remoteFiles, comparing, hashVars,
                       activeDownloads, activeBatches>>
    BY DEF OpenFileFails, Main
  <1>2. NextQueue \in {"pending", "retry"} /\ work[NextQueue] # <<>>
    BY <1>1, QueueIs
  <1>3. f \in File \ Small /\ OnlyQueues(work, v) /\ \A g \in File : Held(work, g) = Held(v, g) + Is(g, f)
    BY <1>2, DequeueIs
  <1> HIDE DEF v, f
  <1>4. v \in Work /\ Adds(v, work', f)
    BY <1>1, <1>3, RetryOrFailIs DEF OnlyQueues
  <1>5. work' \in Work /\ SameHash(work, work') /\ SameIo(work, work')
    BY <1>3, <1>4 DEF Adds, OnlyQueues, SameHash, SameIo
  <1>6. \A g \in File : Held(work', g) = Held(work, g)
    BY <1>3, <1>4 DEF Adds
  <1>7. IoBal(work')
    BY <1>5, IoBalSame
  <1>8. LaneType' /\ Shrinks
    BY <1>1 DEF LaneType, connVars, Shrinks
  <1>9. Coming' = Coming /\ Requests' = Requests
    BY <1>1 DEF Coming, Requests, frameVars, serverVars
  <1>10. NetInv'
    BY <1>1, <1>8, <1>9, NetKept DEF connVars, serverVars, LaneType
  <1> QED
    BY <1>1, <1>5, <1>6, <1>7, <1>8, <1>10, WorkStep DEF connVars

LEMMA SmallSeq == \A s \in Seq(Small) : s \in Seq(File)
  <1>1. Small \subseteq File
    BY ClientAssumption
  <1> QED
    BY <1>1

LEMMA StartBatchFailsStep ==
    ASSUME Inv, StartBatchFails
    PROVE  Inv'
  <1> USE InvParts
  <1> DEFINE l == NextLane
             q == work[NextQueue]
             n == IF Len(q) < BatchMax THEN Len(q) ELSE BatchMax
             v == [work EXCEPT ![NextQueue] = SubSeq(q, n + 1, Len(q))]
             fs == SubSeq(q, 1, n)
  <1>1. /\ pc = "start" /\ pc' = "drain" /\ result = "running" /\ result' = result /\ BatchTurn /\ l # NoLane
        /\ work' = RetryAll(v, fs)
        /\ nextStreamId' = [nextStreamId EXCEPT ![l] = @ + 1]
        /\ healthy' = [healthy EXCEPT ![l] = FALSE]
        /\ UNCHANGED <<recving, drained, inFlight, serverVars, frameVars, manifestDone, remoteFiles,
                       comparing, hashVars, activeDownloads, activeBatches>>
    BY DEF StartBatchFails, Main
  <1>2. NextQueue \in {"pendingBatch", "retryBatch"} /\ q \in Seq(Small)
    BY <1>1, QueueIs
  <1>3. n \in 0 .. Len(q)
    BY <1>2, ClientAssumption
  <1> HIDE DEF n
  <1>4. fs \in Seq(Small) /\ OnlyQueues(work, v) /\ \A g \in File : Held(work, g) = Held(v, g) + Occurrences(g, fs)
    BY <1>2, <1>3, SplitIs
  <1> HIDE DEF v, fs
  <1>5. /\ work' \in Work /\ SameIo(v, work') /\ SameHash(v, work')
        /\ \A g \in File : Held(work', g) = Held(v, g) + Occurrences(g, fs)
    <2>1. fs \in Seq(File) /\ v \in Work
      BY <1>4, SmallSeq DEF OnlyQueues
    <2> QED
      BY <1>1, <2>1, RetryAllIs
  <1>6. SameHash(work, work') /\ SameIo(work, work')
    BY <1>4, <1>5 DEF OnlyQueues, SameHash, SameIo
  <1>7. \A g \in File : Held(work', g) = Held(work, g)
    BY <1>4, <1>5
  <1>8. IoBal(work')
    BY <1>6, IoBalSame
  <1>9. l \in Lane
    BY <1>1, NextLaneIs
  <1>10. LaneType' /\ Shrinks
    BY <1>1, <1>9 DEF LaneType, Shrinks
  <1>11. Coming' = Coming /\ Requests' = Requests /\ empty' = empty
    BY <1>1 DEF Coming, Requests, frameVars, serverVars
  <1>12. NetInv'
    <2>1. nextStreamId \in [Lane -> Nat] /\ healthy' \in [Lane -> BOOLEAN]
      BY <1>10 DEF LaneType
    <2>2. Net(empty, Requests, Coming, activeDownloads, activeBatches, healthy, nextStreamId')
      BY <1>1, <1>9, <2>1, NetSkips
    <2>3. Net(empty, Requests, Coming, activeDownloads, activeBatches, healthy', nextStreamId')
      BY <1>10, <2>1, <2>2, NetDies DEF Shrinks
    <2> QED
      BY <1>1, <1>11, <2>3 DEF NetInv
  <1> QED
    BY <1>1, <1>5, <1>6, <1>7, <1>8, <1>10, <1>12, WorkStep

\* A request goes out: nothing about hashes changes.
LEMMA QuietAsk ==
    ASSUME HashInv, Coming' = Coming, NEW r \in StreamRequest, asked' = asked \cup {r}
    PROVE  HashQuiet /\ Requests' = Requests \cup {r}
  <1>1. r.type # "HashRequest"
    BY RequestIs
  <1>2. IsFiniteSet(asked')
    BY FS_AddElement DEF HashInv
  <1> QED
    BY <1>1, <1>2 DEF HashInv, HashQuiet, Requests

\* The facts about new streams, in the client's own state.
LEMMA FreshNow ==
    ASSUME Inv, NEW l \in Lane
    PROVE  /\ <<l, nextStreamId[l]>> \notin DOMAIN activeDownloads
           /\ <<l, nextStreamId[l]>> \notin DOMAIN activeBatches
  <1>1. Net(empty, Requests, Coming, activeDownloads, activeBatches, healthy, nextStreamId)
    BY InvParts
  <1>2. nextStreamId \in [Lane -> Nat]
    BY InvParts DEF LaneType
  <1> QED
    BY <1>1, <1>2, FreshId

LEMMA DownloadNow ==
    ASSUME Inv, NEW l \in Lane, NEW f \in File \ Small,
           NEW p, p = Requests \/ p = Requests \cup {[type |-> "FileOpen", lane |-> l, sid |-> nextStreamId[l]]}
    PROVE  Net(empty, p, Coming, With(activeDownloads, <<l, nextStreamId[l]>>, f), activeBatches, healthy,
               [nextStreamId EXCEPT ![l] = @ + 1])
  <1>1. Net(empty, Requests, Coming, activeDownloads, activeBatches, healthy, nextStreamId)
    BY InvParts
  <1>2. nextStreamId \in [Lane -> Nat]
    BY InvParts DEF LaneType
  <1> QED
    BY <1>1, <1>2, NetDownload

LEMMA FetchBatchNow ==
    ASSUME Inv, NEW l \in Lane, NEW fs, NEW f
    PROVE  Fetching(Requests \cup {[type |-> "FileBatchOpen", lane |-> l, sid |-> nextStreamId[l], files |-> fs]},
                    Coming, activeDownloads,
                    With(activeBatches, <<l, nextStreamId[l]>>, [headerReady |-> FALSE, waiting |-> <<>>]), f)
              = Fetching(Requests, Coming, activeDownloads, activeBatches, f) + In(f, ToSet(fs))
  <1>1. Net(empty, Requests, Coming, activeDownloads, activeBatches, healthy, nextStreamId)
    BY InvParts
  <1>2. nextStreamId \in [Lane -> Nat]
    BY InvParts DEF LaneType
  <1> QED
    BY <1>1, <1>2, FetchBatch

LEMMA StartBatchStep ==
    ASSUME Inv, StartBatch
    PROVE  Inv'
  <1> USE InvParts
  <1> DEFINE l == NextLane
             q == work[NextQueue]
             n == IF Len(q) < BatchMax THEN Len(q) ELSE BatchMax
             v == [work EXCEPT ![NextQueue] = SubSeq(q, n + 1, Len(q))]
             fs == SubSeq(q, 1, n)
             key == <<l, nextStreamId[l]>>
             r == [type |-> "FileBatchOpen", lane |-> l, sid |-> nextStreamId[l], files |-> fs]
  <1>1. /\ pc = "start" /\ pc' = "start" /\ result = "running" /\ result' = result /\ BatchTurn /\ l # NoLane
        /\ work' = v
        /\ activeBatches' = With(activeBatches, key, [headerReady |-> FALSE, waiting |-> <<>>])
        /\ nextStreamId' = [nextStreamId EXCEPT ![l] = @ + 1]
        /\ inFlight' = [inFlight EXCEPT ![l] = @ + 1]
        /\ asked' = asked \cup {r}
        /\ UNCHANGED <<healthy, recving, drained, empty, toList, endSent>>
        /\ UNCHANGED <<frameVars, manifestDone, remoteFiles, comparing, hashVars, activeDownloads>>
    BY DEF StartBatch, Main
  <1>2. NextQueue \in {"pendingBatch", "retryBatch"} /\ q \in Seq(Small)
    BY <1>1, QueueIs
  <1>3. n \in 0 .. Len(q)
    BY <1>2, ClientAssumption
  <1>9. l \in Lane /\ healthy[l] /\ inFlight[l] < StreamLimit
    BY <1>1, NextLaneIs
  <1>13. nextStreamId \in [Lane -> Nat] /\ inFlight \in [Lane -> Nat]
    BY DEF LaneType
  <1> HIDE DEF n, l
  <1>4. fs \in Seq(Small) /\ OnlyQueues(work, v) /\ \A g \in File : Held(work, g) = Held(v, g) + Occurrences(g, fs)
    BY <1>2, <1>3, SplitIs
  <1> HIDE DEF v, fs, q
  <1>14. v \in Work
    BY <1>4 DEF OnlyQueues
  <1>5. Once(fs)
    <2>1. \A f \in Small : Occurrences(f, fs) <= 1
      <3> SUFFICES ASSUME NEW f \in Small
                   PROVE  Occurrences(f, fs) <= 1
        OBVIOUS
      <3>1. f \in File
        BY ClientAssumption
      <3>2. Stage(f) + Held(work, f) + Fetching(Requests, Coming, activeDownloads, activeBatches, f) <= 1
            /\ Stage(f) \in Nat /\ Held(work, f) \in Nat
            /\ Fetching(Requests, Coming, activeDownloads, activeBatches, f) \in Nat
        BY <3>1, Alone
      <3>3. Held(v, f) \in Nat
        BY <1>14, <3>1, HeldType
      <3>4. Held(work, f) = Held(v, f) + Occurrences(f, fs)
        BY <1>4, <3>1
      <3>5. Occurrences(f, fs) \in Nat
        BY <1>4, OccType
      <3> QED
        BY <3>2, <3>3, <3>4, <3>5
    <2> QED
      BY <1>4, <2>1, OnceOcc
  <1>6. Coming' = Coming
    BY <1>1 DEF Coming, frameVars
  <1>7. r \in StreamRequest
    BY <1>4, <1>9, <1>13 DEF StreamRequest, BatchRequest
  <1>8. HashQuiet /\ Requests' = Requests \cup {r}
    BY <1>1, <1>6, <1>7, QuietAsk
  <1>10. LaneType'
    BY <1>1, <1>9, <1>13 DEF LaneType
  <1>11. LoopType'
    BY <1>1, <1>14 DEF LoopType, frameVars
  <1>12. NetInv'
    <2>1. Net(empty, Requests \cup {r}, Coming, activeDownloads, activeBatches', healthy, nextStreamId')
      BY <1>1, <1>4, <1>5, <1>9, <1>13, NetBatch
    <2> QED
      BY <1>1, <1>6, <1>8, <2>1 DEF NetInv
  <1>15. LanesExact'
    <2> DEFINE D == DOMAIN activeDownloads \cup DOMAIN activeBatches
    <2>1. IsFiniteSet(DOMAIN activeDownloads) /\ IsFiniteSet(DOMAIN activeBatches)
      BY DEF NetType
    <2>2. IsFiniteSet(D)
      BY <2>1, FS_Union
    <2>3. key \notin DOMAIN activeDownloads /\ key \notin DOMAIN activeBatches
      BY <1>9, FreshNow
    <2>4. Exact(D, healthy, drained, inFlight)
      BY LanesExactIs
    <2>5. key[1] = l /\ key \notin D
      BY <2>3
    <2>6. DOMAIN activeBatches' = DOMAIN activeBatches \cup {key}
      BY <1>1 DEF With
    <2>7. DOMAIN activeDownloads' \cup DOMAIN activeBatches' = D \cup {key}
      BY <1>1, <2>6
    <2> HIDE DEF D, key
    <2>8. Exact(D \cup {key}, healthy, drained, inFlight')
      BY <1>1, <1>9, <1>13, <2>2, <2>4, <2>5, ExactOpens
    <2> QED
      BY <1>1, <2>7, <2>8, LanesExactIs
  <1>16. ManifestInv'
    BY <1>1, ManifestKept DEF frameVars
  <1>17. SameHash(work, work')
    BY <1>1, <1>4 DEF OnlyQueues
  <1>18. HashInv'
    BY <1>1, <1>8, <1>17, HashKept
  <1>19. StageSame
    BY <1>1, <1>17 DEF StageSame, hashVars, SameHash
  <1>20. PlaceInv'
    <2>1. IoBal(work')
      BY <1>1, <1>4, IoBalSame DEF OnlyQueues
    <2>2. PlaceType'
      BY <1>11, <1>12 DEF PlaceType
    <2>3. ASSUME NEW f \in File
          PROVE  Load(f)' <= Load(f) /\ (f \notin Small => Load(f) <= Load(f)')
      <3>1. Fetching(Requests', Coming', activeDownloads', activeBatches', f)
               = Fetching(Requests, Coming, activeDownloads, activeBatches, f) + In(f, ToSet(fs))
        <4>1. Fetching(Requests \cup {r}, Coming, activeDownloads,
                       With(activeBatches, key, [headerReady |-> FALSE, waiting |-> <<>>]), f)
                 = Fetching(Requests, Coming, activeDownloads, activeBatches, f) + In(f, ToSet(fs))
          BY <1>9, FetchBatchNow
        <4> HIDE DEF r, key
        <4> QED
          BY <1>1, <1>6, <1>8, <4>1
      <3>2. Occurrences(f, fs) = In(f, ToSet(fs))
        BY <1>4, <1>5, OccOnce
      <3>3. In(f, ToSet(fs)) \in {0, 1}
        BY DEF In
      <3>4. Held(work, f) = Held(work', f) + In(f, ToSet(fs)) /\ Held(work', f) \in Nat
        BY <1>1, <1>4, <1>14, <3>2, HeldType
      <3>5. Stage(f)' = Stage(f)
        BY <1>19, StageKept
      <3>6. Stage(f) \in Nat /\ Fetching(Requests, Coming, activeDownloads, activeBatches, f) \in Nat
        BY Alone
      <3>7. Load(f)' = Stage(f)' + Held(work', f) + Fetching(Requests', Coming', activeDownloads', activeBatches', f)
        BY DEF Load
      <3>8. Load(f) = Stage(f) + Held(work, f) + Fetching(Requests, Coming, activeDownloads, activeBatches, f)
        BY DEF Load
      <3>9. Load(f)' = Load(f) /\ Load(f) \in Nat
        BY <3>1, <3>3, <3>4, <3>5, <3>6, <3>7, <3>8
      <3> HIDE DEF Load
      <3> QED
        BY <3>9
    <2> QED
      BY <2>1, <2>2, <2>3, PlaceKeeps
  <1> QED
    BY <1>1, <1>10, <1>11, <1>12, <1>15, <1>16, <1>18, <1>20, InvNext

LEMMA StartRegularStep ==
    ASSUME Inv, StartRegular
    PROVE  Inv'
  <1> USE InvParts
  <1> DEFINE l == NextLane
             v == [work EXCEPT ![NextQueue] = Tail(@)]
             f == Head(work[NextQueue])
             key == <<l, nextStreamId[l]>>
             r == [type |-> "FileOpen", lane |-> l, sid |-> nextStreamId[l]]
  <1>1. /\ pc = "start" /\ pc' \in {"start", "drain"} /\ result = "running" /\ result' = result
        /\ RegularTurn /\ l # NoLane /\ work' = v
        /\ activeDownloads' = With(activeDownloads, key, f)
        /\ nextStreamId' = [nextStreamId EXCEPT ![l] = @ + 1]
        /\ \/ inFlight' = [inFlight EXCEPT ![l] = @ + 1] /\ asked' = asked \cup {r} /\ UNCHANGED healthy
           \/ healthy' = [healthy EXCEPT ![l] = FALSE] /\ UNCHANGED <<inFlight, asked>>
        /\ UNCHANGED <<recving, drained, empty, toList, endSent>>
        /\ UNCHANGED <<frameVars, manifestDone, remoteFiles, comparing, hashVars, activeBatches>>
    BY DEF StartRegular
  <1>2. NextQueue \in {"pending", "retry"} /\ work[NextQueue] # <<>>
    BY <1>1, QueueIs
  <1>3. f \in File \ Small /\ OnlyQueues(work, v) /\ \A g \in File : Held(work, g) = Held(v, g) + Is(g, f)
    BY <1>2, DequeueIs
  <1>4. l \in Lane /\ healthy[l] /\ inFlight[l] < StreamLimit
    BY <1>1, NextLaneIs
  <1>5. nextStreamId \in [Lane -> Nat] /\ inFlight \in [Lane -> Nat] /\ healthy \in [Lane -> BOOLEAN]
    BY DEF LaneType
  <1> HIDE DEF l, v, f
  <1>6. v \in Work
    BY <1>3 DEF OnlyQueues
  <1>7. Coming' = Coming
    BY <1>1 DEF Coming, frameVars
  <1>8. r \in StreamRequest
    BY <1>4, <1>5 DEF StreamRequest, FileRequest
  <1>9. HashQuiet /\ (Requests' = Requests \/ Requests' = Requests \cup {r})
    <2>1. CASE asked' = asked \cup {r}
      BY <1>7, <1>8, <2>1, QuietAsk
    <2>2. CASE asked' = asked
      BY <1>7, <2>2, QuietSame
    <2> QED
      BY <1>1, <2>1, <2>2
  <1>10. LaneType' /\ Shrinks
    <2>1. CASE inFlight' = [inFlight EXCEPT ![l] = @ + 1] /\ UNCHANGED healthy
      BY <1>1, <1>4, <1>5, <2>1 DEF LaneType, Shrinks
    <2>2. CASE healthy' = [healthy EXCEPT ![l] = FALSE] /\ UNCHANGED inFlight
      BY <1>1, <1>4, <1>5, <2>2 DEF LaneType, Shrinks
    <2> QED
      BY <1>1, <2>1, <2>2
  <1>11. LoopType'
    BY <1>1, <1>6 DEF LoopType, frameVars
  <1>12. NetInv'
    <2>1. Net(empty, Requests', Coming, With(activeDownloads, key, f), activeBatches, healthy, nextStreamId')
      <3>1. Net(empty, Requests', Coming, With(activeDownloads, key, f), activeBatches, healthy,
                [nextStreamId EXCEPT ![l] = @ + 1])
        BY <1>3, <1>4, <1>9, DownloadNow
      <3> QED
        BY <1>1, <3>1
    <2>2. healthy' \in [Lane -> BOOLEAN]
      BY <1>10 DEF LaneType
    <2> HIDE DEF key
    <2>3. Net(empty, Requests', Coming, activeDownloads', activeBatches, healthy, nextStreamId')
      BY <1>1, <2>1
    <2>4. Net(empty, Requests', Coming, activeDownloads', activeBatches, healthy', nextStreamId')
      BY <1>10, <2>2, <2>3, NetDies DEF Shrinks
    <2> QED
      BY <1>1, <1>7, <2>4 DEF NetInv
  <1>13. key \notin DOMAIN activeDownloads /\ key \notin DOMAIN activeBatches
    BY <1>4, FreshNow
  <1>15. LanesExact'
    <2> DEFINE D == DOMAIN activeDownloads \cup DOMAIN activeBatches
    <2>1. IsFiniteSet(DOMAIN activeDownloads) /\ IsFiniteSet(DOMAIN activeBatches)
      BY DEF NetType
    <2>2. IsFiniteSet(D)
      BY <2>1, FS_Union
    <2>4. Exact(D, healthy, drained, inFlight)
      BY LanesExactIs
    <2>5. key[1] = l /\ key \notin D
      BY <1>13
    <2>6. DOMAIN activeDownloads' = DOMAIN activeDownloads \cup {key}
      BY <1>1 DEF With
    <2>7. DOMAIN activeDownloads' \cup DOMAIN activeBatches' = D \cup {key}
      BY <1>1, <2>6
    <2> HIDE DEF D, key
    <2>8. Exact(D \cup {key}, healthy', drained, inFlight')
      <3>1. CASE inFlight' = [inFlight EXCEPT ![l] = @ + 1] /\ UNCHANGED healthy
        <4>1. Exact(D \cup {key}, healthy, drained, inFlight')
          BY <1>4, <1>5, <2>2, <2>4, <2>5, <3>1, ExactOpens
        <4> QED
          BY <3>1, <4>1
      <3>2. CASE healthy' = [healthy EXCEPT ![l] = FALSE] /\ UNCHANGED inFlight
        <4>1. Exact(D \cup {key}, healthy', drained, inFlight)
          BY <1>4, <1>5, <2>4, <2>5, <3>2, ExactEnters
        <4> QED
          BY <3>2, <4>1
      <3> QED
        BY <1>1, <3>1, <3>2
    <2> QED
      BY <1>1, <2>7, <2>8, LanesExactIs
  <1>16. ManifestInv'
    BY <1>1, ManifestKept DEF frameVars
  <1>17. SameHash(work, work')
    BY <1>1, <1>3 DEF OnlyQueues
  <1>18. HashInv'
    BY <1>1, <1>9, <1>17, HashKept
  <1>19. StageSame
    BY <1>1, <1>17 DEF StageSame, hashVars, SameHash
  <1>20. PlaceInv'
    <2>1. IoBal(work')
      BY <1>1, <1>3, IoBalSame DEF OnlyQueues
    <2>2. PlaceType'
      BY <1>11, <1>12 DEF PlaceType
    <2>4. \A m : m.type = "FileBatchOpen" => (m \in Requests' <=> m \in Requests)
      BY <1>9
    <2> HIDE DEF r, key
    <2>3. ASSUME NEW g \in File
          PROVE  Load(g)' <= Load(g) /\ (g \notin Small => Load(g) <= Load(g)')
      <3>1. Fetching(Requests', Coming', activeDownloads', activeBatches', g)
               = Fetching(Requests, Coming, activeDownloads, activeBatches, g) + Is(g, f)
        <4>1. Fetching(Requests', Coming, With(activeDownloads, key, f), activeBatches, g)
                 = Fetching(Requests, Coming, activeDownloads, activeBatches, g) + Is(g, f)
          BY <1>13, <2>4, FetchDownload
        <4> QED
          BY <1>1, <1>7, <4>1
      <3>3. Is(g, f) \in {0, 1}
        BY DEF Is
      <3>4. Held(work, g) = Held(work', g) + Is(g, f) /\ Held(work', g) \in Nat
        BY <1>1, <1>3, <1>6, HeldType
      <3>5. Stage(g)' = Stage(g)
        BY <1>19, StageKept
      <3>6. Stage(g) \in Nat /\ Fetching(Requests, Coming, activeDownloads, activeBatches, g) \in Nat
        BY Alone
      <3>7. Load(g)' = Stage(g)' + Held(work', g) + Fetching(Requests', Coming', activeDownloads', activeBatches', g)
        BY DEF Load
      <3>8. Load(g) = Stage(g) + Held(work, g) + Fetching(Requests, Coming, activeDownloads, activeBatches, g)
        BY DEF Load
      <3>9. Load(g)' = Load(g) /\ Load(g) \in Nat
        BY <3>1, <3>3, <3>4, <3>5, <3>6, <3>7, <3>8
      <3> HIDE DEF Load
      <3> QED
        BY <3>9
    <2> QED
      BY <2>1, <2>2, <2>3, PlaceKeeps
  <1> QED
    BY <1>1, <1>10, <1>11, <1>12, <1>15, <1>16, <1>18, <1>20, InvNext

-----------------------------------------------------------------------------
(* Frames the main loop takes.                                             *)

LEMMA FrameTaken ==
    ASSUME Inv, NEW t, TakeFrame(t), Proceed
    PROVE  /\ readyFrames # <<>> /\ readyFrames' = Tail(readyFrames) /\ readyFrames' \in Seq(Frames)
           /\ pc' = "process" <=> readyFrames' # <<>>
           /\ result = "running" /\ result' = "running"
           /\ Frame \in Frames /\ Frame.type = t
  <1> USE InvParts
  <1>1. pc = "process" /\ result = "running" /\ Frame.type = t /\ readyFrames' = Tail(readyFrames)
    BY DEF TakeFrame
  <1>2. readyFrames # <<>>
    BY <1>1 DEF LoopType
  <1>3. Frame \in Frames /\ Tail(readyFrames) \in Seq(Frames)
    BY <1>2 DEF Frame
  <1>4. Len(readyFrames) = 1 <=> Tail(readyFrames) = <<>>
    <2>1. Len(Tail(readyFrames)) = Len(readyFrames) - 1 /\ Len(readyFrames) \in Nat
      BY <1>2
    <2>2. Tail(readyFrames) = <<>> <=> Len(Tail(readyFrames)) = 0
      BY <1>3, EmptySeq
    <2> QED
      BY <2>1, <2>2
  <1>5. pc' = "process" <=> Len(readyFrames) # 1
    BY DEF Proceed
  <1> QED
    BY <1>1, <1>2, <1>3, <1>4, <1>5 DEF Proceed

LEMMA ComingTaken ==
    ASSUME Inv, NEW t, TakeFrame(t), readyFrames # <<>>
    PROVE  Coming # <<>> /\ Frame = Head(Coming) /\ Coming' = Tail(Coming)
  <1> USE InvParts
  <1>1. readyFrames' = Tail(readyFrames) /\ incomingPriority' = incomingPriority
    BY DEF TakeFrame
  <1>2. Len(readyFrames) \in Nat /\ Len(readyFrames) > 0 /\ Len(incomingPriority) \in Nat
    OBVIOUS
  <1>3. Coming # <<>> /\ Frame = Head(Coming)
    BY <1>2 DEF Coming, Frame
  <1>4. Tail(readyFrames \o incomingPriority) = Tail(readyFrames) \o incomingPriority
    BY <1>2
  <1> QED
    BY <1>1, <1>3, <1>4 DEF Coming

LEMMA QuietTail ==
    ASSUME HashInv, Coming \in Seq(Frames), Coming # <<>>, Coming' = Tail(Coming), UNCHANGED asked
    PROVE  HashQuiet /\ Requests' = Requests
  <1>1. \A i \in DOMAIN Tail(Coming) : i + 1 \in DOMAIN Coming /\ Tail(Coming)[i] = Coming[i + 1]
    BY TailIs
  <1>2. \A i \in DOMAIN Coming' : \E j \in DOMAIN Coming : Coming'[i] = Coming[j]
    BY <1>1
  <1> QED
    BY <1>2 DEF HashInv, HashQuiet, Requests

LEMMA FetchTail ==
    ASSUME NEW q, NEW s \in Seq(Frames), s # <<>>, NEW d, NEW b,
           Head(s).type # "FileBatchOpen" \/ Key(Head(s)) \notin DOMAIN b
    PROVE  \A f : Fetching(q, Tail(s), d, b, f) = Fetching(q, s, d, b, f)
  <1>1. ToSet(s) = {Head(s)} \cup ToSet(Tail(s))
    BY SetTail
  <1>2. \A m : m.type = "FileBatchOpen" /\ Key(m) \in DOMAIN b =>
                  (m \in q \cup ToSet(s) <=> m \in q \cup ToSet(Tail(s)))
    BY <1>1
  <1> QED
    BY <1>2, FetchSame

\* A frame of a stream: what the client holds and what it fetches.
LEMMA FileFrameStep ==
    ASSUME Inv, NEW t \in StreamTypes, TakeFrame(t), FileFrame, Proceed,
           inFlight' \in [Lane -> Nat], NetInv', LanesExact',
           work' \in Work, SameHash(work, work'), IoBal(work'),
           \A f \in File :
              LET new == Held(work', f) + Fetching(Requests, Tail(Coming), activeDownloads', activeBatches', f)
                  old == Held(work, f) + Fetching(Requests, Coming, activeDownloads, activeBatches, f)
              IN  new <= old /\ (f \notin Small => old <= new)
    PROVE  Inv'
  <1> USE InvParts
  <1>1. /\ readyFrames # <<>> /\ readyFrames' = Tail(readyFrames) /\ readyFrames' \in Seq(Frames)
        /\ pc' = "process" <=> readyFrames' # <<>>
        /\ result = "running" /\ result' = "running" /\ Frame.type = t
    BY FrameTaken
  <1>2. Coming # <<>> /\ Coming' = Tail(Coming)
    BY <1>1, ComingTaken
  <1>3. /\ UNCHANGED <<healthy, recving, drained, nextStreamId, serverVars, manifestDone, remoteFiles,
                       comparing, hashVars>>
        /\ UNCHANGED <<manifestBatch, incomingManifest, incomingPriority>>
    BY DEF FileFrame, TakeFrame
  <1>4. HashQuiet /\ Requests' = Requests
    BY <1>2, <1>3, QuietTail DEF serverVars
  <1>5. LaneType'
    BY <1>3 DEF LaneType
  <1>6. LoopType'
    BY <1>1, <1>3 DEF LoopType, serverVars
  <1>7. ManifestInv'
    <2>1. Head(readyFrames).type \notin {"ManifestEntry", "ManifestEnd"}
      BY <1>1 DEF Frame, StreamTypes
    <2> QED
      BY <1>1, <1>3, <2>1, ManifestTail DEF serverVars
  <1>8. HashInv'
    BY <1>3, <1>4, HashKept
  <1>9. StageSame
    BY <1>3 DEF StageSame, hashVars, SameHash
  <1>10. PlaceInv'
    <2>2. PlaceType'
      BY <1>6 DEF PlaceType
    <2>3. ASSUME NEW f \in File
          PROVE  Load(f)' <= Load(f) /\ (f \notin Small => Load(f) <= Load(f)')
      <3> DEFINE new == Held(work', f) + Fetching(Requests, Tail(Coming), activeDownloads', activeBatches', f)
                 old == Held(work, f) + Fetching(Requests, Coming, activeDownloads, activeBatches, f)
      <3>1. new <= old /\ (f \notin Small => old <= new)
        OBVIOUS
      <3>2. Load(f) = Stage(f) + old
        <4>1. Stage(f) \in Nat /\ Held(work, f) \in Nat
              /\ Fetching(Requests, Coming, activeDownloads, activeBatches, f) \in Nat
          BY Alone
        <4> QED
          BY <4>1 DEF Load
      <3>3. NetType(Requests', Coming', activeDownloads', activeBatches')
        BY DEF NetInv, Net
      <3>4. Held(work', f) \in Nat /\ Fetching(Requests', Coming', activeDownloads', activeBatches', f) \in Nat
        BY <3>3, HeldType, HeadersFinite
      <3>5. Stage(f)' = Stage(f) /\ Stage(f) \in Nat
        BY <1>9, StageKept, Alone
      <3>6. Load(f)' = Stage(f)' + Held(work', f) + Fetching(Requests', Coming', activeDownloads', activeBatches', f)
        BY DEF Load
      <3>7. Fetching(Requests', Coming', activeDownloads', activeBatches', f)
               = Fetching(Requests, Tail(Coming), activeDownloads', activeBatches', f)
        BY <1>2, <1>4
      <3>8. Load(f)' = Stage(f) + new /\ new \in Nat
        BY <3>4, <3>5, <3>6, <3>7
      <3>9. old \in Nat
        BY AloneThen
      <3> HIDE DEF new, old, Load
      <3> QED
        BY <3>1, <3>2, <3>5, <3>8, <3>9
    <2> QED
      BY <2>2, <2>3, PlaceKeeps
  <1> QED
    BY <1>1, <1>5, <1>6, <1>7, <1>8, <1>10, InvNext

-----------------------------------------------------------------------------
(* A stream ends.                                                          *)

Terminal == {"FileEnd", "FileError", "FileBatchEnd"}

\* After its terminal frame nothing more is to come on a stream.
LEMMA NetCloses ==
    ASSUME NEW e, NEW q, NEW s, NEW d, NEW b, NEW h, NEW n, Net(e, q, s, d, b, h, n), s # <<>>,
           Head(s).type \in Terminal
    PROVE  LET k == Key(Head(s))
           IN  Net(e, q, Tail(s), Without(d, {k}), Without(b, {k}), h, n)
  <1> DEFINE k == Key(Head(s))
  <1>1. s \in Seq(Frames)
    BY DEF Net, NetType
  <1>2. /\ Head(s) = s[1] /\ 1 \in DOMAIN s
        /\ \A i \in DOMAIN Tail(s) : i + 1 \in DOMAIN s /\ Tail(s)[i] = s[i + 1] /\ 1 < i + 1
    BY <1>1, TailIs
  <1>3. OnStream(s[1]) /\ s[1].type \notin {"FileBatchOpen", "FileBatchChunk"}
    BY <1>2 DEF OnStream, StreamTypes, Terminal
  <1>4. Grammar(q, s)
    BY DEF Net
  <1>5. \A r \in q : Key(r) # k
    BY <1>2, <1>3, <1>4 DEF Grammar
  <1>6. \A i \in DOMAIN Tail(s) : OnStream(Tail(s)[i]) => Key(Tail(s)[i]) # k
    BY <1>2, <1>3, <1>4 DEF Grammar
  <1>7. Net(e, q, Tail(s), d, b, h, n)
    BY <1>2, <1>3, NetTail
  <1> HIDE DEF k
  <1> QED
    BY <1>5, <1>6, <1>7, NetForgets DEF k

LEMMA WithoutNone ==
    ASSUME NEW d, NEW S, d \in [DOMAIN d -> S], NEW k, k \notin DOMAIN d
    PROVE  Without(d, {k}) = d
  <1>1. DOMAIN d \ {k} = DOMAIN d
    OBVIOUS
  <1> QED
    BY <1>1 DEF Without, Restrict

\* What a stream was fetching.
Lost(k, f) ==
    (IF k \in DOMAIN activeDownloads THEN Is(f, activeDownloads[k]) ELSE 0)
    + (IF k \in DOMAIN activeBatches THEN In(f, ToSet(activeBatches[k].waiting)) ELSE 0)

LEMMA SingleCount ==
    ASSUME NEW S, NEW k
    PROVE  Cardinality(S \cap {k}) = In(k, S)
  <1>1. CASE k \in S
    <2>1. S \cap {k} = {k}
      BY <1>1
    <2>2. Cardinality({k}) = 1
      BY FS_Singleton
    <2> QED
      BY <1>1, <2>1, <2>2 DEF In
  <1>2. CASE k \notin S
    <2>1. S \cap {k} = {}
      BY <1>2
    <2>2. Cardinality({}) = 0
      BY FS_EmptySet
    <2> QED
      BY <1>2, <2>1, <2>2 DEF In
  <1> QED
    BY <1>1, <1>2

LEMMA LostIs ==
    ASSUME NEW k, NEW f
    PROVE  Lost(k, f) = Cardinality({x \in DOMAIN activeDownloads : activeDownloads[x] = f} \cap {k})
              + Cardinality({x \in DOMAIN activeBatches : f \in ToSet(activeBatches[x].waiting)} \cap {k})
  <1> DEFINE A == {x \in DOMAIN activeDownloads : activeDownloads[x] = f}
             B == {x \in DOMAIN activeBatches : f \in ToSet(activeBatches[x].waiting)}
  <1>1. In(k, A) = IF k \in DOMAIN activeDownloads THEN Is(f, activeDownloads[k]) ELSE 0
    BY DEF In, Is
  <1>2. In(k, B) = IF k \in DOMAIN activeBatches THEN In(f, ToSet(activeBatches[k].waiting)) ELSE 0
    BY DEF In
  <1>3. Cardinality(A \cap {k}) = In(k, A)
    BY SingleCount
  <1>4. Cardinality(B \cap {k}) = In(k, B)
    BY SingleCount
  <1> HIDE DEF A, B
  <1>5. Lost(k, f) = Cardinality(A \cap {k}) + Cardinality(B \cap {k})
    BY <1>1, <1>2, <1>3, <1>4 DEF Lost
  <1> QED
    BY <1>5 DEF A, B

LEMMA ClosesStep ==
    ASSUME Inv, NEW t \in Terminal, TakeFrame(t), FileFrame, Proceed, ReleaseSlot,
           activeDownloads' = Without(activeDownloads, {FrameKey}),
           activeBatches' = Without(activeBatches, {FrameKey}),
           work' \in Work, SameHash(work, work'), IoBal(work'),
           \A f \in File : Held(work', f) = Held(work, f) + Lost(FrameKey, f)
    PROVE  Inv'
  <1> USE InvParts
  <1>1. readyFrames # <<>> /\ Frame \in Frames /\ Frame.type = t
    BY FrameTaken
  <1>2. Coming # <<>> /\ Frame = Head(Coming) /\ Coming' = Tail(Coming)
    BY <1>1, ComingTaken
  <1>3. UNCHANGED <<healthy, drained, nextStreamId, empty, asked>>
    BY DEF FileFrame, serverVars
  <1>4. t \in StreamTypes /\ t # "FileBatchOpen"
    BY DEF Terminal, StreamTypes
  <1>5. FrameKey = Key(Frame) /\ FrameKey[1] = Frame.lane /\ Frame.lane \in Lane
    BY <1>1, <1>4, FrameIs DEF FrameKey, Key, OnStream
  <1>6. Requests' = Requests
    BY <1>3 DEF Requests
  <1>7. Net(empty, Requests, Tail(Coming), Without(activeDownloads, {Key(Frame)}),
            Without(activeBatches, {Key(Frame)}), healthy, nextStreamId)
    <2>1. Head(Coming).type \in Terminal
      BY <1>1, <1>2
    <2> QED
      BY <1>2, <2>1, NetCloses
  <1>8. NetInv'
    BY <1>2, <1>3, <1>5, <1>6, <1>7 DEF NetInv
  <1>9. FrameKey \in DOMAIN activeDownloads \cup DOMAIN activeBatches \/ ~healthy[Frame.lane]
    <2>1. AnswersKnown(Requests, Coming, activeDownloads, activeBatches, healthy)
      BY DEF Net
    <2>2. Frame = Coming[1] /\ 1 \in DOMAIN Coming
      BY <1>2, TailIs
    <2>3. Frame.type \in {"FileEnd", "FileBatchEnd", "FileError"}
      BY <1>1 DEF Terminal
    <2> QED
      BY <1>5, <2>1, <2>2, <2>3 DEF AnswersKnown
  <1>10. LanesExact' /\ inFlight' \in [Lane -> Nat]
    <2> DEFINE D == DOMAIN activeDownloads \cup DOMAIN activeBatches
    <2>1. IsFiniteSet(DOMAIN activeDownloads) /\ IsFiniteSet(DOMAIN activeBatches)
      BY DEF NetType
    <2>2. IsFiniteSet(D)
      BY <2>1, FS_Union
    <2>3. Exact(D, healthy, drained, inFlight)
      BY LanesExactIs
    <2>4. inFlight' = Released(inFlight, Frame.lane) /\ inFlight \in [Lane -> Nat]
      BY DEF ReleaseSlot, Released, LaneType
    <2>5. DOMAIN activeDownloads' \cup DOMAIN activeBatches' = D \ {FrameKey}
      BY DEF Without, Restrict
    <2>6. FrameKey \in D \/ ~healthy[Frame.lane]
      BY <1>9
    <2> HIDE DEF D
    <2>7. Exact(D \ {FrameKey}, healthy, drained, Released(inFlight, Frame.lane))
          /\ Released(inFlight, Frame.lane) \in [Lane -> Nat]
      <3> DEFINE l == Frame.lane
                 k == FrameKey
      <3>1. l \in Lane /\ k[1] = l /\ (k \in D \/ ~healthy[l])
        BY <1>5, <2>6
      <3> HIDE DEF l, k
      <3>2. Exact(D \ {k}, healthy, drained, Released(inFlight, l)) /\ Released(inFlight, l) \in [Lane -> Nat]
        BY <2>2, <2>3, <2>4, <3>1, ExactCloses
      <3> QED
        BY <3>2 DEF l, k
    <2> QED
      BY <1>3, <2>4, <2>5, <2>7, LanesExactIs
  <1>11. ASSUME NEW f \in File
         PROVE  LET new == Held(work', f) + Fetching(Requests, Tail(Coming), activeDownloads', activeBatches', f)
                    old == Held(work, f) + Fetching(Requests, Coming, activeDownloads, activeBatches, f)
                IN  new <= old /\ (f \notin Small => old <= new)
    <2> DEFINE F == Fetching(Requests, Coming, activeDownloads, activeBatches, f)
               G == Fetching(Requests, Tail(Coming), activeDownloads', activeBatches', f)
    <2>1. Fetching(Requests, Tail(Coming), activeDownloads, activeBatches, f) = F
      BY <1>1, <1>2, <1>4, FetchTail
    <2>2. NetType(Requests, Tail(Coming), activeDownloads, activeBatches)
      BY <1>2, TailKeeps
    <2>3. /\ Fetching(Requests, Tail(Coming), Without(activeDownloads, {FrameKey}),
                      Without(activeBatches, {FrameKey}), f) + Lost(FrameKey, f)
                <= Fetching(Requests, Tail(Coming), activeDownloads, activeBatches, f)
          /\ f \notin Small =>
                Fetching(Requests, Tail(Coming), Without(activeDownloads, {FrameKey}),
                         Without(activeBatches, {FrameKey}), f) + Lost(FrameKey, f)
                   = Fetching(Requests, Tail(Coming), activeDownloads, activeBatches, f)
      <3> DEFINE k == FrameKey
      <3>1. Lost(k, f) = Cardinality({x \in DOMAIN activeDownloads : activeDownloads[x] = f} \cap {k})
               + Cardinality({x \in DOMAIN activeBatches : f \in ToSet(activeBatches[x].waiting)} \cap {k})
        BY LostIs
      <3> HIDE DEF k
      <3>2. LET lost == Cardinality({x \in DOMAIN activeDownloads : activeDownloads[x] = f} \cap {k})
                   + Cardinality({x \in DOMAIN activeBatches : f \in ToSet(activeBatches[x].waiting)} \cap {k})
                new == Fetching(Requests, Tail(Coming), Without(activeDownloads, {k}), Without(activeBatches, {k}), f)
                old == Fetching(Requests, Tail(Coming), activeDownloads, activeBatches, f)
            IN  new + lost <= old /\ (f \notin Small => new + lost = old)
        BY <2>2, FetchForgets
      <3> QED
        BY <3>1, <3>2 DEF k
    <2>4. G + Lost(FrameKey, f) <= F /\ (f \notin Small => G + Lost(FrameKey, f) = F)
      BY <2>1, <2>3
    <2>5. Held(work', f) = Held(work, f) + Lost(FrameKey, f)
      OBVIOUS
    <2>6. Held(work, f) \in Nat /\ F \in Nat /\ Lost(FrameKey, f) \in Nat
      <3>1. Held(work, f) \in Nat /\ F \in Nat
        BY Alone
      <3>2. Lost(FrameKey, f) \in Nat
        BY DEF Lost, Is, In
      <3> QED
        BY <3>1, <3>2
    <2>7. G \in Nat
      <3>1. NetType(Requests, Tail(Coming), activeDownloads', activeBatches')
        BY <1>2, <1>6, <1>8 DEF NetInv, Net
      <3> QED
        BY <3>1, HeadersFinite
    <2> HIDE DEF F, G
    <2>8. Held(work', f) + G <= Held(work, f) + F /\ (f \notin Small => Held(work, f) + F <= Held(work', f) + G)
      BY <2>4, <2>5, <2>6, <2>7
    <2> QED
      BY <2>8 DEF F, G
  <1> QED
    BY <1>4, <1>8, <1>10, <1>11, FileFrameStep

-----------------------------------------------------------------------------
(* The handlers of stream frames.                                          *)

\* The stream of a frame is only unknown when its lane is down, so the frame is dropped.
LEMMA UnknownStep ==
    ASSUME Inv, NEW t \in StreamTypes \ {"FileError"}, TakeFrame(t), FileFrame, Unknown,
           FrameKey \notin IF t = "FileEnd" THEN DOMAIN activeDownloads ELSE DOMAIN activeBatches
    PROVE  Inv'
  <1> USE InvParts
  <1>1. readyFrames # <<>> /\ Frame \in Frames /\ Frame.type = t
    <2>1. pc = "process" /\ Frame.type = t
      BY DEF TakeFrame
    <2>2. readyFrames # <<>>
      BY <2>1 DEF LoopType
    <2> QED
      BY <2>1, <2>2 DEF Frame
  <1>2. Coming # <<>> /\ Frame = Head(Coming) /\ Coming' = Tail(Coming)
    BY <1>1, ComingTaken
  <1>3. FrameKey = Key(Frame) /\ Frame.lane \in Lane
    BY <1>1, FrameIs DEF FrameKey, Key, OnStream
  <1>4. AnswersKnown(Requests, Coming, activeDownloads, activeBatches, healthy)
    BY DEF Net
  <1>5. Frame = Coming[1] /\ 1 \in DOMAIN Coming
    BY <1>2, TailIs
  <1>6. /\ t = "FileEnd" => FrameKey \notin DOMAIN activeBatches /\ (healthy[Frame.lane] => FrameKey \in DOMAIN activeDownloads)
        /\ t # "FileEnd" => (healthy[Frame.lane] => FrameKey \in DOMAIN activeBatches)
    BY <1>1, <1>3, <1>4, <1>5 DEF AnswersKnown, StreamTypes
  <1>7. ~healthy[Frame.lane] /\ FrameKey \notin DOMAIN activeBatches
    BY <1>6
  <1>8. Proceed /\ UNCHANGED <<inFlight, activeDownloads, activeBatches, work>>
    BY <1>7 DEF Unknown
  <1>9. UNCHANGED <<healthy, drained, nextStreamId, empty, asked>>
    BY DEF FileFrame, serverVars
  <1>10. Requests' = Requests
    BY <1>9 DEF Requests
  <1>11. NetInv'
    <2>1. Net(empty, Requests, Tail(Coming), activeDownloads, activeBatches, healthy, nextStreamId)
      BY <1>2, <1>3, <1>7, NetTail
    <2> QED
      BY <1>2, <1>8, <1>9, <1>10, <2>1 DEF NetInv
  <1>12. LanesExact' /\ inFlight' \in [Lane -> Nat]
    BY <1>8, <1>9, LanesKept DEF Shrinks, LaneType
  <1>13. ASSUME NEW f \in File
         PROVE  LET new == Held(work', f) + Fetching(Requests, Tail(Coming), activeDownloads', activeBatches', f)
                    old == Held(work, f) + Fetching(Requests, Coming, activeDownloads, activeBatches, f)
                IN  new <= old /\ (f \notin Small => old <= new)
    <2> DEFINE F == Fetching(Requests, Coming, activeDownloads, activeBatches, f)
    <2>1. Fetching(Requests, Tail(Coming), activeDownloads, activeBatches, f) = F
      BY <1>2, <1>3, <1>7, FetchTail
    <2>2. Fetching(Requests, Tail(Coming), activeDownloads', activeBatches', f) = F
      BY <1>8, <2>1
    <2>3. Held(work, f) \in Nat /\ F \in Nat /\ Held(work', f) = Held(work, f)
      BY <1>8, Alone
    <2> HIDE DEF F
    <2>4. Held(work', f) + F <= Held(work, f) + F /\ Held(work, f) + F <= Held(work', f) + F
      BY <2>3
    <2> QED
      BY <2>2, <2>4 DEF F
  <1>14. work' \in Work /\ SameHash(work, work') /\ IoBal(work')
    BY <1>8 DEF SameHash
  <1> QED
    BY <1>8, <1>11, <1>12, <1>13, <1>14, FileFrameStep

LEMMA OnFileEndStep ==
    ASSUME Inv, OnFileEnd
    PROVE  Inv'
  <1> USE InvParts
  <1>1. TakeFrame("FileEnd") /\ FileFrame
    BY DEF OnFileEnd
  <1>2. CASE FrameKey \in DOMAIN activeDownloads
    <2> DEFINE g == activeDownloads[FrameKey]
    <2>1. /\ work' = Transferred(work, g) \/ work' = RetryOrFail(work, g)
          /\ activeDownloads' = Without(activeDownloads, {FrameKey})
          /\ ReleaseSlot /\ Proceed /\ activeBatches' = activeBatches
      BY <1>2 DEF OnFileEnd
    <2>2. g \in File /\ FrameKey \notin DOMAIN activeBatches
      BY <1>2 DEF NetType
    <2>3. \A f : Lost(FrameKey, f) = Is(f, g)
      BY <1>2, <2>2 DEF Lost, Is
    <2>4. activeBatches' = Without(activeBatches, {FrameKey})
      BY <2>1, <2>2, WithoutNone DEF NetType
    <2> HIDE DEF g
    <2>5. Adds(work, work', g)
      BY <2>1, <2>2, TransferredIs, RetryOrFailIs
    <2>6. /\ work' \in Work /\ SameHash(work, work') /\ SameIo(work, work')
          /\ \A f \in File : Held(work', f) = Held(work, f) + Lost(FrameKey, f)
      BY <2>3, <2>5 DEF Adds
    <2>7. IoBal(work')
      BY <2>6, IoBalSame
    <2> QED
      BY <1>1, <2>1, <2>4, <2>6, <2>7, ClosesStep DEF Terminal
  <1>3. CASE FrameKey \notin DOMAIN activeDownloads
    <2>1. Unknown
      BY <1>3 DEF OnFileEnd
    <2> QED
      BY <1>1, <1>3, <2>1, UnknownStep DEF StreamTypes
  <1> QED
    BY <1>2, <1>3

LEMMA BatchClosesStep ==
    ASSUME Inv, NEW t \in {"FileBatchEnd", "FileError"}, TakeFrame(t), FileFrame,
           FrameKey \in DOMAIN activeBatches, BatchCloses
    PROVE  Inv'
  <1> USE InvParts
  <1> DEFINE fs == activeBatches[FrameKey].waiting
  <1>1. /\ work' = RetryAll(work, fs)
        /\ activeBatches' = Without(activeBatches, {FrameKey})
        /\ ReleaseSlot /\ Proceed /\ activeDownloads' = activeDownloads
    BY DEF BatchCloses
  <1>2. fs \in Seq(Small) /\ Once(fs) /\ FrameKey \notin DOMAIN activeDownloads
    BY DEF NetType, Batch
  <1>3. \A f : Lost(FrameKey, f) = In(f, ToSet(fs))
    BY <1>2 DEF Lost, In
  <1>4. activeDownloads' = Without(activeDownloads, {FrameKey})
    BY <1>1, <1>2, WithoutNone DEF NetType
  <1> HIDE DEF fs
  <1>5. fs \in Seq(File)
    BY <1>2, SmallSeq
  <1>6. /\ work' \in Work /\ SameHash(work, work') /\ SameIo(work, work')
        /\ \A f \in File : Held(work', f) = Held(work, f) + Occurrences(f, fs)
    BY <1>1, <1>5, RetryAllIs
  <1>7. \A f \in File : Held(work', f) = Held(work, f) + Lost(FrameKey, f)
    <2> TAKE f \in File
    <2>1. Occurrences(f, fs) = In(f, ToSet(fs))
      BY <1>2, OccOnce
    <2> QED
      BY <1>3, <1>6, <2>1
  <1>8. IoBal(work')
    BY <1>6, IoBalSame
  <1>9. t \in Terminal
    BY DEF Terminal
  <1> QED
    BY <1>1, <1>4, <1>6, <1>7, <1>8, <1>9, ClosesStep

LEMMA OnFileBatchEndStep ==
    ASSUME Inv, OnFileBatchEnd
    PROVE  Inv'
  <1>1. TakeFrame("FileBatchEnd") /\ FileFrame
    BY DEF OnFileBatchEnd
  <1>2. CASE FrameKey \in DOMAIN activeBatches
    BY <1>1, <1>2, BatchClosesStep DEF OnFileBatchEnd
  <1>3. CASE FrameKey \notin DOMAIN activeBatches
    BY <1>1, <1>3, UnknownStep DEF OnFileBatchEnd, StreamTypes
  <1> QED
    BY <1>2, <1>3

LEMMA FailedIs ==
    ASSUME NEW w \in Work
    PROVE  LET v == [w EXCEPT !.failed = @ + 1]
           IN  v \in Work /\ SameHash(w, v) /\ SameIo(w, v) /\ \A g : Held(v, g) = Held(w, g)
  <1> DEFINE n == w.failed + 1
             v == [w EXCEPT !.failed = n]
  <1>0. n \in Nat
    BY WorkHas
  <1> HIDE DEF n
  <1>1. v \in Work /\ SameHash(w, v) /\ SameIo(w, v) /\ SameHeld(w, v)
    BY <1>0 DEF Work, SameHash, SameIo, SameHeld
  <1>3. v = [w EXCEPT !.failed = @ + 1]
    BY DEF n
  <1> HIDE DEF v
  <1>2. \A g : Held(v, g) = Held(w, g)
    BY <1>1, HeldSame
  <1> QED
    BY <1>1, <1>2, <1>3

LEMMA OnFileErrorStep ==
    ASSUME Inv, OnFileError
    PROVE  Inv'
  <1> USE InvParts
  <1>1. TakeFrame("FileError") /\ FileFrame
    BY DEF OnFileError
  <1>2. CASE FrameKey \in DOMAIN activeBatches
    BY <1>1, <1>2, BatchClosesStep DEF OnFileError
  <1>3. CASE FrameKey \notin DOMAIN activeBatches
    <2>1. /\ work' = IF FrameKey \in DOMAIN activeDownloads THEN RetryOrFail(work, activeDownloads[FrameKey])
                     ELSE [work EXCEPT !.failed = @ + 1]
          /\ activeDownloads' = Without(activeDownloads, {FrameKey})
          /\ ReleaseSlot /\ Proceed /\ activeBatches' = activeBatches
      BY <1>3 DEF OnFileError
    <2>2. activeBatches' = Without(activeBatches, {FrameKey})
      BY <1>3, <2>1, WithoutNone DEF NetType
    <2>3. /\ work' \in Work /\ SameHash(work, work') /\ SameIo(work, work')
          /\ \A f \in File : Held(work', f) = Held(work, f) + Lost(FrameKey, f)
      <3>1. CASE FrameKey \in DOMAIN activeDownloads
        <4> DEFINE g == activeDownloads[FrameKey]
        <4>1. g \in File
          BY <3>1 DEF NetType
        <4>2. \A f : Lost(FrameKey, f) = Is(f, g)
          BY <1>3, <3>1 DEF Lost, Is
        <4>3. work' = RetryOrFail(work, g)
          BY <2>1, <3>1
        <4> HIDE DEF g
        <4>4. Adds(work, work', g)
          BY <4>1, <4>3, RetryOrFailIs
        <4> QED
          BY <4>2, <4>4 DEF Adds
      <3>2. CASE FrameKey \notin DOMAIN activeDownloads
        <4>1. \A f : Lost(FrameKey, f) = 0
          BY <1>3, <3>2 DEF Lost
        <4>2. work' = [work EXCEPT !.failed = @ + 1]
          BY <2>1, <3>2
        <4>3. work' \in Work /\ SameHash(work, work') /\ SameIo(work, work') /\ \A g : Held(work', g) = Held(work, g)
          BY <4>2, FailedIs
        <4>4. \A f \in File : Held(work, f) \in Nat
          BY HeldType
        <4> QED
          BY <4>1, <4>3, <4>4
      <3> QED
        BY <3>1, <3>2
    <2>4. IoBal(work')
      BY <2>3, IoBalSame
    <2> QED
      BY <1>1, <2>1, <2>2, <2>3, <2>4, ClosesStep DEF Terminal
  <1> QED
    BY <1>2, <1>3

LEMMA StreamFrameIs ==
    ASSUME Inv, NEW t \in StreamTypes, TakeFrame(t)
    PROVE  /\ readyFrames # <<>> /\ Frame \in Frames /\ Frame.type = t
           /\ Coming # <<>> /\ Frame = Head(Coming) /\ Coming' = Tail(Coming)
           /\ Frame = Coming[1] /\ 1 \in DOMAIN Coming
           /\ FrameKey = Key(Frame) /\ Frame.lane \in Lane
  <1> USE InvParts
  <1>1. readyFrames # <<>> /\ Frame \in Frames /\ Frame.type = t
    <2>1. pc = "process" /\ Frame.type = t
      BY DEF TakeFrame
    <2>2. readyFrames # <<>>
      BY <2>1 DEF LoopType
    <2> QED
      BY <2>1, <2>2 DEF Frame
  <1>2. Coming # <<>> /\ Frame = Head(Coming) /\ Coming' = Tail(Coming)
    BY <1>1, ComingTaken
  <1>3. FrameKey = Key(Frame) /\ Frame.lane \in Lane
    BY <1>1, FrameIs DEF FrameKey, Key, OnStream
  <1>5. Frame = Coming[1] /\ 1 \in DOMAIN Coming
    BY <1>2, TailIs
  <1> QED
    BY <1>1, <1>2, <1>3, <1>5

\* A frame that leaves the set of streams as it is.
LEMMA StreamStays ==
    ASSUME Inv, FileFrame, UNCHANGED <<inFlight, activeDownloads>>, DOMAIN activeBatches' = DOMAIN activeBatches
    PROVE  LanesExact' /\ inFlight' \in [Lane -> Nat] /\ UNCHANGED <<healthy, nextStreamId, empty>> /\ Requests' = Requests
  <1> USE InvParts
  <1>1. UNCHANGED <<healthy, drained, nextStreamId, empty, asked>>
    BY DEF FileFrame, serverVars
  <1>2. LanesExact' /\ inFlight' \in [Lane -> Nat]
    BY <1>1, LanesKept DEF Shrinks, LaneType
  <1> QED
    BY <1>1, <1>2 DEF Requests

LEMMA HeaderOpened ==
    ASSUME Inv, TakeFrame("FileBatchOpen"), FrameKey \in DOMAIN activeBatches, NEW f \in ToSet(Frame.files), f \in File
    PROVE  f \notin work.ioTasks
  <1> USE InvParts
  <1> DEFINE S == Headers(Requests, Coming, activeBatches, f)
  <1>1. Frame = Coming[1] /\ 1 \in DOMAIN Coming /\ Frame.type = "FileBatchOpen" /\ FrameKey = Key(Frame)
    BY StreamFrameIs DEF StreamTypes
  <1>2. Frame \in S
    <2>1. Frame \in ToSet(Coming)
      BY <1>1 DEF ToSet
    <2> QED
      BY <1>1, <2>1 DEF Headers, AsksFor
  <1>3. IsFiniteSet(S)
    BY HeadersFinite
  <1>4. /\ Headerless(Requests, Coming, activeBatches, f) \in Nat
        /\ Singles(activeDownloads, f) \in Nat /\ Waits(activeBatches, f) \in Nat
    BY HeadersFinite
  <1> HIDE DEF S
  <1>5. Cardinality(S) # 0
    BY <1>2, <1>3, FS_EmptySet
  <1>6. Fetching(Requests, Coming, activeDownloads, activeBatches, f) >= 1
    BY <1>4, <1>5 DEF S, Headerless, Fetching
  <1>7. Held(work, f) = 0
    BY <1>6, AloneThen
  <1>8. In(f, work.ioTasks) = 0
    <2>1. /\ Queued(work, f) \in Nat /\ In(f, work.ioTasks) \in Nat /\ Results(work, f) \in Nat
          /\ Counted(work, f) \in Nat
          /\ Held(work, f) = Queued(work, f) + In(f, work.ioTasks) + Results(work, f) + Counted(work, f)
      BY Alone
    <2> QED
      BY <1>7, <2>1
  <1> QED
    BY <1>8 DEF In

LEMMA FetchHeaderNow ==
    ASSUME Inv, Coming # <<>>, Head(Coming).type = "FileBatchOpen", Key(Head(Coming)) \in DOMAIN activeBatches,
           NEW w
    PROVE  \A f : Fetching(Requests, Tail(Coming), activeDownloads,
                           [activeBatches EXCEPT ![Key(Head(Coming))] = [headerReady |-> TRUE, waiting |-> w]], f)
                     + In(f, ToSet(Head(Coming).files))
                   = Fetching(Requests, Coming, activeDownloads, activeBatches, f) + In(f, ToSet(w))
  <1>1. Net(empty, Requests, Coming, activeDownloads, activeBatches, healthy, nextStreamId)
    BY InvParts
  <1> SUFFICES ASSUME NEW f
               PROVE  Fetching(Requests, Tail(Coming), activeDownloads,
                               [activeBatches EXCEPT ![Key(Head(Coming))] = [headerReady |-> TRUE, waiting |-> w]], f)
                         + In(f, ToSet(Head(Coming).files))
                       = Fetching(Requests, Coming, activeDownloads, activeBatches, f) + In(f, ToSet(w))
    OBVIOUS
  <1> QED
    BY <1>1, FetchHeader

LEMMA OnFileBatchOpenStep ==
    ASSUME Inv, OnFileBatchOpen
    PROVE  Inv'
  <1> USE InvParts
  <1>1. TakeFrame("FileBatchOpen") /\ FileFrame
    BY DEF OnFileBatchOpen
  <1>2. CASE FrameKey \in DOMAIN activeBatches
    <2> DEFINE fs == Frame.files
               ok == Frame.ok
               ws == WaitingEntries(fs, ok)
               k == FrameKey
    <2>1. /\ work' = OpenEntries(work, fs, ok)
          /\ activeBatches' = [activeBatches EXCEPT ![k] = [headerReady |-> TRUE, waiting |-> ws]]
          /\ Proceed /\ UNCHANGED <<inFlight, activeDownloads>>
      BY <1>2 DEF OnFileBatchOpen
    <2>2. /\ Frame \in Frames /\ Frame.type = "FileBatchOpen" /\ Coming # <<>> /\ Frame = Head(Coming)
          /\ Coming' = Tail(Coming) /\ Frame = Coming[1] /\ 1 \in DOMAIN Coming /\ k = Key(Frame)
      BY <1>1, StreamFrameIs DEF StreamTypes
    <2>3. fs \in Seq(Small) /\ Once(fs) /\ ok \subseteq ToSet(fs)
      <3>1. fs \in Seq(Small)
        BY <2>2, FrameIs
      <3> QED
        BY <2>2, <3>1 DEF NetType
    <2>4. ws \in Seq(Small) /\ Once(ws) /\ ToSet(ws) = ok \ empty /\ Cardinality(ok \ empty) <= Len(ws)
      BY <2>3, WaitingIs
    <2>5. fs \in Seq(File)
      BY <2>3, SmallSeq
    <2>6. ToSet(fs) \cap work.ioTasks = {}
      <3>1. work.ioTasks \subseteq File
        BY WorkHas
      <3> QED
        BY <1>1, <1>2, <3>1, HeaderOpened
    <2>7. Net(empty, Requests, Tail(Coming), activeDownloads,
              [activeBatches EXCEPT ![Key(Head(Coming))] = [headerReady |-> TRUE, waiting |-> ws]], healthy, nextStreamId)
      <3>1. Head(Coming).type = "FileBatchOpen" /\ Key(Head(Coming)) \in DOMAIN activeBatches
            /\ Cardinality(Head(Coming).ok \ empty) <= Len(ws)
        BY <1>2, <2>2, <2>4
      <3> HIDE DEF ws, fs, ok, k
      <3> QED
        BY <2>2, <2>4, <3>1, NetHeader
    <2>8. \A f : Fetching(Requests, Tail(Coming), activeDownloads,
                    [activeBatches EXCEPT ![Key(Head(Coming))] = [headerReady |-> TRUE, waiting |-> ws]], f)
                    + In(f, ToSet(Head(Coming).files))
                  = Fetching(Requests, Coming, activeDownloads, activeBatches, f) + In(f, ToSet(ws))
      <3>1. Head(Coming).type = "FileBatchOpen" /\ Key(Head(Coming)) \in DOMAIN activeBatches
        BY <1>2, <2>2
      <3> HIDE DEF ws, fs, ok, k
      <3> QED
        BY <2>2, <3>1, FetchHeaderNow
    <2> HIDE DEF ws, k
    <2>9. activeBatches' = [activeBatches EXCEPT ![Key(Head(Coming))] = [headerReady |-> TRUE, waiting |-> ws]]
      BY <2>1, <2>2
    <2>10. LanesExact' /\ inFlight' \in [Lane -> Nat] /\ UNCHANGED <<healthy, nextStreamId, empty>> /\ Requests' = Requests
      BY <1>1, <2>1, StreamStays
    <2>11. NetInv'
      BY <2>1, <2>2, <2>7, <2>9, <2>10 DEF NetInv
    <2> HIDE DEF fs, ok
    <2>12. /\ work' \in Work /\ SameHash(work, work') /\ IoBal(work')
           /\ \A g \in File : Held(work', g) = Held(work, g) + In(g, ToSet(fs) \ (ok \ empty))
      <3> DEFINE v == OpenEntries(work, fs, ok)
      <3>1. work \in Work /\ Once(fs) /\ IoBal(work)
        BY <2>3
      <3>2. /\ v \in Work /\ SameHash(work, v) /\ (IoBal(work) => IoBal(v))
            /\ \A g \in File : Held(v, g) = Held(work, g) + In(g, ToSet(fs) \ (ok \ empty))
        BY <2>5, <2>6, <3>1, OpenIs
      <3>3. work' = v
        BY <2>1
      <3> HIDE DEF v
      <3> QED
        BY <3>1, <3>2, <3>3
    <2>13. ASSUME NEW f \in File
           PROVE  LET new == Held(work', f) + Fetching(Requests, Tail(Coming), activeDownloads', activeBatches', f)
                      old == Held(work, f) + Fetching(Requests, Coming, activeDownloads, activeBatches, f)
                  IN  new <= old /\ (f \notin Small => old <= new)
      <3> DEFINE F == Fetching(Requests, Coming, activeDownloads, activeBatches, f)
                 G == Fetching(Requests, Tail(Coming), activeDownloads', activeBatches', f)
      <3>1. G + In(f, ToSet(fs)) = F + In(f, ok \ empty)
        BY <2>1, <2>2, <2>4, <2>8, <2>9 DEF fs
      <3>2. Held(work', f) = Held(work, f) + In(f, ToSet(fs) \ (ok \ empty))
        BY <2>12
      <3>3. In(f, ToSet(fs)) = In(f, ToSet(fs) \ (ok \ empty)) + In(f, ok \ empty)
        BY <2>3 DEF In
      <3>4. Held(work, f) \in Nat /\ F \in Nat
        BY Alone
      <3>5. G \in Nat
        <4>1. NetType(Requests, Tail(Coming), activeDownloads', activeBatches')
          BY <2>2, <2>10, <2>11 DEF NetInv, Net
        <4> QED
          BY <4>1, HeadersFinite
      <3>6. In(f, ToSet(fs) \ (ok \ empty)) \in {0, 1} /\ In(f, ok \ empty) \in {0, 1}
        BY DEF In
      <3>7. Held(work', f) + G = Held(work, f) + F /\ Held(work, f) + F \in Nat
        <4> DEFINE h == Held(work, f)
                   nh == Held(work', f)
                   x == In(f, ToSet(fs))
                   y == In(f, ToSet(fs) \ (ok \ empty))
                   z == In(f, ok \ empty)
        <4>1. /\ G + x = F + z /\ nh = h + y /\ x = y + z /\ h \in Nat /\ F \in Nat /\ G \in Nat
              /\ y \in {0, 1} /\ z \in {0, 1}
          BY <3>1, <3>2, <3>3, <3>4, <3>5, <3>6
        <4> HIDE DEF F, G, h, nh, x, y, z
        <4>2. nh + G = h + F /\ h + F \in Nat
          BY <4>1
        <4> QED
          BY <4>2 DEF h, nh
      <3> HIDE DEF F, G
      <3>8. Held(work', f) + G <= Held(work, f) + F /\ Held(work, f) + F <= Held(work', f) + G
        BY <3>7
      <3> QED
        BY <3>8 DEF F, G
    <2> QED
      BY <1>1, <2>1, <2>10, <2>11, <2>12, <2>13, FileFrameStep DEF StreamTypes
  <1>3. CASE FrameKey \notin DOMAIN activeBatches
    <2>1. Unknown
      BY <1>3 DEF OnFileBatchOpen
    <2> QED
      BY <1>1, <1>3, <2>1, UnknownStep DEF StreamTypes
  <1> QED
    BY <1>2, <1>3

LEMMA OnFileBatchChunkStep ==
    ASSUME Inv, OnFileBatchChunk
    PROVE  Inv'
  <1> USE InvParts
  <1>1. TakeFrame("FileBatchChunk") /\ FileFrame
    BY DEF OnFileBatchChunk
  <1>2. CASE FrameKey \in DOMAIN activeBatches
    <2> DEFINE k == FrameKey
               g == Head(activeBatches[k].waiting)
               c == [activeBatches EXCEPT ![k].waiting = Tail(@)]
    <2>2. /\ Frame \in Frames /\ Frame.type = "FileBatchChunk" /\ Coming # <<>> /\ Frame = Head(Coming)
          /\ Coming' = Tail(Coming) /\ k = Key(Frame)
      BY <1>1, StreamFrameIs DEF StreamTypes
    <2>3. /\ activeBatches[k].headerReady /\ activeBatches[k].waiting # <<>>
          /\ Net(empty, Requests, Tail(Coming), activeDownloads, c, healthy, nextStreamId)
      <3>1. Head(Coming).type = "FileBatchChunk" /\ Key(Head(Coming)) = k /\ k \in DOMAIN activeBatches
        BY <1>2, <2>2
      <3> HIDE DEF k
      <3> QED
        BY <2>2, <3>1, NetChunk
    <2>1. /\ work' = DispatchBatchWrite(work, g) /\ activeBatches' = c
          /\ Proceed /\ UNCHANGED <<inFlight, activeDownloads>>
      BY <1>2, <2>3 DEF OnFileBatchChunk
    <2>4. g \in File
      <3>1. activeBatches[k].waiting \in Seq(Small)
        BY <1>2 DEF NetType, Batch
      <3>2. g \in Small
        BY <2>3, <3>1
      <3> QED
        BY <3>2, ClientAssumption
    <2>5. DOMAIN c = DOMAIN activeBatches
      OBVIOUS
    <2>6. \A f : Fetching(Requests, Coming, activeDownloads, c, f) + Is(f, g)
                    = Fetching(Requests, Coming, activeDownloads, activeBatches, f)
      <3>1. k \in DOMAIN activeBatches
        BY <1>2
      <3> HIDE DEF k
      <3> QED
        BY <2>3, <3>1, FetchChunk
    <2> HIDE DEF c, g, k
    <2>7. \A f : Fetching(Requests, Tail(Coming), activeDownloads, c, f) + Is(f, g)
                    = Fetching(Requests, Coming, activeDownloads, activeBatches, f)
      <3>1. Head(Coming).type # "FileBatchOpen"
        BY <2>2
      <3>2. \A f : Fetching(Requests, Tail(Coming), activeDownloads, c, f)
                      = Fetching(Requests, Coming, activeDownloads, c, f)
        BY <2>2, <3>1, FetchTail
      <3> QED
        BY <2>6, <3>2
    <2>8. NetType(Requests, Tail(Coming), activeDownloads, c)
      BY <2>3 DEF Net
    <2>9. \A f \in File : Fetching(Requests, Tail(Coming), activeDownloads, c, f) \in Nat
      BY <2>8, HeadersFinite
    <2>10. LanesExact' /\ inFlight' \in [Lane -> Nat] /\ UNCHANGED <<healthy, nextStreamId, empty>> /\ Requests' = Requests
      BY <1>1, <2>1, <2>5, StreamStays
    <2>11. NetInv'
      BY <2>1, <2>2, <2>3, <2>10 DEF NetInv
    <2>12. g \notin work.ioTasks
      <3> DEFINE F == Fetching(Requests, Coming, activeDownloads, activeBatches, g)
                 G == Fetching(Requests, Tail(Coming), activeDownloads, c, g)
      <3>1. G + Is(g, g) = F /\ G \in Nat
        BY <2>4, <2>7, <2>9
      <3>2. Is(g, g) = 1
        BY DEF Is
      <3>3. F >= 1 => In(g, work.ioTasks) = 0
        BY <2>4, AloneThen
      <3> HIDE DEF F, G
      <3>5. F >= 1
        BY <3>1, <3>2
      <3>4. In(g, work.ioTasks) = 0
        BY <3>3, <3>5
      <3> QED
        BY <3>4 DEF In
    <2>13. /\ work' \in Work /\ SameHash(work, work') /\ IoBal(work')
           /\ \A f \in File : Held(work', f) = Held(work, f) + Is(f, g)
      BY <2>1, <2>4, <2>12, DispatchIs
    <2>14. ASSUME NEW f \in File
           PROVE  LET new == Held(work', f) + Fetching(Requests, Tail(Coming), activeDownloads', activeBatches', f)
                      old == Held(work, f) + Fetching(Requests, Coming, activeDownloads, activeBatches, f)
                  IN  new <= old /\ (f \notin Small => old <= new)
      <3> DEFINE F == Fetching(Requests, Coming, activeDownloads, activeBatches, f)
                 G == Fetching(Requests, Tail(Coming), activeDownloads', activeBatches', f)
      <3>1. G + Is(f, g) = F /\ G \in Nat
        BY <2>1, <2>7, <2>9
      <3>2. Held(work', f) = Held(work, f) + Is(f, g)
        BY <2>13
      <3>4. Held(work, f) \in Nat /\ Is(f, g) \in {0, 1}
        BY Alone, OneType
      <3> HIDE DEF F, G
      <3>8. Held(work', f) + G <= Held(work, f) + F /\ Held(work, f) + F <= Held(work', f) + G
        BY <3>1, <3>2, <3>4
      <3> QED
        BY <3>8 DEF F, G
    <2> QED
      BY <1>1, <2>1, <2>10, <2>11, <2>13, <2>14, FileFrameStep DEF StreamTypes
  <1>3. CASE FrameKey \notin DOMAIN activeBatches
    <2>1. Unknown
      BY <1>3 DEF OnFileBatchChunk
    <2> QED
      BY <1>1, <1>3, <2>1, UnknownStep DEF StreamTypes
  <1> QED
    BY <1>2, <1>3

-----------------------------------------------------------------------------
(* The handlers of the other frames.                                       *)

LEMMA OtherTaken ==
    ASSUME Inv, NEW t \in {"ManifestEntry", "ManifestEnd", "HashResponse"}, TakeFrame(t), Proceed,
           UNCHANGED <<connVars, serverVars, activeDownloads, activeBatches, work>>
    PROVE  /\ readyFrames # <<>> /\ readyFrames' = Tail(readyFrames) /\ readyFrames' \in Seq(Frames)
           /\ pc' = "process" <=> readyFrames' # <<>>
           /\ result' = "running" /\ Frame \in Frames /\ Frame.type = t
           /\ Frame = Coming[1] /\ 1 \in DOMAIN Coming
           /\ UNCHANGED <<manifestBatch, incomingManifest, incomingPriority>>
           /\ LaneType' /\ NetInv' /\ LanesExact' /\ HashQuiet
           /\ \A f \in File : Fetching(Requests', Coming', activeDownloads', activeBatches', f)
                                 = Fetching(Requests, Coming, activeDownloads, activeBatches, f)
  <1> USE InvParts
  <1>1. /\ readyFrames # <<>> /\ readyFrames' = Tail(readyFrames) /\ readyFrames' \in Seq(Frames)
        /\ pc' = "process" <=> readyFrames' # <<>>
        /\ result' = "running" /\ Frame \in Frames /\ Frame.type = t
    BY FrameTaken
  <1>2. Coming # <<>> /\ Frame = Head(Coming) /\ Coming' = Tail(Coming)
    BY <1>1, ComingTaken
  <1>3. UNCHANGED <<healthy, drained, inFlight, nextStreamId, empty, asked>>
    BY DEF connVars, serverVars
  <1>4. HashQuiet /\ Requests' = Requests
    BY <1>2, <1>3, QuietTail
  <1>5. Frame = Coming[1] /\ 1 \in DOMAIN Coming
    BY <1>2, TailIs
  <1>6. ~OnStream(Head(Coming)) /\ Head(Coming).type # "FileBatchOpen"
    BY <1>1, <1>2 DEF OnStream, StreamTypes
  <1>7. NetInv'
    <2>1. Net(empty, Requests, Tail(Coming), activeDownloads, activeBatches, healthy, nextStreamId)
      BY <1>2, <1>6, NetTail
    <2> QED
      BY <1>2, <1>3, <1>4, <2>1 DEF NetInv
  <1>8. LanesExact'
    BY <1>3, LanesKept DEF Shrinks
  <1>9. LaneType'
    BY DEF LaneType, connVars
  <1>10. \A f : Fetching(Requests, Tail(Coming), activeDownloads, activeBatches, f)
                  = Fetching(Requests, Coming, activeDownloads, activeBatches, f)
    BY <1>2, <1>6, FetchTail
  <1>11. \A f \in File : Fetching(Requests', Coming', activeDownloads', activeBatches', f)
                            = Fetching(Requests, Coming, activeDownloads, activeBatches, f)
    BY <1>2, <1>4, <1>10
  <1>12. UNCHANGED <<manifestBatch, incomingManifest, incomingPriority>>
    BY DEF TakeFrame
  <1> QED
    BY <1>1, <1>4, <1>5, <1>7, <1>8, <1>9, <1>11, <1>12

LEMMA OnManifestEndStep ==
    ASSUME Inv, OnManifestEnd
    PROVE  Inv'
  <1> USE InvParts
  <1>1. /\ TakeFrame("ManifestEnd") /\ Proceed
        /\ UNCHANGED <<connVars, serverVars, remoteFiles, comparing, hashVars, activeDownloads,
                       activeBatches, work>>
    BY DEF OnManifestEnd
  <1>2. /\ readyFrames # <<>> /\ readyFrames' = Tail(readyFrames) /\ readyFrames' \in Seq(Frames)
        /\ pc' = "process" <=> readyFrames' # <<>>
        /\ result' = "running" /\ Frame.type = "ManifestEnd"
        /\ UNCHANGED <<manifestBatch, incomingManifest, incomingPriority>>
        /\ LaneType' /\ NetInv' /\ LanesExact' /\ HashQuiet
        /\ \A f \in File : Fetching(Requests', Coming', activeDownloads', activeBatches', f)
                              = Fetching(Requests, Coming, activeDownloads, activeBatches, f)
    BY <1>1, OtherTaken
  <1>3. LoopType'
    BY <1>1, <1>2 DEF LoopType, serverVars
  <1>4. ManifestInv'
    <2>1. Head(readyFrames).type = "ManifestEnd"
      BY <1>2 DEF Frame
    <2> QED
      BY <1>1, <1>2, <2>1, ManifestDone DEF serverVars
  <1>5. HashInv'
    <2>1. SameHash(work, work')
      BY <1>1 DEF SameHash
    <2> QED
      BY <1>1, <1>2, <2>1, HashKept
  <1>6. PlaceInv'
    <2>1. StageSame
      BY <1>1 DEF StageSame, hashVars
    <2>2. PlaceType' /\ IoBal(work')
      BY <1>1, <1>2, <1>3 DEF PlaceType
    <2>3. \A f \in File : Stage(f)' + Held(work', f) = Stage(f) + Held(work, f)
      BY <1>1, <2>1, StageKept
    <2> QED
      BY <1>2, <2>2, <2>3, PlaceSame
  <1> QED
    BY <1>2, <1>3, <1>4, <1>5, <1>6, InvNext

LEMMA OnHashResponseStep ==
    ASSUME Inv, OnHashResponse
    PROVE  Inv'
  <1> USE InvParts
  <1>1. /\ TakeFrame("HashResponse") /\ Proceed
        /\ fallbackReady' = Append(fallbackReady, Frame.rel) /\ hashReceived' = hashReceived + 1
        /\ UNCHANGED <<connVars, serverVars, manifestDone, remoteFiles, comparing, activeDownloads,
                       activeBatches, work>>
        /\ UNCHANGED <<pendingHash, hashRequested, hashSent, localHash>>
    BY DEF OnHashResponse
  <1>2. /\ readyFrames # <<>> /\ readyFrames' = Tail(readyFrames) /\ readyFrames' \in Seq(Frames)
        /\ pc' = "process" <=> readyFrames' # <<>>
        /\ result' = "running" /\ Frame.type = "HashResponse" /\ Frame = Coming[1] /\ 1 \in DOMAIN Coming
        /\ UNCHANGED <<manifestBatch, incomingManifest, incomingPriority>>
        /\ LaneType' /\ NetInv' /\ LanesExact' /\ HashQuiet
        /\ \A f \in File : Fetching(Requests', Coming', activeDownloads', activeBatches', f)
                              = Fetching(Requests, Coming, activeDownloads, activeBatches, f)
    BY <1>1, OtherTaken
  <1>3. LoopType'
    BY <1>1, <1>2 DEF LoopType, serverVars
  <1>4. ManifestInv'
    <2>1. Head(readyFrames).type \notin {"ManifestEntry", "ManifestEnd"}
      BY <1>2 DEF Frame
    <2> QED
      BY <1>1, <1>2, <2>1, ManifestTail DEF serverVars
  <1>5. HashInv'
    <2>1. Frame.rel \in hashRequested
      BY <1>2 DEF HashInv
    <2>2. fallbackReady' \in Seq(hashRequested)
      BY <1>1, <2>1 DEF HashInv
    <2>3. \A r \in asked' : r.type = "HashRequest" => r.rel \in hashRequested
      BY <1>2 DEF HashInv, HashQuiet
    <2>4. \A i \in DOMAIN Coming' : Coming'[i].type = "HashResponse" => Coming'[i].rel \in hashRequested
      BY <1>2 DEF HashInv, HashQuiet
    <2>5. hashSent \in Nat /\ hashReceived' \in Nat /\ hashSent - hashReceived' <= HashWindow
      <3>1. hashSent \in Nat /\ hashReceived \in Nat /\ hashSent - hashReceived <= HashWindow
        BY DEF HashInv
      <3>2. hashReceived' = hashReceived + 1 /\ HashWindow \in Nat
        BY <1>1, ClientAssumption
      <3> QED
        BY <3>1, <3>2
    <2> QED
      BY <1>1, <1>2, <2>2, <2>3, <2>4, <2>5 DEF HashInv, HashQuiet
  <1>6. PlaceInv'
    <2>1. StageSame
      BY <1>1 DEF StageSame
    <2>2. PlaceType' /\ IoBal(work')
      BY <1>1, <1>2, <1>3 DEF PlaceType
    <2>3. \A f \in File : Stage(f)' + Held(work', f) = Stage(f) + Held(work, f)
      BY <1>1, <2>1, StageKept
    <2> QED
      BY <1>2, <2>2, <2>3, PlaceSame
  <1> QED
    BY <1>2, <1>3, <1>4, <1>5, <1>6, InvNext

LEMMA OnManifestEntryStep ==
    ASSUME Inv, OnManifestEntry
    PROVE  Inv'
  <1> USE InvParts
  <1> DEFINE g == Frame.rel
  <1>1. /\ TakeFrame("ManifestEntry") /\ Proceed
        /\ remoteFiles' = remoteFiles \cup {g} /\ comparing' = With(comparing, g, "queued")
        /\ UNCHANGED <<connVars, serverVars, manifestDone, hashVars, activeDownloads, activeBatches, work>>
    BY DEF OnManifestEntry
  <1>2. /\ readyFrames # <<>> /\ readyFrames' = Tail(readyFrames) /\ readyFrames' \in Seq(Frames)
        /\ pc' = "process" <=> readyFrames' # <<>>
        /\ result' = "running" /\ Frame.type = "ManifestEntry"
        /\ UNCHANGED <<manifestBatch, incomingManifest, incomingPriority>>
        /\ LaneType' /\ NetInv' /\ LanesExact' /\ HashQuiet
        /\ \A f \in File : Fetching(Requests', Coming', activeDownloads', activeBatches', f)
                              = Fetching(Requests, Coming, activeDownloads, activeBatches, f)
    BY <1>1, OtherTaken
  <1>4. ManifestInv' /\ g \in File \ remoteFiles
    <2>1. Head(readyFrames).type = "ManifestEntry" /\ g = Head(readyFrames).rel
      BY <1>2 DEF Frame
    <2> QED
      BY <1>1, <1>2, <2>1, ManifestTaken DEF serverVars
  <1> HIDE DEF g
  <1>5. g \notin DOMAIN comparing /\ g \notin hashRequested
    <2>1. Stage(g) <= 1
      BY <1>4, AloneThen
    <2>2. In(g, File \ remoteFiles) = 1
      BY <1>4 DEF In
    <2>3. In(g, DOMAIN comparing) \in {0, 1} /\ In(g, hashRequested \ work.resolved) \in {0, 1}
      BY DEF In
    <2>4. In(g, DOMAIN comparing) = 0
      BY <2>1, <2>2, <2>3 DEF Stage
    <2> QED
      BY <1>4, <2>4 DEF In, HashInv
  <1>6. DOMAIN comparing' = DOMAIN comparing \cup {g}
    BY <1>1 DEF With
  <1>7. /\ comparing' \in [DOMAIN comparing' -> {"queued", "TransferNow", "Skip", "Hash"}]
        /\ DOMAIN comparing' \subseteq File
    <2>1. \A x \in DOMAIN comparing : comparing[x] \in {"queued", "TransferNow", "Skip", "Hash"}
      BY DEF LoopType
    <2>2. \A x \in DOMAIN comparing \cup {g} : comparing'[x] \in {"queued", "TransferNow", "Skip", "Hash"}
      BY <1>1, <2>1 DEF With
    <2>3. comparing' = [x \in DOMAIN comparing' |-> comparing'[x]]
      BY <1>1 DEF With
    <2>4. DOMAIN comparing \cup {g} \subseteq File
      BY <1>4 DEF LoopType
    <2> QED
      BY <1>6, <2>2, <2>3, <2>4
  <1>8. LoopType'
    BY <1>1, <1>2, <1>4, <1>7 DEF LoopType, serverVars
  <1>9. HashInv'
    <2>1. UNCHANGED <<pendingHash, hashRequested, hashSent, hashReceived, localHash, fallbackReady, work>>
      BY <1>1 DEF hashVars
    <2>2. \A r \in asked' : r.type = "HashRequest" => r.rel \in hashRequested
      BY <1>2 DEF HashInv, HashQuiet
    <2>3. \A i \in DOMAIN Coming' : Coming'[i].type = "HashResponse" => Coming'[i].rel \in hashRequested
      BY <1>2 DEF HashInv, HashQuiet
    <2>4. IsFiniteSet(asked') /\ asked' \subseteq HashRequest \cup StreamRequest
      BY <1>2 DEF HashQuiet
    <2>5. hashRequested' \subseteq remoteFiles' \ DOMAIN comparing'
      BY <1>1, <1>5, <1>6, <2>1 DEF HashInv
    <2>6. work'.scheduled \subseteq remoteFiles' \ (DOMAIN comparing' \cup (hashRequested' \ work'.resolved))
      BY <1>1, <1>4, <1>6, <2>1 DEF HashInv
    <2> QED
      BY <2>1, <2>2, <2>3, <2>4, <2>5, <2>6 DEF HashInv
  <1>10. PlaceInv'
    <2>1. ASSUME NEW f \in File
          PROVE  Stage(f)' + Held(work', f) = Stage(f) + Held(work, f)
      <3>1. Stage(f)' = Stage(f)
        <4>1. Stage(f) = In(f, File \ remoteFiles) + In(f, DOMAIN comparing) + In(f, hashRequested \ work.resolved)
          BY DEF Stage
        <4>2. Stage(f)' = In(f, File \ remoteFiles') + In(f, DOMAIN comparing') + In(f, hashRequested \ work.resolved)
          BY <1>1 DEF Stage, hashVars
        <4>3. CASE f = g
          <5>1. In(f, File \ remoteFiles) = 1 /\ In(f, File \ remoteFiles') = 0
            BY <1>1, <1>4, <4>3 DEF In
          <5>2. In(f, DOMAIN comparing) = 0 /\ In(f, DOMAIN comparing') = 1
            BY <1>5, <1>6, <4>3 DEF In
          <5> QED
            BY <4>1, <4>2, <5>1, <5>2
        <4>4. CASE f # g
          <5>1. In(f, File \ remoteFiles) = In(f, File \ remoteFiles')
            BY <1>1, <4>4 DEF In
          <5>2. In(f, DOMAIN comparing) = In(f, DOMAIN comparing')
            BY <1>6, <4>4 DEF In
          <5> QED
            BY <4>1, <4>2, <5>1, <5>2
        <4> QED
          BY <4>3, <4>4
      <3> QED
        BY <1>1, <3>1
    <2>2. PlaceType' /\ IoBal(work')
      BY <1>1, <1>2, <1>8 DEF PlaceType
    <2> QED
      BY <1>2, <2>1, <2>2, PlaceSame
  <1> QED
    BY <1>2, <1>4, <1>8, <1>9, <1>10, InvNext

-----------------------------------------------------------------------------
(* Hash requests.                                                          *)

LEMMA ControlIs == ControlConn \in Lane
  <1>1. Lanes \in Nat \ {0} /\ 0 \in Lane /\ Lane \subseteq Nat
    BY ClientAssumption DEF Lane
  <1>2. CASE HealthyConnCount = 0
    BY <1>1, <1>2 DEF ControlConn, Primary
  <1>3. CASE HealthyConnCount # 0
    <2> DEFINE up == {l \in Lane : healthy[l]}
    <2>1. up # {}
      BY <1>3, FS_EmptySet DEF HealthyConnCount
    <2>2. up \subseteq Nat
      BY <1>1
    <2>3. Min(up) \in up /\ \A y \in up : Min(up) <= y
      BY <2>1, <2>2, LeastOf
    <2> DEFINE l == Min(up)
    <2> HIDE DEF l
    <2>4. l \in Lane /\ healthy[l] /\ \A m \in Lane : healthy[m] => l <= m
      BY <2>3 DEF l
    <2>5. \A m \in 0 .. l - 1 : ~healthy[m]
      <3> TAKE m \in 0 .. l - 1
      <3>1. m \in Lane /\ l \in Nat /\ m \in Nat /\ m < l
        BY <1>1, <2>4 DEF Lane
      <3> QED
        BY <2>4, <3>1
    <2>6. \E x \in Lane : healthy[x] /\ \A m \in 0 .. x - 1 : ~healthy[m]
      BY <2>4, <2>5
    <2> QED
      BY <1>3, <2>6 DEF ControlConn
  <1> QED
    BY <1>2, <1>3

LEMMA ImageFinite ==
    ASSUME NEW S, IsFiniteSet(S), NEW l
    PROVE  IsFiniteSet({[type |-> "HashRequest", lane |-> l, rel |-> f] : f \in S})
  <1> DEFINE T == {[type |-> "HashRequest", lane |-> l, rel |-> f] : f \in S}
             g == [f \in S |-> [type |-> "HashRequest", lane |-> l, rel |-> f]]
  <1>1. g \in Surjection(S, T)
    BY DEF Surjection
  <1> HIDE DEF T, g
  <1>2. IsFiniteSet(T)
    BY <1>1, FS_Surjection
  <1> QED
    BY <1>2 DEF T

\* What dispatchHashRequests does to the fallback, for a queue of files of hr.
LEMMA HashesAsked ==
    ASSUME Inv, NEW hr \in SUBSET File, hashRequested \subseteq hr, NEW q \in Seq(hr), DispatchHashRequests(q)
    PROVE  /\ pendingHash' \in Seq(hr) /\ hashSent' \in Nat /\ hashSent' - hashReceived <= HashWindow
           /\ DOMAIN localHash' = File /\ \A f \in File : localHash'[f] # "none" => f \in hr
           /\ IsFiniteSet(asked') /\ asked' \subseteq HashRequest \cup StreamRequest
           /\ \A r \in asked' : r.type = "HashRequest" => r.rel \in hr
           /\ Requests' = Requests /\ healthy' \in [Lane -> BOOLEAN] /\ Shrinks
  <1> USE InvParts
  <1> DEFINE window == HashWindow - (hashSent - hashReceived)
             n == IF Len(q) < window THEN Len(q) ELSE window
             rels == ToSet(SubSeq(q, 1, n))
             ctrl == ControlConn
             new == {[type |-> "HashRequest", lane |-> ctrl, rel |-> f] : f \in rels}
  <1>1. /\ pendingHash' = SubSeq(q, n + 1, Len(q)) /\ hashSent' = hashSent + n
        /\ localHash' = [f \in File |-> IF f \in rels THEN "queued" ELSE localHash[f]]
        /\ \/ asked' = asked \cup new /\ UNCHANGED healthy
           \/ healthy' = [healthy EXCEPT ![ctrl] = FALSE] /\ UNCHANGED asked
    BY DEF DispatchHashRequests
  <1>0. /\ hashSent \in Nat /\ hashReceived \in Nat /\ hashSent - hashReceived <= HashWindow
        /\ HashWindow \in Nat /\ Len(q) \in Nat
    BY ClientAssumption DEF HashInv
  <1>2. n \in 0 .. Len(q) /\ n <= window /\ n \in Nat
    BY <1>0
  <1>3. hashSent + n \in Nat /\ (hashSent + n) - hashReceived <= HashWindow
    BY <1>0, <1>2
  <1>4. ctrl \in Lane
    BY ControlIs
  <1> HIDE DEF n, ctrl
  <1>5. SubSeq(q, 1, n) \in Seq(hr) /\ SubSeq(q, n + 1, Len(q)) \in Seq(hr)
    BY <1>2, OccSplit
  <1>6. rels \subseteq hr /\ IsFiniteSet(rels)
    <2>1. \A s \in Seq(hr) : ToSet(s) \subseteq hr
      BY DEF ToSet
    <2>2. \A s \in Seq(hr) : IsFiniteSet(ToSet(s))
      BY SetWithinLen
    <2> QED
      BY <1>5, <2>1, <2>2
  <1> HIDE DEF rels
  <1>7. IsFiniteSet(new)
    BY <1>6, ImageFinite
  <1>8. \A r \in new : r.type = "HashRequest" /\ r.rel \in hr /\ r \in HashRequest
    BY <1>4, <1>6 DEF HashRequest
  <1> HIDE DEF new
  <1>9. IsFiniteSet(asked \cup new)
    BY <1>7, FS_Union DEF HashInv
  <1>10. /\ asked \cup new \subseteq HashRequest \cup StreamRequest
         /\ \A r \in asked \cup new : r.type = "HashRequest" => r.rel \in hr
         /\ {r \in asked \cup new : r.type # "HashRequest"} = Requests
    BY <1>8 DEF HashInv, Requests
  <1>11. /\ IsFiniteSet(asked') /\ asked' \subseteq HashRequest \cup StreamRequest
         /\ \A r \in asked' : r.type = "HashRequest" => r.rel \in hr
         /\ Requests' = Requests /\ healthy' \in [Lane -> BOOLEAN] /\ Shrinks
    <2>1. CASE asked' = asked \cup new /\ UNCHANGED healthy
      BY <1>9, <1>10, <2>1 DEF Requests, Shrinks, LaneType
    <2>2. CASE healthy' = [healthy EXCEPT ![ctrl] = FALSE] /\ UNCHANGED asked
      <3>1. healthy \in [Lane -> BOOLEAN]
        BY DEF LaneType
      <3>2. healthy' \in [Lane -> BOOLEAN] /\ Shrinks
        BY <1>4, <2>2, <3>1 DEF Shrinks
      <3> QED
        BY <2>2, <3>2 DEF HashInv, Requests
    <2> QED
      BY <1>1, <2>1, <2>2
  <1>12. DOMAIN localHash' = File /\ \A f \in File : localHash'[f] # "none" => f \in hr
    BY <1>1, <1>6 DEF HashInv
  <1>13. hashSent' \in Nat /\ hashSent' - hashReceived <= HashWindow
    BY <1>1, <1>3
  <1> QED
    BY <1>1, <1>5, <1>11, <1>12, <1>13

LEMMA ResolvedStage ==
    ASSUME work \in Work, Resolves(hashRequested, work, work'), UNCHANGED <<remoteFiles, hashRequested, comparing>>
    PROVE  \A f \in File : Stage(f)' + Held(work', f) = Stage(f) + Held(work, f)
  <1> SUFFICES ASSUME NEW f \in File
               PROVE  Stage(f)' + Held(work', f) = Stage(f) + Held(work, f)
    OBVIOUS
  <1> DEFINE a == In(f, File \ remoteFiles)
             b == In(f, DOMAIN comparing)
             c == In(f, hashRequested \ work.resolved)
             d == In(f, hashRequested \ work'.resolved)
  <1>1. Stage(f) = a + b + c /\ Stage(f)' = a + b + d
    BY DEF Stage
  <1>2. Held(work', f) + d = Held(work, f) + c
    BY DEF Resolves
  <1>3. Held(work', f) \in Nat /\ Held(work, f) \in Nat
    BY HeldType DEF Resolves
  <1>4. a \in {0, 1} /\ b \in {0, 1} /\ c \in {0, 1} /\ d \in {0, 1}
    BY DEF In
  <1> HIDE DEF a, b, c, d
  <1> QED
    BY <1>1, <1>2, <1>3, <1>4

\* The session goes on with what the fallback has settled.
LEMMA ResolveStep ==
    ASSUME Inv, Resolve
    PROVE  Inv'
  <1> USE InvParts
  <1>1. /\ pc = "resolve" /\ pc' = "start" /\ result = "running"
        /\ \E same : work' = ResolveFallback(work, fallbackReady, same)
        /\ fallbackReady' = <<>> /\ DispatchHashRequests(pendingHash)
        /\ UNCHANGED <<recving, drained, inFlight, nextStreamId, empty, toList, endSent, frameVars>>
        /\ UNCHANGED <<manifestDone, remoteFiles, result, comparing, hashRequested, hashReceived,
                       activeDownloads, activeBatches>>
    BY DEF Resolve, Main
  <1>2. /\ hashRequested \subseteq File /\ pendingHash \in Seq(hashRequested) /\ fallbackReady \in Seq(hashRequested)
        /\ work.resolved \subseteq hashRequested /\ work.scheduled \cap (hashRequested \ work.resolved) = {}
    BY DEF HashInv, LoopType
  <1>3. Resolves(hashRequested, work, work')
    <2>1. PICK same : work' = ResolveFallback(work, fallbackReady, same)
      BY <1>1
    <2> QED
      BY <1>2, <2>1, ResolveFallbackIs
  <1>4. /\ pendingHash' \in Seq(hashRequested) /\ hashSent' \in Nat /\ hashSent' - hashReceived <= HashWindow
        /\ DOMAIN localHash' = File /\ \A f \in File : localHash'[f] # "none" => f \in hashRequested
        /\ IsFiniteSet(asked') /\ asked' \subseteq HashRequest \cup StreamRequest
        /\ \A r \in asked' : r.type = "HashRequest" => r.rel \in hashRequested
        /\ Requests' = Requests /\ healthy' \in [Lane -> BOOLEAN] /\ Shrinks
    BY <1>1, <1>2, HashesAsked
  <1>5. Coming' = Coming
    BY <1>1 DEF Coming, frameVars
  <1>6. work' \in Work /\ SameIo(work, work')
    BY <1>3 DEF Resolves
  <1>7. LaneType'
    BY <1>1, <1>4 DEF LaneType
  <1>8. LoopType'
    BY <1>1, <1>6 DEF LoopType, frameVars
  <1>9. NetInv'
    BY <1>1, <1>4, <1>5, NetKept
  <1>10. LanesExact'
    BY <1>1, <1>4, LanesKept
  <1>11. ManifestInv'
    BY <1>1, ManifestKept DEF frameVars
  <1>12. HashInv'
    <2>1. work'.resolved \subseteq hashRequested
      BY <1>3 DEF Resolves
    <2>2. work'.scheduled \subseteq remoteFiles \ (DOMAIN comparing \cup (hashRequested \ work'.resolved))
      BY <1>3 DEF Resolves, HashInv
    <2>3. fallbackReady' \in Seq(hashRequested)
      BY <1>1
    <2>4. \A i \in DOMAIN Coming' : Coming'[i].type = "HashResponse" => Coming'[i].rel \in hashRequested
      BY <1>5 DEF HashInv
    <2>5. hashRequested \subseteq remoteFiles \ DOMAIN comparing /\ hashReceived \in Nat
      BY DEF HashInv
    <2> QED
      BY <1>1, <1>4, <2>1, <2>2, <2>3, <2>4, <2>5 DEF HashInv
  <1>13. PlaceInv'
    <2>1. PlaceType' /\ IoBal(work')
      BY <1>6, <1>8, <1>9, IoBalSame DEF PlaceType
    <2>2. \A f \in File : Stage(f)' + Held(work', f) = Stage(f) + Held(work, f)
      BY <1>1, <1>3, ResolvedStage
    <2> QED
      BY <1>1, <1>4, <1>5, <2>1, <2>2, PlaceSame
  <1> QED
    BY <1>1, <1>7, <1>8, <1>9, <1>10, <1>11, <1>12, <1>13, InvNext

-----------------------------------------------------------------------------
(* The pools are drained.                                                  *)

DrainedFiles == {f \in DOMAIN comparing : comparing[f] # "queued"}
ToHash == {f \in DrainedFiles : comparing[f] = "Hash" /\ f \notin hashRequested}
ToSettle == {f \in DrainedFiles : comparing[f] \in {"TransferNow", "Skip"}}

LEMMA DrainedIs ==
    ASSUME Inv
    PROVE  /\ DOMAIN comparing \subseteq remoteFiles /\ remoteFiles \subseteq File
           /\ DrainedFiles \subseteq DOMAIN comparing /\ IsFiniteSet(DrainedFiles)
           /\ ToHash \subseteq DrainedFiles /\ IsFiniteSet(ToHash)
           /\ DrainedFiles = ToHash \cup ToSettle /\ ToHash \cap ToSettle = {}
           /\ ToHash \cap hashRequested = {} /\ DrainedFiles \cap work.scheduled = {}
           /\ hashRequested \cap DOMAIN comparing = {}
  <1> USE InvParts
  <1>1. \A f \in DOMAIN comparing : f \in remoteFiles
    <2> TAKE f \in DOMAIN comparing
    <2>1. f \in File
      BY DEF LoopType
    <2>2. Stage(f) <= 1
      BY <2>1, AloneThen
    <2>3. In(f, DOMAIN comparing) = 1
      BY DEF In
    <2>4. In(f, File \ remoteFiles) \in {0, 1} /\ In(f, hashRequested \ work.resolved) \in {0, 1}
      BY DEF In
    <2>5. In(f, File \ remoteFiles) = 0
      BY <2>2, <2>3, <2>4 DEF Stage
    <2> QED
      BY <2>1, <2>5 DEF In
  <1>2. remoteFiles \subseteq File /\ DOMAIN comparing \subseteq File /\ IsFiniteSet(File)
    BY ClientAssumption DEF LoopType
  <1>3. DrainedFiles \subseteq File /\ DrainedFiles \subseteq DOMAIN comparing /\ ToHash \subseteq DrainedFiles
    BY <1>2 DEF DrainedFiles, ToHash
  <1>4. IsFiniteSet(DrainedFiles)
    BY <1>2, <1>3, FS_Subset
  <1>5. IsFiniteSet(ToHash)
    BY <1>3, <1>4, FS_Subset
  <1>6. hashRequested \cap DOMAIN comparing = {} /\ work.scheduled \cap DOMAIN comparing = {}
    BY DEF HashInv
  <1>7. \A f \in DOMAIN comparing : comparing[f] \in {"queued", "TransferNow", "Skip", "Hash"}
    BY DEF LoopType
  <1>8. DrainedFiles = ToHash \cup ToSettle
    BY <1>6, <1>7 DEF DrainedFiles, ToHash, ToSettle
  <1>9. ToHash \cap ToSettle = {} /\ ToHash \cap hashRequested = {}
    BY DEF ToHash, ToSettle
  <1> QED
    BY <1>1, <1>2, <1>3, <1>4, <1>5, <1>6, <1>8, <1>9

LEMMA DrainWork ==
    ASSUME Inv, NEW fs \in SetToSeqs(DrainedFiles), NEW rs \in SetToSeqs(work.ioResults)
    PROVE  LET v == WriteAll(CompareAll(work, fs), rs)
           IN  /\ v \in Work /\ IoBal(v) /\ v.resolved = work.resolved
               /\ v.scheduled \subseteq work.scheduled \cup ToSettle
               /\ \A g \in File : Held(v, g) = Held(work, g) + In(g, ToSettle)
  <1> USE InvParts
  <1> DEFINE u == CompareAll(work, fs)
             v == WriteAll(u, rs)
  <1>1. /\ DrainedFiles \subseteq File /\ IsFiniteSet(DrainedFiles) /\ DrainedFiles \cap work.scheduled = {}
    BY DrainedIs
  <1>2. fs \in Seq(DrainedFiles) /\ Once(fs) /\ ToSet(fs) = DrainedFiles
    BY <1>1, SeqsOf
  <1>3. fs \in Seq(File) /\ ToSet(fs) \cap work.scheduled = {}
    BY <1>1, <1>2
  <1>4. /\ u \in Work /\ SameIo(work, u) /\ u.resolved = work.resolved
        /\ u.scheduled \subseteq work.scheduled \cup {f \in ToSet(fs) : comparing[f] = "TransferNow"}
        /\ \A g \in File : Held(u, g) = Held(work, g) + In(g, Decided(fs, Len(fs)))
    BY <1>2, <1>3, CompareAllIs
  <1>5. Prefix(fs, Len(fs)) = DrainedFiles
    BY <1>2, PrefixIs
  <1>6. Decided(fs, Len(fs)) = ToSettle
    BY <1>5 DEF Decided, ToSettle
  <1>7. {f \in ToSet(fs) : comparing[f] = "TransferNow"} \subseteq ToSettle
    BY <1>2 DEF ToSettle
  <1>8. IsFiniteSet(work.ioResults)
    BY ResultsFinite
  <1>9. rs \in Seq(work.ioResults) /\ Once(rs)
    BY <1>8, SeqsOf
  <1> HIDE DEF u
  <1>10. u.ioResults = work.ioResults
    BY <1>4 DEF SameIo
  <1>11. rs \in Seq(u.ioResults)
    BY <1>9, <1>10
  <1>12. /\ v \in Work /\ SameHash(u, v) /\ (IoBal(u) => IoBal(v)) /\ \A g \in File : Held(v, g) = Held(u, g)
    BY <1>4, <1>9, <1>11, WriteAllIs
  <1>13. IoBal(u)
    BY <1>4, IoBalSame
  <1> HIDE DEF v
  <1>14. v.resolved = work.resolved /\ v.scheduled \subseteq work.scheduled \cup ToSettle
    BY <1>4, <1>7, <1>12 DEF SameHash
  <1>15. \A g \in File : Held(v, g) = Held(work, g) + In(g, ToSettle)
    BY <1>4, <1>6, <1>12
  <1> QED
    BY <1>12, <1>13, <1>14, <1>15 DEF u, v

LEMMA DrainStage ==
    ASSUME Inv, NEW f \in File, hashRequested' = hashRequested \cup ToHash, comparing' = Without(comparing, DrainedFiles),
           UNCHANGED remoteFiles, work'.resolved = work.resolved
    PROVE  Stage(f) = Stage(f)' + In(f, ToSettle)
  <1> USE InvParts
  <1>1. /\ DrainedFiles \subseteq DOMAIN comparing /\ DrainedFiles = ToHash \cup ToSettle
        /\ ToHash \cap ToSettle = {} /\ ToHash \cap hashRequested = {}
    BY DrainedIs
  <1>2. work.resolved \subseteq hashRequested
    BY DEF HashInv
  <1>3. DOMAIN comparing' = DOMAIN comparing \ DrainedFiles
    BY DEF Without, Restrict
  <1> DEFINE a == In(f, File \ remoteFiles)
             b == In(f, DOMAIN comparing)
             c == In(f, hashRequested \ work.resolved)
             x == In(f, DOMAIN comparing')
             y == In(f, hashRequested' \ work.resolved)
             h == In(f, ToHash)
             s == In(f, ToSettle)
  <1>4. Stage(f) = a + b + c /\ Stage(f)' = a + x + y
    BY DEF Stage
  <1>5. b = x + h + s
    BY <1>1, <1>3 DEF In
  <1>6. y = c + h
    BY <1>1, <1>2 DEF In
  <1>7. a \in Nat /\ x \in Nat /\ c \in Nat /\ h \in Nat /\ s \in Nat
    BY DEF In
  <1> HIDE DEF a, b, c, x, y, h, s
  <1> QED
    BY <1>4, <1>5, <1>6, <1>7 DEF s

LEMMA DrainResultsStep ==
    ASSUME Inv, DrainResults
    PROVE  Inv'
  <1> USE InvParts
  <1>1. /\ pc = "drain" /\ pc' = "test" /\ result = "running"
        /\ \E fs \in SetToSeqs(DrainedFiles), rs \in SetToSeqs(work.ioResults) :
              work' = WriteAll(CompareAll(work, fs), rs)
        /\ \E fallback \in SetToSeqs(ToHash) : DispatchHashRequests(pendingHash \o fallback)
        /\ hashRequested' = hashRequested \cup ToHash /\ comparing' = Without(comparing, DrainedFiles)
        /\ UNCHANGED <<recving, drained, inFlight, nextStreamId, empty, toList, endSent, frameVars>>
        /\ UNCHANGED <<manifestDone, remoteFiles, result, hashReceived, fallbackReady, activeDownloads,
                       activeBatches>>
    BY DEF DrainResults, Main, DrainedFiles, ToHash, WriteAll, CompareAll
  <1>2. /\ DOMAIN comparing \subseteq remoteFiles /\ remoteFiles \subseteq File
        /\ DrainedFiles \subseteq DOMAIN comparing /\ ToHash \subseteq DrainedFiles /\ IsFiniteSet(ToHash)
        /\ DrainedFiles = ToHash \cup ToSettle /\ ToHash \cap ToSettle = {}
        /\ hashRequested \cap DOMAIN comparing = {}
    BY DrainedIs
  <1>3. /\ work' \in Work /\ IoBal(work') /\ work'.resolved = work.resolved
        /\ work'.scheduled \subseteq work.scheduled \cup ToSettle
        /\ \A g \in File : Held(work', g) = Held(work, g) + In(g, ToSettle)
    <2>1. PICK fs \in SetToSeqs(DrainedFiles), rs \in SetToSeqs(work.ioResults) :
                  work' = WriteAll(CompareAll(work, fs), rs)
      BY <1>1
    <2> QED
      BY <2>1, DrainWork
  <1> DEFINE hr == hashRequested \cup ToHash
  <1>4. /\ pendingHash' \in Seq(hr) /\ hashSent' \in Nat /\ hashSent' - hashReceived <= HashWindow
        /\ DOMAIN localHash' = File /\ \A f \in File : localHash'[f] # "none" => f \in hr
        /\ IsFiniteSet(asked') /\ asked' \subseteq HashRequest \cup StreamRequest
        /\ \A r \in asked' : r.type = "HashRequest" => r.rel \in hr
        /\ Requests' = Requests /\ healthy' \in [Lane -> BOOLEAN] /\ Shrinks
    <2>1. PICK fallback \in SetToSeqs(ToHash) : DispatchHashRequests(pendingHash \o fallback)
      BY <1>1
    <2>2. fallback \in Seq(ToHash)
      BY <1>2, SeqsOf
    <2>3. pendingHash \in Seq(hashRequested)
      BY DEF HashInv
    <2>4. pendingHash \in Seq(hr) /\ fallback \in Seq(hr)
      BY <2>2, <2>3
    <2>5. hr \in SUBSET File /\ hashRequested \subseteq hr
      BY <1>2 DEF HashInv
    <2> HIDE DEF hr
    <2>6. pendingHash \o fallback \in Seq(hr)
      BY <2>4
    <2> QED
      BY <2>1, <2>5, <2>6, HashesAsked
  <1>5. Coming' = Coming
    BY <1>1 DEF Coming, frameVars
  <1>6. DOMAIN comparing' = DOMAIN comparing \ DrainedFiles /\ comparing' = [x \in DOMAIN comparing' |-> comparing[x]]
    BY <1>1 DEF Without, Restrict
  <1>7. LaneType'
    BY <1>1, <1>4 DEF LaneType
  <1>8. LoopType'
    <2>1. comparing' \in [DOMAIN comparing' -> {"queued", "TransferNow", "Skip", "Hash"}]
      <3>1. \A x \in DOMAIN comparing : comparing[x] \in {"queued", "TransferNow", "Skip", "Hash"}
        BY DEF LoopType
      <3> QED
        BY <1>6, <3>1
    <2> QED
      BY <1>1, <1>3, <1>6, <2>1 DEF LoopType, frameVars
  <1>9. NetInv'
    BY <1>1, <1>4, <1>5, NetKept
  <1>10. LanesExact'
    BY <1>1, <1>4, LanesKept
  <1>11. ManifestInv'
    BY <1>1, ManifestKept DEF frameVars
  <1>12. HashInv'
    <2>1. work'.resolved \subseteq hashRequested'
      BY <1>1, <1>3 DEF HashInv
    <2>2. work'.scheduled \subseteq remoteFiles' \ (DOMAIN comparing' \cup (hashRequested' \ work'.resolved))
      <3>1. \A f \in work.scheduled : f \in remoteFiles /\ f \notin DOMAIN comparing
                                       /\ f \notin hashRequested \ work.resolved
        BY DEF HashInv
      <3> QED
        BY <1>1, <1>2, <1>3, <1>6, <3>1
    <2>3. fallbackReady' \in Seq(hashRequested')
      BY <1>1 DEF HashInv
    <2>4. \A i \in DOMAIN Coming' : Coming'[i].type = "HashResponse" => Coming'[i].rel \in hashRequested'
      BY <1>1, <1>5 DEF HashInv
    <2>5. hashRequested' \subseteq remoteFiles' \ DOMAIN comparing' /\ hashReceived' \in Nat
      BY <1>1, <1>2, <1>6 DEF HashInv
    <2> QED
      BY <1>1, <1>4, <2>1, <2>2, <2>3, <2>4, <2>5 DEF HashInv
  <1>13. PlaceInv'
    <2>1. PlaceType'
      BY <1>8, <1>9 DEF PlaceType
    <2>2. ASSUME NEW f \in File
          PROVE  Stage(f)' + Held(work', f) = Stage(f) + Held(work, f)
      <3>1. Stage(f) = Stage(f)' + In(f, ToSettle)
        BY <1>1, <1>3, DrainStage
      <3>2. Held(work', f) = Held(work, f) + In(f, ToSettle) /\ Held(work, f) \in Nat
        BY <1>3, Alone
      <3>3. Stage(f)' \in Nat /\ In(f, ToSettle) \in Nat
        BY DEF Stage, In
      <3> QED
        BY <3>1, <3>2, <3>3
    <2> QED
      BY <1>1, <1>3, <1>4, <1>5, <2>1, <2>2, PlaceSame
  <1> QED
    BY <1>1, <1>7, <1>8, <1>9, <1>10, <1>11, <1>12, <1>13, InvNext

-----------------------------------------------------------------------------
(* The loop goes on.                                                       *)

LEMMA SweepIs ==
    ASSUME Inv, Sweep
    PROVE  Resolves(hashRequested, work, work') /\ fallbackReady' \in Seq(hashRequested)
  <1> USE InvParts
  <1>1. /\ hashRequested \in SUBSET File /\ fallbackReady \in Seq(hashRequested)
        /\ work.resolved \subseteq hashRequested /\ work.scheduled \cap (hashRequested \ work.resolved) = {}
    BY DEF HashInv, LoopType
  <1>2. CASE MustSweep
    <2> DEFINE left == hashRequested \ work.resolved
    <2>1. PICK us \in SetToSeqs(left), same \in Agreeing(left \cup ToSet(fallbackReady)) :
                  work' = SweepAll(ResolveFallback(work, fallbackReady \o us, same), us)
      BY <1>2 DEF Sweep, SweepAll
    <2>2. fallbackReady' = <<>>
      BY <1>2 DEF Sweep
    <2>3. IsFiniteSet(left)
      <3>1. IsFiniteSet(File) /\ left \subseteq File
        BY <1>1, ClientAssumption
      <3> QED
        BY <3>1, FS_Subset
    <2>4. us \in Seq(left)
      BY <2>3, SeqsOf
    <2>5. us \in Seq(hashRequested)
      BY <2>4
    <2>6. fallbackReady \o us \in Seq(hashRequested)
      BY <1>1, <2>5
    <2> DEFINE v == ResolveFallback(work, fallbackReady \o us, same)
    <2>7. Resolves(hashRequested, work, v)
      BY <1>1, <2>6, ResolveFallbackIs
    <2> HIDE DEF v
    <2>8. v \in Work /\ v.resolved \subseteq hashRequested /\ v.scheduled \cap (hashRequested \ v.resolved) = {}
      BY <2>7 DEF Resolves
    <2>9. Resolves(hashRequested, v, SweepAll(v, us))
      BY <1>1, <2>5, <2>8, SweepAllIs
    <2>10. work' = SweepAll(v, us)
      BY <2>1 DEF v
    <2>11. Resolves(hashRequested, work, work')
      BY <2>7, <2>9, <2>10, ResolvesTrans
    <2> QED
      BY <2>2, <2>11
  <1>3. CASE ~MustSweep
    <2>1. work' = work /\ fallbackReady' = fallbackReady
      BY <1>3 DEF Sweep
    <2> QED
      BY <1>1, <2>1, ResolvesSelf
  <1> QED
    BY <1>2, <1>3

Queue == incomingPriority \o incomingManifest

\* The frames of the two queues become the ones to process.
FramesTaken ==
    /\ readyFrames' = Queue /\ incomingPriority' = <<>> /\ incomingManifest' = <<>>
    /\ UNCHANGED manifestBatch

\* Nothing is lost on the way, and manifest frames are for no stream.
LEMMA QueueTaken ==
    ASSUME Inv, readyFrames = <<>>, FramesTaken
    PROVE  /\ Coming = incomingPriority /\ Coming' = Coming \o incomingManifest
           /\ incomingManifest \in Seq(Frames) /\ Queue \in Seq(Frames)
           /\ \A i \in DOMAIN incomingManifest :
                 ~OnStream(incomingManifest[i]) /\ incomingManifest[i].type \notin {"FileBatchOpen", "HashResponse"}
  <1> USE InvParts
  <1>1. incomingManifest \in Seq(EntryFrame \cup EndFrame)
    BY DEF LoopType
  <1>2. incomingManifest \in Seq(Frames)
    BY <1>1 DEF Frames
  <1>3. Coming = incomingPriority
    BY ConcatEmptySeq DEF Coming
  <1>4. Queue \in Seq(Frames)
    BY <1>2 DEF Queue
  <1>5. Coming' = Queue
    <2>1. Coming' = Queue \o <<>>
      BY DEF Coming, FramesTaken
    <2> QED
      BY <1>4, <2>1, ConcatEmptySeq
  <1>6. \A m \in EntryFrame \cup EndFrame : m.type \in {"ManifestEntry", "ManifestEnd"}
    BY DEF EntryFrame, EndFrame
  <1>7. \A i \in DOMAIN incomingManifest : incomingManifest[i].type \in {"ManifestEntry", "ManifestEnd"}
    BY <1>1, <1>6
  <1> QED
    BY <1>2, <1>3, <1>4, <1>5, <1>7 DEF Queue, OnStream, StreamTypes

LEMMA ComingFrom ==
    ASSUME Coming \in Seq(Frames), incomingManifest \in Seq(Frames), Coming' = Coming \o incomingManifest
    PROVE  \A i \in DOMAIN Coming' :
              (\E j \in DOMAIN Coming : Coming'[i] = Coming[j])
                 \/ \E j \in DOMAIN incomingManifest : Coming'[i] = incomingManifest[j]
  <1> DEFINE n == Len(Coming)
             m == Len(incomingManifest)
  <1>1. n \in Nat /\ m \in Nat /\ DOMAIN Coming = 1 .. n /\ DOMAIN incomingManifest = 1 .. m
    OBVIOUS
  <1>2. DOMAIN Coming' = 1 .. n + m
    OBVIOUS
  <1>3. \A i \in 1 .. n : Coming'[i] = Coming[i]
    OBVIOUS
  <1>4. \A i \in 1 .. m : Coming'[i + n] = incomingManifest[i]
    OBVIOUS
  <1> HIDE DEF n, m
  <1> SUFFICES ASSUME NEW i \in DOMAIN Coming'
               PROVE  (\E j \in DOMAIN Coming : Coming'[i] = Coming[j])
                         \/ \E j \in DOMAIN incomingManifest : Coming'[i] = incomingManifest[j]
    OBVIOUS
  <1>5. CASE i \in 1 .. n
    BY <1>1, <1>3, <1>5
  <1>6. CASE i \notin 1 .. n
    <2>1. i - n \in 1 .. m /\ i = (i - n) + n
      BY <1>1, <1>2, <1>6
    <2>2. Coming'[i] = incomingManifest[i - n]
      BY <1>4, <2>1
    <2> QED
      BY <1>1, <2>1, <2>2
  <1> QED
    BY <1>5, <1>6

LEMMA FramesTakenIs ==
    ASSUME Inv, readyFrames = <<>>, FramesTaken,
           UNCHANGED <<connVars, serverVars, manifestDone, remoteFiles, activeDownloads, activeBatches>>
    PROVE  /\ NetInv' /\ ManifestInv' /\ readyFrames' \in Seq(Frames) /\ Requests' = Requests
           /\ \A i \in DOMAIN Coming' : Coming'[i].type = "HashResponse" => Coming'[i].rel \in hashRequested
           /\ \A f \in File : Fetching(Requests', Coming', activeDownloads', activeBatches', f)
                                 = Fetching(Requests, Coming, activeDownloads, activeBatches, f)
  <1> USE InvParts
  <1>1. /\ Coming = incomingPriority /\ Coming' = Coming \o incomingManifest
        /\ incomingManifest \in Seq(Frames) /\ Queue \in Seq(Frames)
        /\ \A i \in DOMAIN incomingManifest :
              ~OnStream(incomingManifest[i]) /\ incomingManifest[i].type \notin {"FileBatchOpen", "HashResponse"}
    BY QueueTaken
  <1>2. UNCHANGED <<empty, asked, healthy, nextStreamId>> /\ Requests' = Requests
    BY DEF connVars, serverVars, Requests
  <1>3. NetInv'
    <2>1. Net(empty, Requests, Coming \o incomingManifest, activeDownloads, activeBatches, healthy, nextStreamId)
      BY <1>1, NetOther
    <2> QED
      BY <1>1, <1>2, <2>1 DEF NetInv
  <1>4. ManifestInv'
    BY ManifestQueued DEF FramesTaken, Queue, serverVars
  <1>5. \A i \in DOMAIN Coming' : Coming'[i].type = "HashResponse" => Coming'[i].rel \in hashRequested
    <2>1. \A i \in DOMAIN Coming' :
             (\E j \in DOMAIN Coming : Coming'[i] = Coming[j])
                \/ \E j \in DOMAIN incomingManifest : Coming'[i] = incomingManifest[j]
      BY <1>1, ComingFrom
    <2>2. \A i \in DOMAIN Coming : Coming[i].type = "HashResponse" => Coming[i].rel \in hashRequested
      BY DEF HashInv
    <2> QED
      BY <1>1, <2>1, <2>2
  <1>6. \A f : Fetching(Requests, Coming \o incomingManifest, activeDownloads, activeBatches, f)
                  = Fetching(Requests, Coming, activeDownloads, activeBatches, f)
    <2>1. ToSet(Coming \o incomingManifest) = ToSet(Coming) \cup ToSet(incomingManifest)
      BY <1>1, SetConcat
    <2>2. \A m \in ToSet(incomingManifest) : m.type # "FileBatchOpen"
      BY <1>1 DEF ToSet
    <2>3. \A m : m.type = "FileBatchOpen" /\ Key(m) \in DOMAIN activeBatches =>
                    (m \in Requests \cup ToSet(Coming) <=> m \in Requests \cup ToSet(Coming \o incomingManifest))
      BY <2>1, <2>2
    <2> QED
      BY <2>3, FetchSame
  <1> QED
    BY <1>1, <1>2, <1>3, <1>4, <1>5, <1>6 DEF FramesTaken

LEMMA GoesOnStep ==
    ASSUME Inv, GoesOn
    PROVE  Inv'
  <1> USE InvParts
  <1>1. /\ pc = "test" /\ Sweep
        /\ UNCHANGED <<connVars, serverVars, manifestDone, remoteFiles, comparing>>
        /\ UNCHANGED <<pendingHash, hashRequested, hashSent, hashReceived, localHash>>
        /\ UNCHANGED <<activeDownloads, activeBatches>>
    BY DEF GoesOn
  <1>2. readyFrames = <<>> /\ result = "running"
    BY <1>1 DEF LoopType, GoesOn
  <1>3. /\ result' \in {"running", "incomplete"} /\ (pc' = "process" <=> readyFrames' # <<>>)
        /\ UNCHANGED frameVars \/ FramesTaken
    <2>1. CASE ~TakesFrames
      <3>1. pc' = "scan" /\ UNCHANGED <<frameVars, result>>
        BY <2>1 DEF GoesOn
      <3> QED
        BY <1>2, <3>1 DEF frameVars
    <2>2. CASE TakesFrames
      <3>1. /\ readyFrames' = Queue /\ incomingPriority' = <<>> /\ incomingManifest' = <<>>
            /\ IF Queue # <<>> THEN pc' = "process" /\ UNCHANGED result
               ELSE IF comparing = <<>> /\ recvClosed THEN pc' = "exit" /\ result' = "incomplete"
               ELSE pc' = "scan" /\ UNCHANGED result
            /\ UNCHANGED manifestBatch
        BY <2>2 DEF GoesOn, Queue
      <3> HIDE DEF Queue
      <3> QED
        BY <1>2, <3>1 DEF FramesTaken
    <2> QED
      BY <2>1, <2>2
  <1>4. Resolves(hashRequested, work, work') /\ fallbackReady' \in Seq(hashRequested)
    BY <1>1, SweepIs
  <1>5. work' \in Work /\ SameIo(work, work')
    BY <1>4 DEF Resolves
  <1>6. /\ NetInv' /\ ManifestInv' /\ readyFrames' \in Seq(Frames) /\ Requests' = Requests
        /\ \A i \in DOMAIN Coming' : Coming'[i].type = "HashResponse" => Coming'[i].rel \in hashRequested
        /\ \A f \in File : Fetching(Requests', Coming', activeDownloads', activeBatches', f)
                              = Fetching(Requests, Coming, activeDownloads, activeBatches, f)
    <2>1. CASE UNCHANGED frameVars
      <3>1. Coming' = Coming /\ Requests' = Requests /\ UNCHANGED <<readyFrames, manifestBatch, incomingManifest>>
        BY <1>1, <2>1 DEF Coming, Requests, frameVars, serverVars
      <3>2. NetInv'
        BY <1>1, <3>1, NetKept DEF connVars, serverVars, Shrinks, LaneType
      <3>3. ManifestInv'
        BY <1>1, <3>1, ManifestKept DEF serverVars
      <3>4. \A i \in DOMAIN Coming : Coming[i].type = "HashResponse" => Coming[i].rel \in hashRequested
        BY DEF HashInv
      <3> QED
        BY <1>1, <3>1, <3>2, <3>3, <3>4
    <2>2. CASE FramesTaken
      BY <1>1, <1>2, <2>2, FramesTakenIs
    <2> QED
      BY <1>3, <2>1, <2>2
  <1>7. LaneType'
    BY <1>1 DEF LaneType, connVars
  <1>8. LoopType'
    <2>1. manifestBatch' \in Seq(EntryFrame) /\ incomingManifest' \in Seq(EntryFrame \cup EndFrame)
          /\ incomingPriority' \in Seq(PlainFrame \cup Header \cup HashAnswer)
      <3>1. CASE UNCHANGED frameVars
        BY <3>1 DEF LoopType, frameVars
      <3>2. CASE FramesTaken
        BY <3>2 DEF LoopType, FramesTaken
      <3> QED
        BY <1>3, <3>1, <3>2
    <2> QED
      BY <1>1, <1>3, <1>5, <1>6, <2>1 DEF LoopType, serverVars
  <1>9. LanesExact'
    BY <1>1, LanesKept DEF connVars, Shrinks
  <1>10. HashInv'
    <2>1. work'.resolved \subseteq hashRequested
      BY <1>4 DEF Resolves
    <2>2. work'.scheduled \subseteq remoteFiles \ (DOMAIN comparing \cup (hashRequested \ work'.resolved))
      BY <1>4 DEF Resolves, HashInv
    <2>3. asked' = asked
      BY <1>1 DEF serverVars
    <2> QED
      BY <1>1, <1>4, <1>6, <2>1, <2>2, <2>3 DEF HashInv
  <1>11. PlaceInv'
    <2>1. PlaceType' /\ IoBal(work')
      BY <1>5, <1>6, <1>8, IoBalSame DEF PlaceType
    <2>2. \A f \in File : Stage(f)' + Held(work', f) = Stage(f) + Held(work, f)
      BY <1>1, <1>4, ResolvedStage
    <2> QED
      BY <1>6, <2>1, <2>2, PlaceSame
  <1>12. result' # "complete"
    BY <1>3
  <1> QED
    BY <1>6, <1>7, <1>8, <1>9, <1>10, <1>11, <1>12, InvNext

-----------------------------------------------------------------------------
(* failoverScan.                                                           *)

DeadLanes == {l \in Lane : ~healthy[l] /\ ~drained[l]}
DeadKeys == {k \in Lane \X Nat : k[1] \in DeadLanes}
DeadFiles == {k \in DOMAIN activeDownloads : k[1] \in DeadLanes}
DeadBatches == {k \in DOMAIN activeBatches : k[1] \in DeadLanes}
LostSingles(f) == {k \in DOMAIN activeDownloads : activeDownloads[k] = f} \cap DeadKeys
LostBatches(f) == {k \in DOMAIN activeBatches : f \in ToSet(activeBatches[k].waiting)} \cap DeadKeys

LEMMA DeadIs ==
    ASSUME Inv
    PROVE  /\ IsFiniteSet(DeadFiles) /\ IsFiniteSet(DeadBatches)
           /\ Without(activeDownloads, DeadFiles) = Without(activeDownloads, DeadKeys)
           /\ Without(activeBatches, DeadBatches) = Without(activeBatches, DeadKeys)
           /\ \A k \in DeadFiles : activeDownloads[k] \in File
           /\ \A k \in DeadBatches : activeBatches[k].waiting \in Seq(File) /\ Once(activeBatches[k].waiting)
           /\ \A f : LostSingles(f) = {k \in DeadFiles : activeDownloads[k] = f}
           /\ \A f : LostBatches(f) = {k \in DeadBatches : f \in ToSet(activeBatches[k].waiting)}
           /\ \A l \in DeadLanes : ~healthy[l]
  <1> USE InvParts
  <1>1. /\ DOMAIN activeDownloads \subseteq Lane \X Nat /\ DOMAIN activeBatches \subseteq Lane \X Nat
        /\ IsFiniteSet(DOMAIN activeDownloads) /\ IsFiniteSet(DOMAIN activeBatches)
    BY DEF NetType
  <1>2. IsFiniteSet(DeadFiles) /\ IsFiniteSet(DeadBatches)
    BY <1>1, FS_Subset DEF DeadFiles, DeadBatches
  <1>3. /\ DOMAIN activeDownloads \ DeadFiles = DOMAIN activeDownloads \ DeadKeys
        /\ DOMAIN activeBatches \ DeadBatches = DOMAIN activeBatches \ DeadKeys
    BY <1>1 DEF DeadFiles, DeadBatches, DeadKeys
  <1>4. /\ Without(activeDownloads, DeadFiles) = Without(activeDownloads, DeadKeys)
        /\ Without(activeBatches, DeadBatches) = Without(activeBatches, DeadKeys)
    BY <1>3 DEF Without
  <1>5. \A k \in DeadFiles : activeDownloads[k] \in File
    BY DEF DeadFiles, NetType
  <1>6. \A k \in DeadBatches : activeBatches[k].waiting \in Seq(File) /\ Once(activeBatches[k].waiting)
    <2>1. \A k \in DOMAIN activeBatches : activeBatches[k].waiting \in Seq(Small) /\ Once(activeBatches[k].waiting)
      BY DEF NetType, Batch
    <2> QED
      BY <2>1, SmallSeq DEF DeadBatches
  <1>7. \A f : LostSingles(f) = {k \in DeadFiles : activeDownloads[k] = f}
    BY <1>1 DEF LostSingles, DeadFiles, DeadKeys
  <1>8. \A f : LostBatches(f) = {k \in DeadBatches : f \in ToSet(activeBatches[k].waiting)}
    BY <1>1 DEF LostBatches, DeadBatches, DeadKeys
  <1>9. \A l \in DeadLanes : ~healthy[l]
    BY DEF DeadLanes
  <1> QED
    BY <1>2, <1>4, <1>5, <1>6, <1>7, <1>8, <1>9

\* What is queued again is what the dead lanes were fetching.
LEMMA RequeuedIs ==
    ASSUME Inv, NEW fs \in SetToSeqs(DeadFiles), NEW bs \in SetToSeqs(DeadBatches)
    PROVE  /\ Requeued(fs, bs) \in Seq(File)
           /\ \A f : Occurrences(f, Requeued(fs, bs)) = Cardinality(LostSingles(f)) + Cardinality(LostBatches(f))
  <1>1. /\ IsFiniteSet(DeadFiles) /\ IsFiniteSet(DeadBatches)
        /\ \A k \in DeadFiles : activeDownloads[k] \in File
        /\ \A k \in DeadBatches : activeBatches[k].waiting \in Seq(File) /\ Once(activeBatches[k].waiting)
        /\ \A f : LostSingles(f) = {k \in DeadFiles : activeDownloads[k] = f}
        /\ \A f : LostBatches(f) = {k \in DeadBatches : f \in ToSet(activeBatches[k].waiting)}
    BY DeadIs
  <1>2. fs \in Seq(DeadFiles)
    BY <1>1, SeqsOf
  <1>3. bs \in Seq(DeadBatches)
    BY <1>1, SeqsOf
  <1> DEFINE s == [i \in DOMAIN fs |-> activeDownloads[fs[i]]]
             seqs == [i \in DOMAIN bs |-> activeBatches[bs[i]].waiting]
  <1>4. s \in Seq(File)
    <2>1. s = [i \in 1 .. Len(fs) |-> activeDownloads[fs[i]]] /\ Len(fs) \in Nat
      BY <1>2
    <2>2. \A i \in 1 .. Len(fs) : activeDownloads[fs[i]] \in File
      BY <1>1, <1>2
    <2> QED
      BY <2>1, <2>2
  <1>5. seqs \in Seq(Seq(File)) /\ DOMAIN seqs = DOMAIN bs
    <2>1. seqs = [i \in 1 .. Len(bs) |-> activeBatches[bs[i]].waiting] /\ Len(bs) \in Nat
      BY <1>3
    <2>2. \A i \in 1 .. Len(bs) : activeBatches[bs[i]].waiting \in Seq(File)
      BY <1>1, <1>3
    <2> QED
      BY <2>1, <2>2
  <1>6. \A i \in DOMAIN seqs : Once(seqs[i])
    BY <1>1, <1>3
  <1>7. FlattenSeq(seqs) \in Seq(File)
        /\ \A x : Occurrences(x, FlattenSeq(seqs)) = Cardinality({i \in DOMAIN seqs : x \in ToSet(seqs[i])})
    <2> HIDE DEF seqs
    <2> QED
      BY <1>5, <1>6, FlattenIs
  <1>8. ASSUME NEW f
        PROVE  Occurrences(f, s) = Cardinality(LostSingles(f))
    <2> DEFINE T == {k \in DeadFiles : activeDownloads[k] = f}
    <2>1. {i \in DOMAIN s : s[i] = f} = {i \in DOMAIN fs : fs[i] \in T}
      BY <1>2
    <2>2. T \in SUBSET DeadFiles
      OBVIOUS
    <2>4. LostSingles(f) = T
      BY <1>1
    <2> HIDE DEF T, s
    <2>3. Cardinality({i \in DOMAIN fs : fs[i] \in T}) = Cardinality(T)
      BY <1>1, <2>2, CountIn
    <2> QED
      BY <2>1, <2>3, <2>4 DEF Occurrences
  <1>9. ASSUME NEW f
        PROVE  Occurrences(f, FlattenSeq(seqs)) = Cardinality(LostBatches(f))
    <2> DEFINE T == {k \in DeadBatches : f \in ToSet(activeBatches[k].waiting)}
    <2>1. {i \in DOMAIN seqs : f \in ToSet(seqs[i])} = {i \in DOMAIN bs : bs[i] \in T}
      BY <1>3
    <2>2. T \in SUBSET DeadBatches
      OBVIOUS
    <2>4. LostBatches(f) = T
      BY <1>1
    <2> HIDE DEF T, seqs
    <2>3. Cardinality({i \in DOMAIN bs : bs[i] \in T}) = Cardinality(T)
      BY <1>1, <2>2, CountIn
    <2> QED
      BY <1>7, <2>1, <2>3, <2>4
  <1>10. Requeued(fs, bs) = s \o FlattenSeq(seqs)
    BY DEF Requeued
  <1> DEFINE t == FlattenSeq(seqs)
  <1>11. t \in Seq(File)
    BY <1>7
  <1>12. \A f : Occurrences(f, s) = Cardinality(LostSingles(f)) /\ Occurrences(f, t) = Cardinality(LostBatches(f))
    BY <1>8, <1>9
  <1> HIDE DEF s, t
  <1>13. s \o t \in Seq(File)
    BY <1>4, <1>11
  <1>14. \A f : Occurrences(f, s \o t) = Occurrences(f, s) + Occurrences(f, t)
    BY <1>4, <1>11, OccConcat
  <1> QED
    BY <1>10, <1>12, <1>13, <1>14 DEF t

\* A lane that is drained has no stream left.
LEMMA DrainsNow ==
    ASSUME Exact(DOMAIN activeDownloads \cup DOMAIN activeBatches, healthy, drained, inFlight),
           inFlight \in [Lane -> Nat], healthy' = healthy,
           activeDownloads' = Without(activeDownloads, DeadFiles),
           activeBatches' = Without(activeBatches, DeadBatches),
           inFlight' = [l \in Lane |-> IF l \in DeadLanes THEN 0 ELSE inFlight[l]],
           drained' = [l \in Lane |-> drained[l] \/ l \in DeadLanes]
    PROVE  Exact(DOMAIN activeDownloads' \cup DOMAIN activeBatches', healthy', drained', inFlight')
  <1> DEFINE D == DOMAIN activeDownloads \cup DOMAIN activeBatches
             C == DOMAIN activeDownloads' \cup DOMAIN activeBatches'
             gl == inFlight'
             er == drained'
             dead == DeadLanes
  <1>1. \A l \in Lane : StreamsOn(C, l) = IF l \in dead THEN {} ELSE StreamsOn(D, l)
    BY DEF Without, Restrict, DeadFiles, DeadBatches, StreamsOn
  <1>2. \A l \in Lane : er[l] <=> drained[l] \/ l \in dead
    OBVIOUS
  <1>3. \A l \in Lane : gl[l] = IF l \in dead THEN 0 ELSE inFlight[l]
    OBVIOUS
  <1>4. \A l \in dead : ~healthy[l]
    BY DEF DeadLanes
  <1>5. Exact(D, healthy, drained, inFlight) /\ inFlight \in [Lane -> Nat]
    OBVIOUS
  <1> HIDE DEF D, C, gl, er, dead
  <1>6. Exact(C, healthy, er, gl)
    BY ONLY <1>1, <1>2, <1>3, <1>4, <1>5, ExactDrains
  <1> QED
    BY <1>6 DEF C, gl, er

LEMMA FailoverScanStep ==
    ASSUME Inv, FailoverScan
    PROVE  Inv'
  <1> USE InvParts
  <1>1. /\ pc = "scan" /\ pc' = "resolve" /\ result = "running"
        /\ \E fs \in SetToSeqs(DeadFiles), bs \in SetToSeqs(DeadBatches) : work' = RetryAll(work, Requeued(fs, bs))
        /\ activeDownloads' = Without(activeDownloads, DeadFiles)
        /\ activeBatches' = Without(activeBatches, DeadBatches)
        /\ inFlight' = [l \in Lane |-> IF l \in DeadLanes THEN 0 ELSE inFlight[l]]
        /\ drained' = [l \in Lane |-> drained[l] \/ l \in DeadLanes]
        /\ UNCHANGED <<healthy, recving, nextStreamId, serverVars, frameVars>>
        /\ UNCHANGED <<manifestDone, remoteFiles, result, comparing, hashVars>>
    BY DEF FailoverScan, Main, DeadLanes, DeadFiles, DeadBatches
  <1>2. /\ activeDownloads' = Without(activeDownloads, DeadKeys) /\ activeBatches' = Without(activeBatches, DeadKeys)
        /\ \A l \in DeadLanes : ~healthy[l]
    BY <1>1, DeadIs
  <1>3. /\ work' \in Work /\ SameIo(work, work') /\ SameHash(work, work')
        /\ \A f \in File : Held(work', f) = Held(work, f) + (Cardinality(LostSingles(f)) + Cardinality(LostBatches(f)))
    <2>1. PICK fs \in SetToSeqs(DeadFiles), bs \in SetToSeqs(DeadBatches) : work' = RetryAll(work, Requeued(fs, bs))
      BY <1>1
    <2> DEFINE rs == Requeued(fs, bs)
    <2>2. rs \in Seq(File) /\ \A f : Occurrences(f, rs) = Cardinality(LostSingles(f)) + Cardinality(LostBatches(f))
      BY RequeuedIs
    <2>3. work' = RetryAll(work, rs)
      BY <2>1
    <2> HIDE DEF rs
    <2>4. /\ work' \in Work /\ SameIo(work, work') /\ SameHash(work, work')
          /\ \A f \in File : Held(work', f) = Held(work, f) + Occurrences(f, rs)
      BY <2>2, <2>3, RetryAllIs
    <2> QED
      BY <2>2, <2>4
  <1>4. Coming' = Coming /\ UNCHANGED <<empty, asked>>
    BY <1>1 DEF Coming, frameVars, serverVars
  <1>5. HashQuiet /\ Requests' = Requests
    BY <1>4, QuietSame
  <1>6. LaneType'
    <2>1. inFlight \in [Lane -> Nat] /\ drained \in [Lane -> BOOLEAN]
      BY DEF LaneType
    <2>2. inFlight' \in [Lane -> Nat] /\ drained' \in [Lane -> BOOLEAN]
      BY <1>1, <2>1
    <2> QED
      BY <1>1, <2>2 DEF LaneType
  <1>7. LoopType'
    BY <1>1, <1>3 DEF LoopType, frameVars, serverVars
  <1>8. NetInv'
    <2>1. \A r \in Requests : Key(r) \in DeadKeys => ~healthy[r.lane]
      BY <1>2, RequestIs DEF DeadKeys
    <2>2. \A i \in DOMAIN Coming : OnStream(Coming[i]) /\ Key(Coming[i]) \in DeadKeys => ~healthy[Coming[i].lane]
      BY <1>2, FrameIs DEF DeadKeys
    <2>3. Net(empty, Requests, Coming, Without(activeDownloads, DeadKeys), Without(activeBatches, DeadKeys),
              healthy, nextStreamId)
      BY <2>1, <2>2, NetForgets
    <2> QED
      BY <1>1, <1>2, <1>4, <1>5, <2>3 DEF NetInv
  <1>9. LanesExact'
    <2>1. Exact(DOMAIN activeDownloads \cup DOMAIN activeBatches, healthy, drained, inFlight)
      BY LanesExactIs
    <2>2. inFlight \in [Lane -> Nat]
      BY DEF LaneType
    <2> QED
      BY <1>1, <1>2, <2>1, <2>2, DrainsNow, LanesExactIs
  <1>10. ManifestInv'
    BY <1>1, ManifestKept DEF frameVars, serverVars
  <1>11. HashInv'
    BY <1>1, <1>3, <1>5, HashKept
  <1>12. StageSame
    BY <1>1, <1>3 DEF StageSame, hashVars, SameHash
  <1>13. PlaceInv'
    <2>1. PlaceType' /\ IoBal(work')
      BY <1>3, <1>7, <1>8, IoBalSame DEF PlaceType
    <2>2. ASSUME NEW f \in File
          PROVE  Load(f)' <= Load(f) /\ (f \notin Small => Load(f) <= Load(f)')
      <3> DEFINE F == Fetching(Requests, Coming, activeDownloads, activeBatches, f)
                 G == Fetching(Requests', Coming', activeDownloads', activeBatches', f)
                 lost == Cardinality(LostSingles(f)) + Cardinality(LostBatches(f))
      <3>1. G + lost <= F /\ (f \notin Small => G + lost = F)
        <4>1. LET gone == Cardinality(LostSingles(f)) + Cardinality(LostBatches(f))
                  rest == Fetching(Requests, Coming, Without(activeDownloads, DeadKeys), Without(activeBatches, DeadKeys), f)
                  all == Fetching(Requests, Coming, activeDownloads, activeBatches, f)
              IN  rest + gone <= all /\ (f \notin Small => rest + gone = all)
          <5> HIDE DEF F, G, lost
          <5> QED
            BY FetchForgets DEF LostSingles, LostBatches
        <4> QED
          BY <1>2, <1>4, <1>5, <4>1
      <3>2. Held(work', f) = Held(work, f) + lost
        BY <1>3
      <3>3. lost \in Nat
        <4>1. IsFiniteSet(LostSingles(f)) /\ IsFiniteSet(LostBatches(f))
          <5>1. IsFiniteSet(DOMAIN activeDownloads) /\ IsFiniteSet(DOMAIN activeBatches)
            BY DEF NetType
          <5>2. LostSingles(f) \subseteq DOMAIN activeDownloads /\ LostBatches(f) \subseteq DOMAIN activeBatches
            BY DEF LostSingles, LostBatches
          <5> QED
            BY <5>1, <5>2, FS_Subset
        <4>2. Cardinality(LostSingles(f)) \in Nat
          BY <4>1, FS_CardinalityType
        <4>3. Cardinality(LostBatches(f)) \in Nat
          BY <4>1, FS_CardinalityType
        <4> QED
          BY <4>2, <4>3
      <3>4. Stage(f)' = Stage(f)
        BY <1>12, StageKept
      <3>5. Stage(f) \in Nat /\ Held(work, f) \in Nat /\ F \in Nat
        BY Alone
      <3>6. G \in Nat
        <4>1. NetType(Requests', Coming', activeDownloads', activeBatches')
          BY <1>8 DEF NetInv, Net
        <4> QED
          BY <4>1, HeadersFinite
      <3>7. Load(f) = Stage(f) + Held(work, f) + F /\ Load(f)' = Stage(f)' + Held(work', f) + G
        BY DEF Load
      <3> HIDE DEF F, G, lost, Load
      <3> QED
        BY <3>1, <3>2, <3>3, <3>4, <3>5, <3>6, <3>7
    <2> QED
      BY <2>1, <2>2, PlaceKeeps
  <1> QED
    BY <1>1, <1>6, <1>7, <1>8, <1>9, <1>10, <1>11, <1>13, InvNext

-----------------------------------------------------------------------------
(* The invariant.                                                          *)

LEMMA NewWorkIs ==
    NewWork \in Work /\ IoBal(NewWork) /\ \A f \in File : Held(NewWork, f) = 0
  <1> DEFINE w == NewWork
  <1>1. /\ w.pendingBatch = <<>> /\ w.pending = <<>> /\ w.retryBatch = <<>> /\ w.retry = <<>>
        /\ w.scheduled = {} /\ w.retries = [f \in File |-> 0] /\ w.resolved = {}
        /\ w.ioTasks = {} /\ w.ioResults = {} /\ w.ioOutstanding = 0
        /\ w.verdicts = [f \in File |-> <<>>] /\ w.failed = 0
    BY DEF NewWork
  <1>2. NewWork \in Work
    BY DEF NewWork, Work
  <1>3. Cardinality({}) = 0
    BY FS_EmptySet
  <1>4. IoBal(w)
    BY <1>1, <1>3 DEF IoBal
  <1>5. ASSUME NEW f \in File
        PROVE  Held(w, f) = 0
    <2>1. Queued(w, f) = 0
      BY <1>1, OccEmpty DEF Queued
    <2>2. Results(w, f) = 0
      <3>1. {r \in w.ioResults : r[1] = f} = {}
        BY <1>1
      <3> QED
        BY <1>3, <3>1 DEF Results
    <2>3. Counted(w, f) = 0
      BY <1>1 DEF Counted
    <2>4. In(f, w.ioTasks) = 0
      BY <1>1 DEF In
    <2> QED
      BY <2>1, <2>2, <2>3, <2>4 DEF Held
  <1> QED
    BY <1>2, <1>4, <1>5

LEMMA InitInv == Init => Inv
  <1> SUFFICES ASSUME Init
               PROVE  Inv
    OBVIOUS
  <1>1. LaneType
    BY DEF Init, LaneType
  <1>2. LoopType
    BY NewWorkIs DEF Init, LoopType
  <1>3. /\ Requests = {} /\ Coming = <<>> /\ IsFiniteSet({}) /\ Cardinality({}) = 0
        /\ DOMAIN activeDownloads = {} /\ DOMAIN activeBatches = {} /\ activeDownloads = <<>> /\ activeBatches = <<>>
    BY FS_EmptySet DEF Init, Requests, Coming
  <1>4. NetInv
    <2>1. NetType(Requests, Coming, activeDownloads, activeBatches)
      BY <1>3 DEF NetType
    <2>2. IdsFresh(Requests, Coming, activeDownloads, activeBatches, nextStreamId)
      BY <1>3 DEF IdsFresh
    <2>3. AnswersKnown(Requests, Coming, activeDownloads, activeBatches, healthy)
      BY <1>3 DEF AnswersKnown
    <2>4. Grammar(Requests, Coming) /\ HeaderFirst(Requests, Coming, activeBatches)
      BY <1>3 DEF Grammar, HeaderFirst
    <2>5. ChunksFit(empty, Requests, Coming, activeBatches)
      BY <1>3 DEF ChunksFit
    <2> QED
      BY <2>1, <2>2, <2>3, <2>4, <2>5 DEF NetInv, Net
  <1>5. LanesExact
    <2>1. \A l : Streams(l) = {}
      BY <1>3 DEF Streams
    <2>2. StreamLimit \in Nat
      BY ClientAssumption
    <2>3. \A l \in Lane : inFlight[l] = 0 /\ drained[l] = FALSE
      BY DEF Init
    <2>4. \A l \in Lane : Cardinality(Streams(l)) = 0
      BY <2>1, FS_EmptySet
    <2>5. \A l \in Lane : inFlight[l] = Cardinality(Streams(l)) /\ inFlight[l] <= StreamLimit
      BY <2>2, <2>3, <2>4
    <2> QED
      BY <2>3, <2>5 DEF LanesExact
  <1>6. ManifestInv
    <2>1. ASSUME NEW f \in File
          PROVE  /\ In(f, toList) = 1 /\ In(f, remoteFiles) = 0
                 /\ Occurrences(Entry(f), manifestBatch) = 0 /\ Occurrences(Entry(f), incomingManifest) = 0
                 /\ Occurrences(Entry(f), readyFrames) = 0
      BY OccEmpty DEF Init, In
    <2>2. ListedOnce
      BY <2>1 DEF ListedOnce
    <2>3. EndLast
      BY DEF Init, EndLast
    <2> QED
      BY <2>2, <2>3 DEF ManifestInv
  <1>7. HashInv
    <2>1. HashWindow \in Nat /\ 0 - 0 <= HashWindow
      BY ClientAssumption
    <2>2. work.resolved = {} /\ work.scheduled = {}
      BY DEF Init, NewWork
    <2>3. hashSent = 0 /\ hashReceived = 0 /\ asked = {} /\ IsFiniteSet(asked)
      BY <1>3 DEF Init
    <2> QED
      BY <1>3, <2>1, <2>2, <2>3 DEF Init, HashInv
  <1>8. PlaceInv
    <2>1. PlaceType
      BY <1>2, <1>4 DEF PlaceType
    <2>2. ASSUME NEW f \in File
          PROVE  Places(f) = 1
      <3>1. Stage(f) = 1
        BY <1>3 DEF Init, NewWork, Stage, In
      <3>2. Held(work, f) = 0
        BY NewWorkIs DEF Init
      <3>3. Fetching(Requests, Coming, activeDownloads, activeBatches, f) = 0
        <4>1. Headers(Requests, Coming, activeBatches, f) = {}
          BY <1>3 DEF Headers
        <4>2. {k \in DOMAIN activeDownloads : activeDownloads[k] = f} = {}
          BY <1>3
        <4>3. {k \in DOMAIN activeBatches : f \in ToSet(activeBatches[k].waiting)} = {}
          BY <1>3
        <4>4. Headerless(Requests, Coming, activeBatches, f) = 0
          BY <1>3, <4>1 DEF Headerless
        <4>5. Singles(activeDownloads, f) = 0
          BY <1>3, <4>2 DEF Singles
        <4>6. Waits(activeBatches, f) = 0
          BY <1>3, <4>3 DEF Waits
        <4> QED
          BY <4>4, <4>5, <4>6 DEF Fetching
      <3> QED
        BY <2>1, <3>1, <3>2, <3>3, PlacesIs
    <2>3. IoBal(work)
      BY NewWorkIs DEF Init
    <2> QED
      BY <2>2, <2>3 DEF PlaceInv, IoBal
  <1>9. CompleteHasFullView
    BY DEF Init, CompleteHasFullView
  <1> QED
    BY <1>1, <1>2, <1>4, <1>5, <1>6, <1>7, <1>8, <1>9 DEF Inv

LEMMA StaysInv ==
    ASSUME Inv, UNCHANGED vars
    PROVE  Inv'
  <1> USE DEF vars, connVars, serverVars, frameVars, mainVars, hashVars
  <1>1. LaneType' /\ LoopType'
    BY DEF Inv, LaneType, LoopType
  <1>2. Requests' = Requests /\ Coming' = Coming
    BY DEF Requests, Coming
  <1>3. NetInv'
    BY <1>2 DEF Inv, NetInv
  <1>4. LanesExact'
    BY DEF Inv, LanesExact, Streams
  <1>5. ManifestInv'
    BY DEF Inv, ManifestInv, ListedOnce, EndLast
  <1>6. HashInv'
    BY <1>2 DEF Inv, HashInv
  <1>7. PlaceInv'
    <2>1. \A f : Places(f)' = Places(f)
      BY DEF Places, HeaderlessBatches
    <2> QED
      BY <2>1 DEF Inv, PlaceInv
  <1>8. CompleteHasFullView'
    BY DEF Inv, CompleteHasFullView
  <1> QED
    BY <1>1, <1>3, <1>4, <1>5, <1>6, <1>7, <1>8 DEF Inv

LEMMA ServerInv ==
    ASSUME Inv, Running, Server
    PROVE  Inv'
  <1>1. CASE (\E f \in File : ServerLists(f)) \/ ServerEndsManifest
    BY <1>1, ManifestStep
  <1>2. ASSUME NEW r \in asked, ServerHashes(r) \/ ServerSendsFile(r) \/ ServerOpensBatch(r)
                                   \/ ServerSendsChunk(r) \/ ServerEndsBatch(r)
        PROVE  Inv'
    BY <1>2, ServerHashesStep, ServerSendsFileStep, ServerOpensBatchStep, ServerSendsChunkStep, ServerEndsBatchStep
  <1> QED
    BY <1>1, <1>2 DEF Server

LEMMA WorkersInv ==
    ASSUME Inv, Running, Workers
    PROVE  Inv'
  <1>1. PICK f \in File : CompareFinishes(f) \/ HashStarts(f) \/ HashFinishes(f) \/ WriteFinishes(f)
    BY DEF Workers
  <1> QED
    BY <1>1, CompareFinishesStep, HashWorkerStep, WriteFinishesStep

LEMMA MainLoopInv ==
    ASSUME Inv, MainLoop
    PROVE  Inv'
  <1>1. CASE FailoverScan \/ Resolve \/ DrainResults \/ Leaves \/ GoesOn
    BY <1>1, FailoverScanStep, ResolveStep, DrainResultsStep, LeavesStep, GoesOnStep
  <1>2. CASE StartBatch \/ StartBatchFails \/ StartRegular \/ OpenFileFails \/ StartsDone
    BY <1>2, StartBatchStep, StartBatchFailsStep, StartRegularStep, OpenFileFailsStep, StartsDoneStep
  <1>3. CASE OnManifestEntry \/ OnManifestEnd \/ OnHashResponse
    BY <1>3, OnManifestEntryStep, OnManifestEndStep, OnHashResponseStep
  <1>4. CASE OnFileBatchOpen \/ OnFileBatchChunk \/ OnFileBatchEnd \/ OnFileEnd \/ OnFileError
    BY <1>4, OnFileBatchOpenStep, OnFileBatchChunkStep, OnFileBatchEndStep, OnFileEndStep, OnFileErrorStep
  <1> QED
    BY <1>1, <1>2, <1>3, <1>4 DEF MainLoop

LEMMA StepInv ==
    ASSUME Inv, [Next]_vars
    PROVE  Inv'
  <1>1. CASE MainLoop
    BY <1>1, MainLoopInv
  <1>2. CASE Running /\ Server
    BY <1>2, ServerInv
  <1>3. CASE Running /\ Workers
    BY <1>3, WorkersInv
  <1>4. CASE Running /\ \E l \in Lane : LaneDies(l)
    BY <1>4, LaneDiesStep
  <1>5. CASE UNCHANGED vars
    BY <1>5, StaysInv
  <1> QED
    BY <1>1, <1>2, <1>3, <1>4, <1>5 DEF Next

LEMMA SpecInv == Spec => []Inv
  <1>1. Inv /\ [Next]_vars => Inv'
    BY StepInv
  <1> QED
    BY InitInv, <1>1, PTL DEF Spec

\* A file is in at most one place of the client: whatever lanes fail, and whichever
\* retries, duplicate sweeps and late answers there are, it is never queued or fetched
\* twice at a time, written by two workers or counted twice.
THEOREM ClientNeverInTwoPlaces == Spec => []NeverInTwoPlaces
  <1>1. Inv => NeverInTwoPlaces
    BY DEF Inv, PlaceInv, NeverInTwoPlaces
  <1> QED
    BY SpecInv, <1>1, PTL

\* A file that is fetched on a stream of its own is in some place of the client from the
\* moment it is listed until it is counted: failoverScan and the frame handlers drop none.
THEOREM ClientSingleFilesNeverLost == Spec => []SingleFilesNeverLost
  <1>1. Inv => SingleFilesNeverLost
    <2> SUFFICES ASSUME Inv, NEW f \in File \ Small
                 PROVE  Places(f) >= 1
      BY DEF SingleFilesNeverLost
    <2>1. Places(f) = 1
      BY DEF Inv, PlaceInv
    <2> QED
      BY <2>1
  <1> QED
    BY SpecInv, <1>1, PTL

\* The slot count of a healthy lane is the number of its streams, it stays within
\* activeStreamLimit, and a drained lane has neither slots nor streams.
THEOREM ClientLaneOccupancyExact == Spec => []LaneOccupancyExact
  <1>1. Inv => LaneOccupancyExact
    BY DEF Inv, LanesExact, LaneOccupancyExact
  <1> QED
    BY SpecInv, <1>1, PTL

\* The frames that arrive late on a failed lane, in whichever order, never make the main
\* loop end the session as a protocol desynchronisation.
THEOREM ClientNoFalseDesync == Spec => []NoFalseDesync
  <1>1. Inv => NoFalseDesync
    BY DEF Inv, LoopType, NoFalseDesync
  <1> QED
    BY SpecInv, <1>1, PTL

\* A session that ends complete, which is what permits deleting local extras, has seen the
\* whole listing and counted every file that has a stream of its own.
THEOREM ClientCompleteHasFullView == Spec => []CompleteHasFullView
  <1>1. Inv => CompleteHasFullView
    BY DEF Inv
  <1> QED
    BY SpecInv, <1>1, PTL

=============================================================================
