-------------------------------- MODULE Delta --------------------------------
(***************************************************************************)
(* Binary delta of one file: FastClone/delta.cpp, and its use by a plan     *)
(* worker of the client (buildDeltaPlanOffloaded, sync_engine_client.cpp).  *)
(*                                                                         *)
(* The server feeds the new file to a StreamingSigner in segments of any   *)
(* size; the client scans its old file through a SlidingWindow whose source *)
(* returns short reads and may fail, with a weak checksum that is rolled   *)
(* byte by byte, and writes each match to a temp file when it sees it.     *)
(*                                                                         *)
(* A byte is a small number.  Sizes are scaled: L stands for the block     *)
(* size, WeakMod for 2^16, Word for 2^64.  Offsets and block indices count *)
(* from 0 as in the code; sequences hold offset o at position o + 1.       *)
(* The bucket index only narrows the search for equal weak sums and is     *)
(* left out; so are the statistics.                                        *)
(***************************************************************************)
EXTENDS Integers, Sequences, FiniteSets, FiniteSetsExt, Functions

CONSTANTS
    Byte,                       \* contents of files
    MaxNew, MaxOld,             \* lengths of the two files
    L,                          \* ChooseBlockSize(fileSize)
    WeakMod, Word,              \* 2^16, 2^64
    Chunk,                      \* readAheadChunkBytes
    SliceLen,                   \* effectiveChunkSize * 8
    PrefixFloorBytes, PrefixFloorBlocks, PrefixPercent, PrefixCapBytes,
    EvalStride                  \* kEarlyStopEvalStride

ASSUME DeltaAssumption ==
    /\ Byte \subseteq Nat /\ IsFiniteSet(Byte) /\ 0 \in Byte
    /\ MaxNew \in Nat /\ MaxOld \in Nat
    /\ L \in Nat \ {0} /\ WeakMod \in Nat \ {0} /\ Word \in Nat \ {0}
    /\ Chunk \in Nat \ {0} /\ SliceLen \in Nat \ {0} /\ EvalStride \in Nat \ {0}
    /\ PrefixFloorBytes \in Nat /\ PrefixFloorBlocks \in Nat
    /\ PrefixPercent \in Nat /\ PrefixCapBytes \in Nat
    /\ MaxNew * 100 < Word      \* BenefitRejected multiplies without a check

VARIABLES
    newFile, oldFile,
    signer,                     \* StreamingSignerState
    sig,                        \* the blocks of the SignatureSet sent to the client
    scan,                       \* locals of BuildPlanStreaming
    win,                        \* SlidingWindow: buf, physBase; readErr of the source
    temp,                       \* bytes onCopy wrote to the temp file, by offset
    plan, stage

dvars == <<newFile, oldFile, signer, sig, scan, win, temp, plan, stage>>

-----------------------------------------------------------------------------
(* Checksums.                                                              *)

Sum(b) == MapThenSumSet(LAMBDA j : b[j], DOMAIN b)
WeightedSum(b, from) == MapThenSumSet(LAMBDA j : (from + j) * b[j], DOMAIN b)

WeakInit(b) == [s1 |-> Sum(b) % WeakMod, s2 |-> WeightedSum(b, 0) % WeakMod]

\* Mutant: s2 is updated with the new s1.
WeakRollNewS1(w, out, in) ==
    LET s1 == (w.s1 + in - out) % WeakMod
    IN  [s1 |-> s1, s2 |-> (w.s2 + L * in - s1) % WeakMod]

WeakRoll(w, out, in) ==
    [s1 |-> (w.s1 + in - out) % WeakMod, s2 |-> (w.s2 + L * in - w.s1) % WeakMod]

\* XXH3, truncated to strongLen bytes: taken to be free of collisions.
StrongHash(b) == b

BlockCount(size) == (size + L - 1) \div L
BlockLen(i, size) == Min({L, size - i * L})

\* GenerateSignatures: the whole file at once.
GenerateSignatures(f) ==
    [k \in 1 .. BlockCount(Len(f)) |->
        LET b == SubSeq(f, (k - 1) * L + 1, (k - 1) * L + BlockLen(k - 1, Len(f)))
        IN  [weak |-> WeakInit(b), strong |-> StrongHash(b)]]

-----------------------------------------------------------------------------
(* The early-stop test.                                                    *)

EarlyStopPrefixBytes(oldLen) ==
    LET floor == Max({PrefixFloorBytes, L * PrefixFloorBlocks})
        pct == (oldLen \div 100) * PrefixPercent + ((oldLen % 100) * PrefixPercent) \div 100
    IN  Min({PrefixCapBytes, Max({floor, pct})})

\* Full product of two words, as high and low word.
Mul64(a, b) == [hi |-> (a * b) \div Word, lo |-> (a * b) % Word]
LessEqual128(x, y) == x.hi < y.hi \/ (x.hi = y.hi /\ x.lo <= y.lo)

ProjectedRejected(matchedBytes, scannedBytes, oldLen, newFileBytes) ==
    /\ scannedBytes # 0
    /\ LessEqual128(Mul64(matchedBytes, (oldLen * 100) % Word),
                    Mul64(newFileBytes, (scannedBytes * 35) % Word))

BenefitRejected(downloadBytes, newFileBytes) ==
    (downloadBytes * 100) % Word >= (newFileBytes * 65) % Word

-----------------------------------------------------------------------------
(* The server: StreamingSigner.                                            *)

Files(n) == UNION {[1 .. k -> Byte] : k \in 0 .. n}
Idle == [consumed |-> 0, avail |-> 0, filled |-> 0, s1 |-> 0, s2 |-> 0, strong |-> <<>>,
         blocks |-> <<>>]
NoScan == [p |-> 0, w |-> [s1 |-> 0, s2 |-> 0], src |-> <<>>, matchedBytes |-> 0,
           nextEval |-> 0, early |-> FALSE]
NoPlan == [copies |-> {}, misses |-> {}, downloadBytes |-> 0]
Closed == [buf |-> <<>>, physBase |-> 0, readErr |-> FALSE]

DeltaInit ==
    /\ newFile \in Files(MaxNew) /\ oldFile = <<>>
    /\ signer = Idle /\ sig = <<>> /\ scan = NoScan /\ win = Closed /\ temp = {}
    /\ plan = NoPlan /\ stage = "sign"

\* Update(data, len): the segment feeds the file hash, then the blocks.
SignerUpdate(n) ==
    /\ stage = "sign" /\ signer.avail = 0
    /\ n \in 1 .. Len(newFile) - signer.consumed
    /\ signer' = [signer EXCEPT !.avail = n, !.consumed = @ + n]
    /\ UNCHANGED <<newFile, oldFile, sig, scan, win, temp, plan, stage>>

\* One iteration of its loop: the part of the segment that falls into the
\* current block; a full block is pushed and the sums start again.
SignerSpan ==
    /\ stage = "sign" /\ signer.avail > 0
    /\ LET i == Len(signer.blocks)
           from == signer.consumed - signer.avail
           len == BlockLen(i, Len(newFile))
           span == Min({len - signer.filled, signer.avail})
           b == SubSeq(newFile, from + 1, from + span)
           s1 == signer.s1 + Sum(b)
           s2 == signer.s2 + WeightedSum(b, signer.filled)
           full == signer.filled + span = len
       IN  signer' = [signer EXCEPT
              !.avail = @ - span, !.filled = IF full THEN 0 ELSE @ + span,
              !.s1 = IF full THEN 0 ELSE s1, !.s2 = IF full THEN 0 ELSE s2,
              !.strong = IF full THEN <<>> ELSE @ \o b,
              !.blocks = IF ~full THEN @
                         ELSE Append(@, [weak |-> [s1 |-> s1 % WeakMod, s2 |-> s2 % WeakMod],
                                         strong |-> StrongHash(signer.strong \o b)])]
    /\ UNCHANGED <<newFile, oldFile, sig, scan, win, temp, plan, stage>>

\* Finish: throws unless the whole file was fed.
SignerFinish ==
    /\ stage = "sign" /\ signer.avail = 0 /\ signer.consumed = Len(newFile)
    /\ sig' = signer.blocks /\ signer' = Idle
    /\ stage' = "signed"
    /\ UNCHANGED <<newFile, oldFile, scan, win, temp, plan>>

-----------------------------------------------------------------------------
(* The client: SlidingWindow.                                              *)

\* advance: drop the prefix below p once it is a chunk or more.
Advance(v, p) ==
    IF p <= v.physBase \/ p - v.physBase < Chunk THEN v
    ELSE [v EXCEPT !.buf = SubSeq(@, p - v.physBase + 1, Len(@)), !.physBase = p]

\* loadTo: read until `end` is in the window.  Reads may be short, so the window
\* ends anywhere up to a chunk further; a failing source leaves it short.
LoadTo(v, end) ==
    LET have == v.physBase + Len(v.buf)
        upTo(e, err) == [v EXCEPT !.buf = @ \o SubSeq(oldFile, have + 1, e), !.readErr = err]
    IN  IF have >= end \/ v.readErr THEN {v}
        ELSE {upTo(e, FALSE) : e \in end .. Min({Len(oldFile), end + Chunk - 1})}
             \cup {upTo(e, TRUE) : e \in have .. end - 1}

\* The byte at offset o; what a failed source did not fill is zero (resize).
ByteAt(v, o) == IF o - v.physBase < Len(v.buf) THEN v.buf[o - v.physBase + 1] ELSE 0
Window(v, p) == [j \in 1 .. L |-> ByteAt(v, p + j - 1)]

-----------------------------------------------------------------------------
(* The client: BuildPlanStreaming.                                         *)

NewLen == Len(newFile)
NoBlock == -1
FullBlocks == {i \in 0 .. BlockCount(NewLen) - 1 : BlockLen(i, NewLen) = L}

\* The full blocks with this weak checksum that are still unmatched ...
Candidates(src, weak) == {i \in FullBlocks : sig[i + 1].weak = weak /\ src[i] = -1}

\* ... visited from the highest index down until a strong checksum agrees.
Match(src, weak, b) ==
    LET equal == {i \in Candidates(src, weak) : sig[i + 1].strong = StrongHash(b)}
    IN  IF equal = {} THEN NoBlock ELSE Max(equal)

\* The old file is found and the scan is set up.
StartScan(f) ==
    /\ stage = "signed"
    /\ oldFile' = f
    /\ IF NewLen = 0 \/ Len(f) < L
       THEN stage' = "emit" /\ scan' = [NoScan EXCEPT !.src = [i \in FullBlocks |-> -1]]
            /\ UNCHANGED win
       ELSE /\ stage' = "first"
            /\ scan' = [NoScan EXCEPT !.src = [i \in FullBlocks |-> -1],
                                      !.nextEval = EarlyStopPrefixBytes(Len(f))]
            /\ UNCHANGED win
    /\ UNCHANGED <<newFile, signer, sig, temp, plan>>

\* WeakInit(win.window(0, L), L)
FirstWindow ==
    /\ stage = "first" /\ stage' = "scan"
    /\ \E v \in LoadTo(win, L) :
         win' = v /\ scan' = [scan EXCEPT !.w = WeakInit(Window(v, 0))]
    /\ UNCHANGED <<newFile, oldFile, signer, sig, temp, plan>>

\* The early-stop test at the end of an iteration, at cursor p.
Evaluated(s) ==
    IF s.p < s.nextEval THEN s
    ELSE IF ProjectedRejected(s.matchedBytes, s.p, Len(oldFile), NewLen)
    THEN [s EXCEPT !.early = TRUE]
    ELSE [s EXCEPT !.nextEval = s.p + EvalStride]

\* A match: capture the block, jump over it, start the checksum afresh.
ScanMatches ==
    /\ stage = "scan"
    /\ LET v == Advance(win, scan.p)
           i == Match(scan.src, scan.w, Window(v, scan.p))
           p == scan.p + L
       IN  /\ i # NoBlock
           /\ temp' = temp \cup {<<i * L + j - 1, Window(v, scan.p)[j]>> : j \in 1 .. L}
           /\ IF p + L > Len(oldFile)
              THEN /\ win' = v /\ stage' = "emit"
                   /\ scan' = [scan EXCEPT !.p = p, !.src[i] = scan.p, !.matchedBytes = @ + L]
              ELSE \E u \in LoadTo(Advance(v, p), p + L) :
                   LET s == Evaluated([scan EXCEPT !.p = p, !.src[i] = scan.p,
                                          !.matchedBytes = @ + L, !.w = WeakInit(Window(u, p))])
                   IN  win' = u /\ scan' = s /\ stage' = IF s.early THEN "emit" ELSE "scan"
    /\ UNCHANGED <<newFile, oldFile, signer, sig, plan>>

\* No match: roll the checksum by one byte, or stop at the end of the file.
ScanRolls ==
    /\ stage = "scan"
    /\ LET v == Advance(win, scan.p)
           p == scan.p
       IN  /\ Match(scan.src, scan.w, Window(v, p)) = NoBlock
           /\ IF p + L >= Len(oldFile)
              THEN win' = v /\ stage' = "emit" /\ UNCHANGED scan
              ELSE \E u \in LoadTo(v, p + L + 1) :
                   LET w == WeakRoll(scan.w, ByteAt(u, p), ByteAt(u, p + L))
                       s == Evaluated([scan EXCEPT !.p = p + 1, !.w = w])
                   IN  win' = u /\ scan' = s /\ stage' = IF s.early THEN "emit" ELSE "scan"
    /\ UNCHANGED <<newFile, oldFile, signer, sig, temp, plan>>

Matched(src) == {i \in FullBlocks : src[i] # -1}
Missing(src) == (0 .. BlockCount(NewLen) - 1) \ Matched(src)

\* Maximal runs of missing blocks: from block a to block b.
MissRuns(missing) == {r \in missing \X missing :
                         /\ r[1] <= r[2] /\ r[1] .. r[2] \subseteq missing
                         /\ r[1] - 1 \notin missing /\ r[2] + 1 \notin missing}
MissOp(r) == [off |-> r[1] * L, len |-> Min({NewLen, (r[2] + 1) * L}) - r[1] * L]

\* Copies for the matched blocks, one miss per run of missing ones; an early
\* stop emits nothing and asks for the whole file.
PlanOf(s) ==
    LET misses == {MissOp(r) : r \in MissRuns(Missing(s.src))}
    IN  IF s.early THEN [NoPlan EXCEPT !.downloadBytes = NewLen]
        ELSE [copies |-> {[src |-> s.src[i], off |-> i * L] : i \in Matched(s.src)},
              misses |-> misses,
              downloadBytes |-> MapThenSumSet(LAMBDA m : m.len, misses)]

Emit ==
    /\ stage = "emit" /\ stage' = "planned"
    /\ plan' = PlanOf(scan)
    /\ UNCHANGED <<newFile, oldFile, signer, sig, scan, win, temp>>

\* BuildPlan, the scan of an old file held in memory; st[n] is its state after n of
\* its iterations.
BuildPlan ==
    LET old == Len(oldFile)
        At(p) == SubSeq(oldFile, p + 1, p + L)
        Ended(s) == [s EXCEPT !.done = TRUE]
        Iterate(s) ==
            LET i == Match(s.src, s.w, At(s.p))
                p == s.p + L
                hit == [s EXCEPT !.p = p, !.src[i] = s.p, !.matchedBytes = @ + L]
            IN  IF s.done \/ s.early THEN s
                ELSE CASE i # NoBlock /\ p + L > old -> Ended(hit)
                       [] i # NoBlock /\ p + L <= old -> Evaluated([hit EXCEPT !.w = WeakInit(At(p))])
                       [] i = NoBlock /\ p >= old -> Ended(s)
                       [] OTHER -> Evaluated([s EXCEPT !.p = @ + 1,
                                       !.w = WeakRoll(s.w, oldFile[s.p + 1], oldFile[p + 1])])
        none == NewLen = 0 \/ old < L
        start == [p |-> 0, w |-> WeakInit(IF none THEN <<>> ELSE At(0)),
                  src |-> [i \in FullBlocks |-> -1], matchedBytes |-> 0,
                  nextEval |-> EarlyStopPrefixBytes(old), early |-> FALSE, done |-> none]
        st[n \in 0 .. old + 1] == IF n = 0 THEN start ELSE Iterate(st[n - 1])
    IN  PlanOf(st[old + 1])

\* A miss is fetched in slices, so that lanes can share it.
Slices(m) == {[off |-> m.off + k * SliceLen, len |-> Min({SliceLen, m.len - k * SliceLen})] :
                 k \in 0 .. (m.len - 1) \div SliceLen}

\* Mutant of Decide: a read error does not discard the plan.
DecideTrustsReads ==
    /\ stage = "planned"
    /\ stage' = IF BenefitRejected(plan.downloadBytes, NewLen) THEN "fallback" ELSE "use"
    /\ UNCHANGED <<newFile, oldFile, signer, sig, scan, win, temp, plan>>

\* The worker's verdict: a read error, too little benefit or a failed temp write
\* throws the temp file away and the file is transferred whole.
Decide ==
    /\ stage = "planned"
    /\ \E ioOk \in BOOLEAN :
         stage' = IF win.readErr \/ BenefitRejected(plan.downloadBytes, NewLen) \/ ~ioOk
                  THEN "fallback" ELSE "use"
    /\ UNCHANGED <<newFile, oldFile, signer, sig, scan, win, temp, plan>>

DeltaNext ==
    \/ \E n \in 1 .. MaxNew : SignerUpdate(n)
    \/ SignerSpan \/ SignerFinish
    \/ \E f \in Files(MaxOld) : StartScan(f)
    \/ FirstWindow \/ ScanMatches \/ ScanRolls \/ Emit \/ Decide

DeltaSpec == DeltaInit /\ [][DeltaNext]_dvars

-----------------------------------------------------------------------------
(* Properties.                                                             *)

\* Reference for the scan after n of its iterations: whole-file access, blocks
\* compared byte by byte, no checksum and no window.
Reference ==
    LET At(p) == SubSeq(oldFile, p + 1, p + L)
        Block(i) == SubSeq(newFile, i * L + 1, (i + 1) * L)
        st[n \in 0 .. Len(oldFile)] ==
            IF n = 0 THEN [p |-> 0, src |-> [i \in FullBlocks |-> -1]]
            ELSE LET q == st[n - 1]
                     c == {i \in FullBlocks : q.src[i] = -1 /\ Block(i) = At(q.p)}
                 IN  IF q.p + L > Len(oldFile) THEN q
                     ELSE IF c = {} THEN [q EXCEPT !.p = @ + 1]
                     ELSE [p |-> q.p + L, src |-> [q.src EXCEPT ![Max(c)] = q.p]]
    IN  [n \in 0 .. Len(oldFile) |-> st[n].src]

\* AC-02/AC-03, "bit-identical": cutting the new file into segments changes no
\* signature, and rolling sums, the bounded window with short reads and the order
\* of the candidates change nothing of what a naive scan would match; the streaming
\* plan "mirrors BuildPlan exactly", early stop included.
StreamingAgrees ==
    /\ stage = "signed" => sig = GenerateSignatures(newFile)
    /\ stage = "planned" /\ ~win.readErr => plan = BuildPlan
    /\ stage \in {"scan", "emit"} /\ ~win.readErr =>
         /\ scan.src \in Range(Reference)
         /\ stage = "emit" /\ ~scan.early => scan.src = Reference[Len(oldFile)]
         /\ stage = "scan" => scan.w = WeakInit(SubSeq(oldFile, scan.p + 1, scan.p + L))
         /\ Len(win.buf) <= 2 * Chunk + L

Fetched == UNION {UNION {s.off .. s.off + s.len - 1 : s \in Slices(m)} : m \in plan.misses}

\* A plan that is used rebuilds the new file: what the scan wrote to the temp
\* file and the ranges to be fetched partition it, and the written bytes are
\* right; no slice is empty and no byte is fetched twice.
PlanReconstructs ==
    stage = "use" =>
        /\ \A k \in 0 .. NewLen - 1 :
             IF k \in Fetched THEN \A b \in Byte : <<k, b>> \notin temp
             ELSE {w \in temp : w[1] = k} = {<<k, newFile[k + 1]>>}
        /\ Fetched \subseteq 0 .. NewLen - 1
        /\ plan.downloadBytes = Cardinality(Fetched)
        /\ \A c \in plan.copies :
             SubSeq(oldFile, c.src + 1, c.src + L) = SubSeq(newFile, c.off + 1, c.off + L)
=============================================================================
