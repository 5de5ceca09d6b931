------------------------- MODULE CheckEngineProofs --------------------------
(***************************************************************************)
(* Proofs about FastCheck's RunCheck, for all manifests and trees, numbers  *)
(* of workers, windows and caps: no entry is lost or recorded twice, recv   *)
(* never waits for a frame that will not come, and the verdict of a full    *)
(* comparison is the truth about the two trees.                             *)
(***************************************************************************)
EXTENDS CheckEngine, FiniteSetTheorems, WellFoundedInduction, TLAPS

-----------------------------------------------------------------------------
(* Sequences without repetition.                                           *)

LEMMA ListBasics ==
  ASSUME NEW S, NEW s \in Seq(S)
  PROVE  /\ Len(s) \in Nat /\ DOMAIN s = 1..Len(s) /\ Range(s) \subseteq S
         /\ Range(<<>>) = {} /\ IsInjective(<<>>)
BY DEF Range, IsInjective

LEMMA AppendList ==
  ASSUME NEW S, NEW s \in Seq(S), NEW e \in S
  PROVE  /\ Append(s, e) \in Seq(S) /\ Range(Append(s, e)) = Range(s) \cup {e}
         /\ IsInjective(s) /\ e \notin Range(s) => IsInjective(Append(s, e))
<1> DEFINE t == Append(s, e)
<1>1. /\ Len(s) \in Nat /\ DOMAIN s = 1..Len(s) /\ DOMAIN t = 1..(Len(s) + 1)
      /\ t[Len(s) + 1] = e /\ (\A i \in DOMAIN s : t[i] = s[i]) /\ t \in Seq(S)
  OBVIOUS
<1> HIDE DEF t
<1>2. /\ \A i \in DOMAIN t : i \in DOMAIN s \/ i = Len(s) + 1
      /\ DOMAIN s \subseteq DOMAIN t /\ Len(s) + 1 \in DOMAIN t
  BY <1>1
<1>3. Range(t) = Range(s) \cup {e}
  <2>1. Range(t) \subseteq Range(s) \cup {e}
    BY <1>1, <1>2 DEF Range
  <2>2. Range(s) \cup {e} \subseteq Range(t)
    BY <1>1, <1>2 DEF Range
  <2> QED BY <2>1, <2>2
<1>4. IsInjective(s) /\ e \notin Range(s) => IsInjective(t)
  BY <1>1, <1>2 DEF IsInjective, Range
<1> QED BY <1>1, <1>3, <1>4 DEF t

LEMMA ConcatList ==
  ASSUME NEW S, NEW s \in Seq(S), NEW u \in Seq(S)
  PROVE  /\ s \o u \in Seq(S) /\ Range(s \o u) = Range(s) \cup Range(u)
         /\ IsInjective(s) /\ IsInjective(u) /\ Range(s) \cap Range(u) = {}
              => IsInjective(s \o u)
<1> DEFINE t == s \o u
           m == Len(s)
<1>1. /\ m \in Nat /\ Len(u) \in Nat /\ DOMAIN s = 1..m /\ DOMAIN u = 1..Len(u)
      /\ DOMAIN t = 1..(m + Len(u)) /\ t \in Seq(S)
      /\ \A i \in DOMAIN t : t[i] = IF i <= m THEN s[i] ELSE u[i - m]
  OBVIOUS
<1> HIDE DEF t, m
<1>2. \A i \in DOMAIN t : \/ i <= m /\ i \in DOMAIN s /\ t[i] = s[i]
                          \/ i > m /\ i - m \in DOMAIN u /\ t[i] = u[i - m] /\ i \in Int
  <2> TAKE i \in DOMAIN t
  <2>1. i \in Int /\ 1 <= i /\ i <= m + Len(u)
    BY <1>1
  <2>2. CASE i <= m
    <3>1. i \in 1..m
      BY <1>1, <2>1, <2>2
    <3> QED BY <1>1, <2>2, <3>1
  <2>3. CASE i > m
    <3>1. i - m \in 1..Len(u) /\ ~(i <= m)
      BY <1>1, <2>1, <2>3
    <3> QED BY <1>1, <2>1, <2>3, <3>1
  <2> QED BY <1>1, <2>1, <2>2, <2>3
<1>3. /\ \A i \in DOMAIN s : i \in DOMAIN t /\ t[i] = s[i]
      /\ \A i \in DOMAIN u : i + m \in DOMAIN t /\ t[i + m] = u[i]
  BY <1>1
<1>4. Range(t) = Range(s) \cup Range(u)
  <2>1. Range(t) \subseteq Range(s) \cup Range(u)
    BY <1>2 DEF Range
  <2>2. Range(s) \cup Range(u) \subseteq Range(t)
    BY <1>3 DEF Range
  <2> QED BY <2>1, <2>2
<1>5. \A i \in DOMAIN t : (i <= m => t[i] \in Range(s)) /\ (i > m => t[i] \in Range(u))
  BY <1>1, <1>2 DEF Range
<1>6. ASSUME IsInjective(s), IsInjective(u), Range(s) \cap Range(u) = {}, NEW i \in DOMAIN t,
             NEW j \in DOMAIN t, t[i] = t[j]
      PROVE  i = j
  <2>1. CASE i <= m /\ j <= m
    <3>1. i \in DOMAIN s /\ j \in DOMAIN s /\ t[i] = s[i] /\ t[j] = s[j]
      BY <1>1, <1>2, <2>1
    <3> QED BY <1>6, <3>1 DEF IsInjective
  <2>2. CASE i > m /\ j > m
    <3>1. i - m = j - m
      BY <1>1, <1>2, <1>6, <2>2 DEF IsInjective
    <3> QED BY <1>1, <3>1
  <2>3. CASE (i <= m /\ j > m) \/ (i > m /\ j <= m)
    BY <1>5, <1>6, <2>3
  <2> QED BY <1>1, <2>1, <2>2, <2>3
<1> QED BY <1>1, <1>4, <1>6 DEF t, IsInjective

\* A list cut in two.
LEMMA SplitList ==
  ASSUME NEW S, NEW s \in Seq(S), NEW n \in 0..Len(s), IsInjective(s)
  PROVE  LET a == SubSeq(s, 1, n)
             b == SubSeq(s, n + 1, Len(s))
         IN  /\ a \in Seq(S) /\ b \in Seq(S) /\ Len(a) = n
             /\ IsInjective(a) /\ IsInjective(b)
             /\ Range(a) \cap Range(b) = {} /\ Range(a) \cup Range(b) = Range(s)
             /\ Range(a) = {s[i] : i \in 1..n}
<1> DEFINE a == SubSeq(s, 1, n)
           b == SubSeq(s, n + 1, Len(s))
           m == Len(s)
<1>1. /\ m \in Nat /\ n \in 0..m /\ DOMAIN s = 1..m /\ DOMAIN a = 1..n /\ DOMAIN b = 1..(m - n)
      /\ a \in Seq(S) /\ b \in Seq(S) /\ Len(a) = n
      /\ (\A i \in 1..n : a[i] = s[i]) /\ (\A i \in 1..(m - n) : b[i] = s[n + i])
  OBVIOUS
<1> HIDE DEF a, b, m
<1>2. /\ \A i \in DOMAIN a : i \in DOMAIN s /\ a[i] = s[i] /\ i <= n
      /\ \A i \in DOMAIN b : n + i \in DOMAIN s /\ b[i] = s[n + i] /\ n + i > n
      /\ \A i \in DOMAIN s : \/ i \in DOMAIN a /\ a[i] = s[i]
                             \/ i - n \in DOMAIN b /\ b[i - n] = s[i]
  BY <1>1
<1>3. Range(a) \cup Range(b) = Range(s)
  <2>1. Range(a) \cup Range(b) \subseteq Range(s)
    BY <1>2 DEF Range
  <2>2. Range(s) \subseteq Range(a) \cup Range(b)
    BY <1>2 DEF Range
  <2> QED BY <2>1, <2>2
<1>4. Range(a) \cap Range(b) = {}
  <2>1. ASSUME NEW i \in DOMAIN a, NEW j \in DOMAIN b, a[i] = b[j] PROVE FALSE
    BY <1>1, <1>2, <2>1 DEF IsInjective
  <2> QED BY <2>1 DEF Range
<1>5. IsInjective(a)
  BY <1>2 DEF IsInjective
<1>6. IsInjective(b)
  <2>1. ASSUME NEW i \in DOMAIN b, NEW j \in DOMAIN b, b[i] = b[j] PROVE i = j
    <3>1. n + i = n + j
      BY <1>2, <2>1 DEF IsInjective
    <3> QED BY <1>1, <3>1
  <2> QED BY <2>1 DEF IsInjective
<1>7. Range(a) = {s[i] : i \in 1..n}
  BY <1>1, SMTT(30) DEF Range
<1> QED BY <1>1, <1>3, <1>4, <1>5, <1>6, <1>7 DEF a, b, m

LEMMA TailList ==
  ASSUME NEW S, NEW s \in Seq(S), s # <<>>, IsInjective(s)
  PROVE  Tail(s) \in Seq(S) /\ IsInjective(Tail(s)) /\ Range(Tail(s)) \subseteq Range(s)
<1> DEFINE t == Tail(s)
<1>1. /\ Len(s) \in Nat /\ DOMAIN s = 1..Len(s) /\ t \in Seq(S) /\ DOMAIN t = 1..(Len(s) - 1)
      /\ \A i \in DOMAIN t : i \in Int /\ i + 1 \in DOMAIN s /\ t[i] = s[i + 1]
  OBVIOUS
<1> HIDE DEF t
<1>2. IsInjective(t)
  BY <1>1 DEF IsInjective
<1>3. Range(t) \subseteq Range(s)
  BY <1>1 DEF Range
<1> QED BY <1>1, <1>2, <1>3 DEF t

LEMMA CountList ==
  ASSUME NEW S, NEW s \in Seq(S), IsInjective(s)
  PROVE  IsFiniteSet(Range(s)) /\ Cardinality(Range(s)) = Len(s)
<1>1. Len(s) \in Nat /\ DOMAIN s = 1..Len(s)
  OBVIOUS
<1>2. s \in Bijection(1..Len(s), Range(s))
  <2>1. s \in [1..Len(s) -> Range(s)]
    BY <1>1 DEF Range
  <2>2. \A i, j \in 1..Len(s) : s[i] = s[j] => i = j
    BY <1>1 DEF IsInjective
  <2>3. \A e \in Range(s) : \E i \in 1..Len(s) : s[i] = e
    BY <1>1 DEF Range
  <2> QED BY <2>1, <2>2, <2>3 DEF Bijection, Injection, Surjection
<1>3. ExistsBijection(1..Len(s), Range(s))
  BY <1>2 DEF ExistsBijection
<1> QED BY <1>1, <1>3, FS_NatBijection, FS_CountingElements

\* The enumerations of a finite set.
LEMMA EnumerateSet ==
  ASSUME NEW S, IsFiniteSet(S), NEW s \in SetToSeqs(S)
  PROVE  s \in Seq(S) /\ IsInjective(s) /\ Range(s) = S
<1> DEFINE n == Cardinality(S)
<1>1. n \in Nat
  BY FS_CardinalityType
<1>2. s \in [1..n -> S] /\ \A i, j \in 1..n : i # j => s[i] # s[j]
  BY DEF SetToSeqs
<1>3. s \in Seq(S) /\ IsInjective(s) /\ Len(s) = n /\ Range(s) \subseteq S
  BY <1>1, <1>2 DEF IsInjective, Range
<1>4. Cardinality(Range(s)) = n
  BY <1>3, CountList
<1> QED BY <1>3, <1>4, FS_Subset

-----------------------------------------------------------------------------
(* Counting.                                                               *)

LEMMA FilesFinite ==
  IsFiniteSet(File) /\ \A X \in SUBSET File : IsFiniteSet(X) /\ Cardinality(X) \in Nat
<1>1. IsFiniteSet(File)
  BY InputAssumption, CountList
<1> QED BY <1>1, FS_Subset, FS_CardinalityType

LEMMA CountApart ==
  ASSUME NEW A, NEW B, IsFiniteSet(A), IsFiniteSet(B), A \cap B = {}
  PROVE  /\ Cardinality(A \cup B) = Cardinality(A) + Cardinality(B) /\ IsFiniteSet(A \cup B)
         /\ Cardinality(A) \in Nat /\ Cardinality(B) \in Nat
<1>1. /\ IsFiniteSet(A \cup B) /\ Cardinality(A) \in Nat /\ Cardinality(B) \in Nat
      /\ Cardinality(A \cup B) = Cardinality(A) + Cardinality(B) - Cardinality(A \cap B)
  BY FS_Union, FS_CardinalityType
<1>2. Cardinality(A \cap B) = 0
  BY FS_EmptySet
<1> QED BY <1>1, <1>2

LEMMA CountLess ==
  ASSUME NEW A, NEW B, IsFiniteSet(A), B \subseteq A
  PROVE  /\ Cardinality(A \ B) = Cardinality(A) - Cardinality(B) /\ IsFiniteSet(A \ B)
         /\ Cardinality(A) \in Nat /\ Cardinality(B) \in Nat /\ IsFiniteSet(B)
<1> DEFINE C == A \ B
<1>1. IsFiniteSet(B) /\ IsFiniteSet(C) /\ C \cap B = {} /\ C \cup B = A
  BY FS_Subset
<1> HIDE DEF C
<1>2. /\ Cardinality(A) = Cardinality(C) + Cardinality(B)
      /\ Cardinality(C) \in Nat /\ Cardinality(B) \in Nat
  BY <1>1, CountApart
<1> QED BY <1>1, <1>2 DEF C

\* Indices of a list and the members they name.
LEMMA CountIndices ==
  ASSUME NEW S, NEW s \in Seq(S), IsInjective(s), NEW I \in SUBSET DOMAIN s
  PROVE  Cardinality(I) = Cardinality({s[i] : i \in I})
<1> DEFINE T == {s[i] : i \in I}
           h == [i \in I |-> s[i]]
<1>1. IsFiniteSet(I)
  <2>1. Len(s) \in Nat /\ DOMAIN s = 1..Len(s)
    OBVIOUS
  <2>2. IsFiniteSet(1..Len(s))
    BY <2>1, FS_Interval
  <2> QED BY <2>1, <2>2, FS_Subset
<1>2. h \in Bijection(I, T)
  <2>1. h \in [I -> T]
    OBVIOUS
  <2>2. \A i, j \in I : h[i] = h[j] => i = j
    BY DEF IsInjective
  <2>3. \A e \in T : \E i \in I : h[i] = e
    OBVIOUS
  <2> HIDE DEF h, T
  <2> QED BY <2>1, <2>2, <2>3 DEF Bijection, Injection, Surjection, IsInjective
<1>3. ExistsBijection(I, T)
  BY <1>2 DEF ExistsBijection
<1> QED BY <1>1, <1>3, FS_Bijection

LEMMA MinMaxTwo ==
  ASSUME NEW a \in Int, NEW b \in Int
  PROVE  /\ Max({a, b}) \in {a, b} /\ Max({a, b}) >= a /\ Max({a, b}) >= b
         /\ Min({a, b}) \in {a, b} /\ Min({a, b}) <= a /\ Min({a, b}) <= b
<1>1. \E x \in {a, b} : \A y \in {a, b} : x >= y
  OBVIOUS
<1>2. \E x \in {a, b} : \A y \in {a, b} : x =< y
  OBVIOUS
<1> QED BY <1>1, <1>2 DEF Max, Min

LEMMA MaxZero ==
  ASSUME NEW a \in Int
  PROVE  Max({0, a}) \in Nat
<1> DEFINE m == Max({0, a})
<1>1. m \in {0, a} /\ m >= 0
  BY MinMaxTwo
<1> HIDE DEF m
<1>2. m \in Nat
  BY <1>1
<1> QED BY <1>2 DEF m

LEMMA MinOfNaturals ==
  ASSUME NEW T, T \subseteq Nat, T # {}
  PROVE  Min(T) \in T /\ \A y \in T : Min(T) <= y
<1> DEFINE R == {p \in Nat \X Nat : p[1] < p[2]}
<1>1. IsWellFoundedOn(R, Nat)
  BY NatLessThanWellFounded DEF OpToRel
<1>2. \A x, y \in Nat : <<y, x>> \in R <=> y < x
  OBVIOUS
<1> HIDE DEF R
<1>3. PICK x \in T : \A y \in T : ~(<<y, x>> \in R)
  BY <1>1, WFMin
<1>4. ASSUME NEW y \in T PROVE x <= y
  <2>1. x \in Nat /\ y \in Nat /\ ~(<<y, x>> \in R)
    BY <1>3
  <2>2. ~(y < x)
    BY <1>2, <2>1
  <2> QED BY <2>1, <2>2
<1> QED BY <1>4 DEF Min

LEMMA MinMaxNat ==
  ASSUME NEW a \in Nat, NEW b \in Nat
  PROVE  Min({a, b}) \in Nat /\ Max({a, b}) \in Nat
<1>1. a \in Int /\ b \in Int
  OBVIOUS
<1>2. Min({a, b}) \in {a, b} /\ Max({a, b}) \in {a, b}
  BY <1>1, MinMaxTwo
<1> QED BY <1>2

LEMMA WindowType ==
  ASSUME NEW window \in Nat
  PROVE  NextNetWindow(window) \subseteq Nat
<1> DEFINE up == window + 1
           down == (window * 6) \div 10
<1>1. up \in Nat /\ NetWindowMax \in Nat /\ NetWindowMin \in Nat
  BY CheckAssumption
<1>2. down \in Nat
  OBVIOUS
<1> HIDE DEF up, down
<1>3. Min({up, NetWindowMax}) \in Nat /\ Max({NetWindowMin, down}) \in Nat
  BY <1>1, <1>2, MinMaxNat
<1> QED BY <1>3 DEF NextNetWindow, up, down

LEMMA CapType ==
  ASSUME NEW cap \in Nat, NEW queued, NEW flying, NEW failed
  PROVE  NextLocalWorkerCap(cap, queued, flying, failed) \in Nat
<1> DEFINE half == cap \div 2
<1>1. half \in Nat /\ 1 \in Nat
  OBVIOUS
<1> HIDE DEF half
<1>2. Max({1, half}) \in Nat
  BY <1>1, MinMaxNat
<1> QED BY <1>2 DEF NextLocalWorkerCap, half

LEMMA MinThree ==
  ASSUME NEW a \in Nat, NEW b \in Nat, NEW c \in Nat
  PROVE  Min({a} \cup {b, c}) \in 0..a
<1>1. \E x \in {a} \cup {b, c} : \A y \in {a} \cup {b, c} : x =< y
  OBVIOUS
<1> QED BY <1>1 DEF Min

-----------------------------------------------------------------------------
(* The inductive invariant.                                                *)

Category == {"Same", "Diff", "Missing"}

\* What metadata does not settle.
NeedsHash(f) == DecideCompare(mode, disk[f], Remote[f]).needHash

FilesOf(r) == [i \in DOMAIN r |-> r[i].file]

\* What the pipeline has been given and has not handed back.
PipeStage == {"buffer", "tasks", "results"} \cup CompareWorker
Piped == UNION {Held(s) : s \in PipeStage}

\* The files recorded, and those of a category.
Recorded == Listed \ Unrecorded
RecordedAs(c) == {f \in Recorded : TrueCategory(f) = c}

Inputs ==
  /\ mode \in {"Fast", "Strict", "SizeOnly"} /\ DOMAIN disk = File
  /\ \A f \in File : \A e, g \in disk[f] : e = g /\ e.content \notin {NoResult, "Failed"}

Numbers ==
  /\ issued \in Nat /\ drained \in Nat /\ hashCap \in Nat /\ hashWindow \in Nat
  /\ listed \in 0..Len(Manifest)
  /\ counters \in [{"Same", "Diff", "Missing", "Extra"} -> Nat]

Lists ==
  /\ delayed \in Seq(File) /\ buffer \in Seq(File) /\ tasks \in Seq(File)
  /\ hashQueue \in Seq(File) /\ batch \in [CompareWorker -> Seq(File)]
  /\ results \in Seq({Compared(f) : f \in File}) /\ awaiting \subseteq File

Once ==
  /\ IsInjective(delayed) /\ IsInjective(buffer) /\ IsInjective(tasks)
  /\ IsInjective(hashQueue) /\ \A w \in CompareWorker : IsInjective(batch[w])
  /\ IsInjective(FilesOf(results))

\* A compare worker that is not probing has nothing in hand.
Idle ==
  DOMAIN worker = CompareWorker /\ \A w \in CompareWorker : worker[w] # "probing" => batch[w] = <<>>

Apart == \A s, t \in Stage : s # t => Held(s) \cap Held(t) = {}

AllKnown == Unrecorded \subseteq Listed

\* Only what metadata left open is hashed.
HashNeeded == \A f \in Range(hashQueue) \cup awaiting : NeedsHash(f)

\* A request and its answer are about a file that still awaits.
NetExact ==
  /\ requested \subseteq awaiting /\ serverHash \subseteq awaiting
  /\ requested \cap serverHash = {}
  /\ inFlight = Cardinality(requested)

\* InFlight() of the pipeline counts what it holds.
PipeExact == issued - drained = Cardinality(Piped)

\* A local result is the hash of the local file, and there once it is reported.
Hashed ==
  /\ hashTasks \in Seq(File) /\ ready \in Seq(File)
  /\ hashing \in [HashWorker -> Seq(File)] /\ DOMAIN hasher = HashWorker
  /\ DOMAIN localResult = File
  /\ \A f \in File : localResult[f] \in {NoResult, "Failed"} \cup {e.content : e \in disk[f]}
  /\ \A w \in HashWorker :
       /\ hasher[w] \in {"hashing", "stored"} => hashing[w] # <<>>
       /\ hasher[w] = "stored" => localResult[Head(hashing[w])] # NoResult
  /\ \A f \in Range(ready) : localResult[f] # NoResult

\* Each count of the report is of the files recorded so far.
CountsExact ==
  cause = "none" => \A c \in Category : counters[c] = Cardinality(RecordedAs(c))
ExtraLast == pc # "done" => counters["Extra"] = 0

\* A loop left without a cause has settled every file.
EndsWhole ==
  /\ cause \in {"none", "interrupted", "disconnected"}
  /\ manifestDone => listed = Len(Manifest)
  /\ pc # "done" => exit = Undecided
  /\ \/ pc \in {"stop", "join", "joinHash"} /\ cause = "none" /\ ~localReadFailed
     \/ pc = "scan"
     => manifestDone /\ cause = "none" /\ Unrecorded = {}

\* Directories the walk has still to list.
Pending == Range(stack) \cup UNION {Range(listing[w]) : w \in Walker}
Slots == {s \in Walker \X Nat : s[2] \in DOMAIN listing[s[1]]}
Found == merged \cup UNION {context[w] : w \in Walker}
ExtrasOf(dirs) == (UNION {LocalFiles[d] : d \in dirs \ Unreadable}) \ File

\* What the walk has found are extra files; what it has not found is below a directory
\* it has still to list, unless listing one failed.
Walks ==
  /\ stack \in Seq(Dir) /\ listing \in [Walker -> Seq(Dir)]
  /\ DOMAIN walker = Walker /\ DOMAIN context = Walker
  /\ IsFiniteSet(Slots) /\ activeDirs = Cardinality(Slots)
  /\ Pending \subseteq Reachable({Root}) /\ Found \subseteq TrueExtras
  /\ firstError \/ TrueExtras \subseteq Found \cup ExtrasOf(Reachable(Pending))
  /\ \A w \in Walker :
       /\ (walker[w] = "listing") = (listing[w] # <<>>)
       /\ walker[w] \in {"flush", "gone"} => Pending = {}
       /\ walker[w] = "gone" => context[w] = {}

WalkExact ==
  /\ pc \notin {"scan", "done"} => WalkInit
  /\ pc = "scan" => Walks

\* Where the entries are and what has been made of the others.
PlaceInv ==
  /\ Lists /\ Once /\ Apart /\ AllKnown /\ HashNeeded /\ NetExact /\ PipeExact /\ CountsExact

Inv ==
  /\ Inputs /\ Numbers /\ Idle /\ PlaceInv /\ Hashed
  /\ ExtraLast /\ EndsWhole /\ WalkExact /\ VerdictTrue

-----------------------------------------------------------------------------
(* The stages and what they hold.                                          *)

LEMMA StageCases ==
  /\ Stage = {"delayed", "buffer", "tasks", "results", "hashQueue", "awaiting"} \cup CompareWorker
  /\ \A w \in CompareWorker :
       w \notin {"delayed", "buffer", "tasks", "results", "hashQueue", "awaiting"}
BY CheckAssumption DEF Stage, SharedStage

LEMMA EntriesAre ==
  /\ Entries("delayed") = delayed /\ Entries("buffer") = buffer /\ Entries("tasks") = tasks
  /\ Entries("results") = FilesOf(results) /\ Entries("hashQueue") = hashQueue
  /\ \A w \in CompareWorker : Entries(w) = batch[w]
BY StageCases DEF Entries, FilesOf

LEMMA HeldIs ==
  /\ Held("delayed") = Range(delayed) /\ Held("buffer") = Range(buffer)
  /\ Held("tasks") = Range(tasks) /\ Held("results") = Range(FilesOf(results))
  /\ Held("hashQueue") = Range(hashQueue) /\ Held("awaiting") = awaiting
  /\ \A w \in CompareWorker : Held(w) = Range(batch[w])
BY EntriesAre, StageCases DEF Held

\* What each stage holds, now and after a step.
Hold == [s \in Stage |-> Held(s)]

HoldShape ==
  /\ DOMAIN Hold = Stage /\ Hold["delayed"] = Range(delayed) /\ Hold["buffer"] = Range(buffer)
  /\ Hold["tasks"] = Range(tasks) /\ Hold["results"] = Range(FilesOf(results))
  /\ Hold["hashQueue"] = Range(hashQueue) /\ Hold["awaiting"] = awaiting
  /\ \A w \in CompareWorker : Hold[w] = Range(batch[w])

LEMMA HoldIs == HoldShape
BY HeldIs, StageCases DEF Hold, HoldShape

LEMMA HoldIsNext == HoldShape'
BY HoldIs, PTL

\* Pairwise disjoint sets, and their union.
Disjoint(S, H) == \A p, q \in S : p # q => H[p] \cap H[q] = {}
Union(S, H) == UNION {H[p] : p \in S}

HoldMeaning ==
  /\ Apart <=> Disjoint(Stage, Hold)
  /\ Unrecorded = Union(Stage, Hold) /\ Piped = Union(PipeStage, Hold)

LEMMA HoldSays == HoldMeaning
BY StageCases DEF Apart, Disjoint, Union, Hold, Unrecorded, Piped, PipeStage, HoldMeaning

LEMMA HoldSaysNext == HoldMeaning'
BY HoldSays, PTL

\* Elements X leave the stages a and b for t and u, and those of N are recorded.
Moved(S, H, G, a, b, X, t, u, N) ==
  /\ \A p \in S \ {a, b, t, u} : G[p] = H[p] /\ H[p] \cap X = {}
  /\ \A p \in {a, b} \ {t, u} : G[p] = H[p] \ X
  /\ G[t] \subseteq H[t] \cup H[u] \cup X /\ G[u] \subseteq H[t] \cup H[u] \cup X
  /\ t # u => G[t] \cap G[u] = {}
  /\ N \subseteq H[t] \cup H[u] \cup X
  /\ G[t] \cup G[u] = (H[t] \cup H[u] \cup X) \ N

LEMMA MovedApart ==
  ASSUME NEW S, NEW H, NEW G, NEW a \in S, NEW b \in S, NEW X, NEW t \in S, NEW u \in S, NEW N,
         Disjoint(S, H), Moved(S, H, G, a, b, X, t, u, N)
  PROVE  Disjoint(S, G)
<1> SUFFICES ASSUME NEW p \in S, NEW q \in S, p # q, NEW f, f \in G[p], f \in G[q]
             PROVE  FALSE
  BY DEF Disjoint
<1>1. \A r \in S : f \in G[r] => r \in {t, u} \/ (f \in H[r] /\ f \notin X)
  BY DEF Moved
<1>2. \A r \in {t, u} : f \in G[r] => f \in H[t] \cup H[u] \cup X
  BY DEF Moved
<1>3. CASE p \in {t, u} /\ q \in {t, u}
  BY <1>3 DEF Moved
<1>4. CASE p \notin {t, u} \/ q \notin {t, u}
  BY <1>1, <1>2, <1>4 DEF Disjoint
<1> QED BY <1>3, <1>4

LEMMA MovedUnion ==
  ASSUME NEW S, NEW H, NEW G, NEW a \in S, NEW b \in S, NEW X, NEW t \in S, NEW u \in S, NEW N,
         Disjoint(S, H), Moved(S, H, G, a, b, X, t, u, N)
  PROVE  Union(S, G) = (Union(S, H) \cup X) \ N
<1>1. ASSUME NEW f \in Union(S, G) PROVE f \in (Union(S, H) \cup X) \ N
  <2>1. PICK p \in S : f \in G[p]
    BY DEF Union
  <2>2. CASE p \in {t, u}
    BY <2>1, <2>2 DEF Moved, Union
  <2>3. CASE p \notin {t, u}
    <3>1. f \in H[p] /\ f \notin X
      BY <2>1, <2>3 DEF Moved
    <3>2. f \notin H[t] /\ f \notin H[u]
      BY <3>1, <2>3 DEF Disjoint
    <3> QED BY <3>1, <3>2 DEF Moved, Union
  <2> QED BY <2>2, <2>3
<1>2. ASSUME NEW f \in (Union(S, H) \cup X) \ N PROVE f \in Union(S, G)
  <2>1. CASE f \in X \cup H[t] \cup H[u]
    BY <2>1 DEF Moved, Union
  <2>2. CASE f \notin X \cup H[t] \cup H[u]
    <3>1. PICK p \in S : f \in H[p]
      BY <2>2 DEF Union
    <3>2. f \in G[p]
      BY <2>2, <3>1 DEF Moved
    <3> QED BY <3>2 DEF Union
  <2> QED BY <2>1, <2>2
<1> QED BY <1>1, <1>2

-----------------------------------------------------------------------------
(* pump().                                                                 *)

LEMMA FlightType == LocalHashInFlight \in Nat
<1>1. IsFiniteSet(HashWorker)
  BY CheckAssumption, FS_Interval DEF HashWorker
<1>2. IsFiniteSet({w \in HashWorker : hasher[w] = "hashing"})
  BY <1>1, FS_Subset
<1> QED BY <1>2, FS_CardinalityType DEF LocalHashInFlight

LEMMA SendableBound ==
  ASSUME NEW q \in Seq(File), NEW flying \in Nat, NEW window \in Nat,
         hashTasks \in Seq(File), hashCap \in Nat
  PROVE  Sendable(q, flying, window) \in 0..Len(q)
<1> DEFINE room == BacklogFactor * hashCap - (Len(hashTasks) + LocalHashInFlight)
           b == Max({0, room})
           c == Max({0, window - flying})
<1>1. room \in Int
  <2>1. BacklogFactor * hashCap \in Nat /\ Len(hashTasks) \in Nat
    BY CheckAssumption
  <2> QED BY <2>1, FlightType
<1> HIDE DEF room
<1>2. b \in Nat
  BY <1>1, MaxZero
<1>3. c \in Nat
  <2>1. window - flying \in Int
    OBVIOUS
  <2> HIDE DEF c
  <2> QED BY <2>1, MaxZero DEF c
<1>4. Len(q) \in Nat
  OBVIOUS
<1> HIDE DEF b, c
<1>5. Min({Len(q)} \cup {b, c}) \in 0..Len(q)
  BY <1>2, <1>3, <1>4, MinThree
<1> QED BY <1>5 DEF Sendable, b, c, room

\* Threads are woken, and nothing else happens to them.
OnlyWakes ==
  /\ DOMAIN hasher' = DOMAIN hasher
  /\ \A w \in DOMAIN hasher : hasher'[w] \in {hasher[w], "ready"}

LEMMA NotifiedWakes ==
  ASSUME NEW n, NEW h \in Notified(n), DOMAIN hasher = HashWorker
  PROVE  DOMAIN h = HashWorker /\ \A w \in HashWorker : h[w] \in {hasher[w], "ready"}
BY DEF Notified

LEMMA PumpsEffect ==
  ASSUME NEW q \in Seq(File), IsInjective(q), NEW waiting \in SUBSET File,
         Range(q) \cap waiting = {}, NEW asked \in SUBSET waiting,
         NEW flying, flying = Cardinality(asked), NEW window \in Nat, NEW place,
         hashTasks \in Seq(File), hashCap \in Nat, DOMAIN hasher = HashWorker,
         Pumps(q, waiting, flying, window, asked, place)
  PROVE  /\ hashQueue' \in Seq(File) /\ IsInjective(hashQueue')
         /\ Range(hashQueue') \subseteq Range(q) /\ awaiting' \subseteq waiting \cup Range(q)
         /\ Range(hashQueue') \cap awaiting' = {} /\ waiting \subseteq awaiting'
         /\ requested' \subseteq asked \cup Range(q) /\ requested' \subseteq awaiting'
         /\ inFlight' = Cardinality(requested')
         /\ hashTasks' \in Seq(File) /\ OnlyWakes
         /\ \/ /\ cause' = cause /\ pc' = place
               /\ Range(hashQueue') \cup awaiting' = Range(q) \cup waiting
            \/ cause' = "disconnected" /\ pc' = "stop"
<1> DEFINE n == Sendable(q, flying, window)
           sent == {q[i] : i \in 1..n}
           a == SubSeq(q, 1, n)
           b == SubSeq(q, n + 1, Len(q))
<1>1. flying \in Nat /\ IsFiniteSet(asked)
  BY FilesFinite
<1>2. n \in 0..Len(q)
  BY <1>1, SendableBound
<1>3. /\ \/ /\ hashQueue' = b /\ awaiting' = waiting \cup sent /\ requested' = asked \cup sent
            /\ inFlight' = flying + n /\ hashTasks' = hashTasks \o a
            /\ hasher' \in Notified(n) /\ pc' = place /\ cause' = cause
         \/ /\ n > 0 /\ hashQueue' = Tail(q)
            /\ awaiting' = waiting /\ requested' = asked /\ inFlight' = flying
            /\ pc' = "stop" /\ cause' = "disconnected"
            /\ UNCHANGED <<hashTasks, hasher>>
  BY Zenon DEF Pumps
<1> HIDE DEF n
<1>4. /\ a \in Seq(File) /\ b \in Seq(File) /\ Len(a) = n /\ IsInjective(a) /\ IsInjective(b)
      /\ Range(a) \cap Range(b) = {} /\ Range(a) \cup Range(b) = Range(q) /\ Range(a) = sent
  BY <1>2, SplitList
<1>5. IsFiniteSet(sent) /\ Cardinality(sent) = n
  BY <1>4, CountList
<1>6. Range(q) \subseteq File
  BY ListBasics
<1> HIDE DEF a, b, sent
<1>7. CASE /\ hashQueue' = b /\ awaiting' = waiting \cup sent /\ requested' = asked \cup sent
           /\ inFlight' = flying + n /\ hashTasks' = hashTasks \o a
           /\ hasher' \in Notified(n) /\ pc' = place /\ cause' = cause
  <2>1. asked \cap sent = {}
    BY <1>4
  <2>2. Cardinality(asked \cup sent) = flying + n
    BY <1>1, <1>5, <2>1, CountApart
  <2>3. hashTasks' \in Seq(File)
    BY <1>4, <1>7
  <2>4. OnlyWakes
    BY <1>7, NotifiedWakes DEF OnlyWakes
  <2>5. Range(hashQueue') \cap awaiting' = {}
    BY <1>4, <1>7
  <2>6. Range(hashQueue') \cup awaiting' = Range(q) \cup waiting
    BY <1>4, <1>7
  <2> QED BY <1>4, <1>7, <2>2, <2>3, <2>4, <2>5, <2>6
<1>8. CASE /\ n > 0 /\ hashQueue' = Tail(q)
           /\ awaiting' = waiting /\ requested' = asked /\ inFlight' = flying
           /\ pc' = "stop" /\ cause' = "disconnected"
           /\ UNCHANGED <<hashTasks, hasher>>
  <2>1. q # <<>>
    BY <1>2, <1>8
  <2>2. Tail(q) \in Seq(File) /\ IsInjective(Tail(q)) /\ Range(Tail(q)) \subseteq Range(q)
    BY <2>1, TailList
  <2>3. OnlyWakes
    BY <1>8 DEF OnlyWakes
  <2> QED BY <1>8, <2>2, <2>3
<1> QED BY <1>3, <1>7, <1>8

-----------------------------------------------------------------------------
(* What the steps have in common.                                          *)

LEMMA ListedFiles ==
  ASSUME Numbers
  PROVE  /\ Listed \subseteq File
         /\ listed = Len(Manifest) => Listed = File
         /\ listed < Len(Manifest) => Manifest[listed + 1] \in File \ Listed
<1>1. /\ Len(Manifest) \in Nat /\ DOMAIN Manifest = 1..Len(Manifest) /\ Range(Manifest) = File
      /\ \A i, j \in DOMAIN Manifest : Manifest[i] = Manifest[j] => i = j
      /\ \A i \in DOMAIN Manifest : Manifest[i] \in File
  BY InputAssumption DEF IsInjective
<1>2. listed \in Nat /\ listed <= Len(Manifest) /\ 1..listed \subseteq DOMAIN Manifest
  BY <1>1 DEF Numbers
<1>3. Listed \subseteq File
  BY <1>1, <1>2 DEF Listed
<1>4. listed = Len(Manifest) => Listed = File
  BY <1>1 DEF Listed, Range
<1>5. ASSUME listed < Len(Manifest) PROVE Manifest[listed + 1] \in File \ Listed
  <2>1. listed + 1 \in DOMAIN Manifest /\ \A i \in 1..listed : i # listed + 1
    BY <1>1, <1>2, <1>5
  <2> QED BY <1>1, <1>2, <2>1 DEF Listed
<1> QED BY <1>3, <1>4, <1>5

LEMMA CategoryKept ==
  ASSUME mode' = mode, disk' = disk, NEW f
  PROVE  TrueCategory(f)' = TrueCategory(f) /\ NeedsHash(f)' = NeedsHash(f)
         /\ Compared(f)' = Compared(f)
BY DEF TrueCategory, NeedsHash, Compared

\* Newly recorded files are counted in their category.
LEMMA CountsStep ==
  ASSUME CountsExact, mode' = mode, disk' = disk, cause' = cause, NEW N \in SUBSET File,
         Recorded \subseteq File, Recorded' = Recorded \cup N, Recorded \cap N = {},
         \A c \in Category : counters'[c] = counters[c] + Cardinality({f \in N : TrueCategory(f) = c})
  PROVE  CountsExact'
<1> SUFFICES ASSUME cause = "none", NEW c \in Category
             PROVE  counters'[c] = Cardinality(RecordedAs(c)')
  BY DEF CountsExact
<1> DEFINE new == {f \in N : TrueCategory(f) = c}
<1>1. RecordedAs(c)' = RecordedAs(c) \cup new /\ RecordedAs(c) \cap new = {}
  BY CategoryKept DEF RecordedAs
<1>2. IsFiniteSet(RecordedAs(c)) /\ IsFiniteSet(new)
  <2>1. RecordedAs(c) \in SUBSET File /\ new \in SUBSET File
    BY DEF RecordedAs
  <2> QED BY <2>1, FilesFinite
<1>3. counters'[c] = Cardinality(RecordedAs(c)) + Cardinality(new)
  BY DEF CountsExact
<1> HIDE DEF new
<1> QED BY <1>1, <1>2, <1>3, CountApart

LEMMA NothingCounted ==
  ASSUME CountsExact, Numbers, mode' = mode, disk' = disk, cause' = cause, counters' = counters,
         Recorded' = Recorded
  PROVE  CountsExact'
BY CategoryKept DEF CountsExact, RecordedAs

\* A step takes X from the stages a and b to t and u, and records N.
Takes(X, a, b, t, u, N) ==
  /\ {a, b, t, u} \subseteq Stage /\ X \subseteq Hold[a] \cup Hold[b]
  /\ \A p \in Stage \ {a, b, t, u} : Hold'[p] = Hold[p]
  /\ \A p \in {a, b} \ {t, u} : Hold'[p] = Hold[p] \ X
  /\ Hold'[t] \cup Hold'[u] = (Hold[t] \cup Hold[u] \cup X) \ N
  /\ t # u => Hold'[t] \cap Hold'[u] = {}
  /\ N \subseteq Hold[t] \cup Hold[u] \cup X

LEMMA Placed ==
  ASSUME Apart, NEW a, NEW b, NEW t, NEW u, NEW X, NEW N, Takes(X, a, b, t, u, N)
  PROVE  Apart' /\ Unrecorded' = Unrecorded \ N /\ N \subseteq Unrecorded
<1>1. Disjoint(Stage, Hold)
  BY HoldSays DEF HoldMeaning
<1>2. \A p \in Stage \ {a, b, t, u} : Hold[p] \cap X = {}
  BY <1>1 DEF Disjoint, Takes
<1>3. Moved(Stage, Hold, Hold', a, b, X, t, u, N) /\ {a, b, t, u} \subseteq Stage
  BY <1>2 DEF Moved, Takes
<1>4. Disjoint(Stage, Hold') /\ Union(Stage, Hold') = (Union(Stage, Hold) \cup X) \ N
  BY <1>1, <1>3, MovedApart, MovedUnion
<1>5. X \subseteq Union(Stage, Hold) /\ N \subseteq Union(Stage, Hold)
  BY DEF Union, Takes
<1> QED BY <1>4, <1>5, HoldSays, HoldSaysNext DEF HoldMeaning

-----------------------------------------------------------------------------
(* The compare workers.                                                    *)

LEMMA WorkerPopsPlaces ==
  ASSUME Inv, NEW w \in CompareWorker, WorkerPops(w), UNCHANGED engineVars
  PROVE  PlaceInv' /\ Unrecorded' = Unrecorded
<1> DEFINE take == IF Len(tasks) < BatchPop THEN Len(tasks) ELSE BatchPop
           a == SubSeq(tasks, 1, take)
           b == SubSeq(tasks, take + 1, Len(tasks))
<1> USE DEF Inv, PlaceInv
<1>1. take \in 0..Len(tasks)
  BY CheckAssumption DEF Lists
<1>2. /\ batch[w] = <<>> /\ batch' = [batch EXCEPT ![w] = a] /\ tasks' = b
      /\ UNCHANGED <<mode, disk, buffer, results, issued, drained, stop>>
      /\ UNCHANGED <<delayed, hashQueue, awaiting, listed, counters, cause, requested,
                     serverHash, inFlight>>
  BY DEF WorkerPops, Idle, engineVars, mainVars, netVars
<1> HIDE DEF take
<1>3. /\ a \in Seq(File) /\ b \in Seq(File) /\ IsInjective(a) /\ IsInjective(b)
      /\ Range(a) \cap Range(b) = {} /\ Range(a) \cup Range(b) = Range(tasks)
  BY <1>1, SplitList DEF Lists, Once
<1> HIDE DEF a, b
<1>4. Lists'
  BY <1>2, <1>3, CategoryKept DEF Lists
<1>5. Once'
  BY <1>2, <1>3 DEF Lists, Once
<1>6. /\ Hold["tasks"] = Range(a) \cup Range(b) /\ Hold'["tasks"] = Range(b)
      /\ Hold[w] = {} /\ Hold'[w] = Range(a)
      /\ \A p \in Stage \ {"tasks", w} : Hold'[p] = Hold[p]
  BY <1>2, <1>3, HoldIs, HoldIsNext, StageCases, ListBasics DEF HoldShape, Lists
<1>7. "tasks" \in Stage /\ w \in Stage /\ w # "tasks"
  BY StageCases
<1>8. Apart' /\ Unrecorded' = Unrecorded
  <2>1. Takes(Range(a), "tasks", "tasks", w, w, {})
    BY <1>3, <1>6, <1>7 DEF Takes
  <2> QED BY <2>1, Placed
<1>9. Piped' = Piped
  <2>1. "tasks" \in PipeStage /\ w \in PipeStage /\ PipeStage \subseteq Stage
    BY StageCases DEF PipeStage
  <2>2. Union(PipeStage, Hold') = Union(PipeStage, Hold)
    BY <1>6, <2>1 DEF Union
  <2> QED BY <2>2, HoldSays, HoldSaysNext DEF HoldMeaning
<1>10. Listed' = Listed /\ Recorded' = Recorded
  BY <1>2, <1>8 DEF Listed, Recorded
<1> QED BY <1>2, <1>4, <1>5, <1>8, <1>9, <1>10, NothingCounted, CategoryKept
        DEF AllKnown, HashNeeded, NetExact, PipeExact

\* The files of a list of results.
LEMMA FilesOfResults ==
  ASSUME NEW r \in Seq({Compared(f) : f \in File}), NEW b \in Seq(File)
  PROVE  LET c == [i \in DOMAIN b |-> Compared(b[i])]
         IN  /\ r \o c \in Seq({Compared(f) : f \in File})
             /\ FilesOf(r) \in Seq(File) /\ FilesOf(r \o c) = FilesOf(r) \o b
<1> DEFINE R == {Compared(f) : f \in File}
           c == [i \in DOMAIN b |-> Compared(b[i])]
           t == r \o c
<1>1. Len(r) \in Nat /\ DOMAIN r = 1..Len(r) /\ Len(b) \in Nat /\ DOMAIN b = 1..Len(b)
  OBVIOUS
<1>2. c \in Seq(R) /\ Len(c) = Len(b)
  BY <1>1
<1>3. /\ t \in Seq(R) /\ DOMAIN t = 1..(Len(r) + Len(b))
      /\ \A i \in DOMAIN t : t[i] = IF i <= Len(r) THEN r[i] ELSE c[i - Len(r)]
  BY <1>2
<1>4. \A f : Compared(f).file = f
  BY DEF Compared
<1>5. FilesOf(r) \in Seq(File) /\ Len(FilesOf(r)) = Len(r)
  BY <1>1, <1>4 DEF FilesOf
<1>6. \A i \in DOMAIN b : c[i].file = b[i]
  BY <1>4
<1> HIDE DEF c, t, R
<1>7. /\ FilesOf(t) = [i \in 1..(Len(r) + Len(b)) |-> t[i].file]
      /\ \A i \in 1..Len(r) : FilesOf(r)[i] = r[i].file
  BY <1>1, <1>3 DEF FilesOf
<1>8. /\ FilesOf(r) \o b \in Seq(File) /\ DOMAIN (FilesOf(r) \o b) = 1..(Len(r) + Len(b))
      /\ \A i \in 1..(Len(r) + Len(b)) :
           (FilesOf(r) \o b)[i] = IF i <= Len(r) THEN FilesOf(r)[i] ELSE b[i - Len(r)]
  BY <1>1, <1>5, SMTT(30)
<1>9. \A i \in 1..(Len(r) + Len(b)) : t[i].file = (FilesOf(r) \o b)[i]
  <2> TAKE i \in 1..(Len(r) + Len(b))
  <2>1. CASE i <= Len(r)
    <3>1. i \in 1..Len(r) /\ i \in DOMAIN t
      BY <1>1, <1>3, <2>1
    <3>2. t[i] = r[i] /\ (FilesOf(r) \o b)[i] = FilesOf(r)[i]
      BY <1>3, <1>8, <2>1, <3>1
    <3> QED BY <1>7, <3>1, <3>2
  <2>2. CASE ~(i <= Len(r))
    <3>1. i - Len(r) \in DOMAIN b
      BY <1>1, <2>2
    <3> QED BY <1>3, <1>6, <1>8, <2>2, <3>1
  <2> QED BY <2>1, <2>2
<1>10. FilesOf(t) = FilesOf(r) \o b
  <2> DEFINE g == FilesOf(r) \o b
  <2>3. g \in Seq(File) /\ DOMAIN g = 1..(Len(r) + Len(b))
    BY <1>8
  <2> HIDE DEF g
  <2>1. g = [i \in 1..(Len(r) + Len(b)) |-> g[i]]
    <3>1. g = [i \in 1..Len(g) |-> g[i]] /\ DOMAIN g = 1..Len(g)
      BY <2>3
    <3> QED BY <2>3, <3>1
  <2>2. \A i \in 1..(Len(r) + Len(b)) : t[i].file = g[i]
    BY <1>9 DEF g
  <2> QED BY <1>7, <2>1, <2>2 DEF g
<1> QED BY <1>3, <1>5, <1>10 DEF c, t, R

LEMMA WorkerPublishesPlaces ==
  ASSUME Inv, NEW w \in CompareWorker, WorkerPublishes(w), UNCHANGED engineVars
  PROVE  PlaceInv' /\ Unrecorded' = Unrecorded
<1> USE DEF Inv, PlaceInv
<1> DEFINE c == [i \in DOMAIN batch[w] |-> Compared(batch[w][i])]
<1>1. /\ results' = results \o c /\ batch' = [batch EXCEPT ![w] = <<>>]
      /\ UNCHANGED <<mode, disk, buffer, tasks, issued, drained, stop>>
      /\ UNCHANGED <<delayed, hashQueue, awaiting, listed, counters, cause, requested,
                     serverHash, inFlight>>
  BY DEF WorkerPublishes, engineVars, mainVars, netVars
<1>2. batch[w] \in Seq(File) /\ IsInjective(batch[w])
  BY DEF Lists, Once
<1>3. /\ results' \in Seq({Compared(f) : f \in File})
      /\ FilesOf(results) \in Seq(File) /\ FilesOf(results') = FilesOf(results) \o batch[w]
  BY <1>1, <1>2, FilesOfResults DEF Lists
<1> HIDE DEF c
<1>4. "results" \in Stage /\ w \in Stage /\ w # "results"
  BY StageCases
<1>5. Range(FilesOf(results)) \cap Range(batch[w]) = {}
  BY <1>4, HeldIs DEF Apart
<1>6. /\ IsInjective(FilesOf(results'))
      /\ Range(FilesOf(results')) = Range(FilesOf(results)) \cup Range(batch[w])
  BY <1>2, <1>3, <1>5, ConcatList DEF Once
<1>7. Range(<<>>) = {} /\ IsInjective(<<>>) /\ <<>> \in Seq(File)
  BY ListBasics, <1>2
<1>8. Lists'
  BY <1>1, <1>3, <1>7, CategoryKept DEF Lists
<1>9. Once'
  BY <1>1, <1>6, <1>7 DEF Lists, Once
<1>10. /\ Hold'["results"] = Hold["results"] \cup Hold[w] /\ Hold'[w] = {}
       /\ \A p \in Stage \ {"results", w} : Hold'[p] = Hold[p]
  BY <1>1, <1>6, <1>7, HoldIs, HoldIsNext, StageCases DEF HoldShape, Lists
<1>11. Apart' /\ Unrecorded' = Unrecorded
  <2>1. Takes(Hold[w], w, w, "results", "results", {})
    BY <1>4, <1>10 DEF Takes
  <2> QED BY <2>1, Placed
<1>12. Piped' = Piped
  <2>1. "results" \in PipeStage /\ w \in PipeStage /\ PipeStage \subseteq Stage
    BY StageCases DEF PipeStage
  <2>2. Union(PipeStage, Hold') = Union(PipeStage, Hold)
    BY <1>4, <1>10, <2>1 DEF Union
  <2> QED BY <2>2, HoldSays, HoldSaysNext DEF HoldMeaning
<1>13. Listed' = Listed /\ Recorded' = Recorded
  BY <1>1, <1>11 DEF Listed, Recorded
<1> QED BY <1>1, <1>8, <1>9, <1>11, <1>12, <1>13, NothingCounted, CategoryKept
        DEF AllKnown, HashNeeded, NetExact, PipeExact

-----------------------------------------------------------------------------
(* Fill and the manifest.                                                  *)

LEMMA FillBound ==
  ASSUME Inv
  PROVE  Min({Len(delayed), Max({0, CompareInFlightCap - InFlight})}) \in 0..Len(delayed)
<1> USE DEF Inv, PlaceInv
<1> DEFINE m == Max({0, CompareInFlightCap - InFlight})
<1>1. CompareInFlightCap - InFlight \in Int
  BY CheckAssumption DEF InFlight, Numbers
<1>2. m \in Nat
  BY <1>1, MaxZero
<1>5. Len(delayed) \in Nat
  BY DEF Lists
<1> HIDE DEF m
<1>3. Min({Len(delayed), m}) \in {Len(delayed), m} /\ Min({Len(delayed), m}) <= Len(delayed)
  <2>1. m \in Int /\ Len(delayed) \in Int
    BY <1>2, <1>5
  <2> QED BY <2>1, MinMaxTwo
<1>4. Min({Len(delayed), m}) \in 0..Len(delayed)
  BY <1>2, <1>5, <1>3
<1> QED BY <1>4 DEF m

LEMMA FillPlaces ==
  ASSUME Inv, Fill
  PROVE  PlaceInv' /\ Unrecorded' = Unrecorded
<1> USE DEF Inv, PlaceInv
<1> DEFINE k == Min({Len(delayed), Max({0, CompareInFlightCap - InFlight})})
           a == SubSeq(delayed, 1, k)
           b == SubSeq(delayed, k + 1, Len(delayed))
           all == buffer \o a
<1>1. k \in 0..Len(delayed)
  BY FillBound
<1>2. /\ issued' = issued + Len(a) /\ tasks' = tasks \o all /\ buffer' = <<>> /\ delayed' = b
      /\ UNCHANGED <<mode, disk, results, drained, stop, batch>>
      /\ UNCHANGED <<hashQueue, awaiting, listed, counters, cause, requested,
                     serverHash, inFlight>>
  BY DEF Fill, EnqueueAndFlush, netVars
<1> HIDE DEF k
<1>3. /\ a \in Seq(File) /\ b \in Seq(File) /\ Len(a) = k /\ IsInjective(a) /\ IsInjective(b)
      /\ Range(a) \cap Range(b) = {} /\ Range(a) \cup Range(b) = Range(delayed)
  BY <1>1, SplitList DEF Lists, Once
<1> HIDE DEF a, b
<1>4. /\ {"delayed", "buffer", "tasks"} \subseteq Stage
      /\ Range(buffer) \cap Range(delayed) = {} /\ Range(buffer) \cap Range(tasks) = {}
      /\ Range(delayed) \cap Range(tasks) = {}
  BY StageCases, HeldIs DEF Apart
<1>5. /\ buffer \in Seq(File) /\ tasks \in Seq(File) /\ IsInjective(buffer) /\ IsInjective(tasks)
  BY DEF Lists, Once
<1>6. all \in Seq(File) /\ IsInjective(all) /\ Range(all) = Range(buffer) \cup Range(a)
  BY <1>3, <1>4, <1>5, ConcatList
<1> HIDE DEF all
<1>7. /\ tasks' \in Seq(File) /\ IsInjective(tasks')
      /\ Range(tasks') = Range(tasks) \cup Range(buffer) \cup Range(a)
  <2>1. Range(tasks) \cap Range(all) = {}
    BY <1>3, <1>4, <1>6
  <2> QED BY <1>2, <1>5, <1>6, <2>1, ConcatList
<1>8. Range(<<>>) = {} /\ IsInjective(<<>>) /\ <<>> \in Seq(File)
  BY ListBasics, <1>5
<1>9. Lists'
  BY <1>2, <1>3, <1>7, <1>8, CategoryKept DEF Lists
<1>10. Once'
  BY <1>2, <1>3, <1>7, <1>8 DEF Once
<1>11. /\ Hold["delayed"] = Range(a) \cup Range(b) /\ Hold'["delayed"] = Range(b)
       /\ Hold["buffer"] = Range(buffer) /\ Hold'["buffer"] = {}
       /\ Hold["tasks"] = Range(tasks)
       /\ Hold'["tasks"] = Range(tasks) \cup Range(buffer) \cup Range(a)
       /\ \A p \in Stage \ {"delayed", "buffer", "tasks"} : Hold'[p] = Hold[p]
  BY <1>2, <1>3, <1>7, <1>8, HoldIs, HoldIsNext, StageCases DEF HoldShape
<1>12. Apart' /\ Unrecorded' = Unrecorded
  <2>1. Takes(Range(a) \cup Range(buffer), "delayed", "buffer", "tasks", "tasks", {})
    BY <1>3, <1>4, <1>11 DEF Takes
  <2> QED BY <2>1, Placed
<1>13. PipeExact'
  <2>1. {"buffer", "tasks"} \subseteq PipeStage /\ PipeStage \subseteq Stage \ {"delayed"}
    BY StageCases DEF PipeStage
  <2>2. Union(PipeStage, Hold') = Union(PipeStage, Hold) \cup Range(a)
    BY <1>11, <2>1 DEF Union
  <2>3. Union(PipeStage, Hold) \cap Range(a) = {}
    <3>1. Disjoint(Stage, Hold) /\ Range(a) \subseteq Hold["delayed"]
      BY HoldSays, <1>11 DEF HoldMeaning
    <3> QED BY <1>4, <2>1, <3>1 DEF Disjoint, Union
  <2>4. Piped' = Piped \cup Range(a) /\ Piped \cap Range(a) = {}
    BY <2>2, <2>3, HoldSays, HoldSaysNext DEF HoldMeaning
  <2>5. Piped \subseteq File
    <3>1. Unrecorded \subseteq File
      BY ListedFiles DEF AllKnown
    <3> QED BY <2>1, <3>1 DEF Piped, Unrecorded
  <2>6. IsFiniteSet(Piped) /\ IsFiniteSet(Range(a)) /\ Cardinality(Range(a)) = Len(a)
    BY <1>3, <2>5, FilesFinite, CountList
  <2>7. Cardinality(Piped') = Cardinality(Piped) + Len(a) /\ Len(a) \in Nat
    BY <1>3, <2>4, <2>6, CountApart
  <2> QED BY <1>2, <2>7 DEF PipeExact, Numbers
<1>14. Listed' = Listed /\ Recorded' = Recorded
  BY <1>2, <1>12 DEF Listed, Recorded
<1> QED BY <1>2, <1>9, <1>10, <1>12, <1>13, <1>14, NothingCounted, CategoryKept
        DEF AllKnown, HashNeeded, NetExact

\* A step brings a new f to the stage t.
Arrives(f, t) ==
  /\ t \in Stage /\ f \notin Unrecorded /\ Hold'[t] = Hold[t] \cup {f}
  /\ \A p \in Stage \ {t} : Hold'[p] = Hold[p]

LEMMA Arrived ==
  ASSUME Apart, NEW f, NEW t, Arrives(f, t)
  PROVE  Apart' /\ Unrecorded' = Unrecorded \cup {f}
<1>1. Disjoint(Stage, Hold) /\ f \notin Union(Stage, Hold)
  BY HoldSays DEF HoldMeaning, Arrives
<1>2. \A p \in Stage : f \notin Hold[p]
  BY <1>1 DEF Union
<1>3. Disjoint(Stage, Hold')
  BY <1>1, <1>2 DEF Disjoint, Arrives
<1>4. Union(Stage, Hold') = Union(Stage, Hold) \cup {f}
  BY DEF Arrives, Union
<1> QED BY <1>3, <1>4, HoldSays, HoldSaysNext DEF HoldMeaning

LEMMA RecvManifestEntryPlaces ==
  ASSUME Inv, RecvManifestEntry
  PROVE  PlaceInv'
<1> USE DEF Inv, PlaceInv
<1> DEFINE f == Manifest[listed + 1]
<1>1. /\ listed < Len(Manifest) /\ listed' = listed + 1
      /\ UNCHANGED <<hashQueue, awaiting, counters, cause, requested, serverHash, inFlight>>
      /\ UNCHANGED <<mode, disk, tasks, results, drained, batch>>
      /\ \/ delayed' = Append(delayed, f) /\ UNCHANGED <<buffer, issued>>
         \/ buffer' = Append(buffer, f) /\ issued' = issued + 1 /\ delayed' = delayed
  BY DEF RecvManifestEntry, Enqueue, netVars, pipelineVars
<1>2. f \in File /\ f \notin Listed /\ Listed \subseteq File
  BY <1>1, ListedFiles
<1>3. Listed' = Listed \cup {f}
  <2>1. 1..(listed + 1) = (1..listed) \cup {listed + 1}
    BY DEF Numbers
  <2> QED BY <1>1, <2>1 DEF Listed
<1> HIDE DEF f
<1>4. f \notin Unrecorded
  BY <1>2 DEF AllKnown
<1>5. {"delayed", "buffer"} \subseteq Stage
  BY StageCases
<1>6. f \notin Range(delayed) /\ f \notin Range(buffer)
  BY <1>4, <1>5, HeldIs DEF Unrecorded
<1>7. ASSUME NEW t, Arrives(f, t)
      PROVE  Apart' /\ AllKnown' /\ Recorded' = Recorded /\ CountsExact'
  <2>1. Apart' /\ Unrecorded' = Unrecorded \cup {f}
    BY <1>7, Arrived
  <2>2. AllKnown' /\ Recorded' = Recorded
    BY <1>2, <1>3, <2>1 DEF AllKnown, Recorded
  <2> QED BY <1>1, <2>1, <2>2, NothingCounted
<1>8. HashNeeded' /\ NetExact'
  BY <1>1, CategoryKept DEF HashNeeded, NetExact
<1>9. CASE delayed' = Append(delayed, f) /\ UNCHANGED <<buffer, issued>>
  <2>1. /\ delayed' \in Seq(File) /\ IsInjective(delayed')
        /\ Range(delayed') = Range(delayed) \cup {f}
    BY <1>2, <1>6, <1>9, AppendList DEF Lists, Once
  <2>2. Lists' /\ Once'
    BY <1>1, <1>9, <2>1, CategoryKept DEF Lists, Once
  <2>3. /\ Hold'["delayed"] = Hold["delayed"] \cup {f}
        /\ \A p \in Stage \ {"delayed"} : Hold'[p] = Hold[p]
    BY <1>1, <1>9, <2>1, HoldIs, HoldIsNext, StageCases DEF HoldShape
  <2>4. Arrives(f, "delayed")
    BY <1>4, <1>5, <2>3 DEF Arrives
  <2>5. Piped' = Piped
    <3>1. PipeStage \subseteq Stage \ {"delayed"}
      BY StageCases DEF PipeStage
    <3>2. Union(PipeStage, Hold') = Union(PipeStage, Hold)
      BY <2>3, <3>1 DEF Union
    <3> QED BY <3>2, HoldSays, HoldSaysNext DEF HoldMeaning
  <2>6. PipeExact'
    BY <1>1, <1>9, <2>5 DEF PipeExact
  <2> QED BY <1>7, <1>8, <2>2, <2>4, <2>6
<1>10. CASE buffer' = Append(buffer, f) /\ issued' = issued + 1 /\ delayed' = delayed
  <2>1. /\ buffer' \in Seq(File) /\ IsInjective(buffer')
        /\ Range(buffer') = Range(buffer) \cup {f}
    BY <1>2, <1>6, <1>10, AppendList DEF Lists, Once
  <2>2. Lists' /\ Once'
    BY <1>1, <1>10, <2>1, CategoryKept DEF Lists, Once
  <2>3. /\ Hold'["buffer"] = Hold["buffer"] \cup {f}
        /\ \A p \in Stage \ {"buffer"} : Hold'[p] = Hold[p]
    BY <1>1, <1>10, <2>1, HoldIs, HoldIsNext, StageCases DEF HoldShape
  <2>4. Arrives(f, "buffer")
    BY <1>4, <1>5, <2>3 DEF Arrives
  <2>5. Piped' = Piped \cup {f} /\ f \notin Piped /\ Piped \subseteq File
    <3>1. PipeStage \subseteq Stage /\ "buffer" \in PipeStage
      BY StageCases DEF PipeStage
    <3>2. Union(PipeStage, Hold') = Union(PipeStage, Hold) \cup {f}
      BY <2>3, <3>1 DEF Union
    <3>3. Piped \subseteq Unrecorded
      BY <3>1 DEF Piped, Unrecorded
    <3> QED BY <1>2, <1>4, <3>2, <3>3, HoldSays, HoldSaysNext DEF HoldMeaning, AllKnown
  <2>6. PipeExact'
    <3>1. IsFiniteSet(Piped) /\ Cardinality(Piped') = Cardinality(Piped) + 1
      BY <2>5, FilesFinite, FS_AddElement
    <3> QED BY <1>1, <1>10, <3>1 DEF PipeExact, Numbers
  <2> QED BY <1>7, <1>8, <2>2, <2>4, <2>6
<1> QED BY <1>1, <1>9, <1>10

-----------------------------------------------------------------------------
(* What metadata and hashes say.                                           *)

LEMMA MetadataTells ==
  ASSUME Inputs, NEW f \in File, ~NeedsHash(f)
  PROVE  DecideCompare(mode, disk[f], Remote[f]).category = TrueCategory(f)
BY DEF Inputs, NeedsHash, DecideCompare, TrueCategory

LEMMA HashTells ==
  ASSUME Inputs, NEW f \in File, NeedsHash(f), NEW r \in {e.content : e \in disk[f]}
  PROVE  ClassifyByHash(TRUE, r, Remote[f].content) = TrueCategory(f)
<1> DEFINE l == CHOOSE e \in disk[f] : TRUE
<1>1. PICK e \in disk[f] : r = e.content
  OBVIOUS
<1>2. l \in disk[f] /\ l = e
  BY <1>1 DEF Inputs
<1> HIDE DEF l
<1>3. /\ disk[f] # {} /\ l.size = Remote[f].size
      /\ mode = "Strict" \/ (mode = "Fast" /\ ~MtimeWithinTolerance(l.mtime, Remote[f].mtime))
  BY <1>1 DEF NeedsHash, DecideCompare, l
<1> QED BY <1>1, <1>2, <1>3 DEF TrueCategory, ClassifyByHash, l

LEMMA CategoryType ==
  ASSUME NEW f
  PROVE  TrueCategory(f) \in Category
BY DEF TrueCategory, Category

-----------------------------------------------------------------------------
(* The steps that pump.                                                    *)

LEMMA PumpPlaces ==
  ASSUME Inv, Pump
  PROVE  PlaceInv' /\ Unrecorded' \subseteq Unrecorded
<1> USE DEF Inv, PlaceInv
<1>1. /\ Pumps(hashQueue, awaiting, inFlight, hashWindow, requested, "tune")
      /\ UNCHANGED <<mode, disk, buffer, tasks, results, issued, drained, stop, worker, batch>>
      /\ UNCHANGED <<delayed, listed, counters, serverHash>>
  BY DEF Pump, pipelineVars
<1>2. /\ {"hashQueue", "awaiting"} \subseteq Stage /\ Range(hashQueue) \cap awaiting = {}
      /\ Range(hashQueue) \subseteq File
  BY StageCases, HeldIs, ListBasics DEF Apart, Lists
<1>3. /\ hashQueue' \in Seq(File) /\ IsInjective(hashQueue')
      /\ Range(hashQueue') \subseteq Range(hashQueue)
      /\ awaiting' \subseteq awaiting \cup Range(hashQueue)
      /\ Range(hashQueue') \cap awaiting' = {} /\ awaiting \subseteq awaiting'
      /\ requested' \subseteq requested \cup Range(hashQueue) /\ requested' \subseteq awaiting'
      /\ inFlight' = Cardinality(requested')
      /\ \/ cause' = cause /\ Range(hashQueue') \cup awaiting' = Range(hashQueue) \cup awaiting
         \/ cause' = "disconnected"
  <2>1. /\ hashQueue \in Seq(File) /\ IsInjective(hashQueue) /\ awaiting \in SUBSET File
        /\ requested \in SUBSET awaiting /\ inFlight = Cardinality(requested)
        /\ hashWindow \in Nat /\ hashTasks \in Seq(File) /\ hashCap \in Nat
        /\ DOMAIN hasher = HashWorker
    BY DEF Lists, Once, NetExact, Numbers, Hashed
  <2> QED BY <1>1, <1>2, <2>1, PumpsEffect
<1>4. Lists' /\ Once'
  BY <1>1, <1>2, <1>3, CategoryKept DEF Lists, Once
<1>5. /\ Hold["hashQueue"] = Range(hashQueue) /\ Hold'["hashQueue"] = Range(hashQueue')
      /\ Hold["awaiting"] = awaiting /\ Hold'["awaiting"] = awaiting'
      /\ \A p \in Stage \ {"hashQueue", "awaiting"} : Hold'[p] = Hold[p]
  BY <1>1, HoldIs, HoldIsNext, StageCases DEF HoldShape
<1> DEFINE N == (Range(hashQueue) \cup awaiting) \ (Range(hashQueue') \cup awaiting')
<1>6. Takes({}, "hashQueue", "awaiting", "hashQueue", "awaiting", N)
  BY <1>2, <1>3, <1>5 DEF Takes
<1>7. Apart' /\ Unrecorded' = Unrecorded \ N
  BY <1>6, Placed
<1>8. PipeExact'
  <2>1. PipeStage \subseteq Stage \ {"hashQueue", "awaiting"}
    BY StageCases DEF PipeStage
  <2>2. Union(PipeStage, Hold') = Union(PipeStage, Hold)
    BY <1>5, <2>1 DEF Union
  <2> QED BY <1>1, <2>2, HoldSays, HoldSaysNext DEF HoldMeaning, PipeExact
<1>9. AllKnown' /\ HashNeeded'
  BY <1>1, <1>3, <1>7, CategoryKept DEF AllKnown, HashNeeded, Listed
<1>10. NetExact'
  BY <1>1, <1>2, <1>3 DEF NetExact
<1>11. CountsExact'
  <2>1. CASE cause' = "disconnected"
    BY <2>1 DEF CountsExact
  <2>2. CASE cause' = cause /\ Range(hashQueue') \cup awaiting' = Range(hashQueue) \cup awaiting
    <3>1. Recorded' = Recorded
      BY <1>1, <1>7, <2>2 DEF Recorded, Listed
    <3> QED BY <1>1, <2>2, <3>1, NothingCounted
  <2> QED BY <1>3, <2>1, <2>2
<1> QED BY <1>4, <1>7, <1>8, <1>9, <1>10, <1>11

LEMMA RecvHashResponsePlaces ==
  ASSUME Inv, NEW f \in File, RecvHashResponse(f)
  PROVE  PlaceInv' /\ Unrecorded' \subseteq Unrecorded
<1> USE DEF Inv, PlaceInv
<1> DEFINE paired == localResult[f] # NoResult
           cat == ClassifyByHash(TRUE, localResult[f], Remote[f].content)
           waiting == IF paired THEN awaiting \ {f} ELSE awaiting
<1>1. /\ f \in requested /\ hashWindow' \in NextNetWindow(hashWindow)
      /\ UNCHANGED <<mode, disk, buffer, tasks, results, issued, drained, stop, worker, batch>>
      /\ UNCHANGED <<delayed, listed>>
  BY DEF RecvHashResponse, pipelineVars
<1>2. /\ {"hashQueue", "awaiting"} \subseteq Stage /\ Range(hashQueue) \cap awaiting = {}
      /\ Range(hashQueue) \subseteq File /\ f \in awaiting /\ f \notin serverHash
      /\ requested \subseteq awaiting /\ serverHash \subseteq awaiting
  BY <1>1, StageCases, HeldIs, ListBasics DEF Apart, Lists, NetExact
<1>3. /\ IsFiniteSet(requested) /\ Cardinality(requested \ {f}) = inFlight - 1
      /\ inFlight - 1 \in Nat
  <2>1. requested \in SUBSET File
    BY <1>2 DEF Lists
  <2>2. /\ IsFiniteSet(requested)
        /\ Cardinality(requested \ {f}) = Cardinality(requested) - 1
        /\ IsFiniteSet(requested \ {f})
    BY <1>1, <2>1, FilesFinite, FS_RemoveElement
  <2>3. Cardinality(requested \ {f}) \in Nat
    BY <2>2, FS_CardinalityType
  <2> QED BY <2>2, <2>3 DEF NetExact
<1>4. CASE localResult[f] = "Failed"
  <2>1. /\ inFlight' = inFlight - 1 /\ requested' = requested \ {f}
        /\ UNCHANGED <<serverHash, counters, hashQueue, awaiting, cause>>
    BY <1>4 DEF RecvHashResponse
  <2>2. Hold' = Hold
    BY <1>1, <2>1 DEF Hold, Held, Entries
  <2>3. Apart' /\ Unrecorded' = Unrecorded /\ Piped' = Piped
    BY <2>2, HoldSays, HoldSaysNext DEF HoldMeaning
  <2>4. Listed' = Listed /\ Recorded' = Recorded
    BY <1>1, <2>3 DEF Listed, Recorded
  <2>5. Lists' /\ Once' /\ HashNeeded'
    BY <1>1, <2>1, CategoryKept DEF Lists, Once, HashNeeded
  <2>6. NetExact'
    BY <1>3, <2>1 DEF NetExact
  <2> QED BY <1>1, <2>1, <2>3, <2>4, <2>5, <2>6, NothingCounted DEF AllKnown, PipeExact
<1>5. CASE localResult[f] # "Failed"
  <2>1. /\ counters' = IF paired THEN Counted(cat, 1) ELSE counters
        /\ serverHash' = IF paired THEN serverHash \ {f} ELSE serverHash \cup {f}
        /\ Pumps(hashQueue, waiting, inFlight - 1, hashWindow', requested \ {f}, AfterFrame)
    BY <1>5, Zenon DEF RecvHashResponse
  <2>2. hashWindow' \in Nat
    BY <1>1, WindowType DEF Numbers
  <2>3. /\ hashQueue \in Seq(File) /\ IsInjective(hashQueue) /\ waiting \in SUBSET File
        /\ Range(hashQueue) \cap waiting = {} /\ requested \ {f} \in SUBSET waiting
        /\ hashTasks \in Seq(File) /\ hashCap \in Nat /\ DOMAIN hasher = HashWorker
    BY <1>2 DEF Lists, Once, Numbers, Hashed
  <2> DEFINE asked == requested \ {f}
             flying == inFlight - 1
  <2> HIDE DEF waiting, cat, paired, asked, flying
  <2>4. /\ asked \in SUBSET waiting /\ flying = Cardinality(asked)
        /\ Pumps(hashQueue, waiting, flying, hashWindow', asked, AfterFrame)
    BY <1>3, <2>1, <2>3 DEF asked, flying
  <2>5. /\ hashQueue' \in Seq(File) /\ IsInjective(hashQueue')
        /\ Range(hashQueue') \subseteq Range(hashQueue)
        /\ awaiting' \subseteq waiting \cup Range(hashQueue)
        /\ Range(hashQueue') \cap awaiting' = {} /\ waiting \subseteq awaiting'
        /\ requested' \subseteq asked \cup Range(hashQueue) /\ requested' \subseteq awaiting'
        /\ inFlight' = Cardinality(requested')
        /\ \/ cause' = cause /\ Range(hashQueue') \cup awaiting' = Range(hashQueue) \cup waiting
           \/ cause' = "disconnected"
    BY <2>2, <2>3, <2>4, PumpsEffect
  <2>6. /\ waiting \subseteq awaiting /\ awaiting \ {f} \subseteq waiting
        /\ (f \in waiting) = ~paired
    BY <1>2 DEF waiting
  <2>7. Lists' /\ Once'
    BY <1>1, <1>2, <2>3, <2>5, CategoryKept DEF Lists, Once
  <2>8. /\ Hold["hashQueue"] = Range(hashQueue) /\ Hold'["hashQueue"] = Range(hashQueue')
        /\ Hold["awaiting"] = awaiting /\ Hold'["awaiting"] = awaiting'
        /\ \A p \in Stage \ {"hashQueue", "awaiting"} : Hold'[p] = Hold[p]
    BY <1>1, HoldIs, HoldIsNext, StageCases DEF HoldShape
  <2> DEFINE N == (Range(hashQueue) \cup awaiting) \ (Range(hashQueue') \cup awaiting')
  <2>9. Takes({}, "hashQueue", "awaiting", "hashQueue", "awaiting", N)
    BY <1>2, <2>5, <2>6, <2>8 DEF Takes
  <2>10. Apart' /\ Unrecorded' = Unrecorded \ N /\ N \subseteq Unrecorded
    BY <2>9, Placed
  <2>11. PipeExact'
    <3>1. PipeStage \subseteq Stage \ {"hashQueue", "awaiting"}
      BY StageCases DEF PipeStage
    <3>2. Union(PipeStage, Hold') = Union(PipeStage, Hold)
      BY <2>8, <3>1 DEF Union
    <3> QED BY <1>1, <3>2, HoldSays, HoldSaysNext DEF HoldMeaning, PipeExact
  <2>12. AllKnown' /\ HashNeeded'
    BY <1>1, <2>5, <2>6, <2>10, CategoryKept DEF AllKnown, HashNeeded, Listed
  <2>13. NetExact'
    <3>1. serverHash' \subseteq awaiting'
      BY <1>2, <2>1, <2>5, <2>6
    <3>2. requested' \cap serverHash' = {}
      BY <1>2, <2>1, <2>5, <2>6 DEF asked, NetExact
    <3> QED BY <2>5, <3>1, <3>2 DEF NetExact
  <2>14. CountsExact'
    <3>1. CASE cause' = "disconnected"
      BY <3>1 DEF CountsExact
    <3>2. CASE cause' = cause /\ Range(hashQueue') \cup awaiting' = Range(hashQueue) \cup waiting
      <4>1. N = IF paired THEN {f} ELSE {}
        BY <1>2, <2>6, <3>2
      <4>2. Recorded' = Recorded \cup N /\ Recorded \cap N = {} /\ Recorded \subseteq File
        BY <1>1, <2>10, ListedFiles DEF Recorded, Listed, AllKnown
      <4> HIDE DEF N
      <4>3. CASE ~paired
        <5>1. Recorded' = Recorded /\ counters' = counters
          BY <2>1, <4>1, <4>2, <4>3
        <5> QED BY <1>1, <3>2, <5>1, NothingCounted
      <4>4. CASE paired
        <5>1. localResult[f] \in {e.content : e \in disk[f]}
          BY <1>5, <4>4 DEF Hashed, paired
        <5>2. NeedsHash(f)
          BY <1>2 DEF HashNeeded
        <5>3. cat = TrueCategory(f) /\ cat \in Category
          BY <5>1, <5>2, HashTells, CategoryType DEF cat
        <5>4. ASSUME NEW c \in Category
              PROVE  counters'[c] = counters[c] + Cardinality({g \in N : TrueCategory(g) = c})
          <6>1. counters' = [counters EXCEPT ![cat] = @ + 1] /\ counters[c] \in Nat
                /\ counters \in [{"Same", "Diff", "Missing", "Extra"} -> Nat]
                /\ c \in {"Same", "Diff", "Missing", "Extra"}
            BY <2>1, <4>4 DEF Counted, Numbers, Category
          <6>2. {g \in N : TrueCategory(g) = c} = IF c = cat THEN {f} ELSE {}
            BY <4>1, <4>4, <5>3
          <6>3. Cardinality({f}) = 1 /\ Cardinality({}) = 0
            BY FS_Singleton, FS_EmptySet
          <6>4. CASE c = cat
            BY <6>1, <6>2, <6>3, <6>4
          <6>5. CASE c # cat
            BY <6>1, <6>2, <6>3, <6>5
          <6> QED BY <6>4, <6>5
        <5>5. N \in SUBSET File
          BY <4>1
        <5> QED BY <1>1, <3>2, <4>2, <5>4, <5>5, CountsStep
      <4> QED BY <4>3, <4>4
    <3> QED BY <2>5, <3>1, <3>2
  <2> QED BY <2>7, <2>10, <2>11, <2>12, <2>13, <2>14
<1> QED BY <1>4, <1>5

\* Every result that pairs is of a file that was hashed.
LEMMA PairedAreHashed ==
  ASSUME Inv
  PROVE  LET seen == {ready[i] : i \in {j \in 1..PairedUpTo : Pairable(j)}}
         IN  /\ seen \subseteq awaiting \cap serverHash
             /\ \A f \in seen : f \in File /\ localResult[f] # NoResult /\ NeedsHash(f)
<1> DEFINE ends == {i \in DOMAIN ready : Pairable(i) /\ (localReadFailed
                                                        \/ localResult[ready[i]] = "Failed")}
<1>1. ready \in Seq(File) /\ Len(ready) \in Nat /\ DOMAIN ready = 1..Len(ready)
  BY DEF Inv, Hashed
<1>2. PairedUpTo \in 0..Len(ready)
  <2> DEFINE T == {Len(ready)} \cup ends
  <2>1. T \subseteq Nat /\ T # {} /\ Len(ready) \in T
    BY <1>1
  <2> HIDE DEF T
  <2>2. Min(T) \in T /\ \A y \in T : Min(T) <= y
    BY <2>1, MinOfNaturals
  <2>3. Min(T) \in Nat /\ Min(T) <= Len(ready)
    BY <2>1, <2>2
  <2>4. PairedUpTo = Min(T)
    BY DEF PairedUpTo, T
  <2> QED BY <1>1, <2>3, <2>4
<1>3. \A i \in 1..PairedUpTo : i \in DOMAIN ready
  BY <1>1, <1>2
<1>4. \A i \in 1..PairedUpTo : Pairable(i) =>
        /\ ready[i] \in awaiting \cap serverHash /\ ready[i] \in Range(ready)
  BY <1>3 DEF Pairable, Range
<1>5. \A f \in Range(ready) : localResult[f] # NoResult
  BY DEF Inv, Hashed
<1>6. \A f \in awaiting : f \in File /\ NeedsHash(f)
  BY DEF Inv, PlaceInv, Lists, HashNeeded
<1> QED BY <1>4, <1>5, <1>6

LEMMA DrainsReadyPlaces ==
  ASSUME Inv, DrainsReady,
         UNCHANGED <<pipelineVars, delayed, hashQueue, listed, requested, inFlight, cause>>
  PROVE  /\ PlaceInv' /\ Unrecorded' \subseteq Unrecorded
         /\ counters' \in [{"Same", "Diff", "Missing", "Extra"} -> Nat]
         /\ counters'["Extra"] = counters["Extra"]
<1> USE DEF Inv, PlaceInv
<1> DEFINE seen == {ready[i] : i \in {j \in 1..PairedUpTo : Pairable(j)}}
           N == {f \in seen : localResult[f] # "Failed"}
           cat(f) == ClassifyByHash(TRUE, localResult[f], Remote[f].content)
           C == {"Same", "Diff", "Missing", "Extra"}
<1>1. /\ counters' = [c \in DOMAIN counters |->
                        counters[c] + Cardinality({f \in N : cat(f) = c})]
      /\ awaiting' = awaiting \ N /\ serverHash' = serverHash \ N
      /\ UNCHANGED <<mode, disk, buffer, tasks, results, issued, drained, batch>>
  BY DEF DrainsReady, pipelineVars
<1>2. /\ seen \subseteq awaiting \cap serverHash
      /\ \A f \in seen : f \in File /\ localResult[f] # NoResult /\ NeedsHash(f)
  BY PairedAreHashed
<1> HIDE DEF seen
<1>3. ASSUME NEW f \in N PROVE cat(f) = TrueCategory(f) /\ f \in File /\ f \in awaiting \cap serverHash
  <2>1. f \in File /\ NeedsHash(f) /\ localResult[f] \in {e.content : e \in disk[f]}
    BY <1>2 DEF Hashed
  <2> QED BY <1>2, <2>1, HashTells
<1>4. \A c : {f \in N : cat(f) = c} = {f \in N : TrueCategory(f) = c}
  BY <1>3
<1>5. N \in SUBSET File /\ N \subseteq awaiting \cap serverHash
  BY <1>3
<1> HIDE DEF N
<1>6. counters \in [C -> Nat]
  BY DEF Numbers
<1>7. \A c \in C : counters'[c] = counters[c] + Cardinality({f \in N : TrueCategory(f) = c})
  BY <1>1, <1>4, <1>6
<1>8. \A c \in C : Cardinality({f \in N : TrueCategory(f) = c}) \in Nat
  BY <1>5, FilesFinite
<1>9. counters' \in [C -> Nat]
  <2>1. counters' = [c \in C |-> counters'[c]]
    BY <1>1, <1>6
  <2>2. \A c \in C : counters'[c] \in Nat
    BY <1>6, <1>7, <1>8
  <2> QED BY <2>1, <2>2
<1>10. counters'["Extra"] = counters["Extra"]
  <2>1. {f \in N : TrueCategory(f) = "Extra"} = {}
    BY CategoryType DEF Category
  <2>2. counters["Extra"] \in Nat /\ Cardinality({}) = 0
    BY <1>6, FS_EmptySet
  <2> QED BY <1>7, <2>1, <2>2
<1>11. "awaiting" \in Stage
  BY StageCases
<1>12. /\ Hold["awaiting"] = awaiting /\ Hold'["awaiting"] = awaiting \ N
       /\ \A p \in Stage \ {"awaiting"} : Hold'[p] = Hold[p]
  BY <1>1, HoldIs, HoldIsNext, StageCases DEF HoldShape
<1>13. Apart' /\ Unrecorded' = Unrecorded \ N /\ N \subseteq Unrecorded
  <2>1. Takes({}, "awaiting", "awaiting", "awaiting", "awaiting", N)
    BY <1>5, <1>11, <1>12 DEF Takes
  <2> QED BY <2>1, Placed
<1>14. PipeExact'
  <2>1. PipeStage \subseteq Stage \ {"awaiting"}
    BY StageCases DEF PipeStage
  <2>2. Union(PipeStage, Hold') = Union(PipeStage, Hold)
    BY <1>12, <2>1 DEF Union
  <2> QED BY <1>1, <2>2, HoldSays, HoldSaysNext DEF HoldMeaning, PipeExact
<1>15. CountsExact'
  <2>1. Recorded' = Recorded \cup N /\ Recorded \cap N = {} /\ Recorded \subseteq File
    BY <1>13, ListedFiles DEF Recorded, Listed, AllKnown
  <2>2. \A c \in Category : counters'[c] = counters[c] + Cardinality({f \in N : TrueCategory(f) = c})
    BY <1>7 DEF Category
  <2> QED BY <1>1, <1>5, <2>1, <2>2, CountsStep
<1>16. Lists' /\ Once' /\ AllKnown' /\ HashNeeded'
  BY <1>1, <1>13, CategoryKept DEF Lists, Once, AllKnown, HashNeeded, Listed
<1>17. NetExact'
  BY <1>1, <1>5 DEF NetExact
<1> QED BY <1>9, <1>10, <1>13, <1>14, <1>15, <1>16, <1>17

LEMMA SeqOfSubset ==
  ASSUME NEW S, NEW T \in SUBSET S, NEW s \in Seq(T)
  PROVE  s \in Seq(S)
OBVIOUS

LEMMA DrainComparePlaces ==
  ASSUME Inv, DrainCompare
  PROVE  /\ PlaceInv' /\ Unrecorded' \subseteq Unrecorded
         /\ counters' \in [{"Same", "Diff", "Missing", "Extra"} -> Nat]
         /\ counters'["Extra"] = counters["Extra"]
<1> USE DEF Inv, PlaceInv
<1> DEFINE settled(c) == {i \in DOMAIN results : /\ ~results[i].outcome.needHash
                                                 /\ results[i].outcome.category = c}
           unsettled == {results[i].file : i \in {j \in DOMAIN results : results[j].outcome.needHash}}
           F == FilesOf(results)
           M == {f \in Range(F) : ~NeedsHash(f)}
           C == {"Same", "Diff", "Missing", "Extra"}
<1>1. /\ counters' = [c \in DOMAIN counters |-> counters[c] + Cardinality(settled(c))]
      /\ results' = <<>> /\ drained' = drained + Len(results)
      /\ UNCHANGED <<mode, disk, buffer, tasks, issued, stop, worker, batch>>
      /\ UNCHANGED <<delayed, listed, serverHash>>
      /\ \/ results = <<>> /\ UNCHANGED <<hashQueue, awaiting, requested, inFlight, cause>>
         \/ \E clustered \in SetToSeqs(unsettled) :
              Pumps(hashQueue \o clustered, awaiting, inFlight, hashWindow, requested, "ready")
  BY Zenon DEF DrainCompare, Drain
<1>2. /\ F \in Seq(File) /\ IsInjective(F) /\ Len(F) = Len(results) /\ DOMAIN F = DOMAIN results
      /\ \A i \in DOMAIN results : F[i] \in File /\ results[i] = Compared(F[i]) /\ F[i] = results[i].file
  <2>1. /\ results \in Seq({Compared(f) : f \in File}) /\ Len(results) \in Nat
        /\ DOMAIN results = 1..Len(results)
    BY DEF Lists
  <2>2. \A i \in DOMAIN results : \E f \in File : results[i] = Compared(f)
    BY <2>1
  <2>3. \A f : Compared(f).file = f
    BY DEF Compared
  <2>4. \A i \in DOMAIN results : results[i].file \in File /\ results[i] = Compared(results[i].file)
    BY <2>2, <2>3
  <2>5. F = [i \in 1..Len(results) |-> results[i].file]
    BY <2>1 DEF FilesOf
  <2> QED BY <2>1, <2>4, <2>5 DEF Once
<1>3. \A f : Compared(f).outcome = DecideCompare(mode, disk[f], Remote[f])
  BY DEF Compared
<1>4. /\ \A i \in DOMAIN results : results[i].outcome.needHash <=> NeedsHash(F[i])
      /\ \A i \in DOMAIN results : ~NeedsHash(F[i]) => results[i].outcome.category = TrueCategory(F[i])
  BY <1>2, <1>3, MetadataTells DEF NeedsHash
<1> HIDE DEF F
<1>5. \A c : {F[i] : i \in settled(c)} = {f \in M : TrueCategory(f) = c}
  BY <1>2, <1>4 DEF Range
<1>6. unsettled = Range(F) \ M
  BY <1>2, <1>4 DEF Range
<1>7. M \in SUBSET File /\ Range(F) \subseteq File /\ IsFiniteSet(Range(F))
      /\ Cardinality(Range(F)) = Len(results)
  BY <1>2, ListBasics, CountList
<1>8. \A c : Cardinality(settled(c)) = Cardinality({f \in M : TrueCategory(f) = c})
  <2> TAKE c
  <2> DEFINE I == settled(c)
  <2>1. I \in SUBSET DOMAIN F
    BY <1>2
  <2>2. {F[i] : i \in I} = {f \in M : TrueCategory(f) = c}
    BY <1>5
  <2> HIDE DEF I, M
  <2>3. Cardinality(I) = Cardinality({F[i] : i \in I})
    BY <1>2, <2>1, CountIndices
  <2> QED BY <2>2, <2>3 DEF I
<1>9. counters \in [C -> Nat]
  BY DEF Numbers
<1> HIDE DEF settled, unsettled, M
<1>10. \A c \in C : counters'[c] = counters[c] + Cardinality({f \in M : TrueCategory(f) = c})
  BY <1>1, <1>8, <1>9
<1>11. \A c \in C : Cardinality({f \in M : TrueCategory(f) = c}) \in Nat
  BY <1>7, FilesFinite
<1>12. counters' \in [C -> Nat]
  <2>1. counters' = [c \in C |-> counters'[c]]
    BY <1>1, <1>9
  <2>2. \A c \in C : counters'[c] \in Nat
    BY <1>9, <1>10, <1>11
  <2> QED BY <2>1, <2>2
<1>13. counters'["Extra"] = counters["Extra"]
  <2>1. {f \in M : TrueCategory(f) = "Extra"} = {}
    BY CategoryType DEF Category
  <2>2. counters["Extra"] \in Nat /\ Cardinality({}) = 0
    BY <1>9, FS_EmptySet
  <2> QED BY <1>10, <2>1, <2>2
<1>14. "results" \in Stage /\ {"hashQueue", "awaiting"} \subseteq Stage
  BY StageCases
<1>15. /\ Range(hashQueue) \cap awaiting = {} /\ Range(F) \cap awaiting = {}
       /\ Range(F) \cap Range(hashQueue) = {} /\ Range(hashQueue) \subseteq File
  BY <1>14, HeldIs, ListBasics DEF Apart, Lists, F
<1>16. /\ hashQueue' \in Seq(File) /\ IsInjective(hashQueue')
       /\ Range(hashQueue') \subseteq Range(hashQueue) \cup unsettled
       /\ awaiting' \subseteq awaiting \cup Range(hashQueue) \cup unsettled
       /\ Range(hashQueue') \cap awaiting' = {} /\ awaiting \subseteq awaiting'
       /\ requested' \subseteq requested \cup Range(hashQueue) \cup unsettled
       /\ requested' \subseteq awaiting' /\ inFlight' = Cardinality(requested')
       /\ \/ /\ cause' = cause
             /\ Range(hashQueue') \cup awaiting' = Range(hashQueue) \cup unsettled \cup awaiting
          \/ cause' = "disconnected"
  <2>1. /\ hashQueue \in Seq(File) /\ IsInjective(hashQueue) /\ awaiting \in SUBSET File
        /\ requested \in SUBSET awaiting /\ inFlight = Cardinality(requested)
        /\ hashWindow \in Nat /\ hashTasks \in Seq(File) /\ hashCap \in Nat
        /\ DOMAIN hasher = HashWorker
    BY DEF Lists, Once, NetExact, Numbers, Hashed
  <2>2. CASE results = <<>> /\ UNCHANGED <<hashQueue, awaiting, requested, inFlight, cause>>
    <3>1. unsettled = {}
      BY <2>2 DEF unsettled
    <3> QED BY <1>15, <2>1, <2>2, <3>1
  <2>3. CASE \E clustered \in SetToSeqs(unsettled) :
               Pumps(hashQueue \o clustered, awaiting, inFlight, hashWindow, requested, "ready")
    <3>6. PICK clustered \in SetToSeqs(unsettled) :
            Pumps(hashQueue \o clustered, awaiting, inFlight, hashWindow, requested, "ready")
      BY <2>3
    <3> DEFINE q == hashQueue \o clustered
    <3>1. unsettled \in SUBSET File /\ IsFiniteSet(unsettled)
      BY <1>6, <1>7, FilesFinite
    <3>2. clustered \in Seq(File) /\ IsInjective(clustered) /\ Range(clustered) = unsettled
      BY <3>1, EnumerateSet, SeqOfSubset
    <3>3. q \in Seq(File) /\ IsInjective(q) /\ Range(q) = Range(hashQueue) \cup unsettled
      BY <1>6, <1>15, <2>1, <3>2, ConcatList
    <3> HIDE DEF q
    <3>4. /\ Range(q) \cap awaiting = {}
          /\ Pumps(q, awaiting, inFlight, hashWindow, requested, "ready")
      BY <1>6, <1>15, <3>3, <3>6 DEF q
    <3>5. /\ hashQueue' \in Seq(File) /\ IsInjective(hashQueue')
          /\ Range(hashQueue') \subseteq Range(q) /\ awaiting' \subseteq awaiting \cup Range(q)
          /\ Range(hashQueue') \cap awaiting' = {} /\ awaiting \subseteq awaiting'
          /\ requested' \subseteq requested \cup Range(q) /\ requested' \subseteq awaiting'
          /\ inFlight' = Cardinality(requested')
          /\ \/ cause' = cause /\ Range(hashQueue') \cup awaiting' = Range(q) \cup awaiting
             \/ cause' = "disconnected"
      BY <2>1, <3>3, <3>4, PumpsEffect
    <3> QED BY <3>3, <3>5
  <2> QED BY <1>1, <2>2, <2>3
<1>17. /\ Range(<<>>) = {} /\ IsInjective(<<>>) /\ FilesOf(<<>>) = <<>>
       /\ <<>> \in Seq({Compared(f) : f \in File})
  <2>1. FilesOf(<<>>) = <<>>
    BY DEF FilesOf
  <2> QED BY <2>1, ListBasics DEF IsInjective, Range
<1>18. Lists'
  <2>1. awaiting' \subseteq File
    BY <1>6, <1>7, <1>15, <1>16 DEF Lists
  <2> QED BY <1>1, <1>16, <1>17, <2>1, CategoryKept DEF Lists
<1>19. Once'
  BY <1>1, <1>16, <1>17 DEF Once
<1>20. /\ Hold["hashQueue"] = Range(hashQueue) /\ Hold'["hashQueue"] = Range(hashQueue')
       /\ Hold["awaiting"] = awaiting /\ Hold'["awaiting"] = awaiting'
       /\ Hold["results"] = Range(F) /\ Hold'["results"] = {}
       /\ \A p \in Stage \ {"hashQueue", "awaiting", "results"} : Hold'[p] = Hold[p]
  BY <1>1, <1>17, HoldIs, HoldIsNext, StageCases DEF HoldShape, F
<1> DEFINE N == (Range(F) \cup Range(hashQueue) \cup awaiting) \ (Range(hashQueue') \cup awaiting')
<1>21. Takes(Range(F), "results", "results", "hashQueue", "awaiting", N)
  BY <1>6, <1>14, <1>16, <1>20 DEF Takes
<1>22. Apart' /\ Unrecorded' = Unrecorded \ N /\ N \subseteq Unrecorded
  BY <1>21, Placed
<1>23. PipeExact'
  <2>1. PipeStage \subseteq Stage \ {"hashQueue", "awaiting"} /\ "results" \in PipeStage
    BY StageCases DEF PipeStage
  <2>2. Disjoint(Stage, Hold)
    BY HoldSays DEF HoldMeaning
  <2>3. Union(PipeStage, Hold') = Union(PipeStage, Hold) \ Range(F)
    BY <1>14, <1>20, <2>1, <2>2 DEF Union, Disjoint
  <2>4. Piped' = Piped \ Range(F) /\ Range(F) \subseteq Piped
    BY <1>20, <2>1, <2>3, HoldSays, HoldSaysNext DEF HoldMeaning, Union
  <2>5. Piped \in SUBSET File
    <3>1. Unrecorded \subseteq File
      BY ListedFiles DEF AllKnown
    <3> QED BY <2>1, <3>1 DEF Piped, Unrecorded
  <2>6. Cardinality(Piped') = Cardinality(Piped) - Len(results) /\ Cardinality(Piped) \in Nat
    BY <1>7, <2>4, <2>5, FilesFinite, CountLess
  <2>7. Len(results) \in Nat
    BY DEF Lists
  <2> QED BY <1>1, <2>6, <2>7 DEF PipeExact, Numbers
<1>24. AllKnown'
  BY <1>1, <1>22 DEF AllKnown, Listed
<1>25. HashNeeded'
  <2>1. \A f \in unsettled : NeedsHash(f)
    BY <1>6 DEF M
  <2>2. \A f \in Range(hashQueue') \cup awaiting' : NeedsHash(f)
    BY <1>16, <2>1 DEF HashNeeded
  <2> QED BY <1>1, <2>2, CategoryKept DEF HashNeeded
<1>26. NetExact'
  <2>1. serverHash \subseteq awaiting /\ requested \cap serverHash = {}
    BY DEF NetExact
  <2>2. unsettled \cap awaiting = {}
    BY <1>6, <1>15
  <2> QED BY <1>1, <1>15, <1>16, <2>1, <2>2 DEF NetExact
<1>27. CountsExact'
  <2>1. CASE cause' = "disconnected"
    BY <2>1 DEF CountsExact
  <2>2. CASE /\ cause' = cause
             /\ Range(hashQueue') \cup awaiting' = Range(hashQueue) \cup unsettled \cup awaiting
    <3>1. N = M
      <4>1. M \subseteq Range(F)
        BY DEF M
      <4> QED BY <1>6, <1>15, <2>2, <4>1
    <3> HIDE DEF N
    <3>2. Recorded' = Recorded \cup M /\ Recorded \cap M = {} /\ Recorded \subseteq File
      BY <1>1, <1>22, <3>1, ListedFiles DEF Recorded, Listed, AllKnown
    <3>3. \A c \in Category : counters'[c] = counters[c] + Cardinality({f \in M : TrueCategory(f) = c})
      BY <1>10 DEF Category
    <3> QED BY <1>1, <1>7, <2>2, <3>2, <3>3, CountsStep
  <2> QED BY <1>16, <2>1, <2>2
<1> QED BY <1>12, <1>13, <1>18, <1>19, <1>22, <1>23, <1>24, <1>25, <1>26, <1>27

-----------------------------------------------------------------------------
(* The steps that move no entry.                                           *)

stageVars == <<mode, disk, delayed, buffer, tasks, results, batch, hashQueue, awaiting, listed,
               issued, drained, requested, serverHash, inFlight>>

Quiet == UNCHANGED <<stageVars, counters>> /\ (cause' = cause \/ cause' # "none")

QuietMain ==
  \/ LoopLeaves \/ Tune \/ Wait \/ RecvManifestEnd \/ RecvStops \/ RecvThrows
  \/ StopCompare \/ JoinCompare

LEMMA QuietMainKeeps == QuietMain => Quiet
<1> USE DEF Quiet, stageVars, pipelineVars, netVars, hashVars
<1>1. ASSUME LoopLeaves PROVE Quiet
  BY <1>1 DEF LoopLeaves
<1>2. ASSUME Tune PROVE Quiet
  BY <1>2 DEF Tune
<1>3. ASSUME Wait PROVE Quiet
  BY <1>3 DEF Wait
<1>4. ASSUME RecvManifestEnd PROVE Quiet
  BY <1>4 DEF RecvManifestEnd
<1>5. ASSUME RecvStops PROVE Quiet
  BY <1>5 DEF RecvStops
<1>6. ASSUME RecvThrows PROVE Quiet
  BY <1>6 DEF RecvThrows
<1>7. ASSUME StopCompare PROVE Quiet
  BY <1>7 DEF StopCompare, Stop
<1>8. ASSUME JoinCompare PROVE Quiet
  BY <1>8 DEF JoinCompare
<1> HIDE DEF Quiet
<1> QED BY <1>1, <1>2, <1>3, <1>4, <1>5, <1>6, <1>7, <1>8 DEF QuietMain

LEMMA HasherKeeps ==
  ASSUME NEW w \in HashWorker, HasherNext(w)
  PROVE  Quiet /\ UNCHANGED <<mainVars, walkVars, netVars, pipelineVars, hashCap, hashStop>>
<1> USE DEF Quiet, stageVars, mainVars, pipelineVars, netVars, HasherStep
<1>1. CASE HasherDozes(w)
  BY <1>1 DEF HasherDozes
<1>2. CASE HasherSleeps(w)
  BY <1>2 DEF HasherSleeps
<1>3. CASE HasherExits(w)
  BY <1>3 DEF HasherExits
<1>4. CASE HasherPassesBaton(w)
  BY <1>4 DEF HasherPassesBaton
<1>5. CASE HasherTakes(w)
  BY <1>5 DEF HasherTakes
<1>6. CASE HasherStores(w)
  BY <1>6 DEF HasherStores
<1>7. CASE HasherReports(w)
  BY <1>7 DEF HasherReports
<1> QED BY <1>1, <1>2, <1>3, <1>4, <1>5, <1>6, <1>7 DEF HasherNext

\* What moves an entry, and what does not.
LEMMA Steps ==
  ASSUME [Next]_vars
  PROVE  \/ DrainCompare \/ DrainReady \/ Fill \/ Pump \/ RecvManifestEntry
         \/ (\E f \in File : RecvHashResponse(f))
         \/ JoinHash \/ Judge
         \/ \E w \in CompareWorker :
              (WorkerPops(w) \/ WorkerPublishes(w)) /\ UNCHANGED <<walkVars, engineVars>>
         \/ Quiet /\ QuietMain
         \/ Quiet /\ \E w \in HashWorker : HasherNext(w)
         \/ Quiet /\ UNCHANGED <<mainVars, hashVars>> /\
              \/ UNCHANGED walkVars
              \/ UNCHANGED pipelineVars /\ \E w \in Walker : WalkStep(w)
<1>1. CASE MainStep
  BY <1>1, QuietMainKeeps DEF MainStep, QuietMain
<1>2. CASE LinkDown \/ Interrupt
  BY <1>2 DEF LinkDown, Interrupt, Quiet, stageVars, mainVars, pipelineVars
<1>3. ASSUME NEW w \in CompareWorker, CompareStep(w)
      PROVE  \/ (WorkerPops(w) \/ WorkerPublishes(w)) /\ UNCHANGED <<walkVars, engineVars>>
             \/ Quiet /\ UNCHANGED <<mainVars, hashVars>> /\ UNCHANGED walkVars
  <2>1. UNCHANGED <<walkVars, engineVars>> /\ UNCHANGED <<mainVars, hashVars, netVars>>
    BY <1>3 DEF CompareStep, engineVars
  <2>2. CASE WorkerPops(w) \/ WorkerPublishes(w)
    BY <2>1, <2>2
  <2>3. CASE WorkerDozes(w) \/ WorkerSleeps(w) \/ WorkerExits(w) \/ WorkerReleases(w)
    <3>1. UNCHANGED <<mode, disk, buffer, tasks, results, issued, drained, stop, batch>>
      BY <2>3 DEF WorkerDozes, WorkerSleeps, WorkerExits, WorkerReleases
    <3> QED BY <2>1, <3>1 DEF Quiet, stageVars, mainVars, netVars
  <2> QED BY <1>3, <2>2, <2>3 DEF CompareStep, WorkerStep
<1>4. ASSUME NEW w \in HashWorker, HasherNext(w) PROVE Quiet
  BY <1>4, HasherKeeps
<1>5. ASSUME NEW w \in Walker, WalkStep(w)
      PROVE  Quiet /\ UNCHANGED <<mainVars, hashVars>> /\ UNCHANGED pipelineVars
  BY <1>5 DEF WalkStep, engineVars, Quiet, stageVars, mainVars, netVars, pipelineVars
<1>6. CASE UNCHANGED vars
  BY <1>6 DEF vars, engineVars, Quiet, stageVars, mainVars, netVars, pipelineVars
<1> QED BY <1>1, <1>2, <1>3, <1>4, <1>5, <1>6 DEF Next

LEMMA InputsKept ==
  ASSUME [Next]_vars
  PROVE  mode' = mode /\ disk' = disk
<1>1. CASE DrainCompare
  BY <1>1 DEF DrainCompare, Drain
<1>2. CASE DrainReady \/ Pump \/ JoinHash \/ Judge
  BY <1>2 DEF DrainReady, Pump, JoinHash, Judge, pipelineVars
<1>3. CASE Fill
  BY <1>3 DEF Fill, EnqueueAndFlush
<1>4. CASE RecvManifestEntry
  BY <1>4 DEF RecvManifestEntry, Enqueue, pipelineVars
<1>5. ASSUME NEW f \in File, RecvHashResponse(f) PROVE mode' = mode /\ disk' = disk
  BY <1>5 DEF RecvHashResponse, pipelineVars
<1>6. ASSUME NEW w \in CompareWorker, WorkerPops(w) \/ WorkerPublishes(w)
      PROVE  mode' = mode /\ disk' = disk
  BY <1>6 DEF WorkerPops, WorkerPublishes
<1>7. CASE Quiet
  BY <1>7 DEF Quiet, stageVars
<1> QED BY <1>1, <1>2, <1>3, <1>4, <1>5, <1>6, <1>7, Steps

LEMMA QuietPlaces ==
  ASSUME Inv, UNCHANGED stageVars, cause' = cause \/ cause' # "none",
         \A c \in Category : counters'[c] = counters[c]
  PROVE  PlaceInv' /\ Unrecorded' = Unrecorded
<1> USE DEF Inv, PlaceInv
<1>1. /\ UNCHANGED <<mode, disk, delayed, buffer, tasks, results, batch, hashQueue>>
      /\ UNCHANGED <<awaiting, listed, issued, drained, requested, serverHash, inFlight>>
  BY DEF stageVars
<1>2. Hold' = Hold
  BY <1>1 DEF Hold, Held, Entries
<1>3. Apart' /\ Unrecorded' = Unrecorded /\ Piped' = Piped
  BY <1>2, HoldSays, HoldSaysNext DEF HoldMeaning
<1>4. Listed' = Listed /\ Recorded' = Recorded
  BY <1>1, <1>3 DEF Listed, Recorded
<1>5. CountsExact'
  BY <1>1, <1>4, CategoryKept DEF CountsExact, RecordedAs
<1> QED BY <1>1, <1>3, <1>4, <1>5, CategoryKept
        DEF Lists, Once, AllKnown, HashNeeded, NetExact, PipeExact

LEMMA JoinHashPlaces ==
  ASSUME Inv, JoinHash
  PROVE  /\ PlaceInv' /\ Unrecorded' \subseteq Unrecorded
         /\ counters' \in [{"Same", "Diff", "Missing", "Extra"} -> Nat]
         /\ counters'["Extra"] = counters["Extra"]
<1>1. UNCHANGED <<pipelineVars, delayed, hashQueue, listed, requested, inFlight, cause>>
  BY DEF JoinHash, netVars
<1>2. CASE localReadFailed
  <2>1. UNCHANGED <<counters, awaiting, serverHash>>
    BY <1>2 DEF JoinHash
  <2>2. UNCHANGED stageVars
    BY <1>1, <2>1 DEF stageVars, pipelineVars
  <2> QED BY <1>1, <2>1, <2>2, QuietPlaces DEF Inv, Numbers
<1>3. CASE ~localReadFailed
  <2>1. DrainsReady
    BY <1>3 DEF JoinHash
  <2> QED BY <1>1, <2>1, DrainsReadyPlaces
<1> QED BY <1>2, <1>3

LEMMA PlacesStep ==
  ASSUME Inv, [Next]_vars
  PROVE  PlaceInv' /\ (RecvManifestEntry \/ Unrecorded' \subseteq Unrecorded)
<1>1. CASE DrainCompare
  BY <1>1, DrainComparePlaces
<1>2. CASE DrainReady
  <2>1. /\ DrainsReady
        /\ UNCHANGED <<pipelineVars, delayed, hashQueue, listed, requested, inFlight, cause>>
    BY <1>2 DEF DrainReady, netVars
  <2> QED BY <2>1, DrainsReadyPlaces
<1>3. CASE Fill
  BY <1>3, FillPlaces
<1>4. CASE Pump
  BY <1>4, PumpPlaces
<1>5. CASE RecvManifestEntry
  BY <1>5, RecvManifestEntryPlaces
<1>6. ASSUME NEW f \in File, RecvHashResponse(f)
      PROVE  PlaceInv' /\ Unrecorded' \subseteq Unrecorded
  BY <1>6, RecvHashResponsePlaces
<1>7. CASE JoinHash
  BY <1>7, JoinHashPlaces
<1>8. CASE Judge
  <2>1. UNCHANGED stageVars /\ cause' = cause
    BY <1>8 DEF Judge, stageVars, pipelineVars, netVars
  <2>2. \A c \in Category : counters'[c] = counters[c]
    <3>1. counters' = counters \/ counters' = [counters EXCEPT !["Extra"] = @ + Cardinality(merged)]
      BY <1>8 DEF Judge, Counted
    <3> QED BY <3>1 DEF Category, Inv, Numbers
  <2> QED BY <2>1, <2>2, QuietPlaces
<1>9. ASSUME NEW w \in CompareWorker, WorkerPops(w) \/ WorkerPublishes(w),
             UNCHANGED <<walkVars, engineVars>>
      PROVE  PlaceInv' /\ Unrecorded' \subseteq Unrecorded
  BY <1>9, WorkerPopsPlaces, WorkerPublishesPlaces
<1>10. CASE Quiet
  <2>1. /\ UNCHANGED stageVars /\ (cause' = cause \/ cause' # "none")
        /\ \A c \in Category : counters'[c] = counters[c]
    BY <1>10 DEF Quiet
  <2> QED BY <2>1, QuietPlaces
<1> QED BY <1>1, <1>2, <1>3, <1>4, <1>5, <1>6, <1>7, <1>8, <1>9, <1>10, Steps

-----------------------------------------------------------------------------
(* Numbers and threads.                                                    *)

LEMMA ExtrasFinite == IsFiniteSet(TrueExtras)
<1> DEFINE D == Reachable({Root}) \ Unreadable
           S == {LocalFiles[d] : d \in D}
           h == [d \in D |-> LocalFiles[d]]
<1>1. D \subseteq Dir /\ IsFiniteSet(Dir) /\ \A d \in Dir : IsFiniteSet(LocalFiles[d])
  BY WalkAssumption DEF Reachable
<1>2. IsFiniteSet(D)
  BY <1>1, FS_Subset
<1>3. h \in Surjection(D, S)
  <2>1. h \in [D -> S] /\ \A t \in S : \E d \in D : h[d] = t
    OBVIOUS
  <2> HIDE DEF h, S, D
  <2> QED BY <2>1 DEF Surjection
<1>4. \A t \in S : IsFiniteSet(t)
  BY <1>1
<1> HIDE DEF h, S, D
<1>5. IsFiniteSet(S)
  BY <1>2, <1>3, FS_Surjection
<1>6. IsFiniteSet(UNION S)
  BY <1>4, <1>5, FS_UNION
<1>7. TrueExtras = (UNION S) \ File
  BY DEF TrueExtras, S, D
<1> QED BY <1>6, <1>7, FS_Subset

LEMMA JudgeCounts ==
  ASSUME Inv, Judge
  PROVE  /\ counters' \in [{"Same", "Diff", "Missing", "Extra"} -> Nat]
         /\ Cardinality(merged) \in Nat
<1>1. Walks /\ merged \subseteq TrueExtras
  BY DEF Inv, WalkExact, Judge, Walks, Found
<1>2. Cardinality(merged) \in Nat
  BY <1>1, ExtrasFinite, FS_Subset, FS_CardinalityType
<1>3. counters' = counters \/ counters' = [counters EXCEPT !["Extra"] = @ + Cardinality(merged)]
  BY DEF Judge, Counted
<1> QED BY <1>2, <1>3 DEF Inv, Numbers

LEMMA CapsStep ==
  ASSUME Inv, [Next]_vars
  PROVE  hashCap' \in Nat /\ hashWindow' \in Nat
<1>1. hashCap \in Nat /\ hashWindow \in Nat
  BY DEF Inv, Numbers
<1>2. CASE DrainCompare \/ DrainReady \/ Fill \/ Pump \/ RecvManifestEntry \/ JoinHash \/ Judge
  BY <1>1, <1>2 DEF DrainCompare, DrainReady, Fill, Pump, RecvManifestEntry, JoinHash, Judge,
                    hashVars, netVars
<1>3. ASSUME NEW f \in File, RecvHashResponse(f) PROVE hashCap' \in Nat /\ hashWindow' \in Nat
  <2>1. hashCap' = hashCap /\ hashWindow' \in NextNetWindow(hashWindow)
    BY <1>3 DEF RecvHashResponse
  <2> QED BY <1>1, <2>1, WindowType
<1>4. CASE Tune
  <2>1. /\ hashWindow' = hashWindow
        /\ \/ hashCap' = hashCap
           \/ hashCap' = NextLocalWorkerCap(hashCap, Len(hashTasks), LocalHashInFlight, readFail)
    BY <1>4 DEF Tune, netVars
  <2> QED BY <1>1, <2>1, CapType
<1>5. CASE QuietMain /\ ~Tune
  BY <1>1, <1>5 DEF QuietMain, LoopLeaves, Wait, RecvManifestEnd, RecvStops, RecvThrows,
                    StopCompare, JoinCompare, hashVars, netVars
<1>6. ASSUME NEW w \in HashWorker, HasherNext(w) PROVE hashCap' \in Nat /\ hashWindow' \in Nat
  BY <1>1, <1>6, HasherKeeps DEF netVars
<1>7. CASE UNCHANGED <<walkVars, engineVars>>
  BY <1>1, <1>7 DEF engineVars, hashVars, netVars
<1>8. CASE LinkDown \/ Interrupt
  BY <1>1, <1>8 DEF LinkDown, Interrupt, hashVars
<1>9. CASE \E w \in Walker : WalkStep(w)
  BY <1>1, <1>9 DEF WalkStep, engineVars, hashVars, netVars
<1>10. CASE UNCHANGED vars
  BY <1>1, <1>10 DEF vars, engineVars, hashVars, netVars
<1> QED BY <1>2, <1>3, <1>4, <1>5, <1>6, <1>7, <1>8, <1>9, <1>10
        DEF Next, MainStep, CompareStep, QuietMain

LEMMA NumbersStep ==
  ASSUME Inv, [Next]_vars
  PROVE  Numbers'
<1> DEFINE Four == {"Same", "Diff", "Missing", "Extra"}
<1>1. /\ issued \in Nat /\ drained \in Nat /\ listed \in 0..Len(Manifest)
      /\ counters \in [Four -> Nat] /\ Len(results) \in Nat /\ Len(Manifest) \in Nat
  BY InputAssumption DEF Inv, Numbers, PlaceInv, Lists
<1> SUFFICES /\ issued' \in Nat /\ drained' \in Nat /\ listed' \in 0..Len(Manifest)
             /\ counters' \in [Four -> Nat]
  BY CapsStep DEF Numbers
<1>2. CASE DrainCompare
  <2>1. issued' = issued /\ drained' = drained + Len(results) /\ listed' = listed
    BY <1>2 DEF DrainCompare, Drain
  <2> QED BY <1>1, <1>2, <2>1, DrainComparePlaces
<1>3. CASE DrainReady
  <2>1. /\ DrainsReady
        /\ UNCHANGED <<pipelineVars, delayed, hashQueue, listed, requested, inFlight, cause>>
    BY <1>3 DEF DrainReady, netVars
  <2> QED BY <1>1, <2>1, DrainsReadyPlaces DEF pipelineVars
<1>4. CASE Fill
  <2> DEFINE k == Min({Len(delayed), Max({0, CompareInFlightCap - InFlight})})
             a == SubSeq(delayed, 1, k)
  <2>1. /\ issued' = issued + Len(a)
        /\ UNCHANGED <<drained, listed, counters>>
    BY <1>4 DEF Fill, EnqueueAndFlush
  <2>2. k \in Nat
    BY FillBound
  <2> HIDE DEF k
  <2>3. Len(a) \in Nat
    BY <2>2 DEF Inv, PlaceInv, Lists
  <2> HIDE DEF a
  <2> QED BY <1>1, <2>1, <2>3
<1>5. CASE Pump
  BY <1>1, <1>5 DEF Pump, pipelineVars
<1>6. CASE RecvManifestEntry
  <2>1. /\ listed < Len(Manifest) /\ listed' = listed + 1 /\ UNCHANGED <<drained, counters>>
        /\ issued' = issued \/ issued' = issued + 1
    BY <1>6 DEF RecvManifestEntry, Enqueue, pipelineVars
  <2> QED BY <1>1, <2>1
<1>7. ASSUME NEW f \in File, RecvHashResponse(f)
      PROVE  issued' \in Nat /\ drained' \in Nat /\ listed' \in 0..Len(Manifest)
             /\ counters' \in [Four -> Nat]
  <2> DEFINE cat == ClassifyByHash(TRUE, localResult[f], Remote[f].content)
  <2>1. UNCHANGED <<issued, drained, listed>>
    BY <1>7 DEF RecvHashResponse, pipelineVars
  <2>2. counters' = counters \/ counters' = Counted(cat, 1)
    BY <1>7 DEF RecvHashResponse
  <2>3. cat \in Four
    BY DEF ClassifyByHash
  <2> HIDE DEF cat
  <2> QED BY <1>1, <2>1, <2>2, <2>3 DEF Counted
<1>8. CASE JoinHash
  BY <1>1, <1>8, JoinHashPlaces DEF JoinHash, pipelineVars
<1>9. CASE Judge
  BY <1>1, <1>9, JudgeCounts DEF Judge, pipelineVars
<1>10. ASSUME NEW w \in CompareWorker, WorkerPops(w) \/ WorkerPublishes(w), UNCHANGED engineVars
       PROVE  UNCHANGED <<issued, drained, listed, counters>>
  BY <1>10 DEF WorkerPops, WorkerPublishes, engineVars, mainVars
<1>11. CASE Quiet
  BY <1>1, <1>11 DEF Quiet, stageVars
<1> QED BY <1>1, <1>2, <1>3, <1>4, <1>5, <1>6, <1>7, <1>8, <1>9, <1>10, <1>11, Steps

LEMMA IdleFrame ==
  ASSUME [Next]_vars
  PROVE  \/ Fill \/ StopCompare \/ (\E w \in CompareWorker : WorkerStep(w))
         \/ UNCHANGED <<worker, batch>>
<1>1. CASE DrainCompare \/ DrainReady \/ Pump \/ RecvManifestEntry \/ JoinHash \/ Judge
  BY <1>1 DEF DrainCompare, Drain, DrainReady, Pump, RecvManifestEntry, Enqueue, JoinHash, Judge,
              pipelineVars
<1>2. ASSUME NEW f \in File, RecvHashResponse(f) PROVE UNCHANGED <<worker, batch>>
  BY <1>2 DEF RecvHashResponse, pipelineVars
<1>3. CASE QuietMain /\ ~StopCompare
  BY <1>3 DEF QuietMain, LoopLeaves, Tune, Wait, RecvManifestEnd, RecvStops, RecvThrows,
              JoinCompare, pipelineVars
<1>4. ASSUME NEW w \in HashWorker, HasherNext(w) PROVE UNCHANGED <<worker, batch>>
  BY <1>4, HasherKeeps DEF pipelineVars
<1>5. CASE LinkDown \/ Interrupt
  BY <1>5 DEF LinkDown, Interrupt, pipelineVars
<1>6. CASE \E w \in Walker : WalkStep(w)
  BY <1>6 DEF WalkStep, pipelineVars
<1>7. CASE UNCHANGED vars
  BY <1>7 DEF vars, pipelineVars
<1>8. CASE \E w \in CompareWorker : CompareStep(w)
  BY <1>8 DEF CompareStep
<1> QED BY <1>1, <1>2, <1>3, <1>4, <1>5, <1>6, <1>7, <1>8 DEF Next, MainStep, QuietMain

LEMMA IdleStep ==
  ASSUME Inv, [Next]_vars
  PROVE  Idle'
<1>1. /\ DOMAIN worker = CompareWorker
      /\ \A v \in CompareWorker : worker[v] # "probing" => batch[v] = <<>>
  BY DEF Inv, Idle
<1>2. batch \in [CompareWorker -> Seq(File)]
  BY DEF Inv, PlaceInv, Lists
<1>3. /\ DOMAIN Woken(worker) = CompareWorker
      /\ \A v \in CompareWorker : Woken(worker)[v] # "probing" => batch[v] = <<>>
  BY <1>1 DEF Woken
<1>4. CASE Fill
  <2>1. batch' = batch /\ (worker' = worker \/ worker' = Woken(worker))
    BY <1>4 DEF Fill, EnqueueAndFlush
  <2> QED BY <1>1, <1>3, <2>1 DEF Idle
<1>5. CASE StopCompare
  BY <1>3, <1>5 DEF StopCompare, Stop, Idle
<1>6. ASSUME NEW w \in CompareWorker, WorkerStep(w) PROVE Idle'
  <2>1. CASE WorkerDozes(w)
    BY <1>1, <2>1 DEF WorkerDozes, Idle
  <2>2. CASE WorkerSleeps(w)
    BY <1>1, <2>2 DEF WorkerSleeps, Idle
  <2>3. CASE WorkerExits(w)
    BY <1>1, <2>3 DEF WorkerExits, Idle
  <2>4. CASE WorkerPops(w)
    <3>1. worker' = [worker EXCEPT ![w] = "probing"]
      BY <2>4 DEF WorkerPops
    <3>2. DOMAIN batch' = CompareWorker /\ \A v \in CompareWorker \ {w} : batch'[v] = batch[v]
      BY <1>2, <2>4 DEF WorkerPops
    <3> QED BY <1>1, <3>1, <3>2 DEF Idle
  <2>5. CASE WorkerPublishes(w)
    <3>1. worker' = [worker EXCEPT ![w] = "published"] /\ batch' = [batch EXCEPT ![w] = <<>>]
      BY <2>5 DEF WorkerPublishes
    <3> QED BY <1>1, <1>2, <3>1 DEF Idle
  <2>6. CASE WorkerReleases(w)
    <3> DEFINE back == [worker EXCEPT ![w] = "ready"]
               asleep == {v \in CompareWorker : worker[v] = "asleep"}
    <3>1. /\ worker[w] = "published" /\ batch' = batch
          /\ worker' = back \/ \E v \in asleep : worker' = [back EXCEPT ![v] = "ready"]
      BY <2>6 DEF WorkerReleases
    <3>2. DOMAIN back = CompareWorker /\ \A v \in CompareWorker : back[v] # "probing" => batch[v] = <<>>
      BY <1>1, <3>1
    <3> HIDE DEF back
    <3>3. CASE worker' = back
      BY <3>1, <3>2, <3>3 DEF Idle
    <3>4. ASSUME NEW v \in asleep, worker' = [back EXCEPT ![v] = "ready"] PROVE Idle'
      <4>1. v \in CompareWorker /\ batch[v] = <<>>
        BY <1>1
      <4> QED BY <3>1, <3>2, <3>4, <4>1 DEF Idle
    <3> QED BY <3>1, <3>3, <3>4
  <2> QED BY <1>6, <2>1, <2>2, <2>3, <2>4, <2>5, <2>6 DEF WorkerStep
<1>7. CASE UNCHANGED <<worker, batch>>
  BY <1>1, <1>7 DEF Idle
<1> QED BY <1>4, <1>5, <1>6, <1>7, IdleFrame

\* The pool and its results, as the steps of the main thread leave them.
LEMMA HashedKept ==
  ASSUME Inv, disk' = disk, UNCHANGED <<hashing, localResult>>, OnlyWakes,
         hashTasks' \in Seq(File), ready' \in Seq(File), Range(ready') \subseteq Range(ready)
  PROVE  Hashed'
<1> USE DEF Inv, Hashed
<1>1. \A w \in HashWorker : hasher'[w] \in {hasher[w], "ready"}
  BY DEF OnlyWakes
<1>2. \A w \in HashWorker :
        /\ hasher'[w] \in {"hashing", "stored"} => hashing[w] # <<>>
        /\ hasher'[w] = "stored" => localResult[Head(hashing[w])] # NoResult
  BY <1>1
<1> QED BY <1>2 DEF OnlyWakes

LEMMA HasherHashed ==
  ASSUME Inv, NEW w \in HashWorker, HasherNext(w), disk' = disk
  PROVE  Hashed'
<1>1. /\ hashTasks \in Seq(File) /\ ready \in Seq(File) /\ hashing \in [HashWorker -> Seq(File)]
      /\ DOMAIN hasher = HashWorker /\ DOMAIN localResult = File
      /\ \A f \in File : localResult[f] \in {NoResult, "Failed"} \cup {e.content : e \in disk[f]}
      /\ \A v \in HashWorker :
           /\ hasher[v] \in {"hashing", "stored"} => hashing[v] # <<>>
           /\ hasher[v] = "stored" => localResult[Head(hashing[v])] # NoResult
      /\ \A f \in Range(ready) : localResult[f] # NoResult
  BY DEF Inv, Hashed
<1>2. CASE HasherDozes(w) \/ HasherSleeps(w)
  <2>1. /\ \E place \in {"dozing", "asleep"} : hasher' = [hasher EXCEPT ![w] = place]
        /\ UNCHANGED <<hashTasks, hashing, localResult, readFail, ready>>
    BY <1>2 DEF HasherDozes, HasherSleeps, HasherStep
  <2> QED BY <1>1, <2>1 DEF Hashed
<1>3. CASE HasherExits(w)
  <2>1. PICK h : /\ hasher' = [h EXCEPT ![w] = "gone"]
                 /\ h = hasher \/ h \in Notified(1)
    BY <1>3 DEF HasherExits
  <2>2. DOMAIN h = HashWorker /\ \A v \in HashWorker : h[v] \in {hasher[v], "ready"}
    BY <1>1, <2>1, NotifiedWakes
  <2>3. UNCHANGED <<hashTasks, hashing, localResult, ready>>
    BY <1>3 DEF HasherExits
  <2>4. DOMAIN hasher' = HashWorker /\ \A v \in HashWorker : hasher'[v] \in {hasher[v], "ready", "gone"}
    BY <2>1, <2>2
  <2> QED BY <1>1, <2>3, <2>4 DEF Hashed
<1>4. CASE HasherPassesBaton(w)
  <2>1. hasher' \in Notified(1) /\ UNCHANGED <<hashTasks, hashing, localResult, ready>>
    BY <1>4 DEF HasherPassesBaton
  <2>2. DOMAIN hasher' = HashWorker /\ \A v \in HashWorker : hasher'[v] \in {hasher[v], "ready"}
    BY <1>1, <2>1, NotifiedWakes
  <2> QED BY <1>1, <2>1, <2>2 DEF Hashed
<1>5. CASE HasherTakes(w)
  <2>1. /\ hashTasks # <<>> /\ hasher' = [hasher EXCEPT ![w] = "hashing"]
        /\ hashing' = [hashing EXCEPT ![w] = <<Head(hashTasks)>>] /\ hashTasks' = Tail(hashTasks)
        /\ UNCHANGED <<localResult, ready>>
    BY <1>5 DEF HasherTakes, HasherStep
  <2>2. hashTasks' \in Seq(File) /\ <<Head(hashTasks)>> \in Seq(File) /\ <<Head(hashTasks)>> # <<>>
    BY <1>1, <2>1
  <2>3. /\ hashing' \in [HashWorker -> Seq(File)] /\ hashing'[w] # <<>>
        /\ \A v \in HashWorker \ {w} : hashing'[v] = hashing[v] /\ hasher'[v] = hasher[v]
        /\ hasher'[w] = "hashing" /\ DOMAIN hasher' = HashWorker
    BY <1>1, <2>1, <2>2
  <2>4. \A v \in HashWorker :
          /\ hasher'[v] \in {"hashing", "stored"} => hashing'[v] # <<>>
          /\ hasher'[v] = "stored" => localResult[Head(hashing'[v])] # NoResult
    BY <1>1, <2>3
  <2> QED BY <1>1, <2>1, <2>2, <2>3, <2>4 DEF Hashed
<1>6. CASE HasherStores(w)
  <2> DEFINE f == Head(hashing[w])
  <2>1. PICK r \in {"Failed"} \cup {e.content : e \in disk[f]} :
          localResult' = [localResult EXCEPT ![f] = r]
    BY <1>6 DEF HasherStores
  <2>2. /\ hasher[w] = "hashing" /\ hasher' = [hasher EXCEPT ![w] = "stored"]
        /\ UNCHANGED <<hashTasks, hashing, ready>>
    BY <1>6 DEF HasherStores, HasherStep
  <2>3. f \in File
    BY <1>1, <2>2
  <2>4. r # NoResult
    BY <2>3 DEF Inv, Inputs, NoResult
  <2>5. /\ DOMAIN localResult' = File /\ localResult'[f] = r
        /\ \A g \in File \ {f} : localResult'[g] = localResult[g]
    BY <1>1, <2>1, <2>3
  <2>6. \A g \in File : localResult[g] # NoResult => localResult'[g] # NoResult
    BY <2>4, <2>5
  <2>7. \A g \in File : localResult'[g] \in {NoResult, "Failed"} \cup {e.content : e \in disk[g]}
    BY <1>1, <2>5
  <2>8. \A g \in Range(ready) : g \in File /\ localResult'[g] # NoResult
    BY <1>1, <2>6, ListBasics
  <2>9. \A v \in HashWorker :
          /\ hasher'[v] \in {"hashing", "stored"} => hashing[v] # <<>>
          /\ hasher'[v] = "stored" => localResult'[Head(hashing[v])] # NoResult
    <3> TAKE v \in HashWorker
    <3>1. CASE v = w
      BY <1>1, <2>2, <2>4, <2>5, <3>1
    <3>2. CASE v # w
      <4>1. hasher'[v] = hasher[v]
        BY <1>1, <2>2, <3>2
      <4>2. hashing[v] # <<>> => Head(hashing[v]) \in File
        BY <1>1
      <4> QED BY <1>1, <2>6, <4>1, <4>2
    <3> QED BY <3>1, <3>2
  <2>10. DOMAIN hasher' = HashWorker
    BY <1>1, <2>2
  <2> QED BY <1>1, <2>2, <2>5, <2>7, <2>8, <2>9, <2>10 DEF Hashed
<1>7. CASE HasherReports(w)
  <2> DEFINE f == Head(hashing[w])
  <2>1. /\ hasher[w] = "stored" /\ hasher' = [hasher EXCEPT ![w] = "ready"]
        /\ ready' = Append(ready, f) /\ hashing' = [hashing EXCEPT ![w] = <<>>]
        /\ UNCHANGED <<hashTasks, localResult>>
    BY <1>7 DEF HasherReports, HasherStep
  <2>2. f \in File /\ localResult[f] # NoResult
    BY <1>1, <2>1
  <2> HIDE DEF f
  <2>3. ready' \in Seq(File) /\ Range(ready') = Range(ready) \cup {f}
    BY <1>1, <2>1, <2>2, AppendList
  <2>4. /\ hashing' \in [HashWorker -> Seq(File)] /\ DOMAIN hasher' = HashWorker
        /\ hasher'[w] = "ready"
        /\ \A v \in HashWorker \ {w} : hashing'[v] = hashing[v] /\ hasher'[v] = hasher[v]
    BY <1>1, <2>1
  <2>5. \A v \in HashWorker :
          /\ hasher'[v] \in {"hashing", "stored"} => hashing'[v] # <<>>
          /\ hasher'[v] = "stored" => localResult[Head(hashing'[v])] # NoResult
    BY <1>1, <2>4
  <2> QED BY <1>1, <2>1, <2>2, <2>3, <2>4, <2>5 DEF Hashed
<1> QED BY <1>2, <1>3, <1>4, <1>5, <1>6, <1>7 DEF HasherNext

LEMMA PumpsPool ==
  ASSUME Inv, NEW q \in Seq(File), NEW waiting, NEW flying \in Nat, NEW window \in Nat, NEW asked,
         NEW place, Pumps(q, waiting, flying, window, asked, place)
  PROVE  hashTasks' \in Seq(File) /\ OnlyWakes
<1> DEFINE n == Sendable(q, flying, window)
<1>1. hashTasks \in Seq(File) /\ hashCap \in Nat /\ DOMAIN hasher = HashWorker
  BY DEF Inv, Hashed, Numbers
<1>2. n \in 0..Len(q)
  BY <1>1, SendableBound
<1>3. \/ hashTasks' = hashTasks \o SubSeq(q, 1, n) /\ hasher' \in Notified(n)
      \/ UNCHANGED <<hashTasks, hasher>>
  BY DEF Pumps
<1> HIDE DEF n
<1>4. SubSeq(q, 1, n) \in Seq(File)
  BY <1>2
<1>5. CASE hashTasks' = hashTasks \o SubSeq(q, 1, n) /\ hasher' \in Notified(n)
  BY <1>1, <1>4, <1>5, NotifiedWakes DEF OnlyWakes
<1>6. CASE UNCHANGED <<hashTasks, hasher>>
  BY <1>1, <1>6 DEF OnlyWakes
<1> QED BY <1>3, <1>5, <1>6

LEMMA FlyingType == ASSUME Inv PROVE inFlight \in Nat /\ (requested # {} => inFlight - 1 \in Nat)
<1>1. requested \in SUBSET File /\ inFlight = Cardinality(requested)
  BY DEF Inv, PlaceInv, NetExact, Lists
<1>2. IsFiniteSet(requested) /\ inFlight \in Nat
  BY <1>1, FilesFinite
<1>3. requested # {} => inFlight # 0
  BY <1>1, <1>2, FS_EmptySet
<1> QED BY <1>2, <1>3

LEMMA HashedStep ==
  ASSUME Inv, [Next]_vars
  PROVE  Hashed'
<1> DEFINE Pool == /\ UNCHANGED <<hashing, localResult>> /\ OnlyWakes
                   /\ hashTasks' \in Seq(File) /\ ready' \in Seq(File)
                   /\ Range(ready') \subseteq Range(ready)
<1>1. disk' = disk
  BY InputsKept
<1>2. /\ hashTasks \in Seq(File) /\ ready \in Seq(File) /\ hashQueue \in Seq(File)
      /\ hashWindow \in Nat /\ DOMAIN hasher = HashWorker
  BY DEF Inv, Hashed, PlaceInv, Lists, Numbers
<1>3. Range(<<>>) = {} /\ <<>> \in Seq(File)
  BY <1>2, ListBasics
<1>4. CASE UNCHANGED hashVars
  <2>1. Pool
    BY <1>2, <1>4 DEF hashVars, OnlyWakes
  <2> QED BY <1>1, <2>1, HashedKept
<1>5. CASE DrainCompare
  <2> DEFINE unsettled == {results[i].file :
                             i \in {j \in DOMAIN results : results[j].outcome.needHash}}
  <2>1. UNCHANGED <<hashing, localResult, ready>>
    BY <1>5 DEF DrainCompare
  <2>2. \/ UNCHANGED <<hashTasks, hasher>>
        \/ \E clustered \in SetToSeqs(unsettled) :
             Pumps(hashQueue \o clustered, awaiting, inFlight, hashWindow, requested, "ready")
    BY <1>5, Zenon DEF DrainCompare
  <2>3. unsettled \in SUBSET File
    <3>1. \A i \in DOMAIN results : \E f \in File : results[i] = Compared(f)
      BY DEF Inv, PlaceInv, Lists
    <3>2. \A f : Compared(f).file = f
      BY DEF Compared
    <3> QED BY <3>1, <3>2
  <2> HIDE DEF unsettled
  <2>4. CASE UNCHANGED <<hashTasks, hasher>>
    <3>1. Pool
      BY <1>2, <2>1, <2>4 DEF OnlyWakes
    <3> QED BY <1>1, <3>1, HashedKept
  <2>5. ASSUME NEW clustered \in SetToSeqs(unsettled),
               Pumps(hashQueue \o clustered, awaiting, inFlight, hashWindow, requested, "ready")
        PROVE  Hashed'
    <3>1. clustered \in Seq(File)
      BY <2>3, FilesFinite, EnumerateSet, SeqOfSubset
    <3>2. hashQueue \o clustered \in Seq(File)
      BY <1>2, <3>1
    <3>3. Pool
      BY <1>2, <2>1, <2>5, <3>2, FlyingType, PumpsPool
    <3> QED BY <1>1, <3>3, HashedKept
  <2> QED BY <2>2, <2>4, <2>5
<1>6. CASE DrainReady \/ JoinHash
  <2>1. /\ UNCHANGED <<hashTasks, hasher, hashing, localResult>>
        /\ ready' = <<>> \/ ready' = ready
    BY <1>6 DEF DrainReady, JoinHash, DrainsReady
  <2>2. Pool
    BY <1>2, <1>3, <2>1 DEF OnlyWakes
  <2> QED BY <1>1, <2>2, HashedKept
<1>7. CASE Pump
  <2>1. /\ Pumps(hashQueue, awaiting, inFlight, hashWindow, requested, "tune")
        /\ UNCHANGED <<hashing, localResult, ready>>
    BY <1>7 DEF Pump
  <2>2. Pool
    BY <1>2, <2>1, FlyingType, PumpsPool
  <2> QED BY <1>1, <2>2, HashedKept
<1>8. ASSUME NEW f \in File, RecvHashResponse(f) PROVE Hashed'
  <2>1. /\ UNCHANGED <<hashing, localResult, ready>> /\ f \in requested
        /\ hashWindow' \in NextNetWindow(hashWindow)
        /\ \/ UNCHANGED <<hashTasks, hasher>>
           \/ \E waiting : Pumps(hashQueue, waiting, inFlight - 1, hashWindow', requested \ {f},
                                 AfterFrame)
    BY <1>8, Zenon DEF RecvHashResponse
  <2>2. hashWindow' \in Nat /\ inFlight - 1 \in Nat
    BY <1>2, <2>1, WindowType, FlyingType
  <2>3. CASE UNCHANGED <<hashTasks, hasher>>
    <3>1. Pool
      BY <1>2, <2>1, <2>3 DEF OnlyWakes
    <3> QED BY <1>1, <3>1, HashedKept
  <2>4. ASSUME NEW waiting,
               Pumps(hashQueue, waiting, inFlight - 1, hashWindow', requested \ {f}, AfterFrame)
        PROVE  Hashed'
    <3> DEFINE flying == inFlight - 1
               asked == requested \ {f}
    <3>1. flying \in Nat /\ Pumps(hashQueue, waiting, flying, hashWindow', asked, AfterFrame)
      BY <2>2, <2>4
    <3> HIDE DEF flying, asked
    <3>2. Pool
      BY <1>2, <2>1, <2>2, <3>1, PumpsPool
    <3> QED BY <1>1, <3>2, HashedKept
  <2> QED BY <2>1, <2>3, <2>4
<1>9. CASE Tune \/ JoinCompare
  <2>1. /\ UNCHANGED <<hashTasks, hashing, localResult, ready>>
        /\ hasher' = hasher \/ hasher' = Woken(hasher)
    BY <1>9 DEF Tune, JoinCompare
  <2>2. OnlyWakes
    BY <1>2, <2>1 DEF OnlyWakes, Woken
  <2> QED BY <1>1, <1>2, <2>1, <2>2, HashedKept
<1>10. ASSUME NEW w \in HashWorker, HasherNext(w) PROVE Hashed'
  BY <1>1, <1>10, HasherHashed
<1>11. CASE Fill \/ RecvManifestEntry \/ Judge
  <2>1. UNCHANGED hashVars
    BY <1>11 DEF Fill, RecvManifestEntry, Judge
  <2> QED BY <1>4, <2>1
<1>12. CASE QuietMain
  <2>1. Tune \/ JoinCompare \/ UNCHANGED hashVars
    BY <1>12 DEF QuietMain, LoopLeaves, Wait, RecvManifestEnd, RecvStops, RecvThrows, StopCompare
  <2> QED BY <1>4, <1>9, <2>1
<1>13. CASE UNCHANGED engineVars
  BY <1>4, <1>13 DEF engineVars
<1> QED BY <1>4, <1>5, <1>6, <1>7, <1>8, <1>10, <1>11, <1>12, <1>13, Steps

-----------------------------------------------------------------------------
(* The end of the check.                                                   *)

LEMMA ExtraStep ==
  ASSUME Inv, [Next]_vars
  PROVE  ExtraLast'
<1>1. pc # "done" => counters["Extra"] = 0
  BY DEF Inv, ExtraLast
<1>2. CASE DrainCompare
  BY <1>1, <1>2, DrainComparePlaces DEF ExtraLast, DrainCompare
<1>3. CASE DrainReady
  <2>1. /\ DrainsReady /\ pc = "ready"
        /\ UNCHANGED <<pipelineVars, delayed, hashQueue, listed, requested, inFlight, cause>>
    BY <1>3 DEF DrainReady, netVars
  <2> QED BY <1>1, <2>1, DrainsReadyPlaces DEF ExtraLast
<1>4. CASE Fill \/ Pump \/ RecvManifestEntry
  <2>1. counters' = counters /\ pc # "done"
    BY <1>4 DEF Fill, Pump, RecvManifestEntry, Receives
  <2> QED BY <1>1, <2>1 DEF ExtraLast
<1>5. ASSUME NEW f \in File, RecvHashResponse(f) PROVE ExtraLast'
  <2> DEFINE cat == ClassifyByHash(TRUE, localResult[f], Remote[f].content)
  <2>1. pc # "done" /\ (counters' = counters \/ counters' = Counted(cat, 1))
    BY <1>5 DEF RecvHashResponse, Receives
  <2>2. cat # "Extra"
    BY DEF ClassifyByHash
  <2> HIDE DEF cat
  <2>3. counters \in [{"Same", "Diff", "Missing", "Extra"} -> Nat]
    BY DEF Inv, Numbers
  <2> QED BY <1>1, <2>1, <2>2, <2>3 DEF Counted, ExtraLast
<1>6. CASE JoinHash
  BY <1>1, <1>6, JoinHashPlaces DEF ExtraLast, JoinHash
<1>7. CASE Judge
  BY <1>7 DEF Judge, ExtraLast
<1>8. CASE QuietMain /\ Quiet
  <2>1. pc # "done" /\ counters' = counters
    BY <1>8 DEF QuietMain, Quiet, LoopLeaves, Tune, Wait, RecvManifestEnd, RecvStops, RecvThrows,
                StopCompare, JoinCompare, Receives
  <2> QED BY <1>1, <2>1 DEF ExtraLast
<1>9. CASE UNCHANGED mainVars
  BY <1>1, <1>9 DEF mainVars, ExtraLast
<1>10. ASSUME NEW w \in HashWorker, HasherNext(w) PROVE UNCHANGED mainVars
  BY <1>10, HasherKeeps
<1> QED BY <1>2, <1>3, <1>4, <1>5, <1>6, <1>7, <1>8, <1>9, <1>10, Steps DEF engineVars

\* A loop that ends by itself has nothing left to settle.
LEMMA LoopEnds ==
  ASSUME Inv, ~LoopGoesOn
  PROVE  manifestDone /\ Unrecorded = {}
<1> USE DEF Inv, PlaceInv
<1>1. /\ manifestDone /\ ~(InFlight > 0) /\ delayed = <<>> /\ hashQueue = <<>> /\ awaiting = {}
  BY DEF LoopGoesOn
<1>2. Piped \in SUBSET File
  <2>1. Unrecorded \subseteq File
    BY ListedFiles DEF AllKnown
  <2>2. PipeStage \subseteq Stage
    BY StageCases DEF PipeStage
  <2> QED BY <2>1, <2>2 DEF Piped, Unrecorded
<1>3. IsFiniteSet(Piped) /\ Cardinality(Piped) \in Nat
  BY <1>2, FilesFinite
<1>4. Cardinality(Piped) = 0
  BY <1>1, <1>3 DEF InFlight, PipeExact, Numbers
<1>5. Piped = {}
  BY <1>3, <1>4, FS_EmptySet
<1>6. Range(<<>>) = {}
  BY ListBasics DEF Lists
<1>7. \A s \in Stage : Held(s) = {}
  <2>1. \A s \in PipeStage : Held(s) = {}
    BY <1>5 DEF Piped
  <2>2. Held("delayed") = {} /\ Held("hashQueue") = {} /\ Held("awaiting") = {}
    BY <1>1, <1>6, HeldIs
  <2> QED BY <2>1, <2>2, StageCases DEF PipeStage
<1> QED BY <1>1, <1>7 DEF Unrecorded

Ending ==
  \/ pc \in {"stop", "join", "joinHash"} /\ cause = "none" /\ ~localReadFailed
  \/ pc = "scan"

LEMMA EndsStep ==
  ASSUME Inv, [Next]_vars
  PROVE  EndsWhole'
<1>1. /\ cause \in {"none", "interrupted", "disconnected"}
      /\ manifestDone => listed = Len(Manifest)
      /\ pc # "done" => exit = Undecided
      /\ Ending => manifestDone /\ cause = "none" /\ Unrecorded = {}
  BY DEF Inv, EndsWhole, Ending
<1>2. Len(Manifest) \in Nat /\ listed \in 0..Len(Manifest)
  BY InputAssumption DEF Inv, Numbers
<1>3. RecvManifestEntry \/ Unrecorded' \subseteq Unrecorded
  BY PlacesStep
<1>4. AfterFrame \in {"top", "recv"}
  BY DEF AfterFrame
<1> DEFINE Loops == /\ pc # "done" /\ UNCHANGED <<listed, manifestDone, exit>>
                    /\ \/ cause' = cause /\ pc' \notin {"stop", "join", "joinHash", "scan"}
                       \/ cause' \in {"interrupted", "disconnected"} /\ pc' = "stop"
                       \/ cause' = cause /\ pc' = "stop" /\ localReadFailed'
<1>5. CASE Loops
  BY <1>1, <1>5 DEF EndsWhole
<1>6. CASE LoopLeaves
  <2>1. /\ pc = "top" /\ pc' = "stop" /\ UNCHANGED <<listed, manifestDone, exit>>
        /\ cause' = IF LoopGoesOn THEN "interrupted" ELSE cause
    BY <1>6 DEF LoopLeaves
  <2>2. CASE LoopGoesOn
    BY <1>5, <2>1, <2>2
  <2>3. CASE ~LoopGoesOn
    <3>1. manifestDone /\ Unrecorded = {}
      BY <2>3, LoopEnds
    <3>2. Unrecorded' = {}
      <4>1. ~RecvManifestEntry
        BY <2>1 DEF RecvManifestEntry, Receives
      <4> QED BY <1>3, <3>1, <4>1
    <3> QED BY <1>1, <2>1, <2>3, <3>1, <3>2 DEF EndsWhole
  <2> QED BY <2>2, <2>3
<1>7. CASE DrainCompare
  <2>1. /\ pc = "top" /\ UNCHANGED <<listed, manifestDone, exit>>
        /\ \/ cause' = cause /\ pc' = "ready"
           \/ cause' = "disconnected" /\ pc' = "stop"
    BY <1>7 DEF DrainCompare, Pumps
  <2> QED BY <1>5, <2>1
<1>8. CASE DrainReady
  <2>1. /\ pc = "ready" /\ UNCHANGED <<listed, manifestDone, exit, cause>>
        /\ pc' = IF localReadFailed' THEN "stop" ELSE "fill"
    BY <1>8 DEF DrainReady
  <2> QED BY <1>5, <2>1
<1>9. CASE Fill \/ Tune \/ Wait \/ RecvStops
  <2>1. /\ pc # "done" /\ UNCHANGED <<listed, manifestDone, exit, cause>>
        /\ pc' \in {"pump", "recv", "wait", "top"}
    BY <1>9 DEF Fill, Tune, Wait, RecvStops
  <2> QED BY <1>5, <2>1
<1>10. CASE Pump
  <2>1. /\ pc = "pump" /\ UNCHANGED <<listed, manifestDone, exit>>
        /\ \/ cause' = cause /\ pc' = "tune"
           \/ cause' = "disconnected" /\ pc' = "stop"
    BY <1>10 DEF Pump, Pumps
  <2> QED BY <1>5, <2>1
<1>11. CASE RecvThrows
  <2>1. /\ pc # "done" /\ UNCHANGED <<listed, manifestDone, exit>>
        /\ cause' = "disconnected" /\ pc' = "stop"
    BY <1>11 DEF RecvThrows, Receives
  <2> QED BY <1>5, <2>1
<1>12. ASSUME NEW f \in File, RecvHashResponse(f) PROVE EndsWhole'
  <2>1. pc # "done" /\ UNCHANGED <<listed, manifestDone, exit>>
    BY <1>12 DEF RecvHashResponse, Receives
  <2>2. \/ cause' = cause /\ pc' \in {"top", AfterFrame}
        \/ cause' = "disconnected" /\ pc' = "stop"
    BY <1>12 DEF RecvHashResponse, Pumps
  <2> QED BY <1>4, <1>5, <2>1, <2>2
<1>13. CASE RecvManifestEntry
  <2>1. /\ pc = "recv" /\ listed < Len(Manifest) /\ listed' = listed + 1 /\ pc' = AfterFrame
        /\ UNCHANGED <<manifestDone, exit, cause>>
    BY <1>13 DEF RecvManifestEntry, Receives
  <2>2. ~manifestDone
    BY <1>1, <1>2, <2>1
  <2> QED BY <1>1, <1>4, <2>1, <2>2 DEF EndsWhole
<1>14. CASE RecvManifestEnd
  <2>1. /\ pc = "recv" /\ listed = Len(Manifest) /\ pc' = "top" /\ UNCHANGED <<listed, exit, cause>>
    BY <1>14 DEF RecvManifestEnd, Receives
  <2> QED BY <1>1, <2>1 DEF EndsWhole
<1>15. CASE StopCompare \/ JoinCompare
  <2>1. /\ pc \in {"stop", "join"} /\ pc' \in {"join", "joinHash"}
        /\ UNCHANGED <<listed, manifestDone, exit, cause, localReadFailed>>
    BY <1>15 DEF StopCompare, JoinCompare
  <2>2. ~RecvManifestEntry
    BY <2>1 DEF RecvManifestEntry, Receives
  <2>3. Unrecorded = {} => Unrecorded' = {}
    BY <1>3, <2>2
  <2> QED BY <1>1, <2>1, <2>3 DEF EndsWhole, Ending
<1>16. CASE JoinHash
  <2>1. /\ pc = "joinHash" /\ UNCHANGED <<listed, manifestDone, cause>>
        /\ localReadFailed => localReadFailed'
        /\ exit' = CASE cause = "interrupted" -> "Interrupted"
                     [] cause = "disconnected" -> "ConnFailed"
                     [] cause = "none" /\ localReadFailed' -> "LocalPrecondFailed"
                     [] OTHER -> Undecided
        /\ pc' = IF exit' = Undecided THEN "scan" ELSE "done"
    BY <1>16 DEF JoinHash
  <2>2. exit' = Undecided => cause = "none" /\ ~localReadFailed'
    BY <1>1, <2>1 DEF Undecided
  <2>3. ~RecvManifestEntry
    BY <2>1 DEF RecvManifestEntry, Receives
  <2>4. pc' = "scan" => Ending /\ cause' = "none" /\ exit' = Undecided
    BY <2>1, <2>2 DEF Ending
  <2>5. pc' = "scan" => manifestDone' /\ cause' = "none" /\ Unrecorded' = {}
    BY <1>1, <1>3, <2>1, <2>3, <2>4
  <2> QED BY <1>1, <2>1, <2>4, <2>5 DEF EndsWhole
<1>17. CASE Judge
  <2>1. pc' = "done" /\ UNCHANGED <<listed, manifestDone, cause>>
    BY <1>17 DEF Judge
  <2> QED BY <1>1, <2>1 DEF EndsWhole
<1>18. CASE UNCHANGED mainVars
  <2>1. UNCHANGED <<pc, listed, manifestDone, localReadFailed, cause, exit>>
    BY <1>18 DEF mainVars
  <2>2. ~RecvManifestEntry
    BY <1>2, <2>1 DEF RecvManifestEntry
  <2>3. Unrecorded = {} => Unrecorded' = {}
    BY <1>3, <2>2
  <2> QED BY <1>1, <2>1, <2>3 DEF EndsWhole, Ending
<1>19. ASSUME NEW w \in HashWorker, HasherNext(w) PROVE UNCHANGED mainVars
  BY <1>19, HasherKeeps
<1> HIDE DEF Loops
<1> QED BY <1>6, <1>7, <1>8, <1>9, <1>10, <1>11, <1>12, <1>13, <1>14, <1>15, <1>16, <1>17,
           <1>18, <1>19, Steps DEF QuietMain, engineVars

-----------------------------------------------------------------------------
(* The scan for extra files.                                               *)

LEMMA ReachBasics ==
  ASSUME NEW from \in SUBSET Dir
  PROVE  /\ from \subseteq Reachable(from) /\ Reachable(from) \subseteq Dir
         /\ \A e \in Reachable(from) : Children(e) \subseteq Reachable(from)
         /\ \A s \in SUBSET Dir : from \subseteq s /\ (\A e \in s : Children(e) \subseteq s)
                                    => Reachable(from) \subseteq s
<1>1. \A e \in Dir : Children(e) \subseteq Dir
  BY WalkAssumption DEF Children
<1>2. ASSUME NEW e \in Reachable(from), NEW d \in Children(e) PROVE d \in Reachable(from)
  <2>1. e \in Dir /\ d \in Dir
    BY <1>1 DEF Reachable
  <2>2. ASSUME NEW s \in SUBSET Dir, from \subseteq s, \A x \in s : Children(x) \subseteq s
        PROVE  d \in s
    <3>1. e \in s
      BY <2>2 DEF Reachable
    <3> QED BY <2>2, <3>1
  <2> QED BY <2>1, <2>2 DEF Reachable
<1> QED BY <1>2 DEF Reachable

LEMMA NothingReachable == Reachable({}) = {}
<1>1. {} \in SUBSET Dir /\ \A e \in {} : Children(e) \subseteq {}
  OBVIOUS
<1> QED BY <1>1, ReachBasics

\* The parts of a list, repetitions allowed.
LEMMA SplitRange ==
  ASSUME NEW S, NEW s \in Seq(S), NEW n \in 0..Len(s)
  PROVE  LET a == SubSeq(s, 1, n)
             b == SubSeq(s, n + 1, Len(s))
         IN  /\ a \in Seq(S) /\ b \in Seq(S) /\ Len(b) = Len(s) - n
             /\ Range(a) \cup Range(b) = Range(s)
<1> DEFINE a == SubSeq(s, 1, n)
           b == SubSeq(s, n + 1, Len(s))
           m == Len(s)
<1>1. /\ m \in Nat /\ n \in 0..m /\ DOMAIN s = 1..m /\ DOMAIN a = 1..n /\ DOMAIN b = 1..(m - n)
      /\ a \in Seq(S) /\ b \in Seq(S) /\ Len(b) = m - n
      /\ (\A i \in 1..n : a[i] = s[i]) /\ (\A i \in 1..(m - n) : b[i] = s[n + i])
  OBVIOUS
<1> HIDE DEF a, b, m
<1>2. /\ \A i \in DOMAIN a : i \in DOMAIN s /\ a[i] = s[i]
      /\ \A i \in DOMAIN b : n + i \in DOMAIN s /\ b[i] = s[n + i]
  <2>1. \A i \in 1..(m - n) : n + i \in 1..m
    BY <1>1
  <2>2. \A i \in 1..n : i \in 1..m
    BY <1>1
  <2> QED BY <1>1, <2>1, <2>2
<1>4. ASSUME NEW i \in DOMAIN s
      PROVE  \/ i \in DOMAIN a /\ a[i] = s[i]
             \/ i - n \in DOMAIN b /\ b[i - n] = s[i]
  <2>1. i \in Int /\ n \in Int /\ 1 <= i /\ i <= m
    BY <1>1
  <2>2. CASE i <= n
    BY <1>1, <2>1, <2>2
  <2>3. CASE i > n
    <3>1. i - n \in 1..(m - n) /\ n + (i - n) = i
      BY <1>1, <2>1, <2>3
    <3> QED BY <1>1, <3>1
  <2> QED BY <2>1, <2>2, <2>3
<1>3. Range(a) \cup Range(b) = Range(s)
  <2>1. Range(a) \cup Range(b) \subseteq Range(s)
    BY <1>2 DEF Range
  <2>2. Range(s) \subseteq Range(a) \cup Range(b)
    BY <1>4 DEF Range
  <2> QED BY <2>1, <2>2
<1> QED BY <1>1, <1>3 DEF a, b, m

LEMMA ReverseRange ==
  ASSUME NEW S, NEW s \in Seq(S)
  PROVE  Reverse(s) \in Seq(S) /\ Len(Reverse(s)) = Len(s) /\ Range(Reverse(s)) = Range(s)
<1> DEFINE r == Reverse(s)
           m == Len(s)
<1>1. m \in Nat /\ DOMAIN s = 1..m
  OBVIOUS
<1>2. r = [i \in 1..m |-> s[(m - i) + 1]]
  BY DEF Reverse
<1> HIDE DEF r, m
<1>3. \A i \in 1..m : (m - i) + 1 \in 1..m /\ (m - ((m - i) + 1)) + 1 = i
  BY <1>1
<1>4. DOMAIN r = 1..m /\ \A i \in 1..m : r[i] = s[(m - i) + 1] /\ r[i] \in S
  BY <1>1, <1>2, <1>3
<1>5. r \in Seq(S) /\ Len(r) = m
  BY <1>1, <1>2, <1>4
<1>6. \A i \in 1..m : s[i] = r[(m - i) + 1]
  BY <1>3, <1>4
<1>7. Range(r) \subseteq Range(s)
  BY <1>1, <1>3, <1>4 DEF Range
<1>8. Range(s) \subseteq Range(r)
  BY <1>1, <1>3, <1>4, <1>6 DEF Range
<1> QED BY <1>5, <1>7, <1>8 DEF r, m

LEMMA CountSlots ==
  ASSUME NEW w, NEW n \in Nat
  PROVE  IsFiniteSet({<<w, i>> : i \in 1..n}) /\ Cardinality({<<w, i>> : i \in 1..n}) = n
<1> DEFINE T == {<<w, i>> : i \in 1..n}
           h == [i \in 1..n |-> <<w, i>>]
<1>1. h \in [1..n -> T] /\ (\A i, j \in 1..n : h[i] = h[j] => i = j)
      /\ \A e \in T : \E i \in 1..n : h[i] = e
  OBVIOUS
<1> HIDE DEF h, T
<1>2. h \in Bijection(1..n, T)
  BY <1>1 DEF Bijection, Injection, Surjection, IsInjective
<1>3. ExistsBijection(1..n, T)
  BY <1>2 DEF ExistsBijection
<1>4. IsFiniteSet(T) /\ Cardinality(T) = n
  BY <1>3, FS_NatBijection, FS_CountingElements
<1> QED BY <1>4 DEF T

LEMMA WalkInitWalks ==
  ASSUME WalkInit, WalkStarts
  PROVE  Walks'
<1>1. /\ stack' = <<Root>> /\ walker' = [w \in Walker |-> "ready"]
      /\ listing' = [w \in Walker |-> <<>>] /\ context' = [w \in Walker |-> {}] /\ merged' = {}
      /\ firstError' = FALSE /\ activeDirs' = 0
  BY DEF WalkInit, WalkStarts
<1>2. Root \in Dir
  BY WalkAssumption
<1>3. stack' \in Seq(Dir) /\ Range(stack') = {Root} /\ <<>> \in Seq(Dir) /\ Range(<<>>) = {}
  BY <1>1, <1>2 DEF Range
<1>4. Pending' = {Root} /\ Found' = {}
  BY <1>1, <1>3 DEF Pending, Found
<1>5. Slots' = {}
  BY <1>1 DEF Slots
<1>6. Pending' \subseteq Reachable({Root})
  BY <1>2, <1>4, ReachBasics
<1>7. TrueExtras \subseteq ExtrasOf(Reachable(Pending'))
  BY <1>4 DEF TrueExtras, ExtrasOf
<1>8. \A w \in Walker : walker'[w] = "ready" /\ listing'[w] = <<>>
  BY <1>1
<1>9. IsFiniteSet(Slots') /\ activeDirs' = Cardinality(Slots')
  BY <1>1, <1>5, FS_EmptySet
<1> QED BY <1>1, <1>3, <1>4, <1>6, <1>7, <1>8, <1>9 DEF Walks

\* A step that only moves walkers between waiting and ready, or to flush.
LEMMA WalkersMove ==
  ASSUME Walks, UNCHANGED <<stack, activeDirs, listing, context, merged, firstError>>,
         DOMAIN walker' = Walker,
         \A v \in Walker : \/ walker'[v] = walker[v]
                           \/ /\ walker[v] \in {"ready", "asleep"}
                              /\ walker'[v] \in {"ready", "asleep"}
                           \/ walker[v] = "ready" /\ walker'[v] = "flush" /\ Pending = {}
  PROVE  Walks'
<1>1. Pending' = Pending /\ Slots' = Slots /\ Found' = Found
  BY DEF Pending, Slots, Found
<1>2. \A v \in Walker :
        /\ (walker'[v] = "listing") = (listing[v] # <<>>)
        /\ walker'[v] \in {"flush", "gone"} => Pending = {}
        /\ walker'[v] = "gone" => context[v] = {}
  BY DEF Walks
<1> QED BY <1>1, <1>2 DEF Walks

\* No directory in anybody's hands and none on the stack: the walk is over.
LEMMA WalkOver ==
  ASSUME Walks, stack = <<>>, activeDirs = 0
  PROVE  Pending = {}
<1>1. Slots = {}
  BY FS_EmptySet DEF Walks
<1>2. ASSUME NEW v \in Walker PROVE listing[v] = <<>>
  <2>1. listing[v] \in Seq(Dir)
    BY DEF Walks
  <2>2. ASSUME 1 \in DOMAIN listing[v] PROVE FALSE
    <3> DEFINE e == <<v, 1>>
    <3>1. e \in Walker \X Nat /\ e[1] = v /\ e[2] = 1
      OBVIOUS
    <3> HIDE DEF e
    <3>2. e \in Slots
      BY <2>2, <3>1 DEF Slots
    <3> QED BY <1>1, <3>2
  <2> QED BY <2>1, <2>2
<1>3. Range(<<>>) = {}
  BY DEF Range
<1> QED BY <1>2, <1>3 DEF Pending

LEMMA WalkerPopsWalks ==
  ASSUME Walks, NEW w \in Walker, WalkerPops(w)
  PROVE  Walks'
<1> DEFINE take == IF Len(stack) < DirPopBatch THEN Len(stack) ELSE DirPopBatch
           n == Len(stack) - take
           b == SubSeq(stack, Len(stack) - take + 1, Len(stack))
           taken == Reverse(b)
           a == SubSeq(stack, 1, n)
<1>1. /\ walker[w] = "ready" /\ stack # <<>> /\ listing' = [listing EXCEPT ![w] = taken]
      /\ stack' = a /\ activeDirs' = activeDirs + take
      /\ walker' = [walker EXCEPT ![w] = "listing"] /\ UNCHANGED <<context, merged, firstError>>
  BY DEF WalkerPops
<1>2. /\ stack \in Seq(Dir) /\ listing \in [Walker -> Seq(Dir)] /\ DOMAIN walker = Walker
      /\ listing[w] = <<>> /\ IsFiniteSet(Slots) /\ activeDirs = Cardinality(Slots)
  BY <1>1 DEF Walks
<1>3. take \in 1..Len(stack) /\ n \in 0..Len(stack) /\ Len(stack) - n = take /\ take \in Nat
  <2>1. Len(stack) \in Nat /\ Len(stack) # 0 /\ DirPopBatch \in Nat /\ DirPopBatch # 0
    BY <1>1, <1>2, WalkAssumption
  <2> QED BY <2>1
<1>4. b = SubSeq(stack, n + 1, Len(stack))
  OBVIOUS
<1> HIDE DEF take, n
<1>5. /\ a \in Seq(Dir) /\ b \in Seq(Dir) /\ Len(b) = take /\ Range(a) \cup Range(b) = Range(stack)
  BY <1>2, <1>3, <1>4, SplitRange
<1> HIDE DEF a, b
<1>6. taken \in Seq(Dir) /\ Len(taken) = take /\ Range(taken) = Range(b)
  BY <1>5, ReverseRange
<1> HIDE DEF taken
<1>7. /\ listing' \in [Walker -> Seq(Dir)] /\ listing'[w] = taken
      /\ \A v \in Walker \ {w} : listing'[v] = listing[v]
  BY <1>1, <1>2, <1>6
<1>8. Range(<<>>) = {}
  BY DEF Range
<1>9. Pending' = Pending
  <2>1. UNION {Range(listing'[v]) : v \in Walker} = Range(taken) \cup UNION {Range(listing[v]) : v \in Walker}
    <3>1. \A v \in Walker : Range(listing'[v]) = IF v = w THEN Range(taken) ELSE Range(listing[v])
      BY <1>7
    <3>2. Range(listing[w]) = {}
      BY <1>2, <1>8
    <3> QED BY <3>1, <3>2
  <2> QED BY <1>1, <1>5, <1>6, <2>1 DEF Pending
<1>10. DOMAIN taken = 1..take
  BY <1>6
<1> DEFINE T == {<<w, i>> : i \in 1..take}
<1>11. Slots' = Slots \cup T /\ Slots \cap T = {}
  <2>1. DOMAIN listing[w] = {}
    BY <1>2
  <2>2. \A e \in Walker \X Nat : e[2] \in DOMAIN listing'[e[1]] <=>
                                   (e[2] \in DOMAIN listing[e[1]] \/ e \in T)
    <3> TAKE e \in Walker \X Nat
    <3>1. CASE e[1] = w
      <4>1. e \in T <=> e[2] \in 1..take
        BY <3>1
      <4> QED BY <1>7, <1>10, <2>1, <3>1, <4>1
    <3>2. CASE e[1] # w
      <4>1. e \notin T /\ listing'[e[1]] = listing[e[1]]
        BY <1>7, <3>2
      <4> QED BY <4>1
    <3> QED BY <3>1, <3>2
  <2>3. T \subseteq Walker \X Nat
    BY <1>3
  <2>4. \A e \in T : e[1] = w
    OBVIOUS
  <2> HIDE DEF T
  <2>5. Slots' = Slots \cup T
    BY <2>2, <2>3 DEF Slots
  <2>6. Slots \cap T = {}
    BY <2>1, <2>4 DEF Slots
  <2> QED BY <2>5, <2>6
<1>12. IsFiniteSet(T) /\ Cardinality(T) = take
  BY <1>3, CountSlots
<1> HIDE DEF T
<1>13. IsFiniteSet(Slots') /\ activeDirs' = Cardinality(Slots')
  BY <1>1, <1>2, <1>11, <1>12, CountApart
<1>14. Found' = Found
  BY <1>1 DEF Found
<1>15. Pending # {}
  <2>1. 1 \in DOMAIN stack
    BY <1>1, <1>2
  <2> QED BY <2>1 DEF Pending, Range
<1>16. \A v \in Walker :
         /\ (walker'[v] = "listing") = (listing'[v] # <<>>)
         /\ walker'[v] \in {"flush", "gone"} => Pending = {}
         /\ walker'[v] = "gone" => context[v] = {}
  <2>1. taken # <<>>
    BY <1>3, <1>6
  <2>2. \A v \in Walker : walker[v] \notin {"flush", "gone"}
    BY <1>15 DEF Walks
  <2>3. walker'[w] = "listing" /\ \A v \in Walker \ {w} : walker'[v] = walker[v]
    BY <1>1, <1>2
  <2> QED BY <1>7, <2>1, <2>2, <2>3 DEF Walks
<1> QED BY <1>1, <1>2, <1>5, <1>7, <1>9, <1>13, <1>14, <1>16 DEF Walks

LEMMA WalkerFlushesWalks ==
  ASSUME Walks, NEW w \in Walker, WalkerFlushes(w)
  PROVE  Walks'
<1>1. /\ walker[w] = "flush" /\ merged' = merged \cup context[w]
      /\ context' = [context EXCEPT ![w] = {}] /\ walker' = [walker EXCEPT ![w] = "gone"]
      /\ UNCHANGED <<stack, activeDirs, listing, firstError>>
  BY DEF WalkerFlushes
<1>2. DOMAIN walker = Walker /\ DOMAIN context = Walker
  BY DEF Walks
<1>3. /\ DOMAIN walker' = Walker /\ DOMAIN context' = Walker
      /\ walker'[w] = "gone" /\ context'[w] = {}
      /\ \A v \in Walker \ {w} : walker'[v] = walker[v] /\ context'[v] = context[v]
  BY <1>1, <1>2
<1>4. Found' = Found
  BY <1>1, <1>3 DEF Found
<1>5. Pending' = Pending /\ Slots' = Slots
  BY <1>1 DEF Pending, Slots
<1>6. \A v \in Walker :
        /\ (walker'[v] = "listing") = (listing[v] # <<>>)
        /\ walker'[v] \in {"flush", "gone"} => Pending = {}
        /\ walker'[v] = "gone" => context'[v] = {}
  BY <1>1, <1>3 DEF Walks
<1> QED BY <1>1, <1>3, <1>4, <1>5, <1>6 DEF Walks

\* A walker sleeps until there is work, or ends the walk.
LEMMA WalkerWaitsWalks ==
  ASSUME Walks, NEW w \in Walker, WalkerWaits(w) \/ WalkerEnds(w)
  PROVE  Walks'
<1>1. DOMAIN walker = Walker /\ UNCHANGED <<stack, activeDirs, listing, context, merged, firstError>>
  BY DEF WalkerWaits, WalkerEnds, Walks
<1>2. CASE WalkerWaits(w)
  <2>1. walker[w] = "ready" /\ walker' = [walker EXCEPT ![w] = "asleep"]
    BY <1>2 DEF WalkerWaits
  <2>2. DOMAIN walker' = Walker /\ \A v \in Walker : walker'[v] = IF v = w THEN "asleep" ELSE walker[v]
    BY <1>1, <2>1
  <2> QED BY <1>1, <2>1, <2>2, WalkersMove
<1>3. CASE WalkerEnds(w)
  <2>1. walker[w] = "ready" /\ walker' = [AllWoken(walker) EXCEPT ![w] = "flush"]
    BY <1>3 DEF WalkerEnds
  <2>2. Pending = {}
    BY <1>3, WalkOver DEF WalkerEnds
  <2>3. DOMAIN walker' = Walker
    BY <2>1 DEF AllWoken
  <2>4. \A v \in Walker : walker'[v] = IF v = w THEN "flush"
                                       ELSE IF walker[v] = "asleep" THEN "ready" ELSE walker[v]
    BY <2>1 DEF AllWoken
  <2> QED BY <1>1, <2>1, <2>2, <2>3, <2>4, WalkersMove
<1> QED BY <1>2, <1>3

LEMMA ExtrasAre ==
  ASSUME NEW dirs, NEW x
  PROVE  x \in ExtrasOf(dirs) <=> x \notin File /\ \E d \in dirs \ Unreadable : x \in LocalFiles[d]
<1> DEFINE U == UNION {LocalFiles[d] : d \in dirs \ Unreadable}
<1>1. x \in U <=> \E d \in dirs \ Unreadable : x \in LocalFiles[d]
  OBVIOUS
<1>2. ExtrasOf(dirs) = U \ File
  BY DEF ExtrasOf
<1> HIDE DEF U
<1> QED BY <1>1, <1>2

\* Listing a batch: what was below its directories is below their children.
LEMMA BelowBatch ==
  ASSUME NEW D \in SUBSET Dir, NEW R \in SUBSET Dir, NEW kids \in SUBSET Dir,
         \A d \in D : Children(d) \subseteq kids
  PROVE  ExtrasOf(Reachable(R \cup D)) \subseteq ExtrasOf(D) \cup ExtrasOf(Reachable(R \cup kids))
<1> DEFINE to == R \cup kids
           s == D \cup Reachable(to)
<1>1. /\ to \subseteq Reachable(to) /\ Reachable(to) \subseteq Dir
      /\ \A e \in Reachable(to) : Children(e) \subseteq Reachable(to)
  BY ReachBasics
<1>2. s \in SUBSET Dir /\ R \cup D \subseteq s /\ \A e \in s : Children(e) \subseteq s
  BY <1>1
<1>3. Reachable(R \cup D) \subseteq s
  <2>1. R \cup D \in SUBSET Dir
    OBVIOUS
  <2> HIDE DEF s
  <2> QED BY <1>2, <2>1, ReachBasics
<1> QED BY <1>3 DEF ExtrasOf

LEMMA WalkerListsWalks ==
  ASSUME Walks, NEW w \in Walker, WalkerLists(w, File)
  PROVE  Walks'
<1> DEFINE L == listing[w]
           D == Range(L)
           R == Range(stack) \cup UNION {Range(listing[v]) : v \in Walker \ {w}}
           T == {<<w, i>> : i \in 1..Len(L)}
<1>1. /\ stack \in Seq(Dir) /\ listing \in [Walker -> Seq(Dir)] /\ DOMAIN walker = Walker
      /\ DOMAIN context = Walker /\ IsFiniteSet(Slots) /\ activeDirs = Cardinality(Slots)
      /\ Pending \subseteq Reachable({Root}) /\ Found \subseteq TrueExtras
      /\ walker[w] = "listing" /\ L # <<>>
  BY DEF Walks, WalkerLists
<1>2. /\ activeDirs' = activeDirs - Len(L) /\ listing' = [listing EXCEPT ![w] = <<>>]
      /\ merged' = merged
  BY DEF WalkerLists
<1>3. L \in Seq(Dir) /\ Len(L) \in Nat /\ DOMAIN L = 1..Len(L) /\ 1 \in DOMAIN L
  BY <1>1
<1>4. /\ listing' \in [Walker -> Seq(Dir)] /\ listing'[w] = <<>> /\ Range(<<>>) = {}
      /\ \A v \in Walker \ {w} : listing'[v] = listing[v]
  BY <1>1, <1>2 DEF Range
<1>5. Pending = R \cup D /\ D # {} /\ R \subseteq Dir /\ D \subseteq Dir
  <2>1. Pending = R \cup D
    BY DEF Pending
  <2>2. Pending \subseteq Dir
    BY <1>1 DEF Reachable
  <2>3. D # {}
    BY <1>3 DEF Range
  <2> QED BY <2>1, <2>2, <2>3
<1>6. UNION {Range(listing'[v]) : v \in Walker} = UNION {Range(listing[v]) : v \in Walker \ {w}}
  BY <1>4
<1>7. Slots' = Slots \ T /\ T \subseteq Slots
  <2>1. \A e \in Walker \X Nat : e \in T <=> (e[1] = w /\ e[2] \in DOMAIN L)
    BY <1>3
  <2>2. T \subseteq Walker \X Nat
    BY <1>3
  <2>3. \A e \in Walker \X Nat : e[2] \in DOMAIN listing'[e[1]] <=>
                                   (e[2] \in DOMAIN listing[e[1]] /\ e[1] # w)
    <3> TAKE e \in Walker \X Nat
    <3>1. CASE e[1] = w
      BY <1>4, <3>1
    <3>2. CASE e[1] # w
      BY <1>4, <3>2
    <3> QED BY <3>1, <3>2
  <2> HIDE DEF T
  <2> QED BY <2>1, <2>2, <2>3 DEF Slots
<1>8. IsFiniteSet(Slots') /\ activeDirs' = Cardinality(Slots')
  <2>1. Cardinality(T) = Len(L)
    BY <1>3, CountSlots
  <2> HIDE DEF T, L
  <2> QED BY <1>1, <1>2, <1>7, <2>1, CountLess
<1>9. /\ DOMAIN walker' = Walker /\ walker'[w] = "ready"
      /\ \A v \in Walker \ {w} : walker'[v] = walker[v] \/ (walker[v] = "asleep" /\ walker'[v] = "ready")
  <2> DEFINE back == [walker EXCEPT ![w] = "ready"]
  <2>1. walker' = AllWoken(back) \/ walker' = back
    BY DEF WalkerLists
  <2>2. DOMAIN back = Walker /\ back[w] = "ready" /\ \A v \in Walker \ {w} : back[v] = walker[v]
    BY <1>1
  <2> HIDE DEF back
  <2> QED BY <2>1, <2>2 DEF AllWoken
<1>10. \A v \in Walker : /\ (walker'[v] = "listing") = (listing'[v] # <<>>)
                         /\ walker'[v] \notin {"flush", "gone"}
  <2>1. \A v \in Walker : walker[v] \notin {"flush", "gone"}
    BY <1>5 DEF Walks
  <2>2. \A v \in Walker : (walker[v] = "listing") = (listing[v] # <<>>)
    BY DEF Walks
  <2> QED BY <1>4, <1>9, <2>1, <2>2
<1>11. \A i \in DOMAIN L : L[i] \in D /\ Extras(L[i], File) \subseteq TrueExtras
  <2>1. \A i \in DOMAIN L : L[i] \in D
    BY DEF Range
  <2>2. D \subseteq Reachable({Root})
    BY <1>1, <1>5
  <2>3. ASSUME NEW d \in Reachable({Root}) PROVE Extras(d, File) \subseteq TrueExtras
    <3> SUFFICES ASSUME NEW x \in Extras(d, File) PROVE x \in TrueExtras
      OBVIOUS
    <3>1. d \notin Unreadable /\ x \in LocalFiles[d] /\ x \notin File
      BY DEF Extras
    <3> QED BY <3>1, ExtrasAre DEF TrueExtras, ExtrasOf
  <2> HIDE DEF D, L
  <2> QED BY <2>1, <2>2, <2>3
<1>12. ASSUME NEW X, X \subseteq TrueExtras, context' = [context EXCEPT ![w] = @ \cup X]
       PROVE  DOMAIN context' = Walker /\ Found' = Found \cup X /\ Found' \subseteq TrueExtras
  <2>1. DOMAIN context' = Walker /\ \A v \in Walker : context'[v] = IF v = w THEN context[v] \cup X ELSE context[v]
    BY <1>1, <1>12
  <2>2. UNION {context'[v] : v \in Walker} = X \cup UNION {context[v] : v \in Walker}
    BY <2>1
  <2> QED BY <1>1, <1>2, <1>12, <2>1, <2>2 DEF Found
<1> DEFINE extras == UNION {Extras(L[i], File) : i \in DOMAIN L}
           kids == UNION {Children(L[i]) : i \in DOMAIN L}
<1>13. CASE /\ context' = [context EXCEPT ![w] = @ \cup extras]
            /\ \E found \in SetToSeqs(kids) : stack' = stack \o found
            /\ UNCHANGED firstError
  <2>1. extras \subseteq TrueExtras
    BY <1>11
  <2>2. \A d \in D : Children(d) \subseteq kids
    BY DEF Range
  <2>3. kids \subseteq Reachable({Root}) /\ kids \subseteq Dir
    <3>1. {Root} \in SUBSET Dir
      BY WalkAssumption
    <3>2. \A e \in Reachable({Root}) : Children(e) \subseteq Reachable({Root})
      BY <3>1, ReachBasics
    <3>3. Reachable({Root}) \subseteq Dir
      BY <3>1, ReachBasics
    <3>4. \A i \in DOMAIN L : Children(L[i]) \subseteq Reachable({Root})
      BY <1>1, <1>5, <1>11, <3>2
    <3> QED BY <3>3, <3>4
  <2>4. ExtrasOf(D) \subseteq extras
    <3> SUFFICES ASSUME NEW x \in ExtrasOf(D) PROVE x \in extras
      OBVIOUS
    <3>1. PICK d \in D \ Unreadable : x \in LocalFiles[d]
      BY ExtrasAre
    <3>2. PICK i \in DOMAIN L : L[i] = d
      BY <3>1 DEF Range
    <3>3. x \notin File
      BY ExtrasAre
    <3>4. x \in Extras(L[i], File)
      BY <3>1, <3>2, <3>3 DEF Extras
    <3> QED BY <3>4
  <2> HIDE DEF kids
  <2>5. PICK found \in SetToSeqs(kids) : stack' = stack \o found
    BY <1>13
  <2>6. found \in Seq(Dir) /\ Range(found) = kids
    <3>1. IsFiniteSet(kids)
      BY <2>3, WalkAssumption, FS_Subset
    <3>2. found \in Seq(kids) /\ Range(found) = kids
      BY <3>1, EnumerateSet
    <3> QED BY <2>3, <3>2
  <2>7. stack' \in Seq(Dir) /\ Range(stack') = Range(stack) \cup kids
    BY <1>1, <2>5, <2>6, ConcatList
  <2>8. Pending' = R \cup kids
    BY <1>6, <2>7 DEF Pending
  <2> HIDE DEF extras
  <2>9. DOMAIN context' = Walker /\ Found' = Found \cup extras /\ Found' \subseteq TrueExtras
    BY <1>12, <1>13, <2>1
  <2>10. Pending' \subseteq Reachable({Root})
    BY <1>1, <1>5, <2>3, <2>8
  <2>11. firstError' \/ TrueExtras \subseteq Found' \cup ExtrasOf(Reachable(Pending'))
    <3> SUFFICES ASSUME ~firstError PROVE TrueExtras \subseteq Found' \cup ExtrasOf(Reachable(Pending'))
      BY <1>13
    <3>1. TrueExtras \subseteq Found \cup ExtrasOf(Reachable(R \cup D))
      BY <1>5 DEF Walks
    <3> HIDE DEF R, D
    <3>2. ExtrasOf(Reachable(R \cup D)) \subseteq ExtrasOf(D) \cup ExtrasOf(Reachable(R \cup kids))
      BY <1>5, <2>2, <2>3, BelowBatch
    <3> QED BY <2>4, <2>8, <2>9, <3>1, <3>2
  <2> QED BY <1>4, <1>8, <1>9, <1>10, <2>7, <2>9, <2>10, <2>11 DEF Walks
<1>14. ASSUME NEW n \in DOMAIN L, firstError' = TRUE, UNCHANGED stack,
              context' = [context EXCEPT ![w] = @ \cup UNION {Extras(L[i], File) : i \in 1..(n - 1)}]
       PROVE  Walks'
  <2> DEFINE X == UNION {Extras(L[i], File) : i \in 1..(n - 1)}
  <2>1. X \subseteq TrueExtras
    <3>1. 1..(n - 1) \subseteq DOMAIN L
      BY <1>3
    <3> QED BY <1>11, <3>1
  <2>2. context' = [context EXCEPT ![w] = @ \cup X]
    BY <1>14
  <2> HIDE DEF X
  <2>3. DOMAIN context' = Walker /\ Found' \subseteq TrueExtras
    BY <1>12, <2>1, <2>2
  <2>4. Pending' = R
    BY <1>6, <1>14 DEF Pending
  <2>5. Pending' \subseteq Reachable({Root})
    BY <1>1, <1>5, <2>4
  <2>6. stack' \in Seq(Dir) /\ firstError'
    BY <1>1, <1>14
  <2> QED BY <1>4, <1>8, <1>9, <1>10, <2>3, <2>5, <2>6 DEF Walks
<1> QED BY <1>13, <1>14 DEF WalkerLists
LEMMA WalkExactStep ==
  ASSUME Inv, [Next]_vars
  PROVE  WalkExact'
<1>1. (pc \notin {"scan", "done"} => WalkInit) /\ (pc = "scan" => Walks)
  BY DEF Inv, WalkExact
<1>2. UNCHANGED walkVars => (WalkInit <=> WalkInit') /\ (Walks <=> Walks')
  <2> SUFFICES ASSUME UNCHANGED walkVars PROVE (WalkInit <=> WalkInit') /\ (Walks <=> Walks')
    OBVIOUS
  <2>1. UNCHANGED <<stack, activeDirs, walker, listing, context, merged, firstError>>
    BY DEF walkVars
  <2>2. Pending' = Pending /\ Slots' = Slots /\ Found' = Found
    BY <2>1 DEF Pending, Slots, Found
  <2> QED BY <2>1, <2>2 DEF WalkInit, Walks
<1> DEFINE Outside == pc \notin {"scan", "done"} /\ pc' \notin {"scan", "done"}
<1>3. CASE UNCHANGED walkVars /\ (Outside \/ pc' = pc)
  BY <1>1, <1>2, <1>3 DEF WalkExact
<1>4. AfterFrame \notin {"scan", "done"}
  BY DEF AfterFrame
<1>5. CASE DrainCompare
  <2>1. UNCHANGED walkVars /\ Outside
    BY <1>5 DEF DrainCompare, Pumps
  <2> QED BY <1>3, <2>1
<1>6. CASE DrainReady \/ Fill
  <2>1. UNCHANGED walkVars /\ Outside
    BY <1>6 DEF DrainReady, Fill
  <2> QED BY <1>3, <2>1
<1>7. CASE Pump
  <2>1. UNCHANGED walkVars /\ Outside
    BY <1>7 DEF Pump, Pumps
  <2> QED BY <1>3, <2>1
<1>8. CASE RecvManifestEntry
  <2>1. UNCHANGED walkVars /\ Outside
    BY <1>4, <1>8 DEF RecvManifestEntry, Receives
  <2> QED BY <1>3, <2>1
<1>9. ASSUME NEW f \in File, RecvHashResponse(f) PROVE WalkExact'
  <2>1. UNCHANGED walkVars /\ pc = "recv"
    BY <1>9 DEF RecvHashResponse, Receives
  <2>2. pc' \in {"top", "stop", AfterFrame}
    BY <1>9 DEF RecvHashResponse, Pumps
  <2> QED BY <1>3, <1>4, <2>1, <2>2
<1>10. CASE QuietMain
  <2>1. UNCHANGED walkVars /\ Outside
    BY <1>10 DEF QuietMain, LoopLeaves, Tune, Wait, RecvManifestEnd, RecvStops, RecvThrows,
                 StopCompare, JoinCompare, Receives
  <2> QED BY <1>3, <2>1
<1>11. CASE JoinHash
  <2>1. /\ pc = "joinHash"
        /\ \/ pc' = "scan" /\ WalkStarts
           \/ pc' = "done"
    BY <1>11 DEF JoinHash
  <2>2. WalkInit
    BY <1>1, <2>1
  <2> QED BY <2>1, <2>2, WalkInitWalks DEF WalkExact
<1>12. CASE Judge
  BY <1>12 DEF Judge, WalkExact
<1>13. CASE UNCHANGED <<walkVars, mainVars>>
  <2>1. pc' = pc /\ UNCHANGED walkVars
    BY <1>13 DEF mainVars
  <2> QED BY <1>3, <2>1
<1>14. ASSUME NEW w \in HashWorker, HasherNext(w) PROVE UNCHANGED <<walkVars, mainVars>>
  BY <1>14, HasherKeeps
<1>15. ASSUME NEW w \in Walker, WalkStep(w), UNCHANGED mainVars PROVE WalkExact'
  <2>1. pc' = pc /\ WalkerStep(w, Listed)
    BY <1>15 DEF mainVars, WalkStep, Listed
  <2>2. CASE pc \notin {"scan", "done"}
    <3>1. walker[w] = "off"
      BY <1>1, <2>2 DEF WalkInit
    <3> QED BY <2>1, <3>1 DEF WalkerStep, WalkerWaits, WalkerEnds, WalkerPops, WalkerLists, WalkerFlushes
  <2>3. CASE pc = "scan"
    <3>1. manifestDone /\ listed = Len(Manifest)
      BY <2>3 DEF Inv, EndsWhole
    <3>2. Listed = File
      BY <3>1, ListedFiles DEF Inv
    <3>3. Walks /\ WalkerStep(w, File)
      BY <1>1, <2>1, <2>3, <3>2
    <3>4. Walks'
      BY <3>3, WalkerWaitsWalks, WalkerPopsWalks, WalkerListsWalks, WalkerFlushesWalks DEF WalkerStep
    <3> QED BY <2>1, <2>3, <3>4 DEF WalkExact
  <2>4. CASE pc = "done"
    BY <2>1, <2>4 DEF WalkExact
  <2> QED BY <2>2, <2>3, <2>4
<1> HIDE DEF Outside
<1> QED BY <1>5, <1>6, <1>7, <1>8, <1>9, <1>10, <1>11, <1>12, <1>13, <1>14, <1>15, Steps
        DEF engineVars

-----------------------------------------------------------------------------
(* The verdict.                                                            *)

\* The scan that ended without an error has found the extra files.
LEMMA ScanFindsAll ==
  ASSUME Walks, WalkJoined, ~firstError
  PROVE  merged = TrueExtras
<1>1. PICK w \in Walker : TRUE
  BY WalkAssumption
<1>2. Pending = {}
  BY <1>1 DEF WalkJoined, Walks
<1>3. \A v \in Walker : context[v] = {}
  BY DEF WalkJoined, Walks
<1>4. Found = merged
  BY <1>3 DEF Found
<1>5. ExtrasOf(Reachable({})) = {}
  BY NothingReachable DEF ExtrasOf
<1> QED BY <1>2, <1>4, <1>5 DEF Walks

JudgedAs(c) == {f \in File : TrueCategory(f) = c}

LEMMA NoneJudged ==
  ASSUME NEW c
  PROVE  /\ Cardinality(JudgedAs(c)) \in Nat
         /\ Cardinality(JudgedAs(c)) = 0 <=> \A f \in File : TrueCategory(f) # c
<1>1. JudgedAs(c) \in SUBSET File
  BY DEF JudgedAs
<1>2. IsFiniteSet(JudgedAs(c)) /\ Cardinality(JudgedAs(c)) \in Nat
  BY <1>1, FilesFinite
<1>3. Cardinality(JudgedAs(c)) = 0 <=> JudgedAs(c) = {}
  BY <1>2, FS_EmptySet
<1> QED BY <1>2, <1>3 DEF JudgedAs

LEMMA JudgeTells ==
  ASSUME Inv, Judge, ~firstError
  PROVE  VerdictTrue'
<1>1. /\ pc = "scan" /\ WalkJoined /\ counters' = Counted("Extra", Cardinality(merged))
      /\ exit' = IF counters'["Diff"] + counters'["Missing"] + counters'["Extra"] = 0
                 THEN "Identical" ELSE "DiffFound"
  BY DEF Judge
<1>2. mode' = mode /\ disk' = disk
  BY DEF Judge, pipelineVars
<1>3. merged = TrueExtras
  BY <1>1, ScanFindsAll DEF Inv, WalkExact
<1>4. manifestDone /\ cause = "none" /\ Unrecorded = {} /\ listed = Len(Manifest)
  BY <1>1 DEF Inv, EndsWhole
<1>5. Recorded = File
  BY <1>4, ListedFiles DEF Recorded, Inv
<1>6. \A c \in Category : counters[c] = Cardinality(JudgedAs(c))
  BY <1>4, <1>5 DEF Inv, PlaceInv, CountsExact, RecordedAs, JudgedAs
<1>7. counters["Extra"] = 0 /\ counters \in [{"Same", "Diff", "Missing", "Extra"} -> Nat]
  BY <1>1 DEF Inv, ExtraLast, Numbers
<1>8. IsFiniteSet(TrueExtras) /\ Cardinality(TrueExtras) \in Nat
      /\ (Cardinality(TrueExtras) = 0 <=> TrueExtras = {})
  BY ExtrasFinite, FS_EmptySet, FS_CardinalityType
<1>9. /\ counters'["Extra"] = Cardinality(TrueExtras)
      /\ \A c \in Category : counters'[c] = Cardinality(JudgedAs(c))
  BY <1>1, <1>3, <1>6, <1>7, <1>8 DEF Counted, Category
<1>10. \A c : Cardinality(JudgedAs(c)) \in Nat
               /\ (Cardinality(JudgedAs(c)) = 0 <=> \A f \in File : TrueCategory(f) # c)
  BY NoneJudged
<1>11. exit' = "Identical" <=>
         Cardinality(JudgedAs("Diff")) = 0 /\ Cardinality(JudgedAs("Missing")) = 0
         /\ Cardinality(TrueExtras) = 0
  <2> DEFINE d == Cardinality(JudgedAs("Diff"))
             m == Cardinality(JudgedAs("Missing"))
             x == Cardinality(TrueExtras)
  <2>1. d \in Nat /\ m \in Nat /\ x \in Nat
    BY <1>8, <1>10
  <2>2. counters'["Diff"] = d /\ counters'["Missing"] = m /\ counters'["Extra"] = x
    BY <1>9 DEF Category
  <2> HIDE DEF d, m, x
  <2>3. exit' = IF d + m + x = 0 THEN "Identical" ELSE "DiffFound"
    BY <1>1, <2>2
  <2>4. d + m + x = 0 <=> d = 0 /\ m = 0 /\ x = 0
    BY <2>1
  <2>5. exit' = "Identical" <=> d = 0 /\ m = 0 /\ x = 0
    BY <2>3, <2>4
  <2> QED BY <2>5 DEF d, m, x
<1>12. exit' = "Identical" <=> TrueExtras = {} /\ \A f \in File : TrueCategory(f) = "Same"
  <2>1. \A f \in File : TrueCategory(f) \in {"Same", "Diff", "Missing"}
    BY CategoryType DEF Category
  <2> QED BY <1>8, <1>10, <1>11, <2>1
<1>13. \A f : TrueCategory(f)' = TrueCategory(f)
  BY <1>2, CategoryKept
<1>14. \A c : {f \in File : TrueCategory(f) = c}' = JudgedAs(c)
  BY <1>13 DEF JudgedAs
<1> QED BY <1>9, <1>12, <1>13, <1>14 DEF VerdictTrue, Category

LEMMA VerdictStep ==
  ASSUME Inv, [Next]_vars
  PROVE  VerdictTrue'
<1>1. mode' = mode /\ disk' = disk
  BY InputsKept
<1>2. VerdictTrue /\ (pc # "done" => exit = Undecided)
  BY DEF Inv, EndsWhole
<1>3. CASE exit' \notin {"Identical", "DiffFound"}
  BY <1>3 DEF VerdictTrue
<1>4. CASE UNCHANGED <<exit, counters>>
  <2>1. \A f : TrueCategory(f)' = TrueCategory(f)
    BY <1>1, CategoryKept
  <2> QED BY <1>2, <1>4, <2>1 DEF VerdictTrue
<1>5. CASE pc # "done" /\ exit' = exit
  BY <1>2, <1>3, <1>5 DEF Undecided
<1>6. CASE DrainCompare \/ DrainReady \/ Fill \/ Pump \/ RecvManifestEntry
  <2>1. pc # "done" /\ exit' = exit
    BY <1>6 DEF DrainCompare, DrainReady, Fill, Pump, RecvManifestEntry, Receives
  <2> QED BY <1>5, <2>1
<1>7. ASSUME NEW f \in File, RecvHashResponse(f) PROVE VerdictTrue'
  <2>1. pc # "done" /\ exit' = exit
    BY <1>7 DEF RecvHashResponse, Receives
  <2> QED BY <1>5, <2>1
<1>8. CASE QuietMain
  <2>1. pc # "done" /\ exit' = exit
    BY <1>8 DEF QuietMain, LoopLeaves, Tune, Wait, RecvManifestEnd, RecvStops, RecvThrows,
                StopCompare, JoinCompare, Receives
  <2> QED BY <1>5, <2>1
<1>9. CASE JoinHash
  <2>1. exit' \in {"Interrupted", "ConnFailed", "LocalPrecondFailed", Undecided}
    BY <1>9 DEF JoinHash
  <2> QED BY <1>3, <2>1 DEF Undecided
<1>10. CASE Judge
  <2>1. CASE firstError
    <3>1. exit' = "Threw"
      BY <1>10, <2>1 DEF Judge
    <3> QED BY <1>3, <3>1
  <2> QED BY <1>10, <2>1, JudgeTells
<1>11. CASE UNCHANGED mainVars
  <2>1. UNCHANGED <<exit, counters>>
    BY <1>11 DEF mainVars
  <2> QED BY <1>4, <2>1
<1>12. ASSUME NEW w \in HashWorker, HasherNext(w) PROVE UNCHANGED mainVars
  BY <1>12, HasherKeeps
<1> QED BY <1>6, <1>7, <1>8, <1>9, <1>10, <1>11, <1>12, Steps DEF engineVars

-----------------------------------------------------------------------------
(* The theorems.                                                           *)

LEMMA InitHolds == Init => Inv
<1> SUFFICES ASSUME Init PROVE Inv
  OBVIOUS
<1>1. /\ pc = "top" /\ exit = Undecided /\ cause = "none" /\ manifestDone = FALSE /\ listed = 0
      /\ delayed = <<>> /\ hashQueue = <<>> /\ awaiting = {} /\ inFlight = 0 /\ serverHash = {}
      /\ requested = {} /\ hashWindow = Checkers /\ hashTasks = <<>> /\ hashCap = InitialWorkers
      /\ ready = <<>> /\ counters = [Same |-> 0, Diff |-> 0, Missing |-> 0, Extra |-> 0]
      /\ localReadFailed = FALSE /\ WalkInit /\ PipelineInit
      /\ hasher = [w \in HashWorker |-> "ready"] /\ hashing = [w \in HashWorker |-> <<>>]
      /\ localResult = [f \in File |-> NoResult]
  BY DEF Init
<1>2. PICK c \in Cases : mode = c.mode /\ disk = c.disk
  BY DEF Init
<1>3. /\ buffer = <<>> /\ tasks = <<>> /\ results = <<>> /\ issued = 0 /\ drained = 0
      /\ batch = [w \in CompareWorker |-> <<>>] /\ DOMAIN worker = CompareWorker
  BY <1>1 DEF PipelineInit
<1>4. Inputs
  BY <1>2, InputAssumption DEF Inputs
<1>5. Numbers
  <2>1. Len(Manifest) \in Nat /\ Checkers \in Nat /\ InitialWorkers \in Nat
    BY InputAssumption, CheckAssumption
  <2> QED BY <1>1, <1>3, <2>1 DEF Numbers
<1>6. Idle
  BY <1>3 DEF Idle
<1>7. FilesOf(<<>>) = <<>> /\ Range(<<>>) = {} /\ IsInjective(<<>>)
  BY DEF FilesOf, Range, IsInjective
<1>8. \A s \in Stage : Held(s) = {}
  <2>1. \A w \in CompareWorker : batch[w] = <<>>
    BY <1>3
  <2>2. \A w \in CompareWorker : Held(w) = {}
    BY <1>7, <2>1, HeldIs
  <2> QED BY <1>1, <1>3, <1>7, <2>2, HeldIs, StageCases
<1>9. Unrecorded = {} /\ Piped = {} /\ Apart /\ Listed = {}
  <2>1. PipeStage \subseteq Stage
    BY StageCases DEF PipeStage
  <2>2. Listed = {}
    BY <1>1 DEF Listed
  <2> QED BY <1>8, <2>1, <2>2 DEF Unrecorded, Piped, Apart
<1>10. Lists /\ Once
  BY <1>1, <1>3, <1>7 DEF Lists, Once
<1>11. NetExact /\ PipeExact
  BY <1>1, <1>3, <1>9, FS_EmptySet DEF NetExact, PipeExact
<1>12. CountsExact
  <2>1. \A k \in Category : RecordedAs(k) = {}
    BY <1>9 DEF RecordedAs, Recorded
  <2> QED BY <1>1, <2>1, FS_EmptySet DEF CountsExact, Category
<1>13. PlaceInv
  BY <1>1, <1>7, <1>9, <1>10, <1>11, <1>12 DEF PlaceInv, AllKnown, HashNeeded
<1>14. Hashed
  BY <1>1, <1>7 DEF Hashed
<1>15. ExtraLast /\ EndsWhole /\ WalkExact
  BY <1>1 DEF ExtraLast, EndsWhole, WalkExact
<1>16. VerdictTrue
  BY <1>1 DEF VerdictTrue, Undecided
<1> QED BY <1>4, <1>5, <1>6, <1>13, <1>14, <1>15, <1>16 DEF Inv

LEMMA NextHolds == Inv /\ [Next]_vars => Inv'
<1> SUFFICES ASSUME Inv, [Next]_vars PROVE Inv'
  OBVIOUS
<1>1. Inputs'
  BY InputsKept DEF Inv, Inputs
<1> QED BY <1>1, NumbersStep, IdleStep, PlacesStep, HashedStep, ExtraStep, EndsStep, WalkExactStep,
           VerdictStep DEF Inv

LEMMA InvHolds == Spec => []Inv
BY InitHolds, NextHolds, PTL DEF Spec

\* The verdict of a check that claims a full comparison is the truth about the two trees:
\* each count of the report and the exit code (check_engine.cpp "Full comparison"),
\* whatever the trees, the number of threads and the order of results and answers.
THEOREM VerdictTrueHolds == Spec => []VerdictTrue
<1>1. Inv => VerdictTrue
  BY DEF Inv
<1> QED BY <1>1, InvHolds, PTL

\* Between recv, the compare pipeline, the hash queue and the pairing of hashes no entry
\* is dropped, held twice or recorded twice.
THEOREM EntriesHold == Spec => []EveryEntryOnce
<1>1. ASSUME Inv PROVE EveryEntryOnce
  <2>1. Lists /\ Once /\ Apart /\ AllKnown /\ CountsExact /\ Numbers
    BY <1>1 DEF Inv, PlaceInv
  <2>2. \A s \in Stage \ {"awaiting"} : IsInjective(Entries(s))
    BY <2>1, EntriesAre, StageCases DEF Once
  <2>3. ASSUME cause = "none"
        PROVE  counters.Same + counters.Diff + counters.Missing = Cardinality(Recorded)
    <3> DEFINE A == RecordedAs("Same")
               B == RecordedAs("Diff")
               C == RecordedAs("Missing")
    <3>1. Recorded \subseteq File
      BY <2>1, ListedFiles DEF Recorded
    <3>2. A \in SUBSET File /\ B \in SUBSET File /\ C \in SUBSET File
      BY <3>1 DEF RecordedAs
    <3>3. A \cap B = {} /\ (A \cup B) \cap C = {}
      BY DEF RecordedAs
    <3>4. Recorded = (A \cup B) \cup C
      BY CategoryType DEF RecordedAs, Category
    <3>5. counters.Same = Cardinality(A) /\ counters.Diff = Cardinality(B) /\ counters.Missing = Cardinality(C)
      BY <2>1, <2>3 DEF CountsExact, Category
    <3> HIDE DEF A, B, C
    <3>6. IsFiniteSet(A) /\ IsFiniteSet(B) /\ IsFiniteSet(C)
      BY <3>2, FilesFinite
    <3>7. Cardinality(A \cup B) = Cardinality(A) + Cardinality(B) /\ IsFiniteSet(A \cup B)
      BY <3>3, <3>6, CountApart
    <3>8. Cardinality((A \cup B) \cup C) = Cardinality(A \cup B) + Cardinality(C)
      BY <3>3, <3>6, <3>7, CountApart
    <3> QED BY <3>4, <3>5, <3>7, <3>8
  <2> QED BY <2>1, <2>2, <2>3 DEF EveryEntryOnce, Apart, AllKnown, Recorded
<1> QED BY <1>1, InvHolds, PTL

\* The blocking recv never waits for a frame that is not in transit: the manifest is not
\* complete, or the server owes an answer (check_engine.cpp "Receive a frame only when one
\* is guaranteed in transit").
THEOREM RecvHolds == Spec => []RecvHasFrame
<1>1. ASSUME Inv PROVE RecvHasFrame
  <2>1. inFlight = Cardinality(requested)
    BY <1>1 DEF Inv, PlaceInv, NetExact
  <2>2. requested = {} => inFlight = 0
    BY <2>1, FS_EmptySet
  <2> QED BY <2>2 DEF RecvHasFrame, Receives, WantsFrame
<1> QED BY <1>1, InvHolds, PTL
=============================================================================
