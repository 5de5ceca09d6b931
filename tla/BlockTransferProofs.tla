------------------------- MODULE BlockTransferProofs -------------------------
(***************************************************************************)
(* Proofs about the rebuilding of files from blocks: a file is renamed into *)
(* place only when whole, and one part of the client answers for it, for    *)
(* all files, block counts, lanes, limits and failures.                     *)
(***************************************************************************)
EXTENDS BlockTransfer, FiniteSetTheorems, FunctionTheorems, WellFoundedInduction, TLAPS

-----------------------------------------------------------------------------
(* The invariant: the network.                                             *)

Opens == {r \in asked : r.type = "Open"}
Key(m) == <<m.lane, m.sid>>

StreamKind == {"file"} \cup Kind
OpenRequest == [type : {"Open"}, kind : StreamKind, lane : Lane, sid : Nat \ {0}, rel : File,
                sent : BOOLEAN]
SigRequest == [type : {"BlockSigRequest"}, lane : Lane, sid : {0}, rel : File]
Frames == [type : {"BlockSigResponse", "DeltaError", "Data", "End", "FileRangeError"},
           lane : Lane, sid : Nat, rel : File]

NetType ==
    /\ healthy \in [Lane -> BOOLEAN] /\ inFlight \in [Lane -> Nat]
    /\ nextStreamId \in [Lane -> Nat \ {0}]
    /\ asked \subseteq OpenRequest \cup SigRequest /\ incoming \in Seq(Frames)
    /\ active = [k \in DOMAIN active |-> active[k]] /\ IsFiniteSet(DOMAIN active)
    /\ DOMAIN active \subseteq Lane \X (Nat \ {0})
    /\ \A k \in DOMAIN active : active[k].kind \in StreamKind /\ active[k].rel \in File

\* A stream id is used once.
IdsFresh ==
    /\ \A k \in DOMAIN active : k[2] < nextStreamId[k[1]]
    /\ \A r \in Opens : r.sid < nextStreamId[r.lane]
    /\ \A i \in DOMAIN incoming : incoming[i].sid < nextStreamId[incoming[i].lane]
    /\ \A q, r \in Opens : Key(q) = Key(r) => q = r

\* A stream that is gone while its answer is under way was on a lane that is down.
Streamed(m) == Key(m) \in DOMAIN active \/ ~healthy[m.lane]
AnswersKnown ==
    /\ \A r \in Opens :
          /\ Streamed(r)
          /\ Key(r) \in DOMAIN active =>
                active[Key(r)].kind = r.kind /\ active[Key(r)].rel = r.rel
    /\ \A i \in DOMAIN incoming :
          LET m == incoming[i]
          IN  /\ m.type \in {"Data", "End", "FileRangeError"} => m.sid # 0
              /\ m.sid # 0 => Streamed(m)
              /\ Key(m) \in DOMAIN active =>
                   /\ m.type = "FileRangeError" =>
                         active[Key(m)].kind = "range" /\ active[Key(m)].rel = m.rel
                   /\ m.type = "DeltaError" => active[Key(m)].kind = "delta"

\* An answer is Data, if at all, and then one terminal frame.
Grammar ==
    \A i \in DOMAIN incoming : incoming[i].sid # 0 =>
        /\ \A r \in Opens : Key(r) = Key(incoming[i]) => r.sent /\ incoming[i].type = "Data"
        /\ \A j \in DOMAIN incoming : i < j /\ Key(incoming[j]) = Key(incoming[i]) =>
              incoming[i].type = "Data" /\ incoming[j].type # "Data"

\* The loop works on frames it has taken.
FramesTaken == batch \in Nat /\ (pc = "process" => 1 <= batch /\ batch <= Len(incoming))

NetInv == NetType /\ IdsFresh /\ AnswersKnown /\ Grammar

-----------------------------------------------------------------------------
(* The invariant: who owns a file.                                         *)

Fields == {"changed", "states", "abandoned", "queue", "sigQueue", "sigRequested", "sigInFlight",
           "planQueue", "pending", "scheduled", "temps", "committed"}
Task == [rel : File, block : Nat]
StateFields == {"temp", "sigReceived", "pendingRanges", "writeError", "verify"}

In(w, k) == DOMAIN w.states[k]
Settled(w) == w.scheduled \cup DOMAIN w.committed

WorkType(w) ==
    /\ DOMAIN w = Fields /\ DOMAIN w.states = Kind /\ DOMAIN w.abandoned = Kind
    /\ \A k \in Kind : /\ In(w, k) \subseteq File /\ w.queue[k] \in Seq(Task)
                       /\ \A f \in In(w, k) : /\ DOMAIN w.states[k][f] = StateFields
                                              /\ w.states[k][f].pendingRanges \in Nat
    /\ DOMAIN w.queue = Kind /\ w.pending \in Seq(File) /\ w.changed \subseteq File

Owned(w, cmp) ==
    /\ cmp \subseteq w.changed
    /\ w.changed \ cmp = In(w, "delta") \cup In(w, "range") \cup Settled(w)
    /\ In(w, "delta") \cap In(w, "range") = {}
    /\ (In(w, "delta") \cup In(w, "range")) \cap Settled(w) = {}
    /\ w.abandoned["range"] \cap In(w, "range") = {}
    /\ w.sigRequested \subseteq In(w, "delta") \cup w.abandoned["delta"] \cup DOMAIN w.committed

\* The files whose plan is being made or waits for the loop.
InPlanning(tasks, results) == tasks \cup {results[i].rel : i \in DOMAIN results}

PlanResult == [rel : File, ok : {FALSE}] \cup [rel : File, ok : {TRUE}, missing : SUBSET Nat]

PlansOnce(w, cmp, tasks, results) ==
    /\ tasks \subseteq w.changed \ cmp /\ results \in Seq(PlanResult)
    /\ \A i \in DOMAIN results :
          /\ results[i].rel \in (w.changed \ cmp) \ tasks
          /\ results[i].ok => results[i].missing \subseteq Block(results[i].rel)
          /\ \A j \in DOMAIN results : results[i].rel = results[j].rel => i = j
    /\ \A f \in InPlanning(tasks, results) \cap In(w, "delta") :
          w.states["delta"][f].sigReceived /\ ~w.states["delta"][f].temp
    /\ \A f \in In(w, "delta") : w.states["delta"][f].temp => w.states["delta"][f].sigReceived

Held(w) == {t \in Kind \X File : t[2] \in In(w, t[1]) /\ w.states[t[1]][t[2]].temp}
Offered(results) == {<<"delta", results[i].rel>> : i \in {j \in DOMAIN results : results[j].ok}}
TempsOwned(w, results) == DOMAIN w.temps = Held(w) \cup Offered(results)

Own(w, cmp, tasks, results) ==
    /\ WorkType(w) /\ Owned(w, cmp)
    /\ PlansOnce(w, cmp, tasks, results) /\ TempsOwned(w, results)

\* A block of f has been asked for: its plan was made, and it does not enter the mode again.
Begun(w, cmp, k, f) ==
    /\ f \in w.changed \ cmp /\ (f \in In(w, k) => w.states[k][f].temp)
    /\ k = "range" => f \notin In(w, "delta")

\* act, reqs and inc stand for active, Opens and incoming.
TasksBegun(w, cmp, act, reqs, inc) ==
    /\ \A k \in Kind : \A i \in DOMAIN w.queue[k] : Begun(w, cmp, k, w.queue[k][i].rel)
    /\ \A a \in DOMAIN act : act[a].kind \in Kind =>
          Begun(w, cmp, act[a].kind, act[a].rel) /\ act[a].block \in Nat
    /\ \A r \in reqs : r.kind = "range" => Begun(w, cmp, "range", r.rel)
    /\ \A i \in DOMAIN inc : inc[i].type = "FileRangeError" =>
          Begun(w, cmp, "range", inc[i].rel)

-----------------------------------------------------------------------------
(* The invariant: the blocks of a file in block mode.                      *)

\* The blocks of f that are queued or being fetched.
Asked(q, f) == {q[i].block : i \in {j \in DOMAIN q : q[j].rel = f}}
Fetched(act, f) == {act[a].block : a \in {c \in DOMAIN act : act[c].kind = "range" /\ act[c].rel = f}}
Missing(w, act, f) == Asked(w.queue["range"], f) \cup Fetched(act, f)

\* A block is in one place.
BlocksOnce(q, act) ==
    LET Same(s, t) == s.rel = t.rel /\ s.block = t.block
    IN  /\ \A i, j \in DOMAIN q : Same(q[i], q[j]) => i = j
        /\ \A a \in DOMAIN act : act[a].kind = "range" =>
             /\ \A i \in DOMAIN q : ~Same(q[i], act[a])
             /\ \A c \in DOMAIN act : act[c].kind = "range" /\ Same(act[a], act[c]) => a = c

Rebuilt(w, f) == w.temps[<<"range", f>>]

BlocksKept(w, act) ==
    \A f \in In(w, "range") : w.states["range"][f].temp =>
        /\ w.states["range"][f].pendingRanges = Cardinality(Missing(w, act, f))
        /\ Missing(w, act, f) \subseteq Block(f) /\ Rebuilt(w, f) \subseteq Block(f)
        /\ \/ w.states["range"][f].writeError
           \/ Block(f) = Rebuilt(w, f) \cup Missing(w, act, f)

\* The end of a block comes after its bytes.
BytesCome(a, reqs, inc) ==
    /\ \A r \in reqs : Key(r) = a /\ r.sent =>
          \E i \in DOMAIN inc : Key(inc[i]) = a /\ inc[i].type = "Data"
    /\ \A j \in DOMAIN inc : Key(inc[j]) = a /\ inc[j].type = "End" =>
          \E i \in DOMAIN inc : i < j /\ Key(inc[i]) = a /\ inc[i].type = "Data"

BytesHere(w, s) == w.states["range"][s.rel].writeError \/ s.block \in Rebuilt(w, s.rel)

DataFirst(w, act, reqs, inc) ==
    \A a \in DOMAIN act : act[a].kind = "range" /\ act[a].rel \in In(w, "range") =>
        BytesHere(w, act[a]) \/ BytesCome(a, reqs, inc)

Right(w) ==
    /\ \A f \in In(w, "delta") : w.states["delta"][f].verify
    /\ \A f \in DOMAIN w.committed : w.committed[f] = Block(f)

Blk(w, act, reqs, inc) ==
    /\ BlocksOnce(w.queue["range"], act) /\ BlocksKept(w, act) /\ DataFirst(w, act, reqs, inc)
    /\ Right(w)

FileInv ==
    /\ Own(work, comparing, planTasks, planResults) /\ result # "aborted"
    /\ TasksBegun(work, comparing, active, Opens, incoming)
    /\ Blk(work, active, Opens, incoming)

Inv == NetInv /\ FramesTaken /\ FileInv

-----------------------------------------------------------------------------
(* Operators of the model.                                                 *)

LEMMA MinOf ==
    ASSUME NEW S, S \subseteq Nat, S # {}
    PROVE  Min(S) \in S /\ \A y \in S : Min(S) <= y
  <1>1. \E x \in S : \A y \in S : x <= y
    <2>1. PICK x \in S : \A y \in S : ~(<<y, x>> \in OpToRel(<, Nat))
      BY NatLessThanWellFounded, WFMin
    <2>2. \A y \in S : ~(y < x)
      BY <2>1 DEF OpToRel
    <2> QED
      BY <2>2
  <1> QED
    BY <1>1 DEF Min

LEMMA StageIs == \A name \in {"files", "sigs", "plans", "deltaRanges", "rangePlans", "fileRanges"} :
                   Stage(name) \in 1 .. 6
  BY DEF Stage, Stages

LEMMA GoToIs ==
    ASSUME NEW n \in 1 .. 7, GoTo(n)
    PROVE  pc' # "process"
  <1> DEFINE busy == {i \in n .. Len(Stages) : Busy(Stages[i], work', planResults')}
  <1>1. busy \subseteq 1 .. 6 /\ busy \subseteq Nat
    BY DEF Stages
  <1>2. pc' = IF busy = {} THEN "drain" ELSE Stages[Min(busy)]
    BY DEF GoTo
  <1> HIDE DEF busy
  <1>3. CASE busy # {}
    <2>1. Min(busy) \in 1 .. 6
      BY <1>1, <1>3, MinOf
    <2> QED
      BY <1>2, <1>3, <2>1 DEF Stages
  <1> QED
    BY <1>2, <1>3

LEMMA AppendFile ==
    ASSUME NEW s \in Seq(File), NEW f \in File
    PROVE  Append(s, f) \in Seq(File)
  OBVIOUS

LEMMA ConcatTask ==
    ASSUME NEW s \in Seq(Task), NEW t \in Seq(Task)
    PROVE  s \o t \in Seq(Task)
  OBVIOUS

LEMMA LanesAre == Lane \subseteq Nat /\ 0 \in Lane /\ NoLane \notin Lane
  BY BlockAssumption DEF BlockAssumption, Lane, NoLane

LEMMA ControlIs == ControlConn \in Lane
  <1> DEFINE up == {l \in Lane : healthy[l]}
  <1>1. ControlConn = IF up = {} THEN 0 ELSE Min(up)
    BY DEF ControlConn, Primary
  <1>2. up \subseteq Lane /\ up \subseteq Nat
    BY LanesAre
  <1> HIDE DEF up
  <1> QED
    BY <1>1, <1>2, MinOf, LanesAre

LEMMA WithoutIs ==
    ASSUME NEW fn, NEW ks
    PROVE  /\ DOMAIN Without(fn, ks) = DOMAIN fn \ ks
           /\ \A y \in DOMAIN fn \ ks : Without(fn, ks)[y] = fn[y]
           /\ Without(fn, ks) = [y \in DOMAIN Without(fn, ks) |-> Without(fn, ks)[y]]
  BY DEF Without, Restrict

LEMMA WithIs ==
    ASSUME NEW fn, NEW x, NEW v
    PROVE  /\ DOMAIN With(fn, x, v) = DOMAIN fn \cup {x} /\ With(fn, x, v)[x] = v
           /\ \A y \in DOMAIN fn \ {x} : With(fn, x, v)[y] = fn[y]
           /\ With(fn, x, v) = [y \in DOMAIN With(fn, x, v) |-> With(fn, x, v)[y]]
  BY DEF With

\* The lane a stream is started on is up.
LEMMA PickIs ==
    ASSUME NetType, NEW kind, PickConnection(kind) # NoLane
    PROVE  PickConnection(kind) \in Lane /\ healthy[PickConnection(kind)]
  <1> DEFINE bias(l) == IF l = Primary /\ comparing # {} THEN 1 ELSE 0
             lanes == [l \in Lane |-> [healthy |-> healthy[l], inFlight |-> inFlight[l],
                                       weight |-> 1, bias |-> bias(l)]]
             cap == LaneCap(kind)
             free == {l \in Lane : healthy[l] /\ inFlight[l] < cap}
             load(l) == inFlight[l] + bias(l)
             least == {l \in free : \A m \in free : ~(load(m) < load(l))}
  <1>1. PickConnection(kind) = IF free = {} THEN NoLane ELSE Min(least)
    <2>1. {l \in DOMAIN lanes : lanes[l].healthy /\ lanes[l].inFlight < cap} = free
      OBVIOUS
    <2>2. \A l, m \in Lane : LessLoaded(lanes[m], lanes[l]) <=> load(m) < load(l)
      BY DEF LessLoaded, NetType
    <2>3. {l \in free : \A m \in free : ~LessLoaded(lanes[m], lanes[l])} = least
      BY <2>2
    <2> HIDE DEF least, load, free
    <2> QED
      BY <2>1, <2>3 DEF PickConnection, SelectLeastLoadedLane
  <1>2. free # {}
    BY <1>1
  <1>3. \A l \in free : load(l) \in Nat
    BY DEF NetType
  <1>4. least # {}
    <2> DEFINE loads == {load(l) : l \in free}
    <2> HIDE DEF free, load
    <2>1. loads \subseteq Nat /\ loads # {}
      BY <1>2, <1>3
    <2>2. PICK l \in free : \A y \in loads : load(l) <= y
      BY <2>1, MinOf
    <2>3. \A m \in free : load(l) <= load(m) /\ load(l) \in Nat /\ load(m) \in Nat
      BY <1>3, <2>2
    <2>4. l \in least
      BY <2>3
    <2> QED
      BY <2>4
  <1>5. least \subseteq free /\ free \subseteq Lane /\ \A l \in free : healthy[l]
    OBVIOUS
  <1> HIDE DEF least, free
  <1>6. least \subseteq Nat
    BY <1>5, LanesAre
  <1> QED
    BY <1>1, <1>2, <1>4, <1>5, <1>6, MinOf

-----------------------------------------------------------------------------
(* The network.                                                            *)

LEMMA OpensAre ==
    ASSUME NetType
    PROVE  /\ Opens \subseteq OpenRequest
           /\ \A r \in Opens : /\ r.lane \in Lane /\ r.sid \in Nat \ {0} /\ r.kind \in StreamKind
                               /\ r.rel \in File /\ r.sent \in BOOLEAN
           /\ \A i \in DOMAIN incoming :
                /\ incoming[i] \in Frames /\ incoming[i].lane \in Lane /\ incoming[i].sid \in Nat
                /\ incoming[i].rel \in File
  <1>1. Opens \subseteq OpenRequest
    BY DEF Opens, NetType, OpenRequest, SigRequest
  <1>2. \A i \in DOMAIN incoming : incoming[i] \in Frames
    BY DEF NetType
  <1> QED
    BY <1>1, <1>2 DEF OpenRequest, Frames

\* Nothing is asked for, nothing arrives, lanes fail and streams of failed lanes go.
Shrinks(gone) ==
    /\ healthy' \in [Lane -> BOOLEAN] /\ \A l \in Lane : healthy'[l] => healthy[l]
    /\ nextStreamId' \in [Lane -> Nat \ {0}]
    /\ \A l \in Lane : nextStreamId[l] <= nextStreamId'[l]
    /\ inFlight' \in [Lane -> Nat]
    /\ asked' \subseteq asked \cup SigRequest /\ incoming' = incoming
    /\ active' = Without(active, gone) /\ \A k \in gone \cap DOMAIN active : ~healthy[k[1]]

LEMMA NetShrinks ==
    ASSUME NetInv, NEW gone, Shrinks(gone)
    PROVE  NetInv'
  <1> USE DEF NetInv
  <1>1. /\ DOMAIN active' = DOMAIN active \ gone
        /\ \A k \in DOMAIN active' : k \in DOMAIN active /\ active'[k] = active[k]
        /\ active' = [k \in DOMAIN active' |-> active'[k]]
    BY DEF Shrinks, Without, Restrict
  <1>2. Opens' \subseteq Opens
    BY DEF Shrinks, Opens, SigRequest
  <1>3. NetType'
    <2>1. IsFiniteSet(DOMAIN active')
      BY <1>1, FS_Subset DEF NetType
    <2> QED
      BY <1>1, <2>1 DEF NetType, Shrinks
  <1>4. IdsFresh'
    <2>1. \A k \in DOMAIN active : k[2] \in Nat /\ k[1] \in Lane
      BY DEF NetType
    <2> QED
      BY <1>1, <1>2, <2>1, OpensAre DEF IdsFresh, Shrinks, NetType
  <1>5. \A m : m.lane \in Lane /\ Streamed(m) => Streamed(m)'
    BY <1>1 DEF Streamed, Shrinks, Key
  <1>6. AnswersKnown'
    <2>1. incoming' = incoming
      BY DEF Shrinks
    <2> QED
      BY <1>1, <1>2, <1>5, <2>1, OpensAre DEF AnswersKnown
  <1>7. Grammar'
    BY <1>2 DEF Grammar, Shrinks
  <1> QED
    BY <1>3, <1>4, <1>6, <1>7

\* The server sends frame m; the request it answers is done, or marked.
Serves(m, r) ==
    /\ m \in Frames /\ incoming' = Append(incoming, m)
    /\ asked' \subseteq (asked \ {r}) \cup {[r EXCEPT !.sent = TRUE]} /\ r \in asked
    /\ UNCHANGED <<healthy, inFlight, nextStreamId, active>>
    /\ m.sid = r.sid /\ m.lane = r.lane /\ m.rel = r.rel
    /\ \/ r \notin Opens /\ asked' \subseteq asked \ {r} /\ m.type \in {"BlockSigResponse", "DeltaError"}
       \/ r \in Opens /\ ~r.sent /\ m.type = "Data"
       \/ r \in Opens /\ r.sent /\ m.type = "End" /\ asked' \subseteq asked \ {r}
       \/ r \in Opens /\ r.kind = "delta" /\ m.type = "DeltaError" /\ asked' \subseteq asked \ {r}
       \/ r \in Opens /\ r.kind = "range" /\ m.type = "FileRangeError" /\ asked' \subseteq asked \ {r}

LEMMA NetServes ==
    ASSUME NetInv, NEW m, NEW r, Serves(m, r)
    PROVE  NetInv'
  <1> USE DEF NetInv
  <1> DEFINE n == Len(incoming)
             again == [r EXCEPT !.sent = TRUE]
  <1>1. /\ n \in Nat /\ DOMAIN incoming = 1 .. n /\ DOMAIN incoming' = 1 .. (n + 1)
        /\ \A i \in 1 .. n : incoming'[i] = incoming[i]
        /\ incoming'[n + 1] = m /\ incoming' \in Seq(Frames)
    BY DEF Serves, NetType
  <1>2. /\ m.lane \in Lane /\ m.sid \in Nat /\ r.lane = m.lane /\ r.sid = m.sid /\ Key(m) = Key(r)
    BY DEF Serves, Frames, Key
  <1>3. r \in Opens => /\ again \in OpenRequest /\ again.type = "Open" /\ again.sent
                       /\ again.kind = r.kind /\ again.lane = r.lane /\ again.sid = r.sid
                       /\ again.rel = r.rel /\ Key(again) = Key(r)
    BY OpensAre DEF OpenRequest, Key
  <1>4. r \notin Opens => Opens' \subseteq Opens /\ m.sid = 0
    BY DEF Serves, Opens, NetType, OpenRequest, SigRequest
  <1>5. r \in Opens => /\ Opens' \subseteq (Opens \ {r}) \cup {again}
                       /\ m.type # "Data" => Opens' \subseteq Opens \ {r}
                       /\ m.sid # 0
    BY <1>3, OpensAre DEF Serves, Opens
  <1>6. /\ \A i \in 1 .. n : incoming[i] \in Frames
        /\ Opens \subseteq OpenRequest
    BY <1>1, OpensAre
  <1> HIDE DEF n, again
  <1>7. NetType'
    <2>1. asked' \subseteq OpenRequest \cup SigRequest
      BY <1>3, <1>4, <1>5 DEF Serves, NetType, again, Opens
    <2> QED
      BY <1>1, <2>1 DEF NetType, Serves
  <1>8. \A q \in Opens' : \E p \in Opens : /\ Key(q) = Key(p) /\ q.lane = p.lane /\ q.sid = p.sid
                                           /\ q.kind = p.kind /\ q.rel = p.rel
                                           /\ q = p \/ (p = r /\ q = again)
    BY <1>3, <1>4, <1>5
  <1>9. IdsFresh'
    <2>1. \A q \in Opens' : q.sid < nextStreamId[q.lane]
      BY <1>8 DEF IdsFresh
    <2>2. m.sid < nextStreamId[m.lane]
      <3>1. CASE r \in Opens
        BY <1>2, <3>1 DEF IdsFresh
      <3>2. CASE r \notin Opens
        BY <1>2, <1>4, <3>2 DEF NetType
      <3> QED
        BY <3>1, <3>2
    <2>3. \A p, q \in Opens' : Key(p) = Key(q) => p = q
      BY <1>3, <1>4, <1>5 DEF IdsFresh
    <2>4. nextStreamId' = nextStreamId /\ active' = active
      BY DEF Serves
    <2> QED
      BY <1>1, <2>1, <2>2, <2>3, <2>4 DEF IdsFresh
  <1>10. UNCHANGED <<active, healthy>> /\ \A q : Streamed(q)' <=> Streamed(q)
    BY DEF Serves, Streamed, Key
  <1>11. AnswersKnown'
    <2>1. \A q \in Opens' : /\ Streamed(q)
                            /\ Key(q) \in DOMAIN active =>
                                  active[Key(q)].kind = q.kind /\ active[Key(q)].rel = q.rel
      BY <1>8 DEF AnswersKnown, Streamed
    <2>2. /\ m.type \in {"Data", "End", "FileRangeError"} => m.sid # 0
          /\ m.sid # 0 => Streamed(m)
          /\ Key(m) \in DOMAIN active =>
               /\ m.type = "FileRangeError" =>
                     active[Key(m)].kind = "range" /\ active[Key(m)].rel = m.rel
               /\ m.type = "DeltaError" => active[Key(m)].kind = "delta"
      <3>1. CASE r \notin Opens
        BY <1>2, <1>4, <3>1 DEF Serves, Key, NetType
      <3>2. CASE r \in Opens
        BY <1>2, <1>5, <3>2 DEF Serves, AnswersKnown, Streamed
      <3> QED
        BY <3>1, <3>2
    <2> QED
      BY <1>1, <1>10, <2>1, <2>2 DEF AnswersKnown
  <1>12. Grammar'
    <2>1. CASE r \notin Opens
      BY <1>1, <1>2, <1>4, <1>6, <2>1, SMTT(30) DEF Grammar, Key, Frames
    <2>2. CASE r \in Opens
      <3>1. \A i \in 1 .. n : Key(incoming[i]) = Key(r) =>
               /\ r.sent /\ incoming[i].type = "Data" /\ m.type # "Data"
        BY <1>1, <1>2, <1>5, <2>2 DEF Grammar, Serves, Key
      <3>2. \A q \in Opens' : Key(q) = Key(r) => q = again /\ m.type = "Data"
        BY <1>3, <1>5, <2>2 DEF IdsFresh
      <3>3. \A i \in 1 .. n : incoming[i].sid # 0 => \A q \in Opens' :
               Key(q) = Key(incoming[i]) => q.sent /\ incoming[i].type = "Data"
        BY <1>1, <1>3, <1>5, <2>2, <3>1 DEF Grammar
      <3>4. \A i, j \in 1 .. (n + 1) : i < j => i \in 1 .. n
        BY <1>1
      <3>5. ASSUME NEW i \in 1 .. (n + 1), incoming'[i].sid # 0
            PROVE  /\ \A q \in Opens' : Key(q) = Key(incoming'[i]) => q.sent /\ incoming'[i].type = "Data"
                   /\ \A j \in 1 .. (n + 1) : i < j /\ Key(incoming'[j]) = Key(incoming'[i]) =>
                        incoming'[i].type = "Data" /\ incoming'[j].type # "Data"
        <4>1. CASE i = n + 1
          BY <1>1, <1>2, <1>3, <3>2, <3>4, <4>1, <2>2
        <4>2. CASE i # n + 1
          <5>1. i \in 1 .. n /\ incoming'[i] = incoming[i]
            BY <1>1, <4>2
          <5>2. ASSUME NEW j \in 1 .. (n + 1), i < j, Key(incoming'[j]) = Key(incoming'[i])
                PROVE  incoming'[i].type = "Data" /\ incoming'[j].type # "Data"
            <6>1. CASE j = n + 1
              BY <1>1, <1>2, <3>1, <5>1, <5>2, <6>1
            <6>2. CASE j # n + 1
              BY <1>1, <3>5, <5>1, <5>2, <6>2 DEF Grammar
            <6> QED
              BY <6>1, <6>2
          <5> QED
            BY <3>3, <3>5, <5>1, <5>2
        <4> QED
          BY <4>1, <4>2
      <3> QED
        BY <1>1, <3>5 DEF Grammar, Key
    <2> QED
      BY <2>1, <2>2
  <1> QED
    BY <1>7, <1>9, <1>11, <1>12

\* The loop takes the first frame; a terminal one may close its stream.
Takes(gone) ==
    /\ incoming # <<>> /\ incoming' = Tail(incoming)
    /\ UNCHANGED <<healthy, nextStreamId, asked>> /\ inFlight' \in [Lane -> Nat]
    /\ active' = Without(active, gone) /\ gone \subseteq {FrameKey}
    /\ gone # {} => Frame.type # "Data"

LEMMA TailIs ==
    ASSUME NetType, incoming # <<>>, incoming' = Tail(incoming)
    PROVE  /\ Len(incoming) \in Nat \ {0} /\ DOMAIN incoming = 1 .. Len(incoming)
           /\ Len(incoming') = Len(incoming) - 1 /\ DOMAIN incoming' = 1 .. (Len(incoming) - 1)
           /\ \A i \in DOMAIN incoming' : i + 1 \in DOMAIN incoming /\ incoming'[i] = incoming[i + 1]
           /\ incoming' \in Seq(Frames)
           /\ Frame = incoming[1] /\ Frame \in Frames /\ 1 \in DOMAIN incoming
           /\ FrameKey = Key(incoming[1]) /\ Frame.lane \in Lane /\ Frame.sid \in Nat
           /\ Frame.rel \in File
  <1>1. incoming \in Seq(Frames) /\ incoming # <<>>
    BY DEF NetType
  <1>2. /\ Len(incoming) \in Nat \ {0} /\ DOMAIN incoming = 1 .. Len(incoming)
        /\ Len(incoming') = Len(incoming) - 1 /\ DOMAIN incoming' = 1 .. (Len(incoming) - 1)
        /\ \A i \in DOMAIN incoming' : i + 1 \in DOMAIN incoming /\ incoming'[i] = incoming[i + 1]
        /\ incoming' \in Seq(Frames)
        /\ Frame = incoming[1] /\ Frame \in Frames /\ 1 \in DOMAIN incoming
    BY <1>1 DEF Frame
  <1> QED
    BY <1>2 DEF FrameKey, Key, Frames

LEMMA NetTakes ==
    ASSUME NetInv, NEW gone, Takes(gone)
    PROVE  NetInv'
  <1> USE DEF NetInv
  <1>1. /\ DOMAIN active' = DOMAIN active \ gone
        /\ \A k \in DOMAIN active' : k \in DOMAIN active /\ active'[k] = active[k]
        /\ active' = [k \in DOMAIN active' |-> active'[k]]
    BY DEF Takes, Without, Restrict
  <1>2. /\ DOMAIN incoming = 1 .. Len(incoming) /\ 1 \in DOMAIN incoming /\ Len(incoming) \in Nat
        /\ \A i \in DOMAIN incoming' : i + 1 \in DOMAIN incoming /\ incoming'[i] = incoming[i + 1]
        /\ DOMAIN incoming' \subseteq Nat \ {0}
        /\ incoming' \in Seq(Frames) /\ FrameKey = Key(incoming[1]) /\ Frame = incoming[1]
    BY TailIs DEF Takes
  <1>3. Opens' = Opens /\ UNCHANGED <<healthy, nextStreamId, asked>>
    BY DEF Takes, Opens
  <1>4. NetType'
    <2>1. IsFiniteSet(DOMAIN active')
      BY <1>1, FS_Subset DEF NetType
    <2> QED
      BY <1>1, <1>2, <2>1 DEF NetType, Takes
  <1>5. IdsFresh'
    BY <1>1, <1>2, <1>3 DEF IdsFresh
  <1>6. ASSUME NEW k \in gone \cap DOMAIN active
        PROVE  /\ k = Key(incoming[1]) /\ incoming[1].sid # 0 /\ incoming[1].type # "Data"
               /\ \A r \in Opens : Key(r) # k
               /\ \A i \in DOMAIN incoming' : Key(incoming'[i]) # k
    <2>1. k = Key(incoming[1]) /\ incoming[1].type # "Data"
      BY <1>2 DEF Takes
    <2>2. incoming[1].sid # 0
      BY <2>1 DEF NetType, Key
    <2>3. \A r \in Opens : Key(r) # k
      BY <1>2, <2>1, <2>2 DEF Grammar
    <2>4. \A i \in DOMAIN incoming' : 1 < i + 1
      BY <1>2
    <2> QED
      BY <1>2, <2>1, <2>2, <2>3, <2>4 DEF Grammar
  <1>7. /\ \A r \in Opens : Key(r) \in DOMAIN active' <=> Key(r) \in DOMAIN active
        /\ \A i \in DOMAIN incoming' :
             Key(incoming'[i]) \in DOMAIN active' <=> Key(incoming'[i]) \in DOMAIN active
    BY <1>1, <1>6
  <1>8. AnswersKnown'
    <2>1. \A r \in Opens : /\ Key(r) \in DOMAIN active' \/ ~healthy[r.lane]
                           /\ Key(r) \in DOMAIN active' =>
                                 active'[Key(r)].kind = r.kind /\ active'[Key(r)].rel = r.rel
      BY <1>1, <1>7 DEF AnswersKnown, Streamed
    <2>2. ASSUME NEW i \in DOMAIN incoming', NEW m, m = incoming'[i]
          PROVE  /\ m.type \in {"Data", "End", "FileRangeError"} => m.sid # 0
                 /\ m.sid # 0 => Key(m) \in DOMAIN active' \/ ~healthy[m.lane]
                 /\ Key(m) \in DOMAIN active' =>
                      /\ m.type = "FileRangeError" =>
                            active'[Key(m)].kind = "range" /\ active'[Key(m)].rel = m.rel
                      /\ m.type = "DeltaError" => active'[Key(m)].kind = "delta"
      <3>1. m = incoming[i + 1] /\ i + 1 \in DOMAIN incoming
        BY <1>2, <2>2
      <3>2. Key(m) \in DOMAIN active' <=> Key(m) \in DOMAIN active
        BY <1>7, <2>2
      <3> QED
        BY <1>1, <3>1, <3>2 DEF AnswersKnown, Streamed
    <2> QED
      BY <1>3, <2>1, <2>2 DEF AnswersKnown, Streamed, Key
  <1>9. Grammar'
    <2>1. ASSUME NEW i \in DOMAIN incoming', incoming'[i].sid # 0
          PROVE  /\ \A r \in Opens : Key(r) = Key(incoming'[i]) => r.sent /\ incoming'[i].type = "Data"
                 /\ \A j \in DOMAIN incoming' : i < j /\ Key(incoming'[j]) = Key(incoming'[i]) =>
                      incoming'[i].type = "Data" /\ incoming'[j].type # "Data"
      <3>1. i + 1 \in DOMAIN incoming /\ incoming'[i] = incoming[i + 1] /\ incoming[i + 1].sid # 0
        BY <1>2, <2>1
      <3>2. \A j \in DOMAIN incoming' : i < j => i + 1 < j + 1
        BY <1>2
      <3> QED
        BY <1>2, <3>1, <3>2 DEF Grammar
    <2> QED
      BY <1>3, <2>1 DEF Grammar, Key
  <1> QED
    BY <1>4, <1>5, <1>8, <1>9

\* A stream is opened on lane l under a fresh id.
Opens1(l, s) ==
    LET id == nextStreamId[l]
    IN  /\ l \in Lane /\ s.kind \in StreamKind /\ s.rel \in File
        /\ active' = With(active, <<l, id>>, s)
        /\ asked' = asked \cup {[type |-> "Open", kind |-> s.kind, lane |-> l, sid |-> id,
                                 rel |-> s.rel, sent |-> s.kind = "file"]}
        /\ nextStreamId' = [nextStreamId EXCEPT ![l] = @ + 1]
        /\ UNCHANGED <<healthy, incoming>> /\ inFlight' \in [Lane -> Nat]

LEMMA NetOpens ==
    ASSUME NetInv, NEW l, NEW s, Opens1(l, s)
    PROVE  NetInv'
  <1> USE DEF NetInv
  <1> DEFINE id == nextStreamId[l]
             new == [type |-> "Open", kind |-> s.kind, lane |-> l, sid |-> id,
                     rel |-> s.rel, sent |-> s.kind = "file"]
             key == <<l, id>>
  <1>1. /\ l \in Lane /\ id \in Nat \ {0} /\ UNCHANGED <<healthy, incoming>>
        /\ nextStreamId' = [nextStreamId EXCEPT ![l] = id + 1]
        /\ inFlight' \in [Lane -> Nat] /\ active' = With(active, key, s)
        /\ asked' = asked \cup {new} /\ s.kind \in StreamKind /\ s.rel \in File
    BY DEF Opens1, NetType
  <1>2. /\ new \in OpenRequest /\ new.type = "Open" /\ new.kind = s.kind /\ new.lane = l
        /\ new.sid = id /\ new.rel = s.rel /\ Key(new) = key
    BY <1>1 DEF OpenRequest, Key
  <1>3. Opens' = Opens \cup {new}
    BY <1>1, <1>2 DEF Opens
  <1>4. /\ \A k \in DOMAIN active : k # key
        /\ \A r \in Opens : Key(r) # key
        /\ \A i \in DOMAIN incoming : Key(incoming[i]) # key
    <2>1. \A k \in DOMAIN active : k[2] \in Nat /\ k[2] < nextStreamId[k[1]]
      BY DEF NetType, IdsFresh
    <2>2. \A r \in Opens : r.sid \in Nat /\ r.sid < nextStreamId[r.lane]
      BY OpensAre DEF IdsFresh
    <2>3. \A i \in DOMAIN incoming : incoming[i].sid \in Nat /\ incoming[i].sid < nextStreamId[incoming[i].lane]
      BY OpensAre DEF IdsFresh
    <2> QED
      BY <1>1, <2>1, <2>2, <2>3 DEF Key
  <1>5. key \in Lane \X (Nat \ {0}) /\ key[1] = l /\ key[2] = id
    BY <1>1
  <1> HIDE DEF new, key, id
  <1>6. /\ DOMAIN active' = DOMAIN active \cup {key} /\ active'[key] = s
        /\ \A k \in DOMAIN active : active'[k] = active[k]
        /\ active' = [k \in DOMAIN active' |-> active'[k]]
    BY <1>1, <1>4 DEF With
  <1>7. /\ nextStreamId' \in [Lane -> Nat \ {0}] /\ nextStreamId'[l] = id + 1
        /\ \A m \in Lane : nextStreamId[m] <= nextStreamId'[m]
    BY <1>1 DEF NetType, id
  <1>8. NetType'
    <2>4. IsFiniteSet(DOMAIN active)
      BY DEF NetType
    <2>5. IsFiniteSet(DOMAIN active \cup {key})
      BY <2>4, FS_AddElement
    <2>1. IsFiniteSet(DOMAIN active')
      BY <1>6, <2>5
    <2>2. asked' \subseteq OpenRequest \cup SigRequest
      BY <1>1, <1>2 DEF NetType
    <2>3. \A k \in DOMAIN active' : active'[k].kind \in StreamKind /\ active'[k].rel \in File
      BY <1>1, <1>6 DEF NetType
    <2> QED
      BY <1>1, <1>5, <1>6, <1>7, <2>1, <2>2, <2>3 DEF NetType
  <1>9. IdsFresh'
    <2>1. \A k \in DOMAIN active' : k[2] < nextStreamId'[k[1]]
      <3>1. \A k \in DOMAIN active : k[1] \in Lane /\ k[2] \in Nat /\ k[2] < nextStreamId[k[1]]
        BY DEF NetType, IdsFresh
      <3> QED
        BY <1>1, <1>5, <1>6, <1>7, <3>1 DEF NetType
    <2>2. \A r \in Opens' : r.sid < nextStreamId'[r.lane]
      BY <1>1, <1>2, <1>3, <1>7, OpensAre DEF NetType, IdsFresh
    <2>3. \A i \in DOMAIN incoming' : incoming'[i].sid < nextStreamId'[incoming'[i].lane]
      BY <1>1, <1>7, OpensAre DEF NetType, IdsFresh
    <2>4. \A q, r \in Opens' : Key(q) = Key(r) => q = r
      BY <1>2, <1>3, <1>4 DEF IdsFresh
    <2> QED
      BY <2>1, <2>2, <2>3, <2>4 DEF IdsFresh, Key
  <1>10. AnswersKnown'
    <2>1. \A r \in Opens' :
             /\ Key(r) \in DOMAIN active' \/ ~healthy[r.lane]
             /\ Key(r) \in DOMAIN active' =>
                   active'[Key(r)].kind = r.kind /\ active'[Key(r)].rel = r.rel
      BY <1>2, <1>3, <1>4, <1>6 DEF AnswersKnown, Streamed
    <2>2. ASSUME NEW i \in DOMAIN incoming, NEW m, m = incoming[i]
          PROVE  /\ m.type \in {"Data", "End", "FileRangeError"} => m.sid # 0
                 /\ m.sid # 0 => Key(m) \in DOMAIN active' \/ ~healthy[m.lane]
                 /\ Key(m) \in DOMAIN active' =>
                      /\ m.type = "FileRangeError" =>
                            active'[Key(m)].kind = "range" /\ active'[Key(m)].rel = m.rel
                      /\ m.type = "DeltaError" => active'[Key(m)].kind = "delta"
      BY <1>4, <1>6, <2>2 DEF AnswersKnown, Streamed
    <2> QED
      BY <1>1, <2>1, <2>2 DEF AnswersKnown, Streamed, Key
  <1>11. Grammar'
    <2>1. \A i \in DOMAIN incoming : incoming[i].sid # 0 =>
             \A r \in Opens' : Key(r) = Key(incoming[i]) => r.sent /\ incoming[i].type = "Data"
      BY <1>2, <1>3, <1>4 DEF Grammar
    <2> QED
      BY <1>1, <2>1 DEF Grammar, Key
  <1> QED
    BY <1>8, <1>9, <1>10, <1>11

-----------------------------------------------------------------------------
(* Who owns a file: the helpers on the record work.                        *)

Shape(w) ==
    /\ DOMAIN w = Fields /\ DOMAIN w.states = Kind /\ DOMAIN w.abandoned = Kind
    /\ DOMAIN w.queue = Kind
Rest(w, v, changed) == \A x \in Fields \ changed : v[x] = w[x]

\* What a helper may do to the blocks of the other files, and what it adds is right.
Moves(w, cmp, v, cmp2) ==
    /\ v.queue["range"] = w.queue["range"]
    /\ \A k \in Kind : \A f : Begun(w, cmp, k, f) => Begun(v, cmp2, k, f)
    /\ \A i \in DOMAIN v.queue["delta"] :
          \/ Begun(v, cmp2, "delta", v.queue["delta"][i].rel)
          \/ \E j \in DOMAIN w.queue["delta"] : v.queue["delta"][i].rel = w.queue["delta"][j].rel
    /\ \A f \in In(v, "range") : v.states["range"][f].temp =>
          /\ f \in In(w, "range") /\ v.states["range"][f] = w.states["range"][f]
          /\ Rebuilt(v, f) = Rebuilt(w, f)
    /\ Right(w) => Right(v)

LEMMA MovesKeeps ==
    ASSUME NEW w, NEW cmp, NEW v, NEW cmp2, NEW act, NEW reqs, NEW inc, Shape(v),
           Moves(w, cmp, v, cmp2), TasksBegun(w, cmp, act, reqs, inc), Blk(w, act, reqs, inc)
    PROVE  TasksBegun(v, cmp2, act, reqs, inc) /\ Blk(v, act, reqs, inc)
  <1>1. TasksBegun(v, cmp2, act, reqs, inc)
    <2>1. \A k \in Kind : \A f : Begun(w, cmp, k, f) => Begun(v, cmp2, k, f)
      BY DEF Moves
    <2>2. \A i \in DOMAIN v.queue["range"] : Begun(v, cmp2, "range", v.queue["range"][i].rel)
      BY <2>1 DEF Moves, TasksBegun, Kind
    <2>3. \A i \in DOMAIN v.queue["delta"] : Begun(v, cmp2, "delta", v.queue["delta"][i].rel)
      BY <2>1 DEF Moves, TasksBegun, Kind
    <2>4. \A k \in Kind : \A i \in DOMAIN v.queue[k] : Begun(v, cmp2, k, v.queue[k][i].rel)
      BY <2>2, <2>3 DEF Kind
    <2>5. \A a \in DOMAIN act : act[a].kind \in Kind =>
             Begun(v, cmp2, act[a].kind, act[a].rel) /\ act[a].block \in Nat
      BY <2>1 DEF TasksBegun
    <2>6. \A r \in reqs : r.kind = "range" => Begun(v, cmp2, "range", r.rel)
      BY <2>1 DEF TasksBegun, Kind
    <2>7. \A i \in DOMAIN inc : inc[i].type = "FileRangeError" =>
             Begun(v, cmp2, "range", inc[i].rel)
      BY <2>1 DEF TasksBegun, Kind
    <2> QED
      BY <2>4, <2>5, <2>6, <2>7 DEF TasksBegun
  <1>2. BlocksOnce(v.queue["range"], act)
    BY DEF Blk, Moves
  <1>3. BlocksKept(v, act)
    <2>1. \A f : Missing(v, act, f) = Missing(w, act, f)
      BY DEF Missing, Moves
    <2> QED
      BY <2>1 DEF Blk, Moves, BlocksKept
  <1>4. DataFirst(v, act, reqs, inc)
    <2>1. ASSUME NEW a \in DOMAIN act, act[a].kind = "range", act[a].rel \in In(v, "range")
          PROVE  v.states["range"][act[a].rel].temp
      BY <1>1, <2>1 DEF TasksBegun, Begun, Kind
    <2>2. ASSUME NEW a \in DOMAIN act, act[a].kind = "range", act[a].rel \in In(v, "range"),
                 BytesHere(w, act[a])
          PROVE  BytesHere(v, act[a])
      BY <2>1, <2>2 DEF Moves, BytesHere
    <2> QED
      BY <2>1, <2>2 DEF DataFirst, Blk, Moves
  <1> QED
    BY <1>1, <1>2, <1>3, <1>4 DEF Blk, Moves

\* Bookkeeping that no file's owner depends on.
LEMMA KeepsOwner ==
    ASSUME NEW w, NEW cmp, NEW tasks, NEW results, Own(w, cmp, tasks, results),
           NEW v, DOMAIN v = Fields,
           Rest(w, v, {"sigQueue", "sigRequested", "sigInFlight", "planQueue", "pending", "queue"}),
           v.sigRequested \subseteq w.sigRequested \cup In(w, "delta"), v.pending \in Seq(File),
           DOMAIN v.queue = Kind, \A k \in Kind : v.queue[k] \in Seq(Task)
    PROVE  /\ Own(v, cmp, tasks, results)
           /\ \A k \in Kind : \A f : Begun(w, cmp, k, f) <=> Begun(v, cmp, k, f)
           /\ v.states = w.states /\ v.temps = w.temps /\ Right(v) = Right(w)
           /\ v.queue = w.queue => Moves(w, cmp, v, cmp)
  <1>1. /\ v.states = w.states /\ v.abandoned = w.abandoned
        /\ v.changed = w.changed /\ v.scheduled = w.scheduled /\ v.temps = w.temps
        /\ v.committed = w.committed
    BY DEF Rest, Fields
  <1>2. WorkType(v)
    BY <1>1 DEF Own, WorkType, In
  <1>3. Owned(v, cmp)
    BY <1>1 DEF Own, Owned, In, Settled
  <1>4. PlansOnce(v, cmp, tasks, results) /\ TempsOwned(v, results)
    BY <1>1 DEF Own, PlansOnce, TempsOwned, Held, In
  <1>5. \A k \in Kind : \A f : Begun(w, cmp, k, f) <=> Begun(v, cmp, k, f)
    BY <1>1 DEF Begun, In
  <1>6. v.queue = w.queue => Moves(w, cmp, v, cmp)
    BY <1>1, <1>5 DEF Moves, In, Rebuilt, Right
  <1>7. Right(v) = Right(w)
    BY <1>1 DEF Right, In
  <1> QED
    BY <1>1, <1>2, <1>3, <1>4, <1>5, <1>6, <1>7 DEF Own

\* A state as a helper leaves it.
IsState(st) == DOMAIN st = StateFields /\ st.pendingRanges \in Nat

LEMMA KeepsType ==
    ASSUME NEW w, NEW v, WorkType(w), Shape(v), v.queue = w.queue, v.changed = w.changed,
           v.pending \in Seq(File),
           \A k \in Kind : \A g \in In(v, k) :
              \/ g \in In(w, k) /\ v.states[k][g] = w.states[k][g]
              \/ g \in File /\ IsState(v.states[k][g])
    PROVE  WorkType(v)
  <1>1. ASSUME NEW k \in Kind
        PROVE  /\ In(v, k) \subseteq File /\ v.queue[k] \in Seq(Task)
               /\ \A g \in In(v, k) : IsState(v.states[k][g])
    <2>1. /\ In(w, k) \subseteq File /\ w.queue[k] \in Seq(Task)
          /\ \A g \in In(w, k) : IsState(w.states[k][g])
      BY DEF WorkType, IsState
    <2> QED
      BY <2>1
  <1> QED
    BY <1>1 DEF WorkType, Shape, IsState

\* A file leaves a mode: its state and its temporary go with it.
Left(w, kind, f, u) ==
    /\ Shape(u) /\ Rest(w, u, {"abandoned", "states", "temps"})
    /\ \A k \in Kind :
          /\ u.abandoned[k] = IF k = kind THEN w.abandoned[k] \cup {f} ELSE w.abandoned[k]
          /\ In(u, k) = IF k = kind THEN In(w, k) \ {f} ELSE In(w, k)
          /\ \A g \in In(u, k) : u.states[k][g] = w.states[k][g]
    /\ DOMAIN u.temps = DOMAIN w.temps \ (Held(w) \cap {<<kind, f>>})
    /\ \A t \in DOMAIN u.temps : u.temps[t] = w.temps[t]
    /\ Held(u) = Held(w) \ {<<kind, f>>}

LEMMA AbandonLeaves ==
    ASSUME NEW w, Shape(w), NEW kind \in Kind, NEW f \in File
    PROVE  Left(w, kind, f, Abandon(w, kind, f))
  <1> DEFINE held == f \in In(w, kind) /\ w.states[kind][f].temp
             u == Abandon(w, kind, f)
  <1>1. /\ Shape(u) /\ Rest(w, u, {"abandoned", "states", "temps"})
        /\ \A k \in Kind : u.abandoned[k] = IF k = kind THEN w.abandoned[k] \cup {f} ELSE w.abandoned[k]
        /\ \A k \in Kind : u.states[k] = IF k = kind THEN Without(w.states[k], {f}) ELSE w.states[k]
        /\ u.temps = IF held THEN Without(w.temps, {<<kind, f>>}) ELSE w.temps
    BY DEF Abandon, Shape, Rest, Fields, In
  <1> HIDE DEF u
  <1>2. /\ DOMAIN u.states[kind] = DOMAIN w.states[kind] \ {f}
        /\ \A g \in DOMAIN u.states[kind] : u.states[kind][g] = w.states[kind][g]
    BY <1>1 DEF Without, Restrict
  <1>3. \A k \in Kind : /\ In(u, k) = IF k = kind THEN In(w, k) \ {f} ELSE In(w, k)
                        /\ \A g \in In(u, k) : u.states[k][g] = w.states[k][g]
    BY <1>1, <1>2 DEF In
  <1>4. held <=> <<kind, f>> \in Held(w)
    BY DEF Held
  <1>5. Held(u) = Held(w) \ {<<kind, f>>}
    BY <1>3 DEF Held
  <1>6. /\ DOMAIN u.temps = DOMAIN w.temps \ (Held(w) \cap {<<kind, f>>})
        /\ \A t \in DOMAIN u.temps : u.temps[t] = w.temps[t]
    <2>1. CASE held
      BY <1>1, <1>4, <2>1 DEF Without, Restrict
    <2>2. CASE ~held
      BY <1>1, <1>4, <2>2
    <2> QED
      BY <2>1, <2>2
  <1> QED
    BY <1>1, <1>3, <1>5, <1>6 DEF Left, u

\* A file of a mode has its temporary, if it has one, to itself.
LEMMA HeldNotOffered ==
    ASSUME NEW w, NEW cmp, NEW tasks, NEW results, Own(w, cmp, tasks, results)
    PROVE  Held(w) \cap Offered(results) = {}
  BY DEF Own, PlansOnce, InPlanning, Offered, Held

\* It goes to a single stream.
LEMMA DropsOwner ==
    ASSUME NEW w, NEW cmp, NEW tasks, NEW results, Own(w, cmp, tasks, results),
           NEW kind \in Kind, NEW f \in In(w, kind) \cup Settled(w),
           NEW v, v = ScheduleTransfer(Abandon(w, kind, f), f)
    PROVE  Own(v, cmp, tasks, results) /\ Moves(w, cmp, v, cmp)
  <1> DEFINE u == Abandon(w, kind, f)
  <1>1. Shape(w) /\ w.pending \in Seq(File) /\ f \in w.changed \ cmp /\ f \in File
    <2>1. kind = "delta" \/ kind = "range"
      BY DEF Kind
    <2>2. f \in w.changed \ cmp
      BY <2>1 DEF Own, Owned
    <2> QED
      BY <2>2 DEF Own, WorkType, Shape
  <1>2. Left(w, kind, f, u)
    BY <1>1, AbandonLeaves
  <1> HIDE DEF u
  <1>3. /\ Shape(v) /\ Rest(u, v, {"scheduled", "pending"}) /\ v.scheduled = u.scheduled \cup {f}
    BY <1>2 DEF Left, ScheduleTransfer, Shape, Rest, Fields, u
  <1>4. v.pending \in Seq(File)
    <2>1. u.pending \in Seq(File) /\ v = ScheduleTransfer(u, f)
      BY <1>1, <1>2 DEF Left, Rest, Fields, u
    <2>2. v.pending = u.pending \/ v.pending = Append(u.pending, f)
      BY <1>2, <2>1 DEF Left, ScheduleTransfer, Shape, Fields
    <2>3. f \in File
      BY <1>1
    <2> QED
      BY <2>1, <2>2, <2>3, AppendFile
  <1>5. /\ v.states = u.states /\ v.abandoned = u.abandoned /\ v.queue = w.queue
        /\ v.changed = w.changed /\ v.scheduled = w.scheduled \cup {f} /\ v.temps = u.temps
        /\ v.committed = w.committed /\ v.sigRequested = w.sigRequested
    BY <1>2, <1>3 DEF Left, Rest, Fields
  <1>6. \A k \in Kind : /\ v.abandoned[k] = IF k = kind THEN w.abandoned[k] \cup {f} ELSE w.abandoned[k]
                        /\ In(v, k) = IF k = kind THEN In(w, k) \ {f} ELSE In(w, k)
                        /\ \A g \in In(v, k) : v.states[k][g] = w.states[k][g]
    <2>1. \A k \in Kind : /\ In(v, k) = In(u, k) /\ v.states[k] = u.states[k]
                          /\ v.abandoned[k] = u.abandoned[k]
      BY <1>5 DEF In
    <2>2. \A k \in Kind :
             /\ u.abandoned[k] = IF k = kind THEN w.abandoned[k] \cup {f} ELSE w.abandoned[k]
             /\ In(u, k) = IF k = kind THEN In(w, k) \ {f} ELSE In(w, k)
             /\ \A g \in In(u, k) : u.states[k][g] = w.states[k][g]
      BY <1>2 DEF Left
    <2> QED
      BY <2>1, <2>2
  <1>7. WorkType(v)
    <2>1. WorkType(w)
      BY DEF Own
    <2>2. \A k \in Kind : \A g \in In(v, k) : g \in In(w, k) /\ v.states[k][g] = w.states[k][g]
      BY <1>6
    <2> QED
      BY <1>3, <1>4, <1>5, <2>1, <2>2, KeepsType
  <1>8. Owned(v, cmp)
    BY <1>1, <1>5, <1>6 DEF Own, Owned, Settled, Kind
  <1>9. PlansOnce(v, cmp, tasks, results)
    BY <1>5, <1>6 DEF Own, PlansOnce, Kind
  <1>10. TempsOwned(v, results)
    <2>1. Held(v) = Held(u)
      BY <1>5 DEF Held, In
    <2> QED
      BY <1>2, <1>5, <2>1, HeldNotOffered DEF Own, TempsOwned, Left
  <1>11. Moves(w, cmp, v, cmp)
    <2>1. \A k \in Kind : \A g : Begun(w, cmp, k, g) => Begun(v, cmp, k, g)
      BY <1>5, <1>6 DEF Begun, Kind
    <2>2. ASSUME NEW g \in In(v, "range"), v.states["range"][g].temp
          PROVE  g \in In(w, "range") /\ v.states["range"][g] = w.states["range"][g]
                 /\ Rebuilt(v, g) = Rebuilt(w, g)
      <3>1. g \in In(w, "range") /\ v.states["range"][g] = w.states["range"][g]
        BY <1>6, <2>2 DEF Kind
      <3>2. <<"range", g>> \in DOMAIN v.temps
        BY <1>7, <1>10, <2>2 DEF TempsOwned, Held, Kind, WorkType
      <3> QED
        BY <1>2, <1>5, <3>1, <3>2 DEF Rebuilt, Left
    <2>3. Right(w) => Right(v)
      BY <1>5, <1>6 DEF Right, Kind
    <2> QED
      BY <1>5, <2>1, <2>2, <2>3 DEF Moves
  <1> QED
    BY <1>7, <1>8, <1>9, <1>10, <1>11 DEF Own

\* A delta goes to block mode.
LEMMA BlocksOwner ==
    ASSUME NEW w, NEW cmp, NEW tasks, NEW results, Own(w, cmp, tasks, results),
           NEW f \in In(w, "delta"), f \notin w.abandoned["range"],
           NEW v, v = TryEnterFileRange(Abandon(w, "delta", f), f)
    PROVE  Own(v, cmp, tasks, results) /\ Moves(w, cmp, v, cmp)
  <1> DEFINE u == Abandon(w, "delta", f)
  <1>1. Shape(w) /\ w.pending \in Seq(File) /\ f \in w.changed \ cmp /\ f \in File
        /\ f \notin In(w, "range") /\ "delta" \in Kind /\ "range" \in Kind
    BY DEF Own, Owned, WorkType, Shape, Kind
  <1>2. Left(w, "delta", f, u)
    BY <1>1, AbandonLeaves
  <1> HIDE DEF u
  <1>3. /\ Shape(v) /\ Rest(u, v, {"states", "planQueue"})
        /\ v.states["delta"] = u.states["delta"]
        /\ v.states["range"] = With(u.states["range"], f, NewState(f \in HashedFile))
    BY <1>1, <1>2 DEF Left, TryEnterFileRange, Shape, Rest, Fields, u
  <1>5. /\ v.abandoned = u.abandoned /\ v.queue = w.queue /\ v.pending = w.pending
        /\ v.changed = w.changed /\ v.scheduled = w.scheduled /\ v.temps = u.temps
        /\ v.committed = w.committed /\ v.sigRequested = w.sigRequested
    BY <1>2, <1>3 DEF Left, Rest, Fields
  <1>6. /\ v.abandoned["delta"] = w.abandoned["delta"] \cup {f}
        /\ v.abandoned["range"] = w.abandoned["range"]
        /\ In(v, "delta") = In(w, "delta") \ {f} /\ In(v, "range") = In(w, "range") \cup {f}
        /\ \A g \in In(v, "delta") : v.states["delta"][g] = w.states["delta"][g]
        /\ \A g \in In(w, "range") : v.states["range"][g] = w.states["range"][g]
        /\ v.states["range"][f] = NewState(f \in HashedFile)
    <2>1. /\ In(u, "range") = In(w, "range") /\ In(u, "delta") = In(w, "delta") \ {f}
          /\ \A g \in In(u, "delta") : u.states["delta"][g] = w.states["delta"][g]
          /\ \A g \in In(w, "range") : u.states["range"][g] = w.states["range"][g]
          /\ v.abandoned["delta"] = w.abandoned["delta"] \cup {f}
          /\ v.abandoned["range"] = w.abandoned["range"]
      BY <1>2, <1>5, <1>1 DEF Left
    <2> QED
      BY <1>1, <1>3, <2>1 DEF In, With
  <1>7. /\ DOMAIN NewState(f \in HashedFile) = StateFields
        /\ NewState(f \in HashedFile).pendingRanges \in Nat /\ ~NewState(f \in HashedFile).temp
    BY DEF NewState, StateFields
  <1>8. WorkType(v)
    <2>1. \A k \in Kind : k = "delta" \/ k = "range"
      BY DEF Kind
    <2>2. \A k \in Kind : \A g \in In(v, k) :
             \/ g \in In(w, k) /\ v.states[k][g] = w.states[k][g]
             \/ g \in File /\ IsState(v.states[k][g])
      BY <1>1, <1>6, <1>7, <2>1 DEF IsState
    <2> QED
      BY <1>1, <1>3, <1>5, <2>2, KeepsType DEF Own
  <1>9. Owned(v, cmp)
    BY <1>1, <1>5, <1>6 DEF Own, Owned, Settled
  <1>10. PlansOnce(v, cmp, tasks, results)
    BY <1>5, <1>6 DEF Own, PlansOnce
  <1>11. TempsOwned(v, results)
    <2>1. Held(v) = Held(u)
      <3>1. \A k \in Kind : k = "delta" \/ k = "range"
        BY DEF Kind
      <3>2. \A k \in Kind, g \in File :
               g \in In(v, k) /\ v.states[k][g].temp <=> g \in In(u, k) /\ u.states[k][g].temp
        <4>1. /\ In(u, "delta") = In(v, "delta") /\ In(u, "range") = In(w, "range")
              /\ \A g \in In(u, "delta") : u.states["delta"][g] = w.states["delta"][g]
              /\ \A g \in In(w, "range") : u.states["range"][g] = w.states["range"][g]
          BY <1>1, <1>2, <1>6 DEF Left
        <4> QED
          BY <1>1, <1>6, <1>7, <3>1, <4>1
      <3> QED
        BY <3>2 DEF Held
    <2> QED
      BY <1>2, <1>5, <2>1, HeldNotOffered DEF Own, TempsOwned, Left
  <1>12. Moves(w, cmp, v, cmp)
    <2>1. \A k \in Kind : \A g : Begun(w, cmp, k, g) => Begun(v, cmp, k, g)
      BY <1>5, <1>6 DEF Begun, Kind
    <2>2. ASSUME NEW g \in In(v, "range"), v.states["range"][g].temp
          PROVE  g \in In(w, "range") /\ v.states["range"][g] = w.states["range"][g]
                 /\ Rebuilt(v, g) = Rebuilt(w, g)
      <3>1. g \in In(w, "range") /\ v.states["range"][g] = w.states["range"][g]
        BY <1>6, <1>7, <2>2 DEF Kind
      <3>2. <<"range", g>> \in DOMAIN v.temps
        BY <1>8, <1>11, <2>2 DEF TempsOwned, Held, Kind, WorkType
      <3> QED
        BY <1>2, <1>5, <3>1, <3>2 DEF Rebuilt, Left
    <2>3. Right(w) => Right(v)
      BY <1>5, <1>6 DEF Right, Kind
    <2> QED
      BY <1>5, <2>1, <2>2, <2>3 DEF Moves
  <1> QED
    BY <1>8, <1>9, <1>10, <1>11, <1>12 DEF Own

LEMMA FallsBackOwner ==
    ASSUME NEW w, NEW cmp, NEW tasks, NEW results, Own(w, cmp, tasks, results),
           NEW kind \in Kind, NEW f \in In(w, kind) \cup Settled(w),
           kind = "delta" => f \in In(w, "delta"),
           NEW v, v = FallsBack(w, kind, f)
    PROVE  Own(v, cmp, tasks, results) /\ Moves(w, cmp, v, cmp)
  <1>1. CASE v = ScheduleTransfer(Abandon(w, kind, f), f)
    BY <1>1, DropsOwner
  <1>2. CASE kind = "delta" /\ EntersFileRange(Abandon(w, kind, f), f)
             /\ v = TryEnterFileRange(Abandon(w, "delta", f), f)
    <2>1. Shape(w) /\ f \in File /\ "delta" \in Kind /\ "range" \in Kind
      BY <1>2 DEF Own, WorkType, Shape, Kind
    <2>2. Left(w, "delta", f, Abandon(w, "delta", f))
      BY <2>1, AbandonLeaves
    <2>3. f \notin w.abandoned["range"]
      BY <1>2, <2>1, <2>2 DEF Left, EntersFileRange
    <2> QED
      BY <1>2, <2>3, BlocksOwner
  <1> QED
    BY <1>1, <1>2 DEF FallsBack, BlocksOrStream

\* A file is renamed into place.
LEMMA CommitsOwner ==
    ASSUME NEW w, NEW cmp, NEW tasks, NEW results, Own(w, cmp, tasks, results),
           NEW kind \in Kind, NEW f \in In(w, kind), w.states[kind][f].temp,
           w.temps[<<kind, f>>] = Block(f), NEW v, v = Commit(w, kind, f)
    PROVE  Own(v, cmp, tasks, results) /\ Moves(w, cmp, v, cmp)
  <1>1. Shape(w) /\ f \in w.changed \ cmp /\ f \in File /\ w.pending \in Seq(File)
    <2>1. kind = "delta" \/ kind = "range"
      BY DEF Kind
    <2>2. f \in w.changed \ cmp
      BY <2>1 DEF Own, Owned
    <2> QED
      BY <2>2 DEF Own, WorkType, Shape
  <1>2. /\ Shape(v) /\ Rest(w, v, {"committed", "states", "temps"})
        /\ v.committed = With(w.committed, f, Block(f))
        /\ \A k \in Kind : v.states[k] = IF k = kind THEN Without(w.states[k], {f}) ELSE w.states[k]
        /\ v.temps = Without(w.temps, {<<kind, f>>})
    BY <1>1 DEF Commit, Shape, Rest, Fields
  <1>3. /\ v.abandoned = w.abandoned /\ v.queue = w.queue /\ v.pending = w.pending
        /\ v.changed = w.changed /\ v.scheduled = w.scheduled /\ v.sigRequested = w.sigRequested
    BY <1>2 DEF Rest, Fields
  <1>4. \A k \in Kind : /\ In(v, k) = IF k = kind THEN In(w, k) \ {f} ELSE In(w, k)
                        /\ \A g \in In(v, k) : v.states[k][g] = w.states[k][g]
    <2>1. /\ DOMAIN v.states[kind] = DOMAIN w.states[kind] \ {f}
          /\ \A g \in DOMAIN v.states[kind] : v.states[kind][g] = w.states[kind][g]
      BY <1>2 DEF Without, Restrict
    <2> QED
      BY <1>2, <2>1 DEF In
  <1>5. /\ DOMAIN v.committed = DOMAIN w.committed \cup {f} /\ v.committed[f] = Block(f)
        /\ \A g \in DOMAIN w.committed \ {f} : v.committed[g] = w.committed[g]
        /\ DOMAIN v.temps = DOMAIN w.temps \ {<<kind, f>>}
        /\ \A t \in DOMAIN v.temps : v.temps[t] = w.temps[t]
    BY <1>2 DEF With, Without, Restrict
  <1>6. WorkType(v)
    BY <1>1, <1>2, <1>3, <1>4, KeepsType DEF Own
  <1>7. Owned(v, cmp)
    BY <1>1, <1>3, <1>4, <1>5 DEF Own, Owned, Settled, Kind
  <1>8. PlansOnce(v, cmp, tasks, results)
    BY <1>3, <1>4 DEF Own, PlansOnce, Kind
  <1>9. TempsOwned(v, results)
    <2>1. Held(v) = Held(w) \ {<<kind, f>>}
      BY <1>4 DEF Held
    <2>2. <<kind, f>> \in Held(w)
      BY <1>1 DEF Held
    <2> QED
      BY <1>5, <2>1, <2>2, HeldNotOffered DEF Own, TempsOwned
  <1>10. Moves(w, cmp, v, cmp)
    <2>1. \A k \in Kind : \A g : Begun(w, cmp, k, g) => Begun(v, cmp, k, g)
      BY <1>3, <1>4 DEF Begun, Kind
    <2>2. ASSUME NEW g \in In(v, "range"), v.states["range"][g].temp
          PROVE  g \in In(w, "range") /\ v.states["range"][g] = w.states["range"][g]
                 /\ Rebuilt(v, g) = Rebuilt(w, g)
      <3>1. g \in In(w, "range") /\ v.states["range"][g] = w.states["range"][g]
        BY <1>4, <2>2 DEF Kind
      <3>2. <<"range", g>> \in DOMAIN v.temps
        BY <1>6, <1>9, <2>2 DEF TempsOwned, Held, Kind, WorkType
      <3> QED
        BY <1>5, <3>1, <3>2 DEF Rebuilt
    <2>3. Right(w) => Right(v)
      BY <1>4, <1>5 DEF Right, Kind
    <2> QED
      BY <1>3, <2>1, <2>2, <2>3 DEF Moves
  <1> QED
    BY <1>6, <1>7, <1>8, <1>9, <1>10 DEF Own

\* The end of a file: whole if it is renamed, and in one place either way.
LEMMA FinalizesOwner ==
    ASSUME NEW w, NEW cmp, NEW tasks, NEW results, Own(w, cmp, tasks, results),
           NEW kind \in Kind, NEW f \in In(w, kind), w.states[kind][f].temp,
           Sound(w, kind, f) => w.temps[<<kind, f>>] = Block(f), Finalize(w, kind, f)
    PROVE  Own(work', cmp, tasks, results) /\ Moves(w, cmp, work', cmp)
  <1>1. CASE Sound(w, kind, f) /\ work' = Commit(w, kind, f)
    BY <1>1, CommitsOwner
  <1>2. CASE work' = FallsBack(w, kind, f)
    BY <1>2, FallsBackOwner
  <1> QED
    BY <1>1, <1>2 DEF Finalize

\* A comparison is over: the file has its first owner.
LEMMA AdmitsOwner ==
    ASSUME NEW w, NEW cmp, NEW tasks, NEW results, Own(w, cmp, tasks, results),
           NEW f \in cmp,
           NEW v, v = IF EntersDelta(w, f) THEN TryEnterDelta(w, f) ELSE BlocksOrStream(w, f)
    PROVE  Own(v, cmp \ {f}, tasks, results) /\ Moves(w, cmp, v, cmp \ {f})
  <1> DEFINE cmp2 == cmp \ {f}
  <1>1. /\ Shape(w) /\ f \in w.changed /\ f \in File /\ w.pending \in Seq(File)
        /\ f \notin In(w, "delta") /\ f \notin In(w, "range") /\ f \notin Settled(w)
        /\ f \notin InPlanning(tasks, results) /\ "delta" \in Kind /\ "range" \in Kind
    BY DEF Own, Owned, WorkType, Shape, PlansOnce, InPlanning, Kind
  <1>2. /\ \A b : /\ IsState(NewState(b)) /\ ~NewState(b).temp /\ NewState(b).verify = b
    BY DEF NewState, StateFields, IsState
  <1>3. /\ Shape(v) /\ v.abandoned = w.abandoned /\ v.queue = w.queue /\ v.changed = w.changed
        /\ v.sigRequested = w.sigRequested /\ v.temps = w.temps /\ v.committed = w.committed
        /\ v.pending \in Seq(File)
        /\ \/ /\ v.scheduled = w.scheduled /\ v.states["range"] = w.states["range"]
              /\ v.states["delta"] = With(w.states["delta"], f, NewState(TRUE))
           \/ /\ v.scheduled = w.scheduled /\ v.states["delta"] = w.states["delta"]
              /\ v.states["range"] = With(w.states["range"], f, NewState(f \in HashedFile))
              /\ f \notin w.abandoned["range"]
           \/ v.scheduled = w.scheduled \cup {f} /\ v.states = w.states
    <2>1. CASE v = TryEnterDelta(w, f)
      BY <1>1, <2>1 DEF TryEnterDelta, Shape, Fields
    <2>2. CASE v = TryEnterFileRange(w, f) /\ EntersFileRange(w, f)
      BY <1>1, <2>2, ZenonT(40) DEF TryEnterFileRange, EntersFileRange, Shape, Fields
    <2>3. CASE v = ScheduleTransfer(w, f)
      <3>1. f \notin w.scheduled
        BY <1>1 DEF Settled
      <3>2. f \in File /\ w.pending \in Seq(File)
        BY <1>1
      <3>3. v.pending = Append(w.pending, f)
        BY <1>1, <2>3, <3>1 DEF ScheduleTransfer, Shape, Fields
      <3>4. v.pending \in Seq(File)
        BY <3>2, <3>3, AppendFile
      <3> QED
        BY <1>1, <2>3, <3>1, <3>4 DEF ScheduleTransfer, Shape, Fields
    <2> QED
      BY <2>1, <2>2, <2>3 DEF BlocksOrStream
  <1>4. \A k \in Kind : /\ In(w, k) \subseteq In(v, k) /\ In(v, k) \subseteq In(w, k) \cup {f}
                        /\ \A g \in In(w, k) : v.states[k][g] = w.states[k][g]
                        /\ f \in In(v, k) => /\ IsState(v.states[k][f]) /\ ~v.states[k][f].temp
                                             /\ k = "delta" => v.states[k][f].verify
    <2>1. \A k \in Kind : k = "delta" \/ k = "range"
      BY DEF Kind
    <2>2. \A k \in Kind : v.states[k] = w.states[k] \/ \E b :
             v.states[k] = With(w.states[k], f, NewState(b)) /\ (k = "delta" => b)
      BY <1>3, <2>1
    <2>3. \A k \in Kind : f \notin In(w, k)
      BY <1>1, <2>1
    <2>4. ASSUME NEW k \in Kind, NEW b, v.states[k] = With(w.states[k], f, NewState(b)),
                 k = "delta" => b
          PROVE  /\ In(v, k) = In(w, k) \cup {f} /\ v.states[k][f] = NewState(b)
                 /\ \A g \in In(w, k) : v.states[k][g] = w.states[k][g]
      BY <2>3, <2>4 DEF In, With
    <2>5. \A k \in Kind : v.states[k] = w.states[k] => In(v, k) = In(w, k)
      BY DEF In
    <2> QED
      BY <1>2, <2>2, <2>3, <2>4, <2>5
  <1>5. \/ f \in In(v, "delta") /\ f \notin In(v, "range") /\ v.scheduled = w.scheduled
        \/ /\ f \in In(v, "range") /\ f \notin In(v, "delta") /\ v.scheduled = w.scheduled
           /\ f \notin w.abandoned["range"]
        \/ f \notin In(v, "range") /\ f \notin In(v, "delta") /\ v.scheduled = w.scheduled \cup {f}
    BY <1>1, <1>3 DEF In, With
  <1>6. WorkType(v)
    BY <1>1, <1>3, <1>4, KeepsType DEF Own
  <1>7. Owned(v, cmp2)
    BY <1>1, <1>3, <1>4, <1>5 DEF Own, Owned, Settled
  <1>8. PlansOnce(v, cmp2, tasks, results)
    <2>1. \A g \in In(v, "delta") : \/ g \in In(w, "delta") /\ v.states["delta"][g] = w.states["delta"][g]
                                    \/ g = f /\ ~v.states["delta"][g].temp
      BY <1>1, <1>4
    <2>2. \A g \in In(v, "delta") : v.states["delta"][g].temp => v.states["delta"][g].sigReceived
      BY <2>1 DEF Own, PlansOnce
    <2> QED
      BY <1>1, <1>3, <2>1, <2>2 DEF Own, PlansOnce
  <1>9. Held(v) = Held(w)
    BY <1>4 DEF Held
  <1>10. TempsOwned(v, results)
    BY <1>3, <1>9 DEF Own, TempsOwned
  <1>11. Moves(w, cmp, v, cmp2)
    <2>1. \A k \in Kind : \A g : Begun(w, cmp, k, g) => Begun(v, cmp2, k, g)
      BY <1>1, <1>3, <1>4 DEF Begun
    <2>2. Right(w) => Right(v)
      BY <1>1, <1>3, <1>4 DEF Right
    <2>3. "delta" \in Kind /\ v.queue = w.queue
      BY <1>1, <1>3
    <2>4. \A g \in In(v, "range") : v.states["range"][g].temp =>
             /\ g \in In(w, "range") /\ v.states["range"][g] = w.states["range"][g]
             /\ Rebuilt(v, g) = Rebuilt(w, g)
      BY <1>1, <1>3, <1>4 DEF Rebuilt
    <2> QED
      BY <2>1, <2>2, <2>3, <2>4 DEF Moves
  <1> QED
    BY <1>6, <1>7, <1>8, <1>10, <1>11 DEF Own

\* The state of one file is replaced.
Restated(w, v, kind, f, st) ==
    /\ DOMAIN v = Fields /\ Rest(w, v, {"states"}) /\ DOMAIN v.states = Kind
    /\ \A k \in Kind : In(v, k) = In(w, k)
    /\ v.states[kind][f] = st
    /\ \A k \in Kind : \A g \in In(w, k) : <<k, g>> # <<kind, f>> => v.states[k][g] = w.states[k][g]

LEMMA Restates ==
    ASSUME NEW w, Shape(w), NEW kind \in Kind, NEW f \in In(w, kind), NEW st,
           NEW v, v = [w EXCEPT !.states[kind][f] = st]
    PROVE  Restated(w, v, kind, f, st)
  <1>1. /\ DOMAIN v = Fields /\ Rest(w, v, {"states"}) /\ DOMAIN v.states = Kind
        /\ v.states[kind] = [w.states[kind] EXCEPT ![f] = st]
        /\ \A k \in Kind \ {kind} : v.states[k] = w.states[k]
    BY DEF Shape, Rest, Fields
  <1>2. /\ DOMAIN v.states[kind] = DOMAIN w.states[kind] /\ v.states[kind][f] = st
        /\ \A g \in DOMAIN w.states[kind] \ {f} : v.states[kind][g] = w.states[kind][g]
    BY <1>1 DEF In
  <1>3. \A k \in Kind : In(v, k) = In(w, k)
    BY <1>1, <1>2 DEF In
  <1>4. ASSUME NEW k \in Kind, NEW g \in In(w, k), <<k, g>> # <<kind, f>>
        PROVE  v.states[k][g] = w.states[k][g]
    BY <1>1, <1>2, <1>4 DEF In
  <1> QED
    BY <1>1, <1>2, <1>3, <1>4 DEF Restated

BegunKept(w, v, cmp) == \A k \in Kind : \A g : Begun(w, cmp, k, g) => Begun(v, cmp, k, g)

\* A state that keeps its temporary and its place in the planning keeps its owner.
LEMMA RestatesOwner ==
    ASSUME NEW w, NEW cmp, NEW tasks, NEW results, Own(w, cmp, tasks, results),
           NEW kind \in Kind, NEW f \in In(w, kind), NEW st, IsState(st),
           st.temp = w.states[kind][f].temp,
           w.states[kind][f].sigReceived => st.sigReceived,
           NEW v, Restated(w, v, kind, f, st)
    PROVE  /\ Own(v, cmp, tasks, results) /\ Shape(v) /\ v.queue = w.queue /\ v.temps = w.temps
           /\ BegunKept(w, v, cmp)
           /\ kind = "delta" /\ (w.states[kind][f].verify => st.verify) => Moves(w, cmp, v, cmp)
           /\ kind = "range" /\ Right(w) => Right(v)
  <1>1. /\ v.abandoned = w.abandoned /\ v.queue = w.queue /\ v.pending = w.pending
        /\ v.changed = w.changed /\ v.scheduled = w.scheduled /\ v.temps = w.temps
        /\ v.committed = w.committed /\ v.sigRequested = w.sigRequested
    BY DEF Restated, Rest, Fields
  <1>2. WorkType(w) /\ Shape(w) /\ w.pending \in Seq(File) /\ f \in File
    BY DEF Own, WorkType, Shape
  <1>3. Shape(v)
    BY <1>1, <1>2 DEF Shape, Restated
  <1>4. \A k \in Kind : /\ In(v, k) = In(w, k)
                        /\ \A g \in In(v, k) : <<k, g>> # <<kind, f>> => v.states[k][g] = w.states[k][g]
    BY DEF Restated
  <1>5. v.states[kind][f] = st
    BY DEF Restated
  <1>6. WorkType(v)
    <2>1. \A k \in Kind : \A g \in In(v, k) :
             \/ g \in In(w, k) /\ v.states[k][g] = w.states[k][g]
             \/ g \in File /\ IsState(v.states[k][g])
      BY <1>2, <1>4, <1>5
    <2> QED
      BY <1>1, <1>2, <1>3, <2>1, KeepsType
  <1>7. In(v, "delta") = In(w, "delta") /\ In(v, "range") = In(w, "range") /\ Settled(v) = Settled(w)
    BY <1>1, <1>4 DEF Kind, Settled
  <1>8. Owned(v, cmp)
    BY <1>1, <1>7 DEF Own, Owned
  <1>9. \A k \in Kind : \A g \in In(w, k) :
           /\ v.states[k][g].temp = w.states[k][g].temp
           /\ w.states[k][g].sigReceived => v.states[k][g].sigReceived
    BY <1>4, <1>5
  <1>10. PlansOnce(v, cmp, tasks, results)
    <2>1. \A g \in In(w, "delta") : /\ v.states["delta"][g].temp = w.states["delta"][g].temp
                                    /\ w.states["delta"][g].sigReceived => v.states["delta"][g].sigReceived
      BY <1>9 DEF Kind
    <2> QED
      BY <1>1, <1>7, <2>1 DEF Own, PlansOnce
  <1>11. TempsOwned(v, results)
    <2>1. Held(v) = Held(w)
      BY <1>4, <1>9 DEF Held
    <2> QED
      BY <1>1, <2>1 DEF Own, TempsOwned
  <1>12. \A k \in Kind : \A g : Begun(w, cmp, k, g) => Begun(v, cmp, k, g)
    BY <1>1, <1>4, <1>7, <1>9 DEF Begun
  <1>13. ASSUME kind = "delta", w.states[kind][f].verify => st.verify
         PROVE  Moves(w, cmp, v, cmp)
    <2>1. \A g \in In(w, "range") : v.states["range"][g] = w.states["range"][g]
      BY <1>4, <1>13 DEF Kind
    <2>2. Right(w) => Right(v)
      BY <1>1, <1>4, <1>5, <1>7, <1>13 DEF Right, Kind
    <2> QED
      BY <1>1, <1>7, <1>12, <2>1, <2>2 DEF Moves, Rebuilt
  <1>14. kind = "range" /\ Right(w) => Right(v)
    BY <1>1, <1>4, <1>7 DEF Right, Kind
  <1> QED
    BY <1>1, <1>3, <1>6, <1>8, <1>10, <1>11, <1>12, <1>13, <1>14 DEF Own, BegunKept

\* The first answer to a signature request makes the file a plan task.
LEMMA TasksOwner ==
    ASSUME NEW w, NEW cmp, NEW tasks, NEW results, Own(w, cmp, tasks, results),
           NEW f \in In(w, "delta"), ~w.states["delta"][f].sigReceived,
           NEW v, v = [w EXCEPT !.states["delta"][f].sigReceived = TRUE]
    PROVE  Own(v, cmp, tasks \cup {f}, results) /\ Moves(w, cmp, v, cmp)
  <1> DEFINE st == [w.states["delta"][f] EXCEPT !.sigReceived = TRUE]
  <1>1. Shape(w) /\ "delta" \in Kind /\ f \in w.changed \ cmp /\ IsState(w.states["delta"][f])
    BY DEF Own, WorkType, Shape, Kind, IsState, Owned
  <1>2. /\ IsState(st) /\ st.temp = w.states["delta"][f].temp
        /\ (w.states["delta"][f].verify => st.verify) /\ st.sigReceived
    BY <1>1 DEF IsState, StateFields
  <1>3. v = [w EXCEPT !.states["delta"][f] = st]
    BY <1>1 DEF Shape
  <1> HIDE DEF st
  <1>4. Restated(w, v, "delta", f, st)
    BY <1>1, <1>3, Restates
  <1>5. Own(v, cmp, tasks, results) /\ Moves(w, cmp, v, cmp)
    BY <1>1, <1>2, <1>4, RestatesOwner
  <1>6. f \notin InPlanning(tasks, results) /\ ~w.states["delta"][f].temp
    BY DEF Own, PlansOnce
  <1>7. v.states["delta"][f] = st /\ v.changed = w.changed
    BY <1>4 DEF Restated, Rest, Fields
  <1>8. PlansOnce(v, cmp, tasks \cup {f}, results)
    <2>1. \A i \in DOMAIN results : results[i].rel \notin tasks \cup {f}
      BY <1>5, <1>6 DEF InPlanning, Own, PlansOnce
    <2>2. InPlanning(tasks \cup {f}, results) = InPlanning(tasks, results) \cup {f}
      BY DEF InPlanning
    <2> QED
      BY <1>1, <1>2, <1>5, <1>6, <1>7, <2>1, <2>2 DEF Own, PlansOnce
  <1> QED
    BY <1>5, <1>8 DEF Own

\* A plan worker is done: its temporary belongs to the result.
LEMMA PlannedOwner ==
    ASSUME NEW w, NEW cmp, NEW tasks, NEW results, Own(w, cmp, tasks, results),
           NEW f \in tasks, NEW missing \in SUBSET Block(f),
           NEW v, v = [w EXCEPT !.temps = With(@, <<"delta", f>>, Block(f) \ missing)]
    PROVE  /\ Own(v, cmp, tasks \ {f}, Append(results, [rel |-> f, ok |-> TRUE, missing |-> missing]))
           /\ Own(w, cmp, tasks \ {f}, Append(results, [rel |-> f, ok |-> FALSE]))
           /\ Moves(w, cmp, v, cmp)
  <1> DEFINE good == [rel |-> f, ok |-> TRUE, missing |-> missing]
             bad == [rel |-> f, ok |-> FALSE]
             n == Len(results)
  <1>1. /\ Shape(w) /\ f \in w.changed \ cmp /\ f \in File /\ results \in Seq(PlanResult)
        /\ \A i \in DOMAIN results : results[i].rel # f
    BY DEF Own, WorkType, Shape, PlansOnce
  <1>2. good \in PlanResult /\ bad \in PlanResult
    <2>1. missing \in SUBSET Nat
      BY DEF Block
    <2> QED
      BY <1>1, <2>1 DEF PlanResult
  <1>3. good.rel = f /\ good.ok = TRUE /\ good.missing = missing /\ bad.rel = f /\ bad.ok = FALSE
    OBVIOUS
  <1>4. /\ DOMAIN v = Fields /\ Rest(w, v, {"temps"})
        /\ v.temps = With(w.temps, <<"delta", f>>, Block(f) \ missing)
    BY <1>1 DEF Shape, Rest, Fields
  <1>5. /\ v.states = w.states /\ v.abandoned = w.abandoned /\ v.queue = w.queue
        /\ v.pending = w.pending /\ v.changed = w.changed /\ v.scheduled = w.scheduled
        /\ v.committed = w.committed /\ v.sigRequested = w.sigRequested
    BY <1>4 DEF Rest, Fields
  <1> HIDE DEF good, bad
  <1>6. ASSUME NEW r \in {good, bad}, NEW after, after = Append(results, r)
        PROVE  PlansOnce(w, cmp, tasks \ {f}, after)
    <2>1. /\ r \in PlanResult /\ r.rel = f /\ (r.ok => r.missing \subseteq Block(f))
      BY <1>2, <1>3
    <2>2. /\ DOMAIN results = 1 .. n /\ n \in Nat /\ DOMAIN after = 1 .. (n + 1)
          /\ after \in Seq(PlanResult)
          /\ \A i \in 1 .. n : after[i] = results[i]
          /\ after[n + 1] = r
      BY <1>1, <1>6, <2>1
    <2>3. \A i \in DOMAIN after :
            /\ after[i].rel \in (w.changed \ cmp) \ (tasks \ {f})
            /\ after[i].ok => after[i].missing \subseteq Block(after[i].rel)
            /\ \A j \in DOMAIN after : after[i].rel = after[j].rel => i = j
      <3>1. \A i \in 1 .. n : /\ results[i].rel \in (w.changed \ cmp) \ tasks
                              /\ results[i].ok => results[i].missing \subseteq Block(results[i].rel)
                              /\ \A j \in 1 .. n : results[i].rel = results[j].rel => i = j
        BY <2>2 DEF Own, PlansOnce
      <3>2. \A i \in 1 .. (n + 1) : i \in 1 .. n \/ i = n + 1
        BY <2>2
      <3> QED
        BY <1>1, <2>1, <2>2, <3>1, <3>2
    <2>4. InPlanning(tasks \ {f}, after) \subseteq InPlanning(tasks, results)
      BY <2>1, <2>2 DEF InPlanning
    <2> QED
      BY <2>2, <2>3, <2>4 DEF Own, PlansOnce
  <1>7. ASSUME NEW r \in {good, bad}
        PROVE  Offered(Append(results, r)) = Offered(results) \cup IF r.ok THEN {<<"delta", f>>} ELSE {}
    <2> DEFINE after == Append(results, r)
    <2>1. /\ DOMAIN results = 1 .. n /\ n \in Nat /\ DOMAIN after = 1 .. (n + 1)
          /\ \A i \in 1 .. n : after[i] = results[i]
          /\ after[n + 1] = r /\ r.rel = f
      BY <1>1, <1>2, <1>3
    <2> HIDE DEF after
    <2>2. Offered(after) = Offered(results) \cup IF r.ok THEN {<<"delta", f>>} ELSE {}
      <3>1. \A i \in 1 .. (n + 1) : i \in 1 .. n \/ i = n + 1
        BY <2>1
      <3>2. \A i \in 1 .. n : i \in 1 .. (n + 1)
        BY <2>1
      <3> QED
        BY <2>1, <3>1, <3>2 DEF Offered
    <2> QED
      BY <2>2 DEF after
  <1>8. WorkType(v) /\ Owned(v, cmp) /\ Held(v) = Held(w)
    BY <1>4, <1>5 DEF Own, WorkType, Owned, In, Settled, Held
  <1>9. Own(w, cmp, tasks \ {f}, Append(results, bad))
    BY <1>3, <1>6, <1>7 DEF Own, TempsOwned
  <1>10. Own(v, cmp, tasks \ {f}, Append(results, good))
    <2>1. PlansOnce(v, cmp, tasks \ {f}, Append(results, good))
      BY <1>5, <1>6 DEF PlansOnce, In
    <2>2. DOMAIN v.temps = DOMAIN w.temps \cup {<<"delta", f>>}
      BY <1>4 DEF With
    <2> QED
      BY <1>3, <1>7, <1>8, <2>1, <2>2 DEF Own, TempsOwned
  <1>11. Moves(w, cmp, v, cmp)
    <2>1. \A g \in In(w, "range") : w.states["range"][g].temp => <<"range", g>> \in DOMAIN w.temps
      BY DEF Own, TempsOwned, Held, WorkType, Kind
    <2>2. \A g \in In(w, "range") : w.states["range"][g].temp => Rebuilt(v, g) = Rebuilt(w, g)
      BY <1>4, <2>1 DEF Rebuilt, With
    <2> QED
      BY <1>5, <2>2 DEF Moves, Begun, In, Right
  <1> QED
    BY <1>9, <1>10, <1>11 DEF good, bad

\* The loop takes the oldest plan.
Popped(w, cmp, tasks, results, r) ==
    /\ PlansOnce(w, cmp, tasks, Tail(results))
    /\ Offered(Tail(results)) = Offered(results) \ {<<"delta", r.rel>>}
    /\ r.ok => <<"delta", r.rel>> \in Offered(results)
    /\ ~r.ok => <<"delta", r.rel>> \notin Offered(results)
    /\ r.rel \in InPlanning(tasks, results) /\ r.rel \notin InPlanning(tasks, Tail(results))
    /\ r.rel \in w.changed \ cmp
    /\ r.ok => r.missing \subseteq Block(r.rel)

LEMMA PopsPlan ==
    ASSUME NEW w, NEW cmp, NEW tasks, NEW results, Own(w, cmp, tasks, results), results # <<>>
    PROVE  Popped(w, cmp, tasks, results, Head(results))
  <1> DEFINE r == Head(results)
             n == Len(results)
             after == Tail(results)
  <1>1. results \in Seq(PlanResult) /\ results # <<>>
    BY DEF Own, PlansOnce
  <1>2. /\ n \in Nat \ {0} /\ DOMAIN results = 1 .. n /\ DOMAIN after = 1 .. (n - 1)
        /\ \A i \in 1 .. (n - 1) : i + 1 \in 1 .. n /\ i + 1 # 1 /\ after[i] = results[i + 1]
        /\ r = results[1] /\ 1 \in 1 .. n /\ after \in Seq(PlanResult)
    BY <1>1
  <1>3. \A i \in 1 .. n : i = 1 \/ \E j \in 1 .. (n - 1) : i = j + 1
    <2>1. \A i \in 1 .. n : i = 1 \/ (i - 1 \in 1 .. (n - 1) /\ i = (i - 1) + 1)
      BY <1>2
    <2> QED
      BY <2>1
  <1> HIDE DEF n, after, r
  <1>4. \A i \in 1 .. n : /\ results[i].rel \in (w.changed \ cmp) \ tasks
                          /\ results[i].ok => results[i].missing \subseteq Block(results[i].rel)
                          /\ \A j \in 1 .. n : results[i].rel = results[j].rel => i = j
    BY <1>2 DEF Own, PlansOnce
  <1>5. \A i \in 1 .. (n - 1) :
           /\ after[i].rel \in (w.changed \ cmp) \ tasks /\ after[i].rel # r.rel
           /\ after[i].ok => after[i].missing \subseteq Block(after[i].rel)
           /\ \A j \in 1 .. (n - 1) : after[i].rel = after[j].rel => i = j
    <2>1. \A i, j \in 1 .. (n - 1) : i + 1 = j + 1 => i = j
      BY <1>2
    <2> QED
      BY <1>2, <1>4, <2>1
  <1>6. /\ InPlanning(tasks, after) \subseteq InPlanning(tasks, results)
        /\ r.rel \in InPlanning(tasks, results) /\ r.rel \notin InPlanning(tasks, after)
    <2>1. \A g : g \in InPlanning(tasks, results) <=> g \in tasks \/ \E i \in 1 .. n : g = results[i].rel
      BY <1>2 DEF InPlanning
    <2>2. \A g : g \in InPlanning(tasks, after) <=> g \in tasks \/ \E i \in 1 .. (n - 1) : g = after[i].rel
      BY <1>2 DEF InPlanning
    <2>3. \A g \in InPlanning(tasks, after) : g \in InPlanning(tasks, results)
      BY <1>2, <2>1, <2>2, SMTT(30)
    <2> QED
      BY <1>2, <1>4, <1>5, <2>1, <2>2, <2>3
  <1>7. PlansOnce(w, cmp, tasks, after)
    BY <1>2, <1>5, <1>6 DEF Own, PlansOnce
  <1>8. /\ Offered(after) = Offered(results) \ {<<"delta", r.rel>>}
        /\ r.ok => <<"delta", r.rel>> \in Offered(results)
        /\ ~r.ok => <<"delta", r.rel>> \notin Offered(results)
    <2>1. ASSUME NEW g
          PROVE  <<"delta", g>> \in Offered(results) <=> \E i \in 1 .. n : results[i].ok /\ results[i].rel = g
      BY <1>2 DEF Offered
    <2>2. ASSUME NEW g
          PROVE  <<"delta", g>> \in Offered(after) <=> \E i \in 1 .. (n - 1) : after[i].ok /\ after[i].rel = g
      BY <1>2 DEF Offered
    <2>3. \A t \in Offered(results) \cup Offered(after) : \E g : t = <<"delta", g>>
      BY DEF Offered
    <2>4. ASSUME NEW g
          PROVE  <<"delta", g>> \in Offered(after) <=> <<"delta", g>> \in Offered(results) /\ g # r.rel
      <3>1. ASSUME NEW i \in 1 .. (n - 1), after[i].ok, after[i].rel = g
            PROVE  <<"delta", g>> \in Offered(results) /\ g # r.rel
        BY <1>2, <1>5, <2>1, <3>1
      <3>2. ASSUME NEW i \in 1 .. n, results[i].ok, results[i].rel = g, g # r.rel
            PROVE  <<"delta", g>> \in Offered(after)
        <4>1. PICK j \in 1 .. (n - 1) : i = j + 1
          BY <1>2, <1>3, <3>2
        <4>2. after[j].ok /\ after[j].rel = g
          BY <1>2, <3>2, <4>1
        <4> QED
          BY <2>2, <4>2
      <3> QED
        BY <2>1, <2>2, <3>1, <3>2
    <2>5. Offered(after) = Offered(results) \ {<<"delta", r.rel>>}
      BY <2>3, <2>4
    <2> QED
      BY <1>2, <1>4, <2>1, <2>5
  <1> QED
    BY <1>2, <1>4, <1>6, <1>7, <1>8 DEF after, r, Popped

LEMMA RefusedOwner ==
    ASSUME NEW w, NEW cmp, NEW tasks, NEW results, Own(w, cmp, tasks, results), results # <<>>,
           ~Head(results).ok
    PROVE  Own(w, cmp, tasks, Tail(results))
  <1> DEFINE t == <<"delta", Head(results).rel>>
  <1>1. /\ PlansOnce(w, cmp, tasks, Tail(results)) /\ Offered(Tail(results)) = Offered(results) \ {t}
        /\ t \notin Offered(results)
    BY PopsPlan DEF Popped
  <1> HIDE DEF t
  <1>2. Offered(Tail(results)) = Offered(results)
    BY <1>1
  <1> QED
    BY <1>1, <1>2 DEF Own, TempsOwned

\* A plan nobody wants goes with its temporary.
LEMMA DiscardsOwner ==
    ASSUME NEW w, NEW cmp, NEW tasks, NEW results, Own(w, cmp, tasks, results), results # <<>>,
           NEW f, f = Head(results).rel, f \notin In(w, "delta"),
           NEW v, v = [w EXCEPT !.temps = Without(@, {<<"delta", f>>})]
    PROVE  Own(v, cmp, tasks, Tail(results)) /\ Moves(w, cmp, v, cmp)
  <1>1. /\ PlansOnce(w, cmp, tasks, Tail(results))
        /\ Offered(Tail(results)) = Offered(results) \ {<<"delta", f>>}
    BY PopsPlan DEF Popped
  <1>2. DOMAIN w = Fields
    BY DEF Own, WorkType
  <1>3. /\ DOMAIN v = Fields /\ Rest(w, v, {"temps"})
        /\ v.temps = Without(w.temps, {<<"delta", f>>})
    BY <1>2 DEF Rest, Fields
  <1>4. /\ v.states = w.states /\ v.abandoned = w.abandoned /\ v.queue = w.queue
        /\ v.pending = w.pending /\ v.changed = w.changed /\ v.scheduled = w.scheduled
        /\ v.committed = w.committed /\ v.sigRequested = w.sigRequested
    BY <1>3 DEF Rest, Fields
  <1>5. /\ DOMAIN v.temps = DOMAIN w.temps \ {<<"delta", f>>}
        /\ \A t \in DOMAIN v.temps : v.temps[t] = w.temps[t]
    BY <1>3 DEF Without, Restrict
  <1>6. WorkType(v) /\ Owned(v, cmp) /\ Held(v) = Held(w)
    BY <1>3, <1>4 DEF Own, WorkType, Owned, In, Settled, Held
  <1>7. PlansOnce(v, cmp, tasks, Tail(results))
    BY <1>1, <1>4 DEF PlansOnce, In
  <1>8. <<"delta", f>> \notin Held(w)
    BY DEF Held
  <1>9. TempsOwned(v, Tail(results))
    BY <1>1, <1>5, <1>6, <1>8 DEF Own, TempsOwned
  <1>10. Moves(w, cmp, v, cmp)
    <2>1. \A g \in In(w, "range") : w.states["range"][g].temp => <<"range", g>> \in DOMAIN w.temps
      BY DEF Own, TempsOwned, Held, WorkType, Kind
    <2>2. \A g \in In(w, "range") : w.states["range"][g].temp => Rebuilt(v, g) = Rebuilt(w, g)
      BY <1>5, <2>1 DEF Rebuilt
    <2> QED
      BY <1>4, <2>2 DEF Moves, Begun, In, Right
  <1> QED
    BY <1>6, <1>7, <1>9, <1>10 DEF Own

LEMMA ListsSet ==
    ASSUME NEW S, IsFiniteSet(S)
    PROVE  SetToSeq(S) \in Seq(S) /\ Len(SetToSeq(S)) = Cardinality(S) /\ Cardinality(S) \in Nat
  <1> DEFINE n == Cardinality(S)
  <1>1. n \in Nat
    BY FS_CardinalityType
  <1>2. \E g \in [1 .. n -> S] : IsInjective(g)
    <2>1. ExistsBijection(1 .. n, S)
      BY <1>1, FS_NatBijection, FS_CountingElements
    <2>2. PICK g \in Bijection(1 .. n, S) : TRUE
      BY <2>1 DEF ExistsBijection
    <2> QED
      BY <2>2 DEF Bijection, Injection, IsInjective
  <1>3. SetToSeq(S) \in [1 .. n -> S]
    BY <1>2 DEF SetToSeq
  <1> QED
    BY <1>1, <1>3

LEMMA BlockIs ==
    ASSUME NEW f \in File
    PROVE  IsFiniteSet(Block(f)) /\ Block(f) \subseteq Nat /\ Blocks[f] \in Nat \ {0}
           /\ Cardinality(Block(f)) = Blocks[f]
  <1>1. Blocks[f] \in Nat \ {0}
    BY BlockAssumption DEF BlockAssumption
  <1> QED
    BY <1>1, FS_Interval, SMTT(30) DEF Block

\* A plan that helps: the file takes its temporary over and asks for the missing blocks.
LEMMA AdoptsOwner ==
    ASSUME NEW w, NEW cmp, NEW tasks, NEW results, Own(w, cmp, tasks, results), results # <<>>,
           NEW r, r = Head(results), r.ok, r.rel \in In(w, "delta"),
           NEW v, v = AdoptPlan(w, r)
    PROVE  /\ Own(v, cmp, tasks, Tail(results)) /\ Moves(w, cmp, v, cmp)
           /\ r.rel \in In(v, "delta") /\ v.states["delta"][r.rel].temp
  <1> DEFINE f == r.rel
             S == {[rel |-> r.rel, block |-> b] : b \in r.missing}
             ranges == SetToSeq(S)
             old == w.states["delta"][f]
             st == [old EXCEPT !.temp = TRUE, !.pendingRanges = Len(ranges)]
             u == [w EXCEPT !.states["delta"][f] = st]
  <1>1. /\ PlansOnce(w, cmp, tasks, Tail(results)) /\ f \in w.changed \ cmp
        /\ Offered(Tail(results)) = Offered(results) \ {<<"delta", f>>}
        /\ <<"delta", f>> \in Offered(results) /\ r.missing \subseteq Block(f)
        /\ f \in InPlanning(tasks, results) /\ f \notin InPlanning(tasks, Tail(results))
    BY PopsPlan DEF Popped
  <1>2. /\ Shape(w) /\ f \in File /\ IsState(old) /\ old.sigReceived /\ ~old.temp
        /\ w.queue["delta"] \in Seq(Task) /\ w.queue["range"] \in Seq(Task)
        /\ "delta" \in Kind /\ "range" \in Kind
    <2>1. "delta" \in Kind /\ "range" \in Kind
      BY DEF Kind
    <2> QED
      BY <1>1, <2>1 DEF Own, WorkType, Shape, PlansOnce, IsState
  <1>3. /\ ranges \in Seq(S) /\ Len(ranges) \in Nat
    <2>1. IsFiniteSet(r.missing)
      BY <1>1, <1>2, BlockIs, FS_Subset
    <2>2. IsFiniteSet(S)
      <3> DEFINE h == [b \in r.missing |-> [rel |-> r.rel, block |-> b]]
      <3>1. h \in Surjection(r.missing, S)
        BY DEF Surjection
      <3> QED
        BY <2>1, <3>1, FS_Surjection
    <2> HIDE DEF S
    <2> QED
      BY <2>2, ListsSet
  <1>4. S \subseteq Task /\ \A t \in S : t.rel = f
    <2>1. r.missing \subseteq Nat
      BY <1>1, <1>2, BlockIs
    <2> QED
      BY <1>2, <2>1 DEF Task
  <1> HIDE DEF S, ranges
  <1>5. /\ ranges \in Seq(Task) /\ DOMAIN ranges = 1 .. Len(ranges)
        /\ \A i \in DOMAIN ranges : ranges[i].rel = f
    BY <1>3, <1>4
  <1>6. IsState(st) /\ st.temp /\ st.sigReceived /\ (old.verify => st.verify)
    BY <1>2, <1>3 DEF IsState, StateFields
  <1>7. /\ Shape(v) /\ Rest(u, v, {"queue"})
        /\ v.queue["delta"] = w.queue["delta"] \o ranges /\ v.queue["range"] = w.queue["range"]
    <2>1. v = [w EXCEPT !.states["delta"][f] = st, !.queue["delta"] = @ \o ranges]
      BY <1>2 DEF AdoptPlan, Shape, ranges, S
    <2> HIDE DEF st
    <2>2. /\ DOMAIN v = Fields /\ v.states = u.states /\ v.abandoned = w.abandoned
          /\ v.queue = [w.queue EXCEPT !["delta"] = @ \o ranges] /\ DOMAIN u.states = Kind
      BY <1>2, <2>1 DEF Shape, Fields
    <2>3. Rest(u, v, {"queue"})
      BY <1>2, <2>1 DEF Shape, Fields, Rest
    <2> QED
      BY <1>2, <2>2, <2>3 DEF Shape
  <1> HIDE DEF st
  <1>8. Restated(w, u, "delta", f, st)
    BY <1>2, Restates
  <1> HIDE DEF u
  <1>9. /\ v.abandoned = w.abandoned /\ v.pending = w.pending /\ v.changed = w.changed
        /\ v.scheduled = w.scheduled /\ v.committed = w.committed /\ v.temps = w.temps
        /\ v.sigRequested = w.sigRequested /\ v.states = u.states
    BY <1>7, <1>8 DEF Restated, Rest, Fields
  <1>10. /\ In(v, "delta") = In(w, "delta") /\ In(v, "range") = In(w, "range")
         /\ v.states["delta"][f] = st
         /\ \A g \in In(w, "delta") : g # f => v.states["delta"][g] = w.states["delta"][g]
         /\ \A g \in In(w, "range") : v.states["range"][g] = w.states["range"][g]
    <2>1. In(v, "delta") = In(u, "delta") /\ In(v, "range") = In(u, "range")
      BY <1>9 DEF In
    <2>2. /\ In(u, "delta") = In(w, "delta") /\ In(u, "range") = In(w, "range")
          /\ u.states["delta"][f] = st
          /\ \A k \in Kind : \A g \in In(w, k) : <<k, g>> # <<"delta", f>> => u.states[k][g] = w.states[k][g]
      BY <1>2, <1>8 DEF Restated
    <2>3. /\ \A g : g # f => <<"delta", g>> # <<"delta", f>>
          /\ \A g : <<"range", g>> # <<"delta", f>>
      OBVIOUS
    <2> QED
      BY <1>2, <1>9, <2>1, <2>2, <2>3
  <1>11. WorkType(v)
    <2>1. v.queue["delta"] \in Seq(Task)
      BY <1>2, <1>5, <1>7, ConcatTask
    <2>2. \A k \in Kind : /\ In(v, k) \subseteq File /\ v.queue[k] \in Seq(Task)
                          /\ \A g \in In(v, k) : IsState(v.states[k][g])
      <3>1. \A k \in Kind : k = "delta" \/ k = "range"
        BY DEF Kind
      <3>2. \A k \in Kind : In(w, k) \subseteq File /\ \A g \in In(w, k) : IsState(w.states[k][g])
        BY DEF Own, WorkType, IsState
      <3> QED
        BY <1>2, <1>6, <1>7, <1>10, <2>1, <3>1, <3>2
    <2> QED
      BY <1>7, <1>9, <2>2 DEF WorkType, Shape, IsState, Own
  <1>12. Owned(v, cmp)
    BY <1>9, <1>10 DEF Own, Owned, Settled
  <1>13. PlansOnce(v, cmp, tasks, Tail(results))
    BY <1>1, <1>6, <1>9, <1>10 DEF PlansOnce
  <1>14. TempsOwned(v, Tail(results))
    <2>1. Held(v) = Held(w) \cup {<<"delta", f>>}
      <3>1. \A k \in Kind : k = "delta" \/ k = "range"
        BY DEF Kind
      <3>2. \A k \in Kind, g \in File :
              g \in In(v, k) /\ v.states[k][g].temp
                <=> (g \in In(w, k) /\ w.states[k][g].temp) \/ (k = "delta" /\ g = f)
        BY <1>6, <1>10, <3>1
      <3> QED
        BY <1>2, <3>2 DEF Held
    <2> QED
      BY <1>1, <1>9, <2>1 DEF Own, TempsOwned
  <1>15. Moves(w, cmp, v, cmp)
    <2>1. \A k \in Kind : \A g : Begun(w, cmp, k, g) => Begun(v, cmp, k, g)
      BY <1>6, <1>9, <1>10 DEF Begun, Kind
    <2>2. Begun(v, cmp, "delta", f)
      BY <1>1, <1>6, <1>9, <1>10 DEF Begun
    <2>3. ASSUME NEW i \in DOMAIN v.queue["delta"]
          PROVE  \/ Begun(v, cmp, "delta", v.queue["delta"][i].rel)
                 \/ \E j \in DOMAIN w.queue["delta"] : v.queue["delta"][i].rel = w.queue["delta"][j].rel
      <3> DEFINE q == w.queue["delta"]
      <3>1. q \in Seq(Task) /\ ranges \in Seq(Task) /\ i \in DOMAIN (q \o ranges)
        BY <1>2, <1>5, <1>7, <2>3
      <3> HIDE DEF q
      <3>2. \/ i \in DOMAIN q /\ (q \o ranges)[i] = q[i]
            \/ i - Len(q) \in DOMAIN ranges /\ (q \o ranges)[i] = ranges[i - Len(q)]
        BY <3>1
      <3> QED
        BY <1>5, <1>7, <2>2, <3>2 DEF q
    <2>4. Right(w) => Right(v)
      BY <1>6, <1>9, <1>10 DEF Right
    <2>5. \A g \in In(v, "range") : g \in In(w, "range") /\ v.states["range"][g] = w.states["range"][g]
                                    /\ Rebuilt(v, g) = Rebuilt(w, g)
      BY <1>9, <1>10 DEF Rebuilt
    <2> QED
      BY <1>7, <2>1, <2>3, <2>4, <2>5 DEF Moves
  <1> QED
    BY <1>6, <1>10, <1>11, <1>12, <1>13, <1>14, <1>15 DEF Own

-----------------------------------------------------------------------------
(* The blocks of a file in block mode.                                     *)

LEMMA ConcatIs ==
    ASSUME NEW s \in Seq(Task), NEW t \in Seq(Task)
    PROVE  /\ s \o t \in Seq(Task) /\ Len(s) \in Nat /\ DOMAIN s = 1 .. Len(s)
           /\ \A i \in DOMAIN (s \o t) :
                \/ i \in DOMAIN s /\ (s \o t)[i] = s[i]
                \/ i - Len(s) \in DOMAIN t /\ (s \o t)[i] = t[i - Len(s)] /\ i \notin DOMAIN s
           /\ \A i \in DOMAIN s : i \in DOMAIN (s \o t) /\ (s \o t)[i] = s[i]
           /\ \A i \in DOMAIN t : i + Len(s) \in DOMAIN (s \o t) /\ (s \o t)[i + Len(s)] = t[i]
           /\ DOMAIN t \subseteq Nat /\ DOMAIN (s \o t) \subseteq Nat
  OBVIOUS

\* Everything about one file in block mode.
Sums(w, act, f) ==
    /\ w.states["range"][f].pendingRanges = Cardinality(Missing(w, act, f))
    /\ Missing(w, act, f) \subseteq Block(f) /\ Rebuilt(w, f) \subseteq Block(f)
    /\ \/ w.states["range"][f].writeError
       \/ Block(f) = Rebuilt(w, f) \cup Missing(w, act, f)

\* The temporary of a large file is opened: every block is missing.
LEMMA PlansBlocks ==
    ASSUME NEW w, NEW cmp, NEW tasks, NEW results, Own(w, cmp, tasks, results),
           NEW act, NEW reqs, NEW inc, TasksBegun(w, cmp, act, reqs, inc), Blk(w, act, reqs, inc),
           NEW f \in In(w, "range"), ~w.states["range"][f].temp, NEW v, v = PlanBlocks(w, f)
    PROVE  /\ Own(v, cmp, tasks, results)
           /\ TasksBegun(v, cmp, act, reqs, inc) /\ Blk(v, act, reqs, inc)
  <1> DEFINE q == w.queue["range"]
             T == [b \in Block(f) |-> [rel |-> f, block |-> b]]
             q2 == q \o T
             old == w.states["range"][f]
             st == [old EXCEPT !.temp = TRUE, !.pendingRanges = Blocks[f]]
             u == [w EXCEPT !.states["range"][f] = st]
  <1>1. /\ Shape(w) /\ f \in File /\ IsState(old) /\ "range" \in Kind /\ "delta" \in Kind
        /\ q \in Seq(Task) /\ w.queue["delta"] \in Seq(Task) /\ f \in w.changed \ cmp
        /\ f \notin In(w, "delta")
    <2>1. "delta" \in Kind /\ "range" \in Kind
      BY DEF Kind
    <2> QED
      BY <2>1 DEF Own, WorkType, Shape, IsState, Owned
  <1>2. /\ IsFiniteSet(Block(f)) /\ Block(f) \subseteq Nat /\ Blocks[f] \in Nat \ {0}
        /\ Cardinality(Block(f)) = Blocks[f] /\ Block(f) = 1 .. Blocks[f]
    BY <1>1, BlockIs DEF Block
  <1>3. T \in Seq(Task) /\ DOMAIN T = Block(f) /\ \A b \in Block(f) : T[b].rel = f /\ T[b].block = b
    <2>1. DOMAIN T = Block(f) /\ \A b \in Block(f) : T[b].rel = f /\ T[b].block = b
      OBVIOUS
    <2>2. T \in [Block(f) -> Task]
      BY <1>1, <1>2 DEF Task
    <2>3. T \in [1 .. Blocks[f] -> Task] /\ Blocks[f] \in Nat
      BY <1>2, <2>2
    <2> HIDE DEF T
    <2>4. T \in Seq(Task)
      BY <2>3
    <2> QED
      BY <2>1, <2>4
  <1>4. IsState(st) /\ st.temp /\ st.pendingRanges = Blocks[f] /\ (old.sigReceived => st.sigReceived)
    BY <1>1, <1>2 DEF IsState, StateFields
  <1>5. /\ DOMAIN v = Fields /\ v.states = u.states /\ v.abandoned = w.abandoned
        /\ v.queue = [w.queue EXCEPT !["range"] = q2] /\ DOMAIN u.states = Kind
        /\ v.temps = With(w.temps, <<"range", f>>, {})
        /\ v.pending = w.pending /\ v.changed = w.changed /\ v.scheduled = w.scheduled
        /\ v.committed = w.committed /\ v.sigRequested = w.sigRequested
    <2>1. v = [w EXCEPT !.states["range"][f] = st, !.temps = With(@, <<"range", f>>, {}),
                        !.queue["range"] = q2]
      BY <1>1 DEF PlanBlocks, Shape
    <2> HIDE DEF st, q2
    <2> QED
      BY <1>1, <2>1 DEF Shape, Fields
  <1> HIDE DEF st
  <1>6. Restated(w, u, "range", f, st)
    BY <1>1, Restates
  <1> HIDE DEF u, T
  <1>7. /\ q2 \in Seq(Task)
        /\ \A i \in DOMAIN q2 : \/ i \in DOMAIN q /\ q2[i] = q[i]
                                \/ /\ i - Len(q) \in Block(f) /\ q2[i].rel = f
                                   /\ q2[i].block = i - Len(q)
        /\ \A i \in DOMAIN q : i \in DOMAIN q2 /\ q2[i] = q[i]
        /\ \A b \in Block(f) : b + Len(q) \in DOMAIN q2 /\ q2[b + Len(q)].rel = f
                               /\ q2[b + Len(q)].block = b
        /\ Len(q) \in Nat /\ DOMAIN q2 \subseteq Nat
    <2> HIDE DEF q
    <2>1. q \in Seq(Task)
      BY <1>1 DEF q
    <2> QED
      BY <1>2, <1>3, <2>1, ConcatIs
  <1> HIDE DEF q2, q
  <1>8. /\ In(v, "delta") = In(w, "delta") /\ In(v, "range") = In(w, "range")
        /\ v.states["range"][f] = st
        /\ \A g \in In(w, "range") : g # f => v.states["range"][g] = w.states["range"][g]
        /\ \A g \in In(w, "delta") : v.states["delta"][g] = w.states["delta"][g]
    <2>1. In(v, "delta") = In(u, "delta") /\ In(v, "range") = In(u, "range")
      BY <1>5 DEF In
    <2>2. /\ In(u, "delta") = In(w, "delta") /\ In(u, "range") = In(w, "range")
          /\ u.states["range"][f] = st
          /\ \A k \in Kind : \A g \in In(w, k) : <<k, g>> # <<"range", f>> => u.states[k][g] = w.states[k][g]
      BY <1>1, <1>6 DEF Restated
    <2>3. /\ \A g : g # f => <<"range", g>> # <<"range", f>>
          /\ \A g : <<"delta", g>> # <<"range", f>>
      OBVIOUS
    <2> QED
      BY <1>1, <1>5, <2>1, <2>2, <2>3
  <1>9. /\ v.queue["range"] = q2 /\ v.queue["delta"] = w.queue["delta"] /\ DOMAIN v.queue = Kind
    BY <1>1, <1>5 DEF Shape
  <1>10. /\ DOMAIN v.temps = DOMAIN w.temps \cup {<<"range", f>>} /\ v.temps[<<"range", f>>] = {}
         /\ \A t \in DOMAIN w.temps : t # <<"range", f>> => v.temps[t] = w.temps[t]
    BY <1>5 DEF With
  <1>11. WorkType(v)
    <2>1. \A k \in Kind : k = "delta" \/ k = "range"
      BY DEF Kind
    <2>2. \A k \in Kind : In(w, k) \subseteq File /\ \A g \in In(w, k) : IsState(w.states[k][g])
      BY DEF Own, WorkType, IsState
    <2>3. \A k \in Kind : /\ In(v, k) \subseteq File /\ v.queue[k] \in Seq(Task)
                          /\ \A g \in In(v, k) : IsState(v.states[k][g])
      BY <1>1, <1>4, <1>7, <1>8, <1>9, <2>1, <2>2
    <2>4. w.pending \in Seq(File) /\ w.changed \subseteq File /\ DOMAIN w.abandoned = Kind
      BY DEF Own, WorkType
    <2> QED
      BY <1>5, <1>9, <2>3, <2>4 DEF WorkType, IsState
  <1>12. Owned(v, cmp)
    BY <1>5, <1>8 DEF Own, Owned, Settled
  <1>13. PlansOnce(v, cmp, tasks, results)
    BY <1>5, <1>8 DEF Own, PlansOnce
  <1>14. TempsOwned(v, results)
    <2>1. Held(v) = Held(w) \cup {<<"range", f>>}
      <3>1. \A k \in Kind : k = "delta" \/ k = "range"
        BY DEF Kind
      <3>2. \A k \in Kind, g \in File :
              g \in In(v, k) /\ v.states[k][g].temp
                <=> (g \in In(w, k) /\ w.states[k][g].temp) \/ (k = "range" /\ g = f)
        BY <1>4, <1>8, <3>1
      <3> QED
        BY <1>1, <3>2 DEF Held
    <2> QED
      BY <1>10, <2>1 DEF Own, TempsOwned
  <1>15. Own(v, cmp, tasks, results)
    BY <1>11, <1>12, <1>13, <1>14 DEF Own
  <1>16. \A k \in Kind : \A g : Begun(w, cmp, k, g) => Begun(v, cmp, k, g)
    BY <1>4, <1>5, <1>8 DEF Begun, Kind
  <1>17. Begun(v, cmp, "range", f)
    BY <1>1, <1>4, <1>5, <1>8 DEF Begun
  <1>18. /\ \A i \in DOMAIN q : q[i].rel # f
         /\ \A a \in DOMAIN act : act[a].kind = "range" => act[a].rel # f
    BY <1>1 DEF TasksBegun, Begun, q
  <1>19. TasksBegun(v, cmp, act, reqs, inc)
    <2>1. \A i \in DOMAIN q2 : Begun(v, cmp, "range", q2[i].rel)
      BY <1>1, <1>7, <1>16, <1>17 DEF TasksBegun, q
    <2>2. \A i \in DOMAIN w.queue["delta"] : Begun(v, cmp, "delta", w.queue["delta"][i].rel)
      BY <1>1, <1>16 DEF TasksBegun
    <2>3. \A k \in Kind : \A i \in DOMAIN v.queue[k] : Begun(v, cmp, k, v.queue[k][i].rel)
      BY <1>9, <2>1, <2>2 DEF Kind
    <2> QED
      BY <1>1, <1>16, <2>3 DEF TasksBegun
  <1>20. BlocksOnce(q2, act)
    <2>1. BlocksOnce(q, act)
      BY DEF Blk, q
    <2>2. \A i, j \in DOMAIN q2 : q2[i].rel = q2[j].rel /\ q2[i].block = q2[j].block => i = j
      <3>1. \A i, j \in DOMAIN q2 : i - Len(q) = j - Len(q) => i = j
        BY <1>7
      <3>2. \A i, j \in DOMAIN q : q[i].rel = q[j].rel /\ q[i].block = q[j].block => i = j
        BY <2>1 DEF BlocksOnce
      <3>3. ASSUME NEW i \in DOMAIN q2, NEW j \in DOMAIN q2, q2[i].rel = q2[j].rel,
                   q2[i].block = q2[j].block
            PROVE  i = j
        <4>1. CASE i \in DOMAIN q /\ q2[i] = q[i]
          <5>1. q2[i].rel # f
            BY <1>18, <4>1
          <5>2. j \in DOMAIN q /\ q2[j] = q[j]
            BY <1>7, <3>3, <5>1
          <5> QED
            BY <3>2, <3>3, <4>1, <5>2
        <4>2. CASE q2[i].rel = f /\ q2[i].block = i - Len(q)
          <5>1. q2[j].rel = f /\ q2[j].block = j - Len(q)
            <6>1. \/ j \in DOMAIN q /\ q2[j] = q[j]
                  \/ q2[j].rel = f /\ q2[j].block = j - Len(q)
              BY <1>7
            <6>2. j \in DOMAIN q /\ q2[j] = q[j] => q2[j].rel # f
              BY <1>18
            <6> QED
              BY <3>3, <4>2, <6>1, <6>2
          <5> QED
            BY <3>1, <3>3, <4>2, <5>1
        <4> QED
          BY <1>7, <4>1, <4>2
      <3> QED
        BY <3>3
    <2>3. \A a \in DOMAIN act : act[a].kind = "range" => \A i \in DOMAIN q2 :
             ~(q2[i].rel = act[a].rel /\ q2[i].block = act[a].block)
      BY <1>7, <1>18, <2>1 DEF BlocksOnce
    <2> QED
      BY <2>1, <2>2, <2>3 DEF BlocksOnce
  <1>21. BlocksKept(v, act)
    <2>1. Missing(v, act, f) = Block(f)
      <3>1. Fetched(act, f) = {}
        BY <1>18 DEF Fetched
      <3>2. Asked(q2, f) = Block(f)
        <4>1. \A b \in Asked(q2, f) : b \in Block(f)
          BY <1>7, <1>18 DEF Asked
        <4>2. \A b \in Block(f) : b \in Asked(q2, f)
          BY <1>7 DEF Asked
        <4> QED
          BY <4>1, <4>2
      <3> QED
        BY <1>9, <3>1, <3>2 DEF Missing
    <2>2. \A g : g # f => Missing(v, act, g) = Missing(w, act, g)
      <3>1. \A g : g # f => Asked(q2, g) = Asked(q, g)
        BY <1>7 DEF Asked
      <3> QED
        BY <1>9, <3>1 DEF Missing, q
    <2>3. \A g \in In(w, "range") : w.states["range"][g].temp => <<"range", g>> \in DOMAIN w.temps
      BY DEF Own, TempsOwned, Held, WorkType, Kind
    <2>4. \A g \in In(w, "range") : w.states["range"][g].temp => Rebuilt(v, g) = Rebuilt(w, g)
      BY <1>10, <2>3 DEF Rebuilt
    <2>5. Rebuilt(v, f) = {}
      BY <1>10 DEF Rebuilt
    <2> QED
      BY <1>2, <1>4, <1>8, <2>1, <2>2, <2>4, <2>5 DEF Blk, BlocksKept
  <1>22. DataFirst(v, act, reqs, inc)
    <2>1. \A a \in DOMAIN act : act[a].kind = "range" /\ act[a].rel \in In(w, "range") =>
             act[a].rel # f /\ w.states["range"][act[a].rel].temp
      BY <1>1, <1>18 DEF TasksBegun, Begun
    <2>2. \A g \in In(w, "range") : w.states["range"][g].temp => <<"range", g>> \in DOMAIN w.temps
      BY DEF Own, TempsOwned, Held, WorkType, Kind
    <2>3. \A a \in DOMAIN act : act[a].kind = "range" /\ act[a].rel \in In(w, "range")
             /\ BytesHere(w, act[a]) => BytesHere(v, act[a])
      BY <1>8, <1>10, <2>1, <2>2 DEF BytesHere, Rebuilt
    <2> QED
      BY <1>8, <2>3 DEF Blk, DataFirst
  <1>23. Right(v)
    BY <1>5, <1>8 DEF Blk, Right
  <1> QED
    BY <1>9, <1>15, <1>19, <1>20, <1>21, <1>22, <1>23 DEF Blk

\* The server sends a frame.
LEMMA FileServes ==
    ASSUME NetInv, NEW m, NEW r, Serves(m, r), NEW w, NEW cmp,
           TasksBegun(w, cmp, active, Opens, incoming), Blk(w, active, Opens, incoming)
    PROVE  TasksBegun(w, cmp, active, Opens', incoming') /\ Blk(w, active, Opens', incoming')
  <1> DEFINE n == Len(incoming)
             again == [r EXCEPT !.sent = TRUE]
  <1>1. /\ n \in Nat /\ DOMAIN incoming = 1 .. n /\ DOMAIN incoming' = 1 .. (n + 1)
        /\ \A i \in 1 .. n : i \in 1 .. (n + 1) /\ i < n + 1 /\ incoming'[i] = incoming[i]
        /\ \A i \in 1 .. (n + 1) : i \in 1 .. n \/ i = n + 1
        /\ incoming'[n + 1] = m
    BY DEF Serves, NetInv, NetType
  <1>2. Key(m) = Key(r) /\ m.rel = r.rel
    BY DEF Serves, Key
  <1>3. r \in Opens => /\ again.type = "Open" /\ again.kind = r.kind /\ again.rel = r.rel
                       /\ Key(again) = Key(r)
    BY OpensAre DEF OpenRequest, Key, NetInv
  <1>4. r \notin Opens => Opens' \subseteq Opens /\ m.type \in {"BlockSigResponse", "DeltaError"}
    BY DEF Serves, Opens, NetInv, NetType, OpenRequest, SigRequest
  <1>5. r \in Opens => /\ Opens' \subseteq (Opens \ {r}) \cup {again}
                       /\ m.type # "Data" => Opens' \subseteq Opens \ {r}
                       /\ m.type = "End" => r.sent
                       /\ m.type = "FileRangeError" => r.kind = "range"
    BY <1>3 DEF Serves, Opens
  <1> HIDE DEF n, again
  <1>6. \A q \in Opens' : \/ q \in Opens
                          \/ q = again /\ r \in Opens /\ Key(q) = Key(r) /\ m.type = "Data"
                             /\ q.kind = r.kind /\ q.rel = r.rel
    BY <1>3, <1>4, <1>5
  <1>7. TasksBegun(w, cmp, active, Opens', incoming')
    <2>1. \A q \in Opens' : q.kind = "range" => Begun(w, cmp, "range", q.rel)
      BY <1>6 DEF TasksBegun
    <2>2. m.type = "FileRangeError" => Begun(w, cmp, "range", m.rel)
      BY <1>2, <1>4, <1>5 DEF TasksBegun
    <2>3. \A i \in 1 .. n : incoming[i].type = "FileRangeError" => Begun(w, cmp, "range", incoming[i].rel)
      BY <1>1 DEF TasksBegun
    <2>4. \A i \in DOMAIN incoming' : incoming'[i].type = "FileRangeError" =>
             Begun(w, cmp, "range", incoming'[i].rel)
      BY <1>1, <2>2, <2>3
    <2> QED
      BY <2>1, <2>4 DEF TasksBegun
  <1>8. ASSUME NEW a, BytesCome(a, Opens, incoming)
        PROVE  BytesCome(a, Opens', incoming')
    <2>1. \A q \in Opens : Key(q) = a /\ q.sent =>
             \E i \in 1 .. n : Key(incoming[i]) = a /\ incoming[i].type = "Data"
      BY <1>1, <1>8 DEF BytesCome
    <2>2. \A q \in Opens' : Key(q) = a /\ q.sent =>
             \E i \in 1 .. (n + 1) : Key(incoming'[i]) = a /\ incoming'[i].type = "Data"
      <3>1. n + 1 \in 1 .. (n + 1)
        BY <1>1
      <3> QED
        BY <1>1, <1>2, <1>6, <2>1, <3>1
    <2>3. ASSUME NEW j \in 1 .. (n + 1), Key(incoming'[j]) = a, incoming'[j].type = "End"
          PROVE  \E i \in 1 .. (n + 1) : i < j /\ Key(incoming'[i]) = a /\ incoming'[i].type = "Data"
      <3>1. CASE j = n + 1
        <4>1. r \in Opens /\ r.sent /\ Key(r) = a
          BY <1>1, <1>2, <1>4, <1>5, <2>3, <3>1
        <4>2. PICK i \in 1 .. n : Key(incoming[i]) = a /\ incoming[i].type = "Data"
          BY <2>1, <4>1
        <4> QED
          BY <1>1, <3>1, <4>2
      <3>2. CASE j \in 1 .. n
        <4>1. PICK i \in 1 .. n : i < j /\ Key(incoming[i]) = a /\ incoming[i].type = "Data"
          BY <1>1, <1>8, <2>3, <3>2 DEF BytesCome
        <4> QED
          BY <1>1, <4>1
      <3> QED
        BY <1>1, <3>1, <3>2
    <2> QED
      BY <1>1, <2>2, <2>3 DEF BytesCome
  <1>9. DataFirst(w, active, Opens', incoming')
    BY <1>8 DEF Blk, DataFirst
  <1> QED
    BY <1>7, <1>9 DEF Blk

\* Requests disappear, others than for blocks are made.
LEMMA FileShrinks ==
    ASSUME NEW w, NEW cmp, NEW act, NEW reqs, NEW less, less \subseteq reqs, NEW inc,
           TasksBegun(w, cmp, act, reqs, inc), Blk(w, act, reqs, inc)
    PROVE  TasksBegun(w, cmp, act, less, inc) /\ Blk(w, act, less, inc)
  <1>1. TasksBegun(w, cmp, act, less, inc)
    BY DEF TasksBegun
  <1>2. \A a : BytesCome(a, reqs, inc) => BytesCome(a, less, inc)
    BY DEF BytesCome
  <1> QED
    BY <1>1, <1>2 DEF Blk, DataFirst

\* The loop takes the first frame, and with a terminal one closes its stream; the bytes of a
\* block in the frame are in the temporary by then.
LEMMA FileTakes ==
    ASSUME NetInv, NEW gone, Takes(gone), NEW w, NEW cmp,
           TasksBegun(w, cmp, active, Opens, incoming),
           BlocksOnce(w.queue["range"], active), DataFirst(w, active, Opens, incoming),
           \A a \in DOMAIN active :
              /\ a = FrameKey /\ Frame.type = "Data" /\ active[a].kind = "range"
              /\ active[a].rel \in In(w, "range")
              => BytesHere(w, active[a])
    PROVE  /\ TasksBegun(w, cmp, active', Opens', incoming')
           /\ BlocksOnce(w.queue["range"], active') /\ DataFirst(w, active', Opens', incoming')
  <1> DEFINE n == Len(incoming)
  <1>1. /\ DOMAIN active' = DOMAIN active \ gone
        /\ \A k \in DOMAIN active' : k \in DOMAIN active /\ active'[k] = active[k]
    BY DEF Takes, Without, Restrict
  <1>2. /\ n \in Nat \ {0} /\ DOMAIN incoming = 1 .. n /\ DOMAIN incoming' = 1 .. (n - 1)
        /\ \A i \in 1 .. (n - 1) : i + 1 \in 1 .. n /\ incoming'[i] = incoming[i + 1]
        /\ FrameKey = Key(incoming[1]) /\ Frame = incoming[1]
    BY TailIs DEF Takes, NetInv
  <1>3. Opens' = Opens
    BY DEF Takes, Opens
  <1> HIDE DEF n
  <1>4. TasksBegun(w, cmp, active', Opens', incoming')
    <2>1. \A i \in DOMAIN incoming' : incoming'[i].type = "FileRangeError" =>
             Begun(w, cmp, "range", incoming'[i].rel)
      BY <1>2 DEF TasksBegun
    <2>2. \A a \in DOMAIN active' : active'[a].kind \in Kind =>
             Begun(w, cmp, active'[a].kind, active'[a].rel) /\ active'[a].block \in Nat
      BY <1>1 DEF TasksBegun
    <2> QED
      BY <1>3, <2>1, <2>2 DEF TasksBegun
  <1>5. BlocksOnce(w.queue["range"], active')
    BY <1>1 DEF BlocksOnce
  <1>6. ASSUME NEW a, BytesCome(a, Opens, incoming), ~(Key(incoming[1]) = a /\ incoming[1].type = "Data")
        PROVE  BytesCome(a, Opens, incoming')
    <2>1. \A i \in 1 .. n : Key(incoming[i]) = a /\ incoming[i].type = "Data" =>
             i - 1 \in 1 .. (n - 1) /\ incoming'[i - 1] = incoming[i]
      <3>1. \A i \in 1 .. n : i # 1 => i - 1 \in 1 .. (n - 1) /\ (i - 1) + 1 = i
        BY <1>2
      <3>2. \A i \in 1 .. n : i # 1 => i - 1 \in 1 .. (n - 1) /\ incoming'[i - 1] = incoming[i]
        BY <1>2, <3>1
      <3> QED
        BY <1>6, <3>2
    <2>2. \A q \in Opens : Key(q) = a /\ q.sent =>
             \E i \in 1 .. (n - 1) : Key(incoming'[i]) = a /\ incoming'[i].type = "Data"
      <3>1. \A q \in Opens : Key(q) = a /\ q.sent =>
               \E i \in 1 .. n : Key(incoming[i]) = a /\ incoming[i].type = "Data"
        BY <1>2, <1>6 DEF BytesCome
      <3> QED
        BY <2>1, <3>1
    <2>3. ASSUME NEW j \in 1 .. (n - 1), Key(incoming'[j]) = a, incoming'[j].type = "End"
          PROVE  \E i \in 1 .. (n - 1) : i < j /\ Key(incoming'[i]) = a /\ incoming'[i].type = "Data"
      <3>1. PICK i \in 1 .. n : i < j + 1 /\ Key(incoming[i]) = a /\ incoming[i].type = "Data"
        BY <1>2, <1>6, <2>3 DEF BytesCome
      <3>2. i - 1 \in 1 .. (n - 1) /\ incoming'[i - 1] = incoming[i] /\ i - 1 < j
        BY <1>2, <2>1, <3>1
      <3> QED
        BY <3>1, <3>2
    <2> QED
      BY <1>2, <2>2, <2>3 DEF BytesCome
  <1>7. DataFirst(w, active', Opens', incoming')
    BY <1>1, <1>2, <1>3, <1>6 DEF DataFirst
  <1> QED
    BY <1>4, <1>5, <1>7

\* A stream that fetches no block of a file in block mode is closed.
LEMMA KeptWithout ==
    ASSUME NEW w, NEW act, NEW act2, BlocksKept(w, act), DOMAIN act2 \subseteq DOMAIN act,
           \A k \in DOMAIN act2 : act2[k] = act[k],
           \A k \in DOMAIN act : k \in DOMAIN act2 \/ act[k].kind # "range" \/ act[k].rel \notin In(w, "range")
    PROVE  BlocksKept(w, act2)
  <1>1. \A f \in In(w, "range") : Fetched(act2, f) = Fetched(act, f)
    BY DEF Fetched
  <1> QED
    BY <1>1 DEF BlocksKept, Missing

\* The bytes of a block are written.
LEMMA WritesBlock ==
    ASSUME NEW w, NEW cmp, NEW tasks, NEW results, Own(w, cmp, tasks, results),
           NEW act, NEW reqs, NEW inc, TasksBegun(w, cmp, act, reqs, inc), Blk(w, act, reqs, inc),
           NEW a \in DOMAIN act, act[a].kind \in Kind, act[a].rel \in In(w, act[a].kind),
           NEW v, v = WriteBlock(w, act[a])
    PROVE  /\ Own(v, cmp, tasks, results)
           /\ TasksBegun(v, cmp, act, reqs, inc) /\ Blk(v, act, reqs, inc)
           /\ act[a].kind = "range" => BytesHere(v, act[a])
  <1> DEFINE s == act[a]
             t == <<s.kind, s.rel>>
  <1>1. DOMAIN w = Fields /\ t \in DOMAIN w.temps /\ "range" \in Kind /\ "delta" \in Kind
    <2>1. w.states[s.kind][s.rel].temp
      BY DEF TasksBegun, Begun
    <2>2. t \in Held(w)
      BY <2>1 DEF Own, WorkType, Held
    <2> QED
      BY <2>2 DEF Own, WorkType, TempsOwned, Kind
  <1> HIDE DEF t, s
  <1>2. /\ DOMAIN v = Fields /\ Rest(w, v, {"temps"})
        /\ v.temps = [w.temps EXCEPT ![t] = @ \cup {s.block}]
    BY <1>1 DEF WriteBlock, Rest, Fields, t, s
  <1>3. /\ v.states = w.states /\ v.abandoned = w.abandoned /\ v.queue = w.queue
        /\ v.pending = w.pending /\ v.changed = w.changed /\ v.scheduled = w.scheduled
        /\ v.committed = w.committed /\ v.sigRequested = w.sigRequested
    BY <1>2 DEF Rest, Fields
  <1>4. /\ DOMAIN v.temps = DOMAIN w.temps /\ v.temps[t] = w.temps[t] \cup {s.block}
        /\ \A x \in DOMAIN w.temps : x # t => v.temps[x] = w.temps[x]
    BY <1>1, <1>2
  <1>5. Own(v, cmp, tasks, results)
    <2>1. WorkType(v) /\ Owned(v, cmp) /\ Held(v) = Held(w)
      BY <1>2, <1>3 DEF Own, WorkType, Owned, In, Settled, Held
    <2>2. PlansOnce(v, cmp, tasks, results)
      BY <1>3 DEF Own, PlansOnce, In
    <2> QED
      BY <1>4, <2>1, <2>2 DEF Own, TempsOwned
  <1>6. \A k, f : Begun(v, cmp, k, f) <=> Begun(w, cmp, k, f)
    BY <1>3 DEF Begun, In
  <1>7. TasksBegun(v, cmp, act, reqs, inc)
    BY <1>3, <1>6 DEF TasksBegun
  <1>8. \A f \in In(w, "range") : w.states["range"][f].temp =>
           /\ <<"range", f>> \in DOMAIN w.temps
           /\ Rebuilt(v, f) = IF <<"range", f>> = t THEN Rebuilt(w, f) \cup {s.block} ELSE Rebuilt(w, f)
    <2>1. \A f \in In(w, "range") : w.states["range"][f].temp => <<"range", f>> \in DOMAIN w.temps
      BY DEF Own, TempsOwned, Held, WorkType, Kind
    <2> QED
      BY <1>4, <2>1 DEF Rebuilt
  <1>9. /\ In(v, "range") = In(w, "range") /\ In(v, "delta") = In(w, "delta")
        /\ \A f : Missing(v, act, f) = Missing(w, act, f)
    BY <1>3 DEF In, Missing
  <1>10. \A f : <<"range", f>> = t => f = s.rel /\ s.kind = "range"
    BY DEF t
  <1>11. s.kind = "range" => s.block \in Missing(w, act, s.rel)
    BY DEF Missing, Fetched, s
  <1>12. BlocksKept(v, act)
    <2>1. ASSUME NEW f \in In(w, "range"), w.states["range"][f].temp
          PROVE  Sums(v, act, f)
      <3>1. Sums(w, act, f)
        BY <2>1 DEF Blk, BlocksKept, Sums
      <3>2. \/ Rebuilt(v, f) = Rebuilt(w, f)
            \/ Rebuilt(v, f) = Rebuilt(w, f) \cup {s.block} /\ s.block \in Missing(w, act, f)
        BY <1>8, <1>10, <1>11, <2>1
      <3> QED
        BY <1>3, <1>9, <3>1, <3>2 DEF Sums
    <2> QED
      BY <1>3, <1>9, <2>1 DEF BlocksKept, Sums
  <1>13. \A f \in In(w, "range") : w.states["range"][f].temp => Rebuilt(w, f) \subseteq Rebuilt(v, f)
    BY <1>8
  <1>14. DataFirst(v, act, reqs, inc)
    <2>1. \A c \in DOMAIN act : act[c].kind = "range" /\ act[c].rel \in In(w, "range") =>
             w.states["range"][act[c].rel].temp
      BY <1>1 DEF TasksBegun, Begun
    <2>2. \A c \in DOMAIN act : act[c].kind = "range" /\ act[c].rel \in In(w, "range")
             /\ BytesHere(w, act[c]) => BytesHere(v, act[c])
      BY <1>3, <1>13, <2>1 DEF BytesHere
    <2> QED
      BY <1>9, <2>2 DEF Blk, DataFirst
  <1>15. Right(v)
    BY <1>3 DEF Blk, Right, In
  <1>16. s.kind = "range" => BytesHere(v, s)
    BY <1>4 DEF BytesHere, Rebuilt, t
  <1> QED
    BY <1>3, <1>5, <1>7, <1>12, <1>14, <1>15, <1>16 DEF Blk, s

\* The write fails.
LEMMA FailsBlock ==
    ASSUME NEW w, NEW cmp, NEW tasks, NEW results, Own(w, cmp, tasks, results),
           NEW act, NEW reqs, NEW inc, TasksBegun(w, cmp, act, reqs, inc), Blk(w, act, reqs, inc),
           NEW kind \in Kind, NEW f \in In(w, kind),
           NEW v, v = [w EXCEPT !.states[kind][f].writeError = TRUE]
    PROVE  /\ Own(v, cmp, tasks, results)
           /\ TasksBegun(v, cmp, act, reqs, inc) /\ Blk(v, act, reqs, inc)
           /\ kind = "range" => \A s : s.rel = f => BytesHere(v, s)
  <1> DEFINE old == w.states[kind][f]
             st == [old EXCEPT !.writeError = TRUE]
  <1>1. Shape(w) /\ IsState(old)
    BY DEF Own, WorkType, Shape, IsState
  <1>2. /\ IsState(st) /\ st.temp = old.temp /\ (old.sigReceived => st.sigReceived)
        /\ (old.verify => st.verify) /\ st.writeError /\ st.pendingRanges = old.pendingRanges
    BY <1>1 DEF IsState, StateFields
  <1>3. v = [w EXCEPT !.states[kind][f] = st]
    BY <1>1 DEF Shape
  <1> HIDE DEF st
  <1>4. Restated(w, v, kind, f, st)
    BY <1>1, <1>3, Restates
  <1>5. /\ Own(v, cmp, tasks, results) /\ Shape(v) /\ v.queue = w.queue /\ v.temps = w.temps
        /\ BegunKept(w, v, cmp)
        /\ kind = "delta" => Moves(w, cmp, v, cmp)
        /\ kind = "range" /\ Right(w) => Right(v)
    BY <1>2, <1>4, RestatesOwner
  <1>6. CASE kind = "delta"
    BY <1>5, <1>6, MovesKeeps
  <1>7. CASE kind = "range"
    <2>1. TasksBegun(v, cmp, act, reqs, inc)
      <3>1. "range" \in Kind
        BY DEF Kind
      <3> QED
        BY <1>5, <3>1 DEF TasksBegun, BegunKept
    <2>2. /\ In(v, "range") = In(w, "range") /\ v.states["range"][f] = st
          /\ \A g \in In(w, "range") : g # f => v.states["range"][g] = w.states["range"][g]
      BY <1>4, <1>7 DEF Restated
    <2>3. \A g : Missing(v, act, g) = Missing(w, act, g) /\ Rebuilt(v, g) = Rebuilt(w, g)
      BY <1>5 DEF Missing, Rebuilt
    <2>4. BlocksKept(v, act)
      <3>1. ASSUME NEW g \in In(w, "range"), w.states["range"][g].temp
            PROVE  Sums(v, act, g)
        <4>1. Sums(w, act, g)
          BY <3>1 DEF Blk, BlocksKept, Sums
        <4> QED
          BY <1>2, <1>7, <2>2, <2>3, <4>1 DEF Sums
      <3>2. \A g \in In(w, "range") : v.states["range"][g].temp = w.states["range"][g].temp
        BY <1>2, <1>7, <2>2
      <3> QED
        BY <2>2, <3>1, <3>2 DEF BlocksKept, Sums
    <2>5. DataFirst(v, act, reqs, inc)
      <3>1. \A s : s.rel \in In(w, "range") /\ BytesHere(w, s) => BytesHere(v, s)
        BY <1>2, <2>2, <2>3 DEF BytesHere
      <3> QED
        BY <2>2, <3>1 DEF Blk, DataFirst
    <2>6. \A s : s.rel = f => BytesHere(v, s)
      BY <1>2, <2>2 DEF BytesHere
    <2> QED
      BY <1>5, <1>7, <2>1, <2>4, <2>5, <2>6 DEF Blk
  <1> QED
    BY <1>5, <1>6, <1>7 DEF Kind

\* A block has ended: it counts, and the last one leaves a whole file.
Ended(w, cmp, act, reqs, inc, a, v) ==
    LET s == act[a]
    IN  /\ Shape(v) /\ s.rel \in In(v, s.kind) /\ v.states[s.kind][s.rel].temp
        /\ TasksBegun(v, cmp, act, reqs, inc) /\ BlocksOnce(v.queue["range"], act)
        /\ DataFirst(v, act, reqs, inc) /\ Right(v) /\ BlocksKept(v, Without(act, {a}))
        /\ v.states[s.kind][s.rel].pendingRanges = 0 /\ Sound(v, s.kind, s.rel)
             => v.temps[<<s.kind, s.rel>>] = Block(s.rel)

Counted(w, kind, f) == [w EXCEPT !.states[kind][f].pendingRanges = AtLeastZero(@ - 1)]

LEMMA EndsBlock ==
    ASSUME NEW w, NEW cmp, NEW tasks, NEW results, Own(w, cmp, tasks, results),
           NEW act, NEW reqs, NEW inc, TasksBegun(w, cmp, act, reqs, inc), Blk(w, act, reqs, inc),
           NEW a \in DOMAIN act, act[a].kind \in Kind, act[a].rel \in In(w, act[a].kind),
           act[a].kind = "range" => BytesHere(w, act[a]),
           NEW v, v = Counted(w, act[a].kind, act[a].rel)
    PROVE  Own(v, cmp, tasks, results) /\ Ended(w, cmp, act, reqs, inc, a, v)
  <1> DEFINE s == act[a]
             kind == s.kind
             f == s.rel
             old == w.states[kind][f]
             p == AtLeastZero(old.pendingRanges - 1)
             st == [old EXCEPT !.pendingRanges = p]
             act2 == Without(act, {a})
  <1>1. Shape(w) /\ IsState(old) /\ old.temp /\ "range" \in Kind /\ f \in File
    <2>1. old.temp
      BY DEF TasksBegun, Begun
    <2> QED
      BY <2>1 DEF Own, WorkType, Shape, IsState, Kind
  <1>2. /\ IsState(st) /\ st.temp = old.temp /\ (old.sigReceived => st.sigReceived)
        /\ st.verify = old.verify /\ st.writeError = old.writeError
        /\ st.pendingRanges = AtLeastZero(old.pendingRanges - 1)
    <2>1. p \in Nat
      <3> DEFINE n == old.pendingRanges
      <3>1. n \in Nat
        BY <1>1 DEF IsState
      <3> HIDE DEF n
      <3>2. AtLeastZero(n - 1) \in Nat
        BY <3>1 DEF AtLeastZero
      <3> QED
        BY <3>2 DEF n
    <2>2. st = [old EXCEPT !.pendingRanges = p]
      OBVIOUS
    <2> HIDE DEF p, st
    <2>3. /\ IsState(st) /\ st.temp = old.temp /\ (old.sigReceived => st.sigReceived)
          /\ st.verify = old.verify /\ st.writeError = old.writeError /\ st.pendingRanges = p
      BY <1>1, <2>1, <2>2 DEF IsState, StateFields
    <2> QED
      BY <2>3 DEF p
  <1>3. v = [w EXCEPT !.states[kind][f] = st]
    BY <1>1 DEF Shape, Counted
  <1> HIDE DEF st, p
  <1>4. Restated(w, v, kind, f, st)
    BY <1>1, <1>3, Restates
  <1>5. /\ Own(v, cmp, tasks, results) /\ Shape(v) /\ v.queue = w.queue /\ v.temps = w.temps
        /\ BegunKept(w, v, cmp)
        /\ kind = "delta" => Moves(w, cmp, v, cmp)
        /\ kind = "range" /\ Right(w) => Right(v)
    <2>1. /\ Own(v, cmp, tasks, results) /\ Shape(v) /\ v.queue = w.queue /\ v.temps = w.temps
          /\ BegunKept(w, v, cmp)
          /\ kind = "delta" /\ (old.verify => st.verify) => Moves(w, cmp, v, cmp)
          /\ kind = "range" /\ Right(w) => Right(v)
      <3>1. kind \in Kind /\ f \in In(w, kind) /\ IsState(st) /\ st.temp = w.states[kind][f].temp
            /\ (w.states[kind][f].sigReceived => st.sigReceived)
        BY <1>2
      <3> HIDE DEF kind, f
      <3> QED
        BY <1>4, <3>1, RestatesOwner
    <2> QED
      BY <1>2, <2>1
  <1>6. v.states[kind][f] = st /\ f \in In(v, kind)
    BY <1>4 DEF Restated
  <1>7. /\ DOMAIN act2 = DOMAIN act \ {a} /\ \A c \in DOMAIN act2 : act2[c] = act[c]
    BY DEF Without, Restrict
  <1> HIDE DEF act2
  <1>8. CASE kind = "delta"
    <2>1. TasksBegun(v, cmp, act, reqs, inc) /\ Blk(v, act, reqs, inc)
      BY <1>5, <1>8, MovesKeeps
    <2>2. BlocksKept(v, act2)
      BY <1>7, <1>8, <2>1, KeptWithout DEF Blk
    <2>3. Sound(v, kind, f) => v.temps[<<kind, f>>] = Block(f)
      BY <1>6, <1>8, <2>1 DEF Sound, Blk, Right
    <2> QED
      BY <1>1, <1>2, <1>5, <1>6, <2>1, <2>2, <2>3 DEF Ended, Blk, act2
  <1>9. CASE kind = "range"
    <2>1. TasksBegun(v, cmp, act, reqs, inc)
      BY <1>1, <1>5 DEF TasksBegun, BegunKept
    <2>2. /\ In(v, "range") = In(w, "range") /\ v.states["range"][f] = st
          /\ \A g \in In(w, "range") : g # f => v.states["range"][g] = w.states["range"][g]
      BY <1>1, <1>4, <1>9 DEF Restated
    <2>3. DataFirst(v, act, reqs, inc)
      <3>1. \A x : x.rel \in In(w, "range") /\ BytesHere(w, x) => BytesHere(v, x)
        BY <1>2, <1>5, <1>9, <2>2 DEF BytesHere, Rebuilt
      <3> QED
        BY <2>2, <3>1 DEF Blk, DataFirst
    <2>4. BlocksOnce(w.queue["range"], act)
      BY DEF Blk
    <2>5. \A g : g # f => Missing(v, act2, g) = Missing(w, act, g)
      <3>1. \A g : g # f => Fetched(act2, g) = Fetched(act, g)
        BY <1>7 DEF Fetched
      <3> QED
        BY <1>5, <3>1 DEF Missing
    <2>6. Missing(v, act2, f) = Missing(w, act, f) \ {s.block} /\ s.block \in Missing(w, act, f)
      <3>1. \A b \in Asked(w.queue["range"], f) : b # s.block
        BY <1>9, <2>4 DEF BlocksOnce, Asked
      <3>2. Fetched(act2, f) = Fetched(act, f) \ {s.block}
        <4>1. \A c \in DOMAIN act : act[c].kind = "range" /\ act[c].rel = f /\ act[c].block = s.block => c = a
          BY <1>9, <2>4 DEF BlocksOnce
        <4> HIDE DEF s, f
        <4>2. ASSUME NEW b \in Fetched(act2, f) PROVE b \in Fetched(act, f) \ {s.block}
          <5>1. PICK c \in DOMAIN act2 : act2[c].kind = "range" /\ act2[c].rel = f /\ b = act2[c].block
            BY <4>2 DEF Fetched
          <5> QED
            BY <1>7, <4>1, <5>1 DEF Fetched
        <4>3. ASSUME NEW b \in Fetched(act, f) \ {s.block} PROVE b \in Fetched(act2, f)
          <5>1. PICK c \in DOMAIN act : act[c].kind = "range" /\ act[c].rel = f /\ b = act[c].block
            BY <4>3 DEF Fetched
          <5>2. c # a
            BY <4>3, <5>1 DEF s
          <5> QED
            BY <1>7, <5>1, <5>2 DEF Fetched
        <4> QED
          BY <4>2, <4>3
      <3>3. s.block \in Fetched(act, f)
        BY <1>9 DEF Fetched
      <3> QED
        BY <1>5, <3>1, <3>2, <3>3 DEF Missing
    <2>7. Sums(w, act, f)
      BY <1>1, <1>9 DEF Blk, BlocksKept, Sums
    <2>8. \A g : Rebuilt(v, g) = Rebuilt(w, g)
      BY <1>5 DEF Rebuilt
    <2>9. old.writeError \/ s.block \in Rebuilt(w, f)
      BY <1>9 DEF BytesHere
    <2>10. /\ IsFiniteSet(Missing(w, act, f)) /\ Cardinality(Missing(w, act, f)) \in Nat
           /\ Cardinality(Missing(w, act, f) \ {s.block}) = Cardinality(Missing(w, act, f)) - 1
           /\ IsFiniteSet(Missing(w, act, f) \ {s.block})
           /\ Cardinality(Missing(w, act, f) \ {s.block}) \in Nat
      <3>1. IsFiniteSet(Missing(w, act, f))
        BY <1>1, <2>7, BlockIs, FS_Subset DEF Sums
      <3>2. IsFiniteSet(Missing(w, act, f) \ {s.block})
        BY <3>1, FS_Subset
      <3> QED
        BY <2>6, <3>1, <3>2, FS_RemoveElement, FS_CardinalityType
    <2>11. st.pendingRanges = Cardinality(Missing(v, act2, f))
      <3>1. old.pendingRanges = Cardinality(Missing(w, act, f))
        BY <1>9, <2>7 DEF Sums
      <3> DEFINE c == Cardinality(Missing(w, act, f))
                 c2 == Cardinality(Missing(v, act2, f))
      <3>2. c2 = c - 1 /\ c \in Nat /\ c2 \in Nat /\ st.pendingRanges = AtLeastZero(c - 1)
        BY <1>2, <2>6, <2>10, <3>1
      <3> HIDE DEF c, c2
      <3>3. st.pendingRanges = c2
        BY <3>2 DEF AtLeastZero
      <3> QED
        BY <3>3 DEF c2
    <2>12. Sums(v, act2, f)
      <3>1. v.states["range"][f].writeError = w.states["range"][f].writeError
        BY <1>2, <1>9, <2>2
      <3> QED
        BY <1>9, <2>2, <2>6, <2>7, <2>8, <2>9, <2>11, <3>1 DEF Sums
    <2>13. BlocksKept(v, act2)
      <3>1. ASSUME NEW g \in In(w, "range"), g # f, w.states["range"][g].temp
            PROVE  Sums(v, act2, g)
        <4>1. Sums(w, act, g)
          BY <3>1 DEF Blk, BlocksKept, Sums
        <4> QED
          BY <2>2, <2>5, <2>8, <3>1, <4>1 DEF Sums
      <3> QED
        BY <2>2, <2>12, <3>1 DEF BlocksKept, Sums
    <2>14. ASSUME st.pendingRanges = 0, Sound(v, kind, f)
           PROVE  v.temps[<<kind, f>>] = Block(f)
      <3>1. Missing(v, act2, f) = {}
        BY <2>6, <2>10, <2>11, <2>14, FS_EmptySet
      <3>2. ~st.writeError
        BY <1>6, <2>14 DEF Sound
      <3> QED
        BY <1>9, <2>2, <2>12, <3>1, <3>2 DEF Sums, Rebuilt
    <2> QED
      BY <1>1, <1>2, <1>5, <1>6, <1>9, <2>1, <2>3, <2>4, <2>13, <2>14 DEF Ended, Blk, act2
  <1> QED
    BY <1>5, <1>8, <1>9 DEF Kind

-----------------------------------------------------------------------------
(* The queues of blocks.                                                   *)

\* q2 is q without its first n tasks.
Cut(q, q2, n) ==
    /\ n \in Nat /\ q2 \in Seq(Task) /\ DOMAIN q2 \subseteq Nat /\ DOMAIN q \subseteq Nat
    /\ \A i \in DOMAIN q2 : i + n \in DOMAIN q /\ q2[i] = q[i + n]
    /\ \A i \in DOMAIN q : i > n => i - n \in DOMAIN q2 /\ q2[i - n] = q[i]

LEMMA TailCut ==
    ASSUME NEW q \in Seq(Task), q # <<>>
    PROVE  Cut(q, Tail(q), 1) /\ 1 \in DOMAIN q /\ Head(q) = q[1] /\ Head(q) \in Task
           /\ \A i \in DOMAIN q : i = 1 \/ i > 1
  <1>1. Tail(q) \in Seq(Task) /\ Len(Tail(q)) = Len(q) - 1 /\ Len(q) \in Nat \ {0}
        /\ DOMAIN q = 1 .. Len(q) /\ DOMAIN Tail(q) = 1 .. (Len(q) - 1)
        /\ Head(q) = q[1] /\ 1 \in DOMAIN q
    OBVIOUS
  <1>2. \A i \in 1 .. (Len(q) - 1) : Tail(q)[i] = q[i + 1]
    OBVIOUS
  <1>3. \A i \in DOMAIN q : i > 1 => i - 1 \in 1 .. (Len(q) - 1) /\ (i - 1) + 1 = i
    BY <1>1
  <1>4. \A i \in DOMAIN q : i > 1 => i - 1 \in DOMAIN Tail(q) /\ Tail(q)[i - 1] = q[i]
    BY <1>1, <1>2, <1>3
  <1> QED
    BY <1>1, <1>2, <1>4 DEF Cut

\* What a pass drops from its queue are the blocks of files that have left the mode.
LEMMA WantedIs ==
    ASSUME NEW w, WorkType(w), NEW k \in Kind
    PROVE  \E n : /\ Cut(w.queue[k], Wanted(w, k), n)
                  /\ \A i \in DOMAIN w.queue[k] : ~(i > n) => w.queue[k][i].rel \notin In(w, k)
                  /\ Wanted(w, k) # <<>> => Wanted(w, k)[1].rel \in In(w, k)
  <1> DEFINE q == w.queue[k]
             live == {i \in DOMAIN q : q[i].rel \in In(w, k)}
             low == Min(live)
  <1>1. q \in Seq(Task) /\ Len(q) \in Nat /\ DOMAIN q = 1 .. Len(q)
    BY DEF WorkType
  <1>2. live \subseteq DOMAIN q /\ live \subseteq Nat /\ \A i \in DOMAIN q : q[i].rel \in In(w, k) <=> i \in live
    BY <1>1
  <1>3. Wanted(w, k) = IF live = {} THEN <<>> ELSE SubSeq(q, low, Len(q))
    BY DEF Wanted, In
  <1> HIDE DEF live, q
  <1>4. CASE live = {}
    <2>1. Cut(q, <<>>, Len(q)) /\ \A i \in DOMAIN q : ~(i > Len(q)) => q[i].rel \notin In(w, k)
      BY <1>1, <1>2, <1>4 DEF Cut
    <2> QED
      BY <1>3, <1>4, <2>1 DEF q
  <1>5. CASE live # {}
    <2>1. low \in live /\ \A i \in live : low <= i
      BY <1>2, <1>5, MinOf
    <2> HIDE DEF low
    <2> DEFINE n == low - 1
               q2 == SubSeq(q, low, Len(q))
    <2>2. low \in 1 .. Len(q) /\ n \in Nat /\ low = n + 1 /\ low \in Nat
      BY <1>1, <1>2, <2>1
    <2>3. /\ q2 \in Seq(Task) /\ DOMAIN q2 = 1 .. (Len(q) - n)
          /\ \A i \in 1 .. (Len(q) - n) : q2[i] = q[i + n]
      <3>1. /\ q2 \in Seq(Task) /\ DOMAIN q2 = 1 .. (Len(q) - low + 1)
            /\ \A i \in 1 .. (Len(q) - low + 1) : q2[i] = q[low + i - 1]
        BY <1>1, <2>2
      <3>2. Len(q) - low + 1 = Len(q) - n /\ \A i \in Nat : low + i - 1 = i + n
        BY <1>1, <2>2
      <3>3. \A i \in 1 .. (Len(q) - n) : i \in Nat
        BY <1>1, <2>2
      <3> QED
        BY <3>1, <3>2, <3>3
    <2> HIDE DEF q2, n
    <2>4. Cut(q, q2, n)
      <3>1. \A i \in 1 .. (Len(q) - n) : i + n \in 1 .. Len(q) /\ i \in Nat
        BY <1>1, <2>2
      <3>2. \A i \in 1 .. Len(q) : i > n => i - n \in 1 .. (Len(q) - n) /\ (i - n) + n = i
        BY <1>1, <2>2
      <3>3. \A i \in 1 .. Len(q) : i > n => i - n \in 1 .. (Len(q) - n) /\ q2[i - n] = q[i]
        BY <2>3, <3>2
      <3>4. DOMAIN q \subseteq Nat /\ DOMAIN q2 \subseteq Nat
        BY <1>1, <2>3, <3>1
      <3> QED
        BY <1>1, <2>2, <2>3, <3>1, <3>3, <3>4 DEF Cut
    <2>5. \A i \in DOMAIN q : ~(i > n) => i \notin live
      BY <1>1, <2>1, <2>2
    <2>6. q2[1].rel \in In(w, k)
      <3>1. 1 \in 1 .. (Len(q) - n) /\ 1 + n = low
        BY <1>1, <2>2
      <3> QED
        BY <1>2, <2>1, <2>3, <3>1
    <2> QED
      BY <1>2, <1>3, <1>5, <2>4, <2>5, <2>6 DEF q, q2
  <1> QED
    BY <1>4, <1>5

\* The tasks dropped from a queue.
LEMMA CutsBlocks ==
    ASSUME NEW w, NEW cmp, NEW act, NEW reqs, NEW inc,
           TasksBegun(w, cmp, act, reqs, inc), Blk(w, act, reqs, inc),
           NEW v, BegunKept(w, v, cmp), v.states = w.states, v.temps = w.temps, Right(v),
           NEW n, Cut(w.queue["range"], v.queue["range"], n),
           \A i \in DOMAIN w.queue["range"] : ~(i > n) => w.queue["range"][i].rel \notin In(w, "range"),
           NEW m, Cut(w.queue["delta"], v.queue["delta"], m)
    PROVE  TasksBegun(v, cmp, act, reqs, inc) /\ Blk(v, act, reqs, inc)
  <1> DEFINE q == w.queue["range"]
             q2 == v.queue["range"]
  <1>1. "range" \in Kind /\ "delta" \in Kind /\ \A k \in Kind : k = "range" \/ k = "delta"
    BY DEF Kind
  <1>2. /\ \A i \in DOMAIN q2 : i + n \in DOMAIN q /\ q2[i] = q[i + n] /\ i \in Nat
        /\ \A i \in DOMAIN q : i > n => i - n \in DOMAIN q2 /\ q2[i - n] = q[i]
        /\ n \in Nat
    BY DEF Cut
  <1>3. \A i \in DOMAIN v.queue["delta"] : i + m \in DOMAIN w.queue["delta"]
           /\ v.queue["delta"][i] = w.queue["delta"][i + m]
    BY DEF Cut
  <1> HIDE DEF q, q2
  <1>4. TasksBegun(v, cmp, act, reqs, inc)
    <2>1. \A i \in DOMAIN q : Begun(w, cmp, "range", q[i].rel)
      BY <1>1 DEF TasksBegun, q
    <2>2. \A i \in DOMAIN q2 : Begun(v, cmp, "range", q2[i].rel)
      BY <1>1, <1>2, <2>1 DEF BegunKept
    <2>3. \A i \in DOMAIN v.queue["delta"] : Begun(v, cmp, "delta", v.queue["delta"][i].rel)
      BY <1>1, <1>3 DEF BegunKept, TasksBegun
    <2>4. \A k \in Kind : \A i \in DOMAIN v.queue[k] : Begun(v, cmp, k, v.queue[k][i].rel)
      BY <1>1, <2>2, <2>3 DEF q2
    <2> QED
      BY <1>1, <2>4 DEF TasksBegun, BegunKept
  <1>5. BlocksOnce(q2, act)
    <2>1. BlocksOnce(q, act)
      BY DEF Blk, q
    <2>2. \A i, j \in DOMAIN q2 : i + n = j + n => i = j
      BY <1>2
    <2> QED
      BY <1>2, <2>1, <2>2 DEF BlocksOnce
  <1>6. \A f \in In(w, "range") : Missing(v, act, f) = Missing(w, act, f)
    <2>1. ASSUME NEW f \in In(w, "range")
          PROVE  Asked(q2, f) = Asked(q, f)
      <3>1. \A i \in DOMAIN q : q[i].rel = f => i > n
        BY <2>1 DEF q
      <3>2. \A b \in Asked(q2, f) : b \in Asked(q, f)
        BY <1>2 DEF Asked
      <3>3. \A b \in Asked(q, f) : b \in Asked(q2, f)
        BY <1>2, <3>1 DEF Asked
      <3> QED
        BY <3>2, <3>3
    <2> QED
      BY <2>1 DEF Missing, q, q2
  <1>7. In(v, "range") = In(w, "range") /\ \A f : Rebuilt(v, f) = Rebuilt(w, f)
    BY DEF In, Rebuilt
  <1>8. BlocksKept(v, act)
    BY <1>6, <1>7 DEF Blk, BlocksKept
  <1>9. DataFirst(v, act, reqs, inc)
    BY <1>7 DEF Blk, DataFirst, BytesHere
  <1> QED
    BY <1>4, <1>5, <1>8, <1>9 DEF Blk, q2

\* A stream is opened under a fresh key; a block it fetches leaves the queue.
LEMMA OpensBlock ==
    ASSUME NEW w, NEW cmp, NEW act, NEW reqs, NEW inc,
           TasksBegun(w, cmp, act, reqs, inc), Blk(w, act, reqs, inc),
           NEW key, key \notin DOMAIN act, \A r \in reqs : Key(r) # key,
           \A i \in DOMAIN inc : Key(inc[i]) # key,
           NEW s, s.kind \in Kind => Begun(w, cmp, s.kind, s.rel) /\ s.block \in Nat,
           NEW new, Key(new) = key, new.kind = s.kind, new.rel = s.rel,
           s.kind = "range" => ~new.sent,
           NEW v, BegunKept(w, v, cmp), v.states = w.states, v.temps = w.temps, Right(v),
           NEW n \in {0, 1}, Cut(w.queue["range"], v.queue["range"], n),
           n = 1 <=> s.kind = "range",
           n = 1 => 1 \in DOMAIN w.queue["range"] /\ w.queue["range"][1].rel = s.rel
                    /\ w.queue["range"][1].block = s.block,
           \A i \in DOMAIN w.queue["range"] : i = 1 \/ i > 1,
           NEW m, Cut(w.queue["delta"], v.queue["delta"], m)
    PROVE  /\ TasksBegun(v, cmp, With(act, key, s), reqs \cup {new}, inc)
           /\ Blk(v, With(act, key, s), reqs \cup {new}, inc)
  <1> DEFINE q == w.queue["range"]
             q2 == v.queue["range"]
             act2 == With(act, key, s)
             reqs2 == reqs \cup {new}
  <1>1. "range" \in Kind /\ "delta" \in Kind /\ \A k \in Kind : k = "range" \/ k = "delta"
    BY DEF Kind
  <1>2. /\ DOMAIN act2 = DOMAIN act \cup {key} /\ act2[key] = s
        /\ \A a \in DOMAIN act : a # key /\ act2[a] = act[a]
    BY DEF With
  <1>3. /\ \A i \in DOMAIN q2 : i + n \in DOMAIN q /\ q2[i] = q[i + n] /\ i \in Nat
        /\ \A i \in DOMAIN q : i > n => i - n \in DOMAIN q2 /\ q2[i - n] = q[i]
        /\ n \in Nat /\ DOMAIN q \subseteq Nat /\ DOMAIN q2 \subseteq Nat
    BY DEF Cut
  <1>4. \A i \in DOMAIN v.queue["delta"] : i + m \in DOMAIN w.queue["delta"]
           /\ v.queue["delta"][i] = w.queue["delta"][i + m]
    BY DEF Cut
  <1>5. \A i \in DOMAIN q : i = 1 \/ i > 1
    OBVIOUS
  <1>6. s.kind = "range" => n = 1 /\ 1 \in DOMAIN q /\ q[1].rel = s.rel /\ q[1].block = s.block
    OBVIOUS
  <1>7. BlocksOnce(q, act)
    BY DEF Blk
  <1>8. n = 0 => \A i \in DOMAIN q : i > n
    BY <1>3, <1>5
  <1> HIDE DEF q, q2, act2
  <1>9. TasksBegun(v, cmp, act2, reqs2, inc)
    <2>1. \A i \in DOMAIN q : Begun(w, cmp, "range", q[i].rel)
      BY <1>1 DEF TasksBegun, q
    <2>2. \A i \in DOMAIN q2 : Begun(v, cmp, "range", q2[i].rel)
      BY <1>1, <1>3, <2>1 DEF BegunKept
    <2>3. \A i \in DOMAIN v.queue["delta"] : Begun(v, cmp, "delta", v.queue["delta"][i].rel)
      BY <1>1, <1>4 DEF BegunKept, TasksBegun
    <2>4. \A k \in Kind : \A i \in DOMAIN v.queue[k] : Begun(v, cmp, k, v.queue[k][i].rel)
      BY <1>1, <2>2, <2>3 DEF q2
    <2>5. \A a \in DOMAIN act2 : act2[a].kind \in Kind =>
             Begun(v, cmp, act2[a].kind, act2[a].rel) /\ act2[a].block \in Nat
      <3>1. \A a \in DOMAIN act : act[a].kind \in Kind =>
               Begun(v, cmp, act[a].kind, act[a].rel) /\ act[a].block \in Nat
        BY DEF BegunKept, TasksBegun
      <3>2. s.kind \in Kind => Begun(v, cmp, s.kind, s.rel) /\ s.block \in Nat
        BY DEF BegunKept
      <3> QED
        BY <1>2, <3>1, <3>2
    <2>6. \A r \in reqs2 : r.kind = "range" => Begun(v, cmp, "range", r.rel)
      <3>1. \A r \in reqs : r.kind = "range" => Begun(v, cmp, "range", r.rel)
        BY <1>1 DEF BegunKept, TasksBegun
      <3>2. new.kind = "range" => Begun(v, cmp, "range", new.rel)
        BY <1>1 DEF BegunKept
      <3> QED
        BY <3>1, <3>2
    <2>7. \A i \in DOMAIN inc : inc[i].type = "FileRangeError" => Begun(v, cmp, "range", inc[i].rel)
      BY <1>1 DEF BegunKept, TasksBegun
    <2> QED
      BY <2>4, <2>5, <2>6, <2>7 DEF TasksBegun
  <1>10. BlocksOnce(q2, act2)
    <2>1. \A i, j \in DOMAIN q2 : i + n = j + n => i = j
      BY <1>3
    <2>2. \A i, j \in DOMAIN q : q[i].rel = q[j].rel /\ q[i].block = q[j].block => i = j
      BY <1>7 DEF BlocksOnce
    <2>3. \A i, j \in DOMAIN q2 : q2[i].rel = q2[j].rel /\ q2[i].block = q2[j].block => i = j
      BY <1>3, <2>1, <2>2
    <2>4. \A i \in DOMAIN q2 : n = 1 => i + n # 1
      <3>1. \A i \in DOMAIN q2 : n = 1 => i \in DOMAIN q2 /\ (i = 0 => 0 + n \in DOMAIN q)
        BY <1>3
      <3>2. 0 \notin DOMAIN q2
        <4>1. v.queue["range"] \in Seq(Task)
          BY DEF Cut
        <4> QED
          BY <4>1 DEF q2
      <3> QED
        BY <1>3, <3>2
    <2>5. s.kind = "range" => \A i \in DOMAIN q2 : ~(q2[i].rel = s.rel /\ q2[i].block = s.block)
      BY <1>3, <1>6, <2>2, <2>4
    <2>6. s.kind = "range" => \A a \in DOMAIN act : act[a].kind = "range" =>
             ~(s.rel = act[a].rel /\ s.block = act[a].block)
      BY <1>6, <1>7 DEF BlocksOnce
    <2>7. \A a \in DOMAIN act : act[a].kind = "range" =>
             /\ \A i \in DOMAIN q2 : ~(q2[i].rel = act[a].rel /\ q2[i].block = act[a].block)
             /\ \A c \in DOMAIN act : act[c].kind = "range" /\ act[a].rel = act[c].rel
                   /\ act[a].block = act[c].block => a = c
      BY <1>3, <1>7 DEF BlocksOnce
    <2> QED
      BY <1>2, <2>3, <2>5, <2>6, <2>7 DEF BlocksOnce
  <1>11. \A f : Missing(v, act2, f) = Missing(w, act, f)
    <2>1. ASSUME NEW f PROVE Asked(q2, f) \cup Fetched(act2, f) = Asked(q, f) \cup Fetched(act, f)
      <3>1. Fetched(act2, f) = Fetched(act, f) \cup IF s.kind = "range" /\ s.rel = f THEN {s.block} ELSE {}
        <4>1. \A b : b \in Fetched(act2, f) <=> \E a \in DOMAIN act2 : act2[a].kind = "range" /\ act2[a].rel = f /\ b = act2[a].block
          BY DEF Fetched
        <4>2. \A b : b \in Fetched(act, f) <=> \E a \in DOMAIN act : act[a].kind = "range" /\ act[a].rel = f /\ b = act[a].block
          BY DEF Fetched
        <4>3. \A b : b \in Fetched(act2, f) <=> b \in Fetched(act, f) \/ (s.kind = "range" /\ s.rel = f /\ b = s.block)
          BY <1>2, <4>1, <4>2
        <4> QED
          BY <4>3
      <3>2. \A b \in Asked(q2, f) : b \in Asked(q, f)
        BY <1>3 DEF Asked
      <3>3. \A b \in Asked(q, f) : b \in Asked(q2, f) \/ (s.kind = "range" /\ s.rel = f /\ b = s.block)
        <4>1. ASSUME NEW b \in Asked(q, f) PROVE b \in Asked(q2, f) \/ (s.kind = "range" /\ s.rel = f /\ b = s.block)
          <5>1. PICK i \in DOMAIN q : q[i].rel = f /\ b = q[i].block
            BY <4>1 DEF Asked
          <5>2. CASE i > n
            BY <1>3, <5>1, <5>2 DEF Asked
          <5>3. CASE ~(i > n)
            <6>1. n = 1 /\ i = 1
              BY <1>5, <1>8, <5>3
            <6> QED
              BY <1>6, <5>1, <6>1
          <5> QED
            BY <5>2, <5>3
        <4> QED
          BY <4>1
      <3>4. s.kind = "range" /\ s.rel = f => s.block \in Asked(q, f)
        BY <1>6 DEF Asked
      <3> QED
        BY <3>1, <3>2, <3>3, <3>4
    <2> QED
      BY <2>1 DEF Missing, q, q2
  <1>12. In(v, "range") = In(w, "range") /\ \A f : Rebuilt(v, f) = Rebuilt(w, f)
    BY DEF In, Rebuilt
  <1>13. BlocksKept(v, act2)
    BY <1>11, <1>12 DEF Blk, BlocksKept
  <1>14. DataFirst(v, act2, reqs2, inc)
    <2>1. \A a \in DOMAIN act : BytesCome(a, reqs, inc) => BytesCome(a, reqs2, inc)
      BY <1>2 DEF BytesCome
    <2>2. s.kind = "range" => BytesCome(key, reqs2, inc)
      BY DEF BytesCome
    <2>3. \A x : BytesHere(w, x) <=> BytesHere(v, x)
      BY DEF BytesHere, Rebuilt
    <2> QED
      BY <1>2, <1>12, <2>1, <2>2, <2>3 DEF Blk, DataFirst
  <1> QED
    BY <1>9, <1>10, <1>13, <1>14 DEF Blk, act2, q2

\* The enumerations of a finite set.
LEMMA Enumerates ==
    ASSUME NEW S, IsFiniteSet(S), NEW s \in SetToSeqs(S)
    PROVE  /\ s \in Seq(S) /\ \A i, j \in DOMAIN s : s[i] = s[j] => i = j
           /\ \A x \in S : \E i \in DOMAIN s : s[i] = x
  <1> DEFINE n == Cardinality(S)
  <1>1. n \in Nat
    BY FS_CardinalityType
  <1>2. s \in [1 .. n -> S] /\ \A i, j \in 1 .. n : i # j => s[i] # s[j]
    BY DEF SetToSeqs
  <1>3. s \in Injection(1 .. n, S)
    BY <1>2 DEF Injection, IsInjective
  <1>4. Cardinality(1 .. n) = n
    BY <1>1, FS_Interval
  <1>5. s \in Surjection(1 .. n, S)
    BY <1>3, <1>4, FS_Injection
  <1> QED
    BY <1>1, <1>2, <1>5 DEF Surjection

\* The blocks that streams of dead lanes were fetching: the queue of v is that of w and the
\* tasks T, one for each stream that act has and act2 has not.
LostBlocks(w, act, act2) ==
    {k \in DOMAIN act : k \notin DOMAIN act2 /\ act[k].kind = "range" /\ act[k].rel \in In(w, "range")}

Recalls(w, act, act2, ks, T, v) ==
    /\ DOMAIN act2 \subseteq DOMAIN act /\ \A k \in DOMAIN act2 : act2[k] = act[k]
    /\ IsFiniteSet(LostBlocks(w, act, act2)) /\ ks \in SetToSeqs(LostBlocks(w, act, act2))
    /\ w.queue["range"] \in Seq(Task) /\ T \in Seq(Task) /\ DOMAIN T = DOMAIN ks
    /\ \A i \in DOMAIN ks : T[i].rel = act[ks[i]].rel /\ T[i].block = act[ks[i]].block
    /\ v.queue["range"] = w.queue["range"] \o T

LEMMA RequeuesBlocks ==
    ASSUME NEW w, NEW cmp, NEW act, NEW reqs, NEW inc,
           TasksBegun(w, cmp, act, reqs, inc), Blk(w, act, reqs, inc),
           NEW act2, NEW ks, NEW T, NEW v, Recalls(w, act, act2, ks, T, v),
           BegunKept(w, v, cmp), v.states = w.states, v.temps = w.temps, Right(v),
           \A i \in DOMAIN v.queue["delta"] : Begun(w, cmp, "delta", v.queue["delta"][i].rel)
    PROVE  TasksBegun(v, cmp, act2, reqs, inc) /\ Blk(v, act2, reqs, inc)
  <1> DEFINE q == w.queue["range"]
             q2 == v.queue["range"]
             n == Len(q)
             lost == LostBlocks(w, act, act2)
  <1>0. /\ DOMAIN act2 \subseteq DOMAIN act /\ \A k \in DOMAIN act2 : act2[k] = act[k]
        /\ \A k : k \in lost <=> /\ k \in DOMAIN act /\ k \notin DOMAIN act2
                                 /\ act[k].kind = "range" /\ act[k].rel \in In(w, "range")
        /\ IsFiniteSet(lost) /\ ks \in SetToSeqs(lost)
        /\ w.queue["range"] \in Seq(Task) /\ T \in Seq(Task) /\ DOMAIN T = DOMAIN ks
        /\ \A i \in DOMAIN ks : T[i].rel = act[ks[i]].rel /\ T[i].block = act[ks[i]].block
        /\ v.queue["range"] = w.queue["range"] \o T
    BY DEF Recalls, LostBlocks
  <1> HIDE DEF lost
  <1> USE <1>0
  <1>1. "range" \in Kind /\ "delta" \in Kind /\ \A k \in Kind : k = "range" \/ k = "delta"
    BY DEF Kind
  <1>2. /\ \A i \in DOMAIN ks : ks[i] \in lost
        /\ \A i, j \in DOMAIN ks : ks[i] = ks[j] => i = j
        /\ \A x \in lost : \E i \in DOMAIN ks : ks[i] = x
    <2>1. ks \in Seq(lost) /\ \A i \in DOMAIN ks : ks[i] \in lost
      BY Enumerates
    <2> QED
      BY <2>1, Enumerates
  <1>3. /\ \A i \in DOMAIN q2 : \/ i \in DOMAIN q /\ q2[i] = q[i]
                                \/ i - n \in DOMAIN T /\ q2[i] = T[i - n]
        /\ \A i \in DOMAIN q : i \in DOMAIN q2 /\ q2[i] = q[i]
        /\ \A i \in DOMAIN T : i + n \in DOMAIN q2 /\ q2[i + n] = T[i]
        /\ DOMAIN q2 \subseteq Nat /\ n \in Nat
    <2>1. q \in Seq(Task) /\ q2 = q \o T
      OBVIOUS
    <2> HIDE DEF q, q2
    <2> QED
      BY <2>1, ConcatIs
  <1>4. \A i \in DOMAIN T : /\ ks[i] \in DOMAIN act /\ ks[i] \notin DOMAIN act2
                            /\ act[ks[i]].kind = "range" /\ act[ks[i]].rel \in In(w, "range")
                            /\ T[i].rel = act[ks[i]].rel /\ T[i].block = act[ks[i]].block
    BY <1>2
  <1> HIDE DEF q, q2, n
  <1>5. TasksBegun(v, cmp, act2, reqs, inc)
    <2>1. \A i \in DOMAIN q : Begun(w, cmp, "range", q[i].rel)
      BY <1>1 DEF TasksBegun, q
    <2>2. \A i \in DOMAIN T : Begun(w, cmp, "range", T[i].rel)
      BY <1>1, <1>4, SMTT(30) DEF TasksBegun
    <2>3. \A i \in DOMAIN q2 : Begun(v, cmp, "range", q2[i].rel)
      BY <1>1, <1>3, <2>1, <2>2, SMTT(30) DEF BegunKept
    <2>4. \A i \in DOMAIN v.queue["delta"] : Begun(v, cmp, "delta", v.queue["delta"][i].rel)
      BY <1>1 DEF BegunKept
    <2>5. \A k \in Kind : \A i \in DOMAIN v.queue[k] : Begun(v, cmp, k, v.queue[k][i].rel)
      BY <1>1, <2>3, <2>4 DEF q2
    <2>6. \A a \in DOMAIN act2 : act2[a].kind \in Kind =>
             Begun(v, cmp, act2[a].kind, act2[a].rel) /\ act2[a].block \in Nat
      BY DEF BegunKept, TasksBegun
    <2> QED
      BY <1>1, <2>5, <2>6 DEF TasksBegun, BegunKept
  <1>6. BlocksOnce(q, act)
    BY DEF Blk, q
  <1>7. BlocksOnce(q2, act2)
    <2>1. \A i, j \in DOMAIN q : q[i].rel = q[j].rel /\ q[i].block = q[j].block => i = j
      BY <1>6 DEF BlocksOnce
    <2>2. \A i \in DOMAIN q, j \in DOMAIN T : ~(q[i].rel = T[j].rel /\ q[i].block = T[j].block)
      BY <1>4, <1>6 DEF BlocksOnce
    <2>3. \A i, j \in DOMAIN T : T[i].rel = T[j].rel /\ T[i].block = T[j].block => i = j
      <3>1. \A i, j \in DOMAIN T : T[i].rel = T[j].rel /\ T[i].block = T[j].block => ks[i] = ks[j]
        BY <1>4, <1>6 DEF BlocksOnce
      <3> QED
        BY <1>2, <3>1
    <2>4. \A i, j \in DOMAIN q2 : i - n = j - n => i = j
      BY <1>3
    <2>5. \A i, j \in DOMAIN q2 : q2[i].rel = q2[j].rel /\ q2[i].block = q2[j].block => i = j
      <3>1. ASSUME NEW i \in DOMAIN q2, NEW j \in DOMAIN q2, q2[i].rel = q2[j].rel,
                   q2[i].block = q2[j].block
            PROVE  i = j
        <4>1. /\ (i \in DOMAIN q /\ q2[i] = q[i]) \/ (i - n \in DOMAIN T /\ q2[i] = T[i - n])
              /\ (j \in DOMAIN q /\ q2[j] = q[j]) \/ (j - n \in DOMAIN T /\ q2[j] = T[j - n])
          BY <1>3
        <4>2. CASE i \in DOMAIN q /\ q2[i] = q[i]
          <5>1. j \in DOMAIN q /\ q2[j] = q[j]
            BY <2>2, <3>1, <4>1, <4>2
          <5> QED
            BY <2>1, <3>1, <4>2, <5>1
        <4>3. CASE i - n \in DOMAIN T /\ q2[i] = T[i - n]
          <5>1. j - n \in DOMAIN T /\ q2[j] = T[j - n]
            BY <2>2, <3>1, <4>1, <4>3
          <5>2. i - n = j - n
            BY <2>3, <3>1, <4>3, <5>1
          <5> QED
            BY <2>4, <5>2
        <4> QED
          BY <4>1, <4>2, <4>3
      <3> QED
        BY <3>1
    <2>9. /\ \A a \in DOMAIN act2 : a \in DOMAIN act /\ act2[a] = act[a]
          /\ \A i \in DOMAIN T : ks[i] \notin DOMAIN act2
      BY <1>4
    <2>10. \A a \in DOMAIN act : act[a].kind = "range" =>
             /\ \A i \in DOMAIN q : ~(q[i].rel = act[a].rel /\ q[i].block = act[a].block)
             /\ \A c \in DOMAIN act : act[c].kind = "range" /\ act[a].rel = act[c].rel
                   /\ act[a].block = act[c].block => a = c
      BY <1>6 DEF BlocksOnce
    <2>11. \A a \in DOMAIN act : act[a].kind = "range" =>
             \A i \in DOMAIN T : T[i].rel = act[a].rel /\ T[i].block = act[a].block => a = ks[i]
      BY <1>4, <2>10
    <2>6. \A a \in DOMAIN act2 : act2[a].kind = "range" =>
             /\ \A i \in DOMAIN q : ~(q[i].rel = act2[a].rel /\ q[i].block = act2[a].block)
             /\ \A c \in DOMAIN act2 : act2[c].kind = "range" /\ act2[a].rel = act2[c].rel
                   /\ act2[a].block = act2[c].block => a = c
      BY <2>9, <2>10
    <2>7. \A a \in DOMAIN act2 : act2[a].kind = "range" =>
             \A i \in DOMAIN T : ~(T[i].rel = act2[a].rel /\ T[i].block = act2[a].block)
      <3>1. ASSUME NEW a \in DOMAIN act2, act2[a].kind = "range", NEW i \in DOMAIN T,
                   T[i].rel = act2[a].rel, T[i].block = act2[a].block
            PROVE  FALSE
        <4>1. a \in DOMAIN act /\ act[a].kind = "range" /\ T[i].rel = act[a].rel
              /\ T[i].block = act[a].block
          BY <2>9, <3>1
        <4>2. a = ks[i]
          BY <2>11, <4>1
        <4> QED
          BY <2>9, <3>1, <4>2
      <3> QED
        BY <3>1
    <2>8. \A a \in DOMAIN act2 : act2[a].kind = "range" =>
             \A i \in DOMAIN q2 : ~(q2[i].rel = act2[a].rel /\ q2[i].block = act2[a].block)
      <3>1. \A i \in DOMAIN q2 : (i \in DOMAIN q /\ q2[i] = q[i]) \/ (i - n \in DOMAIN T /\ q2[i] = T[i - n])
        BY <1>3
      <3>2. ASSUME NEW a \in DOMAIN act2, act2[a].kind = "range", NEW i \in DOMAIN q2
            PROVE  ~(q2[i].rel = act2[a].rel /\ q2[i].block = act2[a].block)
        <4>1. CASE i \in DOMAIN q /\ q2[i] = q[i]
          BY <2>6, <3>2, <4>1
        <4>2. CASE i - n \in DOMAIN T /\ q2[i] = T[i - n]
          BY <2>7, <3>2, <4>2
        <4> QED
          BY <3>1, <4>1, <4>2
      <3> QED
        BY <3>2
    <2> QED
      BY <2>5, <2>6, <2>8 DEF BlocksOnce
  <1>8. \A f \in In(w, "range") : Missing(v, act2, f) = Missing(w, act, f)
    <2>1. ASSUME NEW f \in In(w, "range")
          PROVE  Asked(q2, f) \cup Fetched(act2, f) = Asked(q, f) \cup Fetched(act, f)
      <3>1. \A b \in Asked(q2, f) : b \in Asked(q, f) \cup Fetched(act, f)
        <4>1. ASSUME NEW b \in Asked(q2, f) PROVE b \in Asked(q, f) \cup Fetched(act, f)
          <5>1. PICK i \in DOMAIN q2 : q2[i].rel = f /\ b = q2[i].block
            BY <4>1 DEF Asked
          <5>2. CASE i \in DOMAIN q /\ q2[i] = q[i]
            BY <5>1, <5>2 DEF Asked
          <5>3. CASE i - n \in DOMAIN T /\ q2[i] = T[i - n]
            BY <1>4, <5>1, <5>3 DEF Fetched
          <5> QED
            BY <1>3, <5>2, <5>3
        <4> QED
          BY <4>1
      <3>2. \A b \in Asked(q, f) : b \in Asked(q2, f)
        BY <1>3 DEF Asked
      <3>3. \A b \in Fetched(act2, f) : b \in Fetched(act, f)
        BY DEF Fetched
      <3>4. ASSUME NEW b \in Fetched(act, f) PROVE b \in Asked(q2, f) \cup Fetched(act2, f)
        <4>1. PICK c \in DOMAIN act : act[c].kind = "range" /\ act[c].rel = f /\ b = act[c].block
          BY <3>4 DEF Fetched
        <4>2. CASE c \in DOMAIN act2
          BY <4>1, <4>2 DEF Fetched
        <4>3. CASE c \notin DOMAIN act2
          <5>1. c \in lost
            BY <2>1, <4>1, <4>3
          <5>2. PICK i \in DOMAIN ks : ks[i] = c
            BY <1>2, <5>1
          <5>3. i + n \in DOMAIN q2 /\ q2[i + n].rel = f /\ q2[i + n].block = b
            BY <1>3, <1>4, <4>1, <5>2
          <5>4. b \in Asked(q2, f)
            BY <5>3 DEF Asked
          <5> QED
            BY <5>4
        <4> QED
          BY <4>2, <4>3
      <3> QED
        BY <3>1, <3>2, <3>3, <3>4
    <2> QED
      BY <2>1 DEF Missing, q, q2
  <1>9. In(v, "range") = In(w, "range") /\ \A f : Rebuilt(v, f) = Rebuilt(w, f)
    BY DEF In, Rebuilt
  <1>10. BlocksKept(v, act2)
    BY <1>8, <1>9 DEF Blk, BlocksKept
  <1>11. DataFirst(v, act2, reqs, inc)
    BY <1>9 DEF Blk, DataFirst, BytesHere
  <1> QED
    BY <1>5, <1>7, <1>10, <1>11 DEF Blk, q2

-----------------------------------------------------------------------------
(* The steps.                                                              *)

LEMMA WithoutNone ==
    ASSUME NetType
    PROVE  Without(active, {}) = active
  BY DEF NetType, Without, Restrict

\* The server, the receive threads and the lanes.
LEMMA ServerKeeps ==
    ASSUME Inv, NEW r \in asked, ServerSigns(r) \/ ServerSendsData(r) \/ ServerEnds(r)
    PROVE  Inv'
  <1>1. \E m : Serves(m, r)
    <2>1. r \in OpenRequest \cup SigRequest
      BY DEF Inv, NetInv, NetType
    <2>2. ASSUME NEW type \in {"BlockSigResponse", "DeltaError", "Data", "End", "FileRangeError"}
          PROVE  LET m == [type |-> type, lane |-> r.lane, sid |-> r.sid, rel |-> r.rel]
                 IN  m \in Frames /\ m.type = type /\ m.lane = r.lane /\ m.sid = r.sid /\ m.rel = r.rel
      BY <2>1 DEF OpenRequest, SigRequest, Frames
    <2>3. CASE ServerSigns(r)
      <3>1. PICK type \in {"BlockSigResponse", "DeltaError"} : Push(r, type)
        BY <2>3 DEF ServerSigns
      <3>2. r \notin Opens /\ asked' = asked \ {r}
        BY <2>3 DEF ServerSigns, Opens
      <3>3. UNCHANGED <<healthy, inFlight, nextStreamId, active>>
        BY <2>3 DEF ServerSigns, ServerStep, connVars
      <3> DEFINE m == [type |-> type, lane |-> r.lane, sid |-> r.sid, rel |-> r.rel]
      <3>4. incoming' = Append(incoming, m)
        BY <3>1 DEF Push
      <3>5. m \in Frames /\ m.type = type /\ m.lane = r.lane /\ m.sid = r.sid /\ m.rel = r.rel
        BY <2>2
      <3> HIDE DEF m
      <3>6. Serves(m, r)
        BY <3>2, <3>3, <3>4, <3>5 DEF Serves
      <3> QED
        BY <3>6
    <2>4. CASE ServerSendsData(r)
      <3>1. Push(r, "Data") /\ r \in Opens /\ ~r.sent
            /\ asked' = (asked \ {r}) \cup {[r EXCEPT !.sent = TRUE]}
        BY <2>4 DEF ServerSendsData, Opens
      <3>3. UNCHANGED <<healthy, inFlight, nextStreamId, active>>
        BY <2>4 DEF ServerSendsData, ServerStep, connVars
      <3> DEFINE m == [type |-> "Data", lane |-> r.lane, sid |-> r.sid, rel |-> r.rel]
      <3>4. incoming' = Append(incoming, m)
        BY <3>1 DEF Push
      <3>5. m \in Frames /\ m.type = "Data" /\ m.lane = r.lane /\ m.sid = r.sid /\ m.rel = r.rel
        BY <2>2
      <3> HIDE DEF m
      <3>6. Serves(m, r)
        BY <3>1, <3>3, <3>4, <3>5 DEF Serves
      <3> QED
        BY <3>6
    <2>5. CASE ServerEnds(r)
      <3>1. PICK type \in {"End", "DeltaError", "FileRangeError"} :
              /\ Push(r, type)
              /\ type = "End" => r.sent
              /\ type = "DeltaError" => r.kind = "delta"
              /\ type = "FileRangeError" => r.kind = "range"
        BY <2>5 DEF ServerEnds
      <3>2. r \in Opens /\ asked' = asked \ {r}
        BY <2>5 DEF ServerEnds, Opens
      <3>3. UNCHANGED <<healthy, inFlight, nextStreamId, active>>
        BY <2>5 DEF ServerEnds, ServerStep, connVars
      <3> DEFINE m == [type |-> type, lane |-> r.lane, sid |-> r.sid, rel |-> r.rel]
      <3>4. incoming' = Append(incoming, m)
        BY <3>1 DEF Push
      <3>5. m \in Frames /\ m.type = type /\ m.lane = r.lane /\ m.sid = r.sid /\ m.rel = r.rel
        BY <2>2
      <3> HIDE DEF m
      <3>6. Serves(m, r)
        BY <3>1, <3>2, <3>3, <3>4, <3>5 DEF Serves
      <3> QED
        BY <3>6
    <2> QED
      BY <2>3, <2>4, <2>5
  <1>2. PICK m : Serves(m, r)
    BY <1>1
  <1>3. UNCHANGED <<batch, pc, result, comparing, active, planTasks, planResults, work>>
    BY DEF ServerSigns, ServerSendsData, ServerEnds, ServerStep, mainVars, planVars
  <1>4. NetInv'
    BY <1>2, NetServes DEF Inv
  <1>5. FramesTaken'
    <2>1. Len(incoming) \in Nat /\ Len(incoming') = Len(incoming) + 1
      BY <1>2 DEF Inv, NetInv, NetType, Serves
    <2> QED
      BY <1>3, <2>1 DEF Inv, FramesTaken
  <1>6. TasksBegun(work, comparing, active, Opens', incoming') /\ Blk(work, active, Opens', incoming')
    BY <1>2, FileServes DEF Inv, FileInv
  <1>7. FileInv'
    <2>1. Own(work', comparing', planTasks', planResults') /\ result' # "aborted"
      BY <1>3 DEF Inv, FileInv
    <2>2. TasksBegun(work', comparing', active', Opens', incoming') /\ Blk(work', active', Opens', incoming')
      BY <1>3, <1>6
    <2> QED
      BY <2>1, <2>2 DEF FileInv
  <1> QED
    BY <1>4, <1>5, <1>7 DEF Inv

\* What a step that opens and closes no stream and takes no frame does to the network.
Still ==
    /\ healthy' \in [Lane -> BOOLEAN] /\ \A l \in Lane : healthy'[l] => healthy[l]
    /\ nextStreamId' \in [Lane -> Nat \ {0}] /\ \A l \in Lane : nextStreamId[l] <= nextStreamId'[l]
    /\ inFlight' = inFlight /\ asked' \subseteq asked \cup SigRequest
    /\ UNCHANGED <<incoming, active, batch>> /\ (pc' # "process" \/ pc' = pc)

LEMMA StillKeeps ==
    ASSUME Inv, Still, result' # "aborted",
           Own(work', comparing', planTasks', planResults'),
           TasksBegun(work', comparing', active, Opens, incoming), Blk(work', active, Opens, incoming)
    PROVE  Inv'
  <1>1. Shrinks({})
    BY WithoutNone DEF Inv, NetInv, NetType, Still, Shrinks
  <1>2. NetInv'
    BY <1>1, NetShrinks DEF Inv
  <1>3. FramesTaken'
    BY DEF Still, Inv, FramesTaken
  <1>4. Opens' \subseteq Opens
    BY DEF Still, Opens, SigRequest
  <1>5. TasksBegun(work', comparing', active, Opens', incoming) /\ Blk(work', active, Opens', incoming)
    BY <1>4, FileShrinks
  <1>6. active' = active /\ incoming' = incoming
    BY DEF Still
  <1>7. FileInv'
    BY <1>5, <1>6 DEF FileInv
  <1> QED
    BY <1>2, <1>3, <1>7 DEF Inv

LEMMA LaneDiesKeeps ==
    ASSUME Inv, NEW l \in Lane, LaneDies(l)
    PROVE  Inv'
  <1>1. Still
    BY DEF LaneDies, Still, Inv, NetInv, NetType, mainVars
  <1>2. UNCHANGED <<result, work, comparing, planTasks, planResults>>
    BY DEF LaneDies, mainVars, planVars
  <1>3. /\ Own(work', comparing', planTasks', planResults') /\ result' # "aborted"
        /\ TasksBegun(work', comparing', active, Opens, incoming) /\ Blk(work', active, Opens, incoming)
    BY <1>2 DEF Inv, FileInv
  <1> QED
    BY <1>1, <1>3, StillKeeps

\* Moving on to another helper of the iteration takes no frame.
LEMMA MovesOn ==
    ASSUME NEW name \in {"files", "sigs", "plans", "deltaRanges", "rangePlans", "fileRanges"},
           Again(name) \/ Onward(name)
    PROVE  pc' # "process"
  <1>1. Stage(name) \in 1 .. 7 /\ Stage(name) + 1 \in 1 .. 7
    <2>1. Stage(name) \in 1 .. 6
      BY StageIs
    <2> QED
      BY <2>1
  <1>2. CASE Again(name)
    BY <1>1, <1>2, GoToIs DEF Again
  <1>3. CASE Onward(name)
    BY <1>1, <1>3, GoToIs DEF Onward
  <1> QED
    BY <1>2, <1>3

LEMMA MovesStill ==
    ASSUME Inv, Still, result' # "aborted",
           Own(work', comparing', planTasks', planResults'),
           Moves(work, comparing, work', comparing')
    PROVE  Inv'
  <1>1. Shape(work')
    BY DEF Own, WorkType, Shape
  <1>2. TasksBegun(work, comparing, active, Opens, incoming) /\ Blk(work, active, Opens, incoming)
    BY DEF Inv, FileInv
  <1>3. TasksBegun(work', comparing', active, Opens, incoming) /\ Blk(work', active, Opens, incoming)
    BY <1>1, <1>2, MovesKeeps
  <1> QED
    BY <1>3, StillKeeps

\* Most steps leave the network as it is.
LEMMA Quiet ==
    ASSUME Inv, UNCHANGED <<healthy, nextStreamId, inFlight, asked, incoming, active, batch>>,
           pc' # "process" \/ pc' = pc
    PROVE  Still
  BY DEF Still, Inv, NetInv, NetType

LEMMA MovesItself ==
    ASSUME NEW w, NEW cmp
    PROVE  Moves(w, cmp, w, cmp)
  BY DEF Moves

LEMMA PlanFinishesKeeps ==
    ASSUME Inv, NEW f \in planTasks, PlanFinishes(f)
    PROVE  Inv'
  <1>1. /\ UNCHANGED <<healthy, nextStreamId, inFlight, asked, incoming, active, batch>>
        /\ UNCHANGED <<pc, result, comparing>> /\ planTasks' = planTasks \ {f}
    BY DEF PlanFinishes, connVars, mainVars
  <1>2. Still
    BY <1>1, Quiet
  <1>3. Own(work, comparing, planTasks, planResults) /\ result' # "aborted"
    BY <1>1 DEF Inv, FileInv
  <1>4. ASSUME NEW missing \in SUBSET Block(f),
               planResults' = Append(planResults, [rel |-> f, ok |-> TRUE, missing |-> missing]),
               work' = [work EXCEPT !.temps = With(@, <<"delta", f>>, Block(f) \ missing)]
        PROVE  /\ Own(work', comparing', planTasks', planResults')
               /\ Moves(work, comparing, work', comparing')
    BY <1>1, <1>3, <1>4, PlannedOwner
  <1>5. ASSUME planResults' = Append(planResults, [rel |-> f, ok |-> FALSE]), work' = work
        PROVE  /\ Own(work', comparing', planTasks', planResults')
               /\ Moves(work, comparing, work', comparing')
    <2>1. {} \in SUBSET Block(f)
      OBVIOUS
    <2>2. Own(work, comparing, planTasks \ {f}, Append(planResults, [rel |-> f, ok |-> FALSE]))
      BY <1>3, <2>1, PlannedOwner
    <2> QED
      BY <1>1, <1>5, <2>2, MovesItself
  <1>6. Own(work', comparing', planTasks', planResults') /\ Moves(work, comparing, work', comparing')
    BY <1>4, <1>5 DEF PlanFinishes
  <1> QED
    BY <1>2, <1>3, <1>6, MovesStill

LEMMA AdmitKeeps ==
    ASSUME Inv, NEW f, Admit(f)
    PROVE  Inv'
  <1>1. /\ UNCHANGED <<healthy, nextStreamId, inFlight, asked, incoming, active, batch>>
        /\ UNCHANGED <<pc, result, planTasks, planResults>>
        /\ f \in comparing /\ comparing' = comparing \ {f}
        /\ work' = IF EntersDelta(work, f) THEN TryEnterDelta(work, f) ELSE BlocksOrStream(work, f)
    BY DEF Admit, LoopStep
  <1>2. Still
    BY <1>1, Quiet
  <1>3. Own(work, comparing, planTasks, planResults) /\ result' # "aborted"
    BY <1>1 DEF Inv, FileInv
  <1>4. Own(work', comparing', planTasks', planResults') /\ Moves(work, comparing, work', comparing')
    BY <1>1, <1>3, AdmitsOwner
  <1> QED
    BY <1>2, <1>3, <1>4, MovesStill

\* Two helpers one after the other.
LEMMA MovesTwice ==
    ASSUME NEW w, NEW cmp, NEW u, NEW v, Moves(w, cmp, u, cmp), Moves(u, cmp, v, cmp)
    PROVE  Moves(w, cmp, v, cmp)
  <1>1. /\ v.queue["range"] = w.queue["range"]
        /\ \A k \in Kind : \A f : Begun(w, cmp, k, f) => Begun(v, cmp, k, f)
        /\ Right(w) => Right(v)
    BY DEF Moves
  <1>2. \A i \in DOMAIN v.queue["delta"] :
          \/ Begun(v, cmp, "delta", v.queue["delta"][i].rel)
          \/ \E j \in DOMAIN w.queue["delta"] : v.queue["delta"][i].rel = w.queue["delta"][j].rel
    <2>1. \A g : Begun(u, cmp, "delta", g) => Begun(v, cmp, "delta", g)
      BY DEF Moves, Kind
    <2>2. \A j \in DOMAIN u.queue["delta"] :
            \/ Begun(v, cmp, "delta", u.queue["delta"][j].rel)
            \/ \E i \in DOMAIN w.queue["delta"] : u.queue["delta"][j].rel = w.queue["delta"][i].rel
      BY <2>1 DEF Moves
    <2>3. \A i \in DOMAIN v.queue["delta"] :
            \/ Begun(v, cmp, "delta", v.queue["delta"][i].rel)
            \/ \E j \in DOMAIN u.queue["delta"] : v.queue["delta"][i].rel = u.queue["delta"][j].rel
      BY DEF Moves
    <2> QED
      BY <2>2, <2>3
  <1>3. \A f \in In(v, "range") : v.states["range"][f].temp =>
          /\ f \in In(w, "range") /\ v.states["range"][f] = w.states["range"][f]
          /\ Rebuilt(v, f) = Rebuilt(w, f)
    BY DEF Moves
  <1> QED
    BY <1>1, <1>2, <1>3 DEF Moves

LEMMA ApplyPlanKeeps ==
    ASSUME Inv, ApplyPlan
    PROVE  Inv'
  <1> DEFINE r == Head(planResults)
  <1>1. /\ UNCHANGED <<healthy, nextStreamId, inFlight, asked, incoming, active, batch>>
        /\ UNCHANGED <<result, planTasks, comparing>> /\ planResults' = Tail(planResults)
        /\ planResults # <<>> /\ Again("plans")
    BY DEF ApplyPlan, LoopStep
  <1>2. Still
    BY <1>1, Quiet, MovesOn
  <1>3. Own(work, comparing, planTasks, planResults) /\ result' # "aborted" /\ Right(work)
    BY <1>1 DEF Inv, FileInv, Blk
  <1>4. CASE r.rel \notin In(work, "delta")
    <2>1. work' = [work EXCEPT !.temps = Without(@, {<<"delta", r.rel>>})]
      BY <1>4 DEF ApplyPlan, In
    <2>2. Own(work', comparing, planTasks, Tail(planResults)) /\ Moves(work, comparing, work', comparing)
      BY <1>1, <1>3, <1>4, <2>1, DiscardsOwner
    <2> QED
      BY <1>1, <1>2, <1>3, <2>2, MovesStill
  <1>5. CASE r.rel \in In(work, "delta") /\ ~r.ok
    <2>1. work' = FallsBack(work, "delta", r.rel)
      BY <1>5 DEF ApplyPlan, In
    <2>2. Own(work, comparing, planTasks, Tail(planResults))
      BY <1>1, <1>3, <1>5, RefusedOwner
    <2>3. "delta" \in Kind
      BY DEF Kind
    <2>4. Own(work', comparing, planTasks, Tail(planResults)) /\ Moves(work, comparing, work', comparing)
      BY <1>5, <2>1, <2>2, <2>3, FallsBackOwner
    <2> QED
      BY <1>1, <1>2, <1>3, <2>4, MovesStill
  <1>6. CASE r.rel \in In(work, "delta") /\ r.ok
    <2> DEFINE v == AdoptPlan(work, r)
    <2>1. /\ r.missing = {} => Finalize(v, "delta", r.rel)
          /\ r.missing # {} => work' = v
      BY <1>6 DEF ApplyPlan, In
    <2>2. /\ Own(v, comparing, planTasks, Tail(planResults)) /\ Moves(work, comparing, v, comparing)
          /\ r.rel \in In(v, "delta") /\ v.states["delta"][r.rel].temp
      BY <1>1, <1>3, <1>6, AdoptsOwner
    <2> HIDE DEF v, r
    <2>3. CASE r.missing # {}
      BY <1>1, <1>2, <1>3, <2>1, <2>2, <2>3, MovesStill
    <2>4. CASE r.missing = {}
      <3>1. v.states["delta"][r.rel].verify
        BY <1>3, <2>2 DEF Moves, Right
      <3>2. Sound(v, "delta", r.rel) => v.temps[<<"delta", r.rel>>] = Block(r.rel)
        BY <3>1 DEF Sound
      <3>3. "delta" \in Kind
        BY DEF Kind
      <3>4. Own(work', comparing, planTasks, Tail(planResults)) /\ Moves(v, comparing, work', comparing)
        BY <2>1, <2>2, <2>4, <3>2, <3>3, FinalizesOwner
      <3>5. Moves(work, comparing, work', comparing)
        BY <2>2, <3>4, MovesTwice
      <3> QED
        BY <1>1, <1>2, <1>3, <3>4, <3>5, MovesStill
    <2> QED
      BY <2>3, <2>4
  <1> QED
    BY <1>4, <1>5, <1>6

LEMMA PumpFileRangePlansKeeps ==
    ASSUME Inv, PumpFileRangePlans
    PROVE  Inv'
  <1> DEFINE f == Head(work.planQueue)
             rest == [work EXCEPT !.planQueue = Tail(@)]
  <1>1. /\ UNCHANGED <<healthy, nextStreamId, inFlight, asked, incoming, active, batch>>
        /\ UNCHANGED <<result, planTasks, planResults, comparing>> /\ Again("rangePlans")
    BY DEF PumpFileRangePlans, LoopStep
  <1>2. Still
    BY <1>1, Quiet, MovesOn
  <1>3. Own(work, comparing, planTasks, planResults) /\ result' # "aborted"
        /\ TasksBegun(work, comparing, active, Opens, incoming) /\ Blk(work, active, Opens, incoming)
    BY <1>1 DEF Inv, FileInv
  <1>4. DOMAIN work = Fields
    BY <1>3 DEF Own, WorkType
  <1>5. /\ DOMAIN rest = Fields /\ \A x \in Fields \ {"planQueue"} : rest[x] = work[x]
    BY <1>4
  <1>6. \/ work' = rest
        \/ /\ f \in DOMAIN work.states["range"] /\ ~work.states["range"][f].temp
           /\ work' = PlanBlocks(rest, f) \/ work' = FallsBack(rest, "range", f)
    BY DEF PumpFileRangePlans
  <1> HIDE DEF f, rest
  <1>7. /\ rest.states = work.states /\ rest.queue = work.queue /\ rest.pending = work.pending
        /\ rest.sigRequested = work.sigRequested
        /\ Rest(work, rest, {"sigQueue", "sigRequested", "sigInFlight", "planQueue", "pending", "queue"})
    BY <1>5 DEF Fields, Rest
  <1>8. /\ rest.pending \in Seq(File) /\ DOMAIN rest.queue = Kind
        /\ \A k \in Kind : rest.queue[k] \in Seq(Task)
    BY <1>3, <1>7 DEF Own, WorkType
  <1>9. Own(rest, comparing, planTasks, planResults) /\ Moves(work, comparing, rest, comparing)
    BY <1>3, <1>5, <1>7, <1>8, KeepsOwner
  <1>10. Shape(rest)
    BY <1>9 DEF Own, WorkType, Shape
  <1>11. TasksBegun(rest, comparing, active, Opens, incoming) /\ Blk(rest, active, Opens, incoming)
    BY <1>3, <1>9, <1>10, MovesKeeps
  <1>12. CASE work' = rest
    BY <1>1, <1>2, <1>3, <1>9, <1>12, MovesStill
  <1>13. CASE f \in DOMAIN work.states["range"] /\ ~work.states["range"][f].temp /\ work' = PlanBlocks(rest, f)
    <2>1. f \in In(rest, "range") /\ ~rest.states["range"][f].temp
      BY <1>7, <1>13 DEF In
    <2>2. /\ Own(work', comparing, planTasks, planResults)
          /\ TasksBegun(work', comparing, active, Opens, incoming) /\ Blk(work', active, Opens, incoming)
      BY <1>9, <1>11, <1>13, <2>1, PlansBlocks
    <2> QED
      BY <1>1, <1>2, <1>3, <2>2, StillKeeps
  <1>14. CASE f \in DOMAIN work.states["range"] /\ work' = FallsBack(rest, "range", f)
    <2>1. f \in In(rest, "range") /\ "range" \in Kind
      BY <1>7, <1>14 DEF In, Kind
    <2>2. Own(work', comparing, planTasks, planResults) /\ Moves(rest, comparing, work', comparing)
      BY <1>9, <1>14, <2>1, FallsBackOwner
    <2>3. Moves(work, comparing, work', comparing)
      BY <1>9, <2>2, MovesTwice
    <2> QED
      BY <1>1, <1>2, <1>3, <2>2, <2>3, MovesStill
  <1> QED
    BY <1>6, <1>12, <1>13, <1>14

LEMMA PumpDeltaSignaturesKeeps ==
    ASSUME Inv, PumpDeltaSignatures
    PROVE  Inv'
  <1> DEFINE keep == SubSeq(work.sigQueue, Cardinality(SigBatch) + 1, Len(work.sigQueue))
             send(at) == [i \in DOMAIN at |-> work.sigQueue[at[i]]]
             news(at) == {[type |-> "BlockSigRequest", lane |-> ControlConn, sid |-> 0, rel |-> f] :
                             f \in ToSet(send(at))}
  <1>1. /\ UNCHANGED <<nextStreamId, inFlight, incoming, active, batch>>
        /\ UNCHANGED <<result, planTasks, planResults, comparing>> /\ Onward("sigs")
    BY DEF PumpDeltaSignatures, LoopStep
  <1>2. PICK at \in SetToSeqs(SigBatch \cap LiveSigs) :
           \/ /\ work' = [work EXCEPT !.sigQueue = keep, !.sigRequested = @ \cup ToSet(send(at)),
                                      !.sigInFlight = @ + Len(send(at))]
              /\ asked' = asked \cup news(at) /\ healthy' = healthy
           \/ /\ healthy' = [healthy EXCEPT ![ControlConn] = FALSE]
              /\ work' = [work EXCEPT !.sigQueue = send(at) \o keep] /\ asked' = asked
    BY DEF PumpDeltaSignatures
  <1>3. Own(work, comparing, planTasks, planResults) /\ result' # "aborted"
    BY <1>1 DEF Inv, FileInv
  <1>4. DOMAIN work = Fields /\ In(work, "delta") \subseteq File
    BY <1>3 DEF Own, WorkType, Kind
  <1>5. ToSet(send(at)) \subseteq In(work, "delta")
    <2>1. \A i \in DOMAIN at : at[i] \in LiveSigs
      BY <1>2 DEF SetToSeqs
    <2>2. \A i \in DOMAIN at : work.sigQueue[at[i]] \in In(work, "delta")
      BY <2>1 DEF LiveSigs, In
    <2> QED
      BY <2>2 DEF ToSet
  <1> HIDE DEF send, keep
  <1>6. news(at) \subseteq SigRequest
    BY <1>4, <1>5, ControlIs DEF SigRequest
  <1> HIDE DEF news
  <1>7. Still
    <2>1. pc' # "process"
      BY <1>1, MovesOn
    <2>2. healthy' \in [Lane -> BOOLEAN] /\ \A l \in Lane : healthy'[l] => healthy[l]
      BY <1>2, ControlIs DEF Inv, NetInv, NetType
    <2>3. asked' \subseteq asked \cup SigRequest
      BY <1>2, <1>6
    <2> QED
      BY <1>1, <2>1, <2>2, <2>3 DEF Still, Inv, NetInv, NetType
  <1>8. /\ DOMAIN work' = Fields /\ \A x \in Fields \ {"sigQueue", "sigRequested", "sigInFlight"} : work'[x] = work[x]
        /\ work'.sigRequested \subseteq work.sigRequested \cup In(work, "delta")
    BY <1>2, <1>4, <1>5 DEF Fields
  <1>9. /\ work'.queue = work.queue /\ work'.pending = work.pending
        /\ Rest(work, work', {"sigQueue", "sigRequested", "sigInFlight", "planQueue", "pending", "queue"})
    BY <1>8 DEF Fields, Rest
  <1>10. /\ work'.pending \in Seq(File) /\ DOMAIN work'.queue = Kind
        /\ \A k \in Kind : work'.queue[k] \in Seq(Task)
    BY <1>3, <1>9 DEF Own, WorkType
  <1>11. Own(work', comparing, planTasks, planResults) /\ Moves(work, comparing, work', comparing)
    BY <1>3, <1>8, <1>9, <1>10, KeepsOwner
  <1> QED
    BY <1>1, <1>3, <1>7, <1>11, MovesStill

-----------------------------------------------------------------------------
(* The passes that start streams.                                          *)

LEMMA NoCut ==
    ASSUME NEW q \in Seq(Task)
    PROVE  Cut(q, q, 0)
  <1>1. DOMAIN q = 1 .. Len(q) /\ Len(q) \in Nat
    OBVIOUS
  <1> QED
    BY <1>1 DEF Cut

\* The queues once a pass has dropped what nobody wants.
LEMMA PassTrims ==
    ASSUME Inv, NEW kind \in StreamKind, NEW v, v = Queued(kind, Waiting(kind))
    PROVE  /\ Own(v, comparing, planTasks, planResults)
           /\ TasksBegun(v, comparing, active, Opens, incoming) /\ Blk(v, active, Opens, incoming)
           /\ kind \in Kind => v.queue[kind] = Waiting(kind) /\ Waiting(kind) \in Seq(Task)
           /\ kind \in Kind /\ Waiting(kind) # <<>> => Waiting(kind)[1].rel \in In(v, kind)
  <1>1. /\ Own(work, comparing, planTasks, planResults) /\ WorkType(work)
        /\ TasksBegun(work, comparing, active, Opens, incoming) /\ Blk(work, active, Opens, incoming)
        /\ Right(work)
    BY DEF Inv, FileInv, Blk, Own
  <1>2. /\ Shape(work) /\ work.pending \in Seq(File) /\ "range" \in Kind /\ "delta" \in Kind /\ "file" \notin Kind
        /\ work.queue["range"] \in Seq(Task) /\ work.queue["delta"] \in Seq(Task)
    BY <1>1 DEF WorkType, Shape, Kind
  <1>3. CASE kind = "file"
    <2>1. /\ v = [work EXCEPT !.pending = [i \in DOMAIN Waiting(kind) |-> Waiting(kind)[i].rel]]
          /\ Waiting(kind) = [i \in DOMAIN work.pending |-> [rel |-> work.pending[i], block |-> 0]]
      BY <1>3 DEF Queued, Waiting
    <2>2. [i \in DOMAIN Waiting(kind) |-> Waiting(kind)[i].rel] = [i \in DOMAIN work.pending |-> work.pending[i]]
      BY <2>1
    <2>3. [i \in DOMAIN work.pending |-> work.pending[i]] = work.pending
      BY <1>2
    <2>4. v = [work EXCEPT !.pending = work.pending]
      BY <2>1, <2>2, <2>3
    <2>5. /\ DOMAIN v = Fields /\ v.queue = work.queue /\ v.pending = work.pending
          /\ v.sigRequested = work.sigRequested
          /\ Rest(work, v, {"sigQueue", "sigRequested", "sigInFlight", "planQueue", "pending", "queue"})
      BY <1>2, <2>4 DEF Shape, Rest, Fields
    <2>6. DOMAIN v.queue = Kind /\ \A k \in Kind : v.queue[k] \in Seq(Task)
      BY <1>1, <2>5 DEF WorkType
    <2>7. Own(v, comparing, planTasks, planResults) /\ Moves(work, comparing, v, comparing)
      BY <1>1, <1>2, <2>5, <2>6, KeepsOwner
    <2>8. Shape(v)
      BY <2>7 DEF Own, WorkType, Shape
    <2>9. TasksBegun(v, comparing, active, Opens, incoming) /\ Blk(v, active, Opens, incoming)
      BY <1>1, <2>7, <2>8, MovesKeeps
    <2> QED
      BY <1>2, <1>3, <2>7, <2>9
  <1>4. CASE kind \in Kind
    <2>1. v = [work EXCEPT !.queue[kind] = Wanted(work, kind)] /\ Waiting(kind) = Wanted(work, kind)
      BY <1>2, <1>4 DEF Queued, Waiting
    <2>2. PICK n : /\ Cut(work.queue[kind], Wanted(work, kind), n)
                   /\ \A i \in DOMAIN work.queue[kind] : ~(i > n) => work.queue[kind][i].rel \notin In(work, kind)
                   /\ Wanted(work, kind) # <<>> => Wanted(work, kind)[1].rel \in In(work, kind)
      BY <1>1, <1>4, WantedIs
    <2>3. Wanted(work, kind) \in Seq(Task)
      BY <2>2 DEF Cut
    <2>4. /\ DOMAIN v = Fields /\ \A x \in Fields \ {"queue"} : v[x] = work[x]
          /\ v.queue = [work.queue EXCEPT ![kind] = Wanted(work, kind)]
      BY <1>2, <2>1 DEF Shape, Fields
    <2>5. /\ DOMAIN v.queue = Kind /\ v.queue[kind] = Wanted(work, kind)
          /\ \A k \in Kind \ {kind} : v.queue[k] = work.queue[k]
      BY <1>2, <1>4, <2>4 DEF Shape
    <2>6. \A k \in Kind : v.queue[k] \in Seq(Task)
      BY <1>1, <2>3, <2>5 DEF WorkType
    <2>7. /\ Rest(work, v, {"sigQueue", "sigRequested", "sigInFlight", "planQueue", "pending", "queue"})
          /\ v.pending = work.pending /\ v.sigRequested = work.sigRequested
      BY <2>4 DEF Rest, Fields
    <2>8. /\ Own(v, comparing, planTasks, planResults) /\ BegunKept(work, v, comparing)
          /\ v.states = work.states /\ v.temps = work.temps /\ Right(v)
      BY <1>1, <1>2, <2>4, <2>5, <2>6, <2>7, KeepsOwner DEF BegunKept
    <2>9. kind = "range" \/ kind = "delta"
      BY <1>4 DEF Kind
    <2>10. TasksBegun(v, comparing, active, Opens, incoming) /\ Blk(v, active, Opens, incoming)
      <3>1. CASE kind = "range"
        <4>1. Cut(work.queue["delta"], v.queue["delta"], 0)
          BY <1>2, <2>5, <3>1, NoCut
        <4>2. Cut(work.queue["range"], v.queue["range"], n)
          BY <2>2, <2>5, <3>1
        <4> QED
          BY <1>1, <2>2, <2>8, <3>1, <4>1, <4>2, CutsBlocks
      <3>2. CASE kind = "delta"
        <4>1. Cut(work.queue["range"], v.queue["range"], 0)
          BY <1>2, <2>5, <3>2, NoCut
        <4>2. Cut(work.queue["delta"], v.queue["delta"], n)
          BY <2>2, <2>5, <3>2
        <4>3. \A i \in DOMAIN work.queue["range"] : i > 0
          BY <1>2
        <4> QED
          BY <1>1, <2>8, <4>1, <4>2, <4>3, CutsBlocks
      <3> QED
        BY <2>9, <3>1, <3>2
    <2>11. In(v, kind) = In(work, kind)
      BY <2>8 DEF In
    <2> QED
      BY <1>2, <1>4, <2>1, <2>2, <2>3, <2>5, <2>8, <2>10, <2>11
  <1> QED
    BY <1>3, <1>4 DEF StreamKind

LEMMA PassEndsKeeps ==
    ASSUME Inv, NEW kind \in StreamKind,
           NEW here \in {"files", "sigs", "plans", "deltaRanges", "rangePlans", "fileRanges"},
           StartFails(kind, here) \/ StartsDone(kind, here)
    PROVE  Inv'
  <1>1. /\ UNCHANGED <<inFlight, asked, incoming, active, batch>>
        /\ UNCHANGED <<result, planTasks, planResults, comparing>> /\ Onward(here)
        /\ work' = Queued(kind, Waiting(kind))
    BY DEF StartFails, StartsDone, LoopStep
  <1>2. \/ UNCHANGED <<healthy, nextStreamId>>
        \/ /\ PickConnection(kind) # NoLane
           /\ healthy' = [healthy EXCEPT ![PickConnection(kind)] = FALSE]
           /\ nextStreamId' = [nextStreamId EXCEPT ![PickConnection(kind)] = @ + 1]
    BY DEF StartFails, StartsDone
  <1>3. NetType
    BY DEF Inv, NetInv
  <1>4. Still
    <2>1. pc' # "process"
      BY <1>1, MovesOn
    <2>2. PickConnection(kind) # NoLane => PickConnection(kind) \in Lane
      BY <1>3, PickIs
    <2>3. healthy' \in [Lane -> BOOLEAN] /\ \A l \in Lane : healthy'[l] => healthy[l]
      BY <1>2, <1>3, <2>2 DEF NetType
    <2>4. nextStreamId' \in [Lane -> Nat \ {0}] /\ \A l \in Lane : nextStreamId[l] <= nextStreamId'[l]
      <3>1. \A l \in Lane : nextStreamId[l] \in Nat \ {0}
        BY <1>3 DEF NetType
      <3>2. CASE UNCHANGED nextStreamId
        BY <1>3, <3>1, <3>2 DEF NetType
      <3>3. ASSUME NEW m \in Lane, nextStreamId' = [nextStreamId EXCEPT ![m] = @ + 1]
            PROVE  nextStreamId' \in [Lane -> Nat \ {0}] /\ \A l \in Lane : nextStreamId[l] <= nextStreamId'[l]
        BY <1>3, <3>1, <3>3 DEF NetType
      <3> QED
        BY <1>2, <2>2, <3>2, <3>3
    <2> QED
      BY <1>1, <2>1, <2>3, <2>4 DEF Still
  <1>5. /\ Own(work', comparing, planTasks, planResults)
        /\ TasksBegun(work', comparing, active, Opens, incoming) /\ Blk(work', active, Opens, incoming)
    BY <1>1, PassTrims
  <1>6. result' # "aborted"
    BY <1>1 DEF Inv, FileInv
  <1> QED
    BY <1>1, <1>4, <1>5, <1>6, StillKeeps

LEMMA FreshKey ==
    ASSUME NetInv, NEW l \in Lane
    PROVE  /\ <<l, nextStreamId[l]>> \notin DOMAIN active
           /\ \A r \in Opens : Key(r) # <<l, nextStreamId[l]>>
           /\ \A i \in DOMAIN incoming : Key(incoming[i]) # <<l, nextStreamId[l]>>
  <1>1. \A k \in DOMAIN active : k[2] \in Nat /\ k[2] < nextStreamId[k[1]]
    BY DEF NetInv, NetType, IdsFresh
  <1>2. \A r \in Opens : r.sid \in Nat /\ r.sid < nextStreamId[r.lane]
    BY OpensAre DEF NetInv, IdsFresh
  <1>3. \A i \in DOMAIN incoming : incoming[i].sid \in Nat /\ incoming[i].sid < nextStreamId[incoming[i].lane]
    BY OpensAre DEF NetInv, IdsFresh
  <1>4. nextStreamId[l] \in Nat
    BY DEF NetInv, NetType
  <1> QED
    BY <1>1, <1>2, <1>3, <1>4 DEF Key

\* A pass starts a stream for the task at the head of its queue; u is work before.
LEMMA StartOpens ==
    ASSUME Inv, NEW kind \in StreamKind,
           NEW here \in {"files", "sigs", "plans", "deltaRanges", "rangePlans", "fileRanges"},
           Start(kind, here), NEW task, task = Head(Waiting(kind)), task.rel \in File,
           NEW u, TasksBegun(u, comparing, active, Opens, incoming), Blk(u, active, Opens, incoming),
           kind \in Kind => Begun(u, comparing, kind, task.rel) /\ task.block \in Nat,
           Own(work', comparing, planTasks, planResults), BegunKept(u, work', comparing),
           work'.states = u.states, work'.temps = u.temps, Right(work'),
           NEW n \in {0, 1}, Cut(u.queue["range"], work'.queue["range"], n),
           n = 1 <=> kind = "range",
           n = 1 => 1 \in DOMAIN u.queue["range"] /\ u.queue["range"][1] = task,
           \A i \in DOMAIN u.queue["range"] : i = 1 \/ i > 1,
           NEW m, Cut(u.queue["delta"], work'.queue["delta"], m)
    PROVE  Inv'
  <1> DEFINE l == PickConnection(kind)
             key == <<l, nextStreamId[l]>>
             s == [kind |-> kind, rel |-> task.rel, block |-> task.block]
             new == [type |-> "Open", kind |-> s.kind, lane |-> l, sid |-> nextStreamId[l],
                     rel |-> s.rel, sent |-> s.kind = "file"]
  <1>1. /\ l # NoLane /\ UNCHANGED <<healthy, incoming, batch, comparing, planTasks, planResults, result>>
        /\ active' = With(active, key, s) /\ asked' = asked \cup {new}
        /\ nextStreamId' = [nextStreamId EXCEPT ![l] = @ + 1]
        /\ inFlight' = [inFlight EXCEPT ![l] = @ + 1] /\ Again(here)
    BY DEF Start, LoopStep
  <1>2. NetInv /\ NetType /\ FramesTaken /\ result # "aborted"
    BY DEF Inv, NetInv, FileInv
  <1>3. l \in Lane
    BY <1>1, <1>2, PickIs
  <1>4. s.kind = kind /\ s.rel = task.rel /\ s.block = task.block
    OBVIOUS
  <1>5. /\ Key(new) = key /\ new.kind = s.kind /\ new.rel = s.rel /\ new.type = "Open"
        /\ s.kind = "range" => ~new.sent
    BY DEF Key
  <1>6. inFlight' \in [Lane -> Nat]
    BY <1>1, <1>2, <1>3 DEF NetType
  <1>7. Opens1(l, s)
    BY <1>1, <1>3, <1>4, <1>6 DEF Opens1
  <1>8. NetInv'
    BY <1>2, <1>7, NetOpens
  <1>9. FramesTaken'
    BY <1>1, <1>2, MovesOn DEF FramesTaken
  <1>10. /\ key \notin DOMAIN active /\ \A r \in Opens : Key(r) # key
         /\ \A i \in DOMAIN incoming : Key(incoming[i]) # key
    BY <1>2, <1>3, FreshKey
  <1>11. Opens' = Opens \cup {new}
    BY <1>1, <1>5 DEF Opens
  <1> HIDE DEF l, key, s, new
  <1>12. /\ TasksBegun(work', comparing, With(active, key, s), Opens \cup {new}, incoming)
         /\ Blk(work', With(active, key, s), Opens \cup {new}, incoming)
    <2>1. s.kind \in Kind => Begun(u, comparing, s.kind, s.rel) /\ s.block \in Nat
      BY <1>4
    <2>2. /\ n = 1 <=> s.kind = "range"
          /\ n = 1 => 1 \in DOMAIN u.queue["range"] /\ u.queue["range"][1].rel = s.rel
                      /\ u.queue["range"][1].block = s.block
      BY <1>4
    <2> QED
      BY <1>5, <1>10, <2>1, <2>2, OpensBlock
  <1>13. FileInv'
    <2>1. TasksBegun(work', comparing', active', Opens', incoming') /\ Blk(work', active', Opens', incoming')
      BY <1>1, <1>11, <1>12
    <2>2. Own(work', comparing', planTasks', planResults') /\ result' # "aborted"
      BY <1>1, <1>2
    <2> QED
      BY <2>1, <2>2 DEF FileInv
  <1> QED
    BY <1>8, <1>9, <1>13 DEF Inv

LEMMA RelsAre ==
    ASSUME NEW p \in Seq(File), NEW W, W = [i \in DOMAIN p |-> [rel |-> p[i], block |-> 0]], W # <<>>
    PROVE  [i \in DOMAIN Tail(W) |-> Tail(W)[i].rel] \in Seq(File) /\ Head(W).rel \in File
  <1>1. W \in Seq(Task) /\ Len(W) \in Nat \ {0}
    <2>1. Len(p) \in Nat /\ DOMAIN p = 1 .. Len(p) /\ \A i \in 1 .. Len(p) : p[i] \in File
      OBVIOUS
    <2>2. W \in [1 .. Len(p) -> Task]
      BY <2>1 DEF Task
    <2>3. W \in Seq(Task)
      BY <2>1, <2>2
    <2> QED
      BY <2>3
  <1>2. Tail(W) \in Seq(Task) /\ Head(W) \in Task
    BY <1>1
  <1>3. \A t \in Task : t.rel \in File
    BY DEF Task
  <1> DEFINE T == Tail(W)
  <1>4. T \in Seq(Task)
    BY <1>2
  <1> HIDE DEF T
  <1>5. [i \in DOMAIN T |-> T[i].rel] \in Seq(File)
    <2>1. Len(T) \in Nat /\ DOMAIN T = 1 .. Len(T) /\ \A i \in 1 .. Len(T) : T[i].rel \in File
      BY <1>3, <1>4
    <2> QED
      BY <2>1
  <1> QED
    BY <1>2, <1>3, <1>5 DEF T

LEMMA StartKeeps ==
    ASSUME Inv, NEW kind \in StreamKind,
           NEW here \in {"files", "sigs", "plans", "deltaRanges", "rangePlans", "fileRanges"},
           Start(kind, here)
    PROVE  Inv'
  <1>1. /\ Own(work, comparing, planTasks, planResults) /\ WorkType(work)
        /\ TasksBegun(work, comparing, active, Opens, incoming) /\ Blk(work, active, Opens, incoming)
        /\ Right(work)
    BY DEF Inv, FileInv, Blk, Own
  <1>2. /\ Shape(work) /\ work.pending \in Seq(File) /\ "range" \in Kind /\ "delta" \in Kind /\ "file" \notin Kind
        /\ work.queue["range"] \in Seq(Task) /\ work.queue["delta"] \in Seq(Task)
    BY <1>1 DEF WorkType, Shape, Kind
  <1>3. work' = Queued(kind, Tail(Waiting(kind))) /\ Waiting(kind) # <<>>
    BY DEF Start
  <1> DEFINE task == Head(Waiting(kind))
  <1>4. CASE kind = "file"
    <2>1. /\ work' = [work EXCEPT !.pending = [i \in DOMAIN Tail(Waiting(kind)) |-> Tail(Waiting(kind))[i].rel]]
          /\ Waiting(kind) = [i \in DOMAIN work.pending |-> [rel |-> work.pending[i], block |-> 0]]
      BY <1>3, <1>4 DEF Queued, Waiting
    <2>2. [i \in DOMAIN Tail(Waiting(kind)) |-> Tail(Waiting(kind))[i].rel] \in Seq(File) /\ task.rel \in File
      BY <1>2, <1>3, <2>1, RelsAre
    <2>3. /\ DOMAIN work' = Fields /\ work'.queue = work.queue /\ work'.pending \in Seq(File)
          /\ work'.sigRequested = work.sigRequested
          /\ Rest(work, work', {"sigQueue", "sigRequested", "sigInFlight", "planQueue", "pending", "queue"})
      BY <1>2, <2>1, <2>2 DEF Shape, Rest, Fields
    <2>4. DOMAIN work'.queue = Kind /\ \A k \in Kind : work'.queue[k] \in Seq(Task)
      BY <1>1, <2>3 DEF WorkType
    <2>5. /\ Own(work', comparing, planTasks, planResults) /\ BegunKept(work, work', comparing)
          /\ work'.states = work.states /\ work'.temps = work.temps /\ Right(work')
      BY <1>1, <2>3, <2>4, KeepsOwner DEF BegunKept
    <2>6. Cut(work.queue["range"], work'.queue["range"], 0) /\ Cut(work.queue["delta"], work'.queue["delta"], 0)
      BY <1>2, <2>3, NoCut
    <2>7. \A i \in DOMAIN work.queue["range"] : i = 1 \/ i > 1
      BY <1>2
    <2>8. 0 \in {0, 1} /\ (0 = 1 <=> kind = "range") /\ 0 # 1
      BY <1>4
    <2> HIDE DEF task
    <2> QED
      BY <1>1, <1>2, <1>4, <2>2, <2>5, <2>6, <2>7, <2>8, StartOpens DEF task
  <1>5. CASE kind \in Kind
    <2> DEFINE u == Queued(kind, Waiting(kind))
               W == Waiting(kind)
    <2>1. /\ Own(u, comparing, planTasks, planResults)
          /\ TasksBegun(u, comparing, active, Opens, incoming) /\ Blk(u, active, Opens, incoming)
          /\ u.queue[kind] = W /\ W \in Seq(Task) /\ W[1].rel \in In(u, kind)
      BY <1>3, <1>5, PassTrims
    <2>2. Cut(W, Tail(W), 1) /\ 1 \in DOMAIN W /\ task = W[1] /\ task \in Task
          /\ \A i \in DOMAIN W : i = 1 \/ i > 1
      BY <1>3, <2>1, TailCut
    <2>3. task.rel \in File /\ task.block \in Nat
      BY <2>2 DEF Task
    <2>4. Begun(u, comparing, kind, task.rel)
      BY <1>5, <2>1, <2>2 DEF TasksBegun
    <2>5. /\ DOMAIN work' = Fields /\ DOMAIN work'.queue = Kind /\ work'.queue[kind] = Tail(W)
          /\ \A k \in Kind \ {kind} : work'.queue[k] = u.queue[k]
          /\ \A x \in Fields \ {"queue"} : work'[x] = u[x]
      <3>1. work' = [work EXCEPT !.queue[kind] = Tail(W)] /\ u = [work EXCEPT !.queue[kind] = W]
        BY <1>2, <1>3, <1>5 DEF Queued
      <3> HIDE DEF u, W
      <3> QED
        BY <1>2, <1>5, <3>1 DEF Shape, Fields
    <2> HIDE DEF u, W, task
    <2>6. /\ Rest(u, work', {"sigQueue", "sigRequested", "sigInFlight", "planQueue", "pending", "queue"})
          /\ work'.pending = u.pending /\ work'.sigRequested = u.sigRequested
      BY <2>5 DEF Rest, Fields
    <2>7. Tail(W) \in Seq(Task)
      BY <2>2 DEF Cut
    <2>8. /\ u.pending \in Seq(File) /\ \A k \in Kind : u.queue[k] \in Seq(Task)
      BY <2>1 DEF Own, WorkType
    <2>9. \A k \in Kind : work'.queue[k] \in Seq(Task)
      BY <2>5, <2>7, <2>8
    <2>10. Right(u)
      BY <2>1 DEF Blk
    <2>11. /\ Own(work', comparing, planTasks, planResults) /\ BegunKept(u, work', comparing)
           /\ work'.states = u.states /\ work'.temps = u.temps /\ Right(work')
      BY <2>1, <2>5, <2>6, <2>8, <2>9, <2>10, KeepsOwner DEF BegunKept
    <2>12. kind = "range" \/ kind = "delta"
      BY <1>5 DEF Kind
    <2>13. \A i \in DOMAIN u.queue["range"] : i = 1 \/ i > 1
      <3>1. u.queue["range"] \in Seq(Task)
        BY <1>2, <2>8
      <3> QED
        BY <3>1
    <2>14. CASE kind = "range"
      <3>1. Cut(u.queue["range"], work'.queue["range"], 1)
        BY <2>1, <2>2, <2>5, <2>14
      <3>2. Cut(u.queue["delta"], work'.queue["delta"], 0)
        BY <1>2, <2>5, <2>8, <2>14, NoCut
      <3>3. 1 \in {0, 1} /\ (1 = 1 <=> kind = "range") /\ 1 \in DOMAIN u.queue["range"] /\ u.queue["range"][1] = task
        BY <2>1, <2>2, <2>14
      <3> QED
        BY <2>1, <2>3, <2>4, <2>11, <2>13, <3>1, <3>2, <3>3, StartOpens DEF task
    <2>15. CASE kind = "delta"
      <3>1. Cut(u.queue["delta"], work'.queue["delta"], 1)
        BY <2>1, <2>2, <2>5, <2>15
      <3>2. Cut(u.queue["range"], work'.queue["range"], 0)
        BY <1>2, <2>5, <2>8, <2>15, NoCut
      <3>3. 0 \in {0, 1} /\ (0 = 1 <=> kind = "range") /\ 0 # 1
        BY <2>15
      <3> QED
        BY <2>1, <2>3, <2>4, <2>11, <2>13, <3>1, <3>2, <3>3, StartOpens DEF task
    <2> QED
      BY <2>12, <2>14, <2>15
  <1> QED
    BY <1>4, <1>5 DEF StreamKind

-----------------------------------------------------------------------------
(* failoverScan and the end of an iteration.                               *)

Recalled(act, ks) == [i \in DOMAIN ks |-> [rel |-> act[ks[i]].rel, block |-> act[ks[i]].block]]

LEMMA RecalledIs ==
    ASSUME NEW act, NEW S, IsFiniteSet(S), NEW ks \in SetToSeqs(S),
           \A k \in S : act[k].rel \in File /\ act[k].block \in Nat
    PROVE  /\ Recalled(act, ks) \in Seq(Task) /\ DOMAIN Recalled(act, ks) = DOMAIN ks
           /\ \A i \in DOMAIN ks : /\ ks[i] \in S /\ Recalled(act, ks)[i].rel = act[ks[i]].rel
                                   /\ Recalled(act, ks)[i].block = act[ks[i]].block
  <1>1. ks \in Seq(S)
    BY Enumerates
  <1>2. Len(ks) \in Nat /\ DOMAIN ks = 1 .. Len(ks) /\ \A i \in DOMAIN ks : ks[i] \in S
    BY <1>1
  <1>3. Recalled(act, ks) \in [1 .. Len(ks) -> Task]
    BY <1>2 DEF Recalled, Task
  <1>4. Recalled(act, ks) \in Seq(Task)
    BY <1>2, <1>3
  <1> QED
    BY <1>2, <1>4 DEF Recalled

LEMMA RefetchedIs ==
    ASSUME NEW act, NEW S, IsFiniteSet(S), NEW ks \in SetToSeqs(S), NEW p \in Seq(File),
           \A k \in S : act[k].rel \in File
    PROVE  p \o [i \in DOMAIN ks |-> act[ks[i]].rel] \in Seq(File)
  <1>1. ks \in Seq(S)
    BY Enumerates
  <1>2. Len(ks) \in Nat /\ DOMAIN ks = 1 .. Len(ks) /\ \A i \in DOMAIN ks : ks[i] \in S
    BY <1>1
  <1>3. [i \in DOMAIN ks |-> act[ks[i]].rel] \in [1 .. Len(ks) -> File]
    BY <1>2
  <1>4. [i \in DOMAIN ks |-> act[ks[i]].rel] \in Seq(File)
    BY <1>2, <1>3
  <1> QED
    BY <1>4

LEMMA FailoverScanKeeps ==
    ASSUME Inv, FailoverScan
    PROVE  Inv'
  <1> DEFINE dead == {l \in Lane : ~healthy[l] /\ ~drained[l]}
             streams == {k \in DOMAIN active : k[1] \in dead}
             Lost(kind) == {k \in streams : /\ active[k].kind = kind
                                            /\ kind \in Kind => active[k].rel \in In(work, kind)}
             again == IF dead # {} /\ HealthyConnCount > 0 THEN Unanswered(work) ELSE {}
  <1>1. PICK files \in SetToSeqs(Lost("file")), deltas \in SetToSeqs(Lost("delta")),
             ranges \in SetToSeqs(Lost("range")), fs \in SetToSeqs(again) :
           work' = SignAgain(Requeue(work, files, deltas, ranges), fs)
    BY DEF FailoverScan, In
  <1>2. /\ active' = Without(active, streams)
        /\ inFlight' = [l \in Lane |-> IF l \in dead THEN 0 ELSE inFlight[l]]
        /\ UNCHANGED <<healthy, nextStreamId, asked, incoming, batch, result, comparing, planTasks, planResults>>
        /\ GoTo(1)
    BY DEF FailoverScan, planVars
  <1>3. /\ Own(work, comparing, planTasks, planResults) /\ WorkType(work)
        /\ TasksBegun(work, comparing, active, Opens, incoming) /\ Blk(work, active, Opens, incoming)
        /\ Right(work) /\ NetInv /\ NetType /\ FramesTaken /\ result # "aborted"
    BY DEF Inv, FileInv, Blk, Own, NetInv
  <1>4. /\ Shape(work) /\ work.pending \in Seq(File) /\ "range" \in Kind /\ "delta" \in Kind /\ "file" \notin Kind
        /\ work.queue["range"] \in Seq(Task) /\ work.queue["delta"] \in Seq(Task)
        /\ \A k \in Kind : k = "range" \/ k = "delta"
    BY <1>3 DEF WorkType, Shape, Kind
  <1>5. \A k \in streams : k \in DOMAIN active /\ ~healthy[k[1]]
    OBVIOUS
  <1>6. \A kind : \A k : k \in Lost(kind) <=> /\ k \in streams /\ active[k].kind = kind
                                              /\ kind \in Kind => active[k].rel \in In(work, kind)
    OBVIOUS
  <1>7. inFlight' \in [Lane -> Nat]
    BY <1>2, <1>3 DEF NetType
  <1> HIDE DEF dead, streams, Lost, again
  <1>8. \A kind : IsFiniteSet(Lost(kind)) /\ \A k \in Lost(kind) : k \in DOMAIN active /\ active[k].rel \in File
    <2>1. \A kind : Lost(kind) \subseteq DOMAIN active
      BY <1>5, <1>6
    <2> QED
      BY <1>3, <2>1, FS_Subset DEF NetType
  <1>9. \A kind \in Kind : \A k \in Lost(kind) : /\ active[k].block \in Nat
                                                  /\ Begun(work, comparing, kind, active[k].rel)
    BY <1>3, <1>6, <1>8 DEF TasksBegun
  <1>10. NetInv'
    <2>1. \A l \in Lane : nextStreamId[l] <= nextStreamId[l]
      BY <1>3 DEF NetType
    <2>2. Shrinks(streams)
      BY <1>2, <1>3, <1>5, <1>7, <2>1 DEF Shrinks, NetType
    <2> QED
      BY <1>3, <2>2, NetShrinks
  <1>11. FramesTaken'
    <2>1. 1 \in 1 .. 7
      OBVIOUS
    <2>2. pc' # "process"
      BY <1>2, <2>1, GoToIs
    <2> QED
      BY <1>2, <1>3, <2>2 DEF FramesTaken
  <1> DEFINE D == Recalled(active, deltas)
             R == Recalled(active, ranges)
             pend == work.pending \o [i \in DOMAIN files |-> active[files[i]].rel]
  <1>12. /\ D \in Seq(Task) /\ DOMAIN D = DOMAIN deltas
         /\ \A i \in DOMAIN deltas : deltas[i] \in Lost("delta") /\ D[i].rel = active[deltas[i]].rel
    BY <1>4, <1>8, <1>9, RecalledIs
  <1>13. /\ R \in Seq(Task) /\ DOMAIN R = DOMAIN ranges
         /\ \A i \in DOMAIN ranges : /\ R[i].rel = active[ranges[i]].rel
                                     /\ R[i].block = active[ranges[i]].block
    BY <1>4, <1>8, <1>9, RecalledIs
  <1>14. pend \in Seq(File)
    BY <1>4, <1>8, RefetchedIs
  <1>15. /\ DOMAIN work' = Fields /\ work'.pending = pend /\ DOMAIN work'.queue = Kind
         /\ work'.queue["delta"] = work.queue["delta"] \o D
         /\ work'.queue["range"] = work.queue["range"] \o R
         /\ work'.sigRequested \subseteq work.sigRequested
         /\ Rest(work, work', {"sigQueue", "sigRequested", "sigInFlight", "planQueue", "pending", "queue"})
    <2> DEFINE q == [k \in Kind |-> work.queue[k] \o (IF k = "delta" THEN D ELSE R)]
    <2>1. Requeue(work, files, deltas, ranges) = [work EXCEPT !.pending = pend, !.queue = q]
      <3>1. \A k \in Kind : Recalled(active, IF k = "delta" THEN deltas ELSE ranges) = IF k = "delta" THEN D ELSE R
        OBVIOUS
      <3>2. Requeue(work, files, deltas, ranges) =
              [work EXCEPT !.pending = pend,
                           !.queue = [k \in Kind |-> work.queue[k] \o Recalled(active, IF k = "delta" THEN deltas ELSE ranges)]]
        BY <1>4 DEF Requeue, Recalled, Shape, Fields
      <3>3. [k \in Kind |-> work.queue[k] \o Recalled(active, IF k = "delta" THEN deltas ELSE ranges)] = q
        BY <3>1
      <3> QED
        BY <3>2, <3>3
    <2>2. /\ DOMAIN q = Kind /\ q["delta"] = work.queue["delta"] \o D /\ q["range"] = work.queue["range"] \o R
      BY <1>4
    <2> HIDE DEF D, R, pend, q
    <2> DEFINE w1 == Requeue(work, files, deltas, ranges)
    <2>3. /\ DOMAIN w1 = Fields /\ w1.pending = pend /\ w1.queue = q
          /\ \A x \in Fields \ {"pending", "queue"} : w1[x] = work[x]
      BY <1>4, <2>1 DEF Shape, Fields
    <2> HIDE DEF w1
    <2>4. /\ DOMAIN work' = Fields /\ \A x \in Fields \ {"sigRequested", "sigQueue", "sigInFlight"} : work'[x] = w1[x]
          /\ work'.sigRequested = w1.sigRequested \ ToSet(fs)
      BY <1>1, <2>3 DEF SignAgain, Fields, w1
    <2> QED
      BY <2>2, <2>3, <2>4 DEF Rest, Fields
  <1> HIDE DEF D, R, pend
  <1>16. \A k \in Kind : work'.queue[k] \in Seq(Task)
    BY <1>4, <1>12, <1>13, <1>15, ConcatTask, ZenonT(40)
  <1>17. /\ Own(work', comparing, planTasks, planResults) /\ BegunKept(work, work', comparing)
         /\ work'.states = work.states /\ work'.temps = work.temps /\ Right(work')
    BY <1>3, <1>14, <1>15, <1>16, KeepsOwner DEF BegunKept
  <1>18. \A i \in DOMAIN work'.queue["delta"] : Begun(work, comparing, "delta", work'.queue["delta"][i].rel)
    <2> DEFINE s == work.queue["delta"]
    <2>1. \A i \in DOMAIN (s \o D) :
                \/ i \in DOMAIN s /\ (s \o D)[i] = s[i]
                \/ i - Len(s) \in DOMAIN D /\ (s \o D)[i] = D[i - Len(s)]
      BY <1>4, <1>12, ConcatIs
    <2>2. \A i \in DOMAIN s : Begun(work, comparing, "delta", s[i].rel)
      BY <1>3, <1>4 DEF TasksBegun
    <2>3. \A i \in DOMAIN D : Begun(work, comparing, "delta", D[i].rel)
      BY <1>4, <1>9, <1>12
    <2> HIDE DEF s
    <2>4. \A i \in DOMAIN (s \o D) : Begun(work, comparing, "delta", (s \o D)[i].rel)
      BY <2>1, <2>2, <2>3
    <2> QED
      BY <1>15, <2>4 DEF s
  <1>19. /\ DOMAIN active' = DOMAIN active \ streams
         /\ \A k \in DOMAIN active' : active'[k] = active[k]
    BY <1>2 DEF Without, Restrict
  <1>20. \A k : k \in Lost("range") <=> /\ k \in DOMAIN active /\ k \notin DOMAIN active'
                                        /\ active[k].kind = "range" /\ active[k].rel \in In(work, "range")
    BY <1>4, <1>5, <1>6, <1>19
  <1>21. /\ TasksBegun(work', comparing, active', Opens, incoming)
         /\ Blk(work', active', Opens, incoming)
    <2>1. /\ DOMAIN active' \subseteq DOMAIN active /\ IsFiniteSet(Lost("range"))
          /\ \A k \in DOMAIN active' : active'[k] = active[k]
      BY <1>8, <1>19
    <2>2. ranges \in SetToSeqs(Lost("range"))
      BY <1>1
    <2>3. work.queue["range"] \in Seq(Task) /\ work'.queue["range"] = work.queue["range"] \o R
      BY <1>4, <1>15
    <2>4. \A k : k \in Lost("range") <=> k \in LostBlocks(work, active, active')
      BY <1>20 DEF LostBlocks
    <2>5. Lost("range") = LostBlocks(work, active, active')
      BY <2>4
    <2>6. Recalls(work, active, active', ranges, R, work')
      BY <1>13, <2>1, <2>2, <2>3, <2>5 DEF Recalls
    <2> QED
      BY <1>3, <1>17, <1>18, <2>6, RequeuesBlocks
  <1>22. FileInv'
    <2>1. Opens' = Opens
      BY <1>2 DEF Opens
    <2> QED
      BY <1>2, <1>3, <1>17, <1>21, <2>1 DEF FileInv
  <1> QED
    BY <1>10, <1>11, <1>22 DEF Inv

LEMMA TestKeeps ==
    ASSUME Inv, Test
    PROVE  Inv'
  <1>1. UNCHANGED <<healthy, nextStreamId, inFlight, asked, incoming, active, comparing, planTasks,
                    planResults, work>>
    BY DEF Test, connVars, planVars
  <1>2. NetInv'
    BY <1>1 DEF Inv, NetInv, NetType, IdsFresh, AnswersKnown, Streamed, Grammar, Opens, Key
  <1>3. \/ pc' # "process" /\ batch' = batch
        \/ incoming # <<>> /\ batch' = Len(incoming)
    BY DEF Test
  <1>4. FramesTaken'
    <2>1. Len(incoming) \in Nat /\ (incoming # <<>> => 1 <= Len(incoming))
      BY DEF Inv, NetInv, NetType
    <2> QED
      BY <1>1, <1>3, <2>1 DEF FramesTaken, Inv
  <1>5. result' # "aborted"
    BY DEF Test, Inv, FileInv
  <1>6. FileInv'
    BY <1>1, <1>5 DEF Inv, FileInv, Opens
  <1> QED
    BY <1>2, <1>4, <1>6 DEF Inv

-----------------------------------------------------------------------------
(* processIncomingFrame.                                                   *)

LEMMA TakesFrame ==
    ASSUME Inv, NEW type, TakeFrame(type)
    PROVE  /\ incoming # <<>> /\ incoming' = Tail(incoming) /\ Frame.type = type
           /\ UNCHANGED <<healthy, nextStreamId, asked, comparing, planResults>>
           /\ Opens' = Opens
           /\ Proceed => FramesTaken'
  <1>1. /\ incoming' = Tail(incoming) /\ Frame.type = type /\ pc = "process" /\ batch' = batch - 1
        /\ UNCHANGED <<healthy, nextStreamId, asked, comparing, planResults>>
    BY DEF TakeFrame
  <1>2. batch \in Nat /\ 1 <= batch /\ batch <= Len(incoming) /\ NetType
    BY <1>1 DEF Inv, FramesTaken, NetInv
  <1>3. incoming # <<>>
    BY <1>2
  <1>4. Len(incoming) \in Nat /\ Len(incoming') = Len(incoming) - 1
    BY <1>1, <1>2, <1>3, TailIs
  <1>5. ASSUME Proceed PROVE FramesTaken'
    BY <1>1, <1>2, <1>4, <1>5 DEF Proceed, FramesTaken
  <1> QED
    BY <1>1, <1>3, <1>5 DEF Opens

\* A frame has been taken; gone is the stream it closed, if any.
LEMMA TakenKeeps ==
    ASSUME Inv, NEW type, TakeFrame(type), Proceed, NEW gone, Takes(gone),
           Own(work', comparing, planTasks', planResults),
           TasksBegun(work', comparing, active', Opens', incoming'),
           Blk(work', active', Opens', incoming')
    PROVE  Inv'
  <1>1. NetInv'
    BY NetTakes DEF Inv
  <1>2. FramesTaken' /\ UNCHANGED <<comparing, planResults>>
    BY TakesFrame
  <1>3. result' # "aborted"
    BY DEF Proceed, Inv, FileInv
  <1> QED
    BY <1>1, <1>2, <1>3 DEF Inv, FileInv

\* The same when what the frame does to work is known for the network before it.
LEMMA TakenAfter ==
    ASSUME Inv, NEW type, TakeFrame(type), Proceed, NEW gone, Takes(gone),
           Own(work', comparing, planTasks', planResults),
           TasksBegun(work', comparing, active, Opens, incoming),
           Blk(work', active, Opens, incoming),
           FrameKey \in DOMAIN active /\ Frame.type = "Data" /\ active[FrameKey].kind = "range"
             /\ active[FrameKey].rel \in In(work', "range") => BytesHere(work', active[FrameKey]),
           \A k \in gone \cap DOMAIN active :
              active[k].kind # "range" \/ active[k].rel \notin In(work', "range")
    PROVE  Inv'
  <1>1. NetInv
    BY DEF Inv
  <1>2. /\ BlocksOnce(work'.queue["range"], active) /\ DataFirst(work', active, Opens, incoming)
        /\ BlocksKept(work', active) /\ Right(work')
    BY DEF Blk
  <1>3. /\ TasksBegun(work', comparing, active', Opens', incoming')
        /\ BlocksOnce(work'.queue["range"], active') /\ DataFirst(work', active', Opens', incoming')
    BY <1>1, <1>2, FileTakes
  <1>4. /\ DOMAIN active' = DOMAIN active \ gone
        /\ \A k \in DOMAIN active' : active'[k] = active[k]
    BY DEF Takes, Without, Restrict
  <1>5. BlocksKept(work', active')
    BY <1>2, <1>4, KeptWithout
  <1>6. Blk(work', active', Opens', incoming')
    BY <1>2, <1>3, <1>5 DEF Blk
  <1> QED
    BY <1>3, <1>6, TakenKeeps

LEMMA TakesNone ==
    ASSUME Inv, NEW type, TakeFrame(type), UNCHANGED <<inFlight, active>>
    PROVE  Takes({})
  <1>1. NetType
    BY DEF Inv, NetInv
  <1>2. active' = Without(active, {}) /\ inFlight' \in [Lane -> Nat]
    BY <1>1, WithoutNone DEF NetType
  <1> QED
    BY <1>2, TakesFrame DEF Takes

LEMMA TakesOne ==
    ASSUME Inv, NEW type, TakeFrame(type), type # "Data", active' = Without(active, {FrameKey}),
           ReleaseSlot \/ UNCHANGED inFlight
    PROVE  Takes({FrameKey})
  <1>1. NetType /\ inFlight \in [Lane -> Nat]
    BY DEF Inv, NetInv, NetType
  <1>2. Frame.lane \in Lane
    BY <1>1, TakesFrame, TailIs
  <1>3. \A n \in Nat : AtLeastZero(n - 1) \in Nat
    BY DEF AtLeastZero
  <1>4. inFlight' \in [Lane -> Nat]
    BY <1>1, <1>2, <1>3 DEF ReleaseSlot
  <1> QED
    BY <1>4, TakesFrame DEF Takes

\* A frame of a stream that is gone changes nothing else.
LEMMA UnknownKeeps ==
    ASSUME Inv, NEW type \in {"Data", "End"}, TakeFrame(type), Unknown
    PROVE  Inv'
  <1>1. /\ ~Known /\ UNCHANGED <<inFlight, active, planTasks, work>>
        /\ healthy[Frame.lane] \/ Proceed
    BY DEF Unknown
  <1>2. ~healthy[Frame.lane]
    <2>1. /\ Frame = incoming[1] /\ FrameKey = Key(incoming[1]) /\ 1 \in DOMAIN incoming
          /\ incoming[1].type \in {"Data", "End"}
      BY TakesFrame, TailIs DEF Inv, NetInv
    <2>2. Streamed(incoming[1])
      BY <2>1 DEF Inv, NetInv, AnswersKnown
    <2> QED
      BY <1>1, <2>1, <2>2 DEF Streamed, Known
  <1>3. Takes({})
    BY <1>1, TakesNone
  <1>4. /\ Own(work', comparing, planTasks', planResults)
        /\ TasksBegun(work', comparing, active, Opens, incoming) /\ Blk(work', active, Opens, incoming)
    BY <1>1 DEF Inv, FileInv
  <1>5. FrameKey \notin DOMAIN active
    BY <1>1 DEF Known
  <1> QED
    BY <1>1, <1>2, <1>3, <1>4, <1>5, TakenAfter

LEMMA OnBlockSigResponseKeeps ==
    ASSUME Inv, OnBlockSigResponse
    PROVE  Inv'
  <1> DEFINE f == Frame.rel
             w == [work EXCEPT !.sigInFlight = AtLeastZero(@ - 1)]
  <1>1. /\ TakeFrame("BlockSigResponse") /\ Proceed /\ UNCHANGED <<inFlight, active>>
        /\ \/ /\ f \in In(w, "delta") /\ ~w.states["delta"][f].sigReceived
              /\ planTasks' = planTasks \cup {f}
              /\ work' = [w EXCEPT !.states["delta"][f].sigReceived = TRUE]
           \/ planTasks' = planTasks /\ work' = w
    BY DEF OnBlockSigResponse, In
  <1>2. /\ Own(work, comparing, planTasks, planResults) /\ WorkType(work)
        /\ TasksBegun(work, comparing, active, Opens, incoming) /\ Blk(work, active, Opens, incoming)
    BY DEF Inv, FileInv, Own
  <1>3. DOMAIN work = Fields
    BY <1>2 DEF WorkType
  <1>4. DOMAIN w = Fields /\ \A x \in Fields \ {"sigInFlight"} : w[x] = work[x]
    BY <1>3
  <1> HIDE DEF w, f
  <1>5. /\ w.queue = work.queue /\ w.pending = work.pending /\ w.sigRequested = work.sigRequested
        /\ Rest(work, w, {"sigQueue", "sigRequested", "sigInFlight", "planQueue", "pending", "queue"})
    BY <1>4 DEF Rest, Fields
  <1>6. w.pending \in Seq(File) /\ DOMAIN w.queue = Kind /\ \A k \in Kind : w.queue[k] \in Seq(Task)
    BY <1>2, <1>5 DEF WorkType
  <1>7. Own(w, comparing, planTasks, planResults) /\ Moves(work, comparing, w, comparing)
    BY <1>2, <1>4, <1>5, <1>6, KeepsOwner
  <1>8. Own(work', comparing, planTasks', planResults) /\ Moves(work, comparing, work', comparing)
    <2>1. CASE planTasks' = planTasks /\ work' = w
      BY <1>7, <2>1
    <2>2. CASE /\ f \in In(w, "delta") /\ ~w.states["delta"][f].sigReceived
               /\ planTasks' = planTasks \cup {f}
               /\ work' = [w EXCEPT !.states["delta"][f].sigReceived = TRUE]
      <3>1. Own(work', comparing, planTasks \cup {f}, planResults) /\ Moves(w, comparing, work', comparing)
        BY <1>7, <2>2, TasksOwner
      <3> QED
        BY <1>7, <2>2, <3>1, MovesTwice
    <2> QED
      BY <1>1, <2>1, <2>2
  <1>9. Shape(work')
    BY <1>8 DEF Own, WorkType, Shape
  <1>10. TasksBegun(work', comparing, active, Opens, incoming) /\ Blk(work', active, Opens, incoming)
    BY <1>2, <1>8, <1>9, MovesKeeps
  <1>11. Takes({}) /\ Frame.type # "Data"
    BY <1>1, TakesNone, TakesFrame
  <1> QED
    BY <1>1, <1>8, <1>10, <1>11, TakenAfter

LEMMA OnDataKeeps ==
    ASSUME Inv, OnData
    PROVE  Inv'
  <1>1. TakeFrame("Data")
    BY DEF OnData
  <1>2. CASE Unknown
    <2>1. "Data" \in {"Data", "End"}
      OBVIOUS
    <2> QED
      BY <1>1, <1>2, <2>1, UnknownKeeps
  <1> DEFINE s == active[FrameKey]
             mine == s.kind \in Kind /\ s.rel \in In(work, s.kind)
  <1>3. CASE Known /\ Proceed
    <2>1. /\ \/ mine /\ (\/ work' = WriteBlock(work, s)
                         \/ work' = [work EXCEPT !.states[s.kind][s.rel].writeError = TRUE])
             \/ ~mine /\ work' = work
          /\ UNCHANGED <<inFlight, active, planTasks>>
      BY <1>3 DEF OnData, Stream, In, Unknown
    <2>2. /\ Own(work, comparing, planTasks, planResults) /\ FrameKey \in DOMAIN active
          /\ TasksBegun(work, comparing, active, Opens, incoming) /\ Blk(work, active, Opens, incoming)
      BY <1>3 DEF Inv, FileInv, Known
    <2>3. Takes({})
      BY <1>1, <2>1, TakesNone
    <2>4. CASE mine /\ work' = WriteBlock(work, s)
      <3>1. /\ Own(work', comparing, planTasks, planResults)
            /\ TasksBegun(work', comparing, active, Opens, incoming) /\ Blk(work', active, Opens, incoming)
            /\ s.kind = "range" => BytesHere(work', s)
        BY <2>2, <2>4, WritesBlock
      <3> QED
        BY <1>1, <1>3, <2>1, <2>3, <3>1, TakenAfter
    <2>5. CASE mine /\ work' = [work EXCEPT !.states[s.kind][s.rel].writeError = TRUE]
      <3> DEFINE kind == s.kind
                 f == s.rel
      <3>1. kind \in Kind /\ f \in In(work, kind)
        BY <2>5
      <3>2. work' = [work EXCEPT !.states[kind][f].writeError = TRUE]
        BY <2>5
      <3> HIDE DEF kind, f
      <3>3. /\ Own(work', comparing, planTasks, planResults)
            /\ TasksBegun(work', comparing, active, Opens, incoming) /\ Blk(work', active, Opens, incoming)
            /\ kind = "range" => \A t : t.rel = f => BytesHere(work', t)
        BY <2>2, <3>1, <3>2, FailsBlock
      <3>4. s.kind = "range" => BytesHere(work', s)
        BY <3>3 DEF kind, f
      <3> QED
        BY <1>1, <1>3, <2>1, <2>3, <3>3, <3>4, TakenAfter
    <2>6. CASE ~mine /\ work' = work
      <3>1. ~(s.kind = "range" /\ s.rel \in In(work', "range"))
        BY <2>6 DEF Kind
      <3> QED
        BY <1>1, <1>3, <2>1, <2>2, <2>3, <2>6, <3>1, TakenAfter
    <2> QED
      BY <2>1, <2>4, <2>5, <2>6
  <1> QED
    BY <1>2, <1>3 DEF OnData

\* The End of a block comes when its bytes are in the temporary.
LEMMA EndAfterData ==
    ASSUME Inv, TakeFrame("End"), FrameKey \in DOMAIN active, active[FrameKey].kind = "range",
           active[FrameKey].rel \in In(work, "range")
    PROVE  BytesHere(work, active[FrameKey])
  <1>1. /\ Key(incoming[1]) = FrameKey /\ incoming[1].type = "End" /\ 1 \in DOMAIN incoming
        /\ DOMAIN incoming = 1 .. Len(incoming) /\ Len(incoming) \in Nat
    BY TakesFrame, TailIs DEF Inv, NetInv
  <1>2. \A i \in DOMAIN incoming : ~(i < 1)
    BY <1>1
  <1>3. ~BytesCome(FrameKey, Opens, incoming)
    BY <1>1, <1>2 DEF BytesCome
  <1> QED
    BY <1>3 DEF Inv, FileInv, Blk, DataFirst

LEMMA OnEndKeeps ==
    ASSUME Inv, OnEnd
    PROVE  Inv'
  <1>1. TakeFrame("End")
    BY DEF OnEnd
  <1>2. CASE Unknown
    <2>1. "End" \in {"Data", "End"}
      OBVIOUS
    <2> QED
      BY <1>1, <1>2, <2>1, UnknownKeeps
  <1> DEFINE s == active[FrameKey]
             mine == s.kind \in Kind /\ s.rel \in In(work, s.kind)
             v == Counted(work, s.kind, s.rel)
  <1>3. CASE Known /\ Proceed /\ ReleaseSlot
    <2>1. /\ \/ mine /\ (\/ v.states[s.kind][s.rel].pendingRanges = 0 /\ Finalize(v, s.kind, s.rel)
                         \/ work' = v)
             \/ ~mine /\ work' = work
          /\ active' = Without(active, {FrameKey}) /\ planTasks' = planTasks
      BY <1>3, Zenon DEF OnEnd, Stream, In, Unknown, Counted
    <2>2. /\ Own(work, comparing, planTasks, planResults) /\ FrameKey \in DOMAIN active
          /\ TasksBegun(work, comparing, active, Opens, incoming) /\ Blk(work, active, Opens, incoming)
          /\ NetInv
      BY <1>3 DEF Inv, FileInv, Known
    <2>3. Takes({FrameKey})
      BY <1>1, <1>3, <2>1, TakesOne
    <2>4. Frame.type # "Data"
      BY <1>1, TakesFrame
    <2>5. CASE mine
      <3> DEFINE kind == s.kind
                 f == s.rel
      <3>1. s.kind = "range" => BytesHere(work, s)
        BY <1>1, <2>2, <2>5, EndAfterData
      <3>2. Own(v, comparing, planTasks, planResults)
            /\ Ended(work, comparing, active, Opens, incoming, FrameKey, v)
        BY <2>2, <2>5, <3>1, EndsBlock
      <3> HIDE DEF v
      <3>3. /\ Shape(v) /\ f \in In(v, kind) /\ v.states[kind][f].temp
            /\ TasksBegun(v, comparing, active, Opens, incoming) /\ BlocksOnce(v.queue["range"], active)
            /\ DataFirst(v, active, Opens, incoming) /\ Right(v) /\ BlocksKept(v, Without(active, {FrameKey}))
            /\ (v.states[kind][f].pendingRanges = 0 /\ Sound(v, kind, f)
                 => v.temps[<<kind, f>>] = Block(f))
        BY <3>2 DEF Ended
      <3>4. kind \in Kind /\ ((v.states[kind][f].pendingRanges = 0 /\ Finalize(v, kind, f)) \/ work' = v)
        BY <2>1, <2>5
      <3> HIDE DEF kind, f, s
      <3>5. /\ TasksBegun(v, comparing, active', Opens', incoming')
            /\ BlocksOnce(v.queue["range"], active') /\ DataFirst(v, active', Opens', incoming')
        BY <2>2, <2>3, <2>4, <3>3, FileTakes
      <3>6. Blk(v, active', Opens', incoming')
        BY <2>1, <3>3, <3>5 DEF Blk
      <3>7. CASE work' = v
        BY <1>1, <1>3, <2>1, <2>3, <3>2, <3>5, <3>6, <3>7, TakenKeeps
      <3>8. CASE v.states[kind][f].pendingRanges = 0 /\ Finalize(v, kind, f)
        <4>1. Own(work', comparing, planTasks, planResults) /\ Moves(v, comparing, work', comparing)
          BY <3>2, <3>3, <3>4, <3>8, FinalizesOwner
        <4>2. Shape(work')
          BY <4>1 DEF Own, WorkType, Shape
        <4>3. /\ TasksBegun(work', comparing, active', Opens', incoming')
              /\ Blk(work', active', Opens', incoming')
          BY <3>5, <3>6, <4>1, <4>2, MovesKeeps
        <4> QED
          BY <1>1, <1>3, <2>1, <2>3, <4>1, <4>3, TakenKeeps
      <3> QED
        BY <3>4, <3>7, <3>8
    <2>6. CASE ~mine /\ work' = work
      <3>1. ~(s.kind = "range" /\ s.rel \in In(work', "range"))
        BY <2>6 DEF Kind
      <3>2. \A k \in {FrameKey} \cap DOMAIN active :
               active[k].kind # "range" \/ active[k].rel \notin In(work', "range")
        BY <3>1
      <3> QED
        <4>1. /\ Own(work', comparing, planTasks', planResults)
              /\ TasksBegun(work', comparing, active, Opens, incoming) /\ Blk(work', active, Opens, incoming)
          BY <2>1, <2>2, <2>6
        <4> HIDE DEF s, v, mine
        <4> QED
          BY <1>1, <1>3, <2>3, <2>4, <3>2, <4>1, TakenAfter
    <2> QED
      BY <2>1, <2>5, <2>6
  <1> QED
    BY <1>2, <1>3 DEF OnEnd

LEMMA OnDeltaErrorKeeps ==
    ASSUME Inv, OnDeltaError
    PROVE  Inv'
  <1> DEFINE f == Frame.rel
             w == IF ReleasesSigSlot(f)
                  THEN [work EXCEPT !.sigRequested = @ \ {f}, !.sigInFlight = AtLeastZero(@ - 1)]
                  ELSE work
  <1>1. /\ TakeFrame("DeltaError") /\ Proceed /\ CloseStream /\ planTasks' = planTasks
        /\ \/ work' = w
           \/ /\ f \in In(work, "delta") \/ f \in work.sigRequested
              /\ f \notin work.abandoned["delta"]
              /\ work' = ScheduleTransfer(Abandon(w, "delta", f), f)
    BY DEF OnDeltaError, In
  <1>2. /\ Own(work, comparing, planTasks, planResults) /\ WorkType(work)
        /\ TasksBegun(work, comparing, active, Opens, incoming) /\ Blk(work, active, Opens, incoming)
        /\ NetInv /\ NetType
    BY DEF Inv, FileInv, Own, NetInv
  <1>3. DOMAIN work = Fields
    BY <1>2 DEF WorkType
  <1>4. /\ DOMAIN w = Fields /\ w.sigRequested \subseteq work.sigRequested
        /\ \A x \in Fields \ {"sigInFlight", "sigRequested"} : w[x] = work[x]
    BY <1>3 DEF Fields
  <1> HIDE DEF w, f
  <1>5. /\ w.queue = work.queue /\ w.pending = work.pending /\ w.states = work.states
        /\ w.scheduled = work.scheduled /\ w.committed = work.committed
        /\ Rest(work, w, {"sigQueue", "sigRequested", "sigInFlight", "planQueue", "pending", "queue"})
    BY <1>4 DEF Rest, Fields
  <1>6. w.pending \in Seq(File) /\ DOMAIN w.queue = Kind /\ \A k \in Kind : w.queue[k] \in Seq(Task)
    BY <1>2, <1>5 DEF WorkType
  <1>7. Own(w, comparing, planTasks, planResults) /\ Moves(work, comparing, w, comparing)
    BY <1>2, <1>4, <1>5, <1>6, KeepsOwner
  <1>8. Own(work', comparing, planTasks, planResults) /\ Moves(work, comparing, work', comparing)
    <2>1. CASE work' = w
      BY <1>7, <2>1
    <2>2. CASE /\ f \in In(work, "delta") \/ f \in work.sigRequested
               /\ f \notin work.abandoned["delta"]
               /\ work' = ScheduleTransfer(Abandon(w, "delta", f), f)
      <3>1. f \in In(w, "delta") \cup Settled(w) /\ "delta" \in Kind
        BY <1>2, <1>5, <2>2 DEF Own, Owned, In, Settled, Kind
      <3>2. Own(work', comparing, planTasks, planResults) /\ Moves(w, comparing, work', comparing)
        BY <1>7, <2>2, <3>1, DropsOwner
      <3> QED
        BY <1>7, <3>2, MovesTwice
    <2> QED
      BY <1>1, <2>1, <2>2
  <1>9. Shape(work')
    BY <1>8 DEF Own, WorkType, Shape
  <1>10. TasksBegun(work', comparing, active, Opens, incoming) /\ Blk(work', active, Opens, incoming)
    BY <1>2, <1>8, <1>9, MovesKeeps
  <1>11. Takes({FrameKey}) /\ Frame.type = "DeltaError"
    BY <1>1, TakesOne, TakesFrame DEF CloseStream
  <1>12. \A k \in {FrameKey} \cap DOMAIN active : active[k].kind # "range"
    <2>1. Frame = incoming[1] /\ 1 \in DOMAIN incoming /\ FrameKey = Key(incoming[1])
      BY <1>1, <1>2, TakesFrame, TailIs
    <2> QED
      BY <1>2, <1>11, <2>1 DEF NetInv, AnswersKnown
  <1> QED
    BY <1>1, <1>8, <1>10, <1>11, <1>12, TakenAfter

LEMMA OnFileRangeErrorKeeps ==
    ASSUME Inv, OnFileRangeError
    PROVE  Inv'
  <1> DEFINE f == Frame.rel
  <1>1. /\ TakeFrame("FileRangeError") /\ Proceed /\ CloseStream /\ planTasks' = planTasks
        /\ work' = IF f \notin work.abandoned["range"] THEN FallsBack(work, "range", f) ELSE work
    BY DEF OnFileRangeError
  <1>2. /\ Own(work, comparing, planTasks, planResults) /\ WorkType(work) /\ Owned(work, comparing)
        /\ TasksBegun(work, comparing, active, Opens, incoming) /\ Blk(work, active, Opens, incoming)
        /\ NetInv /\ NetType
    BY DEF Inv, FileInv, Own, NetInv
  <1>3. /\ Frame = incoming[1] /\ 1 \in DOMAIN incoming /\ FrameKey = Key(incoming[1])
        /\ Frame.type = "FileRangeError" /\ f \in File
    BY <1>1, <1>2, TakesFrame, TailIs
  <1>4. Takes({FrameKey})
    BY <1>1, TakesOne DEF CloseStream
  <1>5. FrameKey \in DOMAIN active => active[FrameKey].rel = f
    BY <1>2, <1>3 DEF NetInv, AnswersKnown
  <1>6. Begun(work, comparing, "range", f)
    BY <1>2, <1>3 DEF TasksBegun
  <1>7. f \in In(work, "range") \cup Settled(work) /\ "range" \in Kind
    BY <1>2, <1>6 DEF Begun, Owned, Kind
  <1> HIDE DEF f
  <1>8. /\ Own(work', comparing, planTasks, planResults) /\ Moves(work, comparing, work', comparing)
        /\ f \notin In(work', "range")
    <2>1. CASE f \in work.abandoned["range"]
      <3>1. work' = work
        BY <1>1, <2>1 DEF f
      <3>2. f \notin In(work, "range")
        BY <1>2, <2>1 DEF Owned
      <3> QED
        BY <1>2, <3>1, <3>2, MovesItself
    <2>2. CASE f \notin work.abandoned["range"]
      <3>1. work' = FallsBack(work, "range", f)
        BY <1>1, <2>2 DEF f
      <3>2. Own(work', comparing, planTasks, planResults) /\ Moves(work, comparing, work', comparing)
        BY <1>2, <1>7, <3>1, FallsBackOwner
      <3>3. work' = ScheduleTransfer(Abandon(work, "range", f), f)
        BY <3>1 DEF FallsBack
      <3>4. Left(work, "range", f, Abandon(work, "range", f))
        BY <1>2, <1>3, <1>7, AbandonLeaves DEF WorkType, Shape, f
      <3> DEFINE u == Abandon(work, "range", f)
      <3>5. DOMAIN u = Fields /\ f \notin In(u, "range")
        BY <1>7, <3>4 DEF Left, Shape
      <3> HIDE DEF u
      <3>6. work' = ScheduleTransfer(u, f)
        BY <3>3 DEF u
      <3>7. work'.states = u.states
        BY <3>5, <3>6 DEF ScheduleTransfer, Fields
      <3> QED
        BY <3>2, <3>5, <3>7 DEF In
    <2> QED
      BY <2>1, <2>2
  <1>9. Shape(work')
    BY <1>8 DEF Own, WorkType, Shape
  <1>10. TasksBegun(work', comparing, active, Opens, incoming) /\ Blk(work', active, Opens, incoming)
    BY <1>2, <1>8, <1>9, MovesKeeps
  <1>11. \A k \in {FrameKey} \cap DOMAIN active : active[k].rel \notin In(work', "range")
    BY <1>5, <1>8
  <1>12. Frame.type # "Data"
    BY <1>3
  <1> QED
    BY <1>1, <1>4, <1>8, <1>10, <1>11, <1>12, TakenAfter

-----------------------------------------------------------------------------
(* The theorems.                                                           *)

LEMMA InitKeeps == Init => Inv
  <1> SUFFICES ASSUME Init PROVE Inv
    OBVIOUS
  <1>1. NetInv
    <2>1. IsFiniteSet(DOMAIN active)
      BY FS_EmptySet DEF Init
    <2>2. NetType
      BY <2>1 DEF Init, NetType, Frames
    <2>3. IdsFresh /\ AnswersKnown /\ Grammar
      BY DEF Init, IdsFresh, AnswersKnown, Grammar, Opens
    <2> QED
      BY <2>2, <2>3 DEF NetInv
  <1>2. FramesTaken
    BY DEF Init, FramesTaken
  <1>3. /\ work = NewWork(comparing) /\ comparing \subseteq File /\ planTasks = {} /\ planResults = <<>>
        /\ result = "running" /\ active = <<>> /\ incoming = <<>> /\ asked = {}
    BY BlockAssumption DEF Init, BlockAssumption
  <1>4. /\ DOMAIN work = Fields /\ work.changed = comparing /\ work.states = [k \in Kind |-> <<>>]
        /\ work.abandoned = [k \in Kind |-> {}] /\ work.queue = [k \in Kind |-> <<>>]
        /\ work.sigRequested = {} /\ work.pending = <<>> /\ work.scheduled = {} /\ work.temps = <<>>
        /\ work.committed = <<>>
    BY <1>3 DEF NewWork, Fields
  <1>5. "delta" \in Kind /\ "range" \in Kind /\ <<>> \in Seq(Task) /\ <<>> \in Seq(File)
        /\ DOMAIN <<>> = {} /\ \A k \in Kind : work.states[k] = <<>> /\ work.queue[k] = <<>>
    BY <1>4 DEF Kind
  <1>6. \A k \in Kind : In(work, k) = {}
    BY <1>5 DEF In
  <1>7. WorkType(work)
    BY <1>3, <1>4, <1>5, <1>6 DEF WorkType
  <1>8. Owned(work, comparing)
    BY <1>4, <1>5, <1>6 DEF Owned, Settled
  <1>9. PlansOnce(work, comparing, planTasks, planResults)
    BY <1>3, <1>5, <1>6 DEF PlansOnce, InPlanning
  <1>10. TempsOwned(work, planResults)
    <2>1. Held(work) = {} /\ Offered(planResults) = {}
      BY <1>3, <1>6 DEF Held, Offered
    <2> QED
      BY <1>4, <2>1 DEF TempsOwned
  <1>11. TasksBegun(work, comparing, active, Opens, incoming)
    BY <1>3, <1>5 DEF TasksBegun, Opens
  <1>12. Blk(work, active, Opens, incoming)
    BY <1>3, <1>4, <1>5, <1>6 DEF Blk, BlocksOnce, BlocksKept, DataFirst, Right
  <1> QED
    BY <1>1, <1>2, <1>3, <1>7, <1>8, <1>9, <1>10, <1>11, <1>12 DEF Inv, FileInv, Own

LEMMA StepKeeps == Inv /\ [Next]_vars => Inv'
  <1> SUFFICES ASSUME Inv, [Next]_vars PROVE Inv'
    OBVIOUS
  <1>0. /\ {"files", "deltaRanges", "fileRanges"}
              \subseteq {"files", "sigs", "plans", "deltaRanges", "rangePlans", "fileRanges"}
        /\ {"file", "delta", "range"} \subseteq StreamKind
    BY DEF StreamKind, Kind
  <1>1. CASE FailoverScan
    BY <1>1, FailoverScanKeeps
  <1>2. CASE StartFiles
    BY <1>0, <1>2, StartKeeps, PassEndsKeeps DEF StartFiles, Starts
  <1>3. CASE StartDeltaRanges
    BY <1>0, <1>3, StartKeeps, PassEndsKeeps DEF StartDeltaRanges, Starts
  <1>4. CASE StartFileRanges
    BY <1>0, <1>4, StartKeeps, PassEndsKeeps DEF StartFileRanges, Starts
  <1>5. CASE PumpDeltaSignatures
    BY <1>5, PumpDeltaSignaturesKeeps
  <1>6. CASE ApplyPlan
    BY <1>6, ApplyPlanKeeps
  <1>7. CASE PumpFileRangePlans
    BY <1>7, PumpFileRangePlansKeeps
  <1>8. CASE Test
    BY <1>8, TestKeeps
  <1>9. CASE OnBlockSigResponse
    BY <1>9, OnBlockSigResponseKeeps
  <1>10. CASE OnData
    BY <1>10, OnDataKeeps
  <1>11. CASE OnEnd
    BY <1>11, OnEndKeeps
  <1>12. CASE OnDeltaError
    BY <1>12, OnDeltaErrorKeeps
  <1>13. CASE OnFileRangeError
    BY <1>13, OnFileRangeErrorKeeps
  <1>14. CASE Compared
    BY <1>14, AdmitKeeps DEF Compared
  <1>15. CASE Server
    BY <1>15, ServerKeeps DEF Server
  <1>16. CASE Planned
    BY <1>16, PlanFinishesKeeps DEF Planned
  <1>17. CASE LaneFails
    BY <1>17, LaneDiesKeeps DEF LaneFails
  <1>18. CASE UNCHANGED vars
    <2>1. UNCHANGED <<healthy, nextStreamId, inFlight, asked, incoming, active, batch, pc, result,
                      comparing, planTasks, planResults, work>>
      BY <1>18 DEF vars, connVars, mainVars, planVars
    <2>2. Still
      BY <2>1, Quiet
    <2>3. /\ Own(work', comparing', planTasks', planResults') /\ result' # "aborted"
          /\ Moves(work, comparing, work', comparing')
      BY <2>1, MovesItself DEF Inv, FileInv
    <2> QED
      BY <2>2, <2>3, MovesStill
  <1> QED
    BY <1>1, <1>2, <1>3, <1>4, <1>5, <1>6, <1>7, <1>8, <1>9, <1>10, <1>11, <1>12, <1>13, <1>14,
       <1>15, <1>16, <1>17, <1>18 DEF Next, MainLoop

\* A file is renamed into place only with every block in its temporary, in every session of
\* any number of files, blocks, lanes and failures: a temporary that counts as complete holds
\* what it was planned with and what has ended since.
THEOREM CommittedHolds == Spec => []CommittedWhole
  <1>1. Inv => CommittedWhole
    BY DEF Inv, FileInv, Blk, Right, CommittedWhole
  <1> QED
    BY <1>1, InitKeeps, StepKeeps, PTL DEF Spec

\* One part of the client answers for a file at every moment, every temporary on disk has an
\* owner, and no late frame of a failed lane ends the session.
THEOREM OneOwnerHolds == Spec => []OneOwner
  <1>1. Inv => OneOwner
    <2> SUFFICES ASSUME Inv PROVE OneOwner
      OBVIOUS
    <2>1. /\ Owned(work, comparing) /\ TempsOwned(work, planResults)
          /\ planResults \in Seq(PlanResult) /\ result # "aborted"
      BY DEF Inv, FileInv, Own, PlansOnce
    <2>2. ASSUME NEW f \in work.changed \ comparing
          PROVE  Cardinality({o \in Kind \cup {"settled"} :
                                IF o \in Kind THEN f \in DOMAIN work.states[o]
                                ELSE f \in work.scheduled \cup DOMAIN work.committed}) = 1
      <3> DEFINE owners == {o \in Kind \cup {"settled"} :
                                IF o \in Kind THEN f \in DOMAIN work.states[o]
                                ELSE f \in work.scheduled \cup DOMAIN work.committed}
      <3>1. \E o : owners = {o}
        <4>1. /\ \A o : o \in owners <=> \/ o = "delta" /\ f \in In(work, "delta")
                                         \/ o = "range" /\ f \in In(work, "range")
                                         \/ o = "settled" /\ f \in Settled(work)
          BY DEF Kind, In, Settled
        <4> HIDE DEF owners
        <4>2. CASE f \in In(work, "delta")
          <5>1. \A o : o \in owners <=> o = "delta"
            BY <2>1, <4>1, <4>2 DEF Owned
          <5>2. owners = {"delta"}
            BY <5>1
          <5> QED
            BY <5>2
        <4>3. CASE f \in In(work, "range")
          <5>1. \A o : o \in owners <=> o = "range"
            BY <2>1, <4>1, <4>3 DEF Owned
          <5>2. owners = {"range"}
            BY <5>1
          <5> QED
            BY <5>2
        <4>4. CASE f \in Settled(work)
          <5>1. \A o : o \in owners <=> o = "settled"
            BY <2>1, <4>1, <4>4 DEF Owned
          <5>2. owners = {"settled"}
            BY <5>1
          <5> QED
            BY <5>2
        <4> QED
          BY <2>1, <4>2, <4>3, <4>4 DEF Owned
      <3> HIDE DEF owners
      <3>2. Cardinality(owners) = 1
        BY <3>1, FS_Singleton
      <3> QED
        BY <3>2 DEF owners
    <2>3. Offered(planResults) = {<<"delta", r.rel>> : r \in {p \in ToSet(planResults) : p.ok}}
      BY DEF Offered, ToSet
    <2>4. Held(work) = {t \in Kind \X File : t[2] \in DOMAIN work.states[t[1]] /\ work.states[t[1]][t[2]].temp}
      BY DEF Held, In
    <2> QED
      BY <2>1, <2>2, <2>3, <2>4 DEF OneOwner, TempsOwned
  <1> QED
    BY <1>1, InitKeeps, StepKeeps, PTL DEF Spec
=============================================================================
