-------------------------- MODULE ParallelDirWalk ---------------------------
(***************************************************************************)
(* The work-sharing directory walk (parallel_dir_walk.h) with the extra     *)
(* scan's processDir and finishWorker (extra_scan.cpp).  Walkers pop        *)
(* batches of directories from a shared stack under qmu, list them without  *)
(* the lock, push the sub-directories back and leave when the stack is      *)
(* empty and nobody is in the middle of a directory.  Every input of the    *)
(* wait predicate changes under qmu, so testing it and going to sleep is    *)
(* one step.  The scan is never cancelled (noCancel).  A directory's        *)
(* entries come in any order, and so do the children of a batch.            *)
(***************************************************************************)
EXTENDS Integers, Sequences, FiniteSets, SequencesExt

CONSTANTS
  Walker,          \* the threads of the walk
  Root,            \* the target directory
  SubDirs,         \* [directory -> set of its sub-directories]
  LocalFiles,      \* [directory -> set of its files, the excluded one left out]
  Unreadable,      \* directories that cannot be listed
  DirPopBatch      \* dirPopBatch

Dir == DOMAIN SubDirs

ASSUME WalkAssumption ==
  /\ Walker # {} /\ IsFiniteSet(Walker) /\ DirPopBatch \in Nat \ {0}
  /\ Root \in Dir /\ SubDirs \in [Dir -> SUBSET Dir] /\ IsFiniteSet(Dir)
  /\ DOMAIN LocalFiles = Dir /\ \A d \in Dir : IsFiniteSet(LocalFiles[d])

VARIABLES
  stack,           \* queue: a deque used at its back
  activeDirs,      \* activeDirs
  walker,          \* [Walker -> where the thread is]
  listing,         \* [Walker -> batch]
  context,         \* [Walker -> ctx.extraFiles]
  merged,          \* result.extraFiles
  firstError       \* firstError

walkVars == <<stack, activeDirs, walker, listing, context, merged, firstError>>

WalkInit ==
  /\ stack = <<>> /\ activeDirs = 0
  /\ walker = [w \in Walker |-> "off"]
  /\ listing = [w \in Walker |-> <<>>]
  /\ context = [w \in Walker |-> {}]
  /\ merged = {}
  /\ firstError = FALSE

WalkStarts ==
  /\ stack' = <<Root>>
  /\ walker' = [w \in Walker |-> "ready"]
  /\ UNCHANGED <<activeDirs, listing, context, merged, firstError>>

\* qcv.notify_all()
AllWoken(place) == [w \in Walker |-> IF place[w] = "asleep" THEN "ready" ELSE place[w]]

\* A walker tests the predicate: it sleeps, ends the walk, or pops a batch.
WalkerWaits(w) ==
  /\ walker[w] = "ready"
  /\ stack = <<>> /\ activeDirs # 0
  /\ walker' = [walker EXCEPT ![w] = "asleep"]
  /\ UNCHANGED <<stack, activeDirs, listing, context, merged, firstError>>

WalkerEnds(w) ==
  /\ walker[w] = "ready"
  /\ stack = <<>> /\ activeDirs = 0
  /\ walker' = [AllWoken(walker) EXCEPT ![w] = "flush"]
  /\ UNCHANGED <<stack, activeDirs, listing, context, merged, firstError>>

WalkerPops(w) ==
  LET take == IF Len(stack) < DirPopBatch THEN Len(stack) ELSE DirPopBatch IN
  /\ walker[w] = "ready"
  /\ stack # <<>>
  /\ listing' = [listing EXCEPT ![w] = Reverse(SubSeq(stack, Len(stack) - take + 1, Len(stack)))]
  /\ stack' = SubSeq(stack, 1, Len(stack) - take)
  /\ activeDirs' = activeDirs + take
  /\ walker' = [walker EXCEPT ![w] = "listing"]
  /\ UNCHANGED <<context, merged, firstError>>

\* The files a walk keeps: those the remote set does not hold.
Extras(d, remoteFiles) == IF d \in Unreadable THEN {} ELSE LocalFiles[d] \ remoteFiles

Children(d) == IF d \in Unreadable THEN {} ELSE SubDirs[d]

\* As below, with the exception swallowed.
WalkerListsSwallows(w, remoteFiles) ==
  /\ walker[w] = "listing"
  /\ \/ /\ context' = [context EXCEPT ![w] =
             @ \cup UNION {Extras(listing[w][i], remoteFiles) : i \in DOMAIN listing[w]}]
        /\ \E found \in SetToSeqs(UNION {Children(listing[w][i]) : i \in DOMAIN listing[w]}) :
             stack' = stack \o found
        /\ UNCHANGED firstError
     \/ \E n \in DOMAIN listing[w] :
          /\ context' = [context EXCEPT ![w] =
               @ \cup UNION {Extras(listing[w][i], remoteFiles) : i \in 1..(n - 1)}]
          /\ UNCHANGED firstError
          /\ UNCHANGED stack
  /\ activeDirs' = activeDirs - Len(listing[w])
  /\ walker' = LET back == [walker EXCEPT ![w] = "ready"]
               IN IF stack' # <<>> \/ activeDirs' = 0 THEN AllWoken(back) ELSE back
  /\ listing' = [listing EXCEPT ![w] = <<>>]
  /\ UNCHANGED merged

\* processDir for the whole batch, then the bookkeeping under qmu.  When it
\* throws at directory n, the files of the earlier ones stay in the context
\* and no child of the batch is pushed.
WalkerLists(w, remoteFiles) ==
  /\ walker[w] = "listing"
  /\ \/ /\ context' = [context EXCEPT ![w] =
             @ \cup UNION {Extras(listing[w][i], remoteFiles) : i \in DOMAIN listing[w]}]
        /\ \E found \in SetToSeqs(UNION {Children(listing[w][i]) : i \in DOMAIN listing[w]}) :
             stack' = stack \o found
        /\ UNCHANGED firstError
     \/ \E n \in DOMAIN listing[w] :
          /\ context' = [context EXCEPT ![w] =
               @ \cup UNION {Extras(listing[w][i], remoteFiles) : i \in 1..(n - 1)}]
          /\ firstError' = TRUE
          /\ UNCHANGED stack
  /\ activeDirs' = activeDirs - Len(listing[w])
  /\ walker' = LET back == [walker EXCEPT ![w] = "ready"]
               IN IF stack' # <<>> \/ activeDirs' = 0 THEN AllWoken(back) ELSE back
  /\ listing' = [listing EXCEPT ![w] = <<>>]
  /\ UNCHANGED merged

\* finishWorker
WalkerFlushes(w) ==
  /\ walker[w] = "flush"
  /\ merged' = merged \cup context[w]
  /\ context' = [context EXCEPT ![w] = {}]
  /\ walker' = [walker EXCEPT ![w] = "gone"]
  /\ UNCHANGED <<stack, activeDirs, listing, firstError>>

WalkerStep(w, remoteFiles) ==
  \/ WalkerWaits(w) \/ WalkerEnds(w) \/ WalkerPops(w)
  \/ WalkerLists(w, remoteFiles) \/ WalkerFlushes(w)

WalkJoined == \A w \in Walker : walker[w] = "gone"
=============================================================================
