----------------------------- MODULE ClientRun ------------------------------
(***************************************************************************)
(* One run of the client (RunClient, sync_engine_client.cpp): connect,      *)
(* request the manifest, bring the listed files here, and when the listing  *)
(* is known to be whole remove what the server does not have and create the *)
(* directories no file has created; a session that drops is followed by     *)
(* another, within the reconnect budget.                                    *)
(*                                                                         *)
(* The transfers of a session are ClientTransfer and BlockTransfer; here a  *)
(* listed file is settled by one step, and a drop leaves any of the others  *)
(* half written.  What the server offers may change between two sessions,   *)
(* never within one.  A path is the sequence of its names.                  *)
(***************************************************************************)
EXTENDS ComparePhase, Sequences, FiniteSets, Functions

CONSTANTS
  LocalTrees,          \* what the target may hold at first
  ServedTrees,         \* what the server may offer to a session
  SelfPath,            \* the executable, when it is under the target
  Unreadable,          \* local directories that cannot be listed
  ReconnectRetries,    \* --reconnect-retries
  DirWorkers,          \* threads that create directories
  Now,                 \* what the file system stamps on a file written in this run
  MaxSessions, MaxFailures

Path == Seq(STRING)
Above(p) == {SubSeq(p, 1, n) : n \in 1 .. Len(p) - 1}

\* A tree as a file system holds it: whatever is in it is in directories of it.
IsTree(t) ==
  /\ t = [files |-> t.files, dirs |-> t.dirs]
  /\ DOMAIN t.files \subseteq Path /\ t.dirs \subseteq Path
  /\ DOMAIN t.files \cap t.dirs = {}
  /\ \A p \in DOMAIN t.files \cup t.dirs : Above(p) \subseteq t.dirs

\* The premise of the metadata comparison: two versions of a file that have the same
\* size and, within the tolerance, the same time have the same content.
TimesTell ==
  \A s, t \in LocalTrees \cup ServedTrees :
    \A p \in DOMAIN s.files \cap DOMAIN t.files :
      /\ s.files[p].size = t.files[p].size
      /\ MtimeWithinTolerance(s.files[p].mtime, t.files[p].mtime)
      => s.files[p].content = t.files[p].content

ASSUME ClientRunAssumption ==
  /\ \A t \in LocalTrees \cup ServedTrees : IsTree(t)
  /\ TimesTell
  /\ ReconnectRetries \subseteq Nat /\ DirWorkers \in Nat \ {0}
  /\ MaxSessions \in Nat \ {0} /\ MaxFailures \in Nat

VARIABLES
  retries,             \* options.reconnectRetries
  local,               \* the target: [files |-> [path -> entry], dirs |-> set of paths]
  served,              \* the tree of the current session
  remoteFiles, remoteDirs,   \* what of it has been listed
  manifestDone, recvClosed,
  settled,             \* listed files whose comparison and transfer are over
  failed,              \* failed
  reconnectAttemptsUsed,
  extras,              \* ExtraScanResult, what is left of it
  dirTasks, dirBusy, dirTasksDone,
  place,               \* where the main thread is
  exitCode,
  tries,               \* history: failed connects since the last session
  sessions, failures   \* history: bounds

sessionVars == <<served, remoteFiles, remoteDirs, manifestDone, settled>>
dirVars == <<dirTasks, dirBusy, dirTasksDone>>
boundVars == <<tries, sessions>>
rvars == <<retries, local, sessionVars, recvClosed, failed, reconnectAttemptsUsed, extras,
           dirVars, place, exitCode, boundVars, failures>>

NoExtras == [files |-> {}, dirs |-> {}, existing |-> {}]
Running == -1

RunInit ==
  /\ retries \in ReconnectRetries
  /\ local \in LocalTrees
  /\ served \in ServedTrees
  /\ remoteFiles = {} /\ remoteDirs = {} /\ settled = {}
  /\ manifestDone = FALSE /\ recvClosed = FALSE
  /\ failed = 0 /\ reconnectAttemptsUsed = 0
  /\ extras = NoExtras /\ dirTasks = {} /\ dirBusy = {} /\ dirTasksDone = 0
  /\ place = "connect" /\ exitCode = Running
  /\ tries = 0 /\ sessions = 0 /\ failures = 0

At(p) == place = p /\ exitCode = Running

\* The disk refuses an operation, or does not.
Fails(bad) == IF bad THEN failures < MaxFailures /\ failures' = failures + 1
              ELSE UNCHANGED failures

-----------------------------------------------------------------------------
(* Reconnecting.                                                           *)

\* The error is fatal, the budget is 0, it is used up, or there is another try.
ScheduleClientReconnectOrExit(fatal, exitWhenDisabled) ==
  IF fatal \/ retries = 0 \/ reconnectAttemptsUsed >= retries
  THEN /\ exitCode' = IF fatal THEN 1 ELSE IF retries = 0 THEN exitWhenDisabled ELSE 4
       /\ UNCHANGED <<reconnectAttemptsUsed, place>>
  ELSE /\ reconnectAttemptsUsed' = reconnectAttemptsUsed + 1 /\ place' = "connect"
       /\ UNCHANGED exitCode

ConnectFails(fatal) ==
  /\ At("connect")
  /\ ScheduleClientReconnectOrExit(fatal, 1)
  /\ tries' = tries + 1
  /\ UNCHANGED <<retries, local, sessionVars, recvClosed, failed, extras, dirVars, sessions,
                 failures>>

\* The primary lane is up: the budget is whole again, and the session's state, declared
\* inside the loop, is new.
Connect(tree) ==
  /\ At("connect") /\ sessions < MaxSessions
  /\ served' = tree
  /\ remoteFiles' = {} /\ remoteDirs' = {} /\ settled' = {}
  /\ manifestDone' = FALSE /\ recvClosed' = FALSE /\ failed' = 0
  /\ reconnectAttemptsUsed' = 0 /\ place' = "request"
  /\ tries' = 0 /\ sessions' = sessions + 1
  /\ UNCHANGED <<retries, local, extras, dirVars, exitCode, failures>>

RequestManifest ==
  /\ At("request")
  /\ \/ place' = "session" /\ UNCHANGED <<reconnectAttemptsUsed, exitCode>>
     \/ ScheduleClientReconnectOrExit(FALSE, 3)
  /\ UNCHANGED <<retries, local, sessionVars, recvClosed, failed, extras, dirVars, boundVars,
                 failures>>

-----------------------------------------------------------------------------
(* A session.                                                              *)

ListsFile(p) ==
  /\ At("session") /\ ~recvClosed /\ p \in DOMAIN served.files \ remoteFiles
  /\ remoteFiles' = remoteFiles \cup {p}
  /\ UNCHANGED <<retries, local, served, remoteDirs, manifestDone, settled, recvClosed, failed,
                 reconnectAttemptsUsed, extras, dirVars, place, exitCode, boundVars, failures>>

ListsDir(d) ==
  /\ At("session") /\ ~recvClosed /\ d \in served.dirs \ remoteDirs
  /\ remoteDirs' = remoteDirs \cup {d}
  /\ UNCHANGED <<retries, local, served, remoteFiles, manifestDone, settled, recvClosed, failed,
                 reconnectAttemptsUsed, extras, dirVars, place, exitCode, boundVars, failures>>

ManifestEnds ==
  /\ At("session") /\ ~recvClosed /\ ~manifestDone
  /\ remoteFiles = DOMAIN served.files /\ remoteDirs = served.dirs
  /\ manifestDone' = TRUE
  /\ UNCHANGED <<retries, local, served, remoteFiles, remoteDirs, settled, recvClosed, failed,
                 reconnectAttemptsUsed, extras, dirVars, place, exitCode, boundVars, failures>>

\* The metadata, then the hashes where the metadata cannot tell.
Unchanged(p) ==
  LET here == IF p \in DOMAIN local.files THEN {local.files[p]} ELSE {}
      verdict == DecideCompare("Fast", here, served.files[p])
  IN  IF verdict.needHash
      THEN ClassifyByHash(TRUE, local.files[p].content, served.files[p].content) = "Same"
      ELSE verdict.category = "Same"

\* A file cannot be created where a directory is, nor below a file.
Creatable(p) == p \notin local.dirs /\ Above(p) \cap DOMAIN local.files = {}

\* Mutant of Torn: the close of an interrupted download stamps the time as well.
TornStamped(e) == [size |-> e.size, mtime |-> e.mtime, content |-> "torn"]

\* closeFile cuts an unfinished download to the size of the whole file; the remote time
\* is recorded only after every write has succeeded, so the clock's stays.
Torn(e) == [size |-> e.size, mtime |-> Now, content |-> "torn"]

\* EnsureParentDir for each file, then its bytes.
Write(entries) ==
  [files |-> [p \in DOMAIN entries \cup DOMAIN local.files |->
                IF p \in DOMAIN entries THEN entries[p] ELSE local.files[p]],
   dirs |-> local.dirs \cup UNION {Above(p) : p \in DOMAIN entries}]

Transfers(p) ==
  \/ /\ Creatable(p) /\ Fails(FALSE)
     /\ local' = Write([q \in {p} |-> served.files[q]]) /\ UNCHANGED failed
  \/ /\ Creatable(p) /\ Fails(TRUE)
     /\ local' = Write([q \in {p} |-> Torn(served.files[q])]) /\ failed' = failed + 1
  \/ /\ ~Creatable(p) /\ Fails(FALSE)
     /\ failed' = failed + 1 /\ UNCHANGED local

\* A listed file is left alone, transferred, or given up.
Settle(p) ==
  /\ At("session") /\ ~recvClosed /\ p \in remoteFiles \ settled
  /\ settled' = settled \cup {p}
  /\ IF Unchanged(p) THEN UNCHANGED <<local, failed, failures>> ELSE Transfers(p)
  /\ UNCHANGED <<retries, served, remoteFiles, remoteDirs, manifestDone, recvClosed,
                 reconnectAttemptsUsed, extras, dirVars, place, exitCode, boundVars>>

\* The last lane is gone; the downloads that were open are closed as they are.
Drops ==
  /\ At("session") /\ ~recvClosed
  /\ recvClosed' = TRUE
  /\ \E open \in SUBSET {p \in remoteFiles \ settled : ~Unchanged(p) /\ Creatable(p)} :
       local' = Write([p \in open |-> Torn(served.files[p])])
  /\ UNCHANGED <<retries, sessionVars, failed, reconnectAttemptsUsed, extras, dirVars, place,
                 exitCode, boundVars, failures>>

\* A frame nobody can place: the exception leaves RunClient.
SessionThrows ==
  /\ At("session") /\ ~recvClosed
  /\ exitCode' = 1
  /\ UNCHANGED <<retries, local, sessionVars, recvClosed, failed, reconnectAttemptsUsed,
                 extras, dirVars, place, boundVars, failures>>

\* Mutant of ManifestComplete: all that was listed is settled.
ManifestCompleteSoFar == settled = remoteFiles

ManifestComplete == manifestDone /\ ~recvClosed

\* The loop ends when all is settled or nobody can answer any more.
SessionEnds ==
  /\ At("session")
  /\ recvClosed \/ (manifestDone /\ settled = remoteFiles)
  /\ place' = IF ManifestComplete THEN "scan" ELSE "stop"
  /\ UNCHANGED <<retries, local, sessionVars, recvClosed, failed, reconnectAttemptsUsed,
                 extras, dirVars, exitCode, boundVars, failures>>

-----------------------------------------------------------------------------
(* Mirroring.                                                              *)

Visible(p) == p # SelfPath /\ Above(p) \cap Unreadable = {}

\* The extra scan sees the whole tree before anything is deleted.
Scan ==
  /\ At("scan") /\ place' = "delete"
  /\ LET files == {p \in DOMAIN local.files : Visible(p)}
         dirs == {d \in local.dirs : Visible(d)}
     IN  extras' = [files |-> files \ remoteFiles, dirs |-> dirs \ remoteDirs,
                    existing |-> dirs]
  /\ UNCHANGED <<retries, local, sessionVars, recvClosed, failed, reconnectAttemptsUsed,
                 dirVars, exitCode, boundVars, failures>>

\* One of the delete workers takes the next file.
DeleteFile(p) ==
  /\ At("delete") /\ p \in extras.files
  /\ extras' = [extras EXCEPT !.files = @ \ {p}]
  /\ \/ /\ Fails(FALSE) /\ UNCHANGED failed
        /\ local' = [local EXCEPT !.files = Restrict(@, DOMAIN @ \ {p})]
     \/ Fails(TRUE) /\ failed' = failed + 1 /\ UNCHANGED local
  /\ UNCHANGED <<retries, sessionVars, recvClosed, reconnectAttemptsUsed, dirVars, place,
                 exitCode, boundVars>>

Below(d) == {p \in DOMAIN local.files \cup local.dirs : d \in Above(p)}

\* The longest path first, so that a directory comes after those in it; one that still
\* holds something stays.
RemoveDir(d) ==
  /\ At("delete") /\ extras.files = {} /\ d \in extras.dirs
  /\ \A e \in extras.dirs : d \notin Above(e)
  /\ extras' = [extras EXCEPT !.dirs = @ \ {d}]
  /\ IF Below(d) = {}
     THEN \/ /\ Fails(FALSE) /\ UNCHANGED failed
             /\ local' = [local EXCEPT !.dirs = @ \ {d}]
          \/ Fails(TRUE) /\ failed' = failed + 1 /\ UNCHANGED local
     ELSE failed' = failed + 1 /\ Fails(FALSE) /\ UNCHANGED local
  /\ UNCHANGED <<retries, sessionVars, recvClosed, reconnectAttemptsUsed, dirVars, place,
                 exitCode, boundVars>>

\* The listed directories that no listed file is in and that are not here.
EmptyDirs ==
  {d \in remoteDirs : d \notin extras.existing /\ \A p \in remoteFiles : d \notin Above(p)}

\* One whose neighbour in the sorted list is below it is left to its neighbour, and so
\* to the last of the chain.
PlanDirs ==
  /\ At("delete") /\ extras.files = {} /\ extras.dirs = {}
  /\ \E tasks \in SUBSET EmptyDirs :
       /\ \A d \in EmptyDirs \ tasks : \E e \in tasks : d \in Above(e)
       /\ dirTasks' = tasks
  /\ place' = "dirs" /\ dirTasksDone' = 0
  /\ UNCHANGED <<retries, local, sessionVars, recvClosed, failed, reconnectAttemptsUsed, extras,
                 dirBusy, exitCode, boundVars, failures>>

DirWorkerPops(d) ==
  /\ d \in dirTasks /\ Cardinality(dirBusy) < DirWorkers
  /\ dirTasks' = dirTasks \ {d} /\ dirBusy' = dirBusy \cup {d}
  /\ UNCHANGED <<retries, local, sessionVars, recvClosed, failed, reconnectAttemptsUsed, extras,
                 dirTasksDone, place, exitCode, boundVars, failures>>

\* CreateDirectoriesLong: the ancestors, then the directory; nothing below a file.  An
\* error is not reported.
DirWorkerCreates(d) ==
  /\ d \in dirBusy
  /\ dirBusy' = dirBusy \ {d} /\ dirTasksDone' = dirTasksDone + 1
  /\ LET chain == Above(d) \cup {d}
     IN  local' = IF chain \cap DOMAIN local.files = {}
                  THEN [local EXCEPT !.dirs = @ \cup chain] ELSE local
  /\ UNCHANGED <<retries, sessionVars, recvClosed, failed, reconnectAttemptsUsed, extras,
                 dirTasks, place, exitCode, boundVars, failures>>

\* The main thread polls dirTasksDone.
DirsDone ==
  /\ At("dirs") /\ dirTasks = {} /\ dirBusy = {}
  /\ place' = "stop"
  /\ UNCHANGED <<retries, local, sessionVars, recvClosed, failed, reconnectAttemptsUsed, extras,
                 dirVars, exitCode, boundVars, failures>>

\* Without the whole listing: the lanes are shut down, and perhaps another session.
Abort ==
  /\ At("stop") /\ ~ManifestComplete
  /\ \E fatal \in BOOLEAN : ScheduleClientReconnectOrExit(fatal, 3)
  /\ UNCHANGED <<retries, local, sessionVars, recvClosed, failed, extras, dirVars, boundVars,
                 failures>>

\* The workers are joined, SyncDone is sent and the lanes are shut down; the verdict.
Finish ==
  /\ At("stop") /\ ManifestComplete
  /\ exitCode' = IF failed = 0 THEN 0 ELSE 2
  /\ UNCHANGED <<retries, local, sessionVars, recvClosed, failed, reconnectAttemptsUsed, extras,
                 dirVars, place, boundVars, failures>>

RunNext ==
  \/ \E fatal \in BOOLEAN : ConnectFails(fatal)
  \/ \E tree \in ServedTrees : Connect(tree)
  \/ RequestManifest
  \/ \E p \in DOMAIN served.files : ListsFile(p) \/ Settle(p)
  \/ \E d \in served.dirs : ListsDir(d)
  \/ ManifestEnds \/ Drops \/ SessionThrows \/ SessionEnds
  \/ Scan
  \/ \E p \in extras.files : DeleteFile(p)
  \/ \E d \in extras.dirs : RemoveDir(d)
  \/ PlanDirs
  \/ \E d \in dirTasks : DirWorkerPops(d)
  \/ \E d \in dirBusy : DirWorkerCreates(d)
  \/ DirsDone \/ Abort \/ Finish

RunSpec == RunInit /\ [][RunNext]_rvars

-----------------------------------------------------------------------------
(* Properties.                                                             *)

\* "SAFETY: only delete local extras if the manifest was received in full": whatever
\* drops and reconnects went before, nothing that the server offers in this session, and
\* not the running executable, disappears from the target.
MirrorSafe ==
  [][/\ DOMAIN local.files \ DOMAIN local'.files
          \subseteq DOMAIN local.files \ (DOMAIN served.files \cup {SelfPath})
     /\ local.dirs \ local'.dirs \subseteq local.dirs \ served.dirs]_rvars

\* A torn file is told from a whole one by its time only, so one whose remote time is
\* the time of the download itself is not.
Telling(p) == ~MtimeWithinTolerance(Now, served.files[p].mtime)

\* The directory cannot be created, its path is taken by a file the extra scan does not
\* see and so does not remove; nobody counts that as a failure.
Blocked(d) == \E q \in Above(d) \cup {d} : q \in DOMAIN local.files /\ ~Visible(q)

Mirrors ==
  /\ DOMAIN served.files \subseteq DOMAIN local.files
  /\ \A p \in DOMAIN served.files :
       Telling(p) => local.files[p].content = served.files[p].content
  /\ {p \in DOMAIN local.files : Visible(p)} \subseteq DOMAIN served.files
  /\ \A d \in served.dirs : d \in local.dirs \/ Blocked(d)
  /\ {d \in local.dirs : Visible(d)} \subseteq served.dirs

\* README "Exit Codes": 0 only if the target is what the server offered to the last
\* session, torn files of earlier sessions included, and directories in the way of the
\* executable or of files nobody can list excepted; 4 only after the full budget of
\* connects has failed since the last session; 3 only without a budget.
ExitTellsTruth ==
  /\ exitCode = 0 => Mirrors
  /\ exitCode = 2 => manifestDone /\ failed > 0
  /\ exitCode = 3 => retries = 0
  /\ exitCode = 4 => retries > 0 /\ tries >= retries
=============================================================================
