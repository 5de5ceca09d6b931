---------------------------- MODULE MCAlgorithms ----------------------------
(* The parts that run beside no other modelled component, one of them per   *)
(* behaviour: the delta of one file, the write-cap controller and a          *)
(* session's tuning, a whole run of the client over a small tree.            *)
EXTENDS Delta, TransferTuning, ClientRun, TLC

VARIABLE algorithm

AnySession == CHOOSE s \in Sessions : TRUE
AnyTree == CHOOSE t \in LocalTrees : TRUE
AnyServed == CHOOSE t \in ServedTrees : TRUE
AnyRetries == CHOOSE n \in ReconnectRetries : TRUE

-----------------------------------------------------------------------------
(* The trees of a client run.  Old and New differ in time, Fresh was written *)
(* on the server in the instant of the download; d is a directory of files   *)
(* to some sessions and a file to another, and a session has a directory     *)
(* where the executable is.                                                  *)

Entry(size, mtime, content) == [size |-> size, mtime |-> mtime, content |-> content]
Old == Entry(1, 55, "old")
New == Entry(1, 60, "new")
Fresh == Entry(2, 79, "fresh")
Tree(files, dirs) == [files |-> files, dirs |-> dirs]

MCSelfPath == <<"a">>
MCUnreadable == {<<"l">>}
MCServedTrees ==
    {Tree((<<"f">> :> New) @@ (<<"d", "x">> :> Old), {<<"d">>, <<"e">>, <<"e", "g">>}),
     Tree(<<"d", "x">> :> New, {<<"d">>}),
     Tree(<<"d">> :> Fresh, {MCSelfPath})}
MCLocalTrees ==
    {Tree(<<>>, {}),
     Tree((<<"f">> :> Old) @@ (<<"k", "o">> :> Old) @@ (MCSelfPath :> Old),
          {<<"k">>, <<"k", "m">>}),
     Tree((<<"e">> :> Old) @@ (<<"l", "o">> :> Old), {<<"d">>, <<"l">>})}

-----------------------------------------------------------------------------

Init ==
    /\ \/ algorithm = "delta" /\ session = AnySession
          /\ local = AnyTree /\ served = AnyServed /\ retries = AnyRetries
       \/ algorithm = "tuning" /\ newFile = <<>>
          /\ local = AnyTree /\ served = AnyServed /\ retries = AnyRetries
       \/ algorithm = "run" /\ newFile = <<>> /\ session = AnySession
    /\ DeltaInit /\ TuningInit /\ RunInit

Next ==
    /\ \/ algorithm = "delta" /\ DeltaNext /\ UNCHANGED <<tvars, rvars>>
       \/ algorithm = "tuning" /\ session = AnySession /\ TuningNext /\ UNCHANGED <<dvars, rvars>>
       \/ algorithm = "run" /\ RunNext /\ UNCHANGED <<dvars, tvars>>
    /\ UNCHANGED algorithm

Spec == Init /\ [][Next]_<<dvars, tvars, rvars, algorithm>>
=============================================================================
