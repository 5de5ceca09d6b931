--------------------------- MODULE MCCheckEngine ----------------------------
(* Two files listed against their path order; a tree of three directories, *)
(* one of which cannot be listed, with one extra file.                     *)
EXTENDS CheckEngine

MCManifest == <<2, 1>>
MCRemote == [f \in {1, 2} |-> [size |-> 1, mtime |-> 60, content |-> "a"]]

\* Touched with the same and with another content; of another size; and
\* another content at the same instant, told in ticks.
Touched   == {[size |-> 1, mtime |-> 68, content |-> "a"]}
Rewritten == {[size |-> 1, mtime |-> 68, content |-> "b"]}
Resized   == {[size |-> 2, mtime |-> 60, content |-> "b"]}
Forged    == {[size |-> 1, mtime |-> 42, content |-> "b"]}

Case(m, f1, f2) == [mode |-> m, disk |-> <<f1, f2>>]
MCCases == {Case("Fast", Touched, Rewritten), Case("Strict", Resized, Forged),
            Case("SizeOnly", Rewritten, Touched), Case("Fast", Forged, {})}
MCOneCase == {Case("Fast", Touched, {})}

MCSubDirs == [root |-> {"sub", "locked"}, sub |-> {}, locked |-> {}]
MCLocalFiles == [root |-> {1}, sub |-> {2, 9}, locked |-> {8}]
MCUnreadable == {"locked"}
=============================================================================
