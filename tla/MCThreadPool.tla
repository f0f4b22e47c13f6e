---------------------------- MODULE MCThreadPool ----------------------------
(* A walk of four files and a directory, up to three workers, one slot each.  *)
EXTENDS ThreadPool

File(p) == [path |-> p, skipped |-> FALSE]
MCEntries ==
    <<File("f1"), [path |-> "dir", skipped |-> TRUE], File("f2"), File("f3"),
      File("f4")>>
MCThreads == {Unset, 0, 1, 3}
MCPanicSets == {{}, {"f2"}, {"f1", "f2", "f3", "f4"}}
=============================================================================
