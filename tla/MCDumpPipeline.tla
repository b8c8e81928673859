--------------------------- MODULE MCDumpPipeline ---------------------------
(* A small instance of DumpPipeline for TLC.                               *)
EXTENDS DumpPipeline

\* two databases: one with a table of two chunks and a view, one with a single
\* unsplit table; the plan has 7 tasks and the channel room for fewer
MCDatabases == {"d1", "d2"}
MCChunks == [d \in MCDatabases |-> IF d = "d1" THEN <<2, 0>> ELSE <<1>>]
=============================================================================
