---------------------------- MODULE MCChunkFiles ----------------------------
(* ChunkFiles for TLC: the kinds of dumps.                                 *)
EXTENDS ChunkFiles

Config(rows, splits, concat, limit, repeatable) ==
    [rows |-> rows, splits |-> splits, concat |-> concat, limit |-> limit,
     repeatable |-> repeatable]

\* a table of several chunks and a table of one, with a limit on the size of files and
\* without, with and without repeatable queries; a plain and a concatenated chunk of a
\* table while other tables are split
MCConfigs ==
    {Config(TRUE, FALSE, FALSE, 2, TRUE), Config(TRUE, FALSE, FALSE, 0, FALSE),
     Config(TRUE, FALSE, FALSE, 2, FALSE), Config(FALSE, FALSE, FALSE, 2, TRUE),
     Config(FALSE, TRUE, FALSE, 0, TRUE), Config(FALSE, TRUE, FALSE, 2, TRUE),
     Config(FALSE, TRUE, FALSE, 2, FALSE), Config(FALSE, TRUE, TRUE, 2, TRUE)}

\* three rows fill two files, the two of another result one
MCResults == {<<1, 2, 3>>, <<3, 1>>}
=============================================================================
