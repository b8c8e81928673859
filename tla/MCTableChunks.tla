---------------------------- MODULE MCTableChunks ----------------------------
(* Small instances of TableChunks for TLC.                                 *)
EXTENDS TableChunks

\* signed values, so that the bounds fall on both sides of zero, with both ends of
\* what integers of four bits can hold, so that the step can overflow
MCKeySpace == {-8, -3, -1, 0, 1, 7}
=============================================================================
