---------------------------- MODULE MCWriterPipe ----------------------------
(* WriterPipe for TLC: rows of two sizes, and the kinds of files.          *)
EXTENDS WriterPipe

MCRowSizes == {1, 2}

Config(csv, fileSize, statementSize) ==
    [csv |-> csv, fileSize |-> fileSize, statementSize |-> statementSize]

\* SQL files limited in size or not, of statements limited in size or not, and CSV
\* files limited in size or not
MCConfigs ==
    {Config(FALSE, 10, 4), Config(FALSE, 0, 4), Config(FALSE, 0, 0),
     Config(TRUE, 10, 0), Config(TRUE, 0, 4)}
=============================================================================
