---------------------------- MODULE MCConsistency ----------------------------
(* Small instances of Consistency for TLC.                                 *)
EXTENDS Consistency, TLC

Config(mode, transactional, posAfterConnect, tidb, tikv, pdClient) ==
    [consistency |-> mode, transactional |-> transactional, posAfterConnect |-> posAfterConnect,
     tidb |-> tidb, tikv |-> tikv, pdClient |-> pdClient]

\* every mode: locks dropped once the transactions have begun, locks held to the
\* end, locks on a TiDB whose snapshot is recorded, a snapshot with and without TiKV,
\* and none with the position recorded after connecting
MCModes ==
    { Config("flush", TRUE, FALSE, FALSE, FALSE, FALSE),
      Config("lock", TRUE, FALSE, FALSE, FALSE, FALSE),
      Config("flush", FALSE, FALSE, FALSE, FALSE, FALSE),
      Config("lock", TRUE, FALSE, TRUE, TRUE, TRUE),
      Config("snapshot", TRUE, FALSE, TRUE, TRUE, TRUE),
      Config("snapshot", TRUE, FALSE, TRUE, FALSE, FALSE),
      Config("none", TRUE, TRUE, FALSE, FALSE, FALSE) }

\* none, recording the position after connecting
MCNone == { Config("none", TRUE, TRUE, FALSE, FALSE, FALSE) }

\* the writers are interchangeable
WriterSymmetry == Permutations(Writers)
=============================================================================
