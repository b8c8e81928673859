----------------------------- MODULE MCSafePoint -----------------------------
(* A small instance of SafePoint for TLC.                                  *)
EXTENDS SafePoint

\* earlier than every timestamp of the instance
MCNoTS == -100

Config(consistency, ts, server, tikv) ==
    [consistency |-> consistency, snapshot |-> ts, server |-> server, tikv |-> tikv]

MCConfigs ==
    { Config("auto", NoTS, "tidb", TRUE),
      Config("snapshot", -1, "tidb", TRUE),
      Config("none", NoTS, "tidb", FALSE),
      Config("auto", NoTS, "oldTiDB", TRUE),
      Config("auto", NoTS, "mysql", FALSE),
      Config("auto", NoTS, "unknown", FALSE),
      Config("snapshot", -1, "mysql", FALSE) }
=============================================================================
