------------------------------- MODULE MCLogger -------------------------------
(***************************************************************************)
(* Instances of Logger for TLC.                                            *)
(***************************************************************************)
EXTENDS Logger, TLC

Configure(console, file, conn, permit, reconnect, onMsg) ==
  [level |-> [console |-> console, file |-> file, conn |-> conn],
   permit |-> permit, Reconnect |-> reconnect, ReconnectOnMsg |-> onMsg]

\* The configuration that is shipped (config/log.json); all three adapters; a
\* file without a permit, a console that is not configured, and a connection
\* for every message; and levels with names that LevelMap does not have.
SomeConfigs ==
  {Configure("INFO", "INFO", "absent", TRUE, FALSE, FALSE),
   Configure("WARN", "DEBG", "INFO", TRUE, TRUE, FALSE),
   Configure("absent", "INFO", "TRAC", FALSE, FALSE, TRUE),
   Configure("INFO", "Warn", "Warn", TRUE, FALSE, FALSE)}

WriterSymmetry == Permutations(Writer)
=============================================================================
