--------------------------- MODULE MCMigrationLock ---------------------------
(***************************************************************************)
(* The instance of MigrationLock that TLC checks: process p runs two       *)
(* callers on a pool of two connections, process q runs one caller.        *)
(***************************************************************************)
EXTENDS MigrationLock, TLC

CONSTANTS p, q, t, u

MCProcs   == {p, q}
MCCallers == {<<p, t>>, <<p, u>>, <<q, t>>}
MCConns   == MCProcs \X {1, 2}
MCProcOf(x) == x[1]
==============================================================================
