------------------------------ MODULE MCTables -------------------------------
(***************************************************************************)
(* Three parts of the core database that share no row, each checked in     *)
(* behaviours of its own: the app registry, the logs that maintenance      *)
(* prunes (with the attach file, which writes to both), and AuthorForge's  *)
(* canon.                                                                  *)
(***************************************************************************)
EXTENDS CoreTables, NilCanon, TLC

VARIABLE part

Reg(required, mode) == [required |-> required, mode |-> mode]

MCApps          == {"authorforge"}
MCAttached      == Reg(<<1, 1, 0>>, "local")
MCFoundations   == {<<1, 1, 0>>, <<1, 9, 0>>, <<1, 10, 0>>}
MCRegistrations == {Reg(v, "local") : v \in {None, <<1, 1>>} \cup MCFoundations}
                      \cup {Reg(<<1, 9, 0>>, "hybrid")}
MCRegistrars    == {"r1", "r2"}
MCPruners       == {"p1", "p2"}
MCWindows       == {-1, 1, 2, 3}
MCNilStatuses   == {"accepted", "queued"}

(* What tells these apart, no action and no property looks at. *)
MCSymmetry == Permutations(Txs) \cup Permutations(Blocks) \cup Permutations(Sessions)

TablesInit == CoreInit /\ NilInit /\ part \in {"registry", "logs", "canon"}

TablesNext ==
    \/ part = "registry" /\ RegistryNext /\ UNCHANGED <<nilVars, part>>
    \/ part = "logs" /\ (PruneNext \/ Attach) /\ UNCHANGED <<nilVars, part>>
    \/ part = "canon" /\ NilNext /\ UNCHANGED <<coreVars, part>>

TablesSpec == TablesInit /\ [][TablesNext]_<<coreVars, nilVars, part>>
=============================================================================
