------------------------------ MODULE MCBackups ------------------------------
(***************************************************************************)
(* Two tools on two paths that share their stem.                           *)
(***************************************************************************)
EXTENDS Backups, TLC

MCPaths == {"a.dump", "a.sql"}
MCStem(p) == "a"

Symmetry == Permutations(Tools) \cup Permutations(Keys)
==============================================================================
