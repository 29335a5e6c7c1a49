-------------------------- MODULE MCMigrationRunner --------------------------
(***************************************************************************)
(* Instances of the migration runner: one process on an empty database, two *)
(* on databases that are some versions behind, and databases whose version   *)
(* fell behind their schema.                                                *)
(***************************************************************************)
EXTENDS MigrationRunner

CONSTANTS r1, r2

Start(v, rs, n) ==
    [version |-> v, built |-> v, lacking |-> {}, runners |-> rs, kills |-> n]

\* A database whose recorded version fell behind its schema.
Lagging(v, built, lacking) ==
    [version |-> v, built |-> built, lacking |-> lacking, runners |-> {r1}, kills |-> 1]

Upgrades ==
    {Start(0, {r1}, 1), Start(10, {r1, r2}, 0), Start(18, {r1, r2}, 1),
     Start(19, {r1}, 1), Lagging(4, 8, {}),
     Lagging(20, 21, {"idx_wsa_sample", "idx_wsa_computed_at"})}

BeforeRebuild == {Start(19, {r1}, 0)}
=============================================================================
