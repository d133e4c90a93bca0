--------------------------- MODULE MCMigrationRunner ---------------------------
(***************************************************************************)
(* Four files, as 006..009 are: the second and the third have their own    *)
(* transaction, the second cannot run twice (007), the others can.         *)
(***************************************************************************)
EXTENDS MigrationRunner

MCOwnTransaction == {2, 3}

MCRerunnable == {1, 3}

MCContents == {"v1", "v2"}
===============================================================================
