----------------------------- MODULE MCDatabase -----------------------------
(* The instance of Database that TLC checks: a schema of three statements with
   the last table in the second, and two migrations, so that a crash can fall
   before, between and after them.                                           *)
EXTENDS Database, TLC
Perms == Permutations(Cli)
=============================================================================
