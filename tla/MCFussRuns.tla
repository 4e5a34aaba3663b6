----------------------------- MODULE MCFussRuns -----------------------------
(***************************************************************************)
(* Three runs: the first, and two in parallel.                             *)
(***************************************************************************)
EXTENDS FussRuns

=============================================================================
