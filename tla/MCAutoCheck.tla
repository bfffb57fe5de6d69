---------------------------- MODULE MCAutoCheck ----------------------------
(***************************************************************************)
(* Small instances of AutoCheck.                                           *)
(***************************************************************************)
EXTENDS AutoCheck

\* One size the automatic check may still shrink below, and one under the floor.
MCManualSizes == {1, 3}

=============================================================================
