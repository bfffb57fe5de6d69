--------------------------- MODULE MCPatronsInit ---------------------------
(***************************************************************************)
(* Small instances of PatronsInit. One code stands for each group of       *)
(* failures that take the same way out.                                    *)
(***************************************************************************)
EXTENDS PatronsInit

MCNativeCodes == {"FINAL_CHECK_FAILED"}

MCJavaCodes == {"LOWER_LIMIT_IS_TOO_SMALL"}

=============================================================================
