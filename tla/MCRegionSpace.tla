--------------------------- MODULE MCRegionSpace ---------------------------
(***************************************************************************)
(* Small instances of RegionSpace. A word of 16 regions lets requests of 9 *)
(* and 17 MB show both effects of new_size * MB: a negative and a small    *)
(* size. A request of 5 MB is larger than any space here.                  *)
(***************************************************************************)
EXTENDS RegionSpace

MCRequests == {-1, 0, 1, 2, 5, 9, 17}

FewRequests == {1, 2, 5}

=============================================================================
