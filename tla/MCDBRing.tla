----------------------------- MODULE MCDBRing -----------------------------
(* Small instances of DBRing and DateSearch: pages of 4 bytes, records of 3 bytes. *)
EXTENDS DateSearch
=============================================================================
