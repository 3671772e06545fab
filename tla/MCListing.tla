------------------------------ MODULE MCListing ------------------------------
(* Names with gaps, so that a name is not the place of an entry. *)
EXTENDS Listing

MCNames == {2, 4, 6, 8, 10}
===============================================================================
