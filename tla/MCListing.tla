----------------------------- MODULE MCListing ------------------------------
(* The instance of Listing that TLC checks: pages of two rows, and limits
   below and above a page.                                                   *)
EXTENDS Listing
Perms == Permutations(Group)
=============================================================================
