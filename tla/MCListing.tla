----------------------------- MODULE MCListing ------------------------------
(* Instances of Listing for TLC.  Three versions are enough for one to be    *)
(* passed over: one that is replaced, its successor, and an older one.       *)
EXTENDS Listing

MCVersions == 1 .. 4
MCTwoVersions == 1 .. 2
=============================================================================
