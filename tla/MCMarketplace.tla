---------------------------- MODULE MCMarketplace ----------------------------
(***************************************************************************)
(* Two listings and an epoch, traded by two accounts at two prices.  Three *)
(* requests are enough for a listing and two posts of its sale, for two    *)
(* listings and a sale posted for the wrong one, and for two posts of the  *)
(* same listing or redemption.                                             *)
(***************************************************************************)
EXTENDS Marketplace, TLC

Symmetry == Permutations(Listing) \cup Permutations(Account) \cup Permutations(Post)
==============================================================================
