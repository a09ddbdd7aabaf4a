------------------------------ MODULE MCFaucet ------------------------------
(***************************************************************************)
(* Three claims over all assignments of three wallets and three addresses, *)
(* a window of two ticks and a cap of two: claims of one wallet or address *)
(* return after the window, and three strangers meet the cap.              *)
(***************************************************************************)
EXTENDS Faucet, TLC

Symmetry == Permutations(Claim) \cup Permutations(Wallet) \cup Permutations(Ip)
============================================================================
