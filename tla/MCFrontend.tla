----------------------------- MODULE MCFrontend -----------------------------
(* Instances of Frontend for TLC.                                            *)
EXTENDS Frontend, TLC

CONSTANTS k1, k2

\* What one client's key hashes to is another client's key.
Swap == k1 :> k2 @@ k2 :> k1
=============================================================================
