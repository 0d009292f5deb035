----------------------------- MODULE MCDelivery -----------------------------
(* Delivery on a few sessions, users and messages, for TLC.                *)
EXTENDS Delivery, TLC

Symmetry == Permutations(User) \cup Permutations(Session)
=============================================================================
