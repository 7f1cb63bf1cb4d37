------------------------------ MODULE MCGossip ------------------------------
(* Gossip on a small farm.  Boards with the same powers are interchangeable. *)
EXTENDS GossipAges, TLC

Ordinary == Board \ (Resettable \cup Crashable \cup Mortal \cup Sleepers \cup {Tracked})
Symmetry == Permutations(Ordinary)
=============================================================================
