----------------------------- MODULE GossipAges -----------------------------
(* The news of one origin, as the boards hold it, is a Rumours behaviour.    *)
EXTENDS Gossip

CONSTANT Tracked    \* the origin whose news is compared with Rumours

\* The tracked origin's news ages as Rumours says, on farms without crashes: a
\* crash restores the younger ages of the last checkpoint, and RumoursOnlyAge
\* is what is left then.
News == INSTANCE Rumours WITH
  speaking <- mode[Tracked] # "off", age <- [b \in Board |-> NewsAge(b, Tracked)]

AgesLikeRumours == News!Spec
=============================================================================
