----------------------------- MODULE JoinPolicy -----------------------------
(***************************************************************************)
(* The rules of singletonJoinPolicy.h: when a board may leave the group at *)
(* its home beacon for the one at another.  A BSSID is a positive number,  *)
(* NoBssid is "none"; a group is its BSSID and the number of its members   *)
(* that the board believes in.                                             *)
(*                                                                         *)
(* A definition marked "Wrong:" is a deliberately broken variant of the    *)
(* one that follows it.                                                    *)
(***************************************************************************)
EXTENDS Integers

CONSTANTS
  proposalDelayCap,   \* most rounds a proposal waits: 2
  credibilityCap,     \* where reinforce() stops: 12
  credibilityStep     \* credibility that earns one more round: 4

NoBssid == 0

ASSUME PolicyAssumption ==
  proposalDelayCap \in Nat /\ credibilityCap \in Nat /\ credibilityStep \in Nat \ {0}

mayEvaluateScout(directPacketsSelectingTarget) == directPacketsSelectingTarget > 0

mayAdopt(homeMembers, destinationMembers) ==
  homeMembers = 1 /\ destinationMembers >= 2

\* Wrong: two singletons that meet both move.
mayCoalesceEither(homeMembers, destinationMembers, homeBssid, destinationBssid) ==
  /\ homeMembers = 1 /\ destinationMembers = 1
  /\ homeBssid # NoBssid /\ destinationBssid # NoBssid

mayCoalesce(homeMembers, destinationMembers, homeBssid, destinationBssid) ==
  /\ homeMembers = 1 /\ destinationMembers = 1
  /\ homeBssid # NoBssid /\ destinationBssid # NoBssid
  /\ destinationBssid < homeBssid

\* Wrong: the lower BSSID is preferred whatever the sizes.
groupPreferredByBssid(candidateMembers, candidateBssid, incumbentMembers, incumbentBssid) ==
  /\ candidateBssid # NoBssid /\ candidateBssid # incumbentBssid
  /\ candidateMembers > incumbentMembers \/ candidateBssid < incumbentBssid

groupPreferred(candidateMembers, candidateBssid, incumbentMembers, incumbentBssid) ==
  /\ candidateBssid # NoBssid /\ candidateBssid # incumbentBssid
  /\ \/ candidateMembers > incumbentMembers
     \/ candidateMembers = incumbentMembers /\ candidateBssid < incumbentBssid

mayPropose(homeMembers, homeBssid, destinationMembers, destinationBssid) ==
  /\ homeMembers >= 2
  /\ groupPreferred(destinationMembers, destinationBssid, homeMembers, homeBssid)

proposalDelayUncapped(homeCredibility) ==
  LET extra == homeCredibility \div credibilityStep
  IN  2 + (IF extra > 3 THEN 3 ELSE extra)

proposalDelay(homeCredibility) ==
  LET delay == proposalDelayUncapped(homeCredibility)
  IN  IF delay > proposalDelayCap THEN proposalDelayCap ELSE delay

\* Wrong: no upper limit.
reinforceForever(credibility, heardDirectPeer) ==
  IF heardDirectPeer THEN credibility + 1 ELSE credibility

reinforce(credibility, heardDirectPeer) ==
  IF heardDirectPeer /\ credibility < credibilityCap THEN credibility + 1 ELSE credibility

decay(credibility) == IF credibility > 0 THEN credibility - 1 ELSE 0
=============================================================================
