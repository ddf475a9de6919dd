-------------------------- MODULE MCCampaignTracker --------------------------
(* Instances of CampaignTracker for TLC.  Page p reports 2^(p-1) sent and    *)
(* one failed contact, so that different sets of pages have different sums.  *)
EXTENDS CampaignTracker, TLC

MCSentOf == [p \in 1 .. TotalPages |-> 2 ^ (p - 1)]
MCFailedOf == [p \in 1 .. TotalPages |-> 1]

WorkerSymmetry == Permutations(Workers)
===============================================================================
