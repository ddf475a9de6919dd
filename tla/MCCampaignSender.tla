--------------------------- MODULE MCCampaignSender ---------------------------
(***************************************************************************)
(* Instances of CampaignSender for TLC: one page of two contacts, handled  *)
(* by the prefetch slots of one replica or by two replicas.  A behaviour   *)
(* follows one of four: the page under a fault and an owner's action; under *)
(* two actions of the owner; under an audience computed and packed again;  *)
(* or, instead, the requests of the API on the audience.                   *)
(***************************************************************************)
EXTENDS CampaignSender, AudienceReview, TLC

CONSTANTS p1, c1, c2, h1, h2

MCOnePage == {p1}
MCTwoContacts == [p \in Pages |-> <<c1, c2>>]

MCTwoHosts == [w \in Workers |-> IF w = CHOOSE v \in Workers : TRUE THEN h1 ELSE h2]

\* A replica and the handler it runs can be exchanged for the other pair.
ReplicaSymmetry ==
    {p \in Permutations(Workers \cup Hosts) :
        \A w \in Workers : p[w] \in Workers /\ HostOf[p[w]] = p[HostOf[w]]}

VARIABLE kind

MCInit ==
    /\ kind \in {"page", "owner", "repack", "review"}
    /\ Init
    /\ ReviewInit
    /\ kind # "review" =>
        /\ channel = "email"
        /\ \A p \in People : audience[p] = 0 /\ book[p].address = "none"

MCNext ==
    /\ UNCHANGED kind
    /\ \/ /\ kind # "review" /\ Next
          /\ kind = "page" => owner' <= 1
          /\ kind = "owner" => faults' = 0
          /\ kind = "repack" => owner' + faults' = 0
          /\ kind # "repack" => packing' = "idle"
          /\ UNCHANGED reviewVars
       \/ kind = "review" /\ ReviewNext /\ UNCHANGED vars

MCSpec == MCInit /\ [][MCNext]_<<kind, vars, reviewVars>>
===============================================================================
