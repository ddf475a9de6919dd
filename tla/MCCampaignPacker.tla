--------------------------- MODULE MCCampaignPacker ---------------------------
(* Instances of CampaignPacker for TLC: three contacts, one of them without  *)
(* an address, in pages of one, packed by two replicas.                      *)
EXTENDS CampaignPacker, TLC

CONSTANTS c1, c2, c3, h1, h2, w1, w2

MCContacts == {c1, c2, c3}
MCUnreachable == {c3}
MCHosts == {h1, h2}
MCWorkers == {w1, w2}
MCHostOf == (w1 :> h1 @@ w2 :> h2)
===============================================================================
