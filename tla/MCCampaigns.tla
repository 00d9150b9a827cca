---------------------------- MODULE MCCampaigns ----------------------------
(* Small instances of Campaigns for TLC. *)
EXTENDS Campaigns

CONSTANT s1

OneEndpoint == {1}
OneServer == [e \in Endpoints |-> s1]
=============================================================================
