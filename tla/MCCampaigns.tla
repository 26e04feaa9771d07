---------------------------- MODULE MCCampaigns ----------------------------
(* TLC instance of Campaigns: contacts (of one kind), campaigns, runs,     *)
(* requests and messages are interchangeable.                              *)
EXTENDS Campaigns, TLC

CampaignSymmetry ==
  UNION {Permutations(Campaigns), Permutations(Runs), Permutations(Calls),
         Permutations(Messages), Permutations(Contacts \ Unreachable),
         Permutations(Rows)}
=============================================================================
