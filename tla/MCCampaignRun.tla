---- MODULE MCCampaignRun ----
EXTENDS CampaignRun

\* The pages of the instances.
CONSTANTS p1, p2
====
