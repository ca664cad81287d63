------------------------------ MODULE MC_HubTab ------------------------------
EXTENDS HubTab
=============================================================================
