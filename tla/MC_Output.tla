----------------------------- MODULE MC_Output -----------------------------
EXTENDS Output
=============================================================================
