----------------------------- MODULE MC_GitPane -----------------------------
EXTENDS GitPane
MCLength == [HEAD |-> 2]
=============================================================================
