---------------------------- MODULE MC_Compose ----------------------------
EXTENDS Compose
MCShells == {2}
=============================================================================
