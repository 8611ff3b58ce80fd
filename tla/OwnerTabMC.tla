----------------------------- MODULE OwnerTabMC -----------------------------
EXTENDS OwnerTab
=============================================================================
