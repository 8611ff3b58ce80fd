-------------------------- MODULE DonationIngestMC --------------------------
(* DonationIngest on small instances.                                      *)
EXTENDS DonationIngest, TLC

FirstRejected == {<<SomeAccount, 1>>}

Symmetry == Permutations(Slots) \cup Permutations(Requests)
=============================================================================
