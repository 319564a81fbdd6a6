----------------------------- MODULE MCOnboarding -----------------------------
(* Onboarding with two keys in the database of the previous chain.           *)
EXTENDS Onboarding
=============================================================================
