---------------------------- MODULE MCOnboarding ----------------------------
(* Three accounts, one of them new, and an event queue of two.              *)
EXTENDS Onboarding

CONSTANTS a1, a2, a3
=============================================================================
