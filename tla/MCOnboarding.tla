----------------------------- MODULE MCOnboarding -----------------------------
(* Onboarding with the constants given by the .cfg file. *)
EXTENDS Onboarding, TLC

OnboardingSymmetry ==
  Permutations(Requests) \cup Permutations(Invites) \cup Permutations(Callers)
=============================================================================
