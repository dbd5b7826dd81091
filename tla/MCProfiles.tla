----------------------------- MODULE MCProfiles -----------------------------
(* One profile name, two required files and an optional one.               *)
EXTENDS Profiles, TLC

CONSTANTS c1, c2, c3, models, tools, providers, n

MCSymmetry == Permutations(Command)
=============================================================================
