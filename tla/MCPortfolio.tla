---------------------------- MODULE MCPortfolio ----------------------------
(***************************************************************************)
(* Two configurations on two scenarios.  The scenarios, the configurations *)
(* and the directories are interchangeable.                                *)
(***************************************************************************)
EXTENDS Portfolio, TLC

MCSymmetry == Permutations(PILOT_IDS) \union Permutations(Configurations)
                \union Permutations(RunDirs)
=============================================================================
