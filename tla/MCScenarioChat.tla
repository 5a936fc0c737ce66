--------------------------- MODULE MCScenarioChat ---------------------------
(* Small instances of ScenarioChat. *)
EXTENDS ScenarioChat, TLC

RequestSymmetry == Permutations(Requests)
=============================================================================
