-------------------------- MODULE MCMissionPlanning --------------------------
(* A small instance of MissionPlanning: three item keys, and model answers  *)
(* that are a plan without dependencies, a chain, a cycle, an unknown       *)
(* dependency and an empty plan.                                            *)
EXTENDS MissionPlanning, TLC

CONSTANTS a, b, c

MCAnswers == {[keys |-> {a, b}, deps |-> {}],
              [keys |-> {a, b, c}, deps |-> {<<b, a>>, <<c, b>>}],
              [keys |-> {a, b, c}, deps |-> {<<a, b>>, <<b, c>>, <<c, a>>}],
              [keys |-> {a}, deps |-> {<<a, b>>}],
              [keys |-> {}, deps |-> {}]}

Symmetry == Permutations(Sessions)
=============================================================================
