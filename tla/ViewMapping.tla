----------------------------- MODULE ViewMapping -----------------------------
(***************************************************************************)
(* Where an opinion becomes a number: src/agents/aggregator.py over the    *)
(* table config/view_mapping.yaml.  A mapping is a record of the tilts of  *)
(* each stance and conviction, the weights of the agents in WeightUnits-th *)
(* parts, and the largest tilt; tilts are in units of the table, so that a *)
(* weighted tilt is in units of the table divided by WeightUnits.          *)
(***************************************************************************)
EXTENDS Integers, FiniteSets, Functions

CONSTANTS WeightUnits, mapping

Stances == {"BULLISH", "NEUTRAL", "BEARISH"}
Convictions == 1..5
Agents == {"fundamental", "macro", "research"}

\* mapping_from_document: every stance has a tilt at every conviction, that of
\* NEUTRAL is zero, and the weights sum to one.
mapping_from_document(m) ==
  /\ m.tilts \in [Stances -> [Convictions -> Int]]
  /\ \A c \in Convictions : m.tilts["NEUTRAL"][c] = 0
  /\ m.weights \in [Agents -> Int]
  /\ m.weights["fundamental"] + m.weights["macro"] + m.weights["research"] = WeightUnits
  /\ m.max_absolute_tilt \in Nat

ASSUME MappingAssumption ==
  /\ WeightUnits \in Nat \ {0}
  /\ mapping_from_document(mapping)

Opinions == [stance : Stances, conviction : Convictions]

contribution(agent, opinion) ==
  mapping.weights[agent] * mapping.tilts[opinion.stance][opinion.conviction]

Clamped(total) ==
  LET limit == mapping.max_absolute_tilt * WeightUnits
  IN IF total > limit THEN limit ELSE IF total < -limit THEN -limit ELSE total

\* The tilt of one name from the opinions of the three agents on it.
aggregate(opinions) ==
  Clamped(contribution("fundamental", opinions["fundamental"])
          + contribution("macro", opinions["macro"])
          + contribution("research", opinions["research"]))
=============================================================================
