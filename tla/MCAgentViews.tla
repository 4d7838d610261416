---------------------------- MODULE MCAgentViews ----------------------------
(***************************************************************************)
(* Two names, one without filings, news that appears and goes stale over   *)
(* two decision days, two cycles, and three versions of the schemas: the   *)
(* present one, one with a nested field more and an enumeration without    *)
(* NEUTRAL, and one with a number in it.                                   *)
(***************************************************************************)
EXTENDS AgentViews, TLC

Guard == INSTANCE SchemaGuard
MCGuardPasses(catalogue, schema) == Guard!validate_llm_schema(catalogue, schema)
MCModelsWithin(catalogue, seen) == Guard!_walk_model(catalogue, seen)
MCNeutralAnswer(catalogue, schema) == Guard!NullAnswer(catalogue, schema)

MCStacks ==
  {[selected |-> s, caching |-> c, resilient |-> r] :
     <<s, c, r>> \in {<<"gemini", TRUE, TRUE>>, <<"groq", FALSE, FALSE>>,
                     <<"failover", TRUE, TRUE>>, <<"failover", TRUE, FALSE>>,
                     <<"null", FALSE, TRUE>>}}
MCSymbols == <<"AAA", "SPY">>
MCHeadlines ==
  [AAA |-> {[published |-> 1, url |-> "u1"], [published |-> 2, url |-> "u2"]},
   SPY |-> {[published |-> 2, url |-> "u2"]}]
MCRatios == [AAA |-> {"net_margin"}, SPY |-> NoFiling]
MCSignals ==
  [term_spread |-> {-1}, unemployment_change |-> {}, inflation_yoy |-> {4},
   fed_funds_change |-> {0}]

\* A table whose weighted tilts exceed its largest tilt.
MCMapping ==
  LET row(k) == [c \in 1..5 |-> k * c]
  IN [tilts |-> [BULLISH |-> row(2), NEUTRAL |-> row(0), BEARISH |-> row(-2)],
      weights |-> [fundamental |-> 5, macro |-> 2, research |-> 3],
      max_absolute_tilt |-> 6]

View(stance, cites, echoed) ==
  [model |-> "vendor", stance |-> stance, conviction |-> 5, cites |-> cites, echoed |-> echoed]
MCViews(prompt) ==
  CASE prompt.agent = "research" ->
         {View("BULLISH", <<"u2">>, TRUE), View("BEARISH", <<"u1", "u2">>, TRUE)}
    [] prompt.agent = "fundamental" -> {View("BULLISH", <<>>, FALSE), View("BEARISH", <<>>, TRUE)}
    [] prompt.agent = "macro" -> {View("BULLISH", <<>>, TRUE)}

Nested == [schemas EXCEPT
  !.Citation = Append(@, Field("title", Scalar("str"), TRUE)),
  !.MacroNarrative = <<Field("stance", EnumOf({"BULLISH", "BEARISH"}, FALSE), TRUE)>> \o Tail(@)]
Numeric == [schemas EXCEPT
  !.FundamentalView = Append(@, Field("fair_value", Made("Union", <<Scalar("number"), Scalar("None")>>), FALSE))]
MCCatalogues == <<schemas, Nested, Numeric>>
=============================================================================
