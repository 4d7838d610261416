----------------------------- MODULE AgentViews -----------------------------
(***************************************************************************)
(* The qualitative layer: src/agents/pipeline.py runs the macro agent,     *)
(* then the research and the fundamental agent for every symbol, each      *)
(* through the provider stack of LlmProviders, checks what they answer,    *)
(* and aggregates the opinions into tilts for the optimizer.               *)
(*                                                                         *)
(* An answer of a model is a view: a stance, a conviction, the list of     *)
(* URLs it cites, and whether its prose echoes the figures it was shown.   *)
(***************************************************************************)
EXTENDS LlmProviders, ViewMapping, SequencesExt

CONSTANTS
  Symbols,            \* the universe, in sorted order
  Headlines,          \* of each symbol, the news items: [published, url]
  LOOKBACK,           \* days a headline is news
  minimum_citations,
  Ratios,             \* of each symbol, the ratios its filings allow, or NoFiling
  NoFiling,
  macro_signals,      \* readings of the macro series, or NoSignals
  NoSignals,
  Days, MaxCycles     \* days of decision, and a bound on cycles

VARIABLES
  cycle,   \* the decision cycle: phase, as_of, todo, opinions, heard, events, cause
  cycles   \* cycles begun

vars == <<providers, cycle, cycles>>

Everything == "portfolio"
NEUTRAL == [stance |-> "NEUTRAL", conviction |-> 1]
Event(code, asked) == [code |-> code, agent |-> asked[1], symbol |-> asked[2]]
-----------------------------------------------------------------------------
(* What the agents are asked.                                              *)

\* The news of a decision day: nothing later than it, nothing stale.
visible_headlines(symbol, as_of) ==
  {h \in Headlines[symbol] : as_of - LOOKBACK <= h.published /\ h.published <= as_of}

Positive(x, threshold) == x # {} /\ \A v \in x : v > threshold
AtLeast(x, threshold) == x # {} /\ \A v \in x : v >= threshold

\* The phase of the business cycle, by rule.  A signal is the set of its
\* value, empty when it is not published; unemployment in tenths of a point
\* and inflation in hundredths.  No signals reach the rule TROUGH stands for.
classify_phase(s) ==
  LET inverted == s.term_spread # {} /\ \A v \in s.term_spread : v < 0
      rising == AtLeast(s.unemployment_change, 5)
      falling == s.unemployment_change # {} /\ \A v \in s.unemployment_change : v <= -5
      hot == Positive(s.inflation_yoy, 3)
      tightening == Positive(s.fed_funds_change, 0)
  IN CASE inverted /\ rising -> "CONTRACTION"
       [] inverted /\ ~rising /\ (hot \/ tightening) -> "PEAK"
       [] ~inverted /\ falling -> "EXPANSION"
       [] ~inverted /\ rising -> "PEAK"
       [] OTHER -> "NEUTRAL"

\* The agents a symbol is shown to, in order, after the portfolio.
Asks ==
  (IF macro_signals = NoSignals THEN <<>> ELSE << <<"macro", Everything>> >>)
    \o [i \in 1..2 * Len(Symbols) |->
          IF i % 2 = 1 THEN <<"research", Symbols[(i + 1) \div 2]>>
          ELSE <<"fundamental", Symbols[i \div 2]>>]

\* What the prompt shows an agent.  Only that of the research agent, and the
\* signals themselves, carry a date.
Shown(asked, as_of) ==
  CASE asked[1] = "research" -> visible_headlines(asked[2], as_of)
    [] asked[1] = "fundamental" ->
         IF Ratios[asked[2]] = NoFiling THEN {} ELSE Ratios[asked[2]]
    [] asked[1] = "macro" -> {classify_phase(macro_signals)}
Prompt(asked, as_of) ==
  [agent |-> asked[1], symbol |-> asked[2], shown |-> Shown(asked, as_of),
   as_of |-> IF asked[1] = "research" THEN as_of ELSE 0]
Questions == {Prompt(asked, as_of) : asked \in ToSet(Asks), as_of \in Days}

\* No name twice; days are numbers; a vendor's view that reaches the agent has
\* passed the validation of its schema.
ASSUME ViewsAssumption ==
  /\ Symbols \in Seq(ToSet(Symbols)) /\ IsInjective(Symbols)
  /\ LOOKBACK \in Nat /\ minimum_citations \in Nat
  /\ Days \subseteq Nat
  /\ \A symbol \in ToSet(Symbols) : \A h \in Headlines[symbol] : h.published \in Nat
  /\ \A prompt \in Questions : \A view \in Views(prompt) :
       /\ view.stance \in Stances /\ view.conviction \in Convictions
       /\ view.model # "null" /\ view.cites \in Seq(ToSet(view.cites))
-----------------------------------------------------------------------------
(* What is made of an answer.                                              *)

Uncited(view) == Len(view.cites) < minimum_citations
Invented(view, prompt) == ToSet(view.cites) \ {h.url : h \in prompt.shown}

\* Mutant: one source that was shown redeems the others.
research_opinion_lenient(view, prompt) ==
  IF Uncited(view) \/ Invented(view, prompt) = ToSet(view.cites) THEN NEUTRAL
  ELSE [stance |-> view.stance, conviction |-> view.conviction]

\* ResearchAgent.run: a view without a source that was shown is discarded.
research_opinion(view, prompt) ==
  IF Uncited(view) \/ Invented(view, prompt) # {} THEN NEUTRAL
  ELSE [stance |-> view.stance, conviction |-> view.conviction]

\* The other agents keep the view as it is.
Opinion(view, prompt) ==
  IF prompt.agent = "research" THEN research_opinion(view, prompt)
  ELSE [stance |-> view.stance, conviction |-> view.conviction]

\* What the audit log gets to see of an answer.
Audited(view, prompt) ==
  LET code == CASE prompt.agent = "research" /\ Uncited(view) -> {"MISSING_CITATION"}
                [] prompt.agent = "research" /\ ~Uncited(view)
                     /\ Invented(view, prompt) # {} -> {"FABRICATED_CITATION"}
                [] prompt.agent = "fundamental" /\ ~view.echoed -> {"HALLUCINATED_FIGURE"}
                [] OTHER -> {}
  IN {Event(c, <<prompt.agent, prompt.symbol>>) : c \in code}
-----------------------------------------------------------------------------
(* The cycle.                                                              *)

Fresh(as_of) ==
  [phase |-> "asking", as_of |-> as_of, todo |-> Asks,
   opinions |-> <<>>, heard |-> <<>>, events |-> {}, cause |-> ""]
Resting == [Fresh(0) EXCEPT !.phase = "idle", !.todo = <<>>]

Asked == Head(cycle.todo)
TheirPrompt == Prompt(Asked, cycle.as_of)

\* The agent has nothing to be asked: no news, no filing, no ratio.
Silent == TheirPrompt.shown = {}

With(f, a, x) == [b \in DOMAIN f \cup {a} |-> IF b = a THEN x ELSE f[b]]

\* The opinion of the agent whose turn it is; what was heard is kept for the
\* properties.
Conclude(opinion, heard, events) ==
  cycle' = [cycle EXCEPT !.todo = Tail(@), !.opinions = With(@, Asked, opinion),
              !.heard = With(@, Asked, heard), !.events = @ \cup events]

\* run: a cycle begins.
Begin(as_of) ==
  /\ cycle.phase \in {"idle", "done", "aborted"} /\ cycles < MaxCycles
  /\ cycle' = Fresh(as_of)
  /\ cycles' = cycles + 1
  /\ UNCHANGED providers

Ask ==
  /\ cycle.phase = "asking" /\ cycle.todo # <<>> /\ ~Silent
  /\ Complete(TheirPrompt)
  /\ UNCHANGED <<cycle, cycles>>

Skip ==
  /\ cycle.phase = "asking" /\ cycle.todo # <<>> /\ Silent
  /\ Conclude(NEUTRAL, {}, {})
  /\ UNCHANGED <<providers, cycles>>

\* The agent returns a view.
Hear ==
  /\ call.state = "answered"
  /\ Conclude(Opinion(call.view, call.prompt), {call.view}, Audited(call.view, call.prompt))
  /\ call' = Idle
  /\ UNCHANGED <<stack, release, limiter, cached, cycles>>

\* Mutant: the failure of an agent ends the cycle.
DegradeAborts ==
  /\ call.state = "failed"
  /\ cycle' = [cycle EXCEPT !.phase = "aborted", !.cause = "LLMError"]
  /\ call' = Idle
  /\ UNCHANGED <<stack, release, limiter, cached, cycles>>

\* The agent fails: recorded, and the cycle goes on.
Degrade ==
  /\ call.state = "failed"
  /\ Conclude(NEUTRAL, {}, {Event("AGENT_UNAVAILABLE", Asked)})
  /\ call' = Idle
  /\ UNCHANGED <<stack, release, limiter, cached, cycles>>

\* An exception that is no LLMError ends the cycle; its cause is kept for the
\* properties.
Abort ==
  /\ call.state = "raised"
  /\ cycle' = [cycle EXCEPT !.phase = "aborted", !.cause = call.cause]
  /\ call' = Idle
  /\ UNCHANGED <<stack, release, limiter, cached, cycles>>

\* The opinions of one name, the macro view applied to each.
OpinionsOn(symbol, opinions) ==
  [agent \in Agents |->
     IF agent = "macro"
     THEN IF macro_signals = NoSignals THEN NEUTRAL ELSE opinions[<<"macro", Everything>>]
     ELSE opinions[<<agent, symbol>>]]

tilts == [symbol \in ToSet(Symbols) |-> aggregate(OpinionsOn(symbol, cycle.opinions))]

Finish ==
  /\ cycle.phase = "asking" /\ cycle.todo = <<>>
  /\ cycle' = [cycle EXCEPT !.phase = "done"]
  /\ UNCHANGED <<providers, cycles>>

Release ==
  /\ cycle.phase # "asking" /\ NextRelease
  /\ UNCHANGED <<cycle, cycles>>

Init == ProvidersInit /\ cycle = Resting /\ cycles = 0

Next ==
  \/ \E as_of \in Days : Begin(as_of)
  \/ Ask \/ Skip \/ Hear \/ Degrade \/ Abort \/ Finish
  \/ Step /\ UNCHANGED <<cycle, cycles>>
  \/ Clock /\ UNCHANGED <<cycle, cycles>>
  \/ Release

Spec == Init /\ [][Next]_vars
-----------------------------------------------------------------------------
(* Properties.                                                             *)

\* Of a view, whether the agent it came from had grounds for it.
Grounded(view, prompt) ==
  prompt.agent = "research" =>
    /\ Len(view.cites) >= minimum_citations
    /\ \A url \in ToSet(view.cites) : \E h \in Headlines[prompt.symbol] :
         h.url = url /\ h.published \in (cycle.as_of - LOOKBACK)..cycle.as_of

\* At any time, also in a cycle that was cut short: each agent whose turn was
\* has an opinion, and nobody else.  It is the one that was heard if that was
\* grounded in news of the day, and NEUTRAL if not, as it is if what was heard is
\* the null provider's answer to an outage; an agent whose stack raised LLMError
\* is NEUTRAL and on record.  Failures, refusals and nonsense do not end a cycle:
\* only an exception no wrapper knows does, a vendor's body of another type or a
\* schema that may not be asked for.  Of a cycle that ends every agent was asked,
\* no tilt exceeds the largest of the table, and a name nobody has a view on has
\* none (pipeline.py, research.py, aggregator.py).
OpinionsAreEarned ==
  cycle.phase # "idle" =>
    /\ DOMAIN cycle.opinions = {Asks[i] : i \in 1..(Len(Asks) - Len(cycle.todo))}
    /\ \A asked \in DOMAIN cycle.opinions :
         LET prompt == Prompt(asked, cycle.as_of)
             opinion == cycle.opinions[asked]
         IN /\ \A view \in cycle.heard[asked] :
                 /\ opinion = IF Grounded(view, prompt)
                              THEN [stance |-> view.stance, conviction |-> view.conviction]
                              ELSE NEUTRAL
                 /\ view.model = "null" => opinion = NEUTRAL
            /\ cycle.heard[asked] = {} =>
                 /\ opinion = NEUTRAL
                 /\ prompt.shown # {} <=> Event("AGENT_UNAVAILABLE", asked) \in cycle.events
    /\ cycle.phase = "aborted" => cycle.cause \in Unexpected \cup {Forbidden}
    /\ cycle.phase = "done" =>
         /\ cycle.todo = <<>>
         /\ \A symbol \in ToSet(Symbols) :
              /\ tilts[symbol] <= mapping.max_absolute_tilt * WeightUnits
              /\ -tilts[symbol] <= mapping.max_absolute_tilt * WeightUnits
              /\ (\A agent \in Agents :
                    OpinionsOn(symbol, cycle.opinions)[agent].stance = "NEUTRAL")
                   => tilts[symbol] = 0

\* With the cache in front a question that was answered is answered from the
\* file, the same in every later cycle, and nobody is asked again; a file is
\* served to the question it answers only, in a schema it fits, and is replaced
\* only when a new version of the code no longer can read it (CachingProvider,
\* LLMResponseCache, cache_key).
AnswersStand ==
  [][LET files(prompt) == {c \in cached : c.about = prompt /\ c.key.provider = stack.selected
                             /\ Fits(c, Schema(prompt))}
     IN stack.caching =>
          /\ (call.state = "try" /\ call'.state = "answered") =>
               \E c \in files(call.prompt) : c.view = call'.view
          /\ (call.state = "try" /\ call'.state = "request") =>
               \A c \in files(call.prompt) :
                 c.key.shape # Shape(Catalogues[release], Schema(call.prompt))
          /\ \A c \in cached : c \in cached' \/ ~Fits(c, c.key.schema)]_vars
=============================================================================
