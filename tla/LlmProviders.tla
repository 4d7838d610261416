---------------------------- MODULE LlmProviders ----------------------------
(***************************************************************************)
(* One completion through the provider stack: src/llm/base.py, cache.py,   *)
(* __init__.py, gemini.py and groq.py.  get_provider selects a model or a  *)
(* chain of them; a cache of answers and the resilient wrapper with its    *)
(* token bucket may stand before it.  The vendors answer, refuse, answer   *)
(* nonsense, or send a body the code does not expect.                      *)
(***************************************************************************)
EXTENDS Schemas, TokenBucket, FiniteSets, Functions

CONSTANTS
  Stacks,             \* how the provider may be built
  Catalogues,         \* schemas of successive versions of the code
  Views(_),           \* what a vendor may answer to a prompt
  \* What SchemaGuard reads off a schema: whether validate_llm_schema lets it be
  \* asked for, the models _walk_model reaches, and the neutral answer to it.
  GuardPasses(_, _), ModelsWithin(_, _), NeutralAnswer(_, _)

\* The schemas the agents ask for.  The neutral answer, where there is one, is
\* NEUTRAL at the lowest conviction.
Requested == {"ResearchView", "FundamentalView", "MacroNarrative"}

ASSUME ProvidersAssumption ==
  /\ Stacks \subseteq [selected : {"null", "gemini", "groq", "failover"},
                       caching : BOOLEAN, resilient : BOOLEAN]
  /\ Catalogues \in Seq(Range(Catalogues)) /\ Catalogues # <<>>
  /\ \A i \in DOMAIN Catalogues, schema \in Requested :
       LET answer == NeutralAnswer(Catalogues[i], schema)
       IN \/ answer = Unanswerable
          \/ answer.stance = "NEUTRAL" /\ answer.conviction = NULL_CONVICTION

MAX_REPARSE_ATTEMPTS == 2

VARIABLES
  stack,    \* how the provider is built: selected, caching, resilient
  release,  \* the version of the code that runs
  cached,   \* the files of LLMResponseCache: a set of records
  call      \* the completion in progress

providers == <<stack, release, limiter, cached, call>>

Idle == [state |-> "idle"]
Calling(prompt) ==
  [state |-> "try", prompt |-> prompt, attempt |-> 1, at |-> 1]
Answered(prompt, view) == [state |-> "answered", prompt |-> prompt, view |-> view]
\* LLMError reaches the caller, or an exception none of the wrappers knows, whose
\* cause is kept for the properties.
Failed(prompt) == [state |-> "failed", prompt |-> prompt]
Raised(prompt, cause) == [state |-> "raised", prompt |-> prompt, cause |-> cause]

\* Failures of one request, by the exception they end in.
Unavailable == {"no key", "HTTPError", "429", "status 4xx or 5xx"}   \* LLMError
Nonsense == {"unexpected shape", "fails the schema"}                 \* InvalidResponseError
Unexpected == {"body of another type"}                               \* TypeError
Forbidden == "schema with a number"                                  \* InvalidLLMSchemaError
-----------------------------------------------------------------------------
(* The parts of the stack.                                                 *)

\* The models of the selected provider, in the order they are tried.
get_provider(name) ==
  CASE name = "null" -> <<"null">>
    [] name = "gemini" -> <<"gemini">>
    [] name = "groq" -> <<"groq">>
    [] name = "failover" -> <<"gemini", "groq", "null">>

Schema(prompt) ==
  CASE prompt.agent = "research" -> "ResearchView"
    [] prompt.agent = "fundamental" -> "FundamentalView"
    [] prompt.agent = "macro" -> "MacroNarrative"

NullView(prompt) == NeutralAnswer(Catalogues[release], Schema(prompt))
NullReply(prompt) ==
  IF NullView(prompt) = Unanswerable THEN Failed(prompt)
  ELSE Answered(prompt, [model |-> "null", stance |-> NullView(prompt).stance,
                         conviction |-> NullView(prompt).conviction,
                         cites |-> <<>>, echoed |-> TRUE])

\* What tells a schema from another in a key: names and bare annotations of
\* its own fields, neither those of nested models nor which are required.
Shape(catalogue, schema) ==
  LET bare(a) == IF a.kind = "Annotated" THEN a.args[1] ELSE a
  IN {<<f.name, bare(f.annotation)>> : f \in Range(catalogue[schema])}

\* Mutant: the name of the symbol stands for what the prompt says of it.
cache_key_coarse(prompt) ==
  [provider |-> stack.selected, schema |-> Schema(prompt),
   shape |-> Shape(Catalogues[release], Schema(prompt)),
   user |-> <<prompt.agent, prompt.symbol>>]

\* The key of an answer: who was asked, in which schema, what.
cache_key(prompt) ==
  [provider |-> stack.selected, schema |-> Schema(prompt),
   shape |-> Shape(Catalogues[release], Schema(prompt)), user |-> prompt]

\* An answer written under one catalogue is valid under another: no model in
\* it lacks a field that is required now.  Nested models are those of citations.
Fits(file, schema) ==
  LET named(fields) == {f.name : f \in Range(fields)}
      nested == IF file.view.cites = <<>> THEN {} ELSE ModelsWithin(Catalogues[release], {schema})
  IN \A m \in {schema} \cup nested :
       \A f \in Range(Catalogues[release][m]) :
         f.required => f.name \in named(file.written[m])

\* get(): the file of the key, unless it is stale.
Cached(prompt) == {c \in cached : c.key = cache_key(prompt) /\ Fits(c, Schema(prompt))}

\* put() replaces the file of the key.  What it answers is kept for the
\* properties.
Put(prompt, view) ==
  {c \in cached : c.key # cache_key(prompt)}
    \cup {[key |-> cache_key(prompt), view |-> view,
           about |-> prompt, written |-> Catalogues[release]]}
-----------------------------------------------------------------------------
(* A completion.                                                           *)

\* ResilientProvider gives up: the neutral answer takes the place of one.
Fallback(prompt) == call' = NullReply(prompt)

\* complete(): the schema is checked, then the bucket asked, then inner.
Complete(prompt) ==
  /\ call = Idle
  /\ \/ /\ ~GuardPasses(Catalogues[release], Schema(prompt))
        /\ call' = Raised(prompt, Forbidden)
        /\ UNCHANGED limiter
     \/ /\ GuardPasses(Catalogues[release], Schema(prompt))
        /\ ~stack.resilient
        /\ call' = Calling(prompt)
        /\ UNCHANGED limiter
     \/ /\ GuardPasses(Catalogues[release], Schema(prompt))
        /\ stack.resilient
        /\ take
        /\ IF Granted THEN call' = Calling(prompt) ELSE Fallback(prompt)
  /\ UNCHANGED <<stack, release, cached>>

\* CachingProvider answers from a file, and asks nobody.
Hit ==
  /\ call.state = "try" /\ stack.caching
  /\ \E c \in Cached(call.prompt) : call' = Answered(call.prompt, c.view)
  /\ UNCHANGED <<stack, release, limiter, cached>>

\* CachingProvider has no file, or there is none: the models are asked.
Miss ==
  /\ call.state = "try"
  /\ stack.caching => Cached(call.prompt) = {}
  /\ call' = [call EXCEPT !.state = "request", !.at = 1]
  /\ UNCHANGED <<stack, release, limiter, cached>>

Chain == get_provider(stack.selected)

\* The answer of a model, or of NullProvider at the end of the chain; kept.
Respond(view) ==
  /\ call.state = "request" /\ Chain[call.at] # "null"
  /\ call' = Answered(call.prompt, view)
  /\ cached' = IF stack.caching THEN Put(call.prompt, view) ELSE cached
  /\ UNCHANGED <<stack, release, limiter>>

RespondNull ==
  /\ call.state = "request" /\ Chain[call.at] = "null"
  /\ call' = NullReply(call.prompt)
  /\ cached' = IF stack.caching /\ call'.state = "answered"
               THEN Put(call.prompt, call'.view) ELSE cached
  /\ UNCHANGED <<stack, release, limiter>>

\* A request fails.  The chain goes on to the next model; its last failure is
\* a plain LLMError, whatever it was.  A single model may be asked again.
Fail(outcome) ==
  /\ call.state = "request" /\ Chain[call.at] # "null"
  /\ \/ /\ outcome \in Unavailable \cup Nonsense
        /\ call.at < Len(Chain)
        /\ call' = [call EXCEPT !.at = @ + 1]
     \/ /\ outcome \in Nonsense
        /\ call.at = Len(Chain) /\ stack.resilient
        /\ call.attempt < MAX_REPARSE_ATTEMPTS
        /\ call' = [call EXCEPT !.state = "try", !.attempt = @ + 1]
     \/ /\ \/ outcome \in Unavailable
           \/ outcome \in Nonsense /\ call.attempt = MAX_REPARSE_ATTEMPTS
        /\ call.at = Len(Chain) /\ stack.resilient
        /\ Fallback(call.prompt)
     \/ /\ outcome \in Unavailable \cup Nonsense
        /\ call.at = Len(Chain) /\ ~stack.resilient
        /\ call' = Failed(call.prompt)
     \/ /\ outcome \in Unexpected
        /\ call' = Raised(call.prompt, outcome)
  /\ UNCHANGED <<stack, release, limiter, cached>>
-----------------------------------------------------------------------------
(* The world.  The clock moves between completions: nothing reads it during *)
(* one.                                                                    *)

Clock ==
  /\ call = Idle
  /\ Advance \/ StepBack
  /\ UNCHANGED <<stack, release, cached, call>>

\* Between cycles a process with the next version of the code takes over: its
\* bucket is new, the files of the cache are the old ones.
NextRelease ==
  /\ release < Len(Catalogues)
  /\ release' = release + 1
  /\ Restart
  /\ UNCHANGED <<stack, cached, call>>

ProvidersInit ==
  /\ stack \in Stacks
  /\ BucketInit
  /\ release = 1 /\ cached = {} /\ call = Idle

\* A completion goes on until it is answered or fails.
Step ==
  \/ Hit \/ Miss \/ RespondNull
  \/ call.state = "request" /\ \E view \in Views(call.prompt) : Respond(view)
  \/ \E outcome \in Unavailable \cup Nonsense \cup Unexpected : Fail(outcome)
=============================================================================
