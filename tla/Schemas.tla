------------------------------- MODULE Schemas -------------------------------
(***************************************************************************)
(* The response schemas of src/agents/schemas.py, and the values a neutral *)
(* answer is made of.                                                      *)
(*                                                                         *)
(* A catalogue maps the name of a model to the sequence of its fields.  An *)
(* annotation is a record with a kind and the annotations it is made of.   *)
(***************************************************************************)
EXTENDS Sequences

\* Annotations: a scalar, Annotated[inner, marker], X | Y and X[...], the
\* reference to another model, and an enumeration.
Scalar(kind) == [kind |-> kind, args |-> <<>>]
Marked(inner) == [kind |-> "Annotated", args |-> <<inner>>]
Made(kind, args) == [kind |-> kind, args |-> args]
ModelOf(name) == [kind |-> "model", args |-> <<>>, name |-> name]
EnumOf(members, integral) ==
  [kind |-> "enum", args |-> <<>>, members |-> members, integral |-> integral]

Field(name, annotation, required) ==
  [name |-> name, annotation |-> annotation, required |-> required]

Stance == EnumOf({"BULLISH", "NEUTRAL", "BEARISH"}, FALSE)
Conviction == Marked(Scalar("int"))

\* The schemas the agents ask for.
schemas ==
  [Citation |-> <<Field("url", Scalar("str"), TRUE),
                  Field("published", Scalar("str"), TRUE),
                  Field("quote", Scalar("str"), TRUE)>>,
   ResearchView |-> <<Field("ticker", Scalar("str"), TRUE),
                      Field("stance", Stance, TRUE),
                      Field("conviction", Conviction, TRUE),
                      Field("rationale", Scalar("str"), TRUE),
                      Field("citations", Made("list", <<ModelOf("Citation")>>), FALSE)>>,
   FundamentalView |-> <<Field("ticker", Scalar("str"), TRUE),
                         Field("stance", Stance, TRUE),
                         Field("conviction", Conviction, TRUE),
                         Field("rationale", Scalar("str"), TRUE),
                         Field("figures_cited", Made("list", <<Scalar("str")>>), FALSE)>>,
   MacroNarrative |-> <<Field("stance", Stance, TRUE),
                        Field("conviction", Conviction, TRUE),
                        Field("commentary", Scalar("str"), TRUE),
                        Field("caveat", Made("Union", <<Scalar("str"), Scalar("None")>>), FALSE)>>]
-----------------------------------------------------------------------------
\* The value of a field, and what stands for one where no neutral one exists.
Value(tag) == [tag |-> tag]
Unanswerable == Value("NullProviderError")
NULL_CONVICTION == 1
=============================================================================
