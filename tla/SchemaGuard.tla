----------------------------- MODULE SchemaGuard -----------------------------
(***************************************************************************)
(* What is read off a schema: src/llm/schema_guard.py refuses one with a   *)
(* number in it, src/llm/null.py derives the neutral answer to it.  Both   *)
(* walk the models it is made of.                                          *)
(***************************************************************************)
EXTENDS Integers, Schemas

Containers == {"list", "set", "frozenset", "tuple", "variadic", "dict"}

-----------------------------------------------------------------------------
(* The guard.                                                              *)

\* One annotation, models apart.  What no branch of the code names (Literal,
\* Any, an abstract Sequence) is let through unlooked at.
RECURSIVE _check_annotation(_, _)
_check_annotation(annotation, conviction_ok) ==
  \/ annotation.kind = "Annotated" /\ _check_annotation(annotation.args[1], TRUE)
  \/ /\ annotation.kind \in Containers \cup {"Union"}
     /\ \A i \in DOMAIN annotation.args : _check_annotation(annotation.args[i], conviction_ok)
  \/ annotation.kind = "enum" /\ ~annotation.integral
  \/ annotation.kind = "int" /\ conviction_ok
  \/ annotation.kind \in {"None", "bool", "str", "model", "unrecognised"}

RECURSIVE ModelsIn(_)
ModelsIn(annotation) ==
  IF annotation.kind = "model" THEN {annotation.name}
  ELSE UNION {ModelsIn(annotation.args[i]) : i \in DOMAIN annotation.args}

\* Every model reached from the fields of a schema, each walked once.
RECURSIVE _walk_model(_, _)
_walk_model(catalogue, seen) ==
  LET next == seen \cup UNION {ModelsIn(catalogue[m][i].annotation) :
                <<m, i>> \in {x \in seen \X (1..10) : x[2] \in DOMAIN catalogue[x[1]]}}
  IN IF next = seen THEN seen ELSE _walk_model(catalogue, next)

validate_llm_schema(catalogue, schema) ==
  \A m \in _walk_model(catalogue, {schema}) :
    \A i \in DOMAIN catalogue[m] : _check_annotation(catalogue[m][i].annotation, FALSE)
-----------------------------------------------------------------------------
(* The neutral answer.                                                     *)

\* The most neutral value of an annotation: a None, an empty container, the
\* member NEUTRAL, the lowest conviction, or the neutral answer to a model.
RECURSIVE _neutral_for(_, _, _)
_neutral_for(catalogue, annotation, conviction) ==
  LET arg(i) == _neutral_for(catalogue, annotation.args[i], conviction)
      required(m) == {i \in DOMAIN catalogue[m] : catalogue[m][i].required}
      payload(m) == [i \in required(m) |->
                       _neutral_for(catalogue, catalogue[m][i].annotation, FALSE)]
  IN CASE annotation.kind = "Annotated" -> _neutral_for(catalogue, annotation.args[1], TRUE)
       [] annotation.kind = "Union" ->
            IF \E i \in DOMAIN annotation.args : annotation.args[i].kind = "None"
            THEN Value("None") ELSE arg(1)
       [] annotation.kind \in Containers \ {"tuple"} -> Value("empty")
       [] annotation.kind = "tuple" ->
            IF \E i \in DOMAIN annotation.args : arg(i) = Unanswerable
            THEN Unanswerable ELSE Value("tuple")
       [] annotation.kind = "model" ->
            IF \E i \in required(annotation.name) : payload(annotation.name)[i] = Unanswerable
            THEN Unanswerable
            ELSE [tag |-> "model", fields |-> payload(annotation.name)]
       [] annotation.kind = "enum" ->
            IF "NEUTRAL" \in annotation.members THEN Value("NEUTRAL") ELSE Unanswerable
       [] annotation.kind = "bool" -> Value("False")
       [] annotation.kind = "str" -> Value("NULL_RATIONALE")
       [] annotation.kind = "int" /\ conviction -> Value("NULL_CONVICTION")
       [] OTHER -> Unanswerable

\* The answer of NullProvider: its stance and conviction, or an error.
NullAnswer(catalogue, schema) ==
  LET answer == _neutral_for(catalogue, ModelOf(schema), FALSE)
      at(name) == CHOOSE i \in DOMAIN catalogue[schema] : catalogue[schema][i].name = name
  IN IF answer = Unanswerable THEN Unanswerable
     ELSE [tag |-> "view", stance |-> answer.fields[at("stance")].tag,
           conviction |-> NULL_CONVICTION]
=============================================================================
