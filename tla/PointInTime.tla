---------------------------- MODULE PointInTime -----------------------------
(***************************************************************************)
(* src/data/pit.py, and how fred.py and edgar.py make point-in-time series *)
(* of what they are sent.  Instants are days.  A row of a vendor's answer  *)
(* is [series, period, stamp, value]: stamp is realtime_start (FRED) or    *)
(* filed (EDGAR), and a value of Missing is FRED's ".".                    *)
(*                                                                         *)
(* A series is a set of vintages.  The code sorts them by period and then  *)
(* publication; one period has at most one vintage of one publication      *)
(* date, so that the order in which the vendor listed them is immaterial.  *)
(***************************************************************************)
EXTENDS Integers, FiniteSets, SequencesExt

CONSTANTS
  Daily,            \* FRED series outside REVISED_SERIES
  Filed,            \* EDGAR tags
  ConceptTags,      \* CONCEPT_TAGS of one field: tags in order of preference
  PublicationLag    \* DAILY_PUBLICATION_LAG and PUBLICATION_LAG, in days

ASSUME PointInTimeAssumption ==
  /\ PublicationLag \in Nat
  /\ Daily \cap Filed = {}
  /\ ConceptTags \in Seq(Filed)

None == [period |-> -1, published |-> -1, value |-> -1]
Missing == 0

Lower(m, n) == IF m <= n THEN m ELSE n
-----------------------------------------------------------------------------
(* Vintages.                                                               *)

\* parse_observations: an unrevised row carries no publication date of its own.
ParsedObservation(row) ==
  LET published == IF row.series \in Daily THEN row.period + PublicationLag
                   ELSE row.stamp
  IN [period |-> Lower(row.period, published), published |-> published,
      value |-> row.value]

\* concept_series: usable some time after the filing.
ParsedFact(row) ==
  [period |-> row.period, published |-> row.stamp + PublicationLag,
   value |-> row.value]

parse_observations(rows) ==
  {ParsedObservation(row) : row \in {r \in rows : r.value # Missing}}

concept_series(rows, tag) ==
  {ParsedFact(row) : row \in {r \in rows : r.series = tag /\ r.value # Missing}}

\* Mutant: the latest revision of each period, whenever it was published.
visible_restated(vintages, t) ==
  {v \in vintages : /\ \E u \in vintages : u.period = v.period /\ u.published <= t
                    /\ \A u \in vintages :
                         u.period = v.period => u.published <= v.published}

\* Of each period the latest revision published by t.
visible_at(vintages, t) ==
  {v \in vintages : /\ v.published <= t
                    /\ \A u \in vintages :
                         (u.period = v.period /\ u.published <= t)
                            => u.published <= v.published}

\* The most recent period known, at its value then.
as_of(vintages, t) ==
  LET visible == visible_at(vintages, t) IN
  IF visible = {} THEN None
  ELSE CHOOSE v \in visible : \A u \in visible : u.period <= v.period

latest_for_period(vintages, period, t) ==
  LET known == {v \in visible_at(vintages, t) : v.period = period} IN
  IF known = {} THEN None ELSE CHOOSE v \in known : TRUE

\* Mutant: the place a year before, counted from the last one as the first.
year_over_year_short(vintages, t, periods_per_year) ==
  LET visible == visible_at(vintages, t)
      Rank(v) == Cardinality({u \in visible : u.period > v.period})
  IN IF Cardinality(visible) <= periods_per_year THEN <<>>
     ELSE << CHOOSE v \in visible : Rank(v) = 0,
             CHOOSE v \in visible : Rank(v) = periods_per_year - 1 >>

\* The two vintages year_over_year_change divides: the last visible one and
\* the one periods_per_year places before it; none without that many.
year_over_year(vintages, t, periods_per_year) ==
  LET visible == visible_at(vintages, t)
      Rank(v) == Cardinality({u \in visible : u.period > v.period})
  IN IF Cardinality(visible) <= periods_per_year THEN <<>>
     ELSE << CHOOSE v \in visible : Rank(v) = 0,
             CHOOSE v \in visible : Rank(v) = periods_per_year >>

\* Mutant: the tag with the latest period, whatever the order of preference.
get_fundamentals_newest(rows, t) ==
  LET answer(i) == as_of(concept_series(rows, ConceptTags[i]), t)
      usable == {i \in DOMAIN ConceptTags : answer(i) # None}
  IN IF usable = {} THEN None
     ELSE answer(CHOOSE i \in usable :
                   \A j \in usable : answer(j).period <= answer(i).period)

\* get_fundamentals, one field: the first tag with something visible.
get_fundamentals(rows, t) ==
  LET answer(i) == as_of(concept_series(rows, ConceptTags[i]), t)
      usable == {i \in DOMAIN ConceptTags : answer(i) # None}
  IN IF usable = {} THEN None
     ELSE answer(CHOOSE i \in usable : \A j \in usable : i <= j)
=============================================================================
