---------------------------- MODULE BacktestLoop ----------------------------
(***************************************************************************)
(* src/backtest/engine.py: the event loop, one event at a time, under the  *)
(* folds of src/backtest/walkforward.py.  Events of one stamp are pending  *)
(* until the next stamp, or the end of the stream, flushes them: the book  *)
(* is marked and, on the sessions the rebalance clock picks, a decision is *)
(* made.                                                                   *)
(*                                                                         *)
(* A history holds the stamps of a symbol's adjusted closes: no property   *)
(* is about their values.  What the optimizer, the risk engine and the     *)
(* executor answer is any outcome RiskEngine and SimulatedExecution allow. *)
(***************************************************************************)
EXTENDS Integers, FiniteSets, SequencesExt, Functions

CONSTANTS
  Symbols,           \* config.symbols
  Sources,           \* streams, ordered by stamp and symbol
  Spans,             \* what a walk-forward is asked: [start, end, estimation, trade]
  InitialCash,       \* config.initial_cash
  RebalanceEvery,    \* config.rebalance_every, in sessions
  EstimationWindow,  \* config.estimation_window, in returns
  Holdings,          \* share counts a rebalance may end with
  Costs              \* what it may cost

Events == [stamp : Nat, symbol : STRING, price : Nat]

\* Only a bar carries a price; an event without one (price 0) is passed over.
IsBar(event) == event.price > 0

\* How far back the last rebalance seems before the first one.
LongAgo == 1000000000

ASSUME BacktestAssumption ==
  /\ IsFiniteSet(Symbols) /\ Cardinality(Symbols) >= 2
  /\ {InitialCash, RebalanceEvery, EstimationWindow} \subseteq Nat \ {0}
  /\ RebalanceEvery <= LongAgo
  /\ Holdings \subseteq [Symbols -> Nat]
  /\ Costs \subseteq Nat

\* rolling_windows refuses spans that are not positive.
ASSUME SpansAssumption ==
  Spans \subseteq [start : Nat, end : Nat, estimation : Nat \ {0}, trade : Nat \ {0}]

\* InMemoryEventSource sorts its events; a recording has one daily bar of a
\* symbol at a stamp.
ASSUME SourcesAssumption ==
  \A events \in Sources :
    /\ events \in Seq(Events)
    /\ \A i, j \in DOMAIN events : i < j =>
         /\ events[i].stamp <= events[j].stamp
         /\ ~ /\ IsBar(events[i]) /\ IsBar(events[j])
              /\ events[i].symbol = events[j].symbol
              /\ events[i].stamp = events[j].stamp

VARIABLES
  source,   \* the recorded events, read by every fold
  span,     \* the arguments of run_walk_forward
  fold,     \* the fold that runs; 0 before the first
  next,     \* the event of the source its stream yields next
  loop      \* the locals of run_backtest in that fold

vars == <<source, span, fold, next, loop>>
-----------------------------------------------------------------------------
(* The folds.                                                              *)

Window(estimation_start, cursor, stop) ==
  [estimation_start |-> estimation_start, estimation_end |-> cursor,
   trade_start |-> cursor, trade_end |-> stop]

rolling_windows(s) ==
  LET From[cursor \in Nat] ==
        IF cursor >= s.end THEN <<>>
        ELSE LET stop == IF cursor + s.trade < s.end THEN cursor + s.trade
                         ELSE s.end
             IN <<Window(cursor - s.estimation, cursor, stop)>> \o From[stop]
  IN From[s.start + s.estimation]

Windows == rolling_windows(span)

\* fold_config: estimation and trading are one backtest.
Start(w) == w.estimation_start
End(w) == w.trade_end

InStream(event, w) == Start(w) <= event.stamp /\ event.stamp <= End(w)

-----------------------------------------------------------------------------
(* One pass of the loop.                                                   *)

NoStamp == -1

Fresh(start) ==
  [clock |-> start, account |-> [cash |-> InitialCash, positions |-> [s \in Symbols |-> 0]],
   prices |-> [s \in {} |-> 0], history |-> [s \in Symbols |-> <<>>],
   equity |-> <<>>, peak_equity |-> InitialCash, drawdown |-> <<0, 1>>,
   bars_seen |-> 0, last_rebalance_index |-> -LongAgo,
   pending |-> <<>>, current_stamp |-> NoStamp, cycles |-> <<>>]

total_value(account, prices) ==
  account.cash + SumFunctionOnSet(
    [s \in Symbols |-> IF account.positions[s] = 0 THEN 0
                       ELSE account.positions[s] * prices[s]], Symbols)

\* A bar sets the price of its symbol and extends its history.
WithBar(l, event) ==
  IF ~IsBar(event) THEN l
  ELSE [l EXCEPT
          !.prices = [s \in DOMAIN l.prices \cup {event.symbol} |->
                        IF s = event.symbol THEN event.price ELSE l.prices[s]],
          !.history = IF event.symbol \in Symbols
                      THEN [l.history EXCEPT ![event.symbol] = Append(@, event.stamp)]
                      ELSE l.history]

\* The bars of the stamp, in order: the last one's price stands.
Applied(l) == FoldLeft(WithBar, [l EXCEPT !.clock = l.current_stamp], l.pending)

\* Every symbol has printed: the session counts and the book is marked.
Counts(l) == \A s \in Symbols : l.history[s] # <<>>

\* Mutant: the peak is what the book was worth at the last mark.
MarkedFromLast(l) ==
  LET value == total_value(l.account, l.prices)
      peak == IF value > l.peak_equity THEN value ELSE l.peak_equity
  IN [l EXCEPT !.bars_seen = @ + 1, !.equity = Append(@, value),
               !.peak_equity = value, !.drawdown = <<peak - value, peak>>]

Marked(l) ==
  LET value == total_value(l.account, l.prices)
      peak == IF value > l.peak_equity THEN value ELSE l.peak_equity
  IN [l EXCEPT !.bars_seen = @ + 1, !.equity = Append(@, value),
               !.peak_equity = peak, !.drawdown = <<peak - value, peak>>]

Ready(l) == \A s \in Symbols : Len(l.history[s]) > EstimationWindow
Due(l) == l.bars_seen - l.last_rebalance_index >= RebalanceEvery

-----------------------------------------------------------------------------
(* _rebalance.                                                             *)

\* Mutant: one observation more than the readiness check waits for.
UsableLate(l) ==
  {s \in DOMAIN l.prices \cap Symbols : Len(l.history[s]) > EstimationWindow + 1}

\* symbols: those the optimizer is given.
Usable(l) == {s \in DOMAIN l.prices \cap Symbols : Len(l.history[s]) > EstimationWindow}

\* Mutant: rows counted from the first bar of each symbol.
RowFromFirst(history, i) ==
  [s \in DOMAIN history |-> <<history[s][i], history[s][i + 1]>>]

\* Row -i of the observations: where each symbol's return starts and ends.
Row(history, i) ==
  [s \in DOMAIN history |->
     LET n == Len(history[s]) IN <<history[s][n - i], history[s][n + 1 - i]>>]

Observations(l) ==
  LET known == [s \in Usable(l) |-> l.history[s]]
  IN [i \in 1..EstimationWindow |-> Row(known, i)]

\* What is recorded of a decision; note tells why nothing was proposed.
CycleRecord(l, note) ==
  [stamp |-> l.current_stamp, session |-> l.bars_seen, note |-> note,
   drawdown |-> l.drawdown, seen |-> l.history,
   rows |-> IF note = "history" THEN <<>> ELSE Observations(l)]

Recorded(l, note, account) ==
  [l EXCEPT !.last_rebalance_index = l.bars_seen, !.account = account,
            !.cycles = Append(@, CycleRecord(l, note))]

\* The executor's report: what final_cash and final_positions may be.
Reports(l) ==
  {[cash |-> total_value(l.account, l.prices) - cost
               - total_value([cash |-> 0, positions |-> q], l.prices),
    positions |-> q] : q \in Holdings, cost \in Costs}

Rebalanced(l) ==
  IF Cardinality(Usable(l)) < 2 THEN {Recorded(l, "history", l.account)}
  ELSE {Recorded(l, note, l.account) : note \in {"optimizer", "vetoed"}}
         \cup {Recorded(l, "executed", account) :
                 account \in {a \in Reports(l) : a.cash >= 0}}

Flushed(l) ==
  LET applied == Applied(l) marked == Marked(applied) IN
  IF ~Counts(applied) THEN {applied}
  ELSE IF Ready(marked) /\ Due(marked) THEN Rebalanced(marked)
  ELSE {marked}
-----------------------------------------------------------------------------
Init ==
  /\ source \in Sources
  /\ span \in Spans
  /\ fold = 0
  /\ next = 1
  /\ loop = Fresh(span.start)

Streaming == fold \in 1..Len(Windows) /\ next <= Len(source)

\* run_walk_forward: the next fold, on the same source from its beginning.
StartFold ==
  /\ fold = 0 \/ next > Len(source)
  /\ fold < Len(Windows)
  /\ loop.pending = <<>>
  /\ fold' = fold + 1
  /\ next' = 1
  /\ loop' = Fresh(Start(Windows[fold + 1]))
  /\ UNCHANGED <<source, span>>

\* The stream does not yield what lies outside the fold.
Skip ==
  /\ Streaming
  /\ ~InStream(source[next], Windows[fold])
  /\ next' = next + 1
  /\ UNCHANGED <<source, span, fold, loop>>

Taken(l, event) ==
  [l EXCEPT !.current_stamp = event.stamp, !.pending = Append(@, event)]

\* Mutant: the event joins what is pending before the flush.
ReceiveThenFlush ==
  /\ Streaming
  /\ LET event == source[next] IN
     /\ InStream(event, Windows[fold])
     /\ IF loop.current_stamp \in {NoStamp, event.stamp}
        THEN loop' = Taken(loop, event)
        ELSE \E l \in Flushed([loop EXCEPT !.pending = Append(@, event)]) :
               loop' = [l EXCEPT !.pending = <<>>, !.current_stamp = event.stamp]
  /\ next' = next + 1
  /\ UNCHANGED <<source, span, fold>>

\* An event of a later stamp flushes what is pending first.
Receive ==
  /\ Streaming
  /\ LET event == source[next] IN
     /\ InStream(event, Windows[fold])
     /\ IF loop.current_stamp \in {NoStamp, event.stamp}
        THEN loop' = Taken(loop, event)
        ELSE \E l \in Flushed(loop) : loop' = Taken([l EXCEPT !.pending = <<>>], event)
  /\ next' = next + 1
  /\ UNCHANGED <<source, span, fold>>

\* The stream is exhausted: the last stamp is flushed.
Finish ==
  /\ fold > 0
  /\ next > Len(source)
  /\ loop.pending # <<>>
  /\ \E l \in Flushed(loop) : loop' = [l EXCEPT !.pending = <<>>]
  /\ UNCHANGED <<source, span, fold, next>>

Next == StartFold \/ Skip \/ Receive \/ Finish

Spec == Init /\ [][Next]_vars
-----------------------------------------------------------------------------
(* Reference definitions, from the recorded events alone.                  *)

Bars(w, s) ==
  {source[i].stamp : i \in {j \in DOMAIN source :
     InStream(source[j], w) /\ IsBar(source[j]) /\ source[j].symbol = s}}

StampsUpTo(w, t) ==
  {source[i].stamp : i \in {j \in DOMAIN source :
     InStream(source[j], w) /\ source[j].stamp <= t}}

\* Sessions of the fold up to t at which every symbol has a full window.
ReadySessions(w, t) ==
  {u \in StampsUpTo(w, t) :
     \A s \in Symbols : Cardinality({v \in Bars(w, s) : v <= u}) > EstimationWindow}

\* The last stamp the loop has flushed.
LastFlushed ==
  IF loop.pending = <<>> THEN loop.current_stamp
  ELSE IF \E t \in StampsUpTo(Windows[fold], loop.current_stamp) : t < loop.current_stamp
  THEN CHOOSE t \in StampsUpTo(Windows[fold], loop.current_stamp) :
         /\ t < loop.current_stamp
         /\ \A u \in StampsUpTo(Windows[fold], loop.current_stamp) :
              u < loop.current_stamp => u <= t
  ELSE NoStamp

\* metrics.max_drawdown: the largest decline of a curve from its running peak.
Deeper(acc, value) ==
  LET peak == IF value > acc.peak THEN value ELSE acc.peak
      worse == (peak - value) * acc.worst[2] > acc.worst[1] * peak
  IN [peak |-> peak, worst |-> IF worse THEN <<peak - value, peak>> ELSE acc.worst]

max_drawdown(curve) ==
  FoldLeft(Deeper, [peak |-> Head(curve), worst |-> <<0, 1>>], curve).worst

Quotient(q, r) == q[1] * r[2] <= r[1] * q[2]
-----------------------------------------------------------------------------
(* Properties.                                                             *)

\* A decision has applied every bar of its fold up to its own stamp and none
\* later, however the events of a stamp and the flush interleave.
DecidesOnWhatIsKnown ==
  \A c \in Range(loop.cycles), s \in Symbols :
    Range(c.seen[s]) = {t \in Bars(Windows[fold], s) : t <= c.stamp}

\* The readiness check, the filter of _rebalance and the rebalance clock agree:
\* from the first session with a full window there is a decision on exactly
\* every RebalanceEvery-th session, and none is lost for want of history
\* (engine.py:264: "disagreeing on the boundary would silently skip").
RebalancesOnSchedule ==
  fold > 0 =>
    LET ready == Cardinality(ReadySessions(Windows[fold], LastFlushed)) IN
    /\ Len(loop.cycles) = (ready + RebalanceEvery - 1) \div RebalanceEvery
    /\ \A c \in Range(loop.cycles) : c.note # "history"

\* A row of observations compares returns of the same days, also for a symbol
\* that started late, unless a symbol misses a bar inside the window.
AlignedWithoutGaps ==
  \A c \in Range(loop.cycles) : \A i \in DOMAIN c.rows :
    LET row == c.rows[i]
        first == CHOOSE t \in {row[s][1] : s \in DOMAIN row} :
                   \A s \in DOMAIN row : t <= row[s][1]
        within == {t \in StampsUpTo(Windows[fold], c.stamp) : t >= first}
    IN (\A s \in DOMAIN row : within \subseteq Bars(Windows[fold], s))
         => \A r, s \in DOMAIN row : row[r] = row[s]

\* The drawdown the circuit breaker is shown at a decision is the decline that
\* the report computes from the curve up to that session, and never exceeds
\* the maximum drawdown the report ends with.
BreakerSeesReportedDrawdown ==
  \A c \in Range(loop.cycles) :
    LET curve == SubSeq(loop.equity, 1, c.session)
        peak == CHOOSE p \in Range(curve) : \A v \in Range(curve) : v <= p
    IN /\ c.drawdown[1] * peak = (peak - Last(curve)) * c.drawdown[2]
       /\ Quotient(c.drawdown, max_drawdown(loop.equity))

=============================================================================
