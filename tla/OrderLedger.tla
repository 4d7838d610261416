----------------------------- MODULE OrderLedger -----------------------------
(***************************************************************************)
(* What an executor owes the decision layer: however often a mandate is    *)
(* replayed, the book moves at most once per mandate and symbol.           *)
(* src/execution/naive.py:10-12, infra/README.md "Idempotency".            *)
(***************************************************************************)
EXTENDS Integers

CONSTANTS Mandates, Symbols, InitialPositions

VARIABLES
  done,      \* the <<mandate, symbol>> pairs that moved the book
  exposure   \* shares held or on their way, per symbol

Init ==
  /\ done = {}
  /\ exposure = InitialPositions

\* The mandate's one trade in s.
Commit(m, s) ==
  /\ <<m, s>> \notin done
  /\ done' = done \cup {<<m, s>>}
  /\ exposure'[s] \in Int \ {exposure[s]}
  /\ exposure' = [exposure EXCEPT ![s] = exposure'[s]]

Next == \E m \in Mandates, s \in Symbols : Commit(m, s)

Spec == Init /\ [][Next]_<<done, exposure>>
=============================================================================
