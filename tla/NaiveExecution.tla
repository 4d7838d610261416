--------------------------- MODULE NaiveExecution ---------------------------
(***************************************************************************)
(* src/execution/naive.py: NaiveExecutor working a mandate against a paper *)
(* broker that may refuse an order, accept it and lose the answer, accept  *)
(* it and fill it later, and that rejects a client_order_id it has seen.   *)
(* The caller replays a mandate (same process, possibly with the account   *)
(* it read before the first attempt) and the process may restart, which    *)
(* forgets `submitted` and every local variable.                           *)
(*                                                                         *)
(* Portfolio value and prices at the instant of an attempt are any of      *)
(* Values and Markets; fill prices, commissions and cash are left out (see *)
(* SimulatedExecution for the cash side).                                  *)
(***************************************************************************)
EXTENDS Sizing, FiniteSets

CONSTANTS
  InitialPositions,  \* what the broker holds at the start
  Values,            \* portfolio values at decision and at execution
  Markets,           \* price of each symbol, NoPrice when there is none
  Books,             \* target weights the decision layer may approve
  MaxDecisions,      \* bound: how many mandates are decided
  MaxRestarts,       \* bound: how often the process restarts
  MaxFlying          \* bound: how many unanswered requests are on their way

ASSUME NaiveAssumption ==
  /\ InitialPositions \in [Symbols -> Int]
  /\ Values \subseteq Nat \ {0}
  /\ Markets \subseteq [Symbols -> Nat]
  /\ Books \subseteq WeightBooks
  /\ MaxDecisions \in Nat
  /\ MaxRestarts \in Nat
  /\ MaxFlying \in Nat

VARIABLES
  position,   \* broker: shares held
  buying,     \* broker: shares accepted to buy and not bought yet
  selling,    \* broker: shares accepted to sell and not sold yet
  book,       \* broker: every order it ever accepted
  flying,     \* requests sent whose answer the executor no longer awaits
  submitted,  \* executor: client order ids known to be sent
  account,    \* executor: Account.positions as read from the broker
  mandate,    \* executor: the mandate being worked or replayed
  pc,         \* executor: "idle", "working" or "done" (report yielded)
  todo,       \* executor: symbols whose order is still to be worked
  sized,      \* executor: signed size of the order per symbol
  desired,    \* executor: desired_shares per symbol, for an order that is made
  updates,    \* executor: what `execute` yielded per symbol
  decisions,  \* how many mandates were decided
  restarts,   \* how many restarts happened
  settled     \* auxiliary: nothing was working or flying at the decision

brokerVars == <<position, buying, selling, book, flying>>
attemptVars == <<pc, todo, sized, desired, updates>>
callerVars == <<account, mandate, decisions, restarts, settled>>
vars == <<brokerVars, submitted, attemptVars, callerVars>>

Mandate == [decision_time : 1..MaxDecisions,
            portfolio_value : Values,
            targets : Targets]

NoMandate == [decision_time |-> 0, portfolio_value |-> 0, targets |-> <<>>]
NoAccount == <<>>

Quiet == [s \in Symbols |-> 0]
NoUpdate == [kind |-> "none", qty |-> 0]
Fill(q) == [kind |-> "fill", qty |-> q]
Rejection(why) == [kind |-> why, qty |-> 0]
\* Reported under the reason codes BELOW_MIN_NOTIONAL and NO_PRICE.
RejectionKinds == {"duplicate", "broker_error"}

\* The shares the broker holds plus those it has accepted to trade.
Exposure == [s \in Symbols |-> position[s] + buying[s] - selling[s]]

-----------------------------------------------------------------------------
(* The broker: AlpacaPaperBroker and, behind it, the paper endpoint.       *)

\* Mutant: the key also hashes the size of the order.
client_order_id_sized(m, s) == <<MandateId(m), s, sized[s]>>

\* The idempotency key of one order within one mandate.
client_order_id(m, s) == <<MandateId(m), s>>

Seen == {o.id : o \in book}

\* What the executor asks for; desired is there for the properties only.
Request(s) == [mandate |-> mandate, symbol |-> s,
               id |-> client_order_id(mandate, s),
               qty |-> sized[s], desired |-> desired[s]]

\* The broker takes a request it has not seen and trades k shares at once.
Accept(r, k) ==
  /\ r.id \notin Seen
  /\ book' = book \cup {r}
  /\ IF r.qty > 0
       THEN /\ position' = [position EXCEPT ![r.symbol] = @ + k]
            /\ buying' = [buying EXCEPT ![r.symbol] = @ + (r.qty - k)]
            /\ UNCHANGED selling
       ELSE /\ position' = [position EXCEPT ![r.symbol] = @ - k]
            /\ selling' = [selling EXCEPT ![r.symbol] = @ + (-r.qty - k)]
            /\ UNCHANGED buying

\* A request lands after the executor gave up on it: it is accepted like any
\* other, or lost or refused (always, if its id has been seen).
Land(r) ==
  /\ flying' = flying \ {r}
  /\ \/ \E k \in 0..Magnitude(r.qty) : Accept(r, k)
     \/ UNCHANGED <<position, buying, selling, book>>
  /\ UNCHANGED <<submitted, attemptVars, callerVars>>

\* A working order trades some of its shares, while the executor does anything.
TradeWorking(s) ==
  /\ \/ \E k \in 1..buying[s] :
          /\ position' = [position EXCEPT ![s] = @ + k]
          /\ buying' = [buying EXCEPT ![s] = @ - k]
          /\ UNCHANGED selling
     \/ \E k \in 1..selling[s] :
          /\ position' = [position EXCEPT ![s] = @ - k]
          /\ selling' = [selling EXCEPT ![s] = @ - k]
          /\ UNCHANGED buying
  /\ UNCHANGED <<book, flying, submitted, attemptVars, callerVars>>

-----------------------------------------------------------------------------
(* The caller: account_from_broker, build_mandate, and the replays.        *)

\* A new decision, taken from the account as the broker reports it.
Decide ==
  /\ pc # "working"
  /\ decisions < MaxDecisions
  /\ decisions' = decisions + 1
  /\ account' = position
  /\ settled' = (buying = Quiet /\ selling = Quiet /\ flying = {})
  /\ \E v \in Values, b \in Books :
       mandate' = BuildMandate(decisions + 1, v, b, position)
  /\ pc' = "idle"
  /\ updates' = [s \in Symbols |-> NoUpdate]
  /\ UNCHANGED <<brokerVars, submitted, todo, sized, desired, restarts>>

\* account_from_broker ahead of a replay.
ReadAccount ==
  /\ pc # "working"
  /\ mandate # NoMandate
  /\ account' = position
  /\ pc' = "idle"
  /\ updates' = [s \in Symbols |-> NoUpdate]
  /\ UNCHANGED <<brokerVars, submitted, todo, sized, desired,
                 mandate, decisions, restarts, settled>>

\* The process dies and comes back: everything in memory is gone, and the
\* retried cycle decides the identical mandate again.
Restart ==
  /\ restarts < MaxRestarts
  /\ restarts' = restarts + 1
  /\ submitted' = {}
  /\ account' = NoAccount
  /\ pc' = "idle"
  /\ todo' = {}
  /\ sized' = Quiet
  /\ desired' = Quiet
  /\ updates' = [s \in Symbols |-> NoUpdate]
  /\ UNCHANGED <<brokerVars, mandate, decisions, settled>>

-----------------------------------------------------------------------------
(* NaiveExecutor.execute.                                                  *)

\* Mutant: a target already reached is not skipped (delta == 0).
StartExecuteUnskipped ==
  /\ pc # "working"
  /\ account # NoAccount
  /\ \E v \in Values, prices \in Markets :
       /\ sized' = [s \in Symbols |->
                      SizedQuantity(mandate, account, v, prices, s)]
       /\ desired' = [s \in Symbols |->
                        IF s \in Priced(mandate, prices)
                          THEN DesiredShares(mandate.targets[s], v, prices[s])
                          ELSE 0]
  /\ todo' = DOMAIN mandate.targets
  /\ updates' = [s \in Symbols |-> NoUpdate]
  /\ pc' = "working"
  /\ UNCHANGED <<brokerVars, submitted, callerVars>>

\* First call of the generator: size the orders.  With an account read before
\* an earlier attempt of the same mandate this is the in-process replay.
StartExecute ==
  /\ pc # "working"
  /\ account # NoAccount
  /\ \E v \in Values, prices \in Markets :
       /\ sized' = [s \in Symbols |->
                      SizedQuantity(mandate, account, v, prices, s)]
       /\ desired' = [s \in Symbols |->
                        IF s \in Priced(mandate, prices)
                          THEN DesiredShares(mandate.targets[s], v, prices[s])
                          ELSE 0]
  /\ todo' = {s \in Symbols : sized'[s] # 0}
  /\ updates' = [s \in Symbols |-> NoUpdate]
  /\ pc' = "working"
  /\ UNCHANGED <<brokerVars, submitted, callerVars>>

\* orders.sort(key=symbol): the next order in line is that of s.
InLine(s) ==
  /\ pc = "working"
  /\ s \in todo
  /\ \A t \in todo : s <= t

Yield(s, update) ==
  /\ updates' = [updates EXCEPT ![s] = update]
  /\ todo' = todo \ {s}
  /\ UNCHANGED <<pc, sized, desired, callerVars>>

\* The id was sent by this process before: not sent again.
Suppress(s) ==
  /\ InLine(s)
  /\ client_order_id(mandate, s) \in submitted
  /\ Yield(s, Rejection("duplicate"))
  /\ UNCHANGED <<brokerVars, submitted>>

\* Mutant: the side of the order is forgotten.
FilledQuantityUnsigned(s, k, answered) ==
  IF answered THEN k ELSE Magnitude(sized[s])

\* _fill_from_response: filled_qty is the broker's count ("0" included); when
\* the answer does not carry it, the whole quantity is taken as filled.
FilledQuantity(s, k, answered) ==
  LET n == IF answered THEN k ELSE Magnitude(sized[s])
  IN  IF sized[s] > 0 THEN n ELSE -n

\* The order is accepted and the answer arrives.
SubmitAcknowledged(s) ==
  /\ InLine(s)
  /\ client_order_id(mandate, s) \notin submitted
  /\ \E k \in 0..Magnitude(sized[s]), answered \in BOOLEAN :
       /\ Accept(Request(s), k)
       /\ Yield(s, Fill(FilledQuantity(s, k, answered)))
  /\ submitted' = submitted \cup {client_order_id(mandate, s)}
  /\ UNCHANGED flying

\* No answer within the timeout: BrokerError, and the request may still land.
SubmitAmbiguous(s) ==
  /\ InLine(s)
  /\ client_order_id(mandate, s) \notin submitted
  /\ Cardinality(flying) < MaxFlying
  /\ flying' = flying \cup {Request(s)}
  /\ Yield(s, Rejection("broker_error"))
  /\ UNCHANGED <<position, buying, selling, book, submitted>>

\* Mutant: self.submitted.add(key) ahead of the try.
SubmitRefusedMarkedSent(s) ==
  /\ InLine(s)
  /\ client_order_id(mandate, s) \notin submitted
  /\ Yield(s, Rejection("broker_error"))
  /\ submitted' = submitted \cup {client_order_id(mandate, s)}
  /\ UNCHANGED brokerVars

\* The broker answers with an error, as it always does for an id it has seen.
SubmitRefused(s) ==
  /\ InLine(s)
  /\ client_order_id(mandate, s) \notin submitted
  /\ Yield(s, Rejection("broker_error"))
  /\ UNCHANGED <<brokerVars, submitted>>

\* The ExecutionReport is yielded and the generator ends.
Report ==
  /\ pc = "working"
  /\ todo = {}
  /\ pc' = "done"
  /\ sized' = Quiet
  /\ desired' = Quiet
  /\ UNCHANGED <<brokerVars, submitted, todo, updates, callerVars>>

-----------------------------------------------------------------------------
Init ==
  /\ position = InitialPositions
  /\ buying = Quiet
  /\ selling = Quiet
  /\ book = {}
  /\ flying = {}
  /\ submitted = {}
  /\ account = NoAccount
  /\ mandate = NoMandate
  /\ pc = "idle"
  /\ todo = {}
  /\ sized = Quiet
  /\ desired = Quiet
  /\ updates = [s \in Symbols |-> NoUpdate]
  /\ decisions = 0
  /\ restarts = 0
  /\ settled = TRUE

WorkOrder(s) ==
  \/ Suppress(s)
  \/ SubmitAcknowledged(s)
  \/ SubmitAmbiguous(s)
  \/ SubmitRefused(s)

Next ==
  \/ Decide
  \/ ReadAccount
  \/ Restart
  \/ StartExecute
  \/ Report
  \/ \E s \in Symbols : WorkOrder(s)
  \/ \E s \in Symbols : TradeWorking(s)
  \/ \E r \in flying : Land(r)

Spec == Init /\ [][Next]_vars
-----------------------------------------------------------------------------
(* Properties.                                                             *)

TypeOK ==
  /\ position \in [Symbols -> Int]
  /\ buying \in [Symbols -> Nat]
  /\ selling \in [Symbols -> Nat]
  /\ \A o \in book \cup flying :
       /\ o.mandate \in Mandate
       /\ o.symbol \in Symbols
       /\ o.qty \in Int \ {0}
       /\ o.desired \in Nat
  /\ account \in [Symbols -> Int] \cup {NoAccount}
  /\ mandate \in Mandate \cup {NoMandate}
  /\ pc \in {"idle", "working", "done"}
  /\ todo \subseteq Symbols
  /\ sized \in [Symbols -> Int]
  /\ desired \in [Symbols -> Nat]
  /\ updates \in [Symbols -> [kind : {"none", "fill"} \cup RejectionKinds,
                              qty : Int]]
  /\ decisions \in 0..MaxDecisions
  /\ restarts \in 0..MaxRestarts
  /\ settled \in BOOLEAN

\* A replay never doubles a position (naive.py:10-12): however many attempts,
\* restarts and late answers, the broker accepts one order at most for a
\* symbol of a mandate.
NoDoubling ==
  \A o, p \in book :
    o.mandate = p.mandate /\ o.symbol = p.symbol => o = p

\* A mandate decided while nothing was working brings every symbol it trades
\* exactly to the share count it was sized for, neither short of it nor past
\* it, although its orders may come from different attempts at different
\* prices (size_orders nets what is held; the keys keep the first to land).
ExactlyToTarget ==
  settled =>
    \A o \in book : o.mandate = mandate => Exposure[o.symbol] = o.desired

\* An order suppressed as a duplicate was accepted before: the in-process set
\* never swallows an order that did not reach the broker.
DuplicatesAreReal ==
  \A s \in Symbols : updates[s].kind = "duplicate" =>
    \E o \in book : o.mandate = mandate /\ o.symbol = s

\* A fill the executor yields stands for an accepted order of this mandate, on
\* the same side and no larger.
FillsAreBacked ==
  \A s \in Symbols : updates[s].kind = "fill" =>
    \E o \in book :
      /\ o.mandate = mandate
      /\ o.symbol = s
      /\ updates[s].qty \in IF o.qty > 0 THEN 0..o.qty ELSE o.qty..0

\* The broker's book is an implementation of the ledger: exposure moves once
\* per mandate and symbol, and only then.
Ledger ==
  INSTANCE OrderLedger WITH
    Mandates <- Mandate,
    done <- {<<o.mandate, o.symbol>> : o \in book},
    exposure <- Exposure

ImplementsLedger == Ledger!Spec

\* "A trade that was not done, and why" (base.py:99): an order whose
\* submission failed, and that is therefore reported as rejected, is not at
\* the broker and never gets there.
RejectionMeansNotDone ==
  \A s \in Symbols : updates[s].kind = "broker_error" =>
    ~ \E o \in book : o.mandate = mandate /\ o.symbol = s
=============================================================================
