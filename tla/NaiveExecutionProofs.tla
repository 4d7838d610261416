------------------------ MODULE NaiveExecutionProofs ------------------------
(***************************************************************************)
(* Type correctness and the safety of replays, for any number of symbols,  *)
(* any books, markets, decisions and restarts.                             *)
(***************************************************************************)
EXTENDS NaiveExecution, Arithmetic

-----------------------------------------------------------------------------
(* The inductive invariant.                                                *)

Orders == book \cup flying

\* An order is known to the broker by the key of its mandate and symbol.
KeysMatch ==
  \A o \in Orders : o.id = client_order_id(o.mandate, o.symbol)

\* An attempt runs on an account and a mandate, and has an order per symbol
\* left to do.
AttemptOK ==
  /\ account # NoAccount \/ pc # "idle" => mandate \in Mandate
  /\ pc # "idle" => account # NoAccount
  /\ pc = "working" => \A s \in todo : sized[s] # 0
  /\ pc # "working" => todo = {}

\* What this process knows to be sent, the broker has accepted.
SubmittedSeen == submitted \subseteq Seen

OneOrderPerKey ==
  \A o, p \in book : o.id = p.id => o = p

\* Mandates are numbered by their decision.
DecidedBefore ==
  /\ \A o \in Orders : o.mandate.decision_time <= decisions
  /\ mandate.decision_time <= decisions

Traded(s) == \E o \in book : o.mandate = mandate /\ o.symbol = s

\* After a settled decision only that mandate's orders move the book, and a
\* symbol it has not traded is still what every account read shows.
SettledOK ==
  settled =>
    /\ \A r \in flying : r.mandate = mandate
    /\ \A s \in Symbols : ~ Traded(s) =>
         /\ buying[s] = 0
         /\ selling[s] = 0
         /\ account # NoAccount => account[s] = position[s]
         /\ pc = "working" /\ s \in todo =>
              desired[s] = account[s] + sized[s]
         /\ \A r \in flying :
              r.symbol = s => r.desired = position[s] + r.qty

IInv ==
  /\ TypeOK
  /\ KeysMatch
  /\ AttemptOK
  /\ SubmittedSeen
  /\ OneOrderPerKey
  /\ DecidedBefore
  /\ SettledOK
  /\ ExactlyToTarget
  /\ DuplicatesAreReal
  /\ FillsAreBacked
-----------------------------------------------------------------------------
(* Keys, mandates and sizes.                                               *)

\* Two orders with one key belong to one mandate and one symbol.
LEMMA KeyIsInjective ==
  ASSUME NEW m \in Mandate, NEW n \in Mandate, NEW s \in Symbols, NEW t \in Symbols,
         client_order_id(m, s) = client_order_id(n, t)
  PROVE  m = n /\ s = t
BY DEF client_order_id, MandateId, Mandate

\* A mandate is a mandate, and mentions symbols only.
LEMMA BuiltMandate ==
  ASSUME NEW n \in 1..MaxDecisions, NEW v \in Values, NEW b \in Books,
         NEW held \in [Symbols -> Int]
  PROVE  BuildMandate(n, v, b, held) \in Mandate
<1>1. b \in [Symbols -> Weights]
  BY NaiveAssumption DEF WeightBooks
<1>2. Mentioned(b, held) \in SUBSET Symbols
  BY DEF Mentioned
<1>3. [s \in Mentioned(b, held) |-> b[s]] \in [Mentioned(b, held) -> Weights]
  BY <1>1, <1>2
<1>4. [s \in Mentioned(b, held) |-> b[s]] \in Targets
  BY <1>2, <1>3 DEF Targets
<1> QED
  BY <1>4 DEF BuildMandate, Mandate

\* What size_orders computes for one symbol of a mandate of this model.
LEMMA SizedType ==
  ASSUME NEW m \in Mandate, NEW held \in [Symbols -> Int], NEW v \in Values,
         NEW prices \in Markets, NEW s \in Symbols
  PROVE  LET q == SizedQuantity(m, held, v, prices, s)
             d == IF s \in Priced(m, prices)
                    THEN DesiredShares(m.targets[s], v, prices[s])
                    ELSE 0
         IN  /\ q \in Int
             /\ d \in Nat
             /\ q # 0 => d = held[s] + q
<1>1. v \in Nat /\ prices \in [Symbols -> Nat] /\ WeightUnit \in Nat \ {0}
  BY NaiveAssumption, SizingAssumption
<1>2. CASE s \in Priced(m, prices)
  <2>1. PICK D \in SUBSET Symbols : m.targets \in [D -> Weights]
    BY DEF Mandate, Targets
  <2>2. m.targets[s] \in Nat /\ prices[s] \in Nat \ {0}
    BY <1>1, <1>2, <2>1 DEF Priced, NoPrice, Weights
  <2>3. m.targets[s] * v \in Nat /\ WeightUnit * prices[s] \in Nat \ {0}
    BY <1>1, <2>2, ProductIsNat, ProductIsPositive
  <2>4. DesiredShares(m.targets[s], v, prices[s]) \in Nat
    BY <2>3, QuotientIsNat DEF DesiredShares
  <2> QED
    BY <1>2, <2>4 DEF SizedQuantity, ShareDelta
<1>3. CASE s \notin Priced(m, prices)
  BY <1>3 DEF SizedQuantity
<1> QED
  BY <1>2, <1>3

-----------------------------------------------------------------------------
(* The invariant holds initially and every action keeps it.                *)

LEMMA InitIInv == Init => IInv
<1> SUFFICES ASSUME Init PROVE IInv
  OBVIOUS
<1> USE DEF Init, Quiet
<1>1. TypeOK
  <2>1. Quiet \in [Symbols -> Nat]
    OBVIOUS
  <2> QED
    BY <2>1, NaiveAssumption DEF TypeOK, NoUpdate
<1>2. KeysMatch /\ AttemptOK /\ SubmittedSeen /\ OneOrderPerKey
  BY DEF KeysMatch, Orders, AttemptOK, SubmittedSeen, OneOrderPerKey
<1>3. DecidedBefore
  BY DEF DecidedBefore, Orders, NoMandate
<1>4. SettledOK /\ ExactlyToTarget
  BY DEF SettledOK, ExactlyToTarget
<1>5. DuplicatesAreReal /\ FillsAreBacked
  BY DEF DuplicatesAreReal, FillsAreBacked, NoUpdate
<1> QED
  BY <1>1, <1>2, <1>3, <1>4, <1>5 DEF IInv

\* Nothing was yielded yet: no claim to back.
LEMMA NothingYielded ==
  ASSUME updates' = [s \in Symbols |-> NoUpdate]
  PROVE  DuplicatesAreReal' /\ FillsAreBacked'
BY DEF DuplicatesAreReal, FillsAreBacked, NoUpdate

LEMMA DecideKeeps == IInv /\ Decide => IInv'
<1> SUFFICES ASSUME IInv, Decide PROVE IInv'
  OBVIOUS
<1> USE DEF IInv, Decide, brokerVars
<1>1. PICK v \in Values, b \in Books :
        mandate' = BuildMandate(decisions + 1, v, b, position)
  OBVIOUS
<1>2. mandate' \in Mandate /\ mandate'.decision_time = decisions + 1
  <2>1. decisions + 1 \in 1..MaxDecisions /\ position \in [Symbols -> Int]
    BY NaiveAssumption DEF TypeOK
  <2> QED
    BY <1>1, <2>1, BuiltMandate DEF BuildMandate
<1>3. TypeOK'
  BY <1>2, NaiveAssumption DEF TypeOK, NoUpdate
<1>4. KeysMatch' /\ AttemptOK' /\ SubmittedSeen' /\ OneOrderPerKey'
  <2>1. KeysMatch' /\ SubmittedSeen' /\ OneOrderPerKey'
    BY DEF KeysMatch, Orders, SubmittedSeen, Seen, OneOrderPerKey
  <2>2. AttemptOK'
    <3>1. account' # NoAccount \/ pc' # "idle" => mandate' \in Mandate
      BY <1>2
    <3> QED
      BY <3>1 DEF AttemptOK
  <2> QED
    BY <2>1, <2>2
<1>5. DecidedBefore'
  <2>1. \A o \in Orders : o.mandate \in Mandate /\ o.mandate.decision_time \in Int
    BY DEF TypeOK, Orders, Mandate
  <2> QED
    BY <1>2, <2>1 DEF DecidedBefore, Orders, TypeOK
<1>6. \A o \in book : o.mandate # mandate'
  BY <1>2 DEF DecidedBefore, Orders, TypeOK, Mandate
<1>7. SettledOK'
  <2> SUFFICES ASSUME settled' PROVE SettledOK'
    BY DEF SettledOK
  <2>1. flying' = {} /\ \A s \in Symbols : buying'[s] = 0 /\ selling'[s] = 0
    BY DEF Quiet
  <2> QED
    BY <2>1 DEF SettledOK
<1>8. ExactlyToTarget'
  BY <1>6 DEF ExactlyToTarget
<1>9. DuplicatesAreReal' /\ FillsAreBacked'
  BY NothingYielded
<1> QED
  BY <1>3, <1>4, <1>5, <1>7, <1>8, <1>9

\* What the broker and the mandate settle does not change when they do not.
LEMMA SameBook ==
  ASSUME KeysMatch, OneOrderPerKey, DecidedBefore, ExactlyToTarget,
         UNCHANGED brokerVars, UNCHANGED <<mandate, decisions, settled>>
  PROVE  KeysMatch' /\ OneOrderPerKey' /\ DecidedBefore' /\ ExactlyToTarget'
BY DEF KeysMatch, Orders, OneOrderPerKey, DecidedBefore, ExactlyToTarget,
       Exposure, brokerVars

LEMMA ReadAccountKeeps == IInv /\ ReadAccount => IInv'
<1> SUFFICES ASSUME IInv, ReadAccount PROVE IInv'
  OBVIOUS
<1> USE DEF IInv, ReadAccount
<1>1. TypeOK'
  BY DEF TypeOK, NoUpdate, brokerVars
<1>2. KeysMatch' /\ OneOrderPerKey' /\ DecidedBefore' /\ ExactlyToTarget'
  BY SameBook
<1>3. AttemptOK' /\ SubmittedSeen'
  BY DEF AttemptOK, SubmittedSeen, Seen, TypeOK, brokerVars
<1>4. SettledOK'
  BY DEF SettledOK, Traded, AttemptOK, brokerVars
<1>5. DuplicatesAreReal' /\ FillsAreBacked'
  BY NothingYielded
<1> QED
  BY <1>1, <1>2, <1>3, <1>4, <1>5

LEMMA RestartKeeps == IInv /\ Restart => IInv'
<1> SUFFICES ASSUME IInv, Restart PROVE IInv'
  OBVIOUS
<1> USE DEF IInv, Restart
<1>1. TypeOK'
  BY NaiveAssumption DEF TypeOK, NoUpdate, Quiet, brokerVars
<1>2. KeysMatch' /\ OneOrderPerKey' /\ DecidedBefore' /\ ExactlyToTarget'
  BY SameBook
<1>3. AttemptOK' /\ SubmittedSeen'
  BY DEF AttemptOK, SubmittedSeen
<1>4. SettledOK'
  BY DEF SettledOK, Traded, brokerVars
<1>5. DuplicatesAreReal' /\ FillsAreBacked'
  BY NothingYielded
<1> QED
  BY <1>1, <1>2, <1>3, <1>4, <1>5

LEMMA StartExecuteKeeps == IInv /\ StartExecute => IInv'
<1> SUFFICES ASSUME IInv, StartExecute PROVE IInv'
  OBVIOUS
<1>1. PICK v \in Values, prices \in Markets :
        /\ sized' = [s \in Symbols |->
                       SizedQuantity(mandate, account, v, prices, s)]
        /\ desired' = [s \in Symbols |->
                         IF s \in Priced(mandate, prices)
                           THEN DesiredShares(mandate.targets[s], v, prices[s])
                           ELSE 0]
  BY DEF StartExecute
<1>2. mandate \in Mandate /\ account \in [Symbols -> Int]
  BY DEF StartExecute, IInv, AttemptOK, TypeOK
<1>3. \A s \in Symbols :
        /\ sized'[s] \in Int
        /\ desired'[s] \in Nat
        /\ sized'[s] # 0 => desired'[s] = account[s] + sized'[s]
  BY <1>1, <1>2, SizedType
<1>4. sized' \in [Symbols -> Int] /\ desired' \in [Symbols -> Nat]
  BY <1>1, <1>3
<1> HIDE <1>1
<1> USE DEF IInv, StartExecute
<1>5. TypeOK'
  BY <1>4 DEF TypeOK, NoUpdate, brokerVars, callerVars
<1>6. KeysMatch' /\ OneOrderPerKey' /\ DecidedBefore' /\ ExactlyToTarget'
  BY SameBook DEF callerVars
<1>7. AttemptOK' /\ SubmittedSeen'
  BY <1>2 DEF AttemptOK, SubmittedSeen, Seen, brokerVars, callerVars
<1>8. SettledOK'
  BY <1>3 DEF SettledOK, Traded, brokerVars, callerVars
<1>9. DuplicatesAreReal' /\ FillsAreBacked'
  BY NothingYielded
<1> QED
  BY <1>5, <1>6, <1>7, <1>8, <1>9

LEMMA ReportKeeps == IInv /\ Report => IInv'
<1> SUFFICES ASSUME IInv, Report PROVE IInv'
  OBVIOUS
<1> USE DEF IInv, Report, callerVars
<1>1. TypeOK'
  BY DEF TypeOK, Quiet, brokerVars
<1>2. KeysMatch' /\ OneOrderPerKey' /\ DecidedBefore' /\ ExactlyToTarget'
  BY SameBook
<1>3. AttemptOK' /\ SubmittedSeen'
  BY DEF AttemptOK, SubmittedSeen, Seen, brokerVars
<1>4. SettledOK'
  BY DEF SettledOK, Traded, brokerVars
<1>5. DuplicatesAreReal' /\ FillsAreBacked'
  BY DEF DuplicatesAreReal, FillsAreBacked, brokerVars
<1> QED
  BY <1>1, <1>2, <1>3, <1>4, <1>5
-----------------------------------------------------------------------------
(* Orders reaching the broker.                                             *)

\* A request as Submit and Land hand it to the broker.
Fits(r) ==
  /\ r.mandate \in Mandate
  /\ r.mandate.decision_time <= decisions
  /\ r.symbol \in Symbols
  /\ r.id = client_order_id(r.mandate, r.symbol)
  /\ r.qty \in Int \ {0}
  /\ r.desired \in Nat
  /\ settled => r.mandate = mandate
  /\ settled /\ ~ Traded(r.symbol) => r.desired = position[r.symbol] + r.qty

\* An order that the broker accepts is the first of its mandate and symbol,
\* and moves the exposure in that symbol by its size.
LEMMA AcceptEffect ==
  ASSUME IInv, NEW r, Fits(r), NEW k \in 0..Magnitude(r.qty), Accept(r, k)
  PROVE  /\ \A o \in book : ~ (o.mandate = r.mandate /\ o.symbol = r.symbol)
         /\ position' \in [Symbols -> Int]
         /\ buying' \in [Symbols -> Nat]
         /\ selling' \in [Symbols -> Nat]
         /\ Exposure'[r.symbol] = Exposure[r.symbol] + r.qty
         /\ \A s \in Symbols \ {r.symbol} :
              /\ position'[s] = position[s]
              /\ buying'[s] = buying[s]
              /\ selling'[s] = selling[s]
              /\ Exposure'[s] = Exposure[s]
<1> USE DEF IInv
<1>1. \A o \in book : ~ (o.mandate = r.mandate /\ o.symbol = r.symbol)
  BY DEF Accept, Seen, KeysMatch, Orders, Fits
<1>2. r.symbol \in Symbols /\ r.qty \in Int /\ r.qty # 0 /\ k \in Nat
  BY DEF Fits
<1>3. CASE r.qty > 0
  <2>1. r.qty - k \in Nat
    BY <1>2, <1>3 DEF Magnitude
  <2> QED
    BY <1>1, <1>2, <1>3, <2>1 DEF Accept, TypeOK, Exposure
<1>4. CASE ~ (r.qty > 0)
  <2>1. -r.qty - k \in Nat
    BY <1>2, <1>4 DEF Magnitude
  <2> QED
    BY <1>1, <1>2, <1>4, <2>1 DEF Accept, TypeOK, Exposure
<1> QED
  BY <1>3, <1>4

LEMMA AcceptKeeps ==
  ASSUME IInv, NEW r, Fits(r), NEW k \in 0..Magnitude(r.qty), Accept(r, k),
         flying' \subseteq flying,
         UNCHANGED <<mandate, decisions, settled>>
  PROVE  /\ KeysMatch'
         /\ OneOrderPerKey'
         /\ DecidedBefore'
         /\ ExactlyToTarget'
         /\ Seen' = Seen \cup {r.id}
<1> USE DEF IInv
<1>1. book' = book \cup {r} /\ r.id \notin Seen
  BY DEF Accept
<1>2. KeysMatch'
  BY <1>1 DEF KeysMatch, Orders, Fits
<1>3. OneOrderPerKey'
  BY <1>1 DEF OneOrderPerKey, Seen
<1>4. DecidedBefore'
  BY <1>1 DEF DecidedBefore, Orders, Fits
<1>5. ExactlyToTarget'
  <2> SUFFICES ASSUME settled, NEW o \in book', o.mandate = mandate
               PROVE  Exposure'[o.symbol] = o.desired
    BY DEF ExactlyToTarget
  <2>1. CASE o \in book
    <3>1. o.symbol # r.symbol /\ o.symbol \in Symbols
      BY <2>1, AcceptEffect DEF Fits, TypeOK
    <3>2. Exposure[o.symbol] = o.desired
      BY <2>1 DEF ExactlyToTarget
    <3> QED
      BY <3>1, <3>2, AcceptEffect
  <2>2. CASE o = r
    <3>1. ~ Traded(r.symbol)
      BY AcceptEffect DEF Traded, Fits
    <3>2. buying[r.symbol] = 0 /\ selling[r.symbol] = 0
      BY <3>1 DEF SettledOK, Fits
    <3>3. r.desired = position[r.symbol] + r.qty
      BY <3>1 DEF Fits
    <3>4. Exposure[r.symbol] = position[r.symbol]
      BY <3>2 DEF Exposure, TypeOK, Fits
    <3> QED
      BY <2>2, <3>3, <3>4, AcceptEffect
  <2> QED
    BY <1>1, <2>1, <2>2
<1> QED
  BY <1>1, <1>2, <1>3, <1>4, <1>5 DEF Seen

\* The request of the order in line fits.
LEMMA RequestFits ==
  ASSUME IInv, NEW s \in Symbols, InLine(s)
  PROVE  /\ Fits(Request(s))
         /\ sized[s] \in Int \ {0}
         /\ mandate \in Mandate
         /\ account # NoAccount
<1> USE DEF IInv, InLine
<1>1. mandate \in Mandate /\ sized[s] \in Int \ {0} /\ account # NoAccount
  BY DEF AttemptOK, TypeOK
<1>2. settled /\ ~ Traded(s) => desired[s] = position[s] + sized[s]
  BY <1>1 DEF SettledOK
<1> QED
  BY <1>1, <1>2 DEF Fits, Request, TypeOK, DecidedBefore

\* Yielding for s leaves the attempt in order, and says nothing new about
\* the other symbols.
LEMMA YieldKeeps ==
  ASSUME IInv, NEW s \in Symbols, InLine(s), NEW u, Yield(s, u)
  PROVE  /\ AttemptOK'
         /\ UNCHANGED <<pc, sized, desired, account, mandate, decisions, restarts, settled>>
         /\ todo' = todo \ {s}
         /\ updates'[s] = u
         /\ \A t \in Symbols \ {s} : updates'[t] = updates[t]
BY DEF IInv, InLine, Yield, AttemptOK, TypeOK, callerVars

\* Working an order without the broker keeps what a settled decision sees.
LEMMA YieldKeepsSettled ==
  ASSUME IInv, NEW s \in Symbols, InLine(s), NEW u, Yield(s, u),
         UNCHANGED brokerVars
  PROVE  SettledOK'
<1>1. /\ todo' \subseteq todo
      /\ UNCHANGED <<pc, sized, desired, account, mandate, settled>>
  BY YieldKeeps
<1>2. UNCHANGED <<position, buying, selling, book, flying>>
  BY DEF brokerVars
<1>3. SettledOK
  BY DEF IInv
<1>4. \A t \in Symbols : Traded(t)' <=> Traded(t)
  BY <1>1, <1>2 DEF Traded
<1> QED
  BY <1>1, <1>2, <1>3, <1>4 DEF SettledOK

LEMMA SuppressKeeps ==
  ASSUME NEW s \in Symbols
  PROVE  IInv /\ Suppress(s) => IInv'
<1> SUFFICES ASSUME IInv, Suppress(s) PROVE IInv'
  OBVIOUS
<1>1. InLine(s) /\ Yield(s, Rejection("duplicate"))
  BY DEF Suppress
<1>2. mandate \in Mandate
  BY <1>1, RequestFits
<1> USE DEF IInv
<1>3. TypeOK'
  BY <1>1 DEF Suppress, Yield, Rejection, RejectionKinds, TypeOK, brokerVars, callerVars
<1>4. KeysMatch' /\ OneOrderPerKey' /\ DecidedBefore' /\ ExactlyToTarget'
  BY <1>1, YieldKeeps, SameBook DEF Suppress
<1>5. AttemptOK' /\ SubmittedSeen'
  BY <1>1, YieldKeeps DEF Suppress, SubmittedSeen, Seen, brokerVars
<1>6. SettledOK'
  BY <1>1, YieldKeepsSettled DEF Suppress
<1>7. PICK o \in book : o.mandate = mandate /\ o.symbol = s
  <2>1. PICK o \in book : o.id = client_order_id(mandate, s)
    BY DEF Suppress, SubmittedSeen, Seen
  <2>2. o.mandate \in Mandate /\ o.symbol \in Symbols
    BY DEF TypeOK
  <2>3. client_order_id(o.mandate, o.symbol) = client_order_id(mandate, s)
    BY <2>1 DEF KeysMatch, Orders
  <2> QED
    BY <1>2, <2>2, <2>3, KeyIsInjective
<1>8. DuplicatesAreReal' /\ FillsAreBacked'
  BY <1>1, <1>7, YieldKeeps
  DEF Suppress, DuplicatesAreReal, FillsAreBacked, Rejection, brokerVars
<1> QED
  BY <1>3, <1>4, <1>5, <1>6, <1>8

LEMMA SubmitRefusedKeeps ==
  ASSUME NEW s \in Symbols
  PROVE  IInv /\ SubmitRefused(s) => IInv'
<1> SUFFICES ASSUME IInv, SubmitRefused(s) PROVE IInv'
  OBVIOUS
<1>1. InLine(s) /\ Yield(s, Rejection("broker_error"))
  BY DEF SubmitRefused
<1> USE DEF IInv
<1>2. TypeOK'
  BY <1>1 DEF SubmitRefused, Yield, Rejection, RejectionKinds, TypeOK, brokerVars, callerVars
<1>3. KeysMatch' /\ OneOrderPerKey' /\ DecidedBefore' /\ ExactlyToTarget'
  BY <1>1, YieldKeeps, SameBook DEF SubmitRefused
<1>4. AttemptOK' /\ SubmittedSeen'
  BY <1>1, YieldKeeps DEF SubmitRefused, SubmittedSeen, Seen, brokerVars
<1>5. SettledOK'
  BY <1>1, YieldKeepsSettled DEF SubmitRefused
<1>6. DuplicatesAreReal' /\ FillsAreBacked'
  BY <1>1, YieldKeeps
  DEF SubmitRefused, DuplicatesAreReal, FillsAreBacked, Rejection, brokerVars
<1> QED
  BY <1>2, <1>3, <1>4, <1>5, <1>6

LEMMA SubmitAmbiguousKeeps ==
  ASSUME NEW s \in Symbols
  PROVE  IInv /\ SubmitAmbiguous(s) => IInv'
<1> SUFFICES ASSUME IInv, SubmitAmbiguous(s) PROVE IInv'
  OBVIOUS
<1>1. /\ InLine(s)
      /\ Yield(s, Rejection("broker_error"))
      /\ flying' = flying \cup {Request(s)}
      /\ UNCHANGED <<position, buying, selling, book, submitted>>
  BY DEF SubmitAmbiguous
<1>2. Fits(Request(s)) /\ Request(s).symbol = s /\ Request(s).mandate = mandate
  BY <1>1, RequestFits DEF Request
<1> USE DEF IInv
<1>3. TypeOK'
  BY <1>1, <1>2 DEF Fits, Yield, Rejection, RejectionKinds, TypeOK, callerVars
<1>4. KeysMatch' /\ OneOrderPerKey' /\ DecidedBefore'
  BY <1>1, <1>2, YieldKeeps
  DEF Fits, KeysMatch, Orders, OneOrderPerKey, DecidedBefore
<1>5. ExactlyToTarget'
  <2>1. Exposure' = Exposure
    BY <1>1 DEF Exposure
  <2> QED
    BY <1>1, <2>1, YieldKeeps DEF ExactlyToTarget
<1>6. AttemptOK' /\ SubmittedSeen'
  BY <1>1, YieldKeeps DEF SubmittedSeen, Seen
<1>7. SettledOK'
  <2> SUFFICES ASSUME settled PROVE SettledOK'
    BY <1>1, YieldKeeps DEF SettledOK
  <2>1. \A t \in Symbols : Traded(t)' <=> Traded(t)
    BY <1>1, YieldKeeps DEF Traded
  <2>2. \A r \in flying' : r.mandate = mandate'
    BY <1>1, <1>2, YieldKeeps DEF SettledOK
  <2>3. ASSUME NEW t \in Symbols, ~ Traded(t), NEW r \in flying', r.symbol = t
        PROVE  r.desired = position[t] + r.qty
    BY <1>1, <1>2, <2>3 DEF SettledOK, Fits
  <2>4. ASSUME NEW t \in Symbols, ~ Traded(t)
        PROVE  /\ buying'[t] = 0
               /\ selling'[t] = 0
               /\ account' # NoAccount => account'[t] = position'[t]
               /\ pc' = "working" /\ t \in todo' =>
                    desired'[t] = account'[t] + sized'[t]
    BY <1>1, <2>4, YieldKeeps DEF SettledOK
  <2> QED
    BY <1>1, <2>1, <2>2, <2>3, <2>4 DEF SettledOK
<1>8. DuplicatesAreReal' /\ FillsAreBacked'
  BY <1>1, YieldKeeps
  DEF DuplicatesAreReal, FillsAreBacked, Rejection
<1> QED
  BY <1>3, <1>4, <1>5, <1>6, <1>7, <1>8

LEMMA SubmitAcknowledgedKeeps ==
  ASSUME NEW s \in Symbols
  PROVE  IInv /\ SubmitAcknowledged(s) => IInv'
<1> SUFFICES ASSUME IInv, SubmitAcknowledged(s) PROVE IInv'
  OBVIOUS
<1> DEFINE r == Request(s)
<1>1. PICK k \in 0..Magnitude(sized[s]), answered \in BOOLEAN :
        /\ Accept(r, k)
        /\ Yield(s, Fill(FilledQuantity(s, k, answered)))
  BY DEF SubmitAcknowledged
<1>2. /\ InLine(s)
      /\ submitted' = submitted \cup {client_order_id(mandate, s)}
      /\ flying' = flying
  BY DEF SubmitAcknowledged
<1>3. /\ Fits(r)
      /\ r.symbol = s
      /\ r.mandate = mandate
      /\ r.qty = sized[s]
      /\ r.id = client_order_id(mandate, s)
      /\ sized[s] \in Int \ {0}
  BY <1>2, RequestFits DEF Request
<1> HIDE DEF r
<1> DEFINE n == FilledQuantity(s, k, answered)
<1>4. n \in Int /\ n \in IF sized[s] > 0 THEN 0..sized[s] ELSE sized[s]..0
  BY <1>3 DEF FilledQuantity, Magnitude
<1> HIDE DEF n
<1>5. book' = book \cup {r}
  BY <1>1 DEF Accept
<1> USE DEF IInv
<1>6. TypeOK'
  <2>1. /\ position' \in [Symbols -> Int]
        /\ buying' \in [Symbols -> Nat]
        /\ selling' \in [Symbols -> Nat]
    BY <1>1, <1>3, AcceptEffect
  <2>2. updates' \in [Symbols -> [kind : {"none", "fill"} \cup RejectionKinds,
                                  qty : Int]]
    BY <1>1, <1>4 DEF TypeOK, Yield, Fill, n
  <2> QED
    BY <1>1, <1>2, <1>3, <1>5, <2>1, <2>2
    DEF TypeOK, Fits, Yield, callerVars
<1>7. KeysMatch' /\ OneOrderPerKey' /\ DecidedBefore' /\ ExactlyToTarget'
  BY <1>1, <1>2, <1>3, YieldKeeps, AcceptKeeps
<1>8. AttemptOK'
  BY <1>1, <1>2, YieldKeeps
<1>9. SubmittedSeen'
  BY <1>2, <1>3, <1>5 DEF SubmittedSeen, Seen
<1>10. SettledOK'
  <2> SUFFICES ASSUME settled, NEW t \in Symbols, ~ Traded(t)'
               PROVE  /\ buying'[t] = 0
                      /\ selling'[t] = 0
                      /\ account' # NoAccount => account'[t] = position'[t]
                      /\ pc' = "working" /\ t \in todo' =>
                           desired'[t] = account'[t] + sized'[t]
                      /\ \A q \in flying' :
                           q.symbol = t => q.desired = position'[t] + q.qty
    BY <1>1, <1>2, YieldKeeps DEF SettledOK
  <2>1. t # s /\ ~ Traded(t)
    BY <1>1, <1>2, <1>3, <1>5, YieldKeeps DEF Traded
  <2>2. /\ position'[t] = position[t]
        /\ buying'[t] = buying[t]
        /\ selling'[t] = selling[t]
    BY <1>1, <1>3, <2>1, AcceptEffect
  <2>3. /\ todo' \subseteq todo
        /\ UNCHANGED <<pc, sized, desired, account>>
    BY <1>1, <1>2, YieldKeeps
  <2> QED
    BY <1>2, <2>1, <2>2, <2>3 DEF SettledOK
<1>11. DuplicatesAreReal'
  BY <1>1, <1>2, <1>5, YieldKeeps DEF DuplicatesAreReal, Fill
<1>12. FillsAreBacked'
  BY <1>1, <1>2, <1>3, <1>4, <1>5, YieldKeeps DEF FillsAreBacked, Fill, n
<1> QED
  BY <1>6, <1>7, <1>8, <1>9, <1>10, <1>11, <1>12

LEMMA LandKeeps ==
  ASSUME NEW r \in flying
  PROVE  IInv /\ Land(r) => IInv'
<1> SUFFICES ASSUME IInv, Land(r) PROVE IInv'
  OBVIOUS
<1> USE DEF IInv
<1>1. /\ flying' = flying \ {r}
      /\ UNCHANGED <<submitted, attemptVars, callerVars>>
  BY DEF Land
<1>2. Fits(r)
  BY DEF Fits, TypeOK, KeysMatch, Orders, DecidedBefore, SettledOK
<1>3. CASE \E k \in 0..Magnitude(r.qty) : Accept(r, k)
  <2>1. PICK k \in 0..Magnitude(r.qty) : Accept(r, k)
    BY <1>3
  <2>2. book' = book \cup {r}
    BY <2>1 DEF Accept
  <2>3. TypeOK'
    BY <1>1, <1>2, <2>1, <2>2, AcceptEffect
    DEF TypeOK, Fits, attemptVars, callerVars
  <2>4. KeysMatch' /\ OneOrderPerKey' /\ DecidedBefore' /\ ExactlyToTarget'
    BY <1>1, <1>2, <2>1, AcceptKeeps DEF callerVars
  <2>5. AttemptOK' /\ SubmittedSeen'
    BY <1>1, <2>2 DEF AttemptOK, SubmittedSeen, Seen, attemptVars, callerVars
  <2>6. SettledOK'
    <3> SUFFICES ASSUME settled, NEW t \in Symbols, ~ Traded(t)'
                 PROVE  /\ buying'[t] = 0
                        /\ selling'[t] = 0
                        /\ account' # NoAccount => account'[t] = position'[t]
                        /\ pc' = "working" /\ t \in todo' =>
                             desired'[t] = account'[t] + sized'[t]
                        /\ \A q \in flying' :
                             q.symbol = t => q.desired = position'[t] + q.qty
      BY <1>1 DEF SettledOK, callerVars
    <3>1. t # r.symbol /\ ~ Traded(t)
      BY <1>1, <1>2, <2>2 DEF Traded, callerVars, Fits
    <3> QED
      BY <1>1, <1>2, <2>1, <3>1, AcceptEffect
      DEF SettledOK, attemptVars, callerVars
  <2>7. DuplicatesAreReal' /\ FillsAreBacked'
    BY <1>1, <2>2
    DEF DuplicatesAreReal, FillsAreBacked, attemptVars, callerVars
  <2> QED
    BY <2>3, <2>4, <2>5, <2>6, <2>7
<1>4. CASE UNCHANGED <<position, buying, selling, book>>
  <2>1. TypeOK'
    BY <1>1, <1>4 DEF TypeOK, attemptVars, callerVars
  <2>2. KeysMatch' /\ OneOrderPerKey' /\ DecidedBefore' /\ ExactlyToTarget'
    BY <1>1, <1>4
    DEF KeysMatch, Orders, OneOrderPerKey, DecidedBefore, ExactlyToTarget,
        Exposure, callerVars
  <2>3. AttemptOK' /\ SubmittedSeen'
    BY <1>1, <1>4
    DEF AttemptOK, SubmittedSeen, Seen, attemptVars, callerVars
  <2>4. SettledOK'
    BY <1>1, <1>4 DEF SettledOK, Traded, attemptVars, callerVars
  <2>5. DuplicatesAreReal' /\ FillsAreBacked'
    BY <1>1, <1>4
    DEF DuplicatesAreReal, FillsAreBacked, attemptVars, callerVars
  <2> QED
    BY <2>1, <2>2, <2>3, <2>4, <2>5
<1> QED
  BY <1>3, <1>4 DEF Land

LEMMA TradeWorkingKeeps ==
  ASSUME NEW s \in Symbols
  PROVE  IInv /\ TradeWorking(s) => IInv'
<1> SUFFICES ASSUME IInv, TradeWorking(s) PROVE IInv'
  OBVIOUS
<1> USE DEF IInv
<1>1. UNCHANGED <<book, flying, submitted, attemptVars, callerVars>>
  BY DEF TradeWorking
<1>2. /\ position' \in [Symbols -> Int]
      /\ buying' \in [Symbols -> Nat]
      /\ selling' \in [Symbols -> Nat]
      /\ Exposure' = Exposure
      /\ \A t \in Symbols : buying[t] = 0 /\ selling[t] = 0 =>
           position'[t] = position[t] /\ buying'[t] = 0 /\ selling'[t] = 0
  <2>1. CASE \E k \in 1..buying[s] :
               /\ position' = [position EXCEPT ![s] = @ + k]
               /\ buying' = [buying EXCEPT ![s] = @ - k]
               /\ UNCHANGED selling
    BY <2>1 DEF TypeOK, Exposure
  <2>2. CASE \E k \in 1..selling[s] :
               /\ position' = [position EXCEPT ![s] = @ - k]
               /\ selling' = [selling EXCEPT ![s] = @ - k]
               /\ UNCHANGED buying
    BY <2>2 DEF TypeOK, Exposure
  <2> QED
    BY <2>1, <2>2 DEF TradeWorking
<1>3. TypeOK'
  BY <1>1, <1>2 DEF TypeOK, attemptVars, callerVars
<1>4. KeysMatch' /\ OneOrderPerKey' /\ DecidedBefore'
  BY <1>1 DEF KeysMatch, Orders, OneOrderPerKey, DecidedBefore, callerVars
<1>5. ExactlyToTarget'
  BY <1>1, <1>2 DEF ExactlyToTarget, callerVars
<1>6. AttemptOK' /\ SubmittedSeen'
  BY <1>1 DEF AttemptOK, SubmittedSeen, Seen, attemptVars, callerVars
<1>7. SettledOK'
  BY <1>1, <1>2 DEF SettledOK, Traded, attemptVars, callerVars
<1>8. DuplicatesAreReal' /\ FillsAreBacked'
  BY <1>1 DEF DuplicatesAreReal, FillsAreBacked, attemptVars, callerVars
<1> QED
  BY <1>3, <1>4, <1>5, <1>6, <1>7, <1>8
-----------------------------------------------------------------------------
(* The theorems.                                                           *)

LEMMA NextKeeps == IInv /\ [Next]_vars => IInv'
<1> SUFFICES ASSUME IInv, [Next]_vars PROVE IInv'
  OBVIOUS
<1>1. CASE Decide
  BY <1>1, DecideKeeps
<1>2. CASE ReadAccount
  BY <1>2, ReadAccountKeeps
<1>3. CASE Restart
  BY <1>3, RestartKeeps
<1>4. CASE StartExecute
  BY <1>4, StartExecuteKeeps
<1>5. CASE Report
  BY <1>5, ReportKeeps
<1>6. CASE \E s \in Symbols : WorkOrder(s)
  BY <1>6, SuppressKeeps, SubmitAcknowledgedKeeps, SubmitAmbiguousKeeps,
     SubmitRefusedKeeps DEF WorkOrder
<1>7. CASE \E s \in Symbols : TradeWorking(s)
  BY <1>7, TradeWorkingKeeps
<1>8. CASE \E r \in flying : Land(r)
  BY <1>8, LandKeeps
<1>9. CASE UNCHANGED vars
  <2> USE <1>9 DEF vars, attemptVars, callerVars
  <2>1. TypeOK'
    BY DEF IInv, TypeOK, brokerVars
  <2>2. KeysMatch' /\ OneOrderPerKey' /\ DecidedBefore' /\ ExactlyToTarget'
    BY SameBook DEF IInv
  <2>3. AttemptOK' /\ SubmittedSeen' /\ SettledOK'
    BY DEF IInv, AttemptOK, SubmittedSeen, Seen, SettledOK, Traded, brokerVars
  <2>4. DuplicatesAreReal' /\ FillsAreBacked'
    BY DEF IInv, DuplicatesAreReal, FillsAreBacked, brokerVars
  <2> QED
    BY <2>1, <2>2, <2>3, <2>4 DEF IInv
<1> QED
  BY <1>1, <1>2, <1>3, <1>4, <1>5, <1>6, <1>7, <1>8, <1>9 DEF Next

LEMMA AlwaysIInv == Spec => []IInv
BY InitIInv, NextKeeps, PTL DEF Spec

\* Every variable keeps its type, and no order of size zero is ever made.
THEOREM TypeCorrect == Spec => []TypeOK
<1>1. IInv => TypeOK
  BY DEF IInv
<1> QED
  BY <1>1, AlwaysIInv, PTL

\* However often a mandate is replayed, by whichever process, and however late
\* its requests land, the broker accepts one order at most per mandate and
\* symbol.
THEOREM ReplaysNeverDouble == Spec => []NoDoubling
<1>1. IInv => NoDoubling
  BY DEF IInv, OneOrderPerKey, KeysMatch, Orders, NoDoubling
<1> QED
  BY <1>1, AlwaysIInv, PTL

\* A mandate decided on a settled book takes each symbol it trades exactly to
\* its desired share count.
THEOREM TargetsAreExact == Spec => []ExactlyToTarget
<1>1. IInv => ExactlyToTarget
  BY DEF IInv
<1> QED
  BY <1>1, AlwaysIInv, PTL

\* An order reported as a duplicate (naive.py:217) was accepted before.
THEOREM ClaimsAreBacked == Spec => []DuplicatesAreReal
<1>1. IInv => DuplicatesAreReal
  BY DEF IInv
<1> QED
  BY <1>1, AlwaysIInv, PTL

\* A reported fill stands for an accepted order of its side, and no larger.
THEOREM FillsStandForOrders == Spec => []FillsAreBacked
<1>1. IInv => FillsAreBacked
  BY DEF IInv
<1> QED
  BY <1>1, AlwaysIInv, PTL

-----------------------------------------------------------------------------
(* The broker's book implements the ledger.                                *)

Done == {<<o.mandate, o.symbol>> : o \in book}

LEMMA InitLedger == Init => Ledger!Init
<1> SUFFICES ASSUME Init PROVE Ledger!Init
  OBVIOUS
<1>1. Exposure = InitialPositions
  BY NaiveAssumption DEF Init, Exposure, Quiet
<1>2. {<<o.mandate, o.symbol>> : o \in book} = {}
  BY DEF Init
<1> QED
  BY <1>1, <1>2 DEF Ledger!Init

\* Accepting an order is the ledger's Commit.
LEMMA AcceptCommits ==
  ASSUME IInv, NEW r, Fits(r), NEW k \in 0..Magnitude(r.qty), Accept(r, k)
  PROVE  Ledger!Next
<1> DEFINE m == r.mandate
           s == r.symbol
<1>1. m \in Mandate /\ s \in Symbols /\ r.qty \in Int \ {0}
  BY DEF Fits
<1>2. <<m, s>> \notin Done
  BY AcceptEffect DEF Done
<1>3. Done' = Done \cup {<<m, s>>}
  BY DEF Accept, Done
<1>4. Exposure[s] \in Int /\ Exposure'[s] = Exposure[s] + r.qty
  <2>1. Exposure[s] \in Int
    BY <1>1 DEF IInv, TypeOK, Exposure
  <2> QED
    BY <2>1, AcceptEffect
<1>5. Exposure'[s] \in Int \ {Exposure[s]}
  BY <1>1, <1>4
<1>6. Exposure' = [Exposure EXCEPT ![s] = Exposure'[s]]
  <2>1. \A t \in Symbols \ {s} : Exposure'[t] = Exposure[t]
    BY AcceptEffect
  <2>2. /\ Exposure = [t \in Symbols |-> Exposure[t]]
        /\ Exposure' = [t \in Symbols |-> Exposure'[t]]
    BY DEF Exposure
  <2> HIDE DEF s
  <2> QED
    BY <1>1, <2>1, <2>2
<1>7. Ledger!Commit(m, s)
  BY <1>2, <1>3, <1>5, <1>6 DEF Ledger!Commit, Done
<1> QED
  BY <1>1, <1>7 DEF Ledger!Next

LEMMA StepLedger ==
  IInv /\ [Next]_vars => [Ledger!Next]_<<Done, Exposure>>
<1> SUFFICES ASSUME IInv, [Next]_vars
             PROVE  Ledger!Next \/ UNCHANGED <<Done, Exposure>>
  OBVIOUS
<1>1. ASSUME UNCHANGED <<position, buying, selling, book>>
      PROVE  UNCHANGED <<Done, Exposure>>
  BY <1>1 DEF Done, Exposure
<1>2. CASE \E s \in Symbols : SubmitAcknowledged(s)
  <2>1. PICK s \in Symbols : SubmitAcknowledged(s)
    BY <1>2
  <2>2. PICK k \in 0..Magnitude(sized[s]) : InLine(s) /\ Accept(Request(s), k)
    BY <2>1 DEF SubmitAcknowledged
  <2>3. Fits(Request(s)) /\ Request(s).qty = sized[s]
    BY <2>2, RequestFits DEF Request
  <2>4. k \in 0..Magnitude(Request(s).qty)
    BY <2>3
  <2> QED
    BY <2>2, <2>3, <2>4, AcceptCommits
<1>3. CASE \E r \in flying : Land(r)
  <2>1. PICK r \in flying : Land(r)
    BY <1>3
  <2>2. Fits(r)
    BY DEF IInv, Fits, TypeOK, KeysMatch, Orders, DecidedBefore, SettledOK
  <2> QED
    BY <1>1, <2>1, <2>2, AcceptCommits DEF Land
<1>4. CASE \E s \in Symbols : TradeWorking(s)
  <2>1. PICK s \in Symbols : TradeWorking(s)
    BY <1>4
  <2>2. Exposure' = Exposure
    <3> SUFFICES ASSUME NEW t \in Symbols
                 PROVE  position'[t] + buying'[t] - selling'[t]
                          = position[t] + buying[t] - selling[t]
      BY DEF Exposure
    <3>1. /\ position \in [Symbols -> Int] /\ buying \in [Symbols -> Int]
          /\ selling \in [Symbols -> Int]
      BY DEF IInv, TypeOK
    <3>2. CASE t # s
      BY <2>1, <3>1, <3>2 DEF TradeWorking
    <3>3. CASE t = s
      BY <2>1, <3>1, <3>3 DEF TradeWorking
    <3> QED
      BY <3>2, <3>3
  <2>3. Done' = Done
    BY <2>1 DEF TradeWorking, Done
  <2> QED
    BY <2>2, <2>3
<1>5. CASE UNCHANGED <<position, buying, selling, book>>
  BY <1>1, <1>5
<1>6. \/ \E s \in Symbols : SubmitAcknowledged(s) \/ TradeWorking(s)
      \/ \E r \in flying : Land(r)
      \/ UNCHANGED <<position, buying, selling, book>>
  BY DEF Next, Decide, ReadAccount, Restart, StartExecute, Report, WorkOrder,
         Suppress, SubmitAmbiguous, SubmitRefused, brokerVars, vars
<1> QED
  BY <1>2, <1>3, <1>4, <1>5, <1>6

\* Every behaviour of the executor and the broker is one of the ledger's:
\* exposure moves once per mandate and symbol, and at no other time.
THEOREM ImplementsTheLedger == Spec => ImplementsLedger
<1>1. Init => Ledger!Init
  BY InitLedger
<1>2. IInv /\ [Next]_vars => [Ledger!Next]_<<Done, Exposure>>
  BY StepLedger
<1> QED
  BY <1>1, <1>2, AlwaysIInv, PTL DEF Spec, ImplementsLedger, Ledger!Spec, Done
=============================================================================
