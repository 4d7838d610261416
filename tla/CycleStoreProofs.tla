-------------------------- MODULE CycleStoreProofs --------------------------
(***************************************************************************)
(* The table keeps its promises for any number of events, runs, requests,  *)
(* pages, duplicates and kills, and whatever mandates the runs end in.     *)
(***************************************************************************)
EXTENDS CycleStore, TLAPS

-----------------------------------------------------------------------------
(* The inductive invariant.                                                *)

\* Runs are started in order, and a step a run is at has something to do.
RunsInStep ==
  \A i \in Runs :
    /\ run[i].pc = "off" <=> i > started
    /\ run[i].pc # "off" => run[i].event \in Events
    /\ run[i].pc \in {"put_cycle", "put_snapshot"} => run[i].next = 1
    /\ run[i].pc = "put_research" => run[i].next \in Pages
    /\ run[i].pc = "append_audit" => run[i].next \in 0..run[i].agents

TypeInv == TypeOK /\ RunsInStep

\* A record of a mandate is at the key of the mandate.
Keyed ==
  \A k \in DOMAIN cycles :
    cycles[k].mandate # NoMandate => k = <<"mandate", cycles[k].mandate>>

\* What is past its record has one, and so has the run the snapshot is of.
Recorded ==
  /\ \A i \in Runs :
       run[i].pc \in {"put_snapshot", "put_research", "append_audit", "done"}
         => CycleId(i) \in DOMAIN cycles
  /\ snapshot.kind = "run" =>
       /\ run[snapshot.n].pc # "off"
       /\ CycleId(snapshot.n) \in DOMAIN cycles

\* The completion of a run is in the row of its last event.
Completed ==
  \A i \in Runs :
    run[i].pc = "done" =>
      /\ <<i, run[i].agents>> \in DOMAIN audit
      /\ audit[<<i, run[i].agents>>] = [run |-> i, completed |-> TRUE]

\* A run that is alone is the only one to write, and what it has written stands.
Undisturbed ==
  \A i \in Runs :
    alone[i] =>
      /\ \A k \in Runs \ {i} : run[k].pc \notin RunSteps
      /\ \A j \in Requests : request[j].pc \notin BootstrapSteps
      /\ run[i].pc \in {"put_research", "append_audit", "done"} => snapshot = ByRun(i)
      /\ run[i].pc = "put_research" => \A s \in 1..(run[i].next - 1) : pages[s] = ByRun(i)
      /\ run[i].pc \in {"append_audit", "done"} => \A s \in Pages : pages[s] = ByRun(i)

IInv == TypeInv /\ Keyed /\ Recorded /\ Completed /\ Undisturbed
-----------------------------------------------------------------------------
(* Types.                                                                  *)

RunRecords ==
  [pc : {"off", "done", "dead"} \cup RunSteps, event : 0..MaxEvents,
   mandate : Mandates \cup {NoMandate}, agents : 0..MaxAgentEvents, next : Nat]
RequestRecords ==
  [pc : {"new", "get_research", "served", "not_found", "dead"} \cup BootstrapSteps,
   want : Pages \cup {0}, next : Nat]

LEMMA TypeInitially == Init => TypeInv
BY StoreAssumption
DEF Init, TypeInv, TypeOK, RunsInStep, Runs, Events, Requests, Pages, Writers, Nobody

\* What a step of one run does to the runs, and one of a request to the requests.
RunMoved(i, pc, n) ==
  /\ run' \in [Runs -> RunRecords]
  /\ \A k \in Runs : k # i => run'[k] = run[k]
  /\ run'[i].pc = pc /\ run'[i].next = n
  /\ \A k \in Runs : /\ run'[k].event = run[k].event
                     /\ run'[k].mandate = run[k].mandate
                     /\ run'[k].agents = run[k].agents
RequestMoved(j, pc) ==
  /\ request' \in [Requests -> RequestRecords]
  /\ \A k \in Requests : k # j => request'[k] = request[k]
  /\ request'[j].pc = pc

LEMMA RunMoves ==
  ASSUME run \in [Runs -> RunRecords], NEW i \in Runs,
         NEW pc \in {"off", "done", "dead"} \cup RunSteps, NEW n \in Nat,
         run' = [run EXCEPT ![i] = [@ EXCEPT !.pc = pc, !.next = n]]
  PROVE  RunMoved(i, pc, n)
<1>1. run[i] \in RunRecords
  OBVIOUS
<1>2. [run[i] EXCEPT !.pc = pc, !.next = n] \in RunRecords
  BY <1>1 DEF RunRecords
<1>3. run'[i] = [run[i] EXCEPT !.pc = pc, !.next = n]
  OBVIOUS
<1>4. run' \in [Runs -> RunRecords]
  BY <1>2
<1>5. \A k \in Runs : k # i => run'[k] = run[k]
  OBVIOUS
<1>6. /\ run'[i].pc = pc /\ run'[i].next = n /\ run'[i].event = run[i].event
      /\ run'[i].mandate = run[i].mandate /\ run'[i].agents = run[i].agents
  BY <1>1, <1>3 DEF RunRecords
<1> QED
  BY <1>4, <1>5, <1>6 DEF RunMoved

LEMMA RequestMoves ==
  ASSUME request \in [Requests -> RequestRecords], NEW j \in Requests,
         NEW pc \in {"new", "get_research", "served", "not_found", "dead"} \cup BootstrapSteps,
         NEW n \in Nat,
         request' = [request EXCEPT ![j] = [@ EXCEPT !.pc = pc, !.next = n]]
  PROVE  RequestMoved(j, pc)
<1>1. request[j] \in RequestRecords
  OBVIOUS
<1>2. [request[j] EXCEPT !.pc = pc, !.next = n] \in RequestRecords
  BY <1>1 DEF RequestRecords
<1>3. request'[j] = [request[j] EXCEPT !.pc = pc, !.next = n]
  OBVIOUS
<1>4. request'[j].pc = pc
  BY <1>1, <1>3 DEF RequestRecords
<1> QED
  BY <1>2, <1>3, <1>4 DEF RequestMoved

LEMMA Typed == TypeOK => run \in [Runs -> RunRecords] /\ request \in [Requests -> RequestRecords]
BY DEF TypeOK, RunRecords, RequestRecords

\* Leaving `next` alone is a move, too.
LEMMA RunStays ==
  ASSUME NEW r \in RunRecords, NEW pc
  PROVE  [r EXCEPT !.pc = pc] = [r EXCEPT !.pc = pc, !.next = r.next]
BY DEF RunRecords
LEMMA RequestStays ==
  ASSUME NEW r \in RequestRecords, NEW pc
  PROVE  [r EXCEPT !.pc = pc] = [r EXCEPT !.pc = pc, !.next = r.next]
BY DEF RequestRecords

\* Where each step of a run leads.
NextPage(i) == IF run[i].next = NumPages THEN "append_audit" ELSE "put_research"
NextEvent(i) == IF run[i].next = run[i].agents THEN "done" ELSE "append_audit"

LEMMA StepsOfRuns ==
  ASSUME TypeInv, NEW i \in Runs
  PROVE  /\ PutCycle(i) => RunMoved(i, "put_snapshot", 1)
         /\ PutSnapshot(i) => RunMoved(i, "put_research", 1)
         /\ PutResearch(i) =>
              RunMoved(i, NextPage(i), IF run[i].next = NumPages THEN 0 ELSE run[i].next + 1)
         /\ AppendAudit(i) =>
              RunMoved(i, NextEvent(i), IF run[i].next = run[i].agents THEN 0 ELSE run[i].next + 1)
         /\ Timeout(i) => RunMoved(i, "dead", 0)
<1>1. run \in [Runs -> RunRecords] /\ run[i] \in RunRecords
  BY Typed DEF TypeInv
<1>2. run[i].next \in Nat
  BY <1>1 DEF RunRecords
<1>3. ASSUME PutCycle(i) PROVE RunMoved(i, "put_snapshot", 1)
  <2>1. run[i].next = 1
    BY <1>3 DEF TypeInv, RunsInStep, PutCycle
  <2>2. run' = [run EXCEPT ![i] = [@ EXCEPT !.pc = "put_snapshot"]]
    BY <1>3 DEF PutCycle
  <2>3. [run[i] EXCEPT !.pc = "put_snapshot"]
          = [run[i] EXCEPT !.pc = "put_snapshot", !.next = 1]
    BY <1>1, <2>1, RunStays
  <2> QED
    BY <1>1, <2>2, <2>3, RunMoves DEF RunSteps
<1>4. ASSUME PutSnapshot(i) PROVE RunMoved(i, "put_research", 1)
  <2>1. run[i].next = 1
    BY <1>4 DEF TypeInv, RunsInStep, PutSnapshot
  <2>2. run' = [run EXCEPT ![i] = [@ EXCEPT !.pc = "put_research"]]
    BY <1>4 DEF PutSnapshot
  <2>3. [run[i] EXCEPT !.pc = "put_research"]
          = [run[i] EXCEPT !.pc = "put_research", !.next = 1]
    BY <1>1, <2>1, RunStays
  <2> QED
    BY <1>1, <2>2, <2>3, RunMoves DEF RunSteps
<1>5. ASSUME PutResearch(i)
      PROVE  RunMoved(i, NextPage(i), IF run[i].next = NumPages THEN 0 ELSE run[i].next + 1)
  <2> DEFINE n == IF run[i].next = NumPages THEN 0 ELSE run[i].next + 1
  <2>1. run[i].pc = "put_research"
    BY <1>5 DEF PutResearch
  <2>2. run' = [run EXCEPT ![i] = [@ EXCEPT !.pc = NextPage(i), !.next = n]]
    BY <1>5, <2>1 DEF PutResearch, NextPage
  <2>3. NextPage(i) \in {"off", "done", "dead"} \cup RunSteps /\ n \in Nat
    BY <1>2 DEF NextPage, RunSteps
  <2> QED
    BY <1>1, <2>2, <2>3, RunMoves
<1>6. ASSUME AppendAudit(i)
      PROVE  RunMoved(i, NextEvent(i), IF run[i].next = run[i].agents THEN 0 ELSE run[i].next + 1)
  <2> DEFINE n == IF run[i].next = run[i].agents THEN 0 ELSE run[i].next + 1
  <2>1. run[i].pc = "append_audit"
    BY <1>6 DEF AppendAudit
  <2>2. run' = [run EXCEPT ![i] = [@ EXCEPT !.pc = NextEvent(i), !.next = n]]
    BY <1>6, <2>1 DEF AppendAudit, NextEvent
  <2>3. NextEvent(i) \in {"off", "done", "dead"} \cup RunSteps /\ n \in Nat
    BY <1>2 DEF NextEvent, RunSteps
  <2> QED
    BY <1>1, <2>2, <2>3, RunMoves
<1>7. ASSUME Timeout(i) PROVE RunMoved(i, "dead", 0)
  <2>1. run' = [run EXCEPT ![i] = [@ EXCEPT !.pc = "dead", !.next = 0]]
    BY <1>7 DEF Timeout
  <2> QED
    BY <1>1, <2>1, RunMoves
<1> QED
  BY <1>3, <1>4, <1>5, <1>6, <1>7

LEMMA StepsOfRequests ==
  ASSUME TypeInv, NEW j \in Requests
  PROVE  /\ Ask(j) => /\ request' \in [Requests -> RequestRecords]
                      /\ \A k \in Requests : k # j => request'[k] = request[k]
                      /\ snapshot # Nobody => request'[j].pc \in {"served", "get_research"}
         /\ GetResearch(j) => RequestMoved(j, request'[j].pc) /\ request'[j].pc \in {"served", "not_found"}
         /\ BootstrapSnapshot(j) => RequestMoved(j, "put_research")
         /\ BootstrapResearch(j) => RequestMoved(j, request'[j].pc)
         /\ RequestTimeout(j) => RequestMoved(j, "dead")
<1>1. request \in [Requests -> RequestRecords] /\ request[j] \in RequestRecords
  BY Typed DEF TypeInv
<1>2. request[j].next \in Nat /\ request[j].pc \in
        {"new", "get_research", "served", "not_found", "dead"} \cup BootstrapSteps
  BY <1>1 DEF RequestRecords
<1>3. ASSUME Ask(j)
      PROVE  /\ request' \in [Requests -> RequestRecords]
             /\ \A k \in Requests : k # j => request'[k] = request[k]
             /\ snapshot # Nobody => request'[j].pc \in {"served", "get_research"}
  <2>1. PICK want \in Pages \cup {0} :
          request' = [request EXCEPT ![j] =
                        [pc |-> IF snapshot = Nobody THEN "put_snapshot"
                                ELSE IF want = 0 THEN "served" ELSE "get_research",
                         want |-> want, next |-> IF snapshot = Nobody THEN 1 ELSE 0]]
    BY <1>3 DEF Ask
  <2>2. request'[j] \in RequestRecords
    BY <1>1, <2>1 DEF RequestRecords, BootstrapSteps
  <2>3. \A k \in Requests : k # j => request'[k] = request[k]
    BY <1>1, <2>1
  <2>4. request' \in [Requests -> RequestRecords]
    BY <1>1, <2>1 DEF RequestRecords, BootstrapSteps
  <2>5. snapshot # Nobody => request'[j].pc \in {"served", "get_research"}
    BY <1>1, <2>1
  <2> QED
    BY <2>3, <2>4, <2>5
<1>4. ASSUME GetResearch(j)
      PROVE  RequestMoved(j, request'[j].pc) /\ request'[j].pc \in {"served", "not_found"}
  <2> DEFINE pc == IF pages[request[j].want] = Nobody THEN "not_found" ELSE "served"
  <2>1. request' = [request EXCEPT ![j] = [@ EXCEPT !.pc = pc]]
    BY <1>4 DEF GetResearch
  <2>2. pc \in {"not_found", "served"}
    OBVIOUS
  <2> HIDE DEF pc
  <2>3. [request[j] EXCEPT !.pc = pc] = [request[j] EXCEPT !.pc = pc, !.next = request[j].next]
    BY <1>1, RequestStays
  <2>4. RequestMoved(j, pc)
    BY <1>1, <1>2, <2>1, <2>2, <2>3, RequestMoves
  <2> QED
    BY <2>2, <2>4 DEF RequestMoved
<1>5. ASSUME BootstrapSnapshot(j) PROVE RequestMoved(j, "put_research")
  <2>1. request' = [request EXCEPT ![j] = [@ EXCEPT !.pc = "put_research"]]
    BY <1>5 DEF BootstrapSnapshot
  <2>2. [request[j] EXCEPT !.pc = "put_research"]
          = [request[j] EXCEPT !.pc = "put_research", !.next = request[j].next]
    BY <1>1, RequestStays
  <2>3. request' = [request EXCEPT ![j] = [@ EXCEPT !.pc = "put_research", !.next = request[j].next]]
    BY <2>1, <2>2
  <2>4. "put_research" \in BootstrapSteps
    BY DEF BootstrapSteps
  <2> QED
    BY <1>1, <1>2, <2>3, <2>4, RequestMoves
<1>6. ASSUME BootstrapResearch(j) PROVE RequestMoved(j, request'[j].pc)
  <2> DEFINE pc == IF request[j].next = NumPages THEN "served" ELSE request[j].pc
             n == IF request[j].next = NumPages THEN 0 ELSE request[j].next + 1
  <2>1. request' = [request EXCEPT ![j] = [@ EXCEPT !.pc = pc, !.next = n]]
    BY <1>6 DEF BootstrapResearch
  <2>2. n \in Nat /\ pc \in {"new", "get_research", "served", "not_found", "dead"} \cup BootstrapSteps
    BY <1>2
  <2> HIDE DEF pc, n
  <2>3. RequestMoved(j, pc)
    BY <1>1, <2>1, <2>2, RequestMoves
  <2> QED
    BY <2>3 DEF RequestMoved
<1>7. ASSUME RequestTimeout(j) PROVE RequestMoved(j, "dead")
  <2>1. request' = [request EXCEPT ![j] = [@ EXCEPT !.pc = "dead", !.next = 0]]
    BY <1>7 DEF RequestTimeout
  <2> QED
    BY <1>1, <2>1, RequestMoves
<1> QED
  BY <1>3, <1>4, <1>5, <1>6, <1>7

\* A run starts after all others, with all it will need.
LEMMA Starts ==
  ASSUME TypeInv, NEW e \in Events, Start(e)
  PROVE  /\ run' \in [Runs -> RunRecords]
         /\ started + 1 \in Runs /\ started' = started + 1
         /\ \A k \in Runs : k # started + 1 => run'[k] = run[k]
         /\ run'[started + 1].pc = "put_cycle" /\ run'[started + 1].next = 1
         /\ run'[started + 1].event = e
         /\ run[started + 1].pc = "off"
<1>1. run \in [Runs -> RunRecords]
  BY Typed DEF TypeInv
<1>2. PICK m \in Mandates \cup {NoMandate}, n \in 0..MaxAgentEvents :
        run' = [run EXCEPT ![started + 1] = [pc |-> "put_cycle", event |-> e,
                                             mandate |-> m, agents |-> n, next |-> 1]]
  BY DEF Start
<1>3. started + 1 \in Runs /\ started' = started + 1 /\ started \in Nat
  BY StoreAssumption DEF Start, TypeInv, TypeOK
<1>4. [pc |-> "put_cycle", event |-> e, mandate |-> m, agents |-> n, next |-> 1] \in RunRecords
  BY StoreAssumption DEF RunRecords, RunSteps, Events
<1>5. run' \in [Runs -> RunRecords]
  BY <1>1, <1>2, <1>3, <1>4
<1>6. run[started + 1].pc = "off"
  BY <1>3 DEF TypeInv, RunsInStep
<1> QED
  BY <1>1, <1>2, <1>3, <1>5, <1>6
-----------------------------------------------------------------------------
(* Types are kept.                                                         *)

LEMMA RunningKeepsTypes == ASSUME TypeInv, NEW i \in Runs, RunStep(i) PROVE TypeInv'
<1> USE StoreAssumption DEF TypeInv
<1>1. TypeOK /\ RunsInStep
  OBVIOUS
<1>2. run[i].mandate \in Mandates \cup {NoMandate} /\ run[i].agents \in 0..MaxAgentEvents
  BY Typed DEF RunRecords
<1>3. ASSUME PutCycle(i) PROVE TypeInv'
  <2>1. RunMoved(i, "put_snapshot", 1)
    BY <1>3, StepsOfRuns
  <2>2. run[i].event \in Events /\ started' = started
    BY <1>1, <1>3 DEF PutCycle, RunsInStep, schedule
  <2>3. CycleId(i) \in ({"mandate"} \X Mandates) \cup ({"no-trade"} \X Runs)
    BY <1>2 DEF CycleId
  <2>4. \A k \in DOMAIN cycles' :
          /\ k \in ({"mandate"} \X Mandates) \cup ({"no-trade"} \X Runs)
          /\ cycles'[k] \in [event : Events, mandate : Mandates \cup {NoMandate}]
    BY <1>1, <1>2, <1>3, <2>2, <2>3 DEF PutCycle, Put, TypeOK
  <2>5. TypeOK'
    BY <1>1, <1>3, <2>1, <2>4 DEF TypeOK, RunMoved, RunRecords, PutCycle, schedule
  <2>6. RunsInStep'
    BY <1>1, <1>3, <2>1, <2>2 DEF RunsInStep, RunMoved, PutCycle
  <2> QED
    BY <2>5, <2>6
<1>4. ASSUME PutSnapshot(i) PROVE TypeInv'
  <2>1. RunMoved(i, "put_research", 1)
    BY <1>4, StepsOfRuns
  <2>2. TypeOK'
    BY <1>1, <1>4, <2>1 DEF TypeOK, RunMoved, RunRecords, PutSnapshot, schedule, Writers
  <2>3. RunsInStep'
    BY <1>1, <1>4, <2>1 DEF RunsInStep, RunMoved, PutSnapshot, schedule, Pages
  <2> QED
    BY <2>2, <2>3
<1>5. ASSUME PutResearch(i) PROVE TypeInv'
  <2> DEFINE n == IF run[i].next = NumPages THEN 0 ELSE run[i].next + 1
  <2>1. RunMoved(i, NextPage(i), n)
    BY <1>5, StepsOfRuns
  <2>2. TypeOK'
    <3>1. /\ run' \in [Runs -> RunRecords]
          /\ UNCHANGED <<cycles, snapshot, audit, fired, due, duplicates, timeouts, started,
                         request, alone>>
      BY <1>5, <2>1 DEF RunMoved, PutResearch, schedule
    <3>2. ByRun(i) \in Writers
      BY DEF Writers
    <3>3. pages' \in [Pages -> Writers]
      BY <1>1, <1>5, <3>2 DEF TypeOK, PutResearch
    <3> QED
      <4>1. request' = request /\ cycles' = cycles /\ snapshot' = snapshot /\ audit' = audit
        BY <3>1
      <4>2. /\ fired' = fired /\ due' = due /\ duplicates' = duplicates
            /\ timeouts' = timeouts /\ started' = started /\ alone' = alone
        BY <3>1
      <4> QED
        BY <1>1, <3>1, <3>3, <4>1, <4>2 DEF TypeOK, RunRecords
  <2>3. /\ NextPage(i) = "put_research" => n \in Pages
        /\ NextPage(i) = "append_audit" => n = 0
        /\ NextPage(i) \in {"put_research", "append_audit"}
    BY <1>1, <1>5 DEF NextPage, RunsInStep, PutResearch, Pages
  <2>4. RunsInStep'
    <3> HIDE DEF n
    <3> QED
      BY <1>1, <1>2, <1>5, <2>1, <2>3 DEF RunsInStep, RunMoved, PutResearch, schedule
  <2> QED
    BY <2>2, <2>4
<1>6. ASSUME AppendAudit(i) PROVE TypeInv'
  <2> DEFINE n == IF run[i].next = run[i].agents THEN 0 ELSE run[i].next + 1
  <2>1. RunMoved(i, NextEvent(i), n)
    BY <1>6, StepsOfRuns
  <2>2. run[i].next \in 0..run[i].agents
    BY <1>1, <1>6 DEF AppendAudit, RunsInStep
  <2>3. AuditKey(i, run[i].next) \in (0..MaxRuns) \X (0..MaxAgentEvents)
    BY <1>2, <2>2 DEF AuditKey, Timestamp, Runs
  <2>4. /\ DOMAIN audit' \subseteq (0..MaxRuns) \X (0..MaxAgentEvents)
        /\ \A k \in DOMAIN audit' : audit'[k] \in [run : Runs, completed : BOOLEAN]
    BY <1>1, <1>6, <2>3 DEF AppendAudit, Put, TypeOK
  <2>5. TypeOK'
    BY <1>1, <1>6, <2>1, <2>4 DEF TypeOK, RunMoved, RunRecords, AppendAudit, schedule
  <2>6. /\ NextEvent(i) = "append_audit" => n \in 0..run[i].agents
        /\ NextEvent(i) \in {"append_audit", "done"}
    BY <1>2, <2>2 DEF NextEvent
  <2>7. RunsInStep'
    <3> HIDE DEF n
    <3> QED
      BY <1>1, <1>6, <2>1, <2>6 DEF RunsInStep, RunMoved, AppendAudit, schedule
  <2> QED
    BY <2>5, <2>7
<1> QED
  BY <1>3, <1>4, <1>5, <1>6 DEF RunStep

LEMMA ScheduleKeepsTypes ==
  ASSUME TypeInv,
         Fire \/ (\E e \in Events : Duplicate(e) \/ Start(e)) \/ (\E i \in Runs : Timeout(i))
  PROVE  TypeInv'
<1> USE StoreAssumption DEF TypeInv
<1>1. TypeOK /\ RunsInStep
  OBVIOUS
<1>2. CASE Fire
  <2>1. due' \in [Events -> Nat] /\ fired' \in 0..MaxEvents
    <3>1. due \in [Events -> Nat] /\ fired \in 0..MaxEvents
      BY <1>1 DEF TypeOK
    <3>2. MaxEvents \in Nat
      BY StoreAssumption
    <3>3. due' = [due EXCEPT ![fired + 1] = 1] /\ fired' = fired + 1 /\ fired < MaxEvents
      BY <1>2 DEF Fire
    <3>4. fired' \in 0..MaxEvents
      BY <3>1, <3>2, <3>3
    <3>5. due' \in [Events -> Nat]
      BY <3>1, <3>3
    <3> QED
      BY <3>4, <3>5
  <2>2. UNCHANGED <<cycles, snapshot, pages, audit, duplicates, timeouts, started, run, request, alone>>
    BY <1>2 DEF Fire, table
  <2>3. TypeOK'
    BY <1>1, <2>1, <2>2 DEF TypeOK
  <2>4. RunsInStep'
    BY <1>1, <2>2 DEF RunsInStep
  <2> QED
    BY <2>3, <2>4
<1>3. ASSUME NEW e \in Events, Duplicate(e) PROVE TypeInv'
  <2>1. due \in [Events -> Nat] /\ due[e] + 1 \in Nat /\ duplicates' \in 0..MaxDuplicates
    BY <1>1, <1>3 DEF Duplicate, TypeOK
  <2>2. due' \in [Events -> Nat]
    BY <1>3, <2>1 DEF Duplicate
  <2>3. UNCHANGED <<cycles, snapshot, pages, audit, fired, timeouts, started, run, request, alone>>
    BY <1>3 DEF Duplicate, table
  <2>4. TypeOK'
    BY <1>1, <2>1, <2>2, <2>3 DEF TypeOK
  <2>5. RunsInStep'
    BY <1>1, <2>3 DEF RunsInStep
  <2> QED
    BY <2>4, <2>5
<1>4. ASSUME NEW e \in Events, Start(e) PROVE TypeInv'
  <2>1. /\ run' \in [Runs -> RunRecords]
        /\ started + 1 \in Runs /\ started' = started + 1
        /\ \A k \in Runs : k # started + 1 => run'[k] = run[k]
        /\ run'[started + 1].pc = "put_cycle" /\ run'[started + 1].next = 1
        /\ run'[started + 1].event = e
    BY <1>4, Starts
  <2>2. due' \in [Events -> Nat] /\ alone' \in [Runs -> BOOLEAN]
    BY <1>1, <1>4 DEF Start, TypeOK
  <2>3. UNCHANGED <<cycles, snapshot, pages, audit, fired, duplicates, timeouts, request>>
    BY <1>4 DEF Start, table
  <2>4. started' \in 0..MaxRuns
    BY <2>1 DEF Runs
  <2>5. TypeOK'
    BY <1>1, <2>1, <2>2, <2>3, <2>4 DEF TypeOK, RunRecords
  <2>6. RunsInStep'
    <3> SUFFICES ASSUME NEW k \in Runs
                 PROVE  /\ run'[k].pc = "off" <=> k > started'
                        /\ run'[k].pc # "off" => run'[k].event \in Events
                        /\ run'[k].pc \in {"put_cycle", "put_snapshot"} => run'[k].next = 1
                        /\ run'[k].pc = "put_research" => run'[k].next \in Pages
                        /\ run'[k].pc = "append_audit" => run'[k].next \in 0..run'[k].agents
      BY DEF RunsInStep
    <3>1. CASE k = started + 1
      BY <2>1, <3>1 DEF Runs
    <3>2. CASE k # started + 1
      <4>1. k \in Int /\ started \in Int
        BY <1>1 DEF TypeOK, Runs
      <4>2. k > started + 1 <=> k > started
        BY <3>2, <4>1
      <4> QED
        BY <1>1, <2>1, <3>2, <4>2 DEF RunsInStep
    <3> QED
      BY <3>1, <3>2
  <2> QED
    BY <2>5, <2>6
<1>5. ASSUME NEW i \in Runs, Timeout(i) PROVE TypeInv'
  <2>1. RunMoved(i, "dead", 0)
    BY <1>5, StepsOfRuns
  <2>2. run[i].pc # "off" /\ run[i].event \in Events
    BY <1>1, <1>5 DEF Timeout, RunSteps, RunsInStep
  <2>3. due' \in [Events -> Nat] /\ timeouts' \in 0..MaxTimeouts
    BY <1>1, <1>5, <2>2 DEF Timeout, TypeOK
  <2>4. TypeOK'
    BY <1>1, <1>5, <2>1, <2>3 DEF TypeOK, Timeout, table, RunMoved, RunRecords
  <2>5. RunsInStep'
    BY <1>1, <1>5, <2>1, <2>2 DEF RunsInStep, Timeout, RunMoved
  <2> QED
    BY <2>4, <2>5
<1> QED
  BY <1>2, <1>3, <1>4, <1>5

LEMMA RequestsKeepTypes ==
  ASSUME TypeInv, NEW j \in Requests,
         Ask(j) \/ GetResearch(j) \/ BootstrapSnapshot(j) \/ BootstrapResearch(j)
           \/ RequestTimeout(j)
  PROVE  TypeInv'
<1>1. TypeOK /\ RunsInStep
  BY DEF TypeInv
<1>2. request' \in [Requests -> RequestRecords]
  BY StepsOfRequests DEF RequestMoved
<1>3. UNCHANGED <<cycles, audit, schedule, run>>
  BY DEF Ask, GetResearch, BootstrapSnapshot, BootstrapResearch, RequestTimeout, table
<1>4. snapshot' \in Writers
  BY <1>1 DEF TypeOK, Ask, GetResearch, BootstrapSnapshot, BootstrapResearch, RequestTimeout,
              table, Writers
<1>5. pages' \in [Pages -> Writers]
  <2>1. pages \in [Pages -> Writers] /\ ByRequest(j) \in Writers
    BY <1>1 DEF TypeOK, Writers
  <2>2. pages' = pages \/ pages' = [pages EXCEPT ![request[j].next] = ByRequest(j)]
    BY DEF Ask, GetResearch, BootstrapSnapshot, BootstrapResearch, RequestTimeout, table
  <2> QED
    BY <2>1, <2>2
<1>6. alone' \in [Runs -> BOOLEAN]
  BY <1>1 DEF TypeOK, Ask, GetResearch, BootstrapSnapshot, BootstrapResearch, RequestTimeout
<1>7. TypeOK'
  BY <1>1, <1>2, <1>3, <1>4, <1>5, <1>6 DEF TypeOK, schedule, RequestRecords
<1>8. RunsInStep'
  BY <1>1, <1>3 DEF RunsInStep, schedule
<1> QED
  BY <1>7, <1>8 DEF TypeInv

LEMMA TypesKept == TypeInv /\ [Next]_vars => TypeInv'
<1> SUFFICES ASSUME TypeInv, [Next]_vars PROVE TypeInv'
  OBVIOUS
<1>1. CASE UNCHANGED vars
  BY <1>1 DEF vars, table, schedule, TypeInv, TypeOK, RunsInStep
<1>2. CASE Next
  BY <1>2, RunningKeepsTypes, ScheduleKeepsTypes, RequestsKeepTypes DEF Next
<1> QED
  BY <1>1, <1>2

\* Every item, row, run and request is of its type, in any number of steps.
THEOREM TypeCorrect == Spec => []TypeOK
<1>1. TypeInv => TypeOK
  BY DEF TypeInv
<1> QED
  BY <1>1, TypeInitially, TypesKept, PTL DEF Spec
-----------------------------------------------------------------------------
(* Records.                                                                *)

LEMMA KeyedKept == TypeInv /\ Keyed /\ [Next]_vars => Keyed'
<1> SUFFICES ASSUME TypeInv, Keyed, [Next]_vars PROVE Keyed'
  OBVIOUS
<1>1. ASSUME NEW i \in Runs, PutCycle(i) PROVE Keyed'
  <2>1. cycles' = Put(cycles, CycleId(i), [event |-> run[i].event, mandate |-> run[i].mandate])
    BY <1>1 DEF PutCycle
  <2>2. run[i].mandate # NoMandate => CycleId(i) = <<"mandate", run[i].mandate>>
    BY DEF CycleId
  <2> QED
    BY <2>1, <2>2 DEF Put, Keyed
<1>2. CASE UNCHANGED cycles
  BY <1>2 DEF Keyed
<1>3. UNCHANGED cycles \/ \E i \in Runs : PutCycle(i)
  BY DEF Next, vars, table, Fire, Duplicate, Start, RunStep, PutSnapshot, PutResearch,
         AppendAudit, Timeout, Ask, GetResearch, BootstrapSnapshot, BootstrapResearch,
         RequestTimeout
<1> QED
  BY <1>1, <1>2, <1>3

\* The id of a run that has started is settled.
LEMMA IdStands ==
  ASSUME TypeInv, [Next]_vars, NEW i \in Runs, run[i].pc # "off"
  PROVE  CycleId(i)' = CycleId(i) /\ run'[i].pc # "off"
<1>1. run'[i].mandate = run[i].mandate /\ run'[i].pc # "off"
  <2>1. CASE UNCHANGED run
    BY <2>1
  <2>2. ASSUME NEW k \in Runs, RunStep(k) \/ Timeout(k)
        PROVE  run'[i].mandate = run[i].mandate /\ run'[i].pc # "off"
    <3>1. \E pc \in {"put_snapshot", "put_research", "append_audit", "done", "dead"}, n \in Int :
            RunMoved(k, pc, n)
      <4>1. run[k].next \in Int
        BY Typed DEF TypeInv, RunRecords
      <4> QED
        BY <2>2, <4>1, StepsOfRuns DEF RunStep, NextPage, NextEvent
    <3> QED
      BY <3>1 DEF RunMoved
  <2>3. ASSUME NEW e \in Events, Start(e)
        PROVE  run'[i].mandate = run[i].mandate /\ run'[i].pc # "off"
    BY <2>3, Starts
  <2>4. UNCHANGED run \/ (\E k \in Runs : RunStep(k) \/ Timeout(k)) \/ \E e \in Events : Start(e)
    BY DEF Next, vars, Fire, Duplicate, Ask, GetResearch, BootstrapSnapshot,
           BootstrapResearch, RequestTimeout
  <2> QED
    BY <2>1, <2>2, <2>3, <2>4
<1> QED
  BY <1>1 DEF CycleId

\* No item is ever taken out of the table.
LEMMA RecordsStay == [Next]_vars => DOMAIN cycles \subseteq DOMAIN cycles'
BY DEF Next, vars, table, Fire, Duplicate, Start, RunStep, PutCycle, PutSnapshot, PutResearch,
       AppendAudit, Timeout, Ask, GetResearch, BootstrapSnapshot, BootstrapResearch,
       RequestTimeout, Put

LEMMA RecordedKept == TypeInv /\ Recorded /\ [Next]_vars => Recorded'
<1> SUFFICES ASSUME TypeInv, Recorded, [Next]_vars PROVE Recorded'
  OBVIOUS
<1> DEFINE Past == {"put_snapshot", "put_research", "append_audit", "done"}
<1>1. ASSUME NEW i \in Runs, run'[i].pc \in Past PROVE CycleId(i)' \in DOMAIN cycles'
  <2>1. CASE run[i].pc \in Past
    BY <2>1, IdStands, RecordsStay DEF Recorded
  <2>2. CASE run[i].pc \notin Past
    <3>1. PutCycle(i)
      <4>1. UNCHANGED run \/ (\E k \in Runs : RunStep(k) \/ Timeout(k)) \/ \E e \in Events : Start(e)
        BY DEF Next, vars, Fire, Duplicate, Ask, GetResearch, BootstrapSnapshot,
               BootstrapResearch, RequestTimeout
      <4>2. ~ \E e \in Events : Start(e)
        BY <1>1, <2>2, Starts
      <4>3. ASSUME NEW k \in Runs, k # i PROVE ~(RunStep(k) \/ Timeout(k))
        BY <1>1, <2>2, <4>3, StepsOfRuns DEF RunStep, RunMoved
      <4>4. ~(PutSnapshot(i) \/ PutResearch(i) \/ AppendAudit(i))
        BY <2>2 DEF PutSnapshot, PutResearch, AppendAudit
      <4>5. ~Timeout(i)
        BY <1>1, StepsOfRuns DEF RunMoved
      <4> QED
        BY <1>1, <2>2, <4>1, <4>2, <4>3, <4>4, <4>5 DEF RunStep
    <3>2. run[i].pc # "off"
      BY <3>1 DEF PutCycle
    <3>3. CycleId(i) \in DOMAIN cycles'
      BY <3>1 DEF PutCycle, Put
    <3> QED
      BY <3>2, <3>3, IdStands
  <2> QED
    BY <2>1, <2>2
<1>2. ASSUME snapshot'.kind = "run"
      PROVE  run'[snapshot'.n].pc # "off" /\ CycleId(snapshot.n)' \in DOMAIN cycles'
  <2>1. CASE UNCHANGED snapshot
    <3>1. snapshot.n \in Runs
      BY <1>2, <2>1 DEF TypeInv, TypeOK, Writers, Nobody, ByRun, ByRequest
    <3> QED
      BY <1>2, <2>1, <3>1, IdStands, RecordsStay DEF Recorded, CycleId
  <2>2. ASSUME NEW i \in Runs, PutSnapshot(i)
        PROVE  run'[snapshot'.n].pc # "off" /\ CycleId(snapshot.n)' \in DOMAIN cycles'
    <3>1. snapshot'.n = i /\ run'[i].pc = "put_research"
      BY <2>2, StepsOfRuns DEF PutSnapshot, ByRun, RunMoved
    <3> QED
      BY <1>1, <3>1 DEF CycleId
  <2>3. ~ \E j \in Requests : BootstrapSnapshot(j)
    BY <1>2 DEF BootstrapSnapshot, ByRequest
  <2>4. UNCHANGED snapshot \/ \E i \in Runs : PutSnapshot(i)
    BY <2>3 DEF Next, vars, table, Fire, Duplicate, Start, RunStep, PutCycle, PutResearch,
                AppendAudit, Timeout, Ask, GetResearch, BootstrapResearch, RequestTimeout
  <2> QED
    BY <2>1, <2>2, <2>4
<1> QED
  BY <1>1, <1>2 DEF Recorded, CycleId
-----------------------------------------------------------------------------
(* Completions.                                                            *)

\* Who can have moved a run, and where to.
LEMMA WhoMoved ==
  ASSUME TypeInv, [Next]_vars, NEW i \in Runs
  PROVE  \/ run'[i] = run[i]
         \/ RunStep(i) \/ Timeout(i)
         \/ run[i].pc = "off" /\ run'[i].pc = "put_cycle"
<1>1. CASE UNCHANGED run
  BY <1>1
<1>2. ASSUME NEW k \in Runs, RunStep(k) \/ Timeout(k), k # i PROVE run'[i] = run[i]
  BY <1>2, StepsOfRuns DEF RunStep, RunMoved
<1>3. ASSUME NEW e \in Events, Start(e)
      PROVE  run'[i] = run[i] \/ (run[i].pc = "off" /\ run'[i].pc = "put_cycle")
  BY <1>3, Starts
<1>4. UNCHANGED run \/ (\E k \in Runs : RunStep(k) \/ Timeout(k)) \/ \E e \in Events : Start(e)
  BY DEF Next, vars, Fire, Duplicate, Ask, GetResearch, BootstrapSnapshot,
         BootstrapResearch, RequestTimeout
<1> QED
  BY <1>1, <1>2, <1>3, <1>4

LEMMA CompletedKept == TypeInv /\ Completed /\ [Next]_vars => Completed'
<1> SUFFICES ASSUME TypeInv, Completed, [Next]_vars,
                    NEW i \in Runs, run'[i].pc = "done"
             PROVE  /\ <<i, run'[i].agents>> \in DOMAIN audit'
                    /\ audit'[<<i, run'[i].agents>>] = [run |-> i, completed |-> TRUE]
  BY DEF Completed
<1> DEFINE row == <<i, run[i].agents>>
           full == [run |-> i, completed |-> TRUE]
<1>1. CASE AppendAudit(i)
  <2>1. run[i].next = run[i].agents /\ run'[i].agents = run[i].agents
    BY <1>1, StepsOfRuns DEF RunMoved, NextEvent
  <2>2. AuditKey(i, run[i].next) = row
    <3>1. ~(run[i].agents < run[i].agents)
      BY Typed DEF TypeInv, RunRecords
    <3> QED
      BY <2>1, <3>1 DEF AuditKey, Timestamp
  <2>3. audit' = Put(audit, row, full)
    BY <1>1, <2>1, <2>2 DEF AppendAudit
  <2> QED
    BY <2>1, <2>3 DEF Put
<1>2. CASE ~AppendAudit(i)
  <2>1. run'[i] = run[i]
    <3>1. ~(PutCycle(i) \/ PutSnapshot(i) \/ PutResearch(i) \/ Timeout(i))
      BY StepsOfRuns DEF RunMoved, NextPage
    <3> QED
      BY <1>2, <3>1, WhoMoved DEF RunStep
  <2>2. row \in DOMAIN audit /\ audit[row] = full
    BY <2>1 DEF Completed
  <2>3. ASSUME NEW k \in Runs, AppendAudit(k)
        PROVE  row \in DOMAIN audit' /\ audit'[row] = full
    <3>1. k # i
      BY <1>2, <2>3
    <3>2. AuditKey(k, run[k].next) # row
      BY <3>1 DEF AuditKey, Timestamp, Runs
    <3> QED
      BY <2>2, <2>3, <3>2 DEF AppendAudit, Put
  <2>4. UNCHANGED audit \/ \E k \in Runs : AppendAudit(k)
    BY DEF Next, vars, table, Fire, Duplicate, Start, RunStep, PutCycle, PutSnapshot,
           PutResearch, Timeout, Ask, GetResearch, BootstrapSnapshot, BootstrapResearch,
           RequestTimeout
  <2> QED
    BY <2>1, <2>2, <2>3, <2>4
<1> QED
  BY <1>1, <1>2
-----------------------------------------------------------------------------
(* Runs that are alone.                                                    *)

\* What another writer may not do to a run that is alone.
LEMMA NobodyElseWrites ==
  ASSUME TypeInv, Undisturbed, NEW i \in Runs, alone[i]
  PROVE  /\ \A k \in Runs : RunStep(k) \/ Timeout(k) => k = i
         /\ \A j \in Requests :
              ~(BootstrapSnapshot(j) \/ BootstrapResearch(j) \/ RequestTimeout(j))
BY DEF Undisturbed, RunSteps, BootstrapSteps, RunStep, PutCycle, PutSnapshot, PutResearch,
       AppendAudit, Timeout, BootstrapSnapshot, BootstrapResearch, RequestTimeout

LEMMA UndisturbedKept == TypeInv /\ Undisturbed /\ [Next]_vars => Undisturbed'
<1> SUFFICES ASSUME TypeInv, Undisturbed, [Next]_vars, NEW i \in Runs, alone'[i]
             PROVE  /\ \A k \in Runs \ {i} : run'[k].pc \notin RunSteps
                    /\ \A j \in Requests : request'[j].pc \notin BootstrapSteps
                    /\ run'[i].pc \in {"put_research", "append_audit", "done"}
                         => snapshot' = ByRun(i)
                    /\ run'[i].pc = "put_research"
                         => \A s \in 1..(run'[i].next - 1) : pages'[s] = ByRun(i)
                    /\ run'[i].pc \in {"append_audit", "done"}
                         => \A s \in Pages : pages'[s] = ByRun(i)
  BY DEF Undisturbed
<1> DEFINE Goal ==
             /\ \A k \in Runs \ {i} : run'[k].pc \notin RunSteps
             /\ \A j \in Requests : request'[j].pc \notin BootstrapSteps
             /\ run'[i].pc \in {"put_research", "append_audit", "done"}
                  => snapshot' = ByRun(i)
             /\ run'[i].pc = "put_research"
                  => \A s \in 1..(run'[i].next - 1) : pages'[s] = ByRun(i)
             /\ run'[i].pc \in {"append_audit", "done"}
                  => \A s \in Pages : pages'[s] = ByRun(i)
<1>1. ASSUME NEW e \in Events, Start(e) PROVE Goal
  <2>1. i = started + 1 /\ RunsWriting = {} /\ RequestsWriting = {}
    BY <1>1 DEF Start
  <2>2. \A k \in Runs \ {i} : run'[k].pc \notin RunSteps
    BY <1>1, <2>1, Starts DEF RunsWriting
  <2>3. \A j \in Requests : request'[j].pc \notin BootstrapSteps
    BY <1>1, <2>1 DEF Start, RequestsWriting
  <2>4. run'[i].pc = "put_cycle"
    BY <1>1, <2>1, Starts
  <2> QED
    BY <2>2, <2>3, <2>4
<1>2. ASSUME ~ \E e \in Events : Start(e) PROVE alone[i]
  BY <1>2 DEF Next, vars, Fire, Duplicate, RunStep, PutCycle, PutSnapshot, PutResearch,
              AppendAudit, Timeout, Ask, GetResearch, BootstrapSnapshot, BootstrapResearch,
              RequestTimeout
<1>3. ASSUME alone[i], NEW j \in Requests, Ask(j) PROVE Goal
  <2>1. snapshot # Nobody
    BY <1>3 DEF Ask
  <2>2. \A k \in Requests : request'[k].pc \notin BootstrapSteps
    BY <1>3, <2>1, StepsOfRequests DEF Undisturbed, BootstrapSteps
  <2>3. UNCHANGED <<run, snapshot, pages>>
    BY <1>3 DEF Ask, table
  <2> QED
    BY <1>3, <2>2, <2>3 DEF Undisturbed
<1>4. ASSUME alone[i], NEW j \in Requests, GetResearch(j) PROVE Goal
  <2>1. \A k \in Requests : request'[k].pc \notin BootstrapSteps
    BY <1>4, StepsOfRequests DEF Undisturbed, BootstrapSteps, RequestMoved
  <2>2. UNCHANGED <<run, snapshot, pages>>
    BY <1>4 DEF GetResearch, table
  <2> QED
    BY <1>4, <2>1, <2>2 DEF Undisturbed
<1>5. ASSUME alone[i], UNCHANGED <<run, request, snapshot, pages>> PROVE Goal
  BY <1>5 DEF Undisturbed
<1>6. ASSUME alone[i], RunStep(i) \/ Timeout(i) PROVE Goal
  <2>1. UNCHANGED request
    BY <1>6 DEF RunStep, PutCycle, PutSnapshot, PutResearch, AppendAudit, Timeout
  <2>2. \A k \in Runs \ {i} : run'[k].pc \notin RunSteps
    BY <1>6, StepsOfRuns DEF Undisturbed, RunStep, RunMoved
  <2>3. CASE PutCycle(i) \/ Timeout(i)
    BY <1>6, <2>1, <2>2, <2>3, StepsOfRuns DEF Undisturbed, RunMoved
  <2>4. CASE PutSnapshot(i)
    <3>1. run'[i].pc = "put_research" /\ run'[i].next = 1 /\ snapshot' = ByRun(i)
      BY <2>4, StepsOfRuns DEF RunMoved, PutSnapshot
    <3> QED
      BY <1>6, <2>1, <2>2, <3>1 DEF Undisturbed
  <2>5. CASE PutResearch(i)
    <3> DEFINE s == run[i].next
    <3>1. /\ snapshot' = snapshot /\ snapshot = ByRun(i)
          /\ \A t \in 1..(s - 1) : pages[t] = ByRun(i)
          /\ s \in Pages /\ pages \in [Pages -> Writers]
          /\ pages' = [pages EXCEPT ![s] = ByRun(i)]
      BY <1>6, <2>5 DEF Undisturbed, PutResearch, TypeInv, TypeOK, RunsInStep
    <3>2. \A t \in 1..s : pages'[t] = ByRun(i)
      <4>1. s \in 1..NumPages /\ NumPages \in Nat
        BY <3>1, StoreAssumption DEF Pages
      <4> HIDE DEF s
      <4> SUFFICES ASSUME NEW t \in 1..s PROVE pages'[t] = ByRun(i)
        OBVIOUS
      <4>2. t \in 1..NumPages /\ (t = s \/ t \in 1..(s - 1))
        BY <4>1
      <4>3. t \in Pages
        BY <4>2 DEF Pages
      <4> QED
        BY <3>1, <4>2, <4>3
    <3>3. /\ run'[i].pc \in {"put_research", "append_audit"}
          /\ run'[i].pc = "put_research" => run'[i].next = s + 1
          /\ run'[i].pc = "append_audit" => s = NumPages
      BY <2>5, StepsOfRuns DEF RunMoved, NextPage
    <3> QED
      BY <1>6, <2>1, <2>2, <3>1, <3>2, <3>3 DEF Undisturbed, Pages
  <2>6. CASE AppendAudit(i)
    <3>1. run[i].pc = "append_audit" /\ UNCHANGED <<snapshot, pages>>
      BY <2>6 DEF AppendAudit
    <3>2. run'[i].pc \in {"append_audit", "done"}
      BY <2>6, StepsOfRuns DEF RunMoved, NextEvent
    <3> QED
      BY <1>6, <2>1, <2>2, <3>1, <3>2 DEF Undisturbed
  <2> QED
    BY <1>6, <2>3, <2>4, <2>5, <2>6 DEF RunStep
<1>7. ASSUME alone[i], ~ \E e \in Events : Start(e)
      PROVE  \/ UNCHANGED <<run, request, snapshot, pages>>
             \/ \E j \in Requests : Ask(j) \/ GetResearch(j)
             \/ RunStep(i) \/ Timeout(i)
  BY <1>7, NobodyElseWrites DEF Next, vars, table, Fire, Duplicate
<1> QED
  BY <1>1, <1>2, <1>3, <1>4, <1>5, <1>6, <1>7
-----------------------------------------------------------------------------
(* The theorems.                                                           *)

LEMMA Initially == Init => IInv
<1> SUFFICES ASSUME Init PROVE IInv
  OBVIOUS
<1>1. Keyed /\ Recorded /\ Completed /\ Undisturbed
  BY DEF Init, Keyed, Recorded, Completed, Undisturbed, Nobody
<1> QED
  BY <1>1, TypeInitially DEF IInv

LEMMA AlwaysIInv == Spec => []IInv
<1>1. IInv /\ [Next]_vars => IInv'
  BY TypesKept, KeyedKept, RecordedKept, CompletedKept, UndisturbedKept DEF IInv
<1> QED
  BY <1>1, Initially, PTL DEF Spec

\* However often an event is delivered, retried or followed by another, a
\* mandate has one record.
THEOREM MandatesHaveOneRecord == Spec => []OneRecordPerMandate
<1>1. IInv => OneRecordPerMandate
  BY DEF IInv, Keyed, OneRecordPerMandate
<1> QED
  BY <1>1, AlwaysIInv, PTL

\* The record of a cycle comes before the snapshot that shows it, with kills
\* between any two puts and any number of overlapping runs and requests.
THEOREM SnapshotsAreRecorded == Spec => []SnapshotIsRecorded
<1>1. IInv => SnapshotIsRecorded
  BY DEF IInv, Recorded, SnapshotIsRecorded
<1> QED
  BY <1>1, AlwaysIInv, PTL

\* The completion of a run is in the audit trail for good.
THEOREM CompletionsAreKept == Spec => []CompletionsKept
<1>1. IInv => CompletionsKept
  BY DEF IInv, Completed, CompletionsKept, Range
<1> QED
  BY <1>1, AlwaysIInv, PTL

\* A run that had the table to itself leaves a dashboard that is all its own.
THEOREM AloneLeavesAllPages == Spec => []AloneIsComplete
<1>1. IInv => AloneIsComplete
  BY DEF IInv, Undisturbed, AloneIsComplete
<1> QED
  BY <1>1, AlwaysIInv, PTL
=============================================================================
