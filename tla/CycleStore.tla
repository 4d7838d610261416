----------------------------- MODULE CycleStore -----------------------------
(***************************************************************************)
(* The scheduled cycle and the dashboard API around one table:             *)
(* src/api/handler.py run_cycle, src/api/store.py DynamoStateStore,        *)
(* src/api/routes.py app_from_environment and create_cached_app.           *)
(*                                                                         *)
(* Each invocation is a process of its own.  The schedule delivers at      *)
(* least once, a run that times out is delivered again, runs and requests  *)
(* overlap, and every put is a step another process can come in between.   *)
(* A run is numbered in the order of the instants it reads as `now`.       *)
(* A read returns the latest put (the table's reads are eventually         *)
(* consistent, which could only show a process an older item).             *)
(***************************************************************************)
EXTENDS Integers, FiniteSets, Functions

CONSTANTS
  NumPages,        \* research pages, written in this order
  Mandates,        \* mandate ids the last rebalance of a run may carry
  MaxEvents,       \* bound: scheduled events
  MaxRuns,         \* bound: invocations of scheduled_cycle
  MaxRequests,     \* bound: invocations of api_handler
  MaxDuplicates,   \* bound: events delivered twice
  MaxTimeouts,     \* bound: runs killed, and delivered again
  MaxAgentEvents   \* bound: audit events the agents record in a run

Pages == 1..NumPages
Runs == 1..MaxRuns
Requests == 1..MaxRequests
Events == 1..MaxEvents

\* latest.mandate is None: vetoed, nothing to optimise, or no rebalance at all.
NoMandate == "no mandate"

ASSUME StoreAssumption ==
  /\ NumPages \in Nat \ {0}
  /\ NoMandate \notin Mandates
  /\ {MaxEvents, MaxRuns, MaxRequests, MaxDuplicates, MaxTimeouts,
      MaxAgentEvents} \subseteq Nat
  \* every delivery the bounds allow finds a run
  /\ MaxRuns >= MaxEvents + MaxDuplicates + MaxTimeouts

VARIABLES
  cycles,     \* table: the CYCLE# items, a function of the cycle id
  snapshot,   \* table: who wrote SNAPSHOT#latest
  pages,      \* table: who wrote each RESEARCH# item
  audit,      \* table: the AUDIT# items, a function of <<timestamp, index>>
  fired,      \* how many events the schedule fired
  due,        \* per event: deliveries still to be made
  duplicates, \* how many events were delivered twice
  timeouts,   \* how many runs were killed
  started,    \* how many runs were started: the clock
  run,        \* per run: where it is and what it computed
  request,    \* per request: where it is and what it asks for
  alone       \* auxiliary, per run: no other writer since it started

table == <<cycles, snapshot, pages, audit>>
schedule == <<fired, due, duplicates, timeouts, started>>
vars == <<table, schedule, run, request, alone>>

Nobody == [kind |-> "nobody", n |-> 0]
ByRun(i) == [kind |-> "run", n |-> i]
ByRequest(j) == [kind |-> "request", n |-> j]
Writers == {Nobody} \cup {ByRun(i) : i \in Runs} \cup {ByRequest(j) : j \in Requests}

RunSteps == {"put_cycle", "put_snapshot", "put_research", "append_audit"}
BootstrapSteps == {"put_snapshot", "put_research"}

RunsWriting == {i \in Runs : run[i].pc \in RunSteps}
RequestsWriting == {j \in Requests : request[j].pc \in BootstrapSteps}

-----------------------------------------------------------------------------
(* The schedule and the runtime (EventBridge, Lambda).                     *)

Fire ==
  /\ fired < MaxEvents
  /\ fired' = fired + 1
  /\ due' = [due EXCEPT ![fired + 1] = 1]
  /\ UNCHANGED <<table, duplicates, timeouts, started, run, request, alone>>

Duplicate(e) ==
  /\ e <= fired
  /\ duplicates < MaxDuplicates
  /\ duplicates' = duplicates + 1
  /\ due' = [due EXCEPT ![e] = @ + 1]
  /\ UNCHANGED <<table, fired, timeouts, started, run, request, alone>>

\* A run is killed between two of its steps, and its event is delivered again.
Timeout(i) ==
  /\ run[i].pc \in RunSteps
  /\ timeouts < MaxTimeouts
  /\ timeouts' = timeouts + 1
  /\ run' = [run EXCEPT ![i].pc = "dead", ![i].next = 0]
  /\ due' = [due EXCEPT ![run[i].event] = @ + 1]
  /\ UNCHANGED <<table, fired, duplicates, started, request, alone>>

\* A request is killed while it computes or writes; the client gets a 504.
RequestTimeout(j) ==
  /\ request[j].pc \in BootstrapSteps
  /\ request' = [request EXCEPT ![j].pc = "dead", ![j].next = 0]
  /\ UNCHANGED <<table, schedule, run, alone>>

-----------------------------------------------------------------------------
(* run_cycle.                                                              *)

\* Up to the puts, a run only computes: which mandate the last rebalance
\* carries depends on the recording deployed and on what the agents answer.
Start(e) ==
  LET i == started + 1
  IN  /\ due[e] > 0
      /\ i \in Runs
      /\ started' = i
      /\ due' = [due EXCEPT ![e] = @ - 1]
      /\ \E m \in Mandates \cup {NoMandate}, n \in 0..MaxAgentEvents :
           run' = [run EXCEPT ![i] = [pc |-> "put_cycle", event |-> e,
                                      mandate |-> m, agents |-> n, next |-> 1]]
      /\ alone' = [k \in Runs |-> k = i /\ RunsWriting = {} /\ RequestsWriting = {}]
      /\ UNCHANGED <<table, fired, duplicates, timeouts, request>>

\* Mutant: the record is keyed by the instant of the run.
CycleIdByNow(i) == <<"no-trade", i>>

\* The mandate id when the run ended in a mandate, else no-trade-{now}.
CycleId(i) ==
  IF run[i].mandate # NoMandate THEN <<"mandate", run[i].mandate>>
                                ELSE <<"no-trade", i>>

Put(f, key, value) ==
  [k \in DOMAIN f \cup {key} |-> IF k = key THEN value ELSE f[k]]

\* Mutant: a cycle without a mandate leaves no record.
PutCycleIfTraded(i) ==
  /\ run[i].pc = "put_cycle"
  /\ cycles' = IF run[i].mandate = NoMandate THEN cycles
               ELSE Put(cycles, CycleId(i), [event |-> run[i].event,
                                             mandate |-> run[i].mandate])
  /\ run' = [run EXCEPT ![i].pc = "put_snapshot"]
  /\ UNCHANGED <<snapshot, pages, audit, schedule, request, alone>>

PutCycle(i) ==
  /\ run[i].pc = "put_cycle"
  /\ cycles' = Put(cycles, CycleId(i), [event |-> run[i].event,
                                        mandate |-> run[i].mandate])
  /\ run' = [run EXCEPT ![i].pc = "put_snapshot"]
  /\ UNCHANGED <<snapshot, pages, audit, schedule, request, alone>>

\* Mutant: attribute_not_exists on the put.
PutSnapshotOnce(i) ==
  /\ run[i].pc = "put_snapshot"
  /\ snapshot = Nobody
  /\ snapshot' = ByRun(i)
  /\ run' = [run EXCEPT ![i].pc = "put_research"]
  /\ UNCHANGED <<cycles, pages, audit, schedule, request, alone>>

PutSnapshot(i) ==
  /\ run[i].pc = "put_snapshot"
  /\ snapshot' = ByRun(i)
  /\ run' = [run EXCEPT ![i].pc = "put_research"]
  /\ UNCHANGED <<cycles, pages, audit, schedule, request, alone>>

\* Mutant: a page that is there is left alone.
PutResearchIfAbsent(i) ==
  LET s == run[i].next
  IN  /\ run[i].pc = "put_research"
      /\ pages' = IF pages[s] = Nobody THEN [pages EXCEPT ![s] = ByRun(i)] ELSE pages
      /\ run' = [run EXCEPT ![i].pc = IF s = NumPages THEN "append_audit" ELSE @,
                            ![i].next = IF s = NumPages THEN 0 ELSE s + 1]
      /\ UNCHANGED <<cycles, snapshot, audit, schedule, request, alone>>

\* One put per page, in the order the universe lists them.
PutResearch(i) ==
  LET s == run[i].next
  IN  /\ run[i].pc = "put_research"
      /\ pages' = [pages EXCEPT ![s] = ByRun(i)]
      /\ run' = [run EXCEPT ![i].pc = IF s = NumPages THEN "append_audit" ELSE @,
                            ![i].next = IF s = NumPages THEN 0 ELSE s + 1]
      /\ UNCHANGED <<cycles, snapshot, audit, schedule, request, alone>>

\* Mutant: the completion is stamped like the agents' events.
TimestampSimulated(i, index) == 0

\* What the agents record carries the simulated instant of the rebalance, the
\* same in every run over a recording; CYCLE_COMPLETED comes last and carries
\* the instant of the run.
Timestamp(i, index) == IF index < run[i].agents THEN 0 ELSE i

\* Mutant: rows are counted from one.
AuditKeyFromOne(i, index) == <<Timestamp(i, index), index + 1>>

AuditKey(i, index) == <<Timestamp(i, index), index>>

\* One put per event of the run's log; the last one is its completion.
AppendAudit(i) ==
  LET index == run[i].next
      last == index = run[i].agents
  IN  /\ run[i].pc = "append_audit"
      /\ audit' = Put(audit, AuditKey(i, index), [run |-> i, completed |-> last])
      /\ run' = [run EXCEPT ![i].pc = IF last THEN "done" ELSE @,
                            ![i].next = IF last THEN 0 ELSE index + 1]
      /\ UNCHANGED <<cycles, snapshot, pages, schedule, request, alone>>

RunStep(i) == PutCycle(i) \/ PutSnapshot(i) \/ PutResearch(i) \/ AppendAudit(i)

-----------------------------------------------------------------------------
(* api_handler: one app, built from the environment, per request.          *)

\* latest_snapshot: with routes in it the cached app answers; without, the
\* request replays the backtest itself.  want is a page, or 0 for a route the
\* snapshot carries.
Ask(j) ==
  /\ request[j].pc = "new"
  /\ \A k \in Requests : k < j => request[k].pc # "new"
  /\ \E want \in Pages \cup {0} :
       request' = [request EXCEPT ![j] =
                     [pc |-> IF snapshot = Nobody THEN "put_snapshot"
                             ELSE IF want = 0 THEN "served" ELSE "get_research",
                      want |-> want,
                      next |-> IF snapshot = Nobody THEN 1 ELSE 0]]
  /\ alone' = [i \in Runs |-> alone[i] /\ snapshot # Nobody]
  /\ UNCHANGED <<table, schedule, run>>

\* create_cached_app research: 404 when the page is not in the table.
GetResearch(j) ==
  /\ request[j].pc = "get_research"
  /\ request' = [request EXCEPT ![j].pc =
                   IF pages[request[j].want] = Nobody THEN "not_found" ELSE "served"]
  /\ UNCHANGED <<table, schedule, run, alone>>

\* The bootstrap: the snapshot it computed, without a cycle id, is put without
\* a look at what is there by now, and so are the pages.
BootstrapSnapshot(j) ==
  /\ request[j].pc = "put_snapshot"
  /\ snapshot' = ByRequest(j)
  /\ request' = [request EXCEPT ![j].pc = "put_research"]
  /\ UNCHANGED <<cycles, pages, audit, schedule, run, alone>>

BootstrapResearch(j) ==
  LET s == request[j].next
  IN  /\ request[j].pc = "put_research"
      /\ pages' = [pages EXCEPT ![s] = ByRequest(j)]
      /\ request' = [request EXCEPT ![j].pc = IF s = NumPages THEN "served" ELSE @,
                                    ![j].next = IF s = NumPages THEN 0 ELSE s + 1]
      /\ UNCHANGED <<cycles, snapshot, audit, schedule, run, alone>>

-----------------------------------------------------------------------------
Init ==
  /\ cycles = <<>>
  /\ snapshot = Nobody
  /\ pages = [s \in Pages |-> Nobody]
  /\ audit = <<>>
  /\ fired = 0
  /\ due = [e \in Events |-> 0]
  /\ duplicates = 0
  /\ timeouts = 0
  /\ started = 0
  /\ run = [i \in Runs |-> [pc |-> "off", event |-> 0, mandate |-> NoMandate,
                            agents |-> 0, next |-> 0]]
  /\ request = [j \in Requests |-> [pc |-> "new", want |-> 0, next |-> 0]]
  /\ alone = [i \in Runs |-> FALSE]

Next ==
  \/ Fire
  \/ \E e \in Events : Duplicate(e) \/ Start(e)
  \/ \E i \in Runs : RunStep(i) \/ Timeout(i)
  \/ \E j \in Requests :
       \/ Ask(j)
       \/ GetResearch(j)
       \/ BootstrapSnapshot(j)
       \/ BootstrapResearch(j)
       \/ RequestTimeout(j)

Spec == Init /\ [][Next]_vars

\* What is due is delivered (at least once), and a run that is not killed goes
\* on: its steps wait for nobody.
Fairness ==
  /\ \A e \in Events : WF_vars(Start(e))
  /\ \A i \in Runs : WF_vars(RunStep(i))

FairSpec == Spec /\ Fairness
-----------------------------------------------------------------------------
(* Properties.                                                             *)

TypeOK ==
  /\ \A k \in DOMAIN cycles :
       /\ k \in ({"mandate"} \X Mandates) \cup ({"no-trade"} \X Runs)
       /\ cycles[k] \in [event : Events, mandate : Mandates \cup {NoMandate}]
  /\ snapshot \in Writers
  /\ pages \in [Pages -> Writers]
  /\ DOMAIN audit \subseteq (0..MaxRuns) \X (0..MaxAgentEvents)
  /\ \A k \in DOMAIN audit : audit[k] \in [run : Runs, completed : BOOLEAN]
  /\ fired \in 0..MaxEvents
  /\ due \in [Events -> Nat]
  /\ duplicates \in 0..MaxDuplicates
  /\ timeouts \in 0..MaxTimeouts
  /\ started \in 0..MaxRuns
  /\ run \in [Runs -> [pc : {"off", "done", "dead"} \cup RunSteps,
                       event : 0..MaxEvents,
                       mandate : Mandates \cup {NoMandate},
                       agents : 0..MaxAgentEvents,
                       next : Nat]]
  /\ request \in [Requests -> [pc : {"new", "get_research", "served", "not_found",
                                     "dead"} \cup BootstrapSteps,
                               want : Pages \cup {0},
                               next : Nat]]
  /\ alone \in [Runs -> BOOLEAN]

\* "Writing the same cycle id twice overwrites" (store.py:121-124): however
\* often an event is delivered, retried or followed by another over the same
\* recording, a mandate has one record.
OneRecordPerMandate ==
  \A k, l \in DOMAIN cycles :
    cycles[k].mandate = cycles[l].mandate /\ cycles[k].mandate # NoMandate => k = l

\* The dashboard never shows a cycle that has no record (handler.py:173-183):
\* with a kill between any two puts, the record comes before the snapshot.
SnapshotIsRecorded ==
  snapshot.kind = "run" => CycleId(snapshot.n) \in DOMAIN cycles

\* When a run had the table to itself, and nothing has started to write since,
\* every page the dashboard can reach comes from it, whatever half-finished
\* runs were killed before (handler.py:175-186).
AloneIsComplete ==
  \A i \in Runs :
    run[i].pc = "done" /\ alone[i] =>
      /\ snapshot = ByRun(i)
      /\ \A s \in Pages : pages[s] = ByRun(i)

\* Every run that finished has its completion in the audit trail for good: no
\* replay overwrites it, although rows are put and keyed by time and index.
CompletionsKept ==
  \A i \in Runs :
    run[i].pc = "done" => [run |-> i, completed |-> TRUE] \in Range(audit)

\* An event that fires is decided in the end, by a run that gets through to
\* the audit: neither a timeout at any point nor what earlier runs and
\* requests left in the table stops the retry.
FiredIsDecided ==
  \A e \in Events :
    fired >= e ~> \E i \in Runs : run[i].pc = "done" /\ run[i].event = e

\* "A retried schedule must not produce two records of the same decision"
\* (store.py:123-124).
OneRecordPerDecision ==
  \A k, l \in DOMAIN cycles :
    /\ cycles[k].event = cycles[l].event
    /\ cycles[k].mandate = cycles[l].mandate
    => k = l

\* "Serve a persisted snapshot when one exists, else compute once and save it"
\* (routes.py:591): a request never saves its own over a persisted one.
SavedOnlyWhenMissing ==
  [][snapshot # Nobody /\ snapshot'.kind = "request" => snapshot' = snapshot]_vars
=============================================================================
