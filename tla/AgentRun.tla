------------------------------- MODULE AgentRun -------------------------------
(***************************************************************************)
(* BaseAgent.run: attempts of one agent run, their route levels, and the   *)
(* usage the run books.  Runs of one process that are routed to the same   *)
(* evidence share one cached provider adapter and its usage counter; they  *)
(* interleave only while a request is awaited.  Usage is counted in        *)
(* requests the adapter has recorded.                                      *)
(***************************************************************************)
EXTENDS Naturals

CONSTANTS
  Run,           \* runs that may be active at the same time
  MaxRetries     \* max_retries of the agents

ASSUME RetriesAssumption == MaxRetries \in Nat

VARIABLES
  runs,          \* the local state of each run
  recorded       \* the usage counter of the shared adapter

runVars == <<runs, recorded>>

\* FAST, BALANCED, three flagship levels and the two reviews.
Level == 1..7

Executable == 1..5

Status == {"RUNNING", "SUCCEEDED", "ESCALATED", "HUMAN_REVIEW"}

\* base is the level the task profile asks for; executed counts attempts that
\* reached a provider, trace is the level of the last of them, 0 for none;
\* before is the counter when the attempt began and booked the token usage.
\* own counts the requests recorded for this run and at is the level of the
\* last request it has issued.
RunState ==
  [phase : {"idle", "route", "bind", "await", "ended"}, status : Status,
   base : Executable, attempt : Nat, executed : Nat, trace : {0} \cup Executable,
   before : Nat, booked : Nat, own : Nat, at : {0} \cup Executable]

NewRun(base) ==
  [phase |-> "route", status |-> "RUNNING", base |-> base, attempt |-> 1,
   executed |-> 0, trace |-> 0, before |-> 0, booked |-> 0, own |-> 0, at |-> 0]

RunInit ==
  /\ runs = [r \in Run |-> [NewRun(1) EXCEPT !.phase = "idle"]]
  /\ recorded = 0

-----------------------------------------------------------------------------

RunIn(r, phase) == runs[r].phase = phase

RunGoes(r, k) == runs' = [runs EXCEPT ![r] = k]

\* The second attempt is the one retry on the same level.
RetryCount(attempt) == IF attempt < 2 THEN 0 ELSE attempt - 2

\* ModelRouter._base_level
RouteLevel(k) ==
  LET level == k.base + RetryCount(k.attempt) IN IF level > 7 THEN 7 ELSE level

End(k, status) == [k EXCEPT !.phase = "ended", !.status = status]

\* max_retries retries after the second attempt.
FailedBug(k) ==
  IF k.attempt > MaxRetries + 1 THEN End(k, "ESCALATED")
  ELSE [k EXCEPT !.phase = "route", !.attempt = @ + 1]

\* A failed attempt is followed by the next one, or by the end of the run.
Failed(k) ==
  IF k.attempt > MaxRetries THEN End(k, "ESCALATED")
  ELSE [k EXCEPT !.phase = "route", !.attempt = @ + 1]

Start(r) ==
  /\ RunIn(r, "idle")
  /\ \E base \in Executable : RunGoes(r, NewRun(base))
  /\ UNCHANGED recorded

\* A multi-model review is routed again, with the same retry count.
RouteRunBug(r) ==
  LET k == runs[r]
  IN /\ RunIn(r, "route")
     /\ \/ RouteLevel(k) = 6 /\ RunGoes(r, k)
        \/ RouteLevel(k) = 7 /\ RunGoes(r, End(k, "HUMAN_REVIEW"))
        \/ RouteLevel(k) \in Executable /\ RunGoes(r, [k EXCEPT !.phase = "bind"])
     /\ UNCHANGED recorded

\* The reviews come from the level, or from a registry without an eligible model.
RouteRun(r) ==
  LET k == runs[r]
  IN /\ RunIn(r, "route")
     /\ \/ RouteLevel(k) = 6 /\ RunGoes(r, End(k, "ESCALATED"))
        \/ RouteLevel(k) # 6 /\ RunGoes(r, End(k, "HUMAN_REVIEW"))
        \/ RouteLevel(k) \in Executable /\ RunGoes(r, [k EXCEPT !.phase = "bind"])
     /\ UNCHANGED recorded

\* providers.get returned the adapter; the request is issued before control
\* is given up.
Bind(r) ==
  /\ RunIn(r, "bind")
  /\ RunGoes(r, [runs[r] EXCEPT !.phase = "await", !.before = recorded,
                                !.executed = @ + 1, !.trace = RouteLevel(runs[r]),
                                !.at = RouteLevel(runs[r])])
  /\ UNCHANGED recorded

\* The input, the binding or the guard raises before a request is issued.
BindFails(r) ==
  /\ RunIn(r, "bind")
  /\ \/ RunGoes(r, Failed(runs[r]))
     \/ RunGoes(r, Failed([runs[r] EXCEPT !.executed = @ + 1, !.trace = RouteLevel(runs[r])]))
  /\ UNCHANGED recorded

Book(k, requests) == [k EXCEPT !.booked = @ + requests]

\* Attempts that return no response book nothing.
UsageDeltaBug(k, counter) == 0

\* BaseAgent._usage_delta
UsageDelta(k, counter) == counter - k.before

\* The exchange fails before the adapter records it.
RequestLost(r) ==
  /\ RunIn(r, "await")
  /\ RunGoes(r, Failed(Book(runs[r], UsageDelta(runs[r], recorded))))
  /\ UNCHANGED recorded

\* The body is recorded and then refused, inside the adapter.
ResponseMalformed(r) ==
  /\ RunIn(r, "await")
  /\ recorded' = recorded + 1
  /\ RunGoes(r, Failed(Book([runs[r] EXCEPT !.own = @ + 1],
                            UsageDelta(runs[r], recorded + 1))))

\* The response is refused by the agent: schema, state or trace.
ResponseRefused(r) ==
  /\ RunIn(r, "await")
  /\ recorded' = recorded + 1
  /\ RunGoes(r, Failed(Book([runs[r] EXCEPT !.own = @ + 1], 1)))

ResponseAccepted(r) ==
  /\ RunIn(r, "await")
  /\ recorded' = recorded + 1
  /\ RunGoes(r, End(Book([runs[r] EXCEPT !.own = @ + 1], 1), "SUCCEEDED"))

Progress(r) ==
  \/ RouteRun(r)
  \/ Bind(r) \/ BindFails(r)
  \/ RequestLost(r) \/ ResponseMalformed(r) \/ ResponseRefused(r) \/ ResponseAccepted(r)

AllEnded == (\A r \in Run : RunIn(r, "ended")) /\ UNCHANGED runVars

RunNext ==
  \/ \E r \in Run : Start(r) \/ Progress(r)
  \/ AllEnded

RunSpec == RunInit /\ [][RunNext]_runVars

\* The event loop resumes a run, and every request has a total time-out.
FairSpec == RunSpec /\ \A r \in Run : WF_runVars(Progress(r))

-----------------------------------------------------------------------------

Smaller(m, n) == IF m < n THEN m ELSE n

\* Every variable has its type; a run without an executed attempt has no trace.
RunTypeOK ==
  /\ runs \in [Run -> RunState]
  /\ recorded \in Nat
  /\ \A r \in Run : runs[r].executed = 0 <=> runs[r].trace = 0

\* No request of a run is left out of its usage, whichever way it failed and
\* whatever other runs do to the shared counter.
UsageCoversRequests == \A r \in Run : runs[r].own <= runs[r].booked

\* A run executes at most once per attempt, at most twice on its first level
\* and once on each higher one, whatever max_retries is.
ExecutionsAreBounded ==
  \A r \in Run :
    runs[r].executed <= Smaller(MaxRetries + 1, 7 - runs[r].base)

\* Only a run that could have escalated no further, or has used its last
\* attempt, ends as ESCALATED.
EscalationIsExhausted ==
  \A r \in Run : runs[r].status = "ESCALATED" =>
    runs[r].attempt = Smaller(MaxRetries + 1, 8 - runs[r].base)

\* "retain the last executed route when a later route requires human review":
\* a run names the level of its last request, also when it ends in a review.
TraceIsLastRequest ==
  \A r \in Run : runs[r].trace >= runs[r].at

\* Every run comes to an end.
RunsEnd == \A r \in Run : RunIn(r, "route") ~> RunIn(r, "ended")
===============================================================================
