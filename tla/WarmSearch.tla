------------------------------ MODULE WarmSearch ------------------------------
(* The warm intro search of one account: the cells that start, poll and cancel *)
(* searches, the route handlers behind them, the row of each search, the       *)
(* knobs charged when it is reserved, and the vendor that runs its queries.   *)
(* A handler is a short process of its own: between two of its steps any other *)
(* handler, the vendor and the person may move, and it may die.                *)
EXTENDS Integers, FiniteSets

CONSTANTS
    Searches,       \* one per press of Search, so one per idempotency key
    MaxPersonas,    \* bound: queries a search fires
    Handlers,       \* requests the server may be running at a time
    None,
    Scenarios,      \* [knobs, pressed, calm, from]: the numbers in force, the
                    \* searches the person makes, whether faults are left out,
                    \* when it begins
    Window,         \* width of a rate window
    Day,            \* width of the rolling day
    MaxTime,        \* bound: the clock stops here
    MaxFaults       \* bound: crashes, lost calls and repeated deliveries

VARIABLES
    knobs,       \* rate bounds (concurrent, units), daily cap, personas
    rows,        \* warm_searches: None or [status, runs, results, created]
    units,       \* usage_counters of warm.start, by window
    lock,        \* holder of the account's advisory lock
    now,
    handler,     \* what each handler is at: None, or its job and search, the step
                 \* it is before, the runs it holds and (start) when its
                 \* transaction began and which delivery it is
    runs,        \* the vendor: status of each run it has started
    page,        \* the cell behind each search
    deliveries,  \* of each start request
    faults

storeVars == <<rows, units, lock>>
vars == <<knobs, storeVars, now, handler, runs, page, deliveries, faults>>

Statuses == {"running", "done", "failed", "cancelled"}
Pages == {"confirm", "asked", "watching", "idle"}
    \* idle: told the outcome, refused, cancelled, reopened or closed

\* A vendor run is named by the delivery of the search that started it.
Run == [search : Searches, delivery : 1..(MaxFaults + 1), persona : 1..MaxPersonas]
RunStatuses == {None, "going", "succeeded", "failed", "aborted"}

Row == [status : Statuses, runs : SUBSET Run, results : SUBSET Run,
        created : 0..MaxTime]

Process ==
    [job : {"start", "poll", "cancel"}, search : Searches,
     at : {"lock", "check", "insert", "vendor", "read", "ask", "land", "abort",
           "flip", "fail"},
     held : SUBSET Run, asof : 0..MaxTime, delivery : 0..(MaxFaults + 1)]

Knobs == [concurrent : Nat, units : Nat, daily : Nat, personas : 0..MaxPersonas]

ASSUME WarmAssumption ==
    /\ IsFiniteSet(Searches)
    /\ MaxPersonas \in Nat /\ MaxTime \in Nat /\ MaxFaults \in Nat
    /\ Window \in Nat \ {0} /\ Day \in Nat \ {0}
    /\ \A scenario \in Scenarios :
          scenario.knobs \in Knobs /\ scenario.from \in 0..MaxTime

ASSUME NoneAssumption == None \notin Handlers \cup Row \cup Process

WindowOf(t) == t \div Window
CreatedIn(from, to) ==
    {s \in Searches : rows[s] # None /\ rows[s].created \in from..to}
Running == {s \in Searches : rows[s] # None /\ rows[s].status = "running"}

-------------------------------------------------------------------------------
(* Handlers. *)

At(h, job, step) ==
    handler[h] # None /\ handler[h].job = job /\ handler[h].at = step
Mine(h) == handler[h].search
Held(h) == handler[h].held
Goto(h, step) == handler' = [handler EXCEPT ![h].at = step]
Take(h, step, held) ==
    handler' = [handler EXCEPT ![h].at = step, ![h].held = held]
End(h) == handler' = [handler EXCEPT ![h] = None]

Begin(h, job, s, step) ==
    /\ handler[h] = None
    /\ handler' = [handler EXCEPT ![h] =
          [job |-> job, search |-> s, at |-> step, held |-> {},
           asof |-> IF job = "start" THEN now ELSE 0, delivery |-> deliveries'[s]]]

\* The cell that waits for this answer shows what it says.
Tell(s, from, status) ==
    page' = IF page[s] # from THEN page
            ELSE [page EXCEPT ![s] = IF status = "running" THEN "watching" ELSE "idle"]

Fault == faults < MaxFaults /\ faults' = faults + 1

-------------------------------------------------------------------------------
(* The cell: search, poll, cancel, leave. *)

Search(h, s) ==
    /\ page[s] = "confirm"
    /\ page' = [page EXCEPT ![s] = "asked"]
    /\ deliveries' = [deliveries EXCEPT ![s] = 1]
    /\ Begin(h, "start", s, "lock")
    /\ UNCHANGED <<knobs, storeVars, now, runs, faults>>

\* The network delivers the start request once more.
Redeliver(h, s) ==
    /\ page[s] = "asked"
    /\ deliveries' = [deliveries EXCEPT ![s] = @ + 1]
    /\ Begin(h, "start", s, "lock")
    /\ Fault
    /\ UNCHANGED <<knobs, storeVars, now, runs, page>>

Poll(h, s) ==
    /\ page[s] = "watching"
    /\ UNCHANGED deliveries
    /\ Begin(h, "poll", s, "read")
    /\ UNCHANGED <<knobs, storeVars, now, runs, page, faults>>

Cancel(h, s) ==
    /\ page[s] = "watching"
    /\ page' = [page EXCEPT ![s] = "idle"]
    /\ UNCHANGED deliveries
    /\ Begin(h, "cancel", s, "read")
    /\ UNCHANGED <<knobs, storeVars, now, runs, faults>>

\* The tab closes, or the popover is opened afresh: nothing polls any more.
Leave(s) ==
    /\ page[s] \in {"asked", "watching"}
    /\ page' = [page EXCEPT ![s] = "idle"]
    /\ UNCHANGED <<knobs, storeVars, now, handler, runs, deliveries, faults>>

-------------------------------------------------------------------------------
(* app_start_warm_search. now() is the instant the transaction began, which is *)
(* before it had the lock.                                                     *)

\* Mutant of Lock: the advisory lock is not taken.
LockFree(h) ==
    /\ At(h, "start", "lock")
    /\ Goto(h, "check")
    /\ UNCHANGED <<knobs, storeVars, now, runs, page, deliveries, faults>>

Lock(h) ==
    /\ At(h, "start", "lock")
    /\ lock = None
    /\ lock' = h
    /\ Goto(h, "check")
    /\ UNCHANGED <<knobs, rows, units, now, runs, page, deliveries, faults>>

Unlock(h) == lock' = IF lock = h THEN None ELSE lock

Committed(h) ==
    /\ Unlock(h)
    /\ handler' = [handler EXCEPT ![h].at = "vendor", ![h].asof = 0]

\* A key that is on record answers with the row as it was when it was made.
Replay(h) ==
    /\ At(h, "start", "check")
    /\ rows[Mine(h)] # None
    /\ Committed(h)
    /\ UNCHANGED <<knobs, rows, units, now, runs, page, deliveries, faults>>

Admitted(h) ==
    LET asof == handler[h].asof IN
    /\ Cardinality(Running) < knobs.concurrent
    /\ units[WindowOf(asof)] < knobs.units
    /\ Cardinality(CreatedIn(asof - Day + 1, MaxTime)) < knobs.daily

\* The refusal rolls its own charge back.
Refuse(h) ==
    /\ At(h, "start", "check")
    /\ rows[Mine(h)] = None
    /\ ~Admitted(h)
    /\ Unlock(h)
    /\ End(h)
    /\ page' = IF page[Mine(h)] = "asked"
               THEN [page EXCEPT ![Mine(h)] = "idle"] ELSE page
    /\ UNCHANGED <<knobs, rows, units, now, runs, deliveries, faults>>

Admit(h) ==
    /\ At(h, "start", "check")
    /\ rows[Mine(h)] = None
    /\ Admitted(h)
    /\ Goto(h, "insert")
    /\ UNCHANGED <<knobs, storeVars, now, runs, page, deliveries, faults>>

Reserve(h) ==
    LET asof == handler[h].asof IN
    /\ At(h, "start", "insert")
    /\ rows' = [rows EXCEPT ![Mine(h)] =
                  [status |-> "running", runs |-> {}, results |-> {}, created |-> asof]]
    /\ units' = [units EXCEPT ![WindowOf(asof)] = @ + 1]
    /\ Committed(h)
    /\ UNCHANGED <<knobs, now, runs, page, deliveries, faults>>

-------------------------------------------------------------------------------
(* The rest of a start: one vendor run per persona, then the attach. *)

AllStarted(h) == Cardinality(Held(h)) = knobs.personas

NextRun(h) == [search |-> Mine(h), delivery |-> handler[h].delivery,
               persona |-> Cardinality(Held(h)) + 1]

StartRun(h) ==
    /\ At(h, "start", "vendor")
    /\ ~AllStarted(h)
    /\ runs' = [runs EXCEPT ![NextRun(h)] = "going"]
    /\ Take(h, "vendor", Held(h) \cup {NextRun(h)})
    /\ UNCHANGED <<knobs, storeVars, now, page, deliveries, faults>>

\* The call fails, or its answer is lost and the run is started all the same.
StartRunFails(h) ==
    /\ At(h, "start", "vendor")
    /\ ~AllStarted(h)
    /\ \/ UNCHANGED runs
       \/ runs' = [runs EXCEPT ![NextRun(h)] = "going"]
    /\ Goto(h, "abort")
    /\ Fault
    /\ UNCHANGED <<knobs, storeVars, now, page, deliveries>>

\* Aborting is best effort, and no news to a run that has ended.
Aborting(rs) ==
    \E lost \in SUBSET rs :
      /\ runs' = [r \in Run |-> IF r \in rs \ lost /\ runs[r] = "going"
                                THEN "aborted" ELSE runs[r]]
      /\ IF lost = {} THEN UNCHANGED faults ELSE Fault

AbortStarted(h) ==
    /\ At(h, "start", "abort")
    /\ Aborting(Held(h))
    /\ Goto(h, "fail")
    /\ UNCHANGED <<knobs, storeVars, now, page, deliveries>>

\* Mutant of Land: the status is not looked at again under the row's lock.
LandAnyway(s, row) == rows' = [rows EXCEPT ![s] = row]

\* Only a running row moves, and what a caller is told is the row.
Land(s, row) == rows' = IF rows[s].status = "running"
                        THEN [rows EXCEPT ![s] = row] ELSE rows

Attach(h) ==
    /\ At(h, "start", "vendor")
    /\ AllStarted(h)
    /\ Land(Mine(h), [rows[Mine(h)] EXCEPT !.runs = Held(h)])
    /\ Tell(Mine(h), "asked", rows'[Mine(h)].status)
    /\ End(h)
    /\ UNCHANGED <<knobs, units, lock, now, runs, deliveries, faults>>

\* An attach the store refuses is not a throw: the cell is told of a running search.
AttachLost(h) ==
    /\ At(h, "start", "vendor")
    /\ AllStarted(h)
    /\ Tell(Mine(h), "asked", "running")
    /\ End(h)
    /\ Fault
    /\ UNCHANGED <<knobs, storeVars, now, runs, deliveries>>

Failed(h, from) ==
    /\ Land(Mine(h), [rows[Mine(h)] EXCEPT !.status = "failed"])
    /\ Tell(Mine(h), from, rows'[Mine(h)].status)
    /\ End(h)
    /\ UNCHANGED <<knobs, units, lock, now, runs, deliveries, faults>>

StartFailed(h) == At(h, "start", "fail") /\ Failed(h, "asked")

-------------------------------------------------------------------------------
(* A poll: read the row, ask the vendor about every run on it, land the answer. *)

PollRead(h) ==
    /\ At(h, "poll", "read")
    /\ LET row == rows[Mine(h)] IN
       IF row.status = "running" /\ row.runs # {}
       THEN Take(h, "ask", row.runs) /\ UNCHANGED page
       ELSE End(h) /\ Tell(Mine(h), "watching", row.status)
    /\ UNCHANGED <<knobs, storeVars, now, runs, deliveries, faults>>

\* Mutant of Succeeded: one persona that has answered is enough to rank.
SucceededInPart(h) == \E r \in Held(h) : runs[r] = "succeeded"

Succeeded(h) == \A r \in Held(h) : runs[r] = "succeeded"

PollSucceeded(h) ==
    /\ At(h, "poll", "ask")
    /\ Succeeded(h)
    /\ Goto(h, "land")
    /\ UNCHANGED <<knobs, storeVars, now, runs, page, deliveries, faults>>

\* The runs are asked in turn and the first that has not succeeded decides.
PollGoing(h) ==
    /\ At(h, "poll", "ask")
    /\ \E r \in Held(h) : runs[r] = "going"
    /\ End(h)
    /\ UNCHANGED <<knobs, storeVars, now, runs, page, deliveries, faults>>

\* Mutant of PollFailed: a run that will never succeed is waited for.
PollFailedWaits(h) ==
    /\ At(h, "poll", "ask")
    /\ \E r \in Held(h) : runs[r] \in {"failed", "aborted"}
    /\ End(h)
    /\ UNCHANGED <<knobs, storeVars, now, runs, page, deliveries, faults>>

PollFailed(h) ==
    /\ At(h, "poll", "ask")
    /\ \E r \in Held(h) : runs[r] \in {"failed", "aborted"}
    /\ Goto(h, "fail")
    /\ UNCHANGED <<knobs, storeVars, now, runs, page, deliveries, faults>>

\* The vendor does not answer: the next poll asks again.
PollLost(h) ==
    /\ At(h, "poll", "ask")
    /\ End(h)
    /\ Fault
    /\ UNCHANGED <<knobs, storeVars, now, runs, page, deliveries>>

Complete(h) ==
    /\ At(h, "poll", "land")
    /\ Land(Mine(h), [rows[Mine(h)] EXCEPT !.status = "done", !.results = Held(h)])
    /\ Tell(Mine(h), "watching", rows'[Mine(h)].status)
    /\ End(h)
    /\ UNCHANGED <<knobs, units, lock, now, runs, deliveries, faults>>

PollFails(h) == At(h, "poll", "fail") /\ Failed(h, "watching")

-------------------------------------------------------------------------------
(* A cancel: abort the vendor's runs first, then flip the row. *)

CancelRead(h) ==
    /\ At(h, "cancel", "read")
    /\ Take(h, "abort", rows[Mine(h)].runs)
    /\ UNCHANGED <<knobs, storeVars, now, runs, page, deliveries, faults>>

CancelRuns(h) ==
    /\ At(h, "cancel", "abort")
    /\ Aborting(Held(h))
    /\ Goto(h, "flip")
    /\ UNCHANGED <<knobs, storeVars, now, page, deliveries>>

CancelRow(h) ==
    /\ At(h, "cancel", "flip")
    /\ Land(Mine(h), [rows[Mine(h)] EXCEPT !.status = "cancelled"])
    /\ End(h)
    /\ UNCHANGED <<knobs, units, lock, now, runs, page, deliveries, faults>>

-------------------------------------------------------------------------------
(* The world. *)

\* The handler dies: an open transaction is rolled back and its lock released.
Crash(h) ==
    /\ handler[h] # None
    /\ Unlock(h)
    /\ page' = IF handler[h].job = "start" /\ page[Mine(h)] = "asked"
               THEN [page EXCEPT ![Mine(h)] = "idle"] ELSE page
    /\ End(h)
    /\ Fault
    /\ UNCHANGED <<knobs, rows, units, now, runs, deliveries>>

VendorEnds(r) ==
    /\ runs[r] = "going"
    /\ \E end \in {"succeeded", "failed"} : runs' = [runs EXCEPT ![r] = end]
    /\ UNCHANGED <<knobs, storeVars, now, handler, page, deliveries, faults>>

Tick ==
    /\ now < MaxTime
    /\ now' = now + 1
    /\ UNCHANGED <<knobs, storeVars, handler, runs, page, deliveries, faults>>

-------------------------------------------------------------------------------

Init ==
    /\ \E scenario \in Scenarios :
         /\ knobs = scenario.knobs
         /\ page = [s \in Searches |->
                      IF s \in scenario.pressed THEN "confirm" ELSE "idle"]
         /\ faults = IF scenario.calm THEN MaxFaults ELSE 0
         /\ now = scenario.from
    /\ rows = [s \in Searches |-> None]
    /\ units = [w \in 0..WindowOf(MaxTime) |-> 0]
    /\ lock = None
    /\ handler = [h \in Handlers |-> None]
    /\ runs = [r \in Run |-> None]
    /\ deliveries = [s \in Searches |-> 0]

Start(h) ==
    \/ Lock(h) \/ Replay(h) \/ Refuse(h) \/ Admit(h) \/ Reserve(h)
    \/ StartRun(h) \/ StartRunFails(h) \/ AbortStarted(h)
    \/ Attach(h) \/ AttachLost(h) \/ StartFailed(h)

PollStep(h) ==
    \/ PollRead(h) \/ PollSucceeded(h) \/ PollGoing(h) \/ PollFailed(h)
    \/ PollLost(h) \/ Complete(h) \/ PollFails(h)

CancelStep(h) == CancelRead(h) \/ CancelRuns(h) \/ CancelRow(h)

Serve(h) == Start(h) \/ PollStep(h) \/ CancelStep(h)

Next ==
    \/ \E h \in Handlers, s \in Searches :
          Search(h, s) \/ Redeliver(h, s) \/ Poll(h, s) \/ Cancel(h, s)
    \/ \E s \in Searches : Leave(s)
    \/ \E h \in Handlers : Serve(h) \/ Crash(h)
    \/ \E r \in Run : VendorEnds(r)
    \/ Tick

Spec == Init /\ [][Next]_vars

(* A handler that is running goes on, the vendor ends what it has started, and *)
(* the cell's timer polls for as long as it watches. The server has no bound   *)
(* on its handlers, so a poll that waits for one of ours to come free gets it. *)
Fairness ==
    /\ \A h \in Handlers : WF_vars(Serve(h))
    /\ \A r \in Run : WF_vars(VendorEnds(r))
    /\ \A s \in Searches : SF_vars(\E h \in Handlers : Poll(h, s))

FairSpec == Spec /\ Fairness

-------------------------------------------------------------------------------
(* Properties. *)

\* Every variable keeps the shape of the table, request or page it stands for.
TypeOK ==
    /\ knobs \in Knobs
    /\ rows \in [Searches -> Row \cup {None}]
    /\ units \in [0..WindowOf(MaxTime) -> Nat]
    /\ lock \in Handlers \cup {None}
    /\ now \in 0..MaxTime
    /\ handler \in [Handlers -> Process \cup {None}]
    /\ runs \in [Run -> RunStatuses]
    /\ page \in [Searches -> Pages]
    /\ deliveries \in [Searches -> 0..(MaxFaults + 1)]
    /\ faults \in 0..MaxFaults

(* However many starts race, no bound is passed: not the number of running     *)
(* searches, not the charges of a rate window, not the searches of any rolling *)
(* day. Each start is counted at the instant its transaction began, and those  *)
(* instants need not be in the order of the inserts (app_start_warm_search).   *)
CapsHold ==
    /\ Cardinality(Running) <= knobs.concurrent
    /\ \A t \in 0..MaxTime :
         /\ Cardinality(CreatedIn(t - Day + 1, t)) <= knobs.daily
         /\ Cardinality({s \in CreatedIn(0, MaxTime) :
                           WindowOf(rows[s].created) = WindowOf(t)}) <= knobs.units

(* What a search returns is ranked from all of its personas, from runs of one  *)
(* delivery that each succeeded: never half of them, never another search's    *)
(* (HarvestApiVendor.poll, reconstructHandle).                                 *)
ResultsComplete ==
    \A s \in Searches : rows[s] # None /\ rows[s].status = "done" =>
        /\ {r.persona : r \in rows[s].results} = 1..knobs.personas
        /\ Cardinality({r.delivery : r \in rows[s].results}) = 1
        /\ \A r \in rows[s].results : r.search = s /\ runs[r] = "succeeded"

(* A search ends once: after a cancel, a result or a failure no late poll,     *)
(* attach, failure or second cancel changes its row (the transitions of 0020). *)
EndsOnce ==
    [][\A s \in Searches : rows[s] # None /\ rows[s].status # "running" =>
          rows'[s] = rows[s]]_vars

(* A cell that goes on watching a search whose runs are attached is told how   *)
(* it ended. The cell is the only thing that moves the search, so it has to    *)
(* stay for that; and a search that never got its runs only a cancel can end.  *)
WatchedEnds ==
    \A s \in Searches :
        (page[s] = "watching" /\ (s \in Running => rows[s].runs # {}))
            ~> page[s] # "watching"
===============================================================================
