------------------------------- MODULE WideSweep -------------------------------
(* The TheirStack lane of the wide sweep (monitor.wide): a request for what was  *)
(* discovered since a cursor, at most a budget of it and in no order, whose rows *)
(* go to the Feed before the cursor moves.                                       *)
EXTENDS Integers, FiniteSets

CONSTANTS
    Jobs,            \* jobs the vendor may discover
    Titled,          \* those whose title the person's filter wants
    Budgets,         \* what a request may buy (wide_credit_budget, read by each run)
    FirstWindow,     \* days the first request looks back
    MaxDay,          \* bound: days that pass
    MaxBadRows,      \* bound: malformed rows the vendor sends
    MaxSweepFaults   \* bound: runs killed, and cursor writes that fail

ASSUME WideAssumption ==
    /\ IsFiniteSet(Jobs) /\ Titled \subseteq Jobs
    /\ Budgets \subseteq Nat \ {0} /\ FirstWindow \in Nat

VARIABLES
    day,             \* the vendor's clock
    discovered,      \* the day each job was discovered, 0 before
    feedJobs,        \* jobs with a row in the Feed
    wideCursor,      \* Config[wide_theirstack_cursor], 0 when unset
    sweeping,        \* the run of the job; its workflow admits one at a time
    badRows, sweepFaults

wideVars == <<day, discovered, feedJobs, wideCursor, sweeping, badRows, sweepFaults>>

Resting == [at |-> "idle"]

-------------------------------------------------------------------------------

\* The vendor. A job is in the answers from the day it is stamped with.
DayPasses ==
    /\ day < MaxDay
    /\ day' = day + 1
    /\ UNCHANGED <<discovered, feedJobs, wideCursor, sweeping, badRows, sweepFaults>>

Discover(j) ==
    /\ discovered[j] = 0
    /\ discovered' = [discovered EXCEPT ![j] = day]
    /\ UNCHANGED <<day, feedJobs, wideCursor, sweeping, badRows, sweepFaults>>

\* The first bound, and the bound for as long as no cursor is written.
DefaultCursor == IF day > FirstWindow THEN day - FirstWindow ELSE 1

StartWide ==
    /\ sweeping.at = "idle"
    /\ \E b \in Budgets :
          sweeping' = [at |-> "fetch", budget |-> b, known |-> feedJobs,
                       since |-> IF wideCursor = 0 THEN DefaultCursor ELSE wideCursor]
    /\ UNCHANGED <<day, discovered, feedJobs, wideCursor, badRows, sweepFaults>>

\* A request that fails is logged, and the run has nothing to add or to move.
FetchFails ==
    /\ sweeping.at = "fetch"
    /\ sweeping' = Resting
    /\ UNCHANGED <<day, discovered, feedJobs, wideCursor, badRows, sweepFaults>>

Window == {j \in Jobs : discovered[j] >= sweeping.since}

\* Mutant of Truncated: a full page is a whole window.
TruncatedNever(size) == FALSE

Truncated(size) == size >= sweeping.budget

PageSize(matches) == IF matches < sweeping.budget THEN matches ELSE sweeping.budget

\* The page is mapped row by row; all its rows move the bound, those with a wanted
\* title that the Feed lacks are news. A malformed row ends the mapping where it
\* stands, and what was mapped before it stands too.
FetchPage ==
    /\ sweeping.at = "fetch"
    /\ \E bad \in {0, 1}, page, mapped \in SUBSET Window :
          /\ badRows + bad <= MaxBadRows
          /\ Cardinality(page) + bad = PageSize(Cardinality(Window) + bad)
          /\ mapped \subseteq page
          /\ bad = 0 => mapped = page
          /\ badRows' = badRows + bad
          /\ LET stamps == {sweeping.since} \cup {discovered[j] : j \in mapped} IN
             \E newest \in stamps :
                /\ \A stamp \in stamps : stamp <= newest
                /\ sweeping' =
                      [at |-> "append", since |-> sweeping.since, upto |-> newest,
                       news |-> (mapped \cap Titled) \ sweeping.known,
                       full |-> Truncated(Cardinality(page) + bad),
                       spoilt |-> mapped # page]
    /\ UNCHANGED <<day, discovered, feedJobs, wideCursor, sweepFaults>>

AppendNews ==
    /\ sweeping.at = "append"
    /\ feedJobs' = feedJobs \cup sweeping.news
    /\ sweeping' = [sweeping EXCEPT !.at = "park"]
    /\ UNCHANGED <<day, discovered, wideCursor, badRows, sweepFaults>>

ParkCursor ==
    /\ sweeping.at = "park"
    /\ wideCursor' = IF sweeping.upto # sweeping.since /\ ~sweeping.full
                     THEN sweeping.upto ELSE wideCursor
    /\ sweeping' = Resting
    /\ UNCHANGED <<day, discovered, feedJobs, badRows, sweepFaults>>

\* Killed anywhere. A cursor write that fails leaves the run where a kill before
\* the write does.
WideDies ==
    /\ sweeping.at # "idle" /\ sweepFaults < MaxSweepFaults
    /\ sweepFaults' = sweepFaults + 1
    /\ sweeping' = Resting
    /\ UNCHANGED <<day, discovered, feedJobs, wideCursor, badRows>>

-------------------------------------------------------------------------------

WideInit ==
    /\ day = 1
    /\ discovered = [j \in Jobs |-> 0]
    /\ feedJobs = {}
    /\ wideCursor = 0
    /\ sweeping = Resting
    /\ badRows = 0
    /\ sweepFaults = 0

WideNext ==
    \/ DayPasses
    \/ \E j \in Jobs : Discover(j)
    \/ StartWide \/ FetchFails \/ FetchPage \/ AppendNews \/ ParkCursor \/ WideDies

WideSpec == WideInit /\ [][WideNext]_wideVars

-------------------------------------------------------------------------------

\* Wanted jobs that a move of the cursor leaves behind: discovered in the window,
\* before the new cursor, and in no row of the Feed.
LeftBehind ==
    {j \in Titled : /\ discovered[j] >= sweeping.since
                    /\ discovered[j] < wideCursor'
                    /\ j \notin feedJobs}

\* The cursor never passes a wanted job that has no row (monitor/wide.py: "the
\* next run re-reads the same window instead of losing jobs"), whatever the budget
\* cuts off, in whatever order the jobs come and wherever the run is killed. That a
\* malformed row may make it do so is a matter of its own.
CursorPassesOnlyStored ==
    [][wideCursor' # wideCursor /\ ~sweeping.spoilt => LeftBehind = {}]_wideVars
===============================================================================
