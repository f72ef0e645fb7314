--------------------------- MODULE WarmSearchProofs ---------------------------
(* The bounds on warm searches hold, and a search ends once, for any number of *)
(* searches and handlers and any faults.                                       *)
EXTENDS WarmSearch, FiniteSetTheorems, TLAPS

-------------------------------------------------------------------------------
(* The inductive invariant. *)

InLock(h) == At(h, "start", "check") \/ At(h, "start", "insert")
Starting(h) == handler[h] # None /\ handler[h].job = "start"

\* The search of h has its row: h is past the commit, or was begun by a cell
\* that had been told of the row.
Reserved(h) ==
    /\ handler[h] # None
    /\ handler[h].job = "start" => handler[h].at \in {"vendor", "abort", "fail"}

LockHeld(h) == InLock(h) <=> lock = h
RowKnown(h) == Reserved(h) => rows[Mine(h)] # None

\* Between the check and the insert nothing else can pass a bound.
Cleared(h) == At(h, "start", "insert") => rows[Mine(h)] = None /\ Admitted(h)

\* What a start holds are the runs of its own delivery, counted up.
OwnRuns(h, n) ==
    {[search |-> Mine(h), delivery |-> handler[h].delivery, persona |-> p] : p \in 1..n}
HoldsOwn(h) ==
    Starting(h) =>
        /\ handler[h].delivery \in 1..(MaxFaults + 1)
        /\ IsFiniteSet(Held(h))
        /\ Cardinality(Held(h)) \in 0..knobs.personas
        /\ Held(h) = OwnRuns(h, Cardinality(Held(h)))

Good(h) == LockHeld(h) /\ RowKnown(h) /\ Cleared(h) /\ HoldsOwn(h)

WatchedKnown == \A s \in Searches : page[s] = "watching" => rows[s] # None
DeliveriesCounted == \A s \in Searches : deliveries[s] <= faults + 1

InWindow(w) == {s \in Searches : rows[s] # None /\ WindowOf(rows[s].created) = w}
UnitsCounted ==
    \A w \in 0..WindowOf(MaxTime) :
        units[w] = Cardinality(InWindow(w)) /\ units[w] <= knobs.units

WarmInv ==
    /\ TypeOK
    /\ \A h \in Handlers : Good(h)
    /\ WatchedKnown /\ DeliveriesCounted
    /\ UnitsCounted
    /\ CapsHold

-------------------------------------------------------------------------------

LEMMA WindowInRange ==
    ASSUME NEW t \in 0..MaxTime
    PROVE  WindowOf(t) \in 0..WindowOf(MaxTime)
<1>1. MaxTime \in Nat /\ Window \in Nat /\ Window > 0 /\ t \in Nat /\ t <= MaxTime
  BY WarmAssumption
<1> DEFINE q == t \div Window
           m == MaxTime \div Window
<1>2. q \in Int /\ Window * q <= t /\ t < Window * q + Window
  BY <1>1
<1>3. m \in Int /\ Window * m <= MaxTime /\ MaxTime < Window * m + Window
  BY <1>1
<1> HIDE DEF q, m
<1>4. 0 <= q
  BY <1>1, <1>2
<1>5. q <= m
  <2> SUFFICES ASSUME m + 1 <= q  PROVE FALSE
    BY <1>2, <1>3
  <2>1. Window * (m + 1) <= Window * q
    BY <1>1, <1>2, <1>3
  <2>2. Window * (m + 1) = Window * m + Window
    BY <1>1, <1>3
  <2> QED  BY <1>1, <1>2, <1>3, <2>1, <2>2
<1> QED  BY <1>2, <1>3, <1>4, <1>5 DEF WindowOf, q, m

LEMMA SearchSetsFinite ==
    ASSUME NEW S, S \subseteq Searches
    PROVE  IsFiniteSet(S) /\ Cardinality(S) \in Nat
<1>1. IsFiniteSet(S)
  BY WarmAssumption, FS_Subset
<1> QED  BY <1>1, FS_CardinalityType

LEMMA SmallerSet ==
    ASSUME NEW S, NEW T, S \subseteq T, T \subseteq Searches
    PROVE  Cardinality(S) <= Cardinality(T)
<1>1. IsFiniteSet(T)
  BY SearchSetsFinite
<1> QED  BY <1>1, FS_Subset

\* Rows that are neither made nor unmade, and never run again.
RowsOnlySettle ==
    /\ UNCHANGED <<knobs, units>>
    /\ \A s \in Searches :
         /\ rows'[s] = None <=> rows[s] = None
         /\ rows[s] # None =>
              /\ rows'[s].created = rows[s].created
              /\ rows'[s].status = "running" => rows[s].status = "running"

\* They keep every bound that held, and whom the bounds admitted they admit.
LEMMA SettlingKeepsCaps ==
    ASSUME WarmInv, RowsOnlySettle
    PROVE  /\ CapsHold' /\ UnitsCounted'
           /\ \A h \in Handlers :
                 Admitted(h) /\ handler'[h] = handler[h] => Admitted(h)'
<1>1. Running' \subseteq Running
  BY DEF RowsOnlySettle, Running
<1>2. ASSUME NEW from, NEW to  PROVE CreatedIn(from, to)' = CreatedIn(from, to)
  BY DEF RowsOnlySettle, CreatedIn
<1>3. ASSUME NEW w  PROVE InWindow(w)' = InWindow(w)
  BY DEF RowsOnlySettle, InWindow
<1>4. Cardinality(Running') <= Cardinality(Running)
  BY <1>1, SmallerSet DEF Running
<1>5. Cardinality(Running) \in Nat /\ Cardinality(Running') \in Nat
  BY SearchSetsFinite DEF Running
<1>6. knobs' = knobs /\ units' = units /\ knobs \in Knobs
  BY DEF RowsOnlySettle, WarmInv, TypeOK
<1>7. ASSUME NEW t \in 0..MaxTime
      PROVE  {s \in CreatedIn(0, MaxTime) :
                           WindowOf(rows[s].created) = WindowOf(t)}' =
             {s \in CreatedIn(0, MaxTime) :
                           WindowOf(rows[s].created) = WindowOf(t)}
  BY <1>2 DEF RowsOnlySettle, CreatedIn
<1>8. CapsHold'
  <2>1. Cardinality(Running') <= knobs'.concurrent
    BY <1>4, <1>5, <1>6 DEF CapsHold, WarmInv, Knobs
  <2>2. ASSUME NEW t \in 0..MaxTime
        PROVE  /\ Cardinality(CreatedIn(t - Day + 1, t)') <= knobs'.daily
               /\ Cardinality({s \in CreatedIn(0, MaxTime) :
                           WindowOf(rows[s].created) = WindowOf(t)}') <= knobs'.units
    <3>1. /\ Cardinality(CreatedIn(t - Day + 1, t)) <= knobs.daily
          /\ Cardinality({s \in CreatedIn(0, MaxTime) :
                           WindowOf(rows[s].created) = WindowOf(t)}) <= knobs.units
      BY DEF CapsHold, WarmInv
    <3> QED  BY <1>2, <1>6, <1>7, <3>1
  <2> QED  BY <2>1, <2>2 DEF CapsHold
<1>9. UnitsCounted'
  BY <1>3, <1>6 DEF UnitsCounted, WarmInv
<1>10. ASSUME NEW h \in Handlers, Admitted(h), handler'[h] = handler[h]
       PROVE  Admitted(h)'
  BY <1>2, <1>4, <1>5, <1>6, <1>10 DEF Admitted, Knobs
<1> QED  BY <1>8, <1>9, <1>10

\* A step of one handler, or of none: what the others rely on is kept.
LEMMA OthersStayGood ==
    ASSUME WarmInv, RowsOnlySettle, NEW g \in Handlers,
           handler'[g] = handler[g], lock' = g <=> lock = g
    PROVE  Good(g)'
<1>1. Good(g)
  BY DEF WarmInv
<1>2. Mine(g)' = Mine(g) /\ Held(g)' = Held(g) /\ knobs' = knobs
  BY DEF Mine, Held, RowsOnlySettle
<1>3. handler[g] # None => Mine(g) \in Searches
  BY DEF WarmInv, TypeOK, Process, Mine
<1>4. LockHeld(g)'
  BY <1>1 DEF Good, LockHeld, InLock, At
<1>5. RowKnown(g)'
  BY <1>1, <1>2, <1>3 DEF Good, RowKnown, Reserved, RowsOnlySettle
<1>6. Cleared(g)'
  <2>1. Admitted(g) => Admitted(g)'
    BY SettlingKeepsCaps
  <2> QED  BY <1>1, <1>2, <1>3, <2>1 DEF Good, Cleared, At, RowsOnlySettle
<1>7. HoldsOwn(g)'
  BY <1>1, <1>2 DEF Good, HoldsOwn, Starting, OwnRuns
<1> QED  BY <1>4, <1>5, <1>6, <1>7 DEF Good

LEMMA OneMoves ==
    ASSUME WarmInv, RowsOnlySettle, TypeOK', WatchedKnown', DeliveriesCounted',
           NEW h \in Handlers, Good(h)',
           \A g \in Handlers \ {h} : handler'[g] = handler[g] /\ (lock' = g <=> lock = g)
    PROVE  WarmInv'
<1>1. \A g \in Handlers : Good(g)'
  BY OthersStayGood
<1>2. CapsHold' /\ UnitsCounted'
  BY SettlingKeepsCaps
<1> QED  BY <1>1, <1>2 DEF WarmInv

LEMMA NoneMoves ==
    ASSUME WarmInv, RowsOnlySettle, TypeOK', WatchedKnown', DeliveriesCounted',
           handler' = handler, lock' = lock
    PROVE  WarmInv'
<1>1. \A g \in Handlers : Good(g)'
  BY OthersStayGood
<1>2. CapsHold' /\ UnitsCounted'
  BY SettlingKeepsCaps
<1> QED  BY <1>1, <1>2 DEF WarmInv

-------------------------------------------------------------------------------
(* How a handler, a row and a page move. *)

LEMMA ProcessTyped ==
    ASSUME WarmInv, NEW h \in Handlers, handler[h] # None
    PROVE  /\ handler[h] \in Process
           /\ Mine(h) \in Searches /\ Held(h) \subseteq Run
  BY DEF WarmInv, TypeOK, Process, Mine, Held

LEMMA EndMoves ==
    ASSUME WarmInv, NEW h \in Handlers, End(h)
    PROVE  /\ handler' \in [Handlers -> Process \cup {None}]
           /\ handler'[h] = None
           /\ \A g \in Handlers \ {h} : handler'[g] = handler[g]
  BY DEF WarmInv, TypeOK, End

Steps == {"lock", "check", "insert", "vendor", "read", "ask", "land", "abort", "flip", "fail"}

LEMMA TakeMoves ==
    ASSUME WarmInv, NEW h \in Handlers, handler[h] # None,
           NEW step \in Steps, NEW held \in SUBSET Run, Take(h, step, held)
    PROVE  /\ handler' \in [Handlers -> Process \cup {None}]
           /\ handler'[h] = [handler[h] EXCEPT !.at = step, !.held = held]
           /\ handler'[h] \in Process
           /\ \A g \in Handlers \ {h} : handler'[g] = handler[g]
<1>1. handler[h] \in Process
  BY ProcessTyped
<1>2. [handler[h] EXCEPT !.at = step, !.held = held] \in Process
  BY <1>1 DEF Process, Steps
<1>3. handler' = [handler EXCEPT ![h] = [handler[h] EXCEPT !.at = step, !.held = held]]
  BY DEF Take
<1> QED  BY <1>2, <1>3 DEF WarmInv, TypeOK

LEMMA GotoMoves ==
    ASSUME WarmInv, NEW h \in Handlers, handler[h] # None, NEW step \in Steps, Goto(h, step)
    PROVE  /\ handler' \in [Handlers -> Process \cup {None}]
           /\ handler'[h] = [handler[h] EXCEPT !.at = step]
           /\ handler'[h] \in Process
           /\ \A g \in Handlers \ {h} : handler'[g] = handler[g]
<1>1. handler[h] \in Process
  BY ProcessTyped
<1>2. [handler[h] EXCEPT !.at = step] \in Process
  BY <1>1 DEF Process, Steps
<1>3. handler' = [handler EXCEPT ![h] = [handler[h] EXCEPT !.at = step]]
  BY DEF Goto
<1> QED  BY <1>2, <1>3 DEF WarmInv, TypeOK

\* The variables that a step of a handler outside the lock does not type anew.
RestTyped ==
    /\ knobs' \in Knobs /\ units' \in [0..WindowOf(MaxTime) -> Nat]
    /\ lock' \in Handlers \cup {None} /\ now' \in 0..MaxTime
    /\ rows' \in [Searches -> Row \cup {None}]
    /\ runs' \in [Run -> RunStatuses]
    /\ page' \in [Searches -> Pages]
    /\ deliveries' \in [Searches -> 0..(MaxFaults + 1)]
    /\ faults' \in 0..MaxFaults

World == RestTyped /\ RowsOnlySettle /\ WatchedKnown' /\ DeliveriesCounted'

LEMMA Ended ==
    ASSUME WarmInv, World, NEW h \in Handlers, End(h),
           Unlock(h) \/ (lock' = lock /\ ~InLock(h))
    PROVE  WarmInv'
<1>1. /\ handler' \in [Handlers -> Process \cup {None}]
      /\ handler'[h] = None
      /\ \A g \in Handlers \ {h} : handler'[g] = handler[g]
  BY EndMoves
<1>2. lock' # h /\ \A g \in Handlers \ {h} : lock' = g <=> lock = g
  BY NoneAssumption DEF Unlock, WarmInv, Good, LockHeld
<1>3. Good(h)'
  BY <1>1, <1>2
  DEF Good, LockHeld, InLock, At, RowKnown, Reserved, Cleared, HoldsOwn, Starting
<1>4. TypeOK'
  BY <1>1 DEF World, RestTyped, TypeOK
<1> QED  BY <1>1, <1>2, <1>3, <1>4, OneMoves DEF World

\* A handler past its commit goes on to another step past it.
LEMMA GoesOn ==
    ASSUME WarmInv, World, NEW h \in Handlers, Reserved(h), lock' = lock,
           NEW step \in {"vendor", "ask", "land", "abort", "flip", "fail"},
           handler[h].job = "start" => step \in {"vendor", "abort", "fail"},
           Goto(h, step)
    PROVE  WarmInv'
<1>1. /\ handler' \in [Handlers -> Process \cup {None}]
      /\ handler'[h] = [handler[h] EXCEPT !.at = step]
      /\ handler'[h] \in Process /\ handler[h] \in Process
      /\ \A g \in Handlers \ {h} : handler'[g] = handler[g]
  BY GotoMoves, ProcessTyped DEF Reserved, Steps
<1>2. /\ handler'[h] # None /\ handler'[h].at = step
      /\ handler'[h].job = handler[h].job /\ handler'[h].search = handler[h].search
      /\ handler'[h].held = handler[h].held
      /\ handler'[h].delivery = handler[h].delivery
  BY <1>1, NoneAssumption DEF Process
<1>3. Good(h) /\ Mine(h) \in Searches
  BY ProcessTyped DEF WarmInv, Reserved
<1>4. ~InLock(h) /\ ~InLock(h)' /\ LockHeld(h)'
  BY <1>2, <1>3 DEF Good, LockHeld, InLock, At, Reserved
<1>5. RowKnown(h)'
  BY <1>2, <1>3 DEF Good, RowKnown, Mine, World, RowsOnlySettle
<1>6. Cleared(h)'
  BY <1>2 DEF Cleared, At
<1>7. HoldsOwn(h)'
  BY <1>2, <1>3 DEF Good, HoldsOwn, Starting, Held, OwnRuns, Mine, World, RowsOnlySettle,
     Reserved
<1>8. TypeOK'
  BY <1>1 DEF World, RestTyped, TypeOK
<1> QED  BY <1>1, <1>4, <1>5, <1>6, <1>7, <1>8, OneMoves DEF World, Good

\* A poll or a cancel takes up the runs of its row.
LEMMA TakesUp ==
    ASSUME WarmInv, World, NEW h \in Handlers, handler[h] # None,
           handler[h].job # "start", lock' = lock,
           NEW step \in {"ask", "abort"}, NEW held \in SUBSET Run, Take(h, step, held)
    PROVE  WarmInv'
<1>1. /\ handler' \in [Handlers -> Process \cup {None}]
      /\ handler'[h] = [handler[h] EXCEPT !.at = step, !.held = held]
      /\ handler'[h] \in Process /\ handler[h] \in Process
      /\ \A g \in Handlers \ {h} : handler'[g] = handler[g]
  <2>1. step \in Steps
    BY DEF Steps
  <2>2. handler[h] \in Process
    BY ProcessTyped
  <2>3. held \in SUBSET Run
    OBVIOUS
  <2>4. /\ handler' \in [Handlers -> Process \cup {None}]
        /\ handler'[h] = [handler[h] EXCEPT !.at = step, !.held = held]
        /\ handler'[h] \in Process
        /\ \A g \in Handlers \ {h} : handler'[g] = handler[g]
    BY <2>1, <2>3, TakeMoves, Zenon
  <2> QED  BY <2>2, <2>4
<1>2. /\ handler'[h] # None /\ handler'[h].job = handler[h].job
      /\ handler'[h].search = handler[h].search
  BY <1>1, NoneAssumption DEF Process
<1>3. Good(h) /\ Mine(h) \in Searches /\ Reserved(h)
  BY ProcessTyped DEF WarmInv, Reserved
<1>4. LockHeld(h)' /\ Cleared(h)' /\ HoldsOwn(h)'
  BY <1>2, <1>3 DEF Good, LockHeld, InLock, At, Cleared, HoldsOwn, Starting
<1>5. RowKnown(h)'
  BY <1>2, <1>3 DEF Good, RowKnown, Mine, World, RowsOnlySettle
<1>6. TypeOK'
  BY <1>1 DEF World, RestTyped, TypeOK
<1> QED  BY <1>1, <1>4, <1>5, <1>6, OneMoves DEF World, Good

\* Landing a row settles at most that row.
LEMMA LandSettles ==
    ASSUME WarmInv, NEW s \in Searches, rows[s] # None, NEW row \in Row,
           row.created = rows[s].created, Land(s, row), UNCHANGED <<knobs, units>>
    PROVE  /\ RowsOnlySettle
           /\ rows' \in [Searches -> Row \cup {None}]
           /\ rows'[s] # None
  BY NoneAssumption DEF Land, RowsOnlySettle, WarmInv, TypeOK

LEMMA TellShows ==
    ASSUME WarmInv, RowsOnlySettle, NEW s \in Searches, rows[s] # None,
           NEW from, NEW status, Tell(s, from, status)
    PROVE  page' \in [Searches -> Pages] /\ WatchedKnown'
  BY DEF Tell, RowsOnlySettle, WarmInv, TypeOK, WatchedKnown, Pages

\* Where only pages, runs and faults move.
LEMMA StoreRests ==
    ASSUME WarmInv, UNCHANGED <<knobs, units, rows>>
    PROVE  RowsOnlySettle
  BY DEF RowsOnlySettle

\* Faults and their count.
LEMMA FaultCounts ==
    ASSUME WarmInv, Fault
    PROVE  faults' \in 0..MaxFaults /\ faults' = faults + 1
  BY WarmAssumption DEF Fault, WarmInv, TypeOK

LEMMA CountStands ==
    ASSUME WarmInv, deliveries' = deliveries, faults' = faults \/ faults' = faults + 1
    PROVE  DeliveriesCounted'
  BY DEF WarmInv, TypeOK, DeliveriesCounted

\* A step that leaves the store and the pages alone.
LEMMA QuietWorld ==
    ASSUME WarmInv, UNCHANGED <<knobs, storeVars, now, page, deliveries>>,
           runs' \in [Run -> RunStatuses],
           faults' = faults \/ Fault
    PROVE  World
<1>1. faults' \in 0..MaxFaults /\ (faults' = faults \/ faults' = faults + 1)
  BY FaultCounts DEF WarmInv, TypeOK
<1>2. DeliveriesCounted'
  BY <1>1, CountStands
<1>3. RowsOnlySettle
  BY DEF RowsOnlySettle, storeVars
<1> QED  BY <1>1, <1>2, <1>3
         DEF World, RestTyped, WarmInv, TypeOK, WatchedKnown, storeVars

\* The same, of a step that takes or releases the lock.
LEMMA QuietButLock ==
    ASSUME WarmInv, UNCHANGED <<knobs, rows, units, now, runs, deliveries>>,
           lock' \in Handlers \cup {None}, page' \in [Searches -> Pages], WatchedKnown',
           faults' = faults \/ Fault
    PROVE  World
<1>1. faults' \in 0..MaxFaults /\ (faults' = faults \/ faults' = faults + 1)
  BY FaultCounts DEF WarmInv, TypeOK
<1>2. DeliveriesCounted'
  BY <1>1, CountStands
<1>3. RowsOnlySettle
  BY DEF RowsOnlySettle
<1> QED  BY <1>1, <1>2, <1>3 DEF World, RestTyped, WarmInv, TypeOK

\* The same, of a step that lands a row.
LEMMA LandingWorld ==
    ASSUME WarmInv, UNCHANGED <<knobs, units, lock, now, runs, deliveries, faults>>,
           RowsOnlySettle, rows' \in [Searches -> Row \cup {None}],
           page' \in [Searches -> Pages], WatchedKnown'
    PROVE  World
<1>1. DeliveriesCounted'
  BY CountStands
<1> QED  BY <1>1 DEF World, RestTyped, WarmInv, TypeOK

-------------------------------------------------------------------------------
(* The steps of a start. *)

LEMMA LockKeeps ==
    ASSUME WarmInv, NEW h \in Handlers, Lock(h)
    PROVE  WarmInv'
<1>1. /\ handler' \in [Handlers -> Process \cup {None}]
      /\ handler'[h] = [handler[h] EXCEPT !.at = "check"]
      /\ handler'[h] \in Process /\ handler[h] \in Process
      /\ \A g \in Handlers \ {h} : handler'[g] = handler[g]
  <2>1. "check" \in Steps
    BY DEF Steps
  <2> QED  BY <2>1, GotoMoves, ProcessTyped DEF Lock, At
<1>2. /\ handler'[h] # None /\ handler'[h].at = "check" /\ handler'[h].job = "start"
      /\ handler'[h].search = handler[h].search /\ handler'[h].held = handler[h].held
      /\ handler'[h].delivery = handler[h].delivery
      /\ handler[h] # None /\ handler[h].job = "start"
  BY <1>1, NoneAssumption DEF Process, Lock, At
<1>3. World
  BY QuietButLock DEF Lock, WarmInv, TypeOK, WatchedKnown
<1>4. TypeOK'
  BY <1>1, <1>3 DEF World, RestTyped, TypeOK
<1>5. /\ lock' = h
      /\ \A g \in Handlers \ {h} : lock' = g <=> lock = g
  BY NoneAssumption DEF Lock
<1>6. LockHeld(h)' /\ RowKnown(h)' /\ Cleared(h)'
  BY <1>2, <1>5 DEF LockHeld, InLock, At, RowKnown, Reserved, Cleared
<1>7. HoldsOwn(h)'
  BY <1>2 DEF WarmInv, Good, HoldsOwn, Starting, Held, OwnRuns, Mine, Lock
<1> QED  BY <1>1, <1>3, <1>4, <1>5, <1>6, <1>7, OneMoves DEF World, Good

\* The transaction commits and the handler turns to the vendor.
LEMMA CommittedMoves ==
    ASSUME WarmInv, NEW h \in Handlers, InLock(h), Committed(h), knobs' = knobs
    PROVE  /\ handler' \in [Handlers -> Process \cup {None}]
           /\ handler'[h] # None /\ handler'[h].at = "vendor"
           /\ Mine(h)' = Mine(h)
           /\ lock' = None
           /\ LockHeld(h)' /\ Cleared(h)' /\ HoldsOwn(h)'
           /\ \A g \in Handlers \ {h} : handler'[g] = handler[g] /\ lock # g
<1>1. handler[h] \in Process /\ handler[h] # None /\ lock = h
  BY ProcessTyped DEF InLock, At, WarmInv, Good, LockHeld
<1>2. [handler[h] EXCEPT !.at = "vendor", !.asof = 0] \in Process
  <2>1. 0 \in 0..MaxTime
    BY WarmAssumption
  <2> QED  BY <1>1, <2>1 DEF Process
<1>3. handler'[h] = [handler[h] EXCEPT !.at = "vendor", !.asof = 0]
  BY DEF Committed, WarmInv, TypeOK
<1>4. /\ handler' \in [Handlers -> Process \cup {None}]
      /\ \A g \in Handlers \ {h} : handler'[g] = handler[g]
  <2>1. handler' = [handler EXCEPT ![h] = [handler[h] EXCEPT !.at = "vendor", !.asof = 0]]
    BY DEF Committed
  <2> QED  BY <1>2, <2>1 DEF WarmInv, TypeOK
<1>5. /\ handler'[h] # None /\ handler'[h].at = "vendor"
      /\ handler'[h].job = handler[h].job
      /\ handler'[h].search = handler[h].search /\ handler'[h].held = handler[h].held
      /\ handler'[h].delivery = handler[h].delivery
  BY <1>1, <1>2, <1>3, NoneAssumption DEF Process
<1>6. lock' = None /\ \A g \in Handlers \ {h} : lock # g
  BY <1>1 DEF Committed, Unlock
<1>7. LockHeld(h)' /\ Cleared(h)'
  BY <1>5, <1>6, NoneAssumption DEF LockHeld, InLock, At, Cleared
<1>8. HoldsOwn(h)'
  BY <1>1, <1>5 DEF WarmInv, Good, HoldsOwn, Starting, Held, OwnRuns, Mine
<1> QED  BY <1>4, <1>5, <1>6, <1>7, <1>8 DEF Mine

LEMMA ReplayKeeps ==
    ASSUME WarmInv, NEW h \in Handlers, Replay(h)
    PROVE  WarmInv'
<1>1. InLock(h) /\ knobs' = knobs /\ Committed(h)
  BY DEF Replay, InLock
<1>2. /\ handler' \in [Handlers -> Process \cup {None}]
      /\ handler'[h] # None /\ handler'[h].at = "vendor"
      /\ Mine(h)' = Mine(h)
      /\ lock' = None
      /\ LockHeld(h)' /\ Cleared(h)' /\ HoldsOwn(h)'
      /\ \A g \in Handlers \ {h} : handler'[g] = handler[g] /\ lock # g
  BY <1>1, CommittedMoves
<1>3. World
  BY <1>2, QuietButLock DEF Replay, WarmInv, TypeOK, WatchedKnown
<1>4. TypeOK'
  BY <1>2, <1>3 DEF World, RestTyped, TypeOK
<1>5. RowKnown(h)'
  BY <1>2 DEF Replay, RowKnown
<1>6. \A g \in Handlers \ {h} : handler'[g] = handler[g] /\ (lock' = g <=> lock = g)
  BY <1>2, NoneAssumption
<1> QED  BY <1>2, <1>3, <1>4, <1>5, <1>6, OneMoves DEF World, Good

LEMMA RefuseKeeps ==
    ASSUME WarmInv, NEW h \in Handlers, Refuse(h)
    PROVE  WarmInv'
<1>1. Mine(h) \in Searches
  BY ProcessTyped DEF Refuse, At
<1>2. page' \in [Searches -> Pages] /\ WatchedKnown'
  BY <1>1 DEF Refuse, WarmInv, TypeOK, Pages, WatchedKnown
<1>3. lock' \in Handlers \cup {None}
  BY DEF Refuse, Unlock, WarmInv, TypeOK
<1>4. World
  BY <1>2, <1>3, QuietButLock DEF Refuse
<1> QED  BY <1>4, Ended DEF Refuse

LEMMA CrashKeeps ==
    ASSUME WarmInv, NEW h \in Handlers, Crash(h)
    PROVE  WarmInv'
<1>1. Mine(h) \in Searches
  BY ProcessTyped DEF Crash
<1>2. page' \in [Searches -> Pages] /\ WatchedKnown'
  BY <1>1 DEF Crash, WarmInv, TypeOK, Pages, WatchedKnown
<1>3. lock' \in Handlers \cup {None}
  BY DEF Crash, Unlock, WarmInv, TypeOK
<1>4. World
  BY <1>2, <1>3, QuietButLock DEF Crash
<1> QED  BY <1>4, Ended DEF Crash

LEMMA AdmitKeeps ==
    ASSUME WarmInv, NEW h \in Handlers, Admit(h)
    PROVE  WarmInv'
<1>1. /\ handler' \in [Handlers -> Process \cup {None}]
      /\ handler'[h] = [handler[h] EXCEPT !.at = "insert"]
      /\ handler'[h] \in Process /\ handler[h] \in Process
      /\ \A g \in Handlers \ {h} : handler'[g] = handler[g]
  <2>1. "insert" \in Steps
    BY DEF Steps
  <2> QED  BY <2>1, GotoMoves, ProcessTyped DEF Admit, At
<1>2. /\ handler'[h] # None /\ handler'[h].at = "insert" /\ handler'[h].job = "start"
      /\ handler'[h].search = handler[h].search /\ handler'[h].held = handler[h].held
      /\ handler'[h].delivery = handler[h].delivery
      /\ handler'[h].asof = handler[h].asof
      /\ handler[h] # None /\ handler[h].job = "start" /\ InLock(h)
  BY <1>1, NoneAssumption DEF Process, Admit, At, InLock
<1>3. World
  BY QuietWorld DEF Admit, WarmInv, TypeOK
<1>4. TypeOK'
  BY <1>1, <1>3 DEF World, RestTyped, TypeOK
<1>5. lock' = lock /\ LockHeld(h)'
  BY <1>2 DEF Admit, storeVars, WarmInv, Good, LockHeld, InLock, At
<1>6. RowKnown(h)'
  BY <1>2 DEF RowKnown, Reserved
<1>7. Cleared(h)'
  <2>1. rows[Mine(h)] = None /\ Admitted(h) /\ rows' = rows /\ units' = units /\ knobs' = knobs
    BY DEF Admit, storeVars
  <2>2. Running' = Running /\ \A from, to : CreatedIn(from, to)' = CreatedIn(from, to)
    BY <2>1 DEF Running, CreatedIn
  <2>3. Admitted(h)'
    BY <1>2, <2>1, <2>2 DEF Admitted
  <2> QED  BY <1>2, <2>1, <2>3 DEF Cleared, Mine
<1>8. HoldsOwn(h)'
  BY <1>2 DEF WarmInv, Good, HoldsOwn, Starting, Held, OwnRuns, Mine, Admit
<1> QED  BY <1>1, <1>3, <1>4, <1>5, <1>6, <1>7, <1>8, OneMoves DEF World, Good

-------------------------------------------------------------------------------
(* The insert: the one step that makes a row and charges a unit. *)

\* The row that Reserve(h) makes, and the sets it joins.
Fresh(h) == [status |-> "running", runs |-> {}, results |-> {},
             created |-> handler[h].asof]

LEMMA ReserveAdds ==
    ASSUME WarmInv, NEW h \in Handlers, Reserve(h)
    PROVE  /\ Mine(h) \in Searches /\ rows[Mine(h)] = None /\ Admitted(h)
           /\ handler[h].asof \in 0..MaxTime /\ InLock(h)
           /\ rows' \in [Searches -> Row \cup {None}]
           /\ rows'[Mine(h)] = Fresh(h) /\ rows'[Mine(h)] # None
           /\ \A s \in Searches \ {Mine(h)} : rows'[s] = rows[s]
           /\ knobs' = knobs /\ knobs \in Knobs
<1>1. handler[h] # None /\ InLock(h) /\ At(h, "start", "insert")
  BY DEF Reserve, At, InLock
<1>2. /\ handler[h] \in Process /\ Mine(h) \in Searches
      /\ handler[h].asof \in 0..MaxTime
  BY <1>1, ProcessTyped DEF Process
<1>3. rows[Mine(h)] = None /\ Admitted(h)
  BY <1>1 DEF WarmInv, Good, Cleared
<1>4. Fresh(h) \in Row
  BY <1>2 DEF Fresh, Row, Statuses
<1>5. rows' = [rows EXCEPT ![Mine(h)] = Fresh(h)]
  BY DEF Reserve, Fresh
<1>6. knobs' = knobs /\ knobs \in Knobs
  BY DEF Reserve, WarmInv, TypeOK
<1> QED  BY <1>1, <1>2, <1>3, <1>4, <1>5, <1>6, NoneAssumption DEF WarmInv, TypeOK

LEMMA ReserveCounts ==
    ASSUME WarmInv, NEW h \in Handlers, Reserve(h)
    PROVE  UnitsCounted' /\ units' \in [0..WindowOf(MaxTime) -> Nat]
<1> DEFINE asof == handler[h].asof
           new == Mine(h)
<1>1. /\ new \in Searches /\ rows[new] = None /\ Admitted(h) /\ asof \in 0..MaxTime
      /\ rows'[new] = Fresh(h) /\ rows'[new] # None
      /\ \A s \in Searches \ {new} : rows'[s] = rows[s]
      /\ knobs' = knobs /\ knobs \in Knobs
  BY ReserveAdds
<1>2. rows'[new].created = asof
  BY <1>1 DEF Fresh
<1>3. WindowOf(asof) \in 0..WindowOf(MaxTime)
  BY <1>1, WindowInRange
<1>4. units' = [units EXCEPT ![WindowOf(asof)] = @ + 1]
  BY DEF Reserve
<1>5. units \in [0..WindowOf(MaxTime) -> Nat] /\ units[WindowOf(asof)] < knobs.units
  BY <1>1 DEF WarmInv, TypeOK, Admitted
<1> HIDE DEF asof, new
<1>6. units' \in [0..WindowOf(MaxTime) -> Nat]
  BY <1>3, <1>4, <1>5
<1>7. ASSUME NEW w \in 0..WindowOf(MaxTime)
      PROVE  units'[w] = Cardinality(InWindow(w)') /\ units'[w] <= knobs'.units
  <2>1. units[w] = Cardinality(InWindow(w)) /\ units[w] <= knobs.units
    BY DEF WarmInv, UnitsCounted
  <2>2. CASE w = WindowOf(asof)
    <3>1. InWindow(w)' = InWindow(w) \cup {new} /\ new \notin InWindow(w)
      BY <1>1, <1>2, <2>2 DEF InWindow
    <3>2. IsFiniteSet(InWindow(w))
      BY SearchSetsFinite DEF InWindow
    <3>3. Cardinality(InWindow(w)') = Cardinality(InWindow(w)) + 1
      BY <3>1, <3>2, FS_AddElement
    <3>4. units'[w] = units[w] + 1 /\ units[w] < knobs.units /\ units[w] \in Nat
      BY <1>4, <1>5, <2>2
    <3> QED  BY <1>1, <2>1, <3>3, <3>4 DEF Knobs
  <2>3. CASE w # WindowOf(asof)
    <3>1. InWindow(w)' = InWindow(w)
      BY <1>1, <1>2, <2>3 DEF InWindow
    <3>2. units'[w] = units[w]
      BY <1>4, <1>5, <2>3
    <3> QED  BY <1>1, <2>1, <3>1, <3>2
  <2> QED  BY <2>2, <2>3
<1> QED  BY <1>6, <1>7 DEF UnitsCounted

LEMMA ReserveCapped ==
    ASSUME WarmInv, NEW h \in Handlers, Reserve(h)
    PROVE  CapsHold'
<1> DEFINE asof == handler[h].asof
           new == Mine(h)
<1>1. /\ new \in Searches /\ rows[new] = None /\ Admitted(h) /\ asof \in 0..MaxTime
      /\ rows' \in [Searches -> Row \cup {None}]
      /\ rows'[new] = Fresh(h) /\ rows'[new] # None
      /\ \A s \in Searches \ {new} : rows'[s] = rows[s]
      /\ knobs' = knobs /\ knobs \in Knobs
  BY ReserveAdds
<1>2. /\ Cardinality(Running) < knobs.concurrent
      /\ Cardinality(CreatedIn(asof - Day + 1, MaxTime)) < knobs.daily
  BY <1>1 DEF Admitted
<1>3. rows'[new].created = asof /\ rows'[new].status = "running"
  BY <1>1 DEF Fresh
<1>4. UnitsCounted'
  BY ReserveCounts
<1> HIDE DEF asof, new
<1>5. Cardinality(Running') <= knobs'.concurrent
  <2>1. Running' = Running \cup {new} /\ new \notin Running
    BY <1>1, <1>3 DEF Running
  <2>2. IsFiniteSet(Running) /\ Cardinality(Running) \in Nat
    BY SearchSetsFinite DEF Running
  <2>3. Cardinality(Running') = Cardinality(Running) + 1
    BY <2>1, <2>2, FS_AddElement
  <2> QED  BY <1>1, <1>2, <2>2, <2>3 DEF Knobs
<1>6. ASSUME NEW t \in 0..MaxTime
      PROVE  Cardinality(CreatedIn(t - Day + 1, t)') <= knobs'.daily
  <2> DEFINE S == CreatedIn(t - Day + 1, t)
             D == CreatedIn(asof - Day + 1, MaxTime)
  <2>1. IsFiniteSet(S) /\ Cardinality(S) \in Nat /\ Cardinality(D) \in Nat
    BY SearchSetsFinite DEF CreatedIn
  <2>2. Cardinality(S) <= knobs.daily
    BY DEF WarmInv, CapsHold
  <2>3. CASE asof \in (t - Day + 1)..t
    <3>1. S' = S \cup {new} /\ new \notin S
      BY <1>1, <1>3, <2>3 DEF CreatedIn
    <3>2. S \subseteq D /\ D \subseteq Searches
      BY <1>1, <2>3, WarmAssumption DEF CreatedIn
    <3> HIDE DEF S, D
    <3>3. Cardinality(S') = Cardinality(S) + 1
      BY <2>1, <3>1, FS_AddElement
    <3>4. Cardinality(S) <= Cardinality(D)
      BY <3>2, SmallerSet
    <3> QED  BY <1>1, <1>2, <2>1, <3>3, <3>4 DEF S, D, Knobs
  <2>4. CASE asof \notin (t - Day + 1)..t
    <3>1. S' = S
      BY <1>1, <1>3, <2>4 DEF CreatedIn
    <3> QED  BY <1>1, <2>2, <3>1
  <2> QED  BY <2>3, <2>4
<1>7. ASSUME NEW t \in 0..MaxTime
      PROVE  Cardinality({s \in CreatedIn(0, MaxTime) :
                 WindowOf(rows[s].created) = WindowOf(t)}') <= knobs'.units
  <2>1. WindowOf(t) \in 0..WindowOf(MaxTime)
    BY WindowInRange
  <2>2. units'[WindowOf(t)] = Cardinality(InWindow(WindowOf(t))')
        /\ units'[WindowOf(t)] <= knobs'.units
    BY <1>4, <2>1 DEF UnitsCounted
  <2>3. \A s \in Searches : rows'[s] # None => rows'[s].created \in 0..MaxTime
    BY <1>1 DEF Row
  <2>4. {s \in CreatedIn(0, MaxTime) : WindowOf(rows[s].created) = WindowOf(t)}'
            = InWindow(WindowOf(t))'
    BY <2>3 DEF CreatedIn, InWindow
  <2> QED  BY <2>2, <2>4
<1> QED  BY <1>5, <1>6, <1>7 DEF CapsHold

LEMMA ReserveKeeps ==
    ASSUME WarmInv, NEW h \in Handlers, Reserve(h)
    PROVE  WarmInv'
<1>1. /\ Mine(h) \in Searches /\ InLock(h)
      /\ rows' \in [Searches -> Row \cup {None}] /\ rows'[Mine(h)] # None
      /\ \A s \in Searches \ {Mine(h)} : rows'[s] = rows[s]
      /\ knobs' = knobs
  BY ReserveAdds
<1>2. /\ handler' \in [Handlers -> Process \cup {None}]
      /\ handler'[h] # None /\ handler'[h].at = "vendor"
      /\ Mine(h)' = Mine(h)
      /\ lock' = None
      /\ LockHeld(h)' /\ Cleared(h)' /\ HoldsOwn(h)'
      /\ \A g \in Handlers \ {h} : handler'[g] = handler[g] /\ lock # g
  BY <1>1, CommittedMoves DEF Reserve
<1>3. TypeOK'
  BY <1>1, <1>2, ReserveCounts DEF Reserve, WarmInv, TypeOK
<1>4. WatchedKnown' /\ DeliveriesCounted'
  BY <1>1 DEF Reserve, WarmInv, WatchedKnown, DeliveriesCounted
<1>5. RowKnown(h)'
  BY <1>1, <1>2 DEF RowKnown
<1>6. ASSUME NEW g \in Handlers \ {h}  PROVE Good(g)'
  <2>1. handler'[g] = handler[g] /\ lock # g /\ lock' # g /\ Good(g) /\ ~InLock(g)
    BY <1>2, NoneAssumption DEF WarmInv, Good, LockHeld
  <2>2. LockHeld(g)' /\ Cleared(g)'
    BY <2>1 DEF LockHeld, InLock, At, Cleared
  <2>3. handler[g] # None => Mine(g) \in Searches
    BY ProcessTyped
  <2>4. RowKnown(g)'
    BY <1>1, <2>1, <2>3 DEF Good, RowKnown, Reserved, Mine
  <2>5. HoldsOwn(g)'
    BY <1>1, <2>1 DEF Good, HoldsOwn, Starting, OwnRuns, Mine, Held
  <2> QED  BY <2>2, <2>4, <2>5 DEF Good
<1> QED  BY <1>2, <1>3, <1>4, <1>5, <1>6, ReserveCounts, ReserveCapped DEF WarmInv, Good

-------------------------------------------------------------------------------
(* The vendor's runs. *)

LEMMA RunsGo ==
    ASSUME WarmInv, NEW r
    PROVE  [runs EXCEPT ![r] = "going"] \in [Run -> RunStatuses]
  BY DEF WarmInv, TypeOK, RunStatuses

LEMMA AbortingKeeps ==
    ASSUME WarmInv, NEW rs, Aborting(rs)
    PROVE  runs' \in [Run -> RunStatuses] /\ (faults' = faults \/ Fault)
<1>1. PICK lost \in SUBSET rs :
        /\ runs' = [r \in Run |-> IF r \in rs \ lost /\ runs[r] = "going"
                                  THEN "aborted" ELSE runs[r]]
        /\ IF lost = {} THEN UNCHANGED faults ELSE Fault
  BY DEF Aborting
<1> QED  BY <1>1 DEF WarmInv, TypeOK, RunStatuses

\* The next run of a start, and what the start then holds.
LEMMA NextRunCounts ==
    ASSUME WarmInv, NEW h \in Handlers, At(h, "start", "vendor"), ~AllStarted(h)
    PROVE  /\ NextRun(h) \in Run
           /\ LET held == Held(h) \cup {NextRun(h)} IN
              /\ IsFiniteSet(held)
              /\ Cardinality(held) \in 0..knobs.personas
              /\ held = OwnRuns(h, Cardinality(held))
<1> DEFINE n == Cardinality(Held(h))
           held == Held(h) \cup {NextRun(h)}
<1>1. /\ handler[h].delivery \in 1..(MaxFaults + 1) /\ IsFiniteSet(Held(h))
      /\ n \in 0..knobs.personas /\ Held(h) = OwnRuns(h, n)
  BY DEF WarmInv, Good, HoldsOwn, Starting, At
<1>2. knobs.personas \in 0..MaxPersonas /\ MaxPersonas \in Nat
  BY WarmAssumption DEF WarmInv, TypeOK, Knobs
<1>3. n # knobs.personas /\ Mine(h) \in Searches
  BY ProcessTyped DEF AllStarted, At
<1>4. n + 1 \in 1..MaxPersonas /\ n + 1 \in 0..knobs.personas /\ n \in Nat
  BY <1>1, <1>2, <1>3
<1>5. NextRun(h) = [search |-> Mine(h), delivery |-> handler[h].delivery, persona |-> n + 1]
  BY DEF NextRun
<1> HIDE DEF n
<1>6. NextRun(h) \in Run
  BY <1>1, <1>3, <1>4, <1>5 DEF Run
<1>7. NextRun(h) \notin Held(h)
  <2> SUFFICES ASSUME NextRun(h) \in OwnRuns(h, n)  PROVE FALSE
    BY <1>1
  <2>1. PICK p \in 1..n :
          NextRun(h) = [search |-> Mine(h), delivery |-> handler[h].delivery, persona |-> p]
    BY DEF OwnRuns
  <2>2. NextRun(h).persona = p /\ NextRun(h).persona = n + 1
    BY <1>5, <2>1
  <2> QED  BY <1>4, <2>2
<1>8. IsFiniteSet(held) /\ Cardinality(held) = n + 1
  BY <1>1, <1>7, FS_AddElement DEF n
<1>9. held = OwnRuns(h, n + 1)
  <2>1. 1..(n + 1) = (1..n) \cup {n + 1}
    BY <1>4
  <2> QED  BY <1>1, <1>5, <2>1 DEF OwnRuns
<1> QED  BY <1>4, <1>6, <1>8, <1>9

LEMMA StartRunKeeps ==
    ASSUME WarmInv, NEW h \in Handlers, StartRun(h)
    PROVE  WarmInv'
<1> DEFINE held == Held(h) \cup {NextRun(h)}
<1>1. /\ NextRun(h) \in Run
      /\ IsFiniteSet(held) /\ Cardinality(held) \in 0..knobs.personas
      /\ held = OwnRuns(h, Cardinality(held))
  BY NextRunCounts DEF StartRun
<1>2. handler[h] # None /\ Held(h) \subseteq Run /\ Mine(h) \in Searches
  BY ProcessTyped DEF StartRun, At
<1>3. held \in SUBSET Run /\ "vendor" \in Steps
  BY <1>1, <1>2 DEF Steps
<1>4. Take(h, "vendor", held)
  BY DEF StartRun
<1> HIDE DEF held
<1>5. /\ handler' \in [Handlers -> Process \cup {None}]
      /\ handler'[h] = [handler[h] EXCEPT !.at = "vendor", !.held = held]
      /\ handler'[h] \in Process
      /\ \A g \in Handlers \ {h} : handler'[g] = handler[g]
  BY <1>2, <1>3, <1>4, TakeMoves, Zenon
<1>6. handler[h] \in Process
  BY <1>2, ProcessTyped
<1>7. /\ handler'[h] # None /\ handler'[h].at = "vendor"
      /\ handler'[h].job = handler[h].job /\ handler'[h].search = handler[h].search
      /\ handler'[h].held = held /\ handler'[h].delivery = handler[h].delivery
      /\ handler[h].job = "start" /\ handler[h].at = "vendor"
  BY <1>5, <1>6, NoneAssumption DEF Process, StartRun, At
<1>8. World
  BY RunsGo, QuietWorld DEF StartRun
<1>9. knobs' = knobs /\ lock' = lock /\ Good(h)
  BY DEF StartRun, storeVars, WarmInv
<1>10. HoldsOwn(h)'
  <2>1. handler'[h].delivery \in 1..(MaxFaults + 1)
    BY <1>2, <1>7, <1>9 DEF Good, HoldsOwn, Starting
  <2>2. PICK n : n = Cardinality(held)
    OBVIOUS
  <2>3. Held(h)' = held
    BY <1>7 DEF Held
  <2>4. OwnRuns(h, n)' = OwnRuns(h, n)
    BY <1>7 DEF OwnRuns, Mine
  <2>5. Cardinality(Held(h))' = n /\ Held(h)' = OwnRuns(h, n)'
    BY <1>1, <2>2, <2>3, <2>4
  <2>6. IsFiniteSet(Held(h))' /\ n \in 0..knobs'.personas
    BY <1>1, <1>9, <2>2, <2>3
  <2>7. Held(h)' = OwnRuns(h, Cardinality(Held(h)))'
    BY <2>5 DEF OwnRuns
  <2> QED  BY <2>1, <2>5, <2>6, <2>7 DEF HoldsOwn
<1>11. LockHeld(h)' /\ Cleared(h)'
  BY <1>7, <1>9 DEF Good, LockHeld, InLock, At, Cleared
<1>12. RowKnown(h)'
  BY <1>2, <1>7, <1>8, <1>9 DEF Good, RowKnown, Reserved, Mine, World, RowsOnlySettle
<1>13. TypeOK'
  BY <1>5, <1>8 DEF World, RestTyped, TypeOK
<1> QED  BY <1>5, <1>8, <1>9, <1>10, <1>11, <1>12, <1>13, OneMoves DEF World, Good

LEMMA StartRunFailsKeeps ==
    ASSUME WarmInv, NEW h \in Handlers, StartRunFails(h)
    PROVE  WarmInv'
<1>1. runs' \in [Run -> RunStatuses]
  BY RunsGo DEF StartRunFails, WarmInv, TypeOK
<1>2. World
  BY <1>1, QuietWorld DEF StartRunFails
<1>3. Reserved(h) /\ lock' = lock
  BY DEF StartRunFails, Reserved, At, storeVars
<1> QED  BY <1>2, <1>3, GoesOn DEF StartRunFails

LEMMA AbortStartedKeeps ==
    ASSUME WarmInv, NEW h \in Handlers, AbortStarted(h)
    PROVE  WarmInv'
<1>1. runs' \in [Run -> RunStatuses] /\ (faults' = faults \/ Fault)
  BY AbortingKeeps DEF AbortStarted
<1>2. World
  BY <1>1, QuietWorld DEF AbortStarted
<1>3. Reserved(h) /\ lock' = lock
  BY DEF AbortStarted, Reserved, At, storeVars
<1> QED  BY <1>2, <1>3, GoesOn DEF AbortStarted

-------------------------------------------------------------------------------
(* The steps that land a row and end their handler. *)

LEMMA LandedAndEnded ==
    ASSUME WarmInv, NEW h \in Handlers, Reserved(h), NEW row \in Row,
           row.created = rows[Mine(h)].created, Land(Mine(h), row), End(h),
           UNCHANGED <<knobs, units, lock, now, runs, deliveries, faults>>,
           NEW from, NEW status, Tell(Mine(h), from, status) \/ page' = page
    PROVE  WarmInv'
<1>1. Mine(h) \in Searches /\ rows[Mine(h)] # None /\ ~InLock(h)
  BY ProcessTyped DEF Reserved, WarmInv, Good, RowKnown, InLock, At
<1>2. RowsOnlySettle /\ rows' \in [Searches -> Row \cup {None}]
  BY <1>1, LandSettles
<1>3. page' \in [Searches -> Pages] /\ WatchedKnown'
  <2>1. CASE Tell(Mine(h), from, status)
    BY <1>1, <1>2, <2>1, TellShows
  <2>2. CASE page' = page
    BY <1>2, <2>2 DEF WarmInv, TypeOK, WatchedKnown, RowsOnlySettle
  <2> QED  BY <2>1, <2>2
<1>4. World
  BY <1>2, <1>3, LandingWorld
<1> QED  BY <1>1, <1>4, Ended

LEMMA ReservedRow ==
    ASSUME WarmInv, NEW h \in Handlers, Reserved(h)
    PROVE  rows[Mine(h)] \in Row /\ Mine(h) \in Searches /\ Held(h) \in SUBSET Run
  BY ProcessTyped DEF Reserved, WarmInv, TypeOK, Good, RowKnown

LEMMA AttachKeeps ==
    ASSUME WarmInv, NEW h \in Handlers, Attach(h)
    PROVE  WarmInv'
<1>1. Reserved(h)
  BY DEF Attach, Reserved, At
<1> DEFINE row == [rows[Mine(h)] EXCEPT !.runs = Held(h)]
<1>2. row \in Row /\ row.created = rows[Mine(h)].created
  BY <1>1, ReservedRow DEF Row
<1>3. /\ Land(Mine(h), row) /\ End(h)
      /\ Tell(Mine(h), "asked", rows'[Mine(h)].status)
      /\ UNCHANGED <<knobs, units, lock, now, runs, deliveries, faults>>
  BY DEF Attach
<1> HIDE DEF row
<1> QED  BY <1>1, <1>2, <1>3, LandedAndEnded

LEMMA FailedKeeps ==
    ASSUME WarmInv, NEW h \in Handlers, Reserved(h), NEW from, Failed(h, from)
    PROVE  WarmInv'
<1> DEFINE row == [rows[Mine(h)] EXCEPT !.status = "failed"]
<1>1. row \in Row /\ row.created = rows[Mine(h)].created
  BY ReservedRow DEF Row, Statuses
<1>2. /\ Land(Mine(h), row) /\ End(h)
      /\ Tell(Mine(h), from, rows'[Mine(h)].status)
      /\ UNCHANGED <<knobs, units, lock, now, runs, deliveries, faults>>
  BY DEF Failed
<1> HIDE DEF row
<1> QED  BY <1>1, <1>2, LandedAndEnded

LEMMA CompleteKeeps ==
    ASSUME WarmInv, NEW h \in Handlers, Complete(h)
    PROVE  WarmInv'
<1>1. Reserved(h)
  BY DEF Complete, Reserved, At
<1> DEFINE row == [rows[Mine(h)] EXCEPT !.status = "done", !.results = Held(h)]
<1>2. row \in Row /\ row.created = rows[Mine(h)].created
  BY <1>1, ReservedRow DEF Row, Statuses
<1>3. /\ Land(Mine(h), row) /\ End(h)
      /\ Tell(Mine(h), "watching", rows'[Mine(h)].status)
      /\ UNCHANGED <<knobs, units, lock, now, runs, deliveries, faults>>
  BY DEF Complete
<1> HIDE DEF row
<1> QED  BY <1>1, <1>2, <1>3, LandedAndEnded

LEMMA CancelRowKeeps ==
    ASSUME WarmInv, NEW h \in Handlers, CancelRow(h)
    PROVE  WarmInv'
<1>1. Reserved(h)
  BY DEF CancelRow, Reserved, At
<1> DEFINE row == [rows[Mine(h)] EXCEPT !.status = "cancelled"]
<1>2. row \in Row /\ row.created = rows[Mine(h)].created
  BY <1>1, ReservedRow DEF Row, Statuses
<1>3. /\ Land(Mine(h), row) /\ End(h) /\ page' = page
      /\ UNCHANGED <<knobs, units, lock, now, runs, deliveries, faults>>
  BY DEF CancelRow
<1> HIDE DEF row
<1> QED  BY <1>1, <1>2, <1>3, LandedAndEnded

-------------------------------------------------------------------------------
(* The steps that end a handler and land nothing. *)

LEMMA AttachLostKeeps ==
    ASSUME WarmInv, NEW h \in Handlers, AttachLost(h)
    PROVE  WarmInv'
<1>1. Reserved(h) /\ ~InLock(h)
  BY DEF AttachLost, Reserved, At, InLock
<1>2. Mine(h) \in Searches /\ rows[Mine(h)] # None
  BY <1>1, ProcessTyped DEF WarmInv, Good, RowKnown, Reserved
<1>3. RowsOnlySettle
  BY StoreRests DEF AttachLost, storeVars
<1>4. page' \in [Searches -> Pages] /\ WatchedKnown'
  BY <1>2, <1>3, TellShows DEF AttachLost
<1>5. lock' \in Handlers \cup {None} /\ lock' = lock
  BY DEF AttachLost, storeVars, WarmInv, TypeOK
<1>6. World
  BY <1>4, <1>5, QuietButLock DEF AttachLost, storeVars
<1> QED  BY <1>1, <1>5, <1>6, Ended DEF AttachLost

LEMMA PollEnds ==
    ASSUME WarmInv, NEW h \in Handlers, PollGoing(h) \/ PollLost(h)
    PROVE  WarmInv'
<1>1. ~InLock(h) /\ lock' = lock
  BY DEF PollGoing, PollLost, InLock, At, storeVars
<1>2. World
  BY QuietWorld DEF PollGoing, PollLost, WarmInv, TypeOK
<1> QED  BY <1>1, <1>2, Ended DEF PollGoing, PollLost

LEMMA PollReadKeeps ==
    ASSUME WarmInv, NEW h \in Handlers, PollRead(h)
    PROVE  WarmInv'
<1>1. /\ Reserved(h) /\ ~InLock(h) /\ handler[h] # None
      /\ handler[h].job # "start" /\ lock' = lock
  BY DEF PollRead, Reserved, At, InLock, storeVars
<1>2. rows[Mine(h)] \in Row /\ rows[Mine(h)] # None /\ Mine(h) \in Searches
  BY <1>1, ReservedRow, NoneAssumption
<1>3. RowsOnlySettle
  BY StoreRests DEF PollRead, storeVars
<1>4. CASE Take(h, "ask", rows[Mine(h)].runs) /\ UNCHANGED page
  <2>1. World
    BY <1>4, QuietWorld DEF PollRead, WarmInv, TypeOK
  <2>2. rows[Mine(h)].runs \in SUBSET Run
    BY <1>2 DEF Row
  <2> QED  BY <1>1, <1>4, <2>1, <2>2, TakesUp
<1>5. CASE End(h) /\ Tell(Mine(h), "watching", rows[Mine(h)].status)
  <2>1. page' \in [Searches -> Pages] /\ WatchedKnown'
    BY <1>2, <1>3, <1>5, TellShows
  <2>2. lock' \in Handlers \cup {None}
    BY <1>1 DEF WarmInv, TypeOK
  <2>3. World
    BY <2>1, <2>2, QuietButLock DEF PollRead, storeVars
  <2> QED  BY <1>1, <1>5, <2>3, Ended
<1> QED  BY <1>4, <1>5 DEF PollRead

LEMMA PollGoesOn ==
    ASSUME WarmInv, NEW h \in Handlers, PollSucceeded(h) \/ PollFailed(h)
    PROVE  WarmInv'
<1>1. Reserved(h) /\ lock' = lock /\ handler[h].job # "start"
  BY DEF PollSucceeded, PollFailed, Reserved, At, storeVars
<1>2. World
  BY QuietWorld DEF PollSucceeded, PollFailed, WarmInv, TypeOK
<1>3. Goto(h, "land") \/ Goto(h, "fail")
  BY DEF PollSucceeded, PollFailed
<1> QED  BY <1>1, <1>2, <1>3, GoesOn

LEMMA CancelReadKeeps ==
    ASSUME WarmInv, NEW h \in Handlers, CancelRead(h)
    PROVE  WarmInv'
<1>1. /\ Reserved(h) /\ handler[h] # None
      /\ handler[h].job # "start" /\ lock' = lock
  BY DEF CancelRead, Reserved, At, storeVars
<1>2. rows[Mine(h)].runs \in SUBSET Run
  BY <1>1, ReservedRow DEF Row
<1>3. World
  BY QuietWorld DEF CancelRead, WarmInv, TypeOK
<1>4. Take(h, "abort", rows[Mine(h)].runs)
  BY DEF CancelRead
<1> QED  BY <1>1, <1>2, <1>3, <1>4, TakesUp

LEMMA CancelRunsKeeps ==
    ASSUME WarmInv, NEW h \in Handlers, CancelRuns(h)
    PROVE  WarmInv'
<1>1. runs' \in [Run -> RunStatuses] /\ (faults' = faults \/ Fault)
  BY AbortingKeeps DEF CancelRuns
<1>2. World
  BY <1>1, QuietWorld DEF CancelRuns
<1>3. Reserved(h) /\ lock' = lock /\ handler[h].job # "start"
  BY DEF CancelRuns, Reserved, At, storeVars
<1> QED  BY <1>2, <1>3, GoesOn DEF CancelRuns
-------------------------------------------------------------------------------
(* The cell, the world and the first state. *)

\* A request that is taken up: a start holds no runs yet, and the search of a
\* poll or a cancel has its row.
LEMMA BeginKeeps ==
    ASSUME WarmInv, World, NEW h \in Handlers, NEW s \in Searches,
           NEW job \in {"start", "poll", "cancel"}, NEW step \in {"lock", "read"},
           job = "start" => step = "lock" /\ deliveries'[s] >= 1,
           job # "start" => rows[s] # None,
           UNCHANGED <<rows, lock, knobs>>, Begin(h, job, s, step)
    PROVE  WarmInv'
<1> DEFINE new == [job |-> job, search |-> s, at |-> step, held |-> {},
                   asof |-> IF job = "start" THEN now ELSE 0, delivery |-> deliveries'[s]]
<1>1. handler[h] = None /\ handler' = [handler EXCEPT ![h] = new]
  BY DEF Begin
<1>2. deliveries'[s] \in 0..(MaxFaults + 1) /\ MaxFaults \in Nat /\ MaxTime \in Nat
      /\ now \in 0..MaxTime /\ knobs.personas \in Nat
  BY WarmAssumption DEF World, RestTyped, WarmInv, TypeOK, Knobs
<1>3. new \in Process
  BY <1>2 DEF Process
<1>4. /\ new.job = job /\ new.search = s /\ new.at = step /\ new.held = {}
      /\ new.delivery = deliveries'[s]
  OBVIOUS
<1> HIDE DEF new
<1>5. /\ handler' \in [Handlers -> Process \cup {None}] /\ handler'[h] = new
      /\ \A g \in Handlers \ {h} : handler'[g] = handler[g]
  BY <1>1, <1>3 DEF WarmInv, TypeOK
<1>6. handler'[h] # None /\ Mine(h)' = s /\ Held(h)' = {}
  BY <1>3, <1>4, <1>5, NoneAssumption DEF Mine, Held
<1>7. LockHeld(h)' /\ Cleared(h)'
  BY <1>1, <1>4, <1>5 DEF WarmInv, Good, LockHeld, InLock, At, Cleared
<1>8. RowKnown(h)'
  BY <1>4, <1>5, <1>6 DEF RowKnown, Reserved
<1>9. HoldsOwn(h)'
  <2>1. IsFiniteSet({}) /\ Cardinality({}) = 0
    BY FS_EmptySet
  <2>2. OwnRuns(h, 0)' = {}
    <3>1. 1..0 = {}
      OBVIOUS
    <3> QED  BY <3>1 DEF OwnRuns
  <2>3. Starting(h)' => handler'[h].delivery \in 1..(MaxFaults + 1)
    BY <1>2, <1>4, <1>5 DEF Starting
  <2> QED  BY <1>2, <1>6, <2>1, <2>2, <2>3 DEF HoldsOwn
<1>10. TypeOK'
  BY <1>5 DEF World, RestTyped, TypeOK
<1> QED  BY <1>5, <1>7, <1>8, <1>9, <1>10, OneMoves DEF World, Good

\* Where pages, deliveries and faults move.
LEMMA CellWorld ==
    ASSUME WarmInv, UNCHANGED <<knobs, storeVars, now, runs>>,
           page' \in [Searches -> Pages], WatchedKnown', DeliveriesCounted',
           deliveries' \in [Searches -> 0..(MaxFaults + 1)], faults' \in 0..MaxFaults
    PROVE  World
<1>1. RowsOnlySettle
  BY DEF RowsOnlySettle, storeVars
<1> QED  BY <1>1 DEF World, RestTyped, WarmInv, TypeOK, storeVars

LEMMA CellKeeps ==
    ASSUME WarmInv, NEW h \in Handlers, NEW s \in Searches,
           Search(h, s) \/ Redeliver(h, s) \/ Poll(h, s) \/ Cancel(h, s)
    PROVE  WarmInv'
<1>1. /\ page \in [Searches -> Pages] /\ deliveries \in [Searches -> 0..(MaxFaults + 1)]
      /\ faults \in 0..MaxFaults /\ MaxFaults \in Nat
      /\ WatchedKnown /\ DeliveriesCounted
  BY WarmAssumption DEF WarmInv, TypeOK
<1>2. CASE Search(h, s)
  <2>1. page' \in [Searches -> Pages] /\ WatchedKnown'
    BY <1>1, <1>2 DEF Search, Pages, WatchedKnown, storeVars
  <2>2. deliveries' \in [Searches -> 0..(MaxFaults + 1)] /\ DeliveriesCounted'
        /\ deliveries'[s] = 1
    BY <1>1, <1>2 DEF Search, DeliveriesCounted
  <2>3. World
    BY <1>1, <1>2, <2>1, <2>2, CellWorld DEF Search
  <2> QED  BY <1>2, <2>2, <2>3, BeginKeeps DEF Search, storeVars
<1>3. CASE Redeliver(h, s)
  <2>1. page' = page /\ WatchedKnown'
    BY <1>1, <1>3 DEF Redeliver, WatchedKnown, storeVars
  <2>2. faults' \in 0..MaxFaults /\ faults' = faults + 1 /\ faults < MaxFaults
    BY <1>1, <1>3 DEF Redeliver, Fault
  <2>3. deliveries[s] <= faults + 1 /\ deliveries[s] \in Nat
    BY <1>1 DEF DeliveriesCounted
  <2>4. deliveries' \in [Searches -> 0..(MaxFaults + 1)] /\ DeliveriesCounted'
        /\ deliveries'[s] >= 1
    BY <1>1, <1>3, <2>2, <2>3 DEF Redeliver, DeliveriesCounted
  <2>5. World
    BY <1>1, <1>3, <2>1, <2>2, <2>4, CellWorld DEF Redeliver
  <2> QED  BY <1>3, <2>4, <2>5, BeginKeeps DEF Redeliver, storeVars
<1>4. CASE Poll(h, s)
  <2>1. World
    BY <1>1, <1>4, CellWorld DEF Poll, WatchedKnown, DeliveriesCounted, storeVars
  <2> QED  BY <1>1, <1>4, <2>1, BeginKeeps DEF Poll, WatchedKnown, storeVars
<1>5. CASE Cancel(h, s)
  <2>1. page' \in [Searches -> Pages] /\ WatchedKnown'
    BY <1>1, <1>5 DEF Cancel, Pages, WatchedKnown, storeVars
  <2>2. World
    BY <1>1, <1>5, <2>1, CellWorld DEF Cancel, DeliveriesCounted
  <2> QED  BY <1>1, <1>5, <2>2, BeginKeeps DEF Cancel, WatchedKnown, storeVars
<1> QED  BY <1>2, <1>3, <1>4, <1>5

LEMMA LeaveKeeps ==
    ASSUME WarmInv, NEW s \in Searches, Leave(s)
    PROVE  WarmInv'
<1>1. page' \in [Searches -> Pages] /\ WatchedKnown' /\ DeliveriesCounted'
  BY DEF Leave, WarmInv, TypeOK, Pages, WatchedKnown, DeliveriesCounted, storeVars
<1>2. World
  BY <1>1, CellWorld DEF Leave, WarmInv, TypeOK
<1>3. TypeOK'
  BY <1>2 DEF World, RestTyped, TypeOK, Leave, WarmInv
<1> QED  BY <1>2, <1>3, NoneMoves DEF World, Leave, storeVars

LEMMA VendorEndsKeeps ==
    ASSUME WarmInv, NEW r \in Run, VendorEnds(r)
    PROVE  WarmInv'
<1>1. runs' \in [Run -> RunStatuses]
  BY DEF VendorEnds, WarmInv, TypeOK, RunStatuses
<1>2. World
  BY <1>1, QuietWorld DEF VendorEnds
<1>3. TypeOK'
  BY <1>2 DEF World, RestTyped, TypeOK, VendorEnds, WarmInv
<1> QED  BY <1>2, <1>3, NoneMoves DEF World, VendorEnds, storeVars

LEMMA TickKeeps ==
    ASSUME WarmInv, Tick
    PROVE  WarmInv'
<1>1. now' \in 0..MaxTime
  BY WarmAssumption DEF Tick, WarmInv, TypeOK
<1>2. RowsOnlySettle /\ WatchedKnown' /\ DeliveriesCounted'
  BY DEF Tick, RowsOnlySettle, storeVars, WarmInv, WatchedKnown, DeliveriesCounted
<1>3. TypeOK'
  BY <1>1 DEF Tick, TypeOK, WarmInv, storeVars
<1> QED  BY <1>2, <1>3, NoneMoves DEF Tick, storeVars
LEMMA InitStarts ==
    ASSUME Init
    PROVE  WarmInv
<1>1. PICK scenario \in Scenarios :
        /\ knobs = scenario.knobs
        /\ page = [s \in Searches |->
                     IF s \in scenario.pressed THEN "confirm" ELSE "idle"]
        /\ faults = IF scenario.calm THEN MaxFaults ELSE 0
        /\ now = scenario.from
  BY DEF Init
<1>2. /\ knobs \in Knobs /\ now \in 0..MaxTime /\ faults \in 0..MaxFaults
      /\ MaxTime \in Nat /\ MaxFaults \in Nat
  BY <1>1, WarmAssumption
<1>3. TypeOK
  BY <1>1, <1>2 DEF Init, TypeOK, Pages, RunStatuses
<1>4. ASSUME NEW h \in Handlers  PROVE Good(h)
  BY NoneAssumption
  DEF Init, Good, LockHeld, InLock, At, RowKnown, Reserved, Cleared, HoldsOwn, Starting
<1>5. WatchedKnown /\ DeliveriesCounted
  BY <1>1, <1>2 DEF Init, WatchedKnown, DeliveriesCounted
<1>6. Cardinality({}) = 0 /\ knobs.concurrent >= 0 /\ knobs.units >= 0 /\ knobs.daily >= 0
  BY <1>2, FS_EmptySet DEF Knobs
<1>7. UnitsCounted
  <2>1. ASSUME NEW w \in 0..WindowOf(MaxTime)  PROVE InWindow(w) = {}
    BY DEF Init, InWindow
  <2>2. ASSUME NEW w \in 0..WindowOf(MaxTime)  PROVE units[w] = 0
    BY DEF Init
  <2> QED  BY <1>6, <2>1, <2>2 DEF UnitsCounted
<1>8. CapsHold
  <2>1. Running = {}
    BY DEF Init, Running
  <2>2. ASSUME NEW from, NEW to  PROVE CreatedIn(from, to) = {}
    BY DEF Init, CreatedIn
  <2> QED  BY <1>6, <2>1, <2>2 DEF CapsHold
<1> QED  BY <1>3, <1>4, <1>5, <1>7, <1>8 DEF WarmInv

LEMMA StutterKeeps ==
    ASSUME WarmInv, UNCHANGED vars
    PROVE  WarmInv'
<1>1. RowsOnlySettle /\ WatchedKnown' /\ DeliveriesCounted'
  BY DEF vars, storeVars, RowsOnlySettle, WarmInv, WatchedKnown, DeliveriesCounted
<1>2. TypeOK'
  BY DEF vars, storeVars, WarmInv, TypeOK
<1> QED  BY <1>1, <1>2, NoneMoves DEF vars, storeVars

LEMMA NextKeeps ==
    ASSUME WarmInv, [Next]_vars
    PROVE  WarmInv'
<1>1. ASSUME NEW h \in Handlers, Start(h)  PROVE WarmInv'
  <2>1. CASE StartFailed(h)
    BY <2>1, FailedKeeps DEF StartFailed, Reserved, At
  <2> QED  BY <1>1, <2>1, LockKeeps, ReplayKeeps, RefuseKeeps, AdmitKeeps, ReserveKeeps,
              StartRunKeeps, StartRunFailsKeeps, AbortStartedKeeps, AttachKeeps,
              AttachLostKeeps DEF Start
<1>2. ASSUME NEW h \in Handlers, PollStep(h)  PROVE WarmInv'
  <2>1. CASE PollFails(h)
    BY <2>1, FailedKeeps DEF PollFails, Reserved, At
  <2> QED  BY <1>2, <2>1, PollReadKeeps, PollGoesOn, PollEnds, CompleteKeeps DEF PollStep
<1>3. ASSUME NEW h \in Handlers, CancelStep(h)  PROVE WarmInv'
  BY <1>3, CancelReadKeeps, CancelRunsKeeps, CancelRowKeeps DEF CancelStep
<1>4. ASSUME NEW h \in Handlers, Serve(h) \/ Crash(h)  PROVE WarmInv'
  BY <1>1, <1>2, <1>3, <1>4, CrashKeeps DEF Serve
<1> QED  BY <1>4, CellKeeps, LeaveKeeps, VendorEndsKeeps, TickKeeps, StutterKeeps DEF Next

LEMMA WarmInvariant == Spec => []WarmInv
<1>1. Init => WarmInv
  BY InitStarts
<1>2. WarmInv /\ [Next]_vars => WarmInv'
  BY NextKeeps
<1> QED  BY <1>1, <1>2, PTL DEF Spec

-------------------------------------------------------------------------------
(* What follows. *)

(* Every variable keeps its shape: the requests a handler may be, the rows the *)
(* table may hold, and the runs only a start may name.                         *)
THEOREM WarmTypeCorrect == Spec => []TypeOK
<1>1. WarmInv => TypeOK
  BY DEF WarmInv
<1> QED  BY <1>1, WarmInvariant, PTL

(* However many searches are started by however many requests at once, and     *)
(* whatever is lost or dies, no bound of the account is passed: the lock is    *)
(* held from before the counts are read until the row they admit is in.        *)
THEOREM CapsAlwaysHold == Spec => []CapsHold
<1>1. WarmInv => CapsHold
  BY DEF WarmInv
<1> QED  BY <1>1, WarmInvariant, PTL

\* A landing leaves a row that has ended as it is.
LEMMA LandLeavesEnded ==
    ASSUME NEW s \in Searches, NEW t, NEW row, WarmInv, Land(t, row),
           rows[s] # None, rows[s].status # "running"
    PROVE  rows'[s] = rows[s]
  BY DEF Land, WarmInv, TypeOK

LEMMA ServeLeavesEnded ==
    ASSUME WarmInv, NEW h \in Handlers, Serve(h), NEW s \in Searches,
           rows[s] # None, rows[s].status # "running"
    PROVE  rows'[s] = rows[s]
<1>1. CASE Start(h)
  <2>1. CASE Reserve(h)
    <3>1. rows[Mine(h)] = None /\ s # Mine(h)
      BY <2>1 DEF Reserve, WarmInv, Good, Cleared
    <3> QED  BY <2>1, <3>1 DEF Reserve, WarmInv, TypeOK
  <2>2. CASE Attach(h) \/ StartFailed(h)
    BY <2>2, LandLeavesEnded DEF Attach, StartFailed, Failed
  <2> QED  BY <1>1, <2>1, <2>2
           DEF Start, Lock, Replay, Refuse, Admit, StartRun, StartRunFails, AbortStarted,
               AttachLost, storeVars
<1>2. CASE PollStep(h)
  <2>1. CASE Complete(h) \/ PollFails(h)
    BY <2>1, LandLeavesEnded DEF Complete, PollFails, Failed
  <2> QED  BY <1>2, <2>1
           DEF PollStep, PollRead, PollSucceeded, PollGoing, PollFailed, PollLost, storeVars
<1>3. CASE CancelStep(h)
  <2>1. CASE CancelRow(h)
    BY <2>1, LandLeavesEnded DEF CancelRow
  <2> QED  BY <1>3, <2>1 DEF CancelStep, CancelRead, CancelRuns, storeVars
<1> QED  BY <1>1, <1>2, <1>3 DEF Serve

(* Once a search has ended nothing changes its row any more, whichever polls,  *)
(* attaches, failures and cancels were on their way when it did.               *)
THEOREM EndsOnlyOnce == Spec => EndsOnce
<1> DEFINE Stays == \A s \in Searches : rows[s] # None /\ rows[s].status # "running" =>
                        rows'[s] = rows[s]
<1>1. WarmInv /\ [Next]_vars => [Stays]_vars
  <2> SUFFICES ASSUME WarmInv, Next, NEW s \in Searches,
                      rows[s] # None, rows[s].status # "running"
               PROVE  rows'[s] = rows[s]
    OBVIOUS
  <2>1. CASE \E h \in Handlers : Serve(h)
    BY <2>1, ServeLeavesEnded
  <2> QED  BY <2>1 DEF Next, Search, Redeliver, Poll, Cancel, Leave, Crash, VendorEnds, Tick,
              storeVars
<1> QED  BY <1>1, WarmInvariant, PTL DEF Spec, EndsOnce

-------------------------------------------------------------------------------
(* What a result is ranked from. The runs of a search are named by the delivery *)
(* that fired them; once the handler of that delivery is gone nothing fires one *)
(* of them anew, so what has succeeded stays.                                   *)

Past(s, d) ==
    /\ d \in 1..deliveries[s]
    /\ \A h \in Handlers : Starting(h) /\ Mine(h) = s => handler[h].delivery # d
Fired(s, d) == {[search |-> s, delivery |-> d, persona |-> p] : p \in 1..knobs.personas}

\* Every run of one delivery that is over.
Batch(s, rs) == rs # {} /\ \E d \in 1..(MaxFaults + 1) : Past(s, d) /\ rs = Fired(s, d)
AllSucceeded(rs) == \A r \in rs : runs[r] = "succeeded"

Numbered ==
    /\ \A s \in Searches : page[s] = "confirm" => deliveries[s] = 0
    /\ \A h \in Handlers : Starting(h) => handler[h].delivery \in 1..deliveries[Mine(h)]
    /\ \A g, h \in Handlers :
          g # h /\ Starting(g) /\ Starting(h) /\ Mine(g) = Mine(h) =>
             handler[g].delivery # handler[h].delivery
RowBatched(s) ==
    rows[s] # None =>
        /\ rows[s].runs # {} => Batch(s, rows[s].runs)
        /\ rows[s].status = "done" =>
              Batch(s, rows[s].results) /\ AllSucceeded(rows[s].results)
PollBatched(h) ==
    /\ At(h, "poll", "ask") \/ At(h, "poll", "land") => Batch(Mine(h), Held(h))
    /\ At(h, "poll", "land") => AllSucceeded(Held(h))

ResultsInv ==
    /\ Numbered
    /\ \A s \in Searches : RowBatched(s)
    /\ \A h \in Handlers : PollBatched(h)

LEMMA ResultsFollow == ASSUME WarmInv, ResultsInv  PROVE ResultsComplete
<1> SUFFICES ASSUME NEW s \in Searches, rows[s] # None, rows[s].status = "done"
             PROVE  /\ {r.persona : r \in rows[s].results} = 1..knobs.personas
                    /\ Cardinality({r.delivery : r \in rows[s].results}) = 1
                    /\ \A r \in rows[s].results : r.search = s /\ runs[r] = "succeeded"
  BY DEF ResultsComplete
<1>1. rows[s].results # {} /\ AllSucceeded(rows[s].results)
  BY DEF ResultsInv, RowBatched, Batch
<1>2. PICK d \in 1..(MaxFaults + 1) : rows[s].results = Fired(s, d)
  BY DEF ResultsInv, RowBatched, Batch
<1>3. {r.delivery : r \in rows[s].results} = {d}
  BY <1>1, <1>2 DEF Fired
<1>4. Cardinality({d}) = 1
  BY FS_Singleton
<1>5. {r.persona : r \in rows[s].results} = 1..knobs.personas
  <2>1. ASSUME NEW p \in 1..knobs.personas  PROVE \E r \in rows[s].results : r.persona = p
    <3>1. [search |-> s, delivery |-> d, persona |-> p] \in rows[s].results
      BY <1>2 DEF Fired
    <3> QED  BY <3>1
  <2>2. ASSUME NEW r \in rows[s].results  PROVE r.persona \in 1..knobs.personas
    BY <1>2 DEF Fired
  <2> QED  BY <2>1, <2>2
<1>6. \A r \in rows[s].results : r.search = s
  BY <1>2 DEF Fired
<1> QED  BY <1>1, <1>3, <1>4, <1>5, <1>6 DEF AllSucceeded

\* What every step does, of which at most h is the handler: a start keeps its
\* search and delivery, a new one is numbered after all before it, and only a
\* start fires runs, its own.
Orderly(h) ==
    /\ knobs' = knobs
    /\ \A s \in Searches : deliveries'[s] >= deliveries[s]
    /\ \A s \in Searches : page'[s] = "confirm" => page[s] = "confirm" /\ deliveries'[s] = 0
    /\ \A g \in Handlers \ {h} : handler'[g] = handler[g]
    /\ h \in Handlers /\ Starting(h)' =>
          \/ Starting(h) /\ Mine(h)' = Mine(h) /\ handler'[h].delivery = handler[h].delivery
          \/ /\ Mine(h)' \in Searches
             /\ handler'[h].delivery = deliveries[Mine(h)'] + 1
             /\ handler'[h].delivery = deliveries'[Mine(h)']
    /\ \A r \in Run : runs[r] = "succeeded" =>
          \/ runs'[r] = "succeeded"
          \/ \E g \in Handlers :
                Starting(g) /\ r.search = Mine(g) /\ r.delivery = handler[g].delivery

LEMMA DeliveriesTyped ==
    ASSUME WarmInv, NEW s \in Searches
    PROVE  deliveries[s] \in Nat
  BY WarmAssumption DEF WarmInv, TypeOK

LEMMA StartingTyped ==
    ASSUME WarmInv, NEW h \in Handlers, Starting(h)
    PROVE  Mine(h) \in Searches
  BY ProcessTyped DEF Starting

LEMMA PastStays ==
    ASSUME WarmInv, WarmInv', ResultsInv, NEW h, Orderly(h), NEW s \in Searches, NEW d, Past(s, d)
    PROVE  Past(s, d)'
<1>1. deliveries[s] \in Nat /\ deliveries'[s] \in Nat /\ deliveries'[s] >= deliveries[s]
  <2>1. deliveries'[s] \in Nat
    BY WarmAssumption DEF WarmInv, TypeOK
  <2> QED  BY <2>1, DeliveriesTyped DEF Orderly
<1>2. d \in 1..deliveries'[s]
  BY <1>1 DEF Past
<1>3. ASSUME NEW g \in Handlers, Starting(g)', Mine(g)' = s  PROVE handler'[g].delivery # d
  <2>1. CASE g # h
    <3>1. Starting(g) /\ Mine(g) = s /\ handler'[g] = handler[g]
      BY <1>3, <2>1 DEF Orderly, Starting, Mine
    <3> QED  BY <3>1 DEF Past
  <2>2. CASE g = h
    <3>1. \/ Starting(g) /\ Mine(g) = s /\ handler'[g].delivery = handler[g].delivery
          \/ handler'[g].delivery = deliveries[s] + 1
      BY <1>3, <2>2 DEF Orderly
    <3> QED  BY <1>1, <3>1 DEF Past
  <2> QED  BY <2>1, <2>2
<1> QED  BY <1>2, <1>3 DEF Past

LEMMA BatchStays ==
    ASSUME WarmInv, WarmInv', ResultsInv, NEW h, Orderly(h), NEW s \in Searches, NEW rs, Batch(s, rs)
    PROVE  Batch(s, rs)'
<1>1. PICK d \in 1..(MaxFaults + 1) : Past(s, d) /\ rs = Fired(s, d)
  BY DEF Batch
<1>2. Past(s, d)'
  BY <1>1, PastStays
<1>3. Fired(s, d)' = Fired(s, d)
  BY DEF Orderly, Fired
<1> QED  BY <1>1, <1>2, <1>3 DEF Batch

LEMMA BatchRuns ==
    ASSUME WarmInv, NEW s \in Searches, NEW rs, Batch(s, rs), NEW r \in rs
    PROVE  /\ r \in Run /\ r.search = s
           /\ \A g \in Handlers :
                 ~(Starting(g) /\ Mine(g) = s /\ handler[g].delivery = r.delivery)
<1>1. PICK d \in 1..(MaxFaults + 1) : Past(s, d) /\ rs = Fired(s, d)
  BY DEF Batch
<1>2. PICK p \in 1..knobs.personas : r = [search |-> s, delivery |-> d, persona |-> p]
  BY <1>1 DEF Fired
<1>3. knobs.personas \in 0..MaxPersonas /\ MaxPersonas \in Nat
  BY WarmAssumption DEF WarmInv, TypeOK, Knobs
<1>4. p \in 1..MaxPersonas
  BY <1>3
<1>5. r \in Run /\ r.search = s /\ r.delivery = d
  BY <1>2, <1>4 DEF Run
<1> QED  BY <1>1, <1>5 DEF Past

LEMMA SuccessStays ==
    ASSUME WarmInv, NEW h, Orderly(h), NEW s \in Searches, NEW rs, Batch(s, rs), AllSucceeded(rs)
    PROVE  AllSucceeded(rs)'
<1> SUFFICES ASSUME NEW r \in rs  PROVE runs'[r] = "succeeded"
  BY DEF AllSucceeded
<1>1. /\ r \in Run /\ r.search = s
      /\ \A g \in Handlers : ~(Starting(g) /\ Mine(g) = s /\ handler[g].delivery = r.delivery)
  BY BatchRuns
<1>2. runs[r] = "succeeded"
  BY DEF AllSucceeded
<1> QED  BY <1>1, <1>2 DEF Orderly

LEMMA NumberedStays ==
    ASSUME WarmInv, WarmInv', ResultsInv, NEW h, Orderly(h)
    PROVE  Numbered'
<1>1. \A s \in Searches : page'[s] = "confirm" => deliveries'[s] = 0
  BY DEF Orderly
<1>2. ASSUME NEW g \in Handlers, Starting(g)'
      PROVE  /\ Mine(g)' \in Searches
             /\ \/ /\ Starting(g) /\ Mine(g)' = Mine(g)
                   /\ handler'[g].delivery = handler[g].delivery
                \/ /\ g = h /\ handler'[g].delivery = deliveries[Mine(g)'] + 1
                   /\ handler'[g].delivery = deliveries'[Mine(g)']
  <2>1. CASE g # h
    <3>1. handler'[g] = handler[g]
      BY <2>1 DEF Orderly
    <3> QED  BY <1>2, <3>1, StartingTyped DEF Starting, Mine
  <2>2. CASE g = h
    BY <1>2, <2>2, StartingTyped DEF Orderly
  <2> QED  BY <2>1, <2>2
<1>3. ASSUME NEW g \in Handlers, Starting(g)'
      PROVE  handler'[g].delivery \in 1..deliveries'[Mine(g)']
  <2> DEFINE s == Mine(g)'
  <2>1. s \in Searches
    BY <1>2, <1>3
  <2> HIDE DEF s
  <2>2. deliveries[s] \in Nat /\ deliveries'[s] \in Nat /\ deliveries'[s] >= deliveries[s]
    <3>1. deliveries'[s] \in Nat
      BY <2>1, WarmAssumption DEF WarmInv, TypeOK
    <3> QED  BY <2>1, <3>1, DeliveriesTyped DEF Orderly
  <2>3. CASE Starting(g) /\ s = Mine(g) /\ handler'[g].delivery = handler[g].delivery
    <3>1. handler[g].delivery \in 1..deliveries[s]
      BY <2>3 DEF ResultsInv, Numbered
    <3> QED  BY <2>2, <2>3, <3>1 DEF s
  <2>4. CASE handler'[g].delivery = deliveries[s] + 1 /\ handler'[g].delivery = deliveries'[s]
    BY <2>2, <2>4 DEF s
  <2> QED  BY <1>2, <1>3, <2>3, <2>4 DEF s
<1>4. ASSUME NEW g \in Handlers, NEW k \in Handlers, g # k, Starting(g)', Starting(k)',
             Mine(g)' = Mine(k)'
      PROVE  handler'[g].delivery # handler'[k].delivery
  <2> DEFINE s == Mine(g)'
  <2>1. s \in Searches /\ s = Mine(k)' /\ deliveries[s] \in Nat
    BY <1>2, <1>4, DeliveriesTyped
  <2> HIDE DEF s
  <2>2. \A x \in {g, k} :
          \/ Starting(x) /\ s = Mine(x) /\ handler'[x].delivery = handler[x].delivery
          \/ x = h /\ handler'[x].delivery = deliveries[s] + 1
    BY <1>2, <1>4, <2>1 DEF s
  <2>3. \A x \in {g, k} : Starting(x) /\ s = Mine(x) => handler[x].delivery \in 1..deliveries[s]
    BY DEF ResultsInv, Numbered
  <2>4. Starting(g) /\ Starting(k) /\ Mine(g) = Mine(k) =>
           handler[g].delivery # handler[k].delivery
    BY <1>4 DEF ResultsInv, Numbered
  <2> QED  BY <1>4, <2>1, <2>2, <2>3, <2>4
<1> QED  BY <1>1, <1>3, <1>4 DEF Numbered

\* What a step has to show of the row and the handler it moves.
RowMoves(s) ==
    rows'[s] # None =>
        /\ \/ rows[s] # None /\ rows'[s].runs = rows[s].runs
           \/ rows'[s].runs # {} => Batch(s, rows[s].runs)'
        /\ \/ rows[s] # None /\ rows[s].status = "done" /\ rows'[s].results = rows[s].results
           \/ rows'[s].status = "done" =>
                Batch(s, rows[s].results)' /\ AllSucceeded(rows[s].results)'

LEMMA ResultsStay ==
    ASSUME WarmInv, WarmInv', ResultsInv, NEW h, Orderly(h),
           \A s \in Searches : rows'[s] = rows[s] \/ RowMoves(s),
           h \in Handlers => PollBatched(h)'
    PROVE  ResultsInv'
<1>1. ASSUME NEW s \in Searches  PROVE RowBatched(s)'
  <2> SUFFICES ASSUME rows'[s] # None
               PROVE  /\ rows'[s].runs # {} => Batch(s, rows[s].runs)'
                      /\ rows'[s].status = "done" =>
                            Batch(s, rows[s].results)' /\ AllSucceeded(rows[s].results)'
    BY DEF RowBatched
  <2>1. RowBatched(s)
    BY DEF ResultsInv
  <2>2. ASSUME rows[s] # None, rows'[s].runs = rows[s].runs, rows'[s].runs # {}
        PROVE  Batch(s, rows[s].runs)'
    <3>1. Batch(s, rows[s].runs)
      BY <2>1, <2>2 DEF RowBatched
    <3>2. ASSUME NEW rs, Batch(s, rs), rs = rows'[s].runs  PROVE Batch(s, rows[s].runs)'
      <4>1. Batch(s, rs)'
        BY <3>2, BatchStays
      <4> QED  BY <3>2, <4>1 DEF Batch, Past, Fired
    <3> QED  BY <2>2, <3>1, <3>2
  <2>3. ASSUME rows[s] # None, rows[s].status = "done", rows'[s].results = rows[s].results
        PROVE  Batch(s, rows[s].results)' /\ AllSucceeded(rows[s].results)'
    <3>1. Batch(s, rows[s].results) /\ AllSucceeded(rows[s].results)
      BY <2>1, <2>3 DEF RowBatched
    <3>2. ASSUME NEW rs, Batch(s, rs), AllSucceeded(rs), rs = rows'[s].results
          PROVE  Batch(s, rows[s].results)' /\ AllSucceeded(rows[s].results)'
      <4>1. Batch(s, rs)' /\ AllSucceeded(rs)'
        BY <3>2, BatchStays, SuccessStays
      <4>2. Batch(s, rows[s].results)'
        BY <3>2, <4>1 DEF Batch, Past, Fired
      <4>3. AllSucceeded(rows[s].results)'
        BY <3>2, <4>1 DEF AllSucceeded
      <4> QED  BY <4>2, <4>3
    <3> QED  BY <2>3, <3>1, <3>2
  <2> QED  BY <2>2, <2>3 DEF RowMoves
<1>2. ASSUME NEW g \in Handlers  PROVE PollBatched(g)'
  <2>1. CASE g = h
    BY <2>1
  <2>2. CASE g # h
    <3>1. handler'[g] = handler[g]
      BY <2>2 DEF Orderly
    <3>2. PollBatched(g)
      BY DEF ResultsInv
    <3>3. handler[g] # None => Mine(g) \in Searches
      BY ProcessTyped
    <3>4. Held(g)' = Held(g) /\ Mine(g)' = Mine(g)
      BY <3>1 DEF Held, Mine
    <3>5. At(g, "poll", "ask")' \/ At(g, "poll", "land")' => Batch(Mine(g), Held(g))'
      <4> SUFFICES ASSUME At(g, "poll", "ask")' \/ At(g, "poll", "land")'
                   PROVE  Batch(Mine(g), Held(g))'
        OBVIOUS
      <4>1. Batch(Mine(g), Held(g)) /\ Mine(g) \in Searches
        BY <3>1, <3>2, <3>3 DEF At, PollBatched
      <4> DEFINE s == Mine(g)  rs == Held(g)
      <4>2. ASSUME NEW x \in Searches, NEW y, Batch(x, y), x = s', y = rs'
            PROVE  Batch(s, rs)'
        <5>1. Batch(x, y)'
          BY <4>2, BatchStays
        <5> QED  BY <4>2, <5>1 DEF Batch, Past, Fired
      <4> QED  BY <3>4, <4>1, <4>2
    <3>6. At(g, "poll", "land")' => AllSucceeded(Held(g))'
      <4> SUFFICES ASSUME At(g, "poll", "land")'  PROVE AllSucceeded(Held(g))'
        OBVIOUS
      <4>1. Batch(Mine(g), Held(g)) /\ Mine(g) \in Searches /\ AllSucceeded(Held(g))
        BY <3>1, <3>2, <3>3 DEF At, PollBatched
      <4>2. ASSUME NEW x \in Searches, NEW y, Batch(x, y), AllSucceeded(y), y = Held(g)'
            PROVE  AllSucceeded(Held(g))'
        <5>1. AllSucceeded(y)'
          BY <4>2, SuccessStays
        <5> QED  BY <4>2, <5>1 DEF AllSucceeded
      <4> QED  BY <3>4, <4>1, <4>2
    <3> QED  BY <3>5, <3>6 DEF PollBatched
  <2> QED  BY <2>1, <2>2
<1>3. Numbered'
  BY NumberedStays
<1> QED  BY <1>1, <1>2, <1>3 DEF ResultsInv

-------------------------------------------------------------------------------
(* The steps, one by one. *)

KeepsHandler(h) ==
    /\ \A g \in Handlers \ {h} : handler'[g] = handler[g]
    /\ handler'[h] # None =>
         /\ handler'[h].job = handler[h].job /\ handler'[h].search = handler[h].search
         /\ handler'[h].delivery = handler[h].delivery

LEMMA HandlerKept ==
    ASSUME WarmInv, NEW h \in Handlers, handler[h] # None,
           \/ End(h)
           \/ \E step \in Steps : Goto(h, step)
           \/ \E step \in Steps, held \in SUBSET Run : Take(h, step, held)
           \/ Committed(h)
    PROVE  KeepsHandler(h)
<1>1. handler[h] \in Process
  BY ProcessTyped
<1>2. CASE End(h)
  BY <1>2, EndMoves DEF KeepsHandler
<1>3. ASSUME NEW step \in Steps, Goto(h, step)  PROVE KeepsHandler(h)
  <2>1. /\ handler'[h] = [handler[h] EXCEPT !.at = step]
        /\ \A g \in Handlers \ {h} : handler'[g] = handler[g]
    BY <1>3, GotoMoves
  <2> QED  BY <1>1, <2>1 DEF KeepsHandler, Process
<1>4. ASSUME NEW step \in Steps, NEW held \in SUBSET Run, Take(h, step, held)
      PROVE  KeepsHandler(h)
  <2>1. /\ handler'[h] = [handler[h] EXCEPT !.at = step, !.held = held]
        /\ \A g \in Handlers \ {h} : handler'[g] = handler[g]
    BY <1>4, TakeMoves
  <2> QED  BY <1>1, <2>1 DEF KeepsHandler, Process
<1>5. CASE Committed(h)
  <2>1. handler' = [handler EXCEPT ![h] = [handler[h] EXCEPT !.at = "vendor", !.asof = 0]]
    BY <1>5 DEF Committed
  <2>2. /\ handler'[h] = [handler[h] EXCEPT !.at = "vendor", !.asof = 0]
        /\ \A g \in Handlers \ {h} : handler'[g] = handler[g]
    BY <2>1 DEF WarmInv, TypeOK
  <2> QED  BY <1>1, <2>2 DEF KeepsHandler, Process
<1> QED  BY <1>2, <1>3, <1>4, <1>5

\* Only a start fires a run, and one of its own.
RunsKept ==
    \A r \in Run : runs[r] = "succeeded" =>
        \/ runs'[r] = "succeeded"
        \/ \E g \in Handlers :
              Starting(g) /\ r.search = Mine(g) /\ r.delivery = handler[g].delivery
PageKept == \A s \in Searches : page'[s] = "confirm" => page[s] = "confirm"

LEMMA TellKeepsPage ==
    ASSUME WarmInv, NEW s, NEW from, NEW status, Tell(s, from, status)
    PROVE  PageKept
  BY DEF Tell, PageKept, WarmInv, TypeOK

LEMMA AbortingKeepsRuns ==
    ASSUME WarmInv, NEW rs, Aborting(rs)
    PROVE  RunsKept
<1>1. PICK lost \in SUBSET rs :
        runs' = [r \in Run |-> IF r \in rs \ lost /\ runs[r] = "going"
                               THEN "aborted" ELSE runs[r]]
  BY DEF Aborting
<1> QED  BY <1>1 DEF RunsKept

LEMMA FiringKeepsRuns ==
    ASSUME WarmInv, NEW h \in Handlers, At(h, "start", "vendor"),
           runs' = [runs EXCEPT ![NextRun(h)] = "going"]
    PROVE  RunsKept
<1>1. NextRun(h).search = Mine(h) /\ NextRun(h).delivery = handler[h].delivery
  BY DEF NextRun
<1>2. Starting(h)
  BY DEF At, Starting
<1> HIDE DEF NextRun
<1>3. ASSUME NEW r \in Run, r # NextRun(h)  PROVE runs'[r] = runs[r]
  BY <1>3 DEF WarmInv, TypeOK
<1> QED  BY <1>1, <1>2, <1>3 DEF RunsKept

LEMMA ServingIsOrderly ==
    ASSUME WarmInv, ResultsInv, NEW h \in Handlers, handler[h] # None, KeepsHandler(h),
           RunsKept, PageKept, UNCHANGED <<knobs, deliveries>>
    PROVE  Orderly(h)
<1>1. \A s \in Searches : deliveries'[s] >= deliveries[s]
  BY DeliveriesTyped
<1>2. \A s \in Searches : page'[s] = "confirm" => page[s] = "confirm" /\ deliveries'[s] = 0
  BY DEF PageKept, ResultsInv, Numbered
<1>3. Starting(h)' => Starting(h) /\ Mine(h)' = Mine(h)
                      /\ handler'[h].delivery = handler[h].delivery
  BY DEF KeepsHandler, Starting, Mine
<1> QED  BY <1>1, <1>2, <1>3 DEF Orderly, KeepsHandler, RunsKept

\* A step that ends its handler, or moves one that is not a poll, says nothing of
\* what is polled.
LEMMA NoPoll ==
    ASSUME NEW h \in Handlers, KeepsHandler(h), handler'[h] = None \/ handler[h].job # "poll"
    PROVE  PollBatched(h)'
  BY DEF KeepsHandler, PollBatched, At

\* A landing that leaves the runs and the results of the row as they are.
LEMMA LandedElsewhere ==
    ASSUME WarmInv, NEW t \in Searches, rows[t] # None,
           NEW status, status # "done", Land(t, [rows[t] EXCEPT !.status = status])
    PROVE  \A s \in Searches : rows'[s] = rows[s] \/ RowMoves(s)
<1>1. rows[t] \in Row
  BY DEF WarmInv, TypeOK
<1> DEFINE row == [rows[t] EXCEPT !.status = status]
<1>2. row.runs = rows[t].runs /\ row.status = status
  BY <1>1 DEF Row
<1>3. Land(t, row)
  OBVIOUS
<1> HIDE DEF row
<1>4. ASSUME NEW s \in Searches  PROVE rows'[s] = rows[s] \/ (s = t /\ rows'[s] = row)
  BY <1>3 DEF Land, WarmInv, TypeOK
<1> QED  BY <1>2, <1>4 DEF RowMoves

LEMMA StartBatches ==
    ASSUME WarmInv, WarmInv', ResultsInv, NEW h \in Handlers, Start(h)
    PROVE  ResultsInv'
<1>1. handler[h] # None /\ handler[h].job = "start" /\ Starting(h)
  BY DEF Start, Lock, Replay, Refuse, Admit, Reserve, StartRun, StartRunFails, AbortStarted,
         Attach, AttachLost, StartFailed, At, Starting
<1>2. KeepsHandler(h)
  <2>1. CASE StartRun(h)
    <3>1. Held(h) \cup {NextRun(h)} \in SUBSET Run
      BY <1>1, <2>1, NextRunCounts, ProcessTyped DEF StartRun
    <3> QED  BY <1>1, <2>1, <3>1, HandlerKept DEF StartRun, Steps
  <2>2. CASE Lock(h) \/ Admit(h) \/ StartRunFails(h) \/ AbortStarted(h)
    BY <1>1, <2>2, HandlerKept DEF Lock, Admit, StartRunFails, AbortStarted, Steps
  <2>3. CASE Replay(h) \/ Reserve(h)
    BY <1>1, <2>3, HandlerKept DEF Replay, Reserve
  <2>4. CASE Refuse(h) \/ Attach(h) \/ AttachLost(h) \/ StartFailed(h)
    BY <1>1, <2>4, HandlerKept DEF Refuse, Attach, AttachLost, StartFailed, Failed
  <2> QED  BY <2>1, <2>2, <2>3, <2>4 DEF Start
<1>3. RunsKept
  <2>1. CASE runs' = runs
    BY <2>1 DEF RunsKept
  <2>2. CASE StartRun(h) \/ StartRunFails(h)
    BY <2>1, <2>2, FiringKeepsRuns DEF StartRun, StartRunFails
  <2>3. CASE AbortStarted(h)
    BY <2>3, AbortingKeepsRuns DEF AbortStarted
  <2> QED  BY <2>1, <2>2, <2>3 DEF Start, Lock, Replay, Refuse, Admit, Reserve, Attach,
              AttachLost, StartFailed, Failed
<1>4. PageKept
  <2>1. CASE page' = page
    BY <2>1 DEF PageKept
  <2>2. CASE Refuse(h)
    BY <2>2 DEF Refuse, PageKept, WarmInv, TypeOK
  <2>3. CASE Attach(h) \/ AttachLost(h) \/ StartFailed(h)
    BY <2>3, TellKeepsPage DEF Attach, AttachLost, StartFailed, Failed
  <2> QED  BY <2>1, <2>2, <2>3 DEF Start, Lock, Replay, Admit, Reserve, StartRun, StartRunFails,
              AbortStarted
<1>5. UNCHANGED <<knobs, deliveries>>
  BY DEF Start, Lock, Replay, Refuse, Admit, Reserve, StartRun, StartRunFails, AbortStarted,
         Attach, AttachLost, StartFailed, Failed
<1>6. Orderly(h) /\ PollBatched(h)'
  BY <1>1, <1>2, <1>3, <1>4, <1>5, ServingIsOrderly, NoPoll
<1>7. \A s \in Searches : rows'[s] = rows[s] \/ RowMoves(s)
  <2>1. CASE rows' = rows
    BY <2>1
  <2>2. CASE Reserve(h)
    <3> DEFINE row == [status |-> "running", runs |-> {}, results |-> {},
                       created |-> handler[h].asof]
    <3>1. rows' = [rows EXCEPT ![Mine(h)] = row]
      BY <2>2 DEF Reserve
    <3>2. row.status = "running" /\ row.runs = {}
      OBVIOUS
    <3> HIDE DEF row
    <3>3. ASSUME NEW s \in Searches  PROVE rows'[s] = rows[s] \/ rows'[s] = row
      BY <3>1 DEF WarmInv, TypeOK
    <3> QED  BY <3>2, <3>3 DEF RowMoves
  <2>3. CASE Attach(h)
    <3>1. At(h, "start", "vendor") /\ Reserved(h)
      BY <2>3 DEF Attach, Reserved, At
    <3>2. rows[Mine(h)] \in Row /\ rows[Mine(h)] # None /\ Mine(h) \in Searches
      BY <3>1, ReservedRow, NoneAssumption
    <3> DEFINE s == Mine(h)  d == handler[h].delivery  held == Held(h)
               row == [rows[s] EXCEPT !.runs = held]
    <3>3. d \in 1..(MaxFaults + 1) /\ held = Fired(s, d)
      BY <1>1, <2>3 DEF Attach, AllStarted, WarmInv, Good, HoldsOwn, OwnRuns, Fired
    <3>4. Land(s, row) /\ handler'[h] = None
      BY <2>3, EndMoves DEF Attach
    <3> HIDE DEF d, held, s, row
    <3>5. row.runs = held /\ row.status = rows[s].status /\ row.results = rows[s].results
      BY <3>2 DEF row, Row, s
    <3>6. ASSUME NEW x \in Searches, NEW y, x = s, y = d  PROVE Past(x, y)'
      <4>1. y \in 1..deliveries'[x]
        BY <1>1, <1>5, <3>6 DEF s, d, ResultsInv, Numbered
      <4>2. ASSUME NEW g \in Handlers, Starting(g)', Mine(g)' = x
            PROVE  handler'[g].delivery # y
        <5>1. g # h
          BY <3>4, <4>2 DEF Starting
        <5>2. handler'[g] = handler[g] /\ Starting(g) /\ Mine(g) = Mine(h)
          BY <1>2, <3>6, <4>2, <5>1 DEF KeepsHandler, Starting, Mine, s
        <5> QED  BY <1>1, <3>6, <5>1, <5>2 DEF d, ResultsInv, Numbered
      <4> QED  BY <4>1, <4>2 DEF Past
    <3>7. ASSUME NEW x \in Searches, x = s  PROVE rows'[x] = rows[x] \/ RowMoves(x)
      <4>1. rows'[x] = rows[x] \/ rows'[x] = row
        BY <3>2, <3>4, <3>7 DEF Land, WarmInv, TypeOK
      <4>2. ASSUME rows'[x] = row, row.runs # {}  PROVE Batch(x, rows[x].runs)'
        <5>1. PICK y \in 1..(MaxFaults + 1) : y = d
          BY <3>3
        <5>2. Past(x, y)'
          BY <3>6, <3>7, <5>1
        <5>3. rows'[x].runs = Fired(x, y)
          BY <3>3, <3>5, <3>7, <4>2, <5>1 DEF Fired
        <5>4. rows'[x].runs = Fired(x, y)'
          BY <1>5, <5>3 DEF Fired
        <5> QED  BY <3>5, <4>2, <5>2, <5>4 DEF Batch
      <4>3. rows[x] # None
        BY <3>2, <3>7 DEF s
      <4>4. ASSUME rows'[x] = row, rows'[x].status = "done"
            PROVE  rows[x].status = "done" /\ rows'[x].results = rows[x].results
        BY <3>5, <3>7, <4>4
      <4> QED  BY <3>5, <4>1, <4>2, <4>3, <4>4 DEF RowMoves
    <3>8. ASSUME NEW x \in Searches, x # s  PROVE rows'[x] = rows[x]
      BY <3>4, <3>8 DEF Land, WarmInv, TypeOK
    <3> QED  BY <3>7, <3>8
  <2>4. CASE StartFailed(h)
    <3>1. rows[Mine(h)] # None /\ Mine(h) \in Searches
      BY <2>4, ReservedRow, NoneAssumption DEF StartFailed, Reserved, At
    <3> QED  BY <2>4, <3>1, LandedElsewhere DEF StartFailed, Failed
  <2> QED  BY <2>1, <2>2, <2>3, <2>4 DEF Start, Lock, Replay, Refuse, Admit, StartRun,
              StartRunFails, AbortStarted, AttachLost, storeVars
<1> QED  BY <1>6, <1>7, ResultsStay

LEMMA PollBatches ==
    ASSUME WarmInv, WarmInv', ResultsInv, NEW h \in Handlers, PollStep(h)
    PROVE  ResultsInv'
<1>1. handler[h] # None /\ handler[h].job = "poll"
  BY DEF PollStep, PollRead, PollSucceeded, PollGoing, PollFailed, PollLost, Complete, PollFails, At
<1>2. Mine(h) \in Searches /\ Reserved(h)
  BY <1>1, ProcessTyped DEF Reserved
<1>3. rows[Mine(h)] \in Row /\ rows[Mine(h)] # None
  BY <1>2, ReservedRow, NoneAssumption
<1>4. KeepsHandler(h)
  <2>1. CASE PollRead(h) /\ Take(h, "ask", rows[Mine(h)].runs)
    <3>1. rows[Mine(h)].runs \in SUBSET Run
      BY <1>3 DEF Row
    <3> QED  BY <1>1, <2>1, <3>1, HandlerKept DEF Steps
  <2>2. CASE PollSucceeded(h) \/ PollFailed(h)
    BY <1>1, <2>2, HandlerKept DEF PollSucceeded, PollFailed, Steps
  <2>3. CASE End(h)
    BY <1>1, <2>3, HandlerKept
  <2> QED  BY <2>1, <2>2, <2>3
           DEF PollStep, PollRead, PollGoing, PollLost, Complete, PollFails, Failed
<1>5. RunsKept /\ UNCHANGED <<knobs, deliveries>>
  BY DEF RunsKept, PollStep, PollRead, PollSucceeded, PollGoing, PollFailed, PollLost, Complete,
         PollFails, Failed
<1>6. PageKept
  <2>1. CASE page' = page
    BY <2>1 DEF PageKept
  <2>2. CASE PollRead(h) \/ Complete(h) \/ PollFails(h)
    BY <2>1, <2>2, TellKeepsPage DEF PollRead, Complete, PollFails, Failed
  <2> QED  BY <2>1, <2>2 DEF PollStep, PollSucceeded, PollGoing, PollFailed, PollLost
<1>7. Orderly(h)
  BY <1>1, <1>4, <1>5, <1>6, ServingIsOrderly
<1>8. handler[h] \in Process
  BY <1>1, ProcessTyped
<1>9. PollBatched(h)'
  <2>1. CASE handler'[h] = None
    BY <1>4, <2>1, NoPoll
  <2>2. CASE Take(h, "ask", rows[Mine(h)].runs) /\ rows[Mine(h)].runs # {}
    <3> DEFINE held == rows[Mine(h)].runs
    <3>1. Batch(Mine(h), held) /\ held \in SUBSET Run
      BY <1>2, <1>3, <2>2 DEF ResultsInv, RowBatched, Row
    <3>2. Take(h, "ask", held)
      BY <2>2
    <3> HIDE DEF held
    <3>3. handler'[h] = [handler[h] EXCEPT !.at = "ask", !.held = held]
      BY <1>1, <3>1, <3>2, TakeMoves DEF Steps
    <3>4. handler'[h].at = "ask" /\ Held(h)' = held /\ Mine(h)' = Mine(h)
      BY <1>8, <3>3 DEF Process, Held, Mine
    <3>5. ASSUME NEW x \in Searches, NEW y, Batch(x, y), x = Mine(h)', y = Held(h)'
          PROVE  Batch(Mine(h), Held(h))'
      <4>1. Batch(x, y)'
        BY <1>7, <3>5, BatchStays
      <4> QED  BY <3>5, <4>1 DEF Batch, Past, Fired
    <3>6. Batch(Mine(h), Held(h))'
      BY <1>2, <3>1, <3>4, <3>5
    <3> QED  BY <3>4, <3>6 DEF PollBatched, At
  <2>3. CASE PollSucceeded(h)
    <3>1. handler'[h] = [handler[h] EXCEPT !.at = "land"] /\ runs' = runs
      BY <1>1, <2>3, GotoMoves DEF PollSucceeded, Steps
    <3>2. Held(h)' = Held(h) /\ Mine(h)' = Mine(h)
      BY <1>8, <3>1 DEF Process, Held, Mine
    <3>3. Batch(Mine(h), Held(h))
      BY <2>3 DEF PollSucceeded, ResultsInv, PollBatched
    <3>4. ASSUME NEW x \in Searches, NEW y, Batch(x, y), x = Mine(h)', y = Held(h)'
          PROVE  Batch(Mine(h), Held(h))'
      <4>1. Batch(x, y)'
        BY <1>7, <3>4, BatchStays
      <4> QED  BY <3>4, <4>1 DEF Batch, Past, Fired
    <3>5. Batch(Mine(h), Held(h))'
      BY <1>2, <3>2, <3>3, <3>4
    <3>6. AllSucceeded(Held(h))'
      BY <2>3, <3>1, <3>2 DEF PollSucceeded, Succeeded, AllSucceeded
    <3> QED  BY <3>5, <3>6 DEF PollBatched
  <2>4. CASE PollFailed(h)
    <3>1. handler'[h] = [handler[h] EXCEPT !.at = "fail"]
      BY <1>1, <2>4, GotoMoves DEF PollFailed, Steps
    <3>2. handler'[h].at = "fail"
      BY <1>8, <3>1 DEF Process
    <3> QED  BY <3>2 DEF PollBatched, At
  <2>5. CASE End(h)
    BY <2>1, <2>5, EndMoves
  <2> QED  BY <2>2, <2>3, <2>4, <2>5
           DEF PollStep, PollRead, PollGoing, PollLost, Complete, PollFails, Failed
<1>10. \A s \in Searches : rows'[s] = rows[s] \/ RowMoves(s)
  <2>1. CASE rows' = rows
    BY <2>1
  <2>2. CASE PollFails(h)
    BY <1>2, <1>3, <2>2, LandedElsewhere DEF PollFails, Failed
  <2>3. CASE Complete(h)
    <3> DEFINE s == Mine(h)  held == Held(h)
               row == [rows[s] EXCEPT !.status = "done", !.results = held]
    <3>1. Batch(s, held) /\ AllSucceeded(held)
      BY <2>3 DEF Complete, ResultsInv, PollBatched
    <3>2. Land(s, row)
      BY <2>3 DEF Complete
    <3>3. row.runs = rows[s].runs /\ row.results = held
      BY <1>3 DEF Row
    <3>4. s \in Searches /\ rows[s] # None
      BY <1>2, <1>3
    <3> HIDE DEF s, held, row
    <3>5. ASSUME NEW x \in Searches, x = s, NEW y, y = held  PROVE rows'[x] = rows[x] \/ RowMoves(x)
      <4>1. rows'[x] = rows[x] \/ rows'[x] = row
        BY <3>2, <3>4, <3>5 DEF Land, WarmInv, TypeOK
      <4>2. Batch(x, y) /\ AllSucceeded(y)
        BY <3>1, <3>5
      <4>3. Batch(x, y)' /\ AllSucceeded(y)'
        BY <1>7, <4>2, BatchStays, SuccessStays
      <4>4. ASSUME rows'[x] = row
            PROVE  Batch(x, rows[x].results)' /\ AllSucceeded(rows[x].results)'
        <5>1. rows'[x].results = y
          BY <3>3, <3>5, <4>4
        <5>2. Batch(x, rows[x].results)'
          BY <4>3, <5>1 DEF Batch, Past, Fired
        <5>3. AllSucceeded(rows[x].results)'
          BY <4>3, <5>1 DEF AllSucceeded
        <5> QED  BY <5>2, <5>3
      <4>5. rows'[x] = row => rows[x] # None /\ rows'[x].runs = rows[x].runs
        BY <3>3, <3>4, <3>5
      <4> QED  BY <4>1, <4>4, <4>5 DEF RowMoves
    <3>6. ASSUME NEW x \in Searches, x # s  PROVE rows'[x] = rows[x]
      BY <3>2, <3>6 DEF Land, WarmInv, TypeOK
    <3> QED  BY <3>5, <3>6
  <2> QED  BY <2>1, <2>2, <2>3 DEF PollStep, PollRead, PollSucceeded, PollGoing, PollFailed,
              PollLost, storeVars
<1> QED  BY <1>7, <1>9, <1>10, ResultsStay

LEMMA CancelBatches ==
    ASSUME WarmInv, WarmInv', ResultsInv, NEW h \in Handlers, CancelStep(h)
    PROVE  ResultsInv'
<1>1. handler[h] # None /\ handler[h].job = "cancel"
  BY DEF CancelStep, CancelRead, CancelRuns, CancelRow, At
<1>2. Mine(h) \in Searches /\ rows[Mine(h)] \in Row /\ rows[Mine(h)] # None
  BY <1>1, ReservedRow, NoneAssumption DEF Reserved
<1>3. KeepsHandler(h)
  <2>1. CASE CancelRead(h)
    <3>1. rows[Mine(h)].runs \in SUBSET Run
      BY <1>2 DEF Row
    <3> QED  BY <1>1, <2>1, <3>1, HandlerKept DEF CancelRead, Steps
  <2>2. CASE CancelRuns(h) \/ CancelRow(h)
    BY <1>1, <2>2, HandlerKept DEF CancelRuns, CancelRow, Steps
  <2> QED  BY <2>1, <2>2 DEF CancelStep
<1>4. RunsKept
  <2>1. CASE CancelRuns(h)
    BY <2>1, AbortingKeepsRuns DEF CancelRuns
  <2> QED  BY <2>1 DEF CancelStep, CancelRead, CancelRow, RunsKept
<1>5. PageKept /\ UNCHANGED <<knobs, deliveries>>
  BY DEF PageKept, CancelStep, CancelRead, CancelRuns, CancelRow
<1>6. Orderly(h) /\ PollBatched(h)'
  BY <1>1, <1>3, <1>4, <1>5, ServingIsOrderly, NoPoll
<1>7. \A s \in Searches : rows'[s] = rows[s] \/ RowMoves(s)
  <2>1. CASE CancelRow(h)
    BY <1>2, <2>1, LandedElsewhere DEF CancelRow
  <2> QED  BY <2>1 DEF CancelStep, CancelRead, CancelRuns, storeVars
<1> QED  BY <1>6, <1>7, ResultsStay

LEMMA CrashBatches ==
    ASSUME WarmInv, WarmInv', ResultsInv, NEW h \in Handlers, Crash(h)
    PROVE  ResultsInv'
<1>1. handler[h] # None /\ KeepsHandler(h) /\ handler'[h] = None
  BY HandlerKept, EndMoves DEF Crash
<1>2. RunsKept /\ PageKept /\ UNCHANGED <<knobs, deliveries>> /\ rows' = rows
  BY DEF Crash, RunsKept, PageKept, WarmInv, TypeOK
<1>3. Orderly(h) /\ PollBatched(h)'
  BY <1>1, <1>2, ServingIsOrderly, NoPoll
<1> QED  BY <1>2, <1>3, ResultsStay

\* A request that is taken up. A start is numbered after all deliveries before it.
LEMMA BeginBatches ==
    ASSUME WarmInv, WarmInv', ResultsInv, NEW h \in Handlers, NEW s \in Searches,
           NEW job \in {"start", "poll", "cancel"}, NEW step \in {"lock", "read"},
           Begin(h, job, s, step), UNCHANGED <<rows, runs, knobs>>, PageKept,
           \A x \in Searches \ {s} : deliveries'[x] = deliveries[x],
           deliveries'[s] = (IF job = "start" THEN deliveries[s] + 1 ELSE deliveries[s]),
           job = "start" => page'[s] # "confirm"
    PROVE  ResultsInv'
<1> DEFINE new == [job |-> job, search |-> s, at |-> step, held |-> {},
                   asof |-> IF job = "start" THEN now ELSE 0, delivery |-> deliveries'[s]]
<1>1. handler' = [handler EXCEPT ![h] = new]
  BY DEF Begin
<1>2. new.job = job /\ new.search = s /\ new.at = step /\ new.delivery = deliveries'[s]
  OBVIOUS
<1> HIDE DEF new
<1>3. handler'[h] = new /\ \A g \in Handlers \ {h} : handler'[g] = handler[g]
  BY <1>1 DEF WarmInv, TypeOK
<1>4. PollBatched(h)'
  BY <1>2, <1>3 DEF PollBatched, At
<1>5. \A x \in Searches : deliveries[x] \in Nat
  BY DeliveriesTyped
<1>6. \A x \in Searches : deliveries'[x] >= deliveries[x]
  BY <1>5
<1>7. \A x \in Searches : page'[x] = "confirm" => page[x] = "confirm" /\ deliveries'[x] = 0
  BY DEF PageKept, ResultsInv, Numbered
<1>8. Starting(h)' => /\ Mine(h)' \in Searches
                      /\ handler'[h].delivery = deliveries[Mine(h)'] + 1
                      /\ handler'[h].delivery = deliveries'[Mine(h)']
  BY <1>2, <1>3 DEF Starting, Mine
<1>9. Orderly(h)
  BY <1>3, <1>6, <1>7, <1>8 DEF Orderly
<1> QED  BY <1>4, <1>9, ResultsStay

LEMMA CellBatches ==
    ASSUME WarmInv, WarmInv', ResultsInv, NEW h \in Handlers, NEW s \in Searches,
           Search(h, s) \/ Redeliver(h, s) \/ Poll(h, s) \/ Cancel(h, s)
    PROVE  ResultsInv'
<1>1. page \in [Searches -> Pages] /\ deliveries \in [Searches -> 0..(MaxFaults + 1)]
  BY DEF WarmInv, TypeOK
<1>2. CASE Search(h, s)
  <2>1. deliveries[s] = 0
    BY <1>2 DEF Search, ResultsInv, Numbered
  <2>2. PageKept /\ page'[s] # "confirm"
    BY <1>1, <1>2 DEF Search, PageKept
  <2>3. deliveries'[s] = deliveries[s] + 1
        /\ \A x \in Searches \ {s} : deliveries'[x] = deliveries[x]
    BY <1>1, <1>2, <2>1 DEF Search
  <2> QED  BY <1>2, <2>2, <2>3, BeginBatches DEF Search, storeVars
<1>3. CASE Redeliver(h, s)
  <2>1. PageKept /\ page'[s] # "confirm"
    BY <1>3 DEF Redeliver, PageKept
  <2>2. deliveries'[s] = deliveries[s] + 1
        /\ \A x \in Searches \ {s} : deliveries'[x] = deliveries[x]
    BY <1>1, <1>3 DEF Redeliver
  <2> QED  BY <1>3, <2>1, <2>2, BeginBatches DEF Redeliver, storeVars
<1>4. CASE Poll(h, s)
  <2>1. PageKept /\ deliveries' = deliveries
    BY <1>4 DEF Poll, PageKept
  <2> QED  BY <1>4, <2>1, BeginBatches DEF Poll, storeVars
<1>5. CASE Cancel(h, s)
  <2>1. PageKept /\ deliveries' = deliveries
    BY <1>1, <1>5 DEF Cancel, PageKept
  <2> QED  BY <1>5, <2>1, BeginBatches DEF Cancel, storeVars
<1> QED  BY <1>2, <1>3, <1>4, <1>5

\* A step of no handler.
LEMMA QuietBatches ==
    ASSUME WarmInv, WarmInv', ResultsInv, UNCHANGED <<knobs, rows, handler, deliveries>>,
           RunsKept, PageKept
    PROVE  ResultsInv'
<1>1. PICK h : h \notin Handlers
  BY NoneAssumption
<1>2. \A s \in Searches : deliveries'[s] >= deliveries[s]
  BY DeliveriesTyped
<1>3. \A s \in Searches : page'[s] = "confirm" => page[s] = "confirm" /\ deliveries'[s] = 0
  BY DEF PageKept, ResultsInv, Numbered
<1>4. Orderly(h)
  BY <1>1, <1>2, <1>3 DEF Orderly, RunsKept
<1> QED  BY <1>1, <1>4, ResultsStay

LEMMA ResultsStart == ASSUME Init  PROVE ResultsInv
  BY DEF Init, ResultsInv, Numbered, RowBatched, PollBatched, Starting, At

LEMMA ResultsStep ==
    ASSUME WarmInv, WarmInv', ResultsInv, [Next]_vars
    PROVE  ResultsInv'
<1>1. CASE UNCHANGED vars
  BY <1>1, QuietBatches DEF vars, storeVars, RunsKept, PageKept
<1>2. ASSUME NEW s \in Searches, Leave(s)  PROVE ResultsInv'
  <2>1. RunsKept /\ PageKept
    BY <1>2 DEF Leave, RunsKept, PageKept, WarmInv, TypeOK
  <2> QED  BY <1>2, <2>1, QuietBatches DEF Leave, storeVars
<1>3. ASSUME NEW r \in Run, VendorEnds(r)  PROVE ResultsInv'
  <2>1. RunsKept /\ PageKept
    BY <1>3 DEF VendorEnds, RunsKept, PageKept, WarmInv, TypeOK
  <2> QED  BY <1>3, <2>1, QuietBatches DEF VendorEnds, storeVars
<1>4. CASE Tick
  BY <1>4, QuietBatches DEF Tick, storeVars, RunsKept, PageKept
<1>5. ASSUME NEW h \in Handlers, Serve(h)  PROVE ResultsInv'
  BY <1>5, StartBatches, PollBatches, CancelBatches DEF Serve
<1> QED  BY <1>1, <1>2, <1>3, <1>4, <1>5, CrashBatches, CellBatches DEF Next

(* What a search returns is ranked from every one of its personas, from the    *)
(* runs of one delivery of the start, each of which succeeded: a second        *)
(* delivery fires runs of its own and never touches those of a batch on record. *)
THEOREM RankedFromAll == Spec => []ResultsComplete
<1>1. Init => ResultsInv
  BY ResultsStart
<1>2. WarmInv /\ WarmInv' /\ ResultsInv /\ [Next]_vars => ResultsInv'
  BY ResultsStep
<1>3. WarmInv /\ ResultsInv => ResultsComplete
  BY ResultsFollow
<1> QED  BY <1>1, <1>2, <1>3, WarmInvariant, PTL DEF Spec
===============================================================================
