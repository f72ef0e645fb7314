----------------------------- MODULE BoardRotation -----------------------------
(* The order in which the sweep walks its boards (monitor.run): a run that its   *)
(* budget stops parks the first board it did not reach, and the next run starts  *)
(* there and wraps. PushOutbox says what is done at a board.                     *)
EXTENDS Integers, FiniteSets

CONSTANTS
    Companies,       \* how many boards there may be, numbered as the list has them
    FetchChunk,      \* boards per fetch-and-flush (FETCH_CHUNK)
    MaxListings,     \* bound: boards that join or leave the list
    MaxKills         \* bound: runs that die before they park

ASSUME RotationAssumption == Companies \in Nat /\ FetchChunk \in Nat \ {0}

VARIABLES
    listedBoards,    \* the boards on the list now
    parked,          \* the cursor: a board, or Nowhere
    tour,            \* the run: where it began, and the boards it has not come to yet
    waits,           \* runs that ended since each board was last fetched
    listings, kills

rotationVars == <<listedBoards, parked, tour, waits, listings, kills>>

Stops == 1..Companies
Nowhere == 0
AtRest == [on |-> FALSE]

-------------------------------------------------------------------------------

\* A cursor whose board has left the list is as good as none.
From == IF parked \in listedBoards THEN parked ELSE 1

\* How far down the list b is from a board, past the end and round.
Away(from, b) == IF b >= from THEN b - from ELSE b - from + Companies

\* A run over an empty list is over at once and clears the cursor.
StartTour ==
    /\ ~tour.on
    /\ IF listedBoards = {}
       THEN parked' = Nowhere /\ UNCHANGED tour
       ELSE /\ tour' = [on |-> TRUE, from |-> From, left |-> listedBoards,
                        resumed |-> parked # Nowhere, fresh |-> TRUE]
            /\ UNCHANGED parked
    /\ UNCHANGED <<listedBoards, waits, listings, kills>>

\* Of what is left, the boards the run comes to before b.
Ahead(b) == {c \in tour.left : Away(tour.from, c) < Away(tour.from, b)}
CurrentChunk == {b \in tour.left : Cardinality(Ahead(b)) < FetchChunk}

Nearest(boards) ==
    CHOOSE b \in boards : \A c \in boards : Away(tour.from, b) <= Away(tour.from, c)

Ended(fetched) ==
    [b \in Stops |-> IF b \in fetched \/ b \notin listedBoards THEN 0 ELSE waits[b] + 1]

\* The run is over. A stopped run parks a board, a whole one clears the cursor.
ParksAt(next, fetched) ==
    /\ tour' = AtRest
    /\ waits' = Ended(fetched)
    /\ parked' = IF next # Nowhere THEN next
                  ELSE IF tour.resumed THEN Nowhere ELSE parked

\* A chunk that is fetched whole.
VisitChunk ==
    /\ tour.on
    /\ IF CurrentChunk = tour.left
       THEN ParksAt(Nowhere, CurrentChunk)
       ELSE /\ tour' = [tour EXCEPT !.left = @ \ CurrentChunk, !.fresh = FALSE]
            /\ waits' = [b \in Stops |-> IF b \in CurrentChunk THEN 0 ELSE waits[b]]
            /\ UNCHANGED parked
    /\ UNCHANGED <<listedBoards, listings, kills>>

\* The budget is spent before a chunk begins; a run that has just begun has it.
StopBetweenChunks ==
    /\ tour.on /\ ~tour.fresh
    /\ ParksAt(Nearest(tour.left), {})
    /\ UNCHANGED <<listedBoards, listings, kills>>

\* Mutant of FirstMissing: what came back is taken for the head of the chunk.
FirstUncounted(fetched) ==
    CHOOSE b \in CurrentChunk : Cardinality(Ahead(b)) = Cardinality(fetched)

FirstMissing(fetched) == Nearest(CurrentChunk \ fetched)

\* The budget is spent while a chunk is fetched: what has not come back yet is
\* ignored. One board takes less than a budget, so the first of a run comes back.
StopInChunk ==
    /\ tour.on
    /\ \E fetched \in SUBSET CurrentChunk :
          /\ fetched # {} /\ fetched # CurrentChunk
          /\ tour.fresh => Nearest(tour.left) \in fetched
          /\ ParksAt(FirstMissing(fetched), fetched)
    /\ UNCHANGED <<listedBoards, listings, kills>>

\* A kill, or a cursor that cannot be written: what was flushed stays flushed.
Killed ==
    /\ tour.on
    /\ kills < MaxKills
    /\ kills' = kills + 1
    /\ tour' = AtRest
    /\ UNCHANGED <<listedBoards, parked, waits, listings>>

Relist(b) ==
    /\ listings < MaxListings
    /\ listings' = listings + 1
    /\ listedBoards' = IF b \in listedBoards THEN listedBoards \ {b} ELSE listedBoards \cup {b}
    /\ waits' = [waits EXCEPT ![b] = 0]
    /\ UNCHANGED <<parked, tour, kills>>

-------------------------------------------------------------------------------

RotationInit ==
    /\ listedBoards \in SUBSET Stops
    /\ parked = Nowhere
    /\ tour = AtRest
    /\ waits = [b \in Stops |-> 0]
    /\ listings = 0
    /\ kills = 0

RotationNext ==
    \/ StartTour \/ VisitChunk \/ StopBetweenChunks \/ StopInChunk \/ Killed
    \/ \E b \in Stops : Relist(b)

RotationSpec == RotationInit /\ [][RotationNext]_rotationVars

-------------------------------------------------------------------------------

\* The tail of the list never starves (monitor/run.py: "so tail-of-sheet boards
\* can never starve"), wherever the budget stops each run: a board is fetched by
\* the time as many runs have ended as there are boards, once over for each board
\* that joined or left the list meanwhile.
TailIsReached ==
    \A b \in Stops : waits[b] <= Companies * (listings + 1)
===============================================================================
