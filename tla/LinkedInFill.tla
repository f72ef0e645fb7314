------------------------------ MODULE LinkedInFill ------------------------------
(* Who answers an employer's LinkedIn id: a person, for one of its boards, or an *)
(* engine lane that has bought the id, for all of them at once and only while    *)
(* nobody has answered.                                                          *)
EXTENDS Integers, FiniteSets

CONSTANTS
    CompanyRows,     \* company rows, by id
    EmployerOf,      \* the name key of a row
    Answers,         \* ids a person or a provider may give
    Lanes,           \* engine runs: a sweep's harvest, the backfill
    Unsure,          \* the lanes that read which employers lack an id first
    MaxPastes,       \* bound: gestures of the person
    MaxBuys,         \* bound: runs of the lanes
    MaxNewBoards     \* bound: rows that are born

ASSUME FillAssumption ==
    /\ CompanyRows \subseteq Nat /\ Unsure \subseteq Lanes
    /\ {"nobody", "person"} \cap Lanes = {}

VARIABLES
    companies,       \* by row: [id, source, ver, born]; id 0 is blank
    rowLock,         \* by row: who holds it, or "nobody"
    paste,           \* the person's command
    lanes,           \* by lane
    pastes, buys, newBoards

fillVars == <<companies, rowLock, paste, lanes, pastes, buys, newBoards>>

Employers == {EmployerOf[b] : b \in CompanyRows}
RowsOf(e) == {b \in CompanyRows : EmployerOf[b] = e /\ companies[b].born}
NoPaste == [at |-> "idle"]
NoRun == [at |-> "idle"]

-------------------------------------------------------------------------------

\* The person reads a row and types an id into it, or clears it (id 0).
StartPaste(b, i) ==
    /\ paste.at = "idle" /\ pastes < MaxPastes /\ companies[b].born
    /\ pastes' = pastes + 1
    /\ paste' = [at |-> "lock", board |-> b, id |-> i, seen |-> companies[b].ver]
    /\ UNCHANGED <<companies, rowLock, lanes, buys, newBoards>>

LockPasted ==
    /\ paste.at = "lock" /\ rowLock[paste.board] = "nobody"
    /\ rowLock' = [rowLock EXCEPT ![paste.board] = "person"]
    /\ paste' = [paste EXCEPT !.at = "write"]
    /\ UNCHANGED <<companies, lanes, pastes, buys, newBoards>>

\* Behind the lock: a row that changed since it was read is a conflict. A clear is
\* an answer too, and so is the same id once more unless it is a person's already.
CommitPaste ==
    /\ paste.at = "write"
    /\ LET b == paste.board
           claims == companies[b].id # paste.id \/ companies[b].source # "human"
       IN companies' = IF companies[b].ver = paste.seen /\ claims
                       THEN [companies EXCEPT ![b].id = paste.id, ![b].source = "human",
                                              ![b].ver = @ + 1]
                       ELSE companies
    /\ rowLock' = [rowLock EXCEPT ![paste.board] = "nobody"]
    /\ paste' = NoPaste
    /\ UNCHANGED <<lanes, pastes, buys, newBoards>>

-------------------------------------------------------------------------------

Blank(b) == companies[b].id = 0 /\ companies[b].source # "human"

\* A lane buys ids: a harvest for the employers of the page it bought, the
\* backfill for employers it read to have a blank nobody answered. What it bought
\* is filled only later.
Buy(l) ==
    /\ lanes[l].at = "idle" /\ buys < MaxBuys
    /\ buys' = buys + 1
    /\ \E bought \in SUBSET Employers, i \in Answers :
          /\ bought # {}
          /\ l \in Unsure => \A e \in bought : \E b \in RowsOf(e) : Blank(b)
          /\ lanes' = [lanes EXCEPT ![l] = [at |-> "fill", pairs |-> bought \X {i}]]
    /\ UNCHANGED <<companies, rowLock, paste, pastes, newBoards>>

\* hq_fill_linkedin_company_id for the next pair; an unknown employer is no_company.
StartFill(l) ==
    /\ lanes[l].at = "fill"
    /\ \E pair \in lanes[l].pairs :
          lanes' = [lanes EXCEPT ![l] =
             IF RowsOf(pair[1]) = {}
             THEN [at |-> "fill", pairs |-> lanes[l].pairs \ {pair}]
             ELSE [at |-> "lock", pairs |-> lanes[l].pairs \ {pair},
                   employer |-> pair[1], id |-> pair[2], held |-> {}]]
    /\ UNCHANGED <<companies, rowLock, paste, pastes, buys, newBoards>>

\* Mutant of TakeRows: the update's own conditions are trusted.
TakeNone(l) ==
    /\ lanes[l].at = "lock"
    /\ lanes' = [lanes EXCEPT ![l].at = "count", ![l].held = RowsOf(lanes[l].employer)]
    /\ UNCHANGED <<companies, rowLock, paste, pastes, buys, newBoards>>

\* Every row of the employer is locked, in the order of their ids.
TakeRows(l) ==
    /\ lanes[l].at = "lock"
    /\ LET left == RowsOf(lanes[l].employer) \ lanes[l].held IN
       IF left = {}
       THEN /\ lanes' = [lanes EXCEPT ![l].at = "count"]
            /\ UNCHANGED rowLock
       ELSE \E next \in left :
            /\ \A other \in left : next <= other
            /\ rowLock[next] = "nobody"
            /\ rowLock' = [rowLock EXCEPT ![next] = l]
            /\ lanes' = [lanes EXCEPT ![l].held = @ \cup {next}]
    /\ UNCHANGED <<companies, paste, pastes, buys, newBoards>>

Release(l) == [b \in CompanyRows |-> IF rowLock[b] = l THEN "nobody" ELSE rowLock[b]]

\* The judgement: an employer a person has answered anywhere is theirs, one that
\* carries an id already is left alone.
CountAnswers(l) ==
    /\ lanes[l].at = "count"
    /\ IF \A b \in RowsOf(lanes[l].employer) : Blank(b)
       THEN /\ lanes' = [lanes EXCEPT ![l].at = "update"]
            /\ UNCHANGED rowLock
       ELSE /\ lanes' = [lanes EXCEPT ![l].at = "fill", ![l].held = {}]
            /\ rowLock' = Release(l)
    /\ UNCHANGED <<companies, paste, pastes, buys, newBoards>>

\* The update asks each row again, and waits for a row another holds.
FillBlanks(l) ==
    /\ lanes[l].at = "update"
    /\ LET mine == {b \in RowsOf(lanes[l].employer) : Blank(b)} IN
       /\ \A b \in mine : rowLock[b] \in {"nobody", l}
       /\ companies' = [b \in CompanyRows |->
             IF b \in mine
             THEN [companies[b] EXCEPT !.id = lanes[l].id, !.source = "engine", !.ver = @ + 1]
             ELSE companies[b]]
    /\ rowLock' = Release(l)
    /\ lanes' = [lanes EXCEPT ![l].at = "fill", ![l].held = {}]
    /\ UNCHANGED <<paste, pastes, buys, newBoards>>

\* The run is over, or dies; what it bought and did not fill is gone. A dying
\* transaction rolls back.
LaneEnds(l) ==
    /\ lanes[l].at # "idle"
    /\ lanes' = [lanes EXCEPT ![l] = NoRun]
    /\ rowLock' = Release(l)
    /\ UNCHANGED <<companies, paste, pastes, buys, newBoards>>

\* The resolver adds a board of an employer.
NewBoard(b) ==
    /\ ~companies[b].born /\ newBoards < MaxNewBoards
    /\ newBoards' = newBoards + 1
    /\ companies' = [companies EXCEPT ![b].born = TRUE]
    /\ UNCHANGED <<rowLock, paste, lanes, pastes, buys>>

-------------------------------------------------------------------------------

FillInit ==
    /\ \E born \in SUBSET CompanyRows :
          /\ Cardinality(CompanyRows \ born) <= MaxNewBoards
          /\ companies = [b \in CompanyRows |->
                [id |-> 0, source |-> "", ver |-> 0, born |-> b \in born]]
    /\ rowLock = [b \in CompanyRows |-> "nobody"]
    /\ paste = NoPaste
    /\ lanes = [l \in Lanes |-> NoRun]
    /\ pastes = 0 /\ buys = 0 /\ newBoards = 0

FillNext ==
    \/ \E b \in CompanyRows, i \in Answers \cup {0} : StartPaste(b, i)
    \/ LockPasted \/ CommitPaste
    \/ \E l \in Lanes :
          \/ Buy(l) \/ StartFill(l) \/ TakeRows(l) \/ CountAnswers(l) \/ FillBlanks(l)
          \/ LaneEnds(l)
    \/ \E b \in CompanyRows : NewBoard(b)

FillSpec == FillInit /\ [][FillNext]_fillVars

-------------------------------------------------------------------------------

\* A person's answer stands (0016: an employer is filled "together or not at all",
\* and "a person has answered this company, INCLUDING by clearing it"): an engine
\* writes no row of an employer while a row it had locked carries an answer of a
\* person, however old the reading the lane started from. A row born after the
\* locks were taken is not among them.
HumanAnswerStands ==
    [][\A l \in Lanes :
          (lanes[l].at = "update" /\ companies' # companies /\ lanes'[l].at = "fill")
          => \A b \in lanes[l].held : companies[b].source # "human"]_fillVars
===============================================================================
