------------------------------ MODULE IntakeProofs ------------------------------
(* What the lanes that take things in may rely on, proved: the cursor of the     *)
(* wide sweep, the LinkedIn id a person answered, the mails of the capture, and  *)
(* the rotation of the sweep over its boards.                                    *)
EXTENDS WideSweep, LinkedInFill, Capture, BoardRotation, FiniteSetTheorems,
        SequenceTheorems, WellFoundedInduction, TLAPS

-------------------------------------------------------------------------------
(* The wide sweep. *)

Fetching ==
    [at : {"fetch"}, budget : Nat, known : SUBSET feedJobs, since : 1..day]

Storing ==
    [at : {"append", "park"}, since : 1..day, upto : 1..day, news : SUBSET Jobs,
     full : BOOLEAN, spoilt : BOOLEAN]

\* Of a whole and well-formed window nothing before its bound is missing: what is
\* wanted of it is in the Feed, or is what the run is about to append.
WindowCovered ==
    (sweeping.at \in {"append", "park"} /\ ~sweeping.full /\ ~sweeping.spoilt)
    => \A j \in Titled :
          discovered[j] >= sweeping.since /\ discovered[j] < sweeping.upto
          => j \in feedJobs \/ (sweeping.at = "append" /\ j \in sweeping.news)

WideInv ==
    /\ day \in Nat \ {0}
    /\ discovered \in [Jobs -> 0..day]
    /\ feedJobs \subseteq Jobs
    /\ wideCursor \in 0..day
    /\ sweeping \in {Resting} \cup Fetching \cup Storing
    /\ WindowCovered

\* A page that is no full one is the whole window.
LEMMA WholeWindow ==
    ASSUME NEW W, IsFiniteSet(W), NEW page \in SUBSET W, NEW bad \in {0, 1},
           NEW budget \in Nat,
           Cardinality(page) + bad =
              (IF Cardinality(W) + bad < budget THEN Cardinality(W) + bad ELSE budget),
           ~(Cardinality(page) + bad >= budget)
    PROVE  page = W
<1>1. Cardinality(W) \in Nat
  BY FS_CardinalityType
<1>2. IsFiniteSet(page) /\ (Cardinality(W) = Cardinality(page) => W = page)
  BY FS_Subset
<1>3. Cardinality(page) \in Nat
  BY <1>2, FS_CardinalityType
<1>4. Cardinality(W) = Cardinality(page)
  BY <1>1, <1>3
<1> QED  BY <1>2, <1>4

\* What was mapped of a page becomes the run's news and its bound.
LEMMA FetchKeeps ==
    ASSUME WideInv, FetchPage
    PROVE  WideInv'
<1> USE DEF WideInv
<1>1. /\ sweeping \in Fetching
      /\ UNCHANGED <<day, discovered, feedJobs, wideCursor>>
  BY DEF FetchPage, Resting, Storing, Fetching
<1> DEFINE since == sweeping.since
<1>2. /\ since \in 1..day /\ sweeping.budget \in Nat
      /\ sweeping.known \subseteq feedJobs
  BY <1>1 DEF Fetching
<1>3. PICK bad \in {0, 1}, page \in SUBSET Window, mapped \in SUBSET Window :
         /\ badRows + bad <= MaxBadRows
         /\ Cardinality(page) + bad = PageSize(Cardinality(Window) + bad)
         /\ mapped \subseteq page
         /\ bad = 0 => mapped = page
         /\ badRows' = badRows + bad
         /\ LET stamps == {sweeping.since} \cup {discovered[j] : j \in mapped} IN
            \E newest \in stamps :
               /\ \A stamp \in stamps : stamp <= newest
               /\ sweeping' =
                     [at |-> "append", since |-> sweeping.since, upto |-> newest,
                      news |-> (mapped \cap Titled) \ sweeping.known,
                      full |-> Truncated(Cardinality(page) + bad),
                      spoilt |-> mapped # page]
  BY Zenon DEF FetchPage
<1>4. PICK newest \in {since} \cup {discovered[j] : j \in mapped} :
         sweeping' = [at |-> "append", since |-> since, upto |-> newest,
                      news |-> (mapped \cap Titled) \ sweeping.known,
                      full |-> Truncated(Cardinality(page) + bad),
                      spoilt |-> mapped # page]
  BY <1>3
<1>5. mapped \subseteq Jobs /\ Window \subseteq Jobs
  BY DEF Window
<1>6. newest \in 1..day
  <2>1. CASE newest = since
    BY <1>2, <2>1
  <2>2. CASE newest \in {discovered[j] : j \in mapped}
    <3>1. PICK j \in mapped : newest = discovered[j]
      BY <2>2
    <3>2. discovered[j] >= since
      BY <3>1 DEF Window
    <3> QED  BY <1>2, <1>5, <3>1, <3>2
  <2> QED  BY <2>1, <2>2
<1>7. sweeping' \in Storing'
  BY <1>1, <1>2, <1>4, <1>5, <1>6 DEF Storing, Truncated
<1>8. WindowCovered'
  <2> SUFFICES ASSUME ~sweeping'.full, ~sweeping'.spoilt, NEW j \in Titled,
                      discovered[j] >= since
               PROVE  j \in feedJobs \/ j \in sweeping'.news
    BY <1>1, <1>4 DEF WindowCovered
  <2>1. mapped = page /\ ~Truncated(Cardinality(page) + bad)
    BY <1>4
  <2>2. IsFiniteSet(Window)
    BY <1>5, FS_Subset, WideAssumption
  <2>3. page = Window
    BY <1>2, <1>3, <2>1, <2>2, WholeWindow DEF PageSize, Truncated
  <2>4. j \in mapped
    BY <2>1, <2>3, WideAssumption DEF Window
  <2> QED  BY <1>2, <1>4, <2>4
<1> QED  BY <1>1, <1>7, <1>8

LEMMA WideStepKeeps == WideInv /\ [WideNext]_wideVars => WideInv'
<1> SUFFICES ASSUME WideInv, [WideNext]_wideVars PROVE WideInv'
  OBVIOUS
<1> USE DEF WideInv
<1>1. CASE DayPasses
  BY <1>1 DEF DayPasses, WindowCovered, Fetching, Storing, Resting
<1>2. ASSUME NEW i \in Jobs, Discover(i) PROVE WideInv'
  <2>1. /\ discovered[i] = 0 /\ discovered' = [discovered EXCEPT ![i] = day]
        /\ UNCHANGED <<day, feedJobs, wideCursor, sweeping>>
    BY <1>2 DEF Discover
  <2>2. discovered' \in [Jobs -> 0..day]
    BY <2>1
  <2>3. WindowCovered'
    <3> SUFFICES ASSUME sweeping.at \in {"append", "park"}, ~sweeping.full, ~sweeping.spoilt,
                        NEW j \in Titled,
                        discovered'[j] >= sweeping.since, discovered'[j] < sweeping.upto
                 PROVE  j \in feedJobs \/ (sweeping.at = "append" /\ j \in sweeping.news)
      BY <2>1 DEF WindowCovered
    <3>1. sweeping \in Storing
      BY DEF Fetching, Resting, Storing
    <3>2. j # i
      BY <2>1, <3>1, WideAssumption DEF Storing
    <3> QED  BY <2>1, <3>1, <3>2, WideAssumption DEF WindowCovered
  <2> QED  BY <2>1, <2>2, <2>3 DEF Fetching, Storing
<1>3. CASE StartWide
  <2>1. DefaultCursor \in 1..day
    BY WideAssumption DEF DefaultCursor
  <2>2. sweeping' \in Fetching'
    BY <1>3, <2>1, WideAssumption DEF StartWide, Fetching
  <2> QED  BY <1>3, <2>2 DEF StartWide, WindowCovered, Fetching
<1>4. CASE FetchFails \/ WideDies
  BY <1>4 DEF FetchFails, WideDies, WindowCovered, Resting
<1>5. CASE FetchPage
  BY <1>5, FetchKeeps
<1>6. CASE AppendNews
  <2>1. /\ sweeping \in Storing /\ sweeping.at = "append"
        /\ feedJobs' = feedJobs \cup sweeping.news
        /\ sweeping' = [sweeping EXCEPT !.at = "park"]
        /\ UNCHANGED <<day, discovered, wideCursor>>
    BY <1>6 DEF AppendNews, Resting, Fetching, Storing
  <2>2. sweeping' \in Storing' /\ feedJobs' \subseteq Jobs
    BY <2>1 DEF Storing
  <2>3. WindowCovered'
    BY <2>1 DEF WindowCovered, Storing
  <2> QED  BY <2>1, <2>2, <2>3
<1>7. CASE ParkCursor
  <2>1. sweeping \in Storing
    BY <1>7 DEF ParkCursor, Resting, Fetching, Storing
  <2>2. wideCursor' \in 0..day
    BY <1>7, <2>1 DEF ParkCursor, Storing
  <2> QED  BY <1>7, <2>2 DEF ParkCursor, WindowCovered, Resting
<1>8. CASE UNCHANGED wideVars
  BY <1>8 DEF wideVars, WindowCovered, Fetching, Storing
<1> QED  BY <1>1, <1>2, <1>3, <1>4, <1>5, <1>6, <1>7, <1>8 DEF WideNext

\* Whatever the budget cuts off, however late a job is discovered and wherever a
\* run is killed: the cursor of the wide sweep passes no wanted job that has no
\* row in the Feed, but for a row that was malformed.
THEOREM WideCursorSafe == WideSpec => CursorPassesOnlyStored
<1> DEFINE Moved == wideCursor' # wideCursor /\ ~sweeping.spoilt => LeftBehind = {}
<1>1. WideInit => WideInv
  BY WideAssumption DEF WideInit, WideInv, WindowCovered, Resting
<1>2. WideInv /\ [WideNext]_wideVars => [Moved]_wideVars
  <2> SUFFICES ASSUME WideInv, [WideNext]_wideVars, wideCursor' # wideCursor, ~sweeping.spoilt
               PROVE  LeftBehind = {}
    OBVIOUS
  <2>1. ParkCursor
    BY DEF WideNext, wideVars, DayPasses, Discover, StartWide, FetchFails, FetchPage,
           AppendNews, WideDies
  <2>2. /\ sweeping.at = "park" /\ ~sweeping.full
        /\ wideCursor' = sweeping.upto
    BY <2>1 DEF ParkCursor
  <2> QED  BY <2>2 DEF LeftBehind, WideInv, WindowCovered
<1> QED  BY <1>1, <1>2, WideStepKeeps, PTL DEF WideSpec, CursorPassesOnlyStored

-------------------------------------------------------------------------------
(* The LinkedIn id of an employer. *)

Bought == SUBSET (Employers \X Answers)

LaneStates ==
    {NoRun} \cup [at : {"fill"}, pairs : Bought] \cup
    [at : {"fill", "lock", "count", "update"}, pairs : Bought,
     employer : Employers, id : Answers, held : SUBSET CompanyRows]

Company == [id : Answers \cup {0}, source : {"", "engine", "human"}, ver : Nat, born : BOOLEAN]

LEMMA CompanyAnswered ==
    ASSUME NEW r \in Company, NEW i \in Answers \cup {0}, NEW s \in {"engine", "human"}
    PROVE  [r EXCEPT !.id = i, !.source = s, !.ver = @ + 1] \in Company
<1> DEFINE v == r.ver + 1
<1>1. v \in Nat
  <2>1. r.ver \in Nat
    BY DEF Company
  <2> QED  BY <2>1
<1> HIDE DEF v
<1>2. [r EXCEPT !.id = i, !.source = s, !.ver = v] \in Company
  BY <1>1 DEF Company
<1> QED  BY <1>2 DEF v

\* A lane behind its locks.
Locking(l) == lanes[l].at \in {"lock", "count", "update"}

\* What a lane holds it holds the locks of, the rows of its employer; once it has
\* judged, none of them carries an answer of a person.
LaneInv(l) ==
    /\ Locking(l) => \A b \in lanes[l].held :
          rowLock[b] = l /\ EmployerOf[b] = lanes[l].employer /\ companies[b].born
    /\ lanes[l].at = "update" => \A b \in lanes[l].held : companies[b].source # "human"

FillInv ==
    /\ companies \in [CompanyRows -> Company]
    /\ rowLock \in [CompanyRows -> Lanes \cup {"nobody", "person"}]
    /\ paste.at = "write" => paste.board \in CompanyRows /\ rowLock[paste.board] = "person"
    /\ paste \in {NoPaste} \cup [at : {"lock", "write"}, board : CompanyRows,
                                 id : Answers \cup {0}, seen : Nat]
    /\ lanes \in [Lanes -> LaneStates]
    /\ \A l \in Lanes : LaneInv(l)

\* What keeps a lane's rows and its locks, and the lane where it is.
LEMMA LaneUntouched ==
    ASSUME NEW l \in Lanes, FillInv, lanes'[l] = lanes[l],
           \A b \in CompanyRows : rowLock[b] = l =>
              /\ rowLock'[b] = l
              /\ companies[b].born => companies'[b].born
              /\ companies'[b].source = "human" => companies[b].source = "human"
    PROVE  LaneInv(l)'
<1>1. LaneInv(l) /\ lanes[l] \in LaneStates
  BY DEF FillInv
<1>2. Locking(l) => lanes[l].held \subseteq CompanyRows
  BY <1>1 DEF Locking, LaneStates, NoRun
<1> QED  BY <1>1, <1>2 DEF LaneInv, Locking

LEMMA PersonKeeps ==
    ASSUME FillInv, (\E b \in CompanyRows, i \in Answers \cup {0} : StartPaste(b, i))
                    \/ LockPasted \/ CommitPaste
    PROVE  FillInv'
<1> USE DEF FillInv
<1>1. CASE \E b \in CompanyRows, i \in Answers \cup {0} : StartPaste(b, i)
  <2>1. PICK b \in CompanyRows, i \in Answers \cup {0} : StartPaste(b, i)
    BY <1>1
  <2>2. companies[b] \in Company
    OBVIOUS
  <2>3. paste' \in [at : {"lock", "write"}, board : CompanyRows, id : Answers \cup {0}, seen : Nat]
        /\ paste'.at # "write"
    BY <2>1, <2>2 DEF StartPaste, Company
  <2>4. \A l \in Lanes : LaneInv(l)'
    BY <2>1, LaneUntouched DEF StartPaste
  <2> QED  BY <2>1, <2>3, <2>4 DEF StartPaste
<1>2. CASE LockPasted
  <2>1. /\ paste.board \in CompanyRows
        /\ paste' \in [at : {"lock", "write"}, board : CompanyRows, id : Answers \cup {0}, seen : Nat]
        /\ paste'.board = paste.board
    BY <1>2 DEF LockPasted, NoPaste
  <2>2. rowLock' \in [CompanyRows -> Lanes \cup {"nobody", "person"}]
        /\ rowLock'[paste.board] = "person"
    BY <1>2, <2>1 DEF LockPasted
  <2>3. \A l \in Lanes : LaneInv(l)'
    <3> SUFFICES ASSUME NEW l \in Lanes PROVE LaneInv(l)'
      OBVIOUS
    <3>1. l # "nobody"
      BY FillAssumption
    <3> QED  BY <1>2, <2>1, <3>1, LaneUntouched DEF LockPasted
  <2> QED  BY <1>2, <2>1, <2>2, <2>3 DEF LockPasted
<1>3. CASE CommitPaste
  <2> DEFINE b == paste.board
  <2>1. b \in CompanyRows /\ rowLock[b] = "person" /\ paste.id \in Answers \cup {0}
    BY <1>3 DEF CommitPaste, NoPaste
  <2>2. companies' \in [CompanyRows -> Company]
        /\ \A c \in CompanyRows \ {b} : companies'[c] = companies[c]
    <3>1. companies[b] \in Company
      BY <2>1
    <3>2. [companies EXCEPT ![b].id = paste.id, ![b].source = "human", ![b].ver = @ + 1]
             \in [CompanyRows -> Company]
      <4> DEFINE row == [companies[b] EXCEPT !.id = paste.id, !.source = "human", !.ver = @ + 1]
      <4>1. row \in Company
        BY <2>1, <3>1, CompanyAnswered
      <4>2. [companies EXCEPT ![b].id = paste.id, ![b].source = "human", ![b].ver = @ + 1]
            = [companies EXCEPT ![b] = row]
        BY <2>1, <3>1 DEF Company
      <4> QED  BY <2>1, <4>1, <4>2
    <3> QED  BY <1>3, <2>1, <3>2 DEF CommitPaste
  <2>3. \A l \in Lanes : LaneInv(l)'
    <3> SUFFICES ASSUME NEW l \in Lanes PROVE LaneInv(l)'
      OBVIOUS
    <3>1. l # "person"
      BY FillAssumption
    <3> QED  BY <1>3, <2>1, <2>2, <3>1, LaneUntouched DEF CommitPaste
  <2>4. rowLock' \in [CompanyRows -> Lanes \cup {"nobody", "person"}]
    BY <1>3, <2>1 DEF CommitPaste
  <2> QED  BY <1>3, <2>2, <2>3, <2>4 DEF CommitPaste, NoPaste
<1> QED  BY <1>1, <1>2, <1>3

\* A lane's step leaves the locks, and the rows they are on, of every other.
LEMMA LaneKeeps ==
    ASSUME NEW l \in Lanes, FillInv,
           UNCHANGED paste,
           companies' \in [CompanyRows -> Company],
           \A b \in CompanyRows :
              /\ companies[b].born => companies'[b].born
              /\ companies'[b].source = "human" => companies[b].source = "human",
           rowLock' \in [CompanyRows -> Lanes \cup {"nobody", "person"}],
           \A b \in CompanyRows : rowLock[b] \notin {l, "nobody"} => rowLock'[b] = rowLock[b],
           NEW state \in LaneStates,
           lanes' = [lanes EXCEPT ![l] = state],
           LaneInv(l)'
    PROVE  FillInv'
<1> USE DEF FillInv
<1>1. ASSUME NEW k \in Lanes, k # l PROVE LaneInv(k)'
  <2>1. k # "nobody"
    BY FillAssumption
  <2>2. lanes'[k] = lanes[k]
    BY <1>1
  <2> QED  BY <1>1, <2>1, <2>2, LaneUntouched
<1>2. lanes' \in [Lanes -> LaneStates]
  OBVIOUS
<1>3. paste.at = "write" => rowLock'[paste.board] = "person"
  BY FillAssumption
<1> QED  BY <1>1, <1>2, <1>3

LEMMA ReleaseFrees ==
    ASSUME NEW l \in Lanes, FillInv
    PROVE  /\ Release(l) \in [CompanyRows -> Lanes \cup {"nobody", "person"}]
           /\ \A b \in CompanyRows : rowLock[b] \notin {l, "nobody"} => Release(l)[b] = rowLock[b]
  BY DEF FillInv, Release

\* A lane that has bought, and one that starts on a pair.
LEMMA ShoppingKeeps ==
    ASSUME NEW l \in Lanes, FillInv, Buy(l) \/ StartFill(l)
    PROVE  FillInv'
<1>1. companies \in [CompanyRows -> Company] /\ lanes \in [Lanes -> LaneStates]
      /\ rowLock \in [CompanyRows -> Lanes \cup {"nobody", "person"}]
  BY DEF FillInv
<1>2. CASE Buy(l)
  <2>1. PICK bought \in SUBSET Employers, i \in Answers :
           lanes' = [lanes EXCEPT ![l] = [at |-> "fill", pairs |-> bought \X {i}]]
    BY <1>2 DEF Buy
  <2> DEFINE state == [at |-> "fill", pairs |-> bought \X {i}]
  <2>2. bought \X {i} \in Bought
    BY DEF Bought
  <2>3. state \in LaneStates
    BY <2>2 DEF LaneStates
  <2>4. lanes'[l] = state
    BY <1>1, <2>1
  <2>5. LaneInv(l)'
    BY <2>4 DEF LaneInv, Locking
  <2> HIDE DEF state
  <2> QED  BY <1>1, <1>2, <2>1, <2>3, <2>5, LaneKeeps DEF Buy, state
<1>3. CASE StartFill(l)
  <2>1. PICK pair \in lanes[l].pairs :
           lanes' = [lanes EXCEPT ![l] =
             IF RowsOf(pair[1]) = {}
             THEN [at |-> "fill", pairs |-> lanes[l].pairs \ {pair}]
             ELSE [at |-> "lock", pairs |-> lanes[l].pairs \ {pair},
                   employer |-> pair[1], id |-> pair[2], held |-> {}]]
    BY <1>3 DEF StartFill
  <2>2. lanes[l].pairs \in Bought
    BY <1>1, <1>3 DEF StartFill, LaneStates, NoRun
  <2>3. pair[1] \in Employers /\ pair[2] \in Answers /\ lanes[l].pairs \ {pair} \in Bought
    BY <2>2 DEF Bought
  <2> DEFINE state == IF RowsOf(pair[1]) = {}
             THEN [at |-> "fill", pairs |-> lanes[l].pairs \ {pair}]
             ELSE [at |-> "lock", pairs |-> lanes[l].pairs \ {pair},
                   employer |-> pair[1], id |-> pair[2], held |-> {}]
  <2>4. state \in LaneStates
    BY <2>3 DEF LaneStates
  <2>5. lanes'[l] = state
    BY <1>1, <2>1
  <2>6. LaneInv(l)'
    BY <2>5 DEF LaneInv, Locking
  <2>7. lanes' = [lanes EXCEPT ![l] = state]
    BY <2>1
  <2> HIDE DEF state
  <2> QED  BY <1>1, <1>3, <2>4, <2>6, <2>7, LaneKeeps DEF StartFill
<1> QED  BY <1>2, <1>3

\* A lane between its first lock and its answer.
LEMMA FillingKeeps ==
    ASSUME NEW l \in Lanes, FillInv, TakeRows(l) \/ CountAnswers(l) \/ FillBlanks(l)
    PROVE  FillInv'
<1>1. /\ companies \in [CompanyRows -> Company] /\ lanes \in [Lanes -> LaneStates]
      /\ rowLock \in [CompanyRows -> Lanes \cup {"nobody", "person"}]
      /\ LaneInv(l)
  BY DEF FillInv
<1>2. /\ lanes[l] \in [at : {"fill", "lock", "count", "update"}, pairs : Bought,
                       employer : Employers, id : Answers, held : SUBSET CompanyRows]
      /\ Locking(l)
  <2>1. lanes[l].at \in {"lock", "count", "update"}
    BY DEF TakeRows, CountAnswers, FillBlanks
  <2>2. lanes[l] \in LaneStates
    BY <1>1
  <2> QED  BY <2>1, <2>2 DEF LaneStates, NoRun, Locking
<1>3. CASE TakeRows(l)
  <2> DEFINE left == RowsOf(lanes[l].employer) \ lanes[l].held
  <2>1. CASE left = {}
    <3> DEFINE state == [lanes[l] EXCEPT !.at = "count"]
    <3>1. lanes' = [lanes EXCEPT ![l] = state] /\ UNCHANGED <<companies, rowLock, paste>>
      BY <1>1, <1>3, <2>1 DEF TakeRows
    <3>2. state \in LaneStates
      BY <1>2 DEF LaneStates
    <3>3. LaneInv(l)'
      BY <1>1, <1>2, <3>1 DEF LaneInv, Locking
    <3> HIDE DEF state
    <3> QED  BY <1>1, <3>1, <3>2, <3>3, LaneKeeps
  <2>2. CASE left # {}
    <3>1. PICK next \in left :
             /\ rowLock[next] = "nobody"
             /\ rowLock' = [rowLock EXCEPT ![next] = l]
             /\ lanes' = [lanes EXCEPT ![l].held = @ \cup {next}]
             /\ UNCHANGED <<companies, paste>>
             /\ lanes[l].at = "lock"
      BY <1>3, <2>2 DEF TakeRows
    <3> DEFINE state == [lanes[l] EXCEPT !.held = @ \cup {next}]
    <3>2. next \in CompanyRows /\ EmployerOf[next] = lanes[l].employer /\ companies[next].born
      BY <3>1 DEF RowsOf
    <3>3. lanes' = [lanes EXCEPT ![l] = state]
      BY <1>1, <3>1
    <3>4. state \in LaneStates
      BY <1>2, <3>2 DEF LaneStates
    <3>5. LaneInv(l)'
      BY <1>1, <1>2, <3>1, <3>2, <3>3 DEF LaneInv, Locking
    <3>6. rowLock' \in [CompanyRows -> Lanes \cup {"nobody", "person"}]
      BY <1>1, <3>1
    <3>7. \A b \in CompanyRows : rowLock[b] \notin {l, "nobody"} => rowLock'[b] = rowLock[b]
      BY <1>1, <3>1
    <3> HIDE DEF state
    <3> QED  BY <1>1, <3>1, <3>3, <3>4, <3>5, <3>6, <3>7, LaneKeeps
  <2> QED  BY <2>1, <2>2
<1>4. CASE CountAnswers(l)
  <2>1. CASE \A b \in RowsOf(lanes[l].employer) : Blank(b)
    <3> DEFINE state == [lanes[l] EXCEPT !.at = "update"]
    <3>1. lanes' = [lanes EXCEPT ![l] = state] /\ UNCHANGED <<companies, rowLock, paste>>
      BY <1>1, <1>4, <2>1 DEF CountAnswers
    <3>2. state \in LaneStates
      BY <1>2 DEF LaneStates
    <3>3. lanes[l].held \subseteq RowsOf(lanes[l].employer)
      BY <1>1, <1>2 DEF LaneInv, RowsOf
    <3>4. LaneInv(l)'
      BY <1>1, <1>2, <2>1, <3>1, <3>3 DEF LaneInv, Locking, Blank
    <3> HIDE DEF state
    <3> QED  BY <1>1, <3>1, <3>2, <3>4, LaneKeeps
  <2>2. CASE ~(\A b \in RowsOf(lanes[l].employer) : Blank(b))
    <3> DEFINE state == [lanes[l] EXCEPT !.at = "fill", !.held = {}]
    <3>1. lanes' = [lanes EXCEPT ![l] = state] /\ rowLock' = Release(l)
          /\ UNCHANGED <<companies, paste>>
      BY <1>1, <1>4, <2>2 DEF CountAnswers
    <3>2. state \in LaneStates
      BY <1>2 DEF LaneStates
    <3>3. LaneInv(l)'
      BY <1>1, <1>2, <3>1 DEF LaneInv, Locking
    <3> HIDE DEF state
    <3> QED  BY <1>1, <3>1, <3>2, <3>3, ReleaseFrees, LaneKeeps
  <2> QED  BY <2>1, <2>2
<1>5. CASE FillBlanks(l)
  <2> DEFINE mine == {b \in RowsOf(lanes[l].employer) : Blank(b)}
             state == [lanes[l] EXCEPT !.at = "fill", !.held = {}]
             filled(b) == [companies[b] EXCEPT !.id = lanes[l].id, !.source = "engine", !.ver = @ + 1]
  <2>1. /\ companies' = [b \in CompanyRows |-> IF b \in mine THEN filled(b) ELSE companies[b]]
        /\ rowLock' = Release(l)
        /\ lanes' = [lanes EXCEPT ![l] = state]
        /\ UNCHANGED paste
    BY <1>1, <1>5 DEF FillBlanks
  <2>2. \A b \in CompanyRows :
           /\ filled(b) \in Company /\ filled(b).source = "engine"
           /\ filled(b).born = companies[b].born
    <3> TAKE b \in CompanyRows
    <3>1. companies[b] \in Company /\ lanes[l].id \in Answers
      BY <1>1, <1>2
    <3>2. filled(b) \in Company
      BY <3>1, CompanyAnswered
    <3> QED  BY <3>1, <3>2 DEF Company
  <2>3. state \in LaneStates
    BY <1>2 DEF LaneStates
  <2>4. LaneInv(l)'
    BY <1>1, <1>2, <2>1 DEF LaneInv, Locking
  <2> HIDE DEF state, filled, mine
  <2>5. companies' \in [CompanyRows -> Company]
        /\ \A b \in CompanyRows :
              /\ companies[b].born => companies'[b].born
              /\ companies'[b].source = "human" => companies[b].source = "human"
    BY <1>1, <2>1, <2>2
  <2> QED  BY <2>1, <2>3, <2>4, <2>5, ReleaseFrees, LaneKeeps
<1> QED  BY <1>3, <1>4, <1>5

LEMMA FillStepKeeps == FillInv /\ [FillNext]_fillVars => FillInv'
<1> SUFFICES ASSUME FillInv, [FillNext]_fillVars PROVE FillInv'
  OBVIOUS
<1>1. CASE (\E b \in CompanyRows, i \in Answers \cup {0} : StartPaste(b, i))
           \/ LockPasted \/ CommitPaste
  BY <1>1, PersonKeeps
<1>2. ASSUME NEW l \in Lanes, Buy(l) \/ StartFill(l) PROVE FillInv'
  BY <1>2, ShoppingKeeps
<1>3. ASSUME NEW l \in Lanes, TakeRows(l) \/ CountAnswers(l) \/ FillBlanks(l) PROVE FillInv'
  BY <1>3, FillingKeeps
<1>4. ASSUME NEW l \in Lanes, LaneEnds(l) PROVE FillInv'
  <2>1. NoRun \in LaneStates
    BY DEF LaneStates
  <2>2. LaneInv(l)'
    BY <1>4 DEF LaneEnds, FillInv, LaneInv, Locking, NoRun
  <2> QED  BY <1>4, <2>1, <2>2, ReleaseFrees, LaneKeeps DEF LaneEnds, FillInv
<1>5. ASSUME NEW b \in CompanyRows, NewBoard(b) PROVE FillInv'
  <2>1. companies[b] \in Company /\ companies' = [companies EXCEPT ![b].born = TRUE]
        /\ UNCHANGED <<rowLock, paste, lanes>>
    BY <1>5 DEF FillInv, NewBoard
  <2>2. companies' \in [CompanyRows -> Company]
    BY <2>1 DEF FillInv, Company
  <2>3. \A l \in Lanes : LaneInv(l)'
    BY <2>1, LaneUntouched DEF FillInv, Company
  <2> QED  BY <2>1, <2>2, <2>3 DEF FillInv
<1>6. CASE UNCHANGED fillVars
  BY <1>6 DEF fillVars, FillInv, LaneInv, Locking
<1> QED  BY <1>1, <1>2, <1>3, <1>4, <1>5, <1>6 DEF FillNext

\* However old the reading a lane bought on, whichever lanes and gestures cross:
\* an engine fills no employer while a row it locked carries a person's answer.
THEOREM HumanAnswerWins == FillSpec => HumanAnswerStands
<1> DEFINE Stands ==
       \A l \in Lanes :
          (lanes[l].at = "update" /\ companies' # companies /\ lanes'[l].at = "fill")
          => \A b \in lanes[l].held : companies[b].source # "human"
<1>1. FillInit => FillInv
  <2> SUFFICES ASSUME FillInit PROVE FillInv
    OBVIOUS
  <2>1. lanes \in [Lanes -> LaneStates] /\ \A l \in Lanes : LaneInv(l)
    <3>1. lanes = [l \in Lanes |-> NoRun] /\ NoRun.at = "idle"
      BY DEF FillInit, NoRun
    <3> QED  BY <3>1 DEF LaneStates, LaneInv, Locking
  <2>2. companies \in [CompanyRows -> Company]
    <3>1. PICK born \in SUBSET CompanyRows :
             companies = [b \in CompanyRows |->
                [id |-> 0, source |-> "", ver |-> 0, born |-> b \in born]]
      BY DEF FillInit
    <3>2. ASSUME NEW x \in BOOLEAN
          PROVE  [id |-> 0, source |-> "", ver |-> 0, born |-> x] \in Company
      BY DEF Company
    <3>3. \A b \in CompanyRows : (b \in born) \in BOOLEAN
      OBVIOUS
    <3> QED  BY <3>1, <3>2, <3>3
  <2> QED  BY <2>1, <2>2 DEF FillInit, FillInv, NoPaste
<1>2. FillInv => Stands
  BY DEF FillInv, LaneInv
<1> QED  BY <1>1, <1>2, FillStepKeeps, PTL DEF FillSpec, HumanAnswerStands

-------------------------------------------------------------------------------
(* The mails of the capture. *)

Mails == 1..MaxMails
Batch == Seq(Mails)

Running ==
    [at : {"append", "post", "save"}, authentic : BOOLEAN, fresh : Batch, todo : Batch,
     parked : Batch, failed : Batch, refused : Batch, down : BOOLEAN]

Passes == {NoPass} \cup Running

CaptureTypeOK ==
    /\ rowsIn \in 0..MaxMails
    /\ queue \in Batch /\ pen \in Batch
    /\ pass \in Passes

\* Where a mail is for good, whatever the pass that runs comes to.
Settled(m) == m \in captured \/ m \in counted \/ m \in cutOff \/ m \in parkedOnce

\* Where a mail is while a pass is at each of its steps. While it posts, what the
\* queue still says counts for nothing: it is about to be written over.
Placed(m) ==
    \/ Settled(m)
    \/ pass.at # "post" /\ m \in Range(queue)
    \/ pass.at = "append" /\ m \in Range(pass.fresh)
    \/ pass.at = "post" /\ (m \in Range(pass.todo) \/ m \in Range(pass.failed))
    \/ pass.at \in {"post", "save"} /\ m \in Range(pass.refused)

CaptureInv ==
    /\ CaptureTypeOK
    /\ Range(pen) \subseteq parkedOnce
    /\ pass.at = "append" => pass.refused = <<>> /\ pass.failed = <<>>
    /\ pass.at = "post" /\ pass.todo # <<>> => pass.failed = <<>>
    /\ \A m \in 1..rowsIn : Placed(m)

LEMMA IdleOrRunning ==
    ASSUME CaptureInv, pass.at # "idle"
    PROVE  pass \in Running
  BY DEF CaptureInv, CaptureTypeOK, Passes, NoPass

LEMMA IdleIsNoPass ==
    ASSUME CaptureInv, pass.at = "idle"
    PROVE  pass = NoPass
  BY DEF CaptureInv, CaptureTypeOK, Passes, Running

LEMMA InRange ==
    ASSUME NEW s \in Batch, NEW m
    PROVE  m \in Range(s) <=> \E i \in 1..Len(s) : s[i] = m
<1>1. DOMAIN s = 1..Len(s)
  BY DEF Batch
<1> QED  BY <1>1 DEF Range

LEMMA EmptyRange == Range(<<>>) = {}
  BY DEF Range

LEMMA RangeOfBoth ==
    ASSUME NEW s \in Batch, NEW t \in Batch
    PROVE  s \o t \in Batch /\ Range(s \o t) = Range(s) \cup Range(t)
<1>1. /\ s \o t \in Batch
      /\ Len(s \o t) = Len(s) + Len(t)
      /\ \A i \in 1..Len(s) + Len(t) : (s \o t)[i] = IF i <= Len(s) THEN s[i] ELSE t[i - Len(s)]
  BY ConcatProperties DEF Batch
<1>2. Len(s) \in Nat /\ Len(t) \in Nat
  BY DEF Batch
<1>3. ASSUME NEW m \in Range(s \o t) PROVE m \in Range(s) \cup Range(t)
  <2>1. PICK i \in 1..Len(s) + Len(t) : (s \o t)[i] = m
    BY <1>1, <1>3, InRange
  <2>2. CASE i <= Len(s)
    BY <1>1, <1>2, <2>1, <2>2, InRange
  <2>3. CASE ~(i <= Len(s))
    <3>1. i - Len(s) \in 1..Len(t) /\ t[i - Len(s)] = m
      BY <1>1, <1>2, <2>1, <2>3
    <3> QED  BY <3>1, InRange
  <2> QED  BY <2>2, <2>3
<1>4. ASSUME NEW m \in Range(s) PROVE m \in Range(s \o t)
  <2>1. PICK i \in 1..Len(s) : s[i] = m
    BY <1>4, InRange
  <2>2. i \in 1..Len(s) + Len(t) /\ (s \o t)[i] = m
    BY <1>1, <1>2, <2>1
  <2> QED  BY <1>1, <2>2, InRange
<1>5. ASSUME NEW m \in Range(t) PROVE m \in Range(s \o t)
  <2>1. PICK i \in 1..Len(t) : t[i] = m
    BY <1>5, InRange
  <2>2. Len(s) + i \in 1..Len(s) + Len(t) /\ (s \o t)[Len(s) + i] = m
    BY <1>1, <1>2, <2>1
  <2> QED  BY <1>1, <2>2, InRange
<1> QED  BY <1>1, <1>3, <1>4, <1>5

LEMMA RangeOfOneMore ==
    ASSUME NEW s \in Batch, NEW m \in Mails
    PROVE  Append(s, m) \in Batch /\ Range(Append(s, m)) = Range(s) \cup {m}
<1>1. /\ Append(s, m) \in Batch /\ Len(Append(s, m)) = Len(s) + 1 /\ Len(s) \in Nat
      /\ \A i \in 1..Len(s) : Append(s, m)[i] = s[i]
      /\ Append(s, m)[Len(s) + 1] = m
  BY DEF Batch
<1>2. \A n : n \in Range(Append(s, m)) <=> \E i \in 1..Len(s) + 1 : Append(s, m)[i] = n
  BY <1>1, InRange
<1>3. \A n : n \in Range(s) <=> \E i \in 1..Len(s) : s[i] = n
  BY InRange
<1>4. \A i \in 1..Len(s) + 1 : i \in 1..Len(s) \/ i = Len(s) + 1
  BY <1>1
<1> QED  BY <1>1, <1>2, <1>3, <1>4

LEMMA MinOfTwo ==
    ASSUME NEW a \in Nat, NEW b \in Nat
    PROVE  Min({a, b}) \in Nat /\ Min({a, b}) <= a /\ Min({a, b}) <= b
           /\ (a >= 1 /\ b >= 1 => Min({a, b}) >= 1)
<1>1. \E x \in {a, b} : \A y \in {a, b} : x <= y
  OBVIOUS
<1>2. Min({a, b}) \in {a, b} /\ \A y \in {a, b} : Min({a, b}) <= y
  BY <1>1 DEF Min
<1> QED  BY <1>2

\* A request's events and those behind it are all the events.
LEMMA ChunkAndRest ==
    ASSUME NEW s \in Batch
    PROVE  /\ ChunkOf(s) \in Batch /\ After(s) \in Batch
           /\ Range(s) = Range(ChunkOf(s)) \cup Range(After(s))
<1> DEFINE n == Min({ChunkSize, Len(s)})
<1>1. Len(s) \in Nat /\ ChunkSize \in Nat /\ s \in Seq(Mails)
  BY CaptureAssumption DEF Batch
<1>2. n \in Nat /\ n <= Len(s)
  BY <1>1, MinOfTwo
<1> HIDE DEF n
<1>3. /\ SubSeq(s, 1, n) \in Seq(Mails) /\ Len(SubSeq(s, 1, n)) = n
      /\ \A i \in 1..n : SubSeq(s, 1, n)[i] = s[i]
  BY <1>1, <1>2, SubSeqProperties, ElementOfSeq
<1>4. /\ SubSeq(s, n + 1, Len(s)) \in Seq(Mails)
      /\ SubSeq(s, 1, n) \o SubSeq(s, n + 1, Len(s)) = SubSeq(s, 1, Len(s))
  <2>1. n + 1 \in Int /\ Len(s) \in Int /\ \A i \in n + 1..Len(s) : s[i] \in Mails
    BY <1>1, <1>2, ElementOfSeq
  <2>2. 1 \in 1..Len(s) + 1 /\ n \in 1 - 1..Len(s) /\ Len(s) \in n..Len(s)
    BY <1>1, <1>2
  <2>3. SubSeq(s, n + 1, Len(s)) \in Seq(Mails)
    BY <2>1, SubSeqProperties
  <2> QED  BY <1>1, <2>2, <2>3, ConcatAdjacentSubSeq
<1>5. SubSeq(s, 1, Len(s)) = s
  BY <1>1, SubSeqFull
<1>6. ChunkOf(s) = SubSeq(s, 1, n) /\ After(s) = SubSeq(s, n + 1, Len(s))
  BY <1>3 DEF ChunkOf, After, n
<1>7. ChunkOf(s) \in Batch /\ After(s) \in Batch /\ ChunkOf(s) \o After(s) = s
  BY <1>3, <1>4, <1>5, <1>6 DEF Batch
<1> QED  BY <1>7, RangeOfBoth

\* The end of a list that a bound leaves, and the listing of what was refused.
LEMMA SavedIsABatch ==
    ASSUME NEW s \in Batch, NEW max \in Nat, NEW saved \in Saved(s, max)
    PROVE  saved \in Batch
<1> DEFINE n == Min({max, Len(s)})
<1>1. Len(s) \in Nat /\ s \in Seq(Mails)
  BY DEF Batch
<1>2. n \in Nat /\ n <= Len(s)
  BY <1>1, MinOfTwo
<1>3. saved \in {SubSeq(s, Len(s) - n + 1, Len(s)), <<>>}
  BY DEF Saved
<1> HIDE DEF n
<1>4. /\ Len(s) - n + 1 \in Int /\ Len(s) \in Int
      /\ \A i \in Len(s) - n + 1..Len(s) : s[i] \in Mails
  BY <1>1, <1>2, ElementOfSeq
<1>5. SubSeq(s, Len(s) - n + 1, Len(s)) \in Seq(Mails)
  BY <1>4, SubSeqProperties
<1>6. <<>> \in Seq(Mails)
  OBVIOUS
<1> QED  BY Zenon, <1>3, <1>5, <1>6 DEF Batch

LEMMA ListingIsABatch ==
    ASSUME NEW rows \in SUBSET Mails, NEW s \in Listings(rows)
    PROVE  s \in Batch /\ Range(s) = rows
<1>1. IsFiniteSet(Mails)
  BY FS_Interval, CaptureAssumption DEF Mails
<1>2. Cardinality(rows) \in Nat
  BY <1>1, FS_Subset, FS_CardinalityType
<1>3. s \in [1..Cardinality(rows) -> rows] /\ Range(s) = rows
  BY DEF Listings
<1>4. s \in [1..Cardinality(rows) -> Mails]
  BY <1>3
<1> QED  BY <1>2, <1>3, <1>4 DEF Batch

LEMMA RangeIsMails ==
    ASSUME NEW s \in Batch
    PROVE  Range(s) \subseteq Mails
  BY InRange, ElementOfSeq DEF Batch

\* What a request stored and what it refused are all it carried, if it is not to be
\* tried again.
LEMMA AnsweredWhole ==
    ASSUME NEW sent, NEW reply \in Replies(sent)
    PROVE  /\ reply.retry \in BOOLEAN /\ reply.refused \subseteq sent
           /\ ~reply.retry => sent \subseteq reply.stored \cup reply.refused
<1>1. \/ reply \in {[retry |-> TRUE, stored |-> {}, refused |-> {}],
                    [retry |-> FALSE, stored |-> {}, refused |-> sent],
                    [retry |-> TRUE, stored |-> sent, refused |-> {}],
                    [retry |-> FALSE, stored |-> sent, refused |-> sent]}
      \/ \E odd \in SUBSET sent :
            reply = [retry |-> FALSE, stored |-> sent \ odd, refused |-> odd]
  BY DEF Replies
<1>2. CASE reply \in {[retry |-> TRUE, stored |-> {}, refused |-> {}],
                    [retry |-> FALSE, stored |-> {}, refused |-> sent],
                    [retry |-> TRUE, stored |-> sent, refused |-> {}],
                    [retry |-> FALSE, stored |-> sent, refused |-> sent]}
  <2>1. CASE reply = [retry |-> TRUE, stored |-> {}, refused |-> {}]
    BY <2>1
  <2>2. CASE reply = [retry |-> FALSE, stored |-> {}, refused |-> sent]
    BY <2>2
  <2>3. CASE reply = [retry |-> TRUE, stored |-> sent, refused |-> {}]
    BY <2>3
  <2>4. CASE reply = [retry |-> FALSE, stored |-> sent, refused |-> sent]
    BY <2>4
  <2> QED  BY <1>2, <2>1, <2>2, <2>3, <2>4
<1>3. ASSUME NEW odd \in SUBSET sent,
             reply = [retry |-> FALSE, stored |-> sent \ odd, refused |-> odd]
      PROVE  sent \subseteq reply.stored \cup reply.refused /\ reply.refused \subseteq sent
             /\ reply.retry = FALSE
  BY <1>3
<1> QED  BY <1>1, <1>2, <1>3

LEMMA AppendRowKeeps ==
    ASSUME CaptureInv, AppendRow
    PROVE  CaptureInv'
<1>0. pass \in Running
  BY IdleOrRunning DEF AppendRow
<1>1. /\ pass.at = "append" /\ rowsIn \in 0..MaxMails
      /\ rowsIn' = rowsIn + 1 /\ rowsIn < MaxMails
      /\ pass' = [pass EXCEPT !.fresh = Append(@, rowsIn + 1)]
      /\ UNCHANGED <<captured, queue, pen, counted, parkedOnce, cutOff>>
  BY DEF AppendRow, CaptureInv, CaptureTypeOK
<1>2. pass.fresh \in Batch /\ rowsIn + 1 \in Mails /\ MaxMails \in Nat
  BY <1>0, <1>1, CaptureAssumption DEF Running, Mails
<1>3. /\ Append(pass.fresh, rowsIn + 1) \in Batch
      /\ Range(Append(pass.fresh, rowsIn + 1)) = Range(pass.fresh) \cup {rowsIn + 1}
  BY <1>2, RangeOfOneMore
<1>4. /\ pass' \in Running /\ pass'.at = "append" /\ pass'.refused = pass.refused
      /\ pass'.failed = pass.failed /\ Range(pass'.fresh) = Range(pass.fresh) \cup {rowsIn + 1}
      /\ pass'.todo = pass.todo
  BY <1>0, <1>1, <1>3 DEF Running
<1>5. \A m \in 1..rowsIn' : Placed(m)'
  <2> SUFFICES ASSUME NEW m \in 1..rowsIn' PROVE Placed(m)'
    OBVIOUS
  <2>1. CASE m = rowsIn + 1
    BY <1>4, <2>1 DEF Placed
  <2>2. CASE m # rowsIn + 1
    <3>1. m \in 1..rowsIn
      BY <1>1, <2>2
    <3>2. Placed(m)
      BY <3>1 DEF CaptureInv
    <3> QED  BY <1>1, <1>4, <3>2 DEF Placed, Settled
  <2> QED  BY <2>1, <2>2
<1>6. rowsIn' \in 0..MaxMails
  BY <1>1, CaptureAssumption
<1> QED  BY <1>1, <1>4, <1>5, <1>6 DEF CaptureInv, CaptureTypeOK, Passes

LEMMA DeliverKeeps ==
    ASSUME CaptureInv, Deliver
    PROVE  CaptureInv'
<1>0. pass \in Running
  BY IdleOrRunning DEF Deliver
<1>1. /\ pass.at = "append" /\ queue \in Batch /\ pen \in Batch
      /\ pass.refused = <<>> /\ pass.failed = <<>>
      /\ UNCHANGED <<rowsIn, captured, queue, pen, counted, parkedOnce, cutOff>>
  BY DEF Deliver, CaptureInv, CaptureTypeOK
<1> DEFINE pending == queue \o pass.fresh
<1>2. pass.fresh \in Batch
  BY <1>0 DEF Running
<1>3. pending \in Batch /\ Range(pending) = Range(queue) \cup Range(pass.fresh)
  BY <1>1, <1>2, RangeOfBoth
<1>4. CASE pending = <<>> /\ pen = <<>>
  <2>1. pass' = NoPass
    BY <1>4 DEF Deliver
  <2>2. Range(pass.fresh) = {}
    BY <1>3, <1>4, EmptyRange
  <2> QED  BY <1>1, <2>1, <2>2 DEF CaptureInv, CaptureTypeOK, Passes, NoPass, Placed, Settled
<1>5. CASE ~(pending = <<>> /\ pen = <<>>)
  <2> HIDE DEF pending
  <2>1. pass' = [pass EXCEPT !.at = "post", !.authentic = token = "pasted",
                             !.todo = pending, !.parked = pen]
    BY <1>5 DEF Deliver, pending
  <2>2. /\ pass'.at = "post" /\ pass'.todo = pending /\ pass'.failed = <<>>
        /\ pass'.refused = pass.refused
        /\ pass' \in Running
    <3> DEFINE live == token = "pasted"
    <3>1. live \in BOOLEAN
      OBVIOUS
    <3>2. pass' = [pass EXCEPT !.at = "post", !.authentic = live, !.todo = pending,
                               !.parked = pen]
      BY <2>1
    <3> HIDE DEF live
    <3> QED  BY <1>0, <1>1, <1>3, <3>1, <3>2 DEF Running
  <2>3. \A m \in 1..rowsIn' : Placed(m)'
    <3> SUFFICES ASSUME NEW m \in 1..rowsIn PROVE Placed(m)'
      BY <1>1
    <3>1. Placed(m)
      BY DEF CaptureInv
    <3> QED  BY <1>1, <1>3, <2>2, <3>1 DEF Placed, Settled
  <2> QED  BY <1>1, <2>2, <2>3 DEF CaptureInv, CaptureTypeOK, Passes
<1> QED  BY <1>4, <1>5

LEMMA PostKeeps ==
    ASSUME CaptureInv, PostPending \/ PostParked
    PROVE  CaptureInv'
<1>0. pass \in Running
  BY IdleOrRunning DEF PostPending, PostParked
<1>1. /\ pass.at = "post"
      /\ UNCHANGED <<rowsIn, queue, pen, counted, parkedOnce, cutOff>>
  BY DEF PostPending, PostParked, CaptureInv, CaptureTypeOK
<1>2. pass.todo \in Batch /\ pass.parked \in Batch /\ pass.refused \in Batch
  BY <1>0 DEF Running
<1>3. CASE PostPending
  <2> DEFINE chunk == ChunkOf(pass.todo)
  <2>0. PICK reply \in Replies(Range(chunk)) : \E refused \in Listings(reply.refused) :
           /\ captured' = captured \cup reply.stored
           /\ pass' = [pass EXCEPT
                !.todo = IF reply.retry THEN <<>> ELSE After(@),
                !.failed = IF reply.retry THEN Unsent(pass.todo) ELSE <<>>,
                !.refused = @ \o refused,
                !.down = reply.retry]
    BY <1>3 DEF PostPending
  <2>1. PICK refused \in Listings(reply.refused) :
           /\ captured' = captured \cup reply.stored
           /\ pass' = [pass EXCEPT
                !.todo = IF reply.retry THEN <<>> ELSE After(@),
                !.failed = IF reply.retry THEN Unsent(pass.todo) ELSE <<>>,
                !.refused = @ \o refused,
                !.down = reply.retry]
    BY <2>0
  <2>2. chunk \in Batch /\ After(pass.todo) \in Batch
        /\ Range(pass.todo) = Range(chunk) \cup Range(After(pass.todo))
    BY <1>2, ChunkAndRest
  <2> HIDE DEF chunk
  <2>3. /\ reply.retry \in BOOLEAN /\ reply.refused \subseteq Range(chunk)
        /\ ~reply.retry => Range(chunk) \subseteq reply.stored \cup reply.refused
    BY AnsweredWhole
  <2>4. refused \in Batch /\ Range(refused) = reply.refused
    BY <2>2, <2>3, RangeIsMails, ListingIsABatch
  <2>5. /\ pass.refused \o refused \in Batch
        /\ Range(pass.refused \o refused) = Range(pass.refused) \cup reply.refused
    BY <1>2, <2>4, RangeOfBoth
  <2>6. <<>> \in Batch
    BY DEF Batch
  <2>10. pass.failed = <<>>
    BY <1>3 DEF CaptureInv, PostPending
  <2>7. /\ pass'.at = "post"
        /\ pass'.todo = IF reply.retry THEN <<>> ELSE After(pass.todo)
        /\ pass'.failed = IF reply.retry THEN pass.todo ELSE <<>>
        /\ pass'.refused = pass.refused \o refused
    BY <1>0, <1>1, <2>1 DEF Running, Unsent
  <2>8. pass' \in Running
    BY <1>0, <1>2, <2>1, <2>2, <2>3, <2>5, <2>6 DEF Running, Unsent
  <2>9. \A m \in 1..rowsIn' : Placed(m)'
    <3> SUFFICES ASSUME NEW m \in 1..rowsIn PROVE Placed(m)'
      BY <1>1
    <3>1. Placed(m)
      BY DEF CaptureInv
    <3>2. m \in captured => m \in captured'
      BY <2>1
    <3>3. CASE m \in Range(pass.todo)
      <4>1. CASE reply.retry
        BY <2>7, <3>3, <4>1 DEF Placed
      <4>2. CASE ~reply.retry /\ m \in Range(chunk)
        BY <2>1, <2>3, <2>5, <2>7, <4>2 DEF Placed, Settled
      <4>3. CASE ~reply.retry /\ m \in Range(After(pass.todo))
        BY <2>7, <4>3 DEF Placed
      <4> QED  BY <2>2, <2>3, <3>3, <4>1, <4>2, <4>3
    <3>4. CASE m \notin Range(pass.todo)
      BY <1>1, <2>5, <2>10, <2>7, <3>1, <3>2, <3>4, EmptyRange DEF Placed, Settled
    <3> QED  BY <3>3, <3>4
  <2> QED  BY <1>1, <2>3, <2>7, <2>8, <2>9 DEF CaptureInv, CaptureTypeOK, Passes
<1>4. CASE PostParked
  <2> DEFINE chunk == ChunkOf(pass.parked)
  <2>0. PICK reply \in Replies(Range(chunk)) : \E refused \in Listings(reply.refused) :
           /\ captured' = captured \cup reply.stored
           /\ pass' = [pass EXCEPT
                !.parked = After(@),
                !.refused = @ \o (IF reply.retry THEN chunk ELSE refused)]
    BY <1>4 DEF PostParked
  <2>1. PICK refused \in Listings(reply.refused) :
           /\ captured' = captured \cup reply.stored
           /\ pass' = [pass EXCEPT
                !.parked = After(@),
                !.refused = @ \o (IF reply.retry THEN chunk ELSE refused)]
    BY <2>0
  <2>2. chunk \in Batch /\ After(pass.parked) \in Batch
    BY <1>2, ChunkAndRest
  <2> HIDE DEF chunk
  <2>3. refused \in Batch
    BY <2>2, AnsweredWhole, RangeIsMails, ListingIsABatch
  <2> DEFINE more == IF reply.retry THEN chunk ELSE refused
  <2>4. more \in Batch
    BY <2>2, <2>3
  <2>5. pass' = [pass EXCEPT !.parked = After(@), !.refused = @ \o more]
    BY <2>1
  <2> HIDE DEF more
  <2>6. /\ pass.refused \o more \in Batch
        /\ Range(pass.refused) \subseteq Range(pass.refused \o more)
    BY <1>2, <2>4, RangeOfBoth
  <2>7. /\ pass'.at = "post" /\ pass'.todo = pass.todo /\ pass'.failed = pass.failed
        /\ pass'.refused = pass.refused \o more
        /\ pass' \in Running
    BY <1>0, <1>1, <2>2, <2>5, <2>6 DEF Running
  <2>8. \A m \in 1..rowsIn' : Placed(m)'
    <3> SUFFICES ASSUME NEW m \in 1..rowsIn PROVE Placed(m)'
      BY <1>1
    <3>1. Placed(m)
      BY DEF CaptureInv
    <3> QED  BY <1>1, <2>1, <2>6, <2>7, <3>1 DEF Placed, Settled
  <2> QED  BY <1>1, <2>7, <2>8 DEF CaptureInv, CaptureTypeOK, Passes
<1> QED  BY <1>3, <1>4

LEMMA SaveKeeps ==
    ASSUME CaptureInv, SaveQueue \/ SavePen
    PROVE  CaptureInv'
<1>0. pass \in Running
  BY IdleOrRunning DEF SaveQueue, SavePen
<1>1. /\ pen \in Batch /\ queue \in Batch
      /\ UNCHANGED <<rowsIn, captured, cutOff>>
  BY DEF SaveQueue, SavePen, CaptureInv, CaptureTypeOK
<1>2. pass.failed \in Batch /\ pass.refused \in Batch /\ QueueMax \in Nat /\ PenMax \in Nat
  BY <1>0, CaptureAssumption DEF Running
<1>3. CASE SaveQueue
  <2>1. /\ pass.at = "post" /\ pass.todo = <<>>
        /\ queue' \in Saved(pass.failed, QueueMax)
        /\ counted' = counted \cup (Range(pass.failed) \ Range(queue'))
        /\ pass' = [pass EXCEPT !.at = "save"]
        /\ UNCHANGED <<pen, parkedOnce>>
    BY <1>3 DEF SaveQueue
  <2>2. queue' \in Batch
    BY <1>2, <2>1, SavedIsABatch
  <2>3. pass' \in Running /\ pass'.at = "save" /\ pass'.refused = pass.refused
    BY <1>0, <2>1 DEF Running
  <2>4. \A m \in 1..rowsIn' : Placed(m)'
    <3> SUFFICES ASSUME NEW m \in 1..rowsIn PROVE Placed(m)'
      BY <1>1
    <3>1. Placed(m)
      BY DEF CaptureInv
    <3> QED  BY <1>1, <2>1, <2>3, <3>1, EmptyRange DEF Placed, Settled
  <2> QED  BY <1>1, <2>1, <2>2, <2>3, <2>4 DEF CaptureInv, CaptureTypeOK, Passes
<1>4. CASE SavePen
  <2>1. /\ pass.at = "save"
        /\ pen' \in Saved(pass.refused, PenMax)
        /\ counted' = counted \cup (Range(pass.refused) \ Range(pen'))
        /\ parkedOnce' = parkedOnce \cup Range(pen')
        /\ pass' = NoPass
        /\ UNCHANGED queue
    BY <1>4 DEF SavePen
  <2>2. pen' \in Batch
    BY <1>2, <2>1, SavedIsABatch
  <2>3. \A m \in 1..rowsIn' : Placed(m)'
    <3> SUFFICES ASSUME NEW m \in 1..rowsIn PROVE Placed(m)'
      BY <1>1
    <3>1. Placed(m)
      BY DEF CaptureInv
    <3> QED  BY <1>1, <2>1, <3>1 DEF Placed, Settled, NoPass
  <2> QED  BY <1>1, <2>1, <2>2, <2>3 DEF CaptureInv, CaptureTypeOK, Passes, NoPass
<1> QED  BY <1>3, <1>4

LEMMA CutShortKeeps ==
    ASSUME CaptureInv, CutShort
    PROVE  CaptureInv'
<1>1. /\ pass \in Passes /\ pass.at # "idle" /\ pass' = NoPass
      /\ cutOff' = cutOff \cup (InHand \ (Range(queue) \cup Range(pen)))
      /\ Range(pen) \subseteq parkedOnce
      /\ UNCHANGED <<rowsIn, captured, queue, pen, counted, parkedOnce>>
  BY DEF CutShort, CaptureInv, CaptureTypeOK
<1>2. InHand = Range(pass.fresh) \cup Range(pass.todo) \cup Range(pass.failed)
               \cup Range(pass.refused)
  BY <1>1 DEF InHand
<1>3. \A m \in 1..rowsIn' : Placed(m)'
  <2> SUFFICES ASSUME NEW m \in 1..rowsIn PROVE Placed(m)'
    BY <1>1
  <2>1. Placed(m)
    BY DEF CaptureInv
  <2> QED  BY <1>1, <1>2, <2>1 DEF Placed, Settled, NoPass
<1> QED  BY <1>1, <1>3 DEF CaptureInv, CaptureTypeOK, Passes, NoPass

LEMMA TokenKeeps ==
    ASSUME CaptureInv, RotateToken \/ RevokeTokens \/ PasteToken
    PROVE  CaptureInv'
<1>1. /\ pass \in Passes
      /\ UNCHANGED <<rowsIn, captured, queue, pen, counted, parkedOnce, cutOff>>
  BY DEF RotateToken, RevokeTokens, PasteToken, TokenBecomes, CaptureInv, CaptureTypeOK
<1>2. \/ pass' = pass
      \/ pass.at = "idle" /\ pass' = NoPass
      \/ pass.at # "idle" /\ pass' = [pass EXCEPT !.authentic = FALSE]
  BY DEF RotateToken, RevokeTokens, PasteToken, TokenBecomes
<1>3. pass' = pass \/ (pass.at # "idle" /\ pass' = [pass EXCEPT !.authentic = FALSE])
  BY <1>2, IdleIsNoPass
<1>4. CASE pass' = pass
  BY <1>1, <1>4 DEF CaptureInv, CaptureTypeOK, Placed, Settled
<1>5. CASE pass.at # "idle" /\ pass' = [pass EXCEPT !.authentic = FALSE]
  <2>0. pass \in Running
    BY <1>5, IdleOrRunning
  <2>1. /\ pass' \in Running /\ pass'.at = pass.at /\ pass'.fresh = pass.fresh
        /\ pass'.todo = pass.todo /\ pass'.failed = pass.failed
        /\ pass'.refused = pass.refused
    BY <1>5, <2>0 DEF Running
  <2> QED  BY <1>1, <2>1 DEF CaptureInv, CaptureTypeOK, Placed, Settled, Passes
<1> QED  BY <1>3, <1>4, <1>5

LEMMA CaptureStepKeeps == CaptureInv /\ [CaptureNext]_captureVars => CaptureInv'
<1> SUFFICES ASSUME CaptureInv, [CaptureNext]_captureVars PROVE CaptureInv'
  OBVIOUS
<1>1. CASE StartPass
  <2>1. /\ pass = NoPass /\ pass'.at = "append"
        /\ pass' = [at |-> "append", authentic |-> FALSE, fresh |-> <<>>, todo |-> <<>>,
                    parked |-> <<>>, failed |-> <<>>, refused |-> <<>>, down |-> FALSE]
        /\ UNCHANGED <<rowsIn, captured, queue, pen, counted, parkedOnce, cutOff>>
    BY <1>1, IdleIsNoPass DEF StartPass
  <2>2. <<>> \in Batch
    BY DEF Batch
  <2>3. pass' \in Running
    BY <2>1, <2>2 DEF Running
  <2> QED  BY <2>1, <2>3 DEF CaptureInv, CaptureTypeOK, Placed, Settled, NoPass, Passes
<1>2. CASE UNCHANGED captureVars
  BY <1>2 DEF captureVars, CaptureInv, CaptureTypeOK, Placed, Settled
<1> QED  BY <1>1, <1>2, AppendRowKeeps, DeliverKeeps, PostKeeps, SaveKeeps, CutShortKeeps,
            TokenKeeps DEF CaptureNext

\* Whatever a request comes to, whichever pass is cut short, however full the queue
\* and the pen are: no mail with a row in the sheet is unaccounted for, but for one
\* that was refused.
THEOREM NoMailIsForgotten == CaptureSpec => []Accounted
<1>1. CaptureInit => CaptureInv
  <2>1. <<>> \in Batch
    BY DEF Batch
  <2> QED  BY <2>1, CaptureAssumption, EmptyRange
           DEF CaptureInit, CaptureInv, CaptureTypeOK, Passes, NoPass
<1>2. CaptureInv => Accounted
  <2> SUFFICES ASSUME CaptureInv, NEW m \in 1..rowsIn, m \notin parkedOnce PROVE Held(m)
    BY DEF Accounted
  <2>1. Placed(m) /\ pass \in Passes
    BY DEF CaptureInv, CaptureTypeOK
  <2>2. pass.at # "idle" =>
           InHand = Range(pass.fresh) \cup Range(pass.todo) \cup Range(pass.failed)
                    \cup Range(pass.refused)
    BY DEF InHand
  <2>3. Held(m) <=> \/ m \in captured \/ m \in Range(queue) \/ m \in Range(pen)
                    \/ m \in InHand \/ m \in counted \/ m \in cutOff
    BY DEF Held
  <2> QED  BY <2>1, <2>2, <2>3 DEF Placed, Settled
<1> QED  BY <1>1, <1>2, CaptureStepKeeps, PTL DEF CaptureSpec

-------------------------------------------------------------------------------
(* The rotation of the sweep over its boards. *)

\* As many runs as there are boards, once over for each change of the list.
Turn == Companies * (listings + 1)

\* A run owes the boards it has not come to yet what they have waited and the way
\* to them, unless the list changed under it and gave every board a turn more.
TourInv ==
    /\ tour \in [on : {TRUE}, from : Stops, left : SUBSET Stops, resumed : BOOLEAN,
                fresh : BOOLEAN]
    /\ tour.left # {}
    /\ \A b \in Stops \ tour.left : waits[b] = 0
    /\ \A b \in tour.left : waits[b] + Away(tour.from, b) <= Turn
    /\ \/ tour.left \subseteq listedBoards
       \/ \A b \in Stops : waits[b] + Companies <= Turn
    /\ ~tour.fresh => \A b \in tour.left : Away(tour.from, b) > 0

\* What a board has waited and its way from the cursor make a turn at most.
RotationInv ==
    /\ listedBoards \subseteq Stops /\ parked \in Stops \cup {Nowhere}
    /\ listings \in Nat
    /\ waits \in [Stops -> Nat]
    /\ \A b \in Stops \ listedBoards : waits[b] = 0
    /\ \A b \in Stops : waits[b] + Away(From, b) <= Turn
    /\ tour.on => TourInv

\* The way round the list: less than the list, and what is left of it from a
\* board on the way.
LEMMA WayRound ==
    ASSUME NEW from \in Stops, NEW b \in Stops
    PROVE  /\ Away(from, b) \in Nat /\ Away(from, b) < Companies
           /\ \A h \in Stops : Away(from, h) <= Away(from, b)
                 => Away(h, b) = Away(from, b) - Away(from, h)
  BY RotationAssumption DEF Away, Stops

LEMMA TurnGrows ==
    ASSUME NEW n \in Nat
    PROVE  /\ Companies * (n + 1) \in Nat
           /\ Companies <= Companies * (n + 1)
           /\ Companies * (n + 1 + 1) = Companies * (n + 1) + Companies
<1>1. Companies \in Nat
  BY RotationAssumption
<1>2. Companies * n \in Nat
  BY <1>1
<1>3. Companies * (n + 1) = Companies * n + Companies
  BY <1>1
<1>4. Companies * (n + 1 + 1) = Companies * (n + 1) + Companies
  BY <1>1
<1> QED  BY <1>1, <1>2, <1>3, <1>4

\* Among boards of the list one is met first.
LEMMA OneIsFirst ==
    ASSUME tour.from \in Stops, NEW S \in SUBSET Stops, S # {}
    PROVE  /\ Nearest(S) \in S
           /\ \A b \in S : Away(tour.from, Nearest(S)) <= Away(tour.from, b)
<1> DEFINE R == OpToRel(<, Nat)
           ways == {Away(tour.from, b) : b \in S}
<1>1. IsWellFoundedOn(R, Nat)
  BY NatLessThanWellFounded
<1>2. ways \subseteq Nat /\ ways # {}
  BY WayRound
<1>3. PICK w \in ways : \A v \in ways : ~(<<v, w>> \in R)
  <2> HIDE DEF R, ways
  <2> QED  BY <1>1, <1>2, WFMin
<1>4. \A v \in ways : w <= v
  <2> TAKE v \in ways
  <2>1. w \in Nat /\ v \in Nat /\ <<v, w>> \notin R
    BY <1>2, <1>3
  <2>2. ~(v < w)
    BY <2>1 DEF OpToRel
  <2> HIDE DEF R, ways
  <2> QED  BY <2>1, <2>2
<1>5. PICK f \in S : w = Away(tour.from, f)
  BY <1>3
<1>6. \A b \in S : Away(tour.from, f) <= Away(tour.from, b)
  BY <1>4, <1>5
<1> HIDE DEF R, ways
<1> QED  BY <1>6 DEF Nearest

\* A chunk is the head of what is left, and the first board of a tour is in its
\* first chunk.
LEMMA ChunkIsTheHead ==
    ASSUME TourInv
    PROVE  /\ CurrentChunk \subseteq tour.left
           /\ \A b \in tour.left \ CurrentChunk :
                 /\ \A h \in CurrentChunk : Away(tour.from, h) < Away(tour.from, b)
                 /\ Away(tour.from, b) > 0
<1> USE DEF TourInv
<1>1. IsFiniteSet(tour.left)
  <2>1. IsFiniteSet(Stops)
    BY RotationAssumption, FS_Interval DEF Stops
  <2> QED  BY <2>1, FS_Subset
<1>2. \A b \in tour.left : /\ IsFiniteSet(Ahead(b)) /\ Cardinality(Ahead(b)) \in Nat
                           /\ Away(tour.from, b) \in Nat
  BY <1>1, FS_Subset, FS_CardinalityType, WayRound DEF Ahead
<1>3. SUFFICES ASSUME NEW b \in tour.left \ CurrentChunk
               PROVE  /\ \A h \in CurrentChunk : Away(tour.from, h) < Away(tour.from, b)
                      /\ Away(tour.from, b) > 0
  BY DEF CurrentChunk
<1>4. Cardinality(Ahead(b)) >= FetchChunk /\ FetchChunk \in Nat \ {0}
  BY <1>2, <1>3, RotationAssumption DEF CurrentChunk
<1>5. ASSUME NEW h \in CurrentChunk
      PROVE  Away(tour.from, h) < Away(tour.from, b)
  <2>1. SUFFICES ASSUME Away(tour.from, b) <= Away(tour.from, h)
                 PROVE  FALSE
    BY <1>2, <1>3, <1>5 DEF CurrentChunk
  <2>2. h \in tour.left /\ Cardinality(Ahead(h)) < FetchChunk
    BY <1>5 DEF CurrentChunk
  <2>3. Ahead(b) \subseteq Ahead(h)
    <3> SUFFICES ASSUME NEW c \in Ahead(b) PROVE c \in Ahead(h)
      OBVIOUS
    <3>1. c \in tour.left /\ Away(tour.from, c) < Away(tour.from, b)
      BY DEF Ahead
    <3>2. /\ Away(tour.from, c) \in Nat /\ Away(tour.from, b) \in Nat
          /\ Away(tour.from, h) \in Nat
      BY <1>2, <1>3, <2>2, <3>1
    <3>3. Away(tour.from, c) < Away(tour.from, h)
      BY <2>1, <3>1, <3>2
    <3> QED  BY <3>1, <3>3 DEF Ahead
  <2>4. Cardinality(Ahead(b)) <= Cardinality(Ahead(h))
    BY <1>2, <2>2, <2>3, FS_Subset
  <2> QED  BY <1>2, <1>3, <1>4, <2>2, <2>4
<1>6. Away(tour.from, b) > 0
  <2>1. Ahead(b) # {}
    BY <1>3, <1>4, FS_EmptySet
  <2>2. PICK c \in Ahead(b) : TRUE
    BY <2>1
  <2>3. c \in tour.left /\ Away(tour.from, c) < Away(tour.from, b)
    BY <2>2 DEF Ahead
  <2> QED  BY <1>2, <1>3, <2>3
<1> QED  BY <1>5, <1>6

\* The way from the cursor to a board is less than the list, wherever the cursor is.
LEMMA WayFromCursor ==
    ASSUME listedBoards \subseteq Stops, NEW b \in Stops
    PROVE  From \in Stops /\ Away(From, b) \in Nat /\ Away(From, b) < Companies
<1>1. 1 \in Stops
  BY RotationAssumption DEF Stops
<1>2. From \in Stops
  BY <1>1 DEF From
<1> QED  BY <1>2, WayRound

LEMMA StartKeeps ==
    ASSUME RotationInv, StartTour
    PROVE  RotationInv'
<1> USE DEF RotationInv
<1>1. UNCHANGED <<listedBoards, waits, listings>> /\ Turn' = Turn
  BY DEF StartTour, Turn
<1>2. CASE listedBoards = {}
  <2>1. parked' = Nowhere /\ ~tour'.on
    BY <1>2 DEF StartTour
  <2>2. ASSUME NEW b \in Stops PROVE waits[b] + Away(From, b)' <= Turn
    <3>1. waits[b] = 0
      BY <1>2
    <3>2. Away(From, b)' \in Nat /\ Away(From, b)' < Companies
      <4>1. From' = 1 /\ 1 \in Stops
        BY <1>1, <1>2, RotationAssumption DEF From, Stops
      <4> QED  BY <4>1, WayRound DEF Away
    <3> QED  BY <3>1, <3>2, TurnGrows, RotationAssumption DEF Turn
  <2> QED  BY <1>1, <2>1, <2>2
<1>3. CASE listedBoards # {}
  <2>1. /\ tour' = [on |-> TRUE, from |-> From, left |-> listedBoards,
                    resumed |-> parked # Nowhere, fresh |-> TRUE]
        /\ parked' = parked
    BY <1>3 DEF StartTour
  <2>2. From' = From /\ \A b : Away(From, b)' = Away(From, b)
    BY <1>1, <2>1 DEF From, Away
  <2>3. From \in Stops
    BY <1>3, WayFromCursor
  <2>4. TourInv'
    BY <1>1, <1>3, <2>1, <2>2, <2>3 DEF TourInv, Away
  <2> QED  BY <1>1, <2>1, <2>2, <2>4
<1> QED  BY <1>2, <1>3

\* A run that ends: a board it did not come to has waited one run more, and the
\* cursor has come nearer by a board or more, or stands where all is new.
LEMMA EndKeeps ==
    ASSUME RotationInv, tour.on, NEW next \in Stops \cup {Nowhere},
           NEW fetched \in SUBSET tour.left, ParksAt(next, fetched),
           UNCHANGED <<listedBoards, listings>>,
           next = Nowhere => fetched = tour.left,
           next # Nowhere =>
              /\ next \in tour.left /\ Away(tour.from, next) > 0
              /\ \A b \in tour.left \ fetched : Away(tour.from, next) <= Away(tour.from, b)
    PROVE  RotationInv'
<1> USE DEF RotationInv
<1>1. tour' = AtRest /\ waits' = Ended(fetched) /\ Turn' = Turn /\ ~tour'.on
  BY DEF ParksAt, Turn, AtRest
<1>2. parked' \in Stops \cup {Nowhere} /\ (next # Nowhere => parked' = next)
  BY DEF ParksAt
<1>3. waits' \in [Stops -> Nat] /\ \A b \in Stops \ listedBoards : waits'[b] = 0
  BY <1>1 DEF Ended
<1>4. Turn \in Nat /\ Companies <= Turn /\ Companies \in Nat
  BY TurnGrows, RotationAssumption DEF Turn
<1>5. ASSUME NEW b \in Stops PROVE waits'[b] + Away(From, b)' <= Turn
  <2>1. /\ From' \in Stops /\ Away(From, b)' = Away(From', b)
        /\ Away(From', b) \in Nat /\ Away(From', b) < Companies
    <3>1. 1 \in Stops
      BY RotationAssumption DEF Stops
    <3>2. From' \in Stops
      BY <3>1 DEF From
    <3> QED  BY <3>2, WayRound DEF Away
  <2>2. CASE b \in fetched \/ b \notin listedBoards
    <3>1. waits'[b] = 0
      BY <1>1, <2>2 DEF Ended
    <3> QED  BY <1>4, <2>1, <3>1
  <2>3. CASE ~(b \in fetched \/ b \notin listedBoards)
    <3>1. waits'[b] = waits[b] + 1 /\ waits[b] \in Nat
      BY <1>1, <2>3 DEF Ended
    <3>2. CASE b \notin tour.left
      <4>1. waits[b] = 0
        BY <3>2 DEF TourInv
      <4> QED  BY <1>4, <2>1, <3>1, <4>1
    <3>3. CASE b \in tour.left
      <4>1. /\ next \in tour.left /\ next \in Stops /\ Away(tour.from, next) > 0
            /\ Away(tour.from, next) <= Away(tour.from, b) /\ parked' = next
        BY <1>2, <2>3, <3>3 DEF TourInv
      <4>2. CASE next \in listedBoards
        <5>1. From' = next
          BY <4>1, <4>2 DEF From
        <5>2. /\ Away(next, b) = Away(tour.from, b) - Away(tour.from, next)
              /\ Away(tour.from, b) \in Nat /\ Away(tour.from, next) \in Nat
          BY <4>1, WayRound DEF TourInv
        <5>3. waits[b] + Away(tour.from, b) <= Turn
          BY <3>3 DEF TourInv
        <5> QED  BY <1>4, <2>1, <3>1, <4>1, <5>1, <5>2, <5>3
      <4>3. CASE next \notin listedBoards
        <5>1. waits[b] + Companies <= Turn
          BY <4>1, <4>3 DEF TourInv
        <5> QED  BY <1>4, <2>1, <3>1, <5>1
      <4> QED  BY <4>2, <4>3
    <3> QED  BY <3>2, <3>3
  <2> QED  BY <2>2, <2>3
<1> QED  BY <1>1, <1>2, <1>3, <1>5

LEMMA VisitKeeps ==
    ASSUME RotationInv, VisitChunk
    PROVE  RotationInv'
<1>1. TourInv /\ tour.on /\ UNCHANGED <<listedBoards, listings>> /\ Turn' = Turn
  BY DEF RotationInv, VisitChunk, Turn
<1>2. CurrentChunk \in SUBSET tour.left
  BY DEF CurrentChunk
<1>3. CASE CurrentChunk = tour.left
  <2>1. ParksAt(Nowhere, CurrentChunk)
    BY <1>3 DEF VisitChunk
  <2> QED  BY <1>1, <1>2, <1>3, <2>1, EndKeeps
<1>4. CASE CurrentChunk # tour.left
  <2>1. /\ tour' = [tour EXCEPT !.left = tour.left \ CurrentChunk, !.fresh = FALSE]
        /\ waits' = [b \in Stops |-> IF b \in CurrentChunk THEN 0 ELSE waits[b]]
        /\ parked' = parked
    BY <1>4 DEF VisitChunk
  <2>2. /\ tour'.on /\ tour'.from = tour.from /\ ~tour'.fresh
        /\ tour'.left = tour.left \ CurrentChunk
        /\ tour' \in [on : {TRUE}, from : Stops, left : SUBSET Stops, resumed : BOOLEAN,
                     fresh : BOOLEAN]
        /\ tour'.left # {}
    BY <1>1, <1>2, <1>4, <2>1 DEF TourInv
  <2>3. From' = From /\ \A b : /\ Away(From, b)' = Away(From, b)
                               /\ Away(tour.from, b)' = Away(tour.from, b)
    BY <1>1, <2>1, <2>2 DEF From, Away
  <2>4. /\ waits' \in [Stops -> Nat]
        /\ \A b \in Stops : waits'[b] = 0 \/ (b \notin CurrentChunk /\ waits'[b] = waits[b])
    BY <2>1 DEF RotationInv
  <2>5. Turn \in Nat /\ Companies \in Nat /\ Companies <= Turn
    BY TurnGrows, RotationAssumption DEF Turn, RotationInv
  <2>6. \A b \in Stops : waits'[b] + Away(From, b)' <= Turn
    BY <2>3, <2>4, <2>5, WayFromCursor DEF RotationInv
  <2>7. \A b \in Stops \ tour'.left : waits'[b] = 0
    BY <1>1, <2>1, <2>2, <2>4 DEF TourInv
  <2>8. \A b \in tour'.left : waits'[b] + Away(tour.from, b) <= Turn
    <3> TAKE b \in tour'.left
    <3>1. /\ b \in tour.left /\ b \in Stops /\ tour.from \in Stops
          /\ waits[b] + Away(tour.from, b) <= Turn
      BY <1>1, <2>2 DEF TourInv
    <3>2. waits[b] \in Nat /\ Away(tour.from, b) \in Nat
      BY <3>1, WayRound DEF RotationInv
    <3>3. waits'[b] = 0 \/ waits'[b] = waits[b]
      BY <2>4, <3>1
    <3> QED  BY <2>5, <3>1, <3>2, <3>3
  <2>9. \A b \in tour'.left : Away(tour.from, b) > 0
    BY <1>1, <2>2, ChunkIsTheHead
  <2>10. \/ tour'.left \subseteq listedBoards
         \/ \A b \in Stops : waits'[b] + Companies <= Turn
    BY <1>1, <2>2, <2>4, <2>5 DEF TourInv
  <2>11. TourInv'
    BY <1>1, <2>2, <2>3, <2>7, <2>8, <2>9, <2>10 DEF TourInv
  <2>12. \A b \in Stops \ listedBoards : waits'[b] = 0
    BY <2>4 DEF RotationInv
  <2> QED  BY <1>1, <2>1, <2>4, <2>6, <2>11, <2>12 DEF RotationInv
<1> QED  BY <1>3, <1>4

\* Where a run stops, a board it has fetched lies before the one it parks.
LEMMA StopsKeep ==
    ASSUME RotationInv, StopBetweenChunks \/ StopInChunk
    PROVE  RotationInv'
<1>1. TourInv /\ tour.on /\ UNCHANGED <<listedBoards, listings>>
  BY DEF RotationInv, StopBetweenChunks, StopInChunk
<1>2. tour.from \in Stops /\ tour.left \in SUBSET Stops /\ tour.left # {}
  BY <1>1 DEF TourInv
<1>3. 0 \notin Stops
  BY DEF Stops
<1>4. /\ Nearest(tour.left) \in tour.left
      /\ \A b \in tour.left : Away(tour.from, Nearest(tour.left)) <= Away(tour.from, b)
  BY <1>2, OneIsFirst
<1>5. CASE StopBetweenChunks
  <2> DEFINE next == Nearest(tour.left)
  <2>1. ParksAt(next, {}) /\ Away(tour.from, next) > 0
    BY <1>1, <1>4, <1>5 DEF StopBetweenChunks, TourInv
  <2>2. next \in Stops /\ next # Nowhere
    BY <1>2, <1>3, <1>4 DEF Nowhere
  <2> HIDE DEF next
  <2>3. next \in tour.left /\ \A b \in tour.left \ {} : Away(tour.from, next) <= Away(tour.from, b)
    BY <1>4 DEF next
  <2> QED  BY <1>1, <2>1, <2>2, <2>3, EndKeeps
<1>6. CASE StopInChunk
  <2>1. PICK fetched \in SUBSET CurrentChunk :
           /\ fetched # {} /\ fetched # CurrentChunk
           /\ tour.fresh => Nearest(tour.left) \in fetched
           /\ ParksAt(FirstMissing(fetched), fetched)
    BY <1>6 DEF StopInChunk
  <2> DEFINE next == FirstMissing(fetched)
  <2>2. CurrentChunk \subseteq tour.left
    BY DEF CurrentChunk
  <2>3. /\ next \in CurrentChunk \ fetched
        /\ \A b \in CurrentChunk \ fetched : Away(tour.from, next) <= Away(tour.from, b)
    <3>1. CurrentChunk \ fetched \in SUBSET Stops /\ CurrentChunk \ fetched # {}
      BY <1>2, <2>1, <2>2
    <3> QED  BY <1>2, <3>1, OneIsFirst DEF FirstMissing
  <2>4. next \in Stops /\ next # Nowhere /\ next \in tour.left /\ fetched \in SUBSET tour.left
    BY <1>2, <1>3, <2>1, <2>2, <2>3 DEF Nowhere
  <2> HIDE DEF next
  <2>5. ASSUME NEW b \in tour.left \ fetched
        PROVE  Away(tour.from, next) <= Away(tour.from, b)
    <3>1. CASE b \in CurrentChunk
      BY <2>3, <2>5, <3>1
    <3>2. CASE b \notin CurrentChunk
      <4>1. Away(tour.from, next) < Away(tour.from, b)
        BY <1>1, <2>3, <2>5, <3>2, ChunkIsTheHead
      <4>2. Away(tour.from, next) \in Nat /\ Away(tour.from, b) \in Nat
        BY <1>2, <2>4, <2>5, WayRound
      <4> QED  BY <4>1, <4>2
    <3> QED  BY <3>1, <3>2
  <2>6. Away(tour.from, next) > 0
    <3>1. CASE ~tour.fresh
      BY <1>1, <2>4, <3>1 DEF TourInv
    <3>2. CASE tour.fresh
      <4> DEFINE first == Nearest(tour.left)
      <4>1. first \in fetched /\ first \in Stops /\ first # next
        BY <1>2, <1>4, <2>1, <2>3, <3>2
      <4>2. Away(tour.from, first) <= Away(tour.from, next)
        BY <1>4, <2>4
      <4> HIDE DEF first
      <4> QED  BY <1>2, <2>4, <4>1, <4>2, RotationAssumption DEF Away, Stops
    <3> QED  BY <1>1, <3>1, <3>2 DEF TourInv
  <2>7. ParksAt(next, fetched)
    BY <2>1 DEF next
  <2> QED  BY <1>1, <2>4, <2>5, <2>6, <2>7, EndKeeps
<1> QED  BY <1>5, <1>6

\* A change of the list is a turn more for every board.
LEMMA RelistKeeps ==
    ASSUME RotationInv, NEW c \in Stops, Relist(c)
    PROVE  RotationInv'
<1>1. /\ listings \in Nat /\ listings' = listings + 1
      /\ UNCHANGED <<parked, tour>>
      /\ waits' = [waits EXCEPT ![c] = 0]
      /\ listedBoards' = IF c \in listedBoards THEN listedBoards \ {c}
                         ELSE listedBoards \cup {c}
  BY DEF Relist, RotationInv
<1>2. /\ Turn \in Nat /\ Companies <= Turn /\ Companies \in Nat
      /\ Turn' = Turn + Companies /\ Turn' \in Nat
  BY <1>1, TurnGrows, RotationAssumption DEF Turn
<1>3. listedBoards \subseteq Stops /\ listedBoards' \subseteq Stops /\ waits' \in [Stops -> Nat]
  BY <1>1 DEF RotationInv
<1>4. \A b \in Stops : /\ waits'[b] \in Nat /\ waits'[b] <= waits[b]
                       /\ waits[b] = 0 => waits'[b] = 0
                       /\ b \in Stops \ listedBoards' => waits'[b] = 0
  BY <1>1 DEF RotationInv
<1>5. \A b \in Stops : waits'[b] + Companies <= Turn'
  <2> TAKE b \in Stops
  <2>1. waits[b] + Away(From, b) <= Turn /\ waits[b] \in Nat
    BY DEF RotationInv
  <2>2. Away(From, b) \in Nat
    BY <1>3, WayFromCursor
  <2> QED  BY <1>2, <1>4, <2>1, <2>2
<1>6. \A f, b \in Stops : waits'[b] + Away(f, b) <= Turn'
  <2> TAKE f, b \in Stops
  <2>1. Away(f, b) \in Nat /\ Away(f, b) < Companies
    BY WayRound
  <2> QED  BY <1>2, <1>4, <1>5, <2>1
<1>7. ASSUME NEW b \in Stops PROVE waits'[b] + Away(From, b)' <= Turn'
  <2>1. 1 \in Stops
    BY RotationAssumption DEF Stops
  <2>2. From' \in Stops
    BY <1>3, <2>1 DEF From
  <2>3. Away(From, b)' = Away(From', b)
    BY DEF Away
  <2> QED  BY <1>6, <2>2, <2>3
<1>8. ASSUME tour'.on PROVE TourInv'
  <2>1. TourInv /\ tour.from \in Stops /\ tour.left \subseteq Stops
    BY <1>1, <1>8 DEF RotationInv, TourInv
  <2>2. \A b : Away(tour.from, b)' = Away(tour.from, b)
    BY <1>1 DEF Away
  <2>3. \A b \in tour.left : waits'[b] + Away(tour.from, b) <= Turn'
    BY <1>6, <2>1
  <2>4. \A b \in Stops \ tour.left : waits'[b] = 0
    BY <1>4, <2>1 DEF TourInv
  <2> QED  BY <1>1, <1>5, <2>1, <2>2, <2>3, <2>4 DEF TourInv
<1> QED  BY <1>1, <1>3, <1>4, <1>7, <1>8 DEF RotationInv

\* However many boards are on the list, in chunks of any size, wherever the budget
\* stops each run, whichever runs die and however the list changes: the tail of
\* the list is reached.
THEOREM NoBoardStarves == RotationSpec => []TailIsReached
<1>1. RotationInit => RotationInv
  <2> SUFFICES ASSUME RotationInit PROVE RotationInv
    OBVIOUS
  <2>1. /\ listedBoards \subseteq Stops /\ listings = 0 /\ waits = [b \in Stops |-> 0]
        /\ parked = Nowhere /\ ~tour.on
    BY DEF RotationInit, AtRest
  <2>2. Turn \in Nat /\ Companies <= Turn /\ Companies \in Nat
    BY <2>1, TurnGrows, RotationAssumption DEF Turn
  <2>3. \A b \in Stops : waits[b] + Away(From, b) <= Turn
    <3> TAKE b \in Stops
    <3>1. Away(From, b) \in Nat /\ Away(From, b) < Companies
      BY <2>1, WayFromCursor
    <3> QED  BY <2>1, <2>2, <3>1
  <2> QED  BY <2>1, <2>3 DEF RotationInv
<1>2. RotationInv /\ [RotationNext]_rotationVars => RotationInv'
  <2> SUFFICES ASSUME RotationInv, [RotationNext]_rotationVars PROVE RotationInv'
    OBVIOUS
  <2>1. CASE Killed
    <3>1. /\ UNCHANGED <<listedBoards, parked, waits, listings>> /\ ~tour'.on
      BY <2>1 DEF Killed, AtRest
    <3>2. Turn' = Turn /\ \A b : Away(From, b)' = Away(From, b)
      BY <3>1 DEF Turn, From, Away
    <3> QED  BY <3>1, <3>2 DEF RotationInv
  <2>2. CASE UNCHANGED rotationVars
    BY <2>2 DEF rotationVars, RotationInv, TourInv, Turn, From, Away
  <2> QED  BY <2>1, <2>2, StartKeeps, VisitKeeps, StopsKeep, RelistKeeps DEF RotationNext
<1>3. RotationInv => TailIsReached
  <2> SUFFICES ASSUME RotationInv, NEW b \in Stops
               PROVE  waits[b] <= Companies * (listings + 1)
    BY DEF TailIsReached
  <2>1. /\ waits[b] + Away(From, b) <= Turn /\ waits[b] \in Nat /\ listings \in Nat
        /\ listedBoards \subseteq Stops
    BY DEF RotationInv
  <2>2. Away(From, b) \in Nat /\ Turn \in Nat
    BY <2>1, WayFromCursor, TurnGrows DEF Turn
  <2>3. waits[b] <= Turn
    BY <2>1, <2>2
  <2> QED  BY <2>3 DEF Turn
<1> QED  BY <1>1, <1>2, <1>3, PTL DEF RotationSpec
===============================================================================
