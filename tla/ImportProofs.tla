----------------------------- MODULE ImportProofs -----------------------------
(* An import lands each row once, keeps what a person set and undoes exactly    *)
(* what it wrote, for any file, any applications, any number of tabs and any    *)
(* chunk. A chunk and an undo go through the file row by row: what holds of the *)
(* state each has come to (ChunkInv, TakenBack) is carried from row to row by   *)
(* ChunkSteps and UndoSteps, and what holds between commands is ImportInv.      *)
EXTENDS ImportBatch, FiniteSetTheorems, WellFoundedInduction, TLAPS

\* A set of numbers has a least one.
LEMMA LeastNumber ==
    ASSUME NEW S, S \subseteq Nat, S # {}
    PROVE  \E m \in S : \A n \in S : m <= n
<1> DEFINE R == OpToRel(<, Nat)
<1>1. IsWellFoundedOn(R, Nat)
  BY NatLessThanWellFounded
<1>3. PICK x \in S : \A y \in S : ~(<<y, x>> \in R)
  <2> HIDE DEF R
  <2> QED  BY <1>1, WFMin
<1>4. \A y \in S : x <= y
  <2> TAKE y \in S
  <2>1. x \in Nat /\ y \in Nat /\ <<y, x>> \notin R
    BY <1>3
  <2>2. ~(y < x)
    BY <2>1 DEF OpToRel
  <2> HIDE DEF R
  <2> QED  BY <2>1, <2>2
<1> QED  BY <1>4

\* What holds at 0 and passes from each number to the next holds up to N.
LEMMA Climbs ==
    ASSUME NEW N \in Nat, NEW Good, 0 \in Good, \A n \in 1..N : n - 1 \in Good => n \in Good
    PROVE  0..N \subseteq Good
<1> DEFINE Broken == {n \in 0..N : n \notin Good}
<1> SUFFICES ASSUME Broken # {}  PROVE FALSE
  OBVIOUS
<1>0. Broken \subseteq Nat
  OBVIOUS
<1>1. PICK n \in Broken : \A m \in Broken : n <= m
  BY <1>0, LeastNumber
<1>2. n # 0 /\ n \in 1..N /\ n - 1 \in 0..N
  BY <1>1
<1>3. n - 1 \notin Broken
  BY <1>1, <1>2
<1> QED BY <1>1, <1>2, <1>3

\* The rows of P up to the n-th of the file.
Through(P, n) == {q \in P : q <= n}

LEMMA ThroughRows ==
    ASSUME NEW N \in Nat, NEW P \in SUBSET (1..N)
    PROVE  /\ Through(P, 0) = {} /\ Through(P, N) = P
           /\ \A n \in 1..N :
                 /\ n \notin Through(P, n - 1)
                 /\ Through(P, n) = IF n \in P THEN Through(P, n - 1) \union {n}
                                    ELSE Through(P, n - 1)
<1>1. \A q \in P : q \in Nat /\ ~(q <= 0) /\ q <= N
  OBVIOUS
<1>2. Through(P, 0) = {} /\ Through(P, N) = P
  <2>1. Through(P, 0) = {}
    BY <1>1 DEF Through
  <2>2. Through(P, N) = P
    BY <1>1 DEF Through
  <2> QED BY <2>1, <2>2
<1>3. ASSUME NEW n \in 1..N
      PROVE  /\ n \notin Through(P, n - 1)
             /\ Through(P, n) = IF n \in P THEN Through(P, n - 1) \union {n}
                                ELSE Through(P, n - 1)
  <2>1. n \in Nat /\ ~(n <= n - 1)
    OBVIOUS
  <2>2. \A q \in P : q <= n <=> q <= n - 1 \/ q = n
    BY <1>1
  <2> QED BY <2>1, <2>2 DEF Through
<1> QED BY <1>2, <1>3

\* A chunk goes from row to row.
LEMMA SettlingRows ==
    ASSUME NEW N, N = Len(file), N \in Nat, NEW picked, NEW now
    PROVE  LET after == Settling(picked, now) IN
           /\ after[0] = [apps |-> apps, row |-> row, notes |-> notes]
           /\ \A r \in 1..N : after[r] = IF r \in picked THEN Settle(after[r - 1], r, now)
                                         ELSE after[r - 1]
<1> DEFINE start == [apps |-> apps, row |-> row, notes |-> notes]
           Next(g, r) == IF r \in picked THEN Settle(g[r - 1], r, now) ELSE g[r - 1]
           Chain(g, m) == g = [r \in 0..m |-> IF r = 0 THEN start ELSE Next(g, r)]
           Broken == {m \in Nat : ~ \E g : Chain(g, m)}
<1>1. Broken = {}
  <2> SUFFICES ASSUME Broken # {}  PROVE FALSE
    OBVIOUS
  <2>1. PICK m \in Broken : \A n \in Broken : m <= n
    BY LeastNumber
  <2>2. CASE m = 0
    <3> DEFINE g == [r \in 0..0 |-> start]
    <3>1. Chain(g, 0)
      OBVIOUS
    <3> QED BY <2>1, <2>2, <3>1
  <2>3. CASE m # 0
    <3>1. m - 1 \in Nat /\ m - 1 \notin Broken /\ m \in Nat
      BY <2>1, <2>3
    <3>2. PICK g : Chain(g, m - 1)
      BY <3>1
    <3> DEFINE h == [r \in 0..m |-> IF r < m THEN g[r] ELSE Next(g, m)]
    <3> HIDE DEF start
    <3>3. \A r \in 0..(m - 1) : h[r] = g[r]
      BY <3>1
    <3>4. \A r \in 0..(m - 1) : g[r] = IF r = 0 THEN start ELSE Next(g, r)
      BY <3>1, <3>2
    <3>5. \A r \in 1..m : Next(h, r) = Next(g, r)
      BY <3>1, <3>3
    <3>6. \A r \in 0..m : h[r] = IF r = 0 THEN start ELSE Next(h, r)
      <4> TAKE r \in 0..m
      <4>1. CASE r < m
        BY <4>1, <3>1, <3>3, <3>4, <3>5
      <4>2. CASE r = m
        BY <4>2, <3>1, <2>3, <3>5
      <4> QED BY <4>1, <4>2, <3>1
    <3>7. Chain(h, m)
      <4>1. h = [r \in 0..m |-> h[r]]
        OBVIOUS
      <4> HIDE DEF h
      <4> QED BY <4>1, <3>6
    <3> QED BY <3>7, <2>1
  <2> QED BY <2>2, <2>3
<1>2. PICK g : Chain(g, N)
  BY <1>1
<1> DEFINE f == Settling(picked, now)
<1>3. f = CHOOSE c : Chain(c, N)
  BY DEF Settling
<1>4. Chain(f, N)
  <2> HIDE DEF Chain, f
  <2> QED BY <1>2, <1>3
<1>5. 0 \in 0..N /\ \A r \in 1..N : r \in 0..N /\ r # 0
  OBVIOUS
<1> HIDE DEF f, start
<1>6. f[0] = start /\ \A r \in 1..N : f[r] = Next(f, r)
  BY <1>4, <1>5
<1> QED BY <1>6 DEF f, start

-------------------------------------------------------------------------------
(* What one row of the file does.                                              *)

Contents == [status : Entries, actor : Entries, next : Entries]
RowStates == [kind : {"new", "round-trip", "matches-existing", "suggestion", "unkeyable",
                      "duplicate-in-file"},
              app : Nat, state : {"none", "unresolved", "resolved"},
              conflict : SUBSET Columns, theirs : SUBSET Columns, mine : SUBSET Columns,
              included : BOOLEAN,
              outcome : {"pending", "created", "updated", "skipped", "failed"},
              before : Contents \union {<<>>}, wrote : Nat]

Tables(s) ==
    /\ s = [apps |-> s.apps, row |-> s.row, notes |-> s.notes]
    /\ DOMAIN s.apps \subseteq Ids /\ s.apps \in [DOMAIN s.apps -> AppRows]
    /\ s.row \in [Rows -> RowStates] /\ s.notes \in [Ids -> Nat]

\* The person let this row change the status of an application at this version.
Allowed(w, r, version) ==
    /\ w.kind = "round-trip"
    /\ IF w.state = "resolved"
       THEN /\ "status" \in w.conflict => "status" \in w.theirs
            /\ "status" \notin w.mine
       ELSE file[r].token = version

\* The three things that may come of a row.
Passes(s, t, r) ==
    /\ t.apps = s.apps /\ t.notes = s.notes
    /\ t.row[r].outcome \notin Landed /\ t.row[r].app = s.row[r].app
UpdatesOne(s, t, r, now) ==
    LET w == s.row[r]
        old == s.apps[w.app]
        new == t.apps[w.app] IN
    /\ w.kind \in Matched
    /\ t.row[r].outcome = "updated" /\ t.row[r].before = Values(old) /\ t.row[r].wrote = now
    /\ DOMAIN t.apps = DOMAIN s.apps
    /\ \A a \in DOMAIN s.apps : a # w.app => t.apps[a] = s.apps[a]
    /\ new.version = now
    /\ old.actor = "user" =>
          new.actor = "user" /\ (new.status # old.status => Allowed(w, r, old.version))
    /\ t.notes = [s.notes EXCEPT ![w.app] = @ + 1]
CreatesOne(s, t, r, now) ==
    /\ s.row[r].kind \notin Matched
    /\ t.row[r].outcome = "created" /\ t.row[r].wrote = now
    /\ DOMAIN t.apps = DOMAIN s.apps \union {Id(r)}
    /\ \A a \in DOMAIN s.apps : a # Id(r) => t.apps[a] = s.apps[a]
    /\ t.apps[Id(r)].version = now
    /\ t.notes = [s.notes EXCEPT ![Id(r)] = 1]

\* The upload is a moment like any other.
LEMMA UploadTime == Upload \in Nat
BY ImportAssumption

\* A row, and the application it would create, are numbered.
LEMMA RowIds ==
    ASSUME file \in Seq(FileRows), NEW r \in Rows
    PROVE  /\ Len(Existing) \in Nat /\ Len(file) \in Nat /\ Rows = 1..Len(file)
           /\ r \in Nat /\ Id(r) \in Ids /\ Id(r) \in Nat /\ file[r] \in FileRows
           /\ Ids \subseteq Nat /\ 1..Len(Existing) \subseteq Ids /\ Id(r) > Len(Existing)
<1>0. Existing \in Seq(AppRows)
  BY ImportAssumption
<1>1. Len(Existing) \in Nat /\ Len(file) \in Nat
  BY <1>0
<1>2. Rows = 1..Len(file) /\ file[r] \in FileRows
  BY DEF Rows
<1> QED BY <1>1, <1>2 DEF Id, Ids

\* A row that updates.
LEMMA UpdateRow ==
    ASSUME file \in Seq(FileRows), NEW s, Tables(s), NEW r \in Rows, NEW now \in Nat,
           s.row[r].app \in DOMAIN s.apps, s.row[r].kind \in Matched,
           ~Stale(s.row[r], r, s.apps[s.row[r].app]), NEW t, t = Updates(s, r, now)
    PROVE  /\ Tables(t) /\ UpdatesOne(s, t, r, now)
           /\ \A q \in Rows : q # r => t.row[q] = s.row[q]
           /\ t.row[r].kind = s.row[r].kind /\ t.row[r].app = s.row[r].app
<1> DEFINE w == s.row[r]
           old == s.apps[w.app]
           said == Cell(w, r, "status")
           writes == /\ said \notin {"", old.status}
                     /\ old.actor = "user" => RoundTrip(w, r)
           new == [old EXCEPT !.status = IF writes THEN said ELSE @,
                              !.actor = IF writes /\ RoundTrip(w, r) THEN "user" ELSE @,
                              !.next = NextOf(Cell(w, r, "next"), @),
                              !.version = now]
           v == [w EXCEPT !.outcome = "updated", !.before = Values(old), !.wrote = now]
<1>1. t = [s EXCEPT !.apps[w.app] = new, !.notes[w.app] = @ + 1, !.row[r] = v]
  BY DEF Updates
<1>2. /\ w \in RowStates /\ old \in AppRows /\ file[r] \in FileRows /\ w.app \in Ids
      /\ w.app \in DOMAIN s.apps
  BY RowIds DEF Tables
<1>3. Cell(w, r, "status") \in Entries /\ Cell(w, r, "next") \in Entries
  <2>1. PICK f : f = file[r]
    OBVIOUS
  <2>2. f \in FileRows
    BY <1>2, <2>1
  <2>3. f["status"] \in Entries /\ f["next"] \in Entries
    BY <2>2 DEF FileRows
  <2>4. /\ Cell(w, r, "status") \in {"", f["status"]}
        /\ Cell(w, r, "next") \in {"", f["next"]}
    BY <2>1 DEF Cell
  <2>5. "" \in Entries
    BY ImportAssumption
  <2> QED BY <2>3, <2>4, <2>5
<1>4. new \in AppRows /\ new.version = now
      /\ new.status = (IF writes THEN said ELSE old.status)
      /\ new.actor = (IF writes /\ RoundTrip(w, r) THEN "user" ELSE old.actor)
  <2>1. "" \in Entries /\ "user" \in Entries
    BY ImportAssumption
  <2>2. old.status \in Entries /\ old.actor \in Entries /\ old.next \in Entries
    BY <1>2 DEF AppRows
  <2>3. PICK st \in Entries : st = IF writes THEN said ELSE old.status
    BY <2>2, <1>3
  <2>4. PICK ac \in Entries : ac = IF writes /\ RoundTrip(w, r) THEN "user" ELSE old.actor
    BY <2>1, <2>2
  <2>5. PICK nx \in Entries : nx = NextOf(Cell(w, r, "next"), old.next)
    BY <2>1, <2>2, <1>3 DEF NextOf
  <2>6. new = [old EXCEPT !.status = st, !.actor = ac, !.next = nx, !.version = now]
    BY <2>3, <2>4, <2>5
  <2>7. new \in AppRows /\ new.version = now /\ new.status = st /\ new.actor = ac
    <3> HIDE DEF new
    <3> QED BY <2>6, <1>2 DEF AppRows
  <2> QED BY <2>3, <2>4, <2>7
<1>5. Values(old) \in Contents
  BY <1>2 DEF Values, AppRows, Contents
<1>6. v \in RowStates /\ v.outcome = "updated" /\ v.before = Values(old) /\ v.wrote = now
  BY <1>2, <1>5 DEF RowStates
<1>7. old.actor = "user" => new.actor = "user" /\ (new.status # old.status => Allowed(w, r, old.version))
  <2> SUFFICES ASSUME old.actor = "user", new.status # old.status  PROVE Allowed(w, r, old.version)
    BY <1>4
  <2>0. "user" # "" /\ new.status = (IF writes THEN said ELSE old.status)
    BY <1>4
  <2>1. writes /\ RoundTrip(w, r) /\ said # ""
    BY <2>0
  <2>2. "status" \notin KeepsMine(w)
    BY <2>1 DEF Cell
  <2>3. w.kind = "round-trip" /\ (w.state # "resolved" => file[r].token = old.version)
    BY <2>1 DEF Stale, RoundTrip
  <2> QED BY <2>2, <2>3 DEF Allowed, KeepsMine
<1> HIDE DEF new, v, writes, said
<1>8. /\ t.apps = [s.apps EXCEPT ![w.app] = new] /\ t.row = [s.row EXCEPT ![r] = v]
      /\ t.notes = [s.notes EXCEPT ![w.app] = @ + 1]
      /\ t = [apps |-> t.apps, row |-> t.row, notes |-> t.notes]
  BY <1>1 DEF Tables
<1>9. /\ t.apps[w.app] = new /\ DOMAIN t.apps = DOMAIN s.apps
      /\ \A a \in DOMAIN s.apps : a # w.app => t.apps[a] = s.apps[a]
      /\ t.row[r] = v
  BY <1>2, <1>8 DEF Tables
<1>10. Tables(t)
  <2>1. t.apps \in [DOMAIN t.apps -> AppRows] /\ DOMAIN t.apps \subseteq Ids
    BY <1>2, <1>4, <1>8 DEF Tables
  <2>2. t.row \in [Rows -> RowStates]
    BY <1>6, <1>8 DEF Tables
  <2>3. t.notes \in [Ids -> Nat]
    BY <1>8 DEF Tables
  <2> QED BY <1>8, <2>1, <2>2, <2>3 DEF Tables
<1>11. UpdatesOne(s, t, r, now)
  BY <1>4, <1>6, <1>7, <1>8, <1>9 DEF UpdatesOne
<1>12. v.kind = w.kind /\ v.app = w.app /\ \A q \in Rows : q # r => t.row[q] = s.row[q]
  <2>1. v.kind = w.kind /\ v.app = w.app
    BY <1>2 DEF v, RowStates
  <2> QED BY <2>1, <1>8 DEF Tables
<1> QED BY <1>8, <1>9, <1>10, <1>11, <1>12

\* A row that creates.
LEMMA CreateRow ==
    ASSUME file \in Seq(FileRows), NEW s, Tables(s), NEW r \in Rows, NEW now \in Nat,
           s.row[r].kind \notin Matched, NEW t, t = Creates(s, r, now)
    PROVE  /\ Tables(t) /\ CreatesOne(s, t, r, now)
           /\ \A q \in Rows : q # r => t.row[q] = s.row[q]
           /\ t.row[r].kind = s.row[r].kind /\ t.row[r].app = Id(r)
<1> DEFINE w == s.row[r]
           said == file[r].status
           new == [key |-> "", name |-> file[r].name,
                   status |-> IF said = "" THEN "Inbox" ELSE said, actor |-> "system",
                   next |-> NextOf(file[r].next, ""), version |-> now]
           v == [w EXCEPT !.outcome = "created", !.app = Id(r), !.wrote = now]
<1>1. t = [s EXCEPT !.apps = [a \in DOMAIN s.apps \cup {Id(r)} |->
                                IF a = Id(r) THEN new ELSE s.apps[a]],
                    !.notes[Id(r)] = 1, !.row[r] = v]
  BY DEF Creates
<1>2. w \in RowStates /\ file[r] \in FileRows /\ Id(r) \in Ids /\ Id(r) \in Nat
  BY RowIds DEF Tables
<1>3. new \in AppRows /\ new.version = now
  <2>1. {"", "system", "Inbox"} \subseteq Entries
    BY ImportAssumption
  <2>2. file[r].name \in Entries /\ file[r].status \in Entries /\ file[r].next \in Entries
    BY <1>2 DEF FileRows
  <2>3. PICK st \in Entries : st = IF said = "" THEN "Inbox" ELSE said
    BY <2>1, <2>2
  <2>4. PICK nx \in Entries : nx = NextOf(file[r].next, "")
    BY <2>1, <2>2 DEF NextOf
  <2>5. new = [key |-> "", name |-> file[r].name, status |-> st, actor |-> "system",
               next |-> nx, version |-> now]
    BY <2>3, <2>4
  <2> HIDE DEF new
  <2> QED BY <2>1, <2>2, <2>5 DEF AppRows
<1>4. v \in RowStates /\ v.outcome = "created" /\ v.app = Id(r) /\ v.wrote = now
  BY <1>2 DEF RowStates
<1> HIDE DEF new, v
<1>5. /\ t.apps = [a \in DOMAIN s.apps \cup {Id(r)} |-> IF a = Id(r) THEN new ELSE s.apps[a]]
      /\ t.row = [s.row EXCEPT ![r] = v] /\ t.notes = [s.notes EXCEPT ![Id(r)] = 1]
      /\ t = [apps |-> t.apps, row |-> t.row, notes |-> t.notes]
  BY <1>1 DEF Tables
<1>6. /\ DOMAIN t.apps = DOMAIN s.apps \union {Id(r)} /\ t.apps[Id(r)] = new
      /\ \A a \in DOMAIN s.apps : a # Id(r) => t.apps[a] = s.apps[a]
      /\ t.row[r] = v
  BY <1>5 DEF Tables
<1>7. Tables(t)
  <2>1. t.apps \in [DOMAIN t.apps -> AppRows] /\ DOMAIN t.apps \subseteq Ids
    BY <1>2, <1>3, <1>5, <1>6 DEF Tables
  <2>2. t.row \in [Rows -> RowStates]
    BY <1>4, <1>5 DEF Tables
  <2>3. t.notes \in [Ids -> Nat]
    <3>1. PICK k \in Nat : k = 1
      OBVIOUS
    <3>2. s.notes \in [Ids -> Nat] /\ t.notes = [s.notes EXCEPT ![Id(r)] = k]
      BY <1>5, <3>1 DEF Tables
    <3> QED BY <3>2
  <2> QED BY <1>5, <2>1, <2>2, <2>3 DEF Tables
<1>8. CreatesOne(s, t, r, now)
  BY <1>3, <1>4, <1>5, <1>6 DEF CreatesOne
<1>9. v.kind = w.kind /\ \A q \in Rows : q # r => t.row[q] = s.row[q]
  <2>1. v.kind = w.kind
    BY <1>2 DEF v, RowStates
  <2> QED BY <2>1, <1>5 DEF Tables
<1> QED BY <1>4, <1>6, <1>7, <1>8, <1>9

\* A row that is settled passes, updates one application or creates one.
LEMMA SettleRow ==
    ASSUME file \in Seq(FileRows), NEW s, Tables(s), NEW r \in Rows, NEW now \in Nat,
           s.row[r].kind \in Matched => s.row[r].app \in DOMAIN s.apps,
           NEW t, t = Settle(s, r, now)
    PROVE  /\ Tables(t)
           /\ \A q \in Rows : q # r => t.row[q] = s.row[q]
           /\ t.row[r].kind = s.row[r].kind
           /\ \/ Passes(s, t, r)
              \/ UpdatesOne(s, t, r, now) /\ t.row[r].app = s.row[r].app
              \/ CreatesOne(s, t, r, now) /\ t.row[r].app = Id(r)
<1> DEFINE w == s.row[r]
           Result == /\ Tables(t)
                     /\ \A q \in Rows : q # r => t.row[q] = s.row[q]
                     /\ t.row[r].kind = s.row[r].kind
                     /\ \/ Passes(s, t, r)
                        \/ UpdatesOne(s, t, r, now) /\ t.row[r].app = s.row[r].app
                        \/ CreatesOne(s, t, r, now) /\ t.row[r].app = Id(r)
<1> SUFFICES Result
  OBVIOUS
<1>0. w \in RowStates
  BY DEF Tables
<1>1. ASSUME NEW v \in RowStates, v.outcome \notin Landed, v.kind = w.kind, v.app = w.app,
             t = [s EXCEPT !.row[r] = v]
      PROVE  Result
  <2>1. /\ t.apps = s.apps /\ t.notes = s.notes /\ t.row = [s.row EXCEPT ![r] = v]
        /\ t = [apps |-> t.apps, row |-> t.row, notes |-> t.notes]
    BY <1>1 DEF Tables
  <2>2. t.row[r] = v /\ \A q \in Rows : q # r => t.row[q] = s.row[q]
    BY <2>1 DEF Tables
  <2>3. Tables(t)
    BY <2>1, <1>1 DEF Tables
  <2> QED BY <1>1, <2>1, <2>2, <2>3 DEF Passes
<1>2. CASE t = Skips(s, r)
  <2> DEFINE v == [w EXCEPT !.outcome = "skipped"]
  <2>1. v \in RowStates /\ v.outcome \notin Landed /\ v.kind = w.kind /\ v.app = w.app
    BY <1>0 DEF RowStates, Landed
  <2>2. t = [s EXCEPT !.row[r] = v]
    BY <1>2 DEF Skips, Tables
  <2> HIDE DEF v, Result
  <2> QED BY <2>1, <2>2, <1>1
<1>3. CASE t = Fails(s, r)
  <2> DEFINE v == [w EXCEPT !.outcome = "failed"]
  <2>1. v \in RowStates /\ v.outcome \notin Landed /\ v.kind = w.kind /\ v.app = w.app
    BY <1>0 DEF RowStates, Landed
  <2>2. t = [s EXCEPT !.row[r] = v]
    BY <1>3 DEF Fails, Tables
  <2> HIDE DEF v, Result
  <2> QED BY <2>1, <2>2, <1>1
<1>4. CASE t = [Fails(s, r) EXCEPT !.row[r].state = "unresolved"]
  <2> DEFINE v == [w EXCEPT !.outcome = "failed", !.state = "unresolved"]
  <2>1. v \in RowStates /\ v.outcome \notin Landed /\ v.kind = w.kind /\ v.app = w.app
    BY <1>0 DEF RowStates, Landed
  <2>2. t = [s EXCEPT !.row[r] = v]
    BY <1>0, <1>4 DEF Fails, Tables, RowStates
  <2> HIDE DEF v, Result
  <2> QED BY <2>1, <2>2, <1>1
<1>5. CASE t = Updates(s, r, now) /\ w.kind \in Matched /\ ~Stale(w, r, s.apps[w.app])
  BY <1>5, UpdateRow
<1>6. CASE t = Creates(s, r, now) /\ w.kind \notin Matched
  BY <1>6, CreateRow
<1>7. \/ t = Skips(s, r) \/ t = Fails(s, r)
      \/ t = [Fails(s, r) EXCEPT !.row[r].state = "unresolved"]
      \/ t = Updates(s, r, now) /\ w.kind \in Matched /\ ~Stale(w, r, s.apps[w.app])
      \/ t = Creates(s, r, now) /\ w.kind \notin Matched
  BY DEF Settle
<1> QED BY <1>2, <1>3, <1>4, <1>5, <1>6, <1>7
-------------------------------------------------------------------------------
(* A chunk. It began with apps, row and notes, and has come to s: the rows of D  *)
(* are settled.                                                                 *)

\* The rows that landed on an application.
Upon(w, a) == {r \in Rows : w[r].outcome \in Landed /\ w[r].app = a}

\* A row that landed says where: on the application it created, or on one that was
\* there before the import.
Lands(w, r) ==
    /\ w[r].outcome = "created" => w[r].kind \notin Matched /\ w[r].app = Id(r)
    /\ w[r].outcome = "updated" => w[r].kind \in Matched /\ w[r].before \in Contents
    /\ w[r].kind \in Matched => w[r].app \in 1..Len(Existing)

\* An application that a row creates is not there before.
Unborn(w, as) == \A r \in Rows : w[r].outcome # "created" => Id(r) \notin DOMAIN as

Opening ==
    /\ file \in Seq(FileRows) /\ clock \in Nat /\ Upload <= clock
    /\ Tables([apps |-> apps, row |-> row, notes |-> notes])
    /\ 1..Len(Existing) \subseteq DOMAIN apps
    /\ \A r \in Rows : Lands(row, r)
    /\ Unborn(row, apps) /\ LandedOnce

ChunkRows(s, D, now) ==
    /\ \A q \in Rows : q \notin D => s.row[q] = row[q]
    /\ \A q \in Rows : s.row[q].kind = row[q].kind /\ Lands(s.row, q)
    /\ \A q \in D : s.row[q].outcome \in Landed =>
          s.row[q].wrote = now /\ s.row[q].app \in DOMAIN s.apps

ChunkApps(s, D, now) ==
    /\ DOMAIN apps \subseteq DOMAIN s.apps
    /\ \A a \in DOMAIN s.apps :
          IF Upon(s.row, a) \intersect D # {} THEN s.apps[a].version = now
          ELSE a \in DOMAIN apps /\ s.apps[a] = apps[a]

ChunkNotes(s) == \A a \in DOMAIN s.apps : s.notes[a] = Cardinality(Upon(s.row, a))

ChunkBefore(s, D) ==
    \A q \in D : \A a \in DOMAIN apps :
        s.row[q].outcome = "updated" /\ Upon(s.row, a) = {q} =>
            s.row[q].before = Values(apps[a])

ChunkLocks(s, D) ==
    \A a \in DOMAIN apps :
        apps[a].actor = "user" =>
            /\ s.apps[a].actor = "user"
            /\ s.apps[a].status # apps[a].status =>
                  \E q \in D : /\ s.row[q].outcome = "updated" /\ s.row[q].app = a
                              /\ Allowed(row[q], q, apps[a].version)

ChunkInv(s, D, now) ==
    /\ Tables(s) /\ Unborn(s.row, s.apps)
    /\ ChunkRows(s, D, now) /\ ChunkApps(s, D, now) /\ ChunkNotes(s)
    /\ ChunkBefore(s, D) /\ ChunkLocks(s, D)

\* The row r has landed, or has not; else w and v are the same.
OneMore(w, v, r) ==
    \A a : /\ Upon(w, a) \subseteq Rows /\ r \notin Upon(w, a)
          /\ IsFiniteSet(Upon(w, a)) /\ Cardinality(Upon(w, a)) \in Nat
          /\ Cardinality(Upon(w, a) \union {r}) = Cardinality(Upon(w, a)) + 1
          /\ Upon(v, a) = IF v[r].outcome \in Landed /\ v[r].app = a
                          THEN Upon(w, a) \union {r} ELSE Upon(w, a)

\* A row more upon an application.
LEMMA UponRows ==
    ASSUME file \in Seq(FileRows), NEW w, NEW v, NEW r \in Rows,
           \A q \in Rows : q # r => v[q] = w[q], w[r].outcome \notin Landed
    PROVE  OneMore(w, v, r)
<1> SUFFICES ASSUME NEW a
             PROVE  /\ Upon(w, a) \subseteq Rows /\ r \notin Upon(w, a)
                    /\ IsFiniteSet(Upon(w, a)) /\ Cardinality(Upon(w, a)) \in Nat
                    /\ Cardinality(Upon(w, a) \union {r}) = Cardinality(Upon(w, a)) + 1
                    /\ Upon(v, a) = IF v[r].outcome \in Landed /\ v[r].app = a
                                    THEN Upon(w, a) \union {r} ELSE Upon(w, a)
  BY DEF OneMore
<1>1. IsFiniteSet(Rows)
  <2>1. Rows = 1..Len(file) /\ Len(file) \in Nat
    BY RowIds
  <2> QED BY <2>1, FS_Interval
<1>2. Upon(w, a) \subseteq Rows /\ r \notin Upon(w, a)
  BY DEF Upon
<1>3. IsFiniteSet(Upon(w, a)) /\ Cardinality(Upon(w, a)) \in Nat
  BY <1>1, <1>2, FS_Subset, FS_CardinalityType
<1>4. Cardinality(Upon(w, a) \union {r}) = Cardinality(Upon(w, a)) + 1
  BY <1>2, <1>3, FS_AddElement
<1>5. Upon(v, a) = IF v[r].outcome \in Landed /\ v[r].app = a
                   THEN Upon(w, a) \union {r} ELSE Upon(w, a)
  BY DEF Upon
<1> QED BY <1>2, <1>3, <1>4, <1>5

\* Two rows never create one application.
LEMMA IdsApart ==
    ASSUME file \in Seq(FileRows), NEW q \in Rows, NEW r \in Rows
    PROVE  Id(q) = Id(r) => q = r
<1>1. Len(Existing) \in Nat /\ q \in Nat /\ r \in Nat
  BY RowIds
<1> QED BY <1>1 DEF Id

\* A chunk settles one more row.
LEMMA ChunkSteps ==
    ASSUME Opening, NEW now, now = clock + 1, NEW s, NEW D \in SUBSET Rows, ChunkInv(s, D, now),
           NEW r \in Rows, r \notin D, row[r].outcome = "pending",
           NEW t, t = Settle(s, r, now)
    PROVE  ChunkInv(t, D \union {r}, now)
<1> DEFINE a0 == t.row[r].app
           E == D \union {r}
<1>0. /\ file \in Seq(FileRows) /\ now \in Nat /\ Tables(s) /\ s.row[r] = row[r]
      /\ row[r].outcome \notin Landed /\ clock \in Nat /\ Upload <= clock
      /\ ChunkRows(s, D, now) /\ ChunkApps(s, D, now) /\ ChunkNotes(s)
      /\ ChunkBefore(s, D) /\ ChunkLocks(s, D) /\ Unborn(s.row, s.apps)
  BY DEF Opening, ChunkInv, ChunkRows, Landed
<1>1. s.row[r].kind \in Matched => s.row[r].app \in DOMAIN apps /\ s.row[r].app \in DOMAIN s.apps
  BY <1>0 DEF Opening, Lands, ChunkApps
<1>2. /\ Tables(t)
      /\ \A q \in Rows : q # r => t.row[q] = s.row[q]
      /\ t.row[r].kind = s.row[r].kind
      /\ \/ Passes(s, t, r)
         \/ UpdatesOne(s, t, r, now) /\ t.row[r].app = s.row[r].app
         \/ CreatesOne(s, t, r, now) /\ t.row[r].app = Id(r)
  BY <1>0, <1>1, SettleRow
<1>3. OneMore(s.row, t.row, r)
  <2>1. (\A q \in Rows : q # r => t.row[q] = s.row[q]) /\ s.row[r].outcome \notin Landed
    BY <1>0, <1>2
  <2> QED BY <1>0, <2>1, UponRows
<1>4. CASE Passes(s, t, r)
  <2>1. t.apps = s.apps /\ t.notes = s.notes /\ t.row[r].outcome \notin Landed
    BY <1>4 DEF Passes
  <2>2. \A a : Upon(t.row, a) = Upon(s.row, a) /\ Upon(t.row, a) \intersect E = Upon(s.row, a) \intersect D
    BY <1>3, <2>1 DEF OneMore
  <2>3. ChunkRows(t, E, now)
    <3>1. Lands(t.row, r)
      <4>1. t.row[r].outcome # "created" /\ t.row[r].outcome # "updated"
        BY <2>1 DEF Landed
      <4>2. t.row[r].kind = s.row[r].kind /\ t.row[r].app = s.row[r].app
        BY <1>2, <1>4 DEF Passes
      <4>3. s.row[r].kind \in Matched => s.row[r].app \in 1..Len(Existing)
        BY <1>0 DEF ChunkRows, Lands
      <4> QED BY <4>1, <4>2, <4>3 DEF Lands
    <3> QED BY <1>0, <1>2, <2>1, <3>1 DEF ChunkRows, Lands
  <2>4. ChunkApps(t, E, now)
    BY <1>0, <2>1, <2>2 DEF ChunkApps
  <2>5. ChunkNotes(t)
    BY <1>0, <2>1, <2>2 DEF ChunkNotes
  <2>6. ChunkBefore(t, E)
    BY <1>0, <1>2, <2>1, <2>2 DEF ChunkBefore, Landed
  <2>7. ChunkLocks(t, E)
    BY <1>0, <1>2, <2>1 DEF ChunkLocks
  <2>8. Unborn(t.row, t.apps)
    BY <1>0, <1>2, <2>1 DEF Unborn, Landed
  <2> QED BY <1>2, <2>3, <2>4, <2>5, <2>6, <2>7, <2>8 DEF ChunkInv
<1>5. CASE UpdatesOne(s, t, r, now) /\ t.row[r].app = s.row[r].app
  <2>1. /\ t.row[r].outcome = "updated" /\ t.row[r].wrote = now
        /\ t.row[r].before = Values(s.apps[a0])
        /\ a0 \in DOMAIN apps /\ a0 \in DOMAIN s.apps /\ a0 = row[r].app
        /\ a0 \in 1..Len(Existing) /\ t.row[r].kind \in Matched
        /\ DOMAIN t.apps = DOMAIN s.apps /\ t.apps[a0].version = now
        /\ \A a \in DOMAIN s.apps : a # a0 => t.apps[a] = s.apps[a]
        /\ t.notes = [s.notes EXCEPT ![a0] = @ + 1]
    <3>1. row[r].kind \in Matched => row[r].app \in 1..Len(Existing)
      BY DEF Opening, Lands
    <3> QED BY <1>0, <1>1, <1>2, <1>5, <3>1 DEF UpdatesOne
  <2>2. \A a : Upon(t.row, a) = IF a = a0 THEN Upon(s.row, a) \union {r} ELSE Upon(s.row, a)
    BY <1>3, <2>1 DEF OneMore, Landed
  <2>3. ChunkRows(t, E, now)
    <3>1. t.row[r].before \in Contents
      <4>1. s.apps[a0] \in AppRows
        BY <2>1, <1>0 DEF Tables
      <4> QED BY <4>1, <2>1 DEF Values, AppRows, Contents
    <3>2. Lands(t.row, r)
      BY <2>1, <3>1 DEF Lands
    <3>3. \A q \in Rows : q # r => Lands(t.row, q) /\ t.row[q].kind = row[q].kind
      BY <1>0, <1>2 DEF ChunkRows, Lands
    <3>4. \A q \in Rows : q \notin E => t.row[q] = row[q]
      BY <1>0, <1>2 DEF ChunkRows
    <3>5. \A q \in E : t.row[q].outcome \in Landed =>
             t.row[q].wrote = now /\ t.row[q].app \in DOMAIN t.apps
      BY <1>0, <1>2, <2>1 DEF ChunkRows
    <3>6. t.row[r].kind = row[r].kind
      BY <1>0, <1>2
    <3> QED BY <3>2, <3>3, <3>4, <3>5, <3>6 DEF ChunkRows
  <2>4. ChunkApps(t, E, now)
    <3> SUFFICES ASSUME NEW a \in DOMAIN t.apps
                 PROVE  IF Upon(t.row, a) \intersect E # {} THEN t.apps[a].version = now
                        ELSE a \in DOMAIN apps /\ t.apps[a] = apps[a]
      BY <1>0, <2>1 DEF ChunkApps
    <3>1. CASE a = a0
      BY <2>1, <2>2, <3>1
    <3>2. CASE a # a0
      <4>1. Upon(t.row, a) = Upon(s.row, a) /\ r \notin Upon(s.row, a)
        BY <2>2, <3>2, <1>3 DEF OneMore
      <4>2. Upon(t.row, a) \intersect E = Upon(s.row, a) \intersect D
        BY <4>1
      <4> QED BY <1>0, <2>1, <3>2, <4>2 DEF ChunkApps
    <3> QED BY <3>1, <3>2
  <2>5. ChunkNotes(t)
    <3> SUFFICES ASSUME NEW a \in DOMAIN t.apps  PROVE t.notes[a] = Cardinality(Upon(t.row, a))
      BY DEF ChunkNotes
    <3>1. a \in Ids /\ s.notes \in [Ids -> Nat] /\ s.notes[a] = Cardinality(Upon(s.row, a))
      BY <1>0, <2>1 DEF ChunkNotes, Tables
    <3>2. CASE a = a0
      <4>1. Upon(t.row, a) = Upon(s.row, a) \union {r}
        BY <2>2, <3>2
      <4>2. Cardinality(Upon(s.row, a) \union {r}) = Cardinality(Upon(s.row, a)) + 1
        BY <1>3 DEF OneMore
      <4>3. t.notes[a] = s.notes[a] + 1
        BY <2>1, <3>1, <3>2
      <4> QED BY <3>1, <4>1, <4>2, <4>3
    <3>3. CASE a # a0
      BY <2>1, <2>2, <3>1, <3>3
    <3> QED BY <3>2, <3>3
  <2>6. ChunkBefore(t, E)
    <3> SUFFICES ASSUME NEW q \in E, NEW a \in DOMAIN apps, t.row[q].outcome = "updated",
                        Upon(t.row, a) = {q}
                 PROVE  t.row[q].before = Values(apps[a])
      BY DEF ChunkBefore
    <3>1. r \notin Upon(s.row, a)
      BY <1>3 DEF OneMore
    <3>2. CASE a = a0
      <4>1. Upon(s.row, a) = {} /\ q = r
        BY <3>1, <3>2, <2>2
      <4>2. s.apps[a] = apps[a]
        BY <1>0, <2>1, <3>2, <4>1 DEF ChunkApps
      <4> QED BY <2>1, <3>2, <4>1, <4>2
    <3>3. CASE a # a0
      <4>1. Upon(s.row, a) = {q} /\ q # r /\ q \in D
        BY <3>1, <3>3, <2>2
      <4> QED BY <1>0, <1>2, <4>1 DEF ChunkBefore
    <3> QED BY <3>2, <3>3
  <2>7. ChunkLocks(t, E)
    <3> SUFFICES ASSUME NEW a \in DOMAIN apps, apps[a].actor = "user"
                 PROVE  /\ t.apps[a].actor = "user"
                        /\ t.apps[a].status # apps[a].status =>
                              \E q \in E : /\ t.row[q].outcome = "updated" /\ t.row[q].app = a
                                          /\ Allowed(row[q], q, apps[a].version)
      BY DEF ChunkLocks
    <3>1. /\ s.apps[a].actor = "user" /\ a \in DOMAIN s.apps
          /\ s.apps[a].status # apps[a].status =>
                  \E q \in D : /\ s.row[q].outcome = "updated" /\ s.row[q].app = a
                              /\ Allowed(row[q], q, apps[a].version)
      BY <1>0 DEF ChunkLocks, ChunkApps
    <3>2. s.apps[a].status # apps[a].status =>
                  \E q \in E : /\ t.row[q].outcome = "updated" /\ t.row[q].app = a
                              /\ Allowed(row[q], q, apps[a].version)
      BY <3>1, <1>2
    <3>3. CASE a # a0
      BY <2>1, <3>1, <3>2, <3>3
    <3>4. CASE a = a0
      <4>1. /\ t.apps[a].actor = "user"
            /\ t.apps[a].status # s.apps[a].status => Allowed(row[r], r, s.apps[a].version)
        BY <1>0, <1>5, <2>1, <3>1, <3>4 DEF UpdatesOne
      <4>2. Allowed(row[r], r, s.apps[a].version) => Allowed(row[r], r, apps[a].version)
        <5>1. CASE Upon(s.row, a) \intersect D # {}
          <6>1. s.apps[a].version = now
            BY <1>0, <3>1, <5>1 DEF ChunkApps
          <6>2. file[r].token \in 0..Upload /\ Upload \in Nat
            BY <1>0, RowIds, ImportAssumption DEF FileRows
          <6>3. file[r].token # s.apps[a].version
            BY <1>0, <6>1, <6>2
          <6> QED BY <6>3 DEF Allowed
        <5>2. CASE Upon(s.row, a) \intersect D = {}
          BY <1>0, <3>1, <5>2 DEF ChunkApps
        <5> QED BY <5>1, <5>2
      <4>3. t.apps[a].status # apps[a].status =>
               \E q \in E : /\ t.row[q].outcome = "updated" /\ t.row[q].app = a
                           /\ Allowed(row[q], q, apps[a].version)
        BY <3>2, <3>4, <4>1, <4>2, <2>1
      <4> QED BY <4>1, <4>3
    <3> QED BY <3>3, <3>4
  <2>8. Unborn(t.row, t.apps)
    BY <1>0, <1>2, <2>1 DEF Unborn, Landed
  <2> QED BY <1>2, <2>3, <2>4, <2>5, <2>6, <2>7, <2>8 DEF ChunkInv
<1>6. CASE CreatesOne(s, t, r, now) /\ t.row[r].app = Id(r)
  <2>1. /\ t.row[r].outcome = "created" /\ t.row[r].wrote = now /\ a0 = Id(r) /\ Id(r) \in Ids
        /\ t.row[r].kind = row[r].kind /\ row[r].kind \notin Matched
        /\ DOMAIN t.apps = DOMAIN s.apps \union {Id(r)} /\ t.apps[Id(r)].version = now
        /\ \A a \in DOMAIN s.apps : a # Id(r) => t.apps[a] = s.apps[a]
        /\ t.notes = [s.notes EXCEPT ![Id(r)] = 1]
    BY <1>0, <1>2, <1>6, RowIds DEF CreatesOne
  <2>2. \A a : Upon(t.row, a) = IF a = Id(r) THEN Upon(s.row, a) \union {r} ELSE Upon(s.row, a)
    BY <1>3, <2>1 DEF OneMore, Landed
  <2>3. Upon(s.row, Id(r)) = {}
    <3> SUFFICES ASSUME NEW q \in Rows, s.row[q].outcome \in Landed, s.row[q].app = Id(r)
                 PROVE  FALSE
      BY DEF Upon
    <3>1. Lands(s.row, q) /\ q # r
      BY <1>0 DEF ChunkRows
    <3>2. CASE s.row[q].outcome = "created"
      <4>1. Id(q) = Id(r)
        BY <3>1, <3>2 DEF Lands
      <4> QED BY <1>0, <3>1, <4>1, IdsApart
    <3>3. CASE s.row[q].outcome = "updated"
      <4>1. Id(r) \in 1..Len(Existing)
        BY <3>1, <3>3 DEF Lands
      <4>2. Len(Existing) \in Nat /\ Id(r) \in Nat /\ Id(r) > Len(Existing)
        BY <1>0, RowIds
      <4> QED BY <4>1, <4>2
    <3> QED BY <3>2, <3>3 DEF Landed
  <2>4. Id(r) \notin DOMAIN apps /\ Id(r) \notin DOMAIN s.apps
    BY <1>0 DEF Unborn, ChunkApps, Landed
  <2>5. ChunkRows(t, E, now)
    <3>1. Lands(t.row, r)
      BY <2>1 DEF Lands
    <3>3. \A q \in Rows : q # r => Lands(t.row, q) /\ t.row[q].kind = row[q].kind
      BY <1>0, <1>2 DEF ChunkRows, Lands
    <3>4. \A q \in Rows : q \notin E => t.row[q] = row[q]
      BY <1>0, <1>2 DEF ChunkRows
    <3>5. \A q \in E : t.row[q].outcome \in Landed =>
             t.row[q].wrote = now /\ t.row[q].app \in DOMAIN t.apps
      BY <1>0, <1>2, <2>1 DEF ChunkRows
    <3> QED BY <2>1, <3>1, <3>3, <3>4, <3>5 DEF ChunkRows
  <2>6. ChunkApps(t, E, now)
    <3> SUFFICES ASSUME NEW a \in DOMAIN t.apps
                 PROVE  IF Upon(t.row, a) \intersect E # {} THEN t.apps[a].version = now
                        ELSE a \in DOMAIN apps /\ t.apps[a] = apps[a]
      BY <1>0, <2>1 DEF ChunkApps
    <3>1. CASE a = Id(r)
      BY <2>1, <2>2, <3>1
    <3>2. CASE a # Id(r)
      <4>1. Upon(t.row, a) = Upon(s.row, a) /\ r \notin Upon(s.row, a)
        BY <2>2, <3>2, <1>3 DEF OneMore
      <4>2. Upon(t.row, a) \intersect E = Upon(s.row, a) \intersect D
        BY <4>1
      <4> QED BY <1>0, <2>1, <3>2, <4>2 DEF ChunkApps
    <3> QED BY <3>1, <3>2
  <2>7. ChunkNotes(t)
    <3> SUFFICES ASSUME NEW a \in DOMAIN t.apps  PROVE t.notes[a] = Cardinality(Upon(t.row, a))
      BY DEF ChunkNotes
    <3>1. s.notes \in [Ids -> Nat]
      BY <1>0 DEF Tables
    <3>2. CASE a = Id(r)
      <4>1. Upon(t.row, a) = Upon(s.row, a) \union {r}
        BY <2>2, <3>2
      <4>2. Cardinality(Upon(s.row, a) \union {r}) = Cardinality(Upon(s.row, a)) + 1
        BY <1>3 DEF OneMore
      <4>3. Cardinality(Upon(s.row, a)) = 0
        BY <2>3, <3>2, FS_EmptySet
      <4>4. t.notes[a] = 1
        BY <2>1, <3>1, <3>2
      <4>5. Cardinality(Upon(t.row, a)) = 0 + 1
        BY <4>1, <4>2, <4>3
      <4> QED BY <4>4, <4>5
    <3>3. CASE a # Id(r)
      <4>1. a \in DOMAIN s.apps /\ a \in Ids /\ Upon(t.row, a) = Upon(s.row, a)
        BY <1>0, <2>1, <2>2, <3>3 DEF Tables
      <4>2. t.notes[a] = s.notes[a]
        BY <2>1, <3>1, <3>3, <4>1
      <4> QED BY <1>0, <4>1, <4>2 DEF ChunkNotes
    <3> QED BY <3>2, <3>3
  <2>8. ChunkBefore(t, E)
    <3> SUFFICES ASSUME NEW q \in E, NEW a \in DOMAIN apps, t.row[q].outcome = "updated",
                        Upon(t.row, a) = {q}
                 PROVE  t.row[q].before = Values(apps[a])
      BY DEF ChunkBefore
    <3>1. q # r /\ Upon(s.row, a) = {q} /\ q \in D
      BY <2>1, <2>2, <2>4
    <3> QED BY <1>0, <1>2, <3>1 DEF ChunkBefore
  <2>9. ChunkLocks(t, E)
    <3>1. \A a \in DOMAIN apps : t.apps[a] = s.apps[a]
      BY <1>0, <2>1, <2>4 DEF ChunkApps
    <3> QED BY <1>0, <1>2, <3>1 DEF ChunkLocks
  <2>10. Unborn(t.row, t.apps)
    <3> SUFFICES ASSUME NEW q \in Rows, t.row[q].outcome # "created", Id(q) \in DOMAIN t.apps
                 PROVE  FALSE
      BY DEF Unborn
    <3>1. q # r /\ s.row[q].outcome # "created"
      BY <1>2, <2>1
    <3>2. Id(q) # Id(r)
      BY <1>0, <3>1, IdsApart
    <3> QED BY <1>0, <2>1, <3>1, <3>2 DEF Unborn
  <2> QED BY <1>2, <2>5, <2>6, <2>7, <2>8, <2>9, <2>10 DEF ChunkInv
<1> QED BY <1>2, <1>4, <1>5, <1>6

-------------------------------------------------------------------------------
\* A chunk settles the rows it has picked.
LEMMA ChunkSettles ==
    ASSUME Opening, NEW now, now = clock + 1, NEW P \in SUBSET Waiting,
           NEW done, done = Settling(P, now)[Len(file)]
    PROVE  ChunkInv(done, P, now)
<1>0. PICK N \in Nat : N = Len(file) /\ Rows = 1..N
  BY DEF Opening, Rows
<1> DEFINE f == Settling(P, now)
           start == [apps |-> apps, row |-> row, notes |-> notes]
           Good == {n \in 0..N : ChunkInv(f[n], Through(P, n), now)}
<1>1. /\ f[0] = start
      /\ \A r \in 1..N : f[r] = IF r \in P THEN Settle(f[r - 1], r, now) ELSE f[r - 1]
  BY <1>0, SettlingRows
<1>2. ChunkInv(start, {}, now)
  <2>1. start.apps = apps /\ start.row = row /\ start.notes = notes
    OBVIOUS
  <2>2. Tables(start) /\ Unborn(row, apps) /\ \A r \in Rows : Lands(row, r)
    BY DEF Opening
  <2>3. \A a \in DOMAIN apps : notes[a] = Cardinality(Upon(row, a))
    BY DEF Opening, LandedOnce, Upon
  <2> HIDE DEF start
  <2>4. ChunkRows(start, {}, now) /\ ChunkApps(start, {}, now) /\ ChunkNotes(start)
    BY <2>1, <2>2, <2>3 DEF ChunkRows, ChunkApps, ChunkNotes
  <2>5. ChunkBefore(start, {}) /\ ChunkLocks(start, {})
    BY <2>1 DEF ChunkBefore, ChunkLocks
  <2> QED BY <2>1, <2>2, <2>4, <2>5 DEF ChunkInv
<1> HIDE DEF f, start
<1>3. /\ P \in SUBSET (1..N) /\ \A r \in P : row[r].outcome = "pending"
      /\ \A n : Through(P, n) \in SUBSET Rows
  BY <1>0 DEF Waiting, Through
<1>t. /\ Through(P, 0) = {} /\ Through(P, N) = P
      /\ \A n \in 1..N :
            /\ n \notin Through(P, n - 1)
            /\ n \in P => Through(P, n) = Through(P, n - 1) \union {n}
            /\ n \notin P => Through(P, n) = Through(P, n - 1)
  <2>1. P \in SUBSET (1..N) /\ N \in Nat
    BY <1>0, <1>3
  <2>2. /\ Through(P, 0) = {} /\ Through(P, N) = P
        /\ \A n \in 1..N :
              /\ n \notin Through(P, n - 1)
              /\ Through(P, n) = IF n \in P THEN Through(P, n - 1) \union {n}
                                 ELSE Through(P, n - 1)
    BY <2>1, ThroughRows
  <2> QED BY <2>2
<1>4. 0 \in Good
  <2>1. 0 \in 0..N /\ N \in 0..N
    BY <1>0
  <2> QED BY <2>1, <1>1, <1>2, <1>t
<1>5. ASSUME NEW n \in 1..N, n - 1 \in Good  PROVE n \in Good
  <2>0. n \in 0..N
    OBVIOUS
  <2>1. CASE n \in P
    <3>1. f[n] = Settle(f[n - 1], n, now) /\ n \in Rows /\ row[n].outcome = "pending"
      BY <1>0, <1>1, <1>3, <2>1
    <3>2. Through(P, n) = Through(P, n - 1) \union {n} /\ n \notin Through(P, n - 1)
      BY <2>1, <1>t
    <3>3. ChunkInv(f[n - 1], Through(P, n - 1), now) /\ Through(P, n - 1) \in SUBSET Rows
      BY <1>5, <1>3
    <3>4. ChunkInv(f[n], Through(P, n - 1) \union {n}, now)
      BY <3>1, <3>2, <3>3, ChunkSteps
    <3> QED BY <2>0, <3>2, <3>4
  <2>2. CASE n \notin P
    <3>1. f[n] = f[n - 1] /\ Through(P, n) = Through(P, n - 1)
      BY <1>1, <2>2, <1>t
    <3> QED BY <2>0, <3>1, <1>5
  <2> QED BY <2>1, <2>2
<1>6. 0..N \subseteq Good
  <2> HIDE DEF Good
  <2> QED BY <1>4, <1>5, Climbs
<1>7. ChunkInv(f[N], Through(P, N), now)
  <2>1. N \in 0..N
    BY <1>0
  <2> QED BY <2>1, <1>6
<1> QED BY <1>0, <1>t, <1>7 DEF f

-------------------------------------------------------------------------------
(* What holds throughout: of the batch at any time, and until it is undone.     *)

States == {"uploaded", "mapped", "previewed", "discarded", "committing", "committed",
           "rolled_back"}
Early == {"uploaded", "mapped", "previewed"}

Kept ==
    /\ file \in Files /\ file \in Seq(FileRows)
    /\ clock \in Nat /\ Upload <= clock
    /\ batch \in [state : States, expired : BOOLEAN]
    /\ Tables([apps |-> apps, row |-> row, notes |-> notes])
    /\ \A r \in Rows : Lands(row, r)
    /\ Unborn(row, apps) /\ LandedOnce
    /\ \A a \in DOMAIN apps : apps[a].version <= clock

Untouched ==
    batch.state \in Early =>
        /\ DOMAIN apps = 1..Len(Existing)
        /\ \A r \in Rows : row[r].outcome = "pending"

\* The version of an application tells who was there last.
Tracks(r) ==
    LET a == row[r].app IN
    /\ a \in DOMAIN apps /\ row[r].wrote <= apps[a].version
    /\ a \in edited => row[r].wrote < apps[a].version
    /\ Upon(row, a) = {r} /\ a \notin edited => row[r].wrote = apps[a].version

\* The values an undo puts back are the ones the application had.
Recalls ==
    /\ \A a \in DOMAIN origin : Upon(row, a) # {}
    /\ \A r \in Rows : row[r].outcome = "updated" /\ Upon(row, row[r].app) = {r} =>
          /\ row[r].app \in DOMAIN origin
          /\ origin[row[r].app] = row[r].before

Undoable ==
    batch.state # "rolled_back" =>
        /\ 1..Len(Existing) \subseteq DOMAIN apps
        /\ \A r \in Rows : row[r].outcome \in Landed => Tracks(r)
        /\ Recalls

ImportInv == Kept /\ Untouched /\ Undoable

-------------------------------------------------------------------------------
(* Before the commit.                                                          *)

importCore == <<file, row, apps, notes, clock, edited, origin>>

\* A step of the tabs, or of the state of the batch alone.
LEMMA CoreStays ==
    ASSUME ImportInv, UNCHANGED importCore, batch' \in [state : States, expired : BOOLEAN],
           \/ batch'.state = batch.state
           \/ batch'.state \notin Early /\ batch.state # "rolled_back"
    PROVE  ImportInv'
<1>1. /\ file' = file /\ row' = row /\ apps' = apps /\ notes' = notes /\ clock' = clock
      /\ edited' = edited /\ origin' = origin
  BY DEF importCore
<1>2. Rows' = Rows /\ \A r : Lands(row, r)' <=> Lands(row, r)
  BY <1>1 DEF Rows, Lands, Id
<1>3. \A a : Upon(row, a)' = Upon(row, a)
  BY <1>1, <1>2 DEF Upon
<1>4. Kept'
  <2>1. Tables([apps |-> apps, row |-> row, notes |-> notes])'
    BY <1>1, <1>2 DEF ImportInv, Kept, Tables, Ids
  <2>2. Unborn(row, apps)' /\ LandedOnce'
    BY <1>1, <1>2 DEF ImportInv, Kept, Unborn, LandedOnce, Id
  <2> QED BY <1>1, <1>2, <2>1, <2>2 DEF ImportInv, Kept
<1>5. Untouched'
  BY <1>1, <1>2 DEF ImportInv, Untouched
<1>6. Undoable'
  <2>1. \A r : Tracks(r)' <=> Tracks(r)
    BY <1>1, <1>3 DEF Tracks
  <2>2. Recalls' <=> Recalls
    BY <1>1, <1>2, <1>3 DEF Recalls
  <2> QED BY <1>1, <1>2, <2>1, <2>2 DEF ImportInv, Undoable
<1> QED BY <1>4, <1>5, <1>6 DEF ImportInv

\* A step of the review: nothing has been written, and nothing is.
LEMMA ReviewKeeps ==
    ASSUME ImportInv, batch.state \in Early, batch'.state \in Early,
           batch' \in [state : States, expired : BOOLEAN],
           UNCHANGED <<file, apps, notes, clock, edited, origin>>,
           row' \in [Rows -> RowStates],
           \A r \in Rows : /\ row'[r].outcome = "pending"
                           /\ row'[r].kind \in Matched => row'[r].app \in DOMAIN apps
    PROVE  ImportInv'
<1>1. /\ Rows' = Rows /\ DOMAIN apps = 1..Len(Existing)
      /\ \A r \in Rows : row[r].outcome = "pending"
  BY DEF Rows, ImportInv, Untouched
<1>2. \A a : Upon(row, a) = {} /\ Upon(row, a)' = {}
  BY <1>1 DEF Upon, Landed
<1>3. Kept'
  <2>1. Tables([apps |-> apps, row |-> row, notes |-> notes])'
    BY <1>1 DEF ImportInv, Kept, Tables, Ids
  <2>2. \A r \in Rows : Lands(row, r)'
    BY <1>1 DEF Lands
  <2>3. Unborn(row, apps)'
    BY <1>1 DEF ImportInv, Kept, Unborn, Id
  <2>4. LandedOnce'
    <3>1. \A a \in DOMAIN apps : notes[a] = Cardinality(Upon(row, a))
      BY DEF ImportInv, Kept, LandedOnce, Upon
    <3>2. \A a \in DOMAIN apps : notes[a] = Cardinality(Upon(row, a)')
      <4> TAKE a \in DOMAIN apps
      <4>1. Upon(row, a) = Upon(row, a)'
        BY <1>2
      <4> QED BY <3>1, <4>1
    <3> QED BY <3>2 DEF LandedOnce, Upon
  <2> QED BY <1>1, <2>1, <2>2, <2>3, <2>4 DEF ImportInv, Kept
<1>4. Untouched'
  BY <1>1 DEF Untouched
<1>5. Undoable'
  <2>1. DOMAIN origin = {}
    BY <1>2 DEF ImportInv, Undoable, Early, Recalls
  <2>2. Recalls'
    BY <1>1, <2>1 DEF Recalls
  <2>3. \A r \in Rows' : row'[r].outcome \notin Landed
    BY <1>1 DEF Landed
  <2> QED BY <1>1, <2>2, <2>3 DEF Undoable
<1> QED BY <1>3, <1>4, <1>5 DEF ImportInv

\* The lowest of some numbers is one of them.
LEMMA LowestIsOne ==
    ASSUME NEW S \in SUBSET Nat, S # {}
    PROVE  Lowest(S) \in S
<1>1. \E m \in S : \A n \in S : m <= n
  BY LeastNumber
<1> QED BY <1>1 DEF Lowest

\* What a row matches is there.
LEMMA MatchType ==
    ASSUME file \in Seq(FileRows), DOMAIN apps \subseteq Nat, NEW r \in Rows,
           NEW match, match = Match(r)
    PROVE  /\ match.kind \in {"new", "round-trip", "matches-existing", "suggestion",
                              "unkeyable", "duplicate-in-file"}
           /\ match.app \in Nat
           /\ match.kind \in Matched => match.app \in DOMAIN apps
<1> DEFINE f == file[r]
           byKey == {a \in DOMAIN apps : apps[a].key = f.key}
           is(kind, app) == [kind |-> kind, app |-> app]
<1>0. match =
        CASE f.key # "" /\ \E q \in 1..(r - 1) : file[q].key = f.key
                -> is("duplicate-in-file", 0)
         [] f.hqId \in DOMAIN apps -> is("round-trip", f.hqId)
         [] f.strength = "strong" /\ byKey # {} -> is("matches-existing", Lowest(byKey))
         [] f.strength = "strong" /\ byKey = {} /\ f.name # "" /\ Unkeyed(f.name) # {}
                -> is("matches-existing", Lowest(Unkeyed(f.name)))
         [] f.strength = "weak" /\ f.name # "" /\ WithName(f.name) # {}
                -> is("suggestion", Lowest(WithName(f.name)))
         [] f.strength # "strong" -> is("unkeyable", 0)
         [] OTHER -> is("new", 0)
  BY DEF Match
<1>1. \/ match = is("duplicate-in-file", 0)
      \/ f.hqId \in DOMAIN apps /\ match = is("round-trip", f.hqId)
      \/ byKey # {} /\ match = is("matches-existing", Lowest(byKey))
      \/ Unkeyed(f.name) # {} /\ match = is("matches-existing", Lowest(Unkeyed(f.name)))
      \/ WithName(f.name) # {} /\ match = is("suggestion", Lowest(WithName(f.name)))
      \/ match = is("unkeyable", 0)
      \/ match = is("new", 0)
  <2> HIDE DEF f, byKey, is
  <2> QED BY <1>0
<1>2. byKey \in SUBSET DOMAIN apps /\ byKey \in SUBSET Nat
  OBVIOUS
<1>3. WithName(f.name) \in SUBSET DOMAIN apps /\ WithName(f.name) \in SUBSET Nat
  BY DEF WithName
<1>4. Unkeyed(f.name) \in SUBSET DOMAIN apps /\ Unkeyed(f.name) \in SUBSET Nat
  BY DEF Unkeyed, WithName
<1> HIDE DEF f, byKey
<1>5. CASE byKey # {} /\ match = is("matches-existing", Lowest(byKey))
  BY <1>2, <1>5, LowestIsOne
<1>6. CASE Unkeyed(f.name) # {} /\ match = is("matches-existing", Lowest(Unkeyed(f.name)))
  BY <1>4, <1>6, LowestIsOne
<1>7. CASE WithName(f.name) # {} /\ match = is("suggestion", Lowest(WithName(f.name)))
  BY <1>3, <1>7, LowestIsOne DEF Matched
<1>8. CASE f.hqId \in DOMAIN apps /\ match = is("round-trip", f.hqId)
  BY <1>8
<1>9. CASE match \in {is("duplicate-in-file", 0), is("unkeyable", 0), is("new", 0)}
  BY <1>9 DEF Matched
<1> QED BY <1>1, <1>5, <1>6, <1>7, <1>8, <1>9

LEMMA SetMappingKeeps ==
    ASSUME ImportInv, SetMapping
    PROVE  ImportInv'
<1>1. /\ batch.state \in Early /\ batch' = [batch EXCEPT !.state = "mapped"]
      /\ batch \in [state : States, expired : BOOLEAN] /\ row \in [Rows -> RowStates]
      /\ UNCHANGED <<file, apps, notes, clock, edited, origin>>
  BY DEF SetMapping, Early, ImportInv, Kept, Tables
<1>2. ASSUME NEW r \in Rows
      PROVE  [FreshRow EXCEPT !.included = row[r].included] \in RowStates
  <2>1. row[r].included \in BOOLEAN
    BY <1>1 DEF RowStates
  <2> QED BY <2>1 DEF FreshRow, RowStates
<1>3. row' = [r \in Rows |-> [FreshRow EXCEPT !.included = row[r].included]]
  BY DEF SetMapping
<1>4. row' \in [Rows -> RowStates]
  BY <1>2, <1>3
<1>5. \A r \in Rows : row'[r].outcome = "pending" /\ row'[r].kind = "new"
  BY <1>3 DEF FreshRow
<1> QED BY <1>1, <1>4, <1>5, ReviewKeeps DEF Early, States, Matched

LEMMA PreviewKeeps ==
    ASSUME ImportInv, Preview
    PROVE  ImportInv'
<1>1. /\ batch.state \in Early /\ batch' = [batch EXCEPT !.state = "previewed"]
      /\ batch \in [state : States, expired : BOOLEAN] /\ row \in [Rows -> RowStates]
      /\ UNCHANGED <<file, apps, notes, clock, edited, origin>>
      /\ file \in Seq(FileRows) /\ DOMAIN apps \subseteq Ids
      /\ \A r \in Rows : row[r].outcome = "pending"
  BY DEF Preview, Early, ImportInv, Kept, Tables, Untouched
<1> DEFINE New(r, match, conflict) ==
        [row[r] EXCEPT !.kind = match.kind, !.app = match.app, !.conflict = conflict,
                       !.state = IF conflict = {} THEN "none" ELSE "unresolved"]
<1>2. row' = [r \in Rows |-> New(r, Match(r), Conflict(r, Match(r)))]
  BY DEF Preview
<1>3. ASSUME NEW r \in Rows
      PROVE  /\ row'[r] \in RowStates /\ row'[r].outcome = "pending"
             /\ row'[r].kind \in Matched => row'[r].app \in DOMAIN apps
  <2>1. PICK match : match = Match(r)
    OBVIOUS
  <2>2. PICK conflict : conflict = Conflict(r, match)
    OBVIOUS
  <2>3. conflict \subseteq Columns
    BY <2>2 DEF Conflict, Differs
  <2>4. DOMAIN apps \subseteq Nat
    BY <1>1, RowIds
  <2>5. /\ match.kind \in {"new", "round-trip", "matches-existing", "suggestion",
                           "unkeyable", "duplicate-in-file"}
        /\ match.app \in Nat
        /\ match.kind \in Matched => match.app \in DOMAIN apps
    BY <1>1, <2>1, <2>4, MatchType
  <2>6. row[r] \in RowStates /\ row[r].outcome = "pending"
    BY <1>1
  <2>7. New(r, match, conflict) \in RowStates /\ New(r, match, conflict).outcome = "pending"
        /\ New(r, match, conflict).kind = match.kind /\ New(r, match, conflict).app = match.app
    BY <2>3, <2>5, <2>6 DEF RowStates
  <2>8. row'[r] = New(r, match, conflict)
    BY <1>2, <2>1, <2>2
  <2> QED BY <2>5, <2>7, <2>8
<1> HIDE DEF New
<1>4. row' \in [Rows -> RowStates]
  BY <1>2, <1>3
<1> QED BY <1>1, <1>3, <1>4, ReviewKeeps DEF Early, States

LEMMA RowEditKeeps ==
    ASSUME ImportInv, NEW r \in Rows,
           \/ \E theirs, mine \in SUBSET Columns : ResolveRow(r, theirs, mine)
           \/ \E included \in BOOLEAN : SetIncluded(r, included)
    PROVE  ImportInv'
<1>1. /\ batch.state \in Early /\ batch' = batch
      /\ batch \in [state : States, expired : BOOLEAN] /\ row \in [Rows -> RowStates]
      /\ UNCHANGED <<file, apps, notes, clock, edited, origin>>
      /\ DOMAIN apps = 1..Len(Existing)
      /\ \A q \in Rows : /\ row[q].outcome = "pending"
                         /\ row[q].kind \in Matched => row[q].app \in 1..Len(Existing)
  BY DEF ResolveRow, SetIncluded, Early, ImportInv, Kept, Tables, Untouched, Lands
<1> DEFINE Becomes(w) == /\ w \in RowStates /\ row' = [row EXCEPT ![r] = w]
                         /\ w.outcome = row[r].outcome /\ w.kind = row[r].kind
                         /\ w.app = row[r].app
<1>2. PICK w : Becomes(w)
  <2>1. row[r] \in RowStates
    BY <1>1
  <2>2. ASSUME NEW theirs \in SUBSET Columns, NEW mine \in SUBSET Columns,
               ResolveRow(r, theirs, mine)
        PROVE  \E w : Becomes(w)
    <3> DEFINE w == [row[r] EXCEPT !.state = "resolved", !.theirs = theirs, !.mine = mine]
    <3>1. w \in RowStates /\ w.outcome = row[r].outcome /\ w.kind = row[r].kind
          /\ w.app = row[r].app
      BY <2>1 DEF RowStates
    <3>2. row' = [row EXCEPT ![r] = w]
      BY <2>2, <1>1 DEF ResolveRow
    <3> HIDE DEF w
    <3> QED BY <3>1, <3>2
  <2>3. ASSUME NEW included \in BOOLEAN, SetIncluded(r, included)
        PROVE  \E w : Becomes(w)
    <3> DEFINE w == [row[r] EXCEPT !.included = included]
    <3>1. w \in RowStates /\ w.outcome = row[r].outcome /\ w.kind = row[r].kind
          /\ w.app = row[r].app
      BY <2>1 DEF RowStates
    <3>2. row' = [row EXCEPT ![r] = w]
      BY <2>3, <1>1 DEF SetIncluded
    <3> HIDE DEF w
    <3> QED BY <3>1, <3>2
  <2> QED BY <2>2, <2>3
<1>3. row' \in [Rows -> RowStates]
  BY <1>1, <1>2
<1>4. \A q \in Rows : /\ row'[q].outcome = "pending"
                      /\ row'[q].kind \in Matched => row'[q].app \in DOMAIN apps
  BY <1>1, <1>2
<1> QED BY <1>1, <1>3, <1>4, ReviewKeeps

-------------------------------------------------------------------------------
(* The commit of a chunk.                                                      *)

\* What the transaction has changed.
Wrote == {a \in DOMAIN apps' : a \notin DOMAIN apps \/ apps'[a] # apps[a]}

\* The chunk that settled the rows of D has come to done; the rows excluded are
\* settled with it.
Committed(done, D) ==
    /\ ChunkInv(done, D, clock + 1) /\ D \subseteq Waiting
    /\ file' = file /\ clock' = clock + 1
    /\ apps' = done.apps /\ notes' = done.notes
    /\ row' \in [Rows -> RowStates]
    /\ \A r \in Rows :
          \/ row'[r] = done.row[r]
          \/ /\ done.row[r].outcome = "pending"
             /\ row'[r] = [done.row[r] EXCEPT !.outcome = "skipped"]
    /\ batch' \in [state : States, expired : BOOLEAN]
    /\ batch'.state \in {"committing", "committed"}
    /\ edited' = edited \ Wrote
    /\ origin' = [a \in DOMAIN origin \cup (Wrote \cap DOMAIN apps) |->
                    IF a \in DOMAIN origin THEN origin[a] ELSE Values(apps[a])]

\* The commit command is a chunk that has settled its rows.
LEMMA ChunkCommitted ==
    ASSUME ImportInv, NEW k, CommitChunk(k)
    PROVE  Opening /\ \E done, D : Committed(done, D)
<1> DEFINE D == FirstOf(Waiting, Chunk)
           done == Settling(D, clock + 1)[Len(file)]
           settled == [r \in Rows |->
               IF done.row[r].outcome = "pending" /\ ~done.row[r].included
               THEN [done.row[r] EXCEPT !.outcome = "skipped"] ELSE done.row[r]]
           remaining == Cardinality({r \in Rows : settled[r].outcome = "pending"})
           wrote == {a \in DOMAIN done.apps :
                       a \notin DOMAIN apps \/ done.apps[a] # apps[a]}
<1>1. /\ apps' = done.apps /\ notes' = done.notes /\ row' = settled /\ clock' = clock + 1
      /\ file' = file /\ edited' = edited \ wrote
      /\ batch' = [batch EXCEPT !.state = IF remaining = 0 THEN "committed" ELSE "committing"]
      /\ origin' = [a \in DOMAIN origin \cup (wrote \cap DOMAIN apps) |->
                          IF a \in DOMAIN origin THEN origin[a] ELSE Values(apps[a])]
  BY DEF CommitChunk
<1>2. batch.state \in {"previewed", "committing"}
  BY DEF CommitChunk
<1>3. D \in SUBSET Waiting
  BY DEF FirstOf
<1> HIDE DEF D
<1>4. Opening
  BY <1>2 DEF ImportInv, Kept, Undoable, Opening
<1>5. ChunkInv(done, D, clock + 1)
  BY <1>3, <1>4, ChunkSettles
<1> HIDE DEF done
<1>6. Wrote = wrote
  BY <1>1 DEF Wrote
<1>7. \A r \in Rows :
          \/ row'[r] = done.row[r]
          \/ /\ done.row[r].outcome = "pending"
             /\ row'[r] = [done.row[r] EXCEPT !.outcome = "skipped"]
  BY <1>1
<1>8. row' \in [Rows -> RowStates]
  <2>1. done.row \in [Rows -> RowStates]
    BY <1>5 DEF ChunkInv, Tables
  <2>2. ASSUME NEW r \in Rows  PROVE settled[r] \in RowStates
    <3>1. done.row[r] \in RowStates
      BY <2>1
    <3>2. [done.row[r] EXCEPT !.outcome = "skipped"] \in RowStates
      BY <3>1 DEF RowStates
    <3> QED BY <3>1, <3>2
  <2>3. settled = [r \in Rows |-> settled[r]]
    OBVIOUS
  <2> HIDE DEF settled
  <2> QED BY <1>1, <2>2, <2>3
<1>9. batch' \in [state : States, expired : BOOLEAN] /\ batch'.state \in {"committing", "committed"}
  BY <1>1 DEF ImportInv, Kept, States
<1>10. Committed(done, D)
  BY <1>1, <1>3, <1>5, <1>6, <1>7, <1>8, <1>9 DEF Committed
<1> QED BY <1>4, <1>10

\* What the rows say afterwards, against what the chunk had come to.
LEMMA CommittedRows ==
    ASSUME Opening, NEW done, NEW D, Committed(done, D)
    PROVE  /\ Rows' = Rows
           /\ \A r \in Rows :
                /\ row'[r].kind = done.row[r].kind /\ row'[r].app = done.row[r].app
                /\ row'[r].before = done.row[r].before /\ row'[r].wrote = done.row[r].wrote
                /\ row'[r].outcome = "created" <=> done.row[r].outcome = "created"
                /\ row'[r].outcome = "updated" <=> done.row[r].outcome = "updated"
                /\ row'[r].outcome \in Landed <=> done.row[r].outcome \in Landed
                /\ r \notin D => done.row[r] = row[r]
                /\ r \in D => row[r].outcome = "pending"
           /\ \A a : /\ Upon(row, a)' = Upon(row', a) /\ Upon(row', a) = Upon(done.row, a)
                     /\ Upon(row, a) = Upon(done.row, a) \ D
<1>1. Rows' = Rows
  BY DEF Committed, Rows
<1>2. done.row \in [Rows -> RowStates]
  BY DEF Committed, ChunkInv, Tables
<1>3. ASSUME NEW r \in Rows
      PROVE  /\ row'[r].kind = done.row[r].kind /\ row'[r].app = done.row[r].app
             /\ row'[r].before = done.row[r].before /\ row'[r].wrote = done.row[r].wrote
             /\ row'[r].outcome = "created" <=> done.row[r].outcome = "created"
             /\ row'[r].outcome = "updated" <=> done.row[r].outcome = "updated"
             /\ row'[r].outcome \in Landed <=> done.row[r].outcome \in Landed
  <2>1. done.row[r] \in RowStates
    BY <1>2
  <2>2. \/ row'[r] = done.row[r]
        \/ /\ done.row[r].outcome = "pending"
           /\ row'[r] = [done.row[r] EXCEPT !.outcome = "skipped"]
    BY DEF Committed
  <2> QED BY <2>1, <2>2 DEF RowStates, Landed
<1>4. \A r \in Rows : (r \notin D => done.row[r] = row[r]) /\ (r \in D => row[r].outcome = "pending")
  BY DEF Committed, ChunkInv, ChunkRows, Waiting
<1>5. \A a : Upon(row, a)' = Upon(row', a) /\ Upon(row', a) = Upon(done.row, a)
  BY <1>1, <1>3 DEF Upon
<1>6. \A a : Upon(row, a) = Upon(done.row, a) \ D
  BY <1>4 DEF Upon, Landed
<1> QED BY <1>1, <1>3, <1>4, <1>5, <1>6

LEMMA CommitKeeps ==
    ASSUME ImportInv, NEW k, CommitChunk(k)
    PROVE  ImportInv'
<1>0. Opening /\ batch.state # "rolled_back"
  BY ChunkCommitted DEF CommitChunk
<1>1. PICK done, D : Committed(done, D)
  BY ChunkCommitted
<1> DEFINE now == clock + 1
<1>2. /\ Tables(done) /\ Unborn(done.row, done.apps)
      /\ ChunkRows(done, D, now) /\ ChunkApps(done, D, now) /\ ChunkNotes(done)
      /\ ChunkBefore(done, D) /\ file' = file /\ clock' = now
      /\ apps' = done.apps /\ notes' = done.notes /\ D \subseteq Rows
      /\ edited' = edited \ Wrote
  BY <1>1 DEF Committed, ChunkInv, Waiting
<1>3. /\ Rows' = Rows
      /\ \A r \in Rows :
           /\ row'[r].kind = done.row[r].kind /\ row'[r].app = done.row[r].app
           /\ row'[r].before = done.row[r].before /\ row'[r].wrote = done.row[r].wrote
           /\ row'[r].outcome = "created" <=> done.row[r].outcome = "created"
           /\ row'[r].outcome = "updated" <=> done.row[r].outcome = "updated"
           /\ row'[r].outcome \in Landed <=> done.row[r].outcome \in Landed
           /\ r \notin D => done.row[r] = row[r]
           /\ r \in D => row[r].outcome = "pending"
      /\ \A a : /\ Upon(row, a)' = Upon(row', a) /\ Upon(row', a) = Upon(done.row, a)
                /\ Upon(row, a) = Upon(done.row, a) \ D
  BY <1>0, <1>1, CommittedRows
<1>4. clock \in Nat /\ Upload <= clock /\ Upload \in Nat /\ now \in Nat /\ now > clock
  BY UploadTime DEF ImportInv, Kept
<1>5. /\ DOMAIN apps \subseteq DOMAIN apps'
      /\ \A a \in DOMAIN apps : apps[a].version \in Nat /\ apps[a].version <= clock
      /\ \A a \in DOMAIN apps' :
            IF Upon(done.row, a) \intersect D # {}
            THEN apps'[a].version = now /\ a \in Wrote
            ELSE a \in DOMAIN apps /\ apps'[a] = apps[a] /\ a \notin Wrote
  <2>1. \A a \in DOMAIN apps : apps[a].version \in Nat /\ apps[a].version <= clock
    BY DEF ImportInv, Kept, Tables, AppRows
  <2>2. ASSUME NEW a \in DOMAIN apps', Upon(done.row, a) \intersect D # {}
        PROVE  apps'[a].version = now /\ a \in Wrote
    <3>1. apps'[a].version = now
      BY <1>2, <2>2 DEF ChunkApps
    <3>2. a \in DOMAIN apps => apps'[a] # apps[a]
      BY <3>1, <2>1, <1>4
    <3> QED BY <3>1, <3>2 DEF Wrote
  <2>3. ASSUME NEW a \in DOMAIN apps', Upon(done.row, a) \intersect D = {}
        PROVE  a \in DOMAIN apps /\ apps'[a] = apps[a] /\ a \notin Wrote
    BY <1>2, <2>3 DEF ChunkApps, Wrote
  <2>4. DOMAIN apps \subseteq DOMAIN apps'
    BY <1>2 DEF ChunkApps
  <2> QED BY <2>1, <2>2, <2>3, <2>4
<1>6. Kept'
  <2>1. Tables([apps |-> apps, row |-> row, notes |-> notes])'
    <3>1. row' \in [Rows -> RowStates]
      BY <1>1 DEF Committed
    <3>2. /\ DOMAIN apps' \subseteq Ids /\ apps' \in [DOMAIN apps' -> AppRows]
          /\ notes' \in [Ids -> Nat] /\ Ids' = Ids
      BY <1>2 DEF Tables, Ids
    <3> QED BY <1>3, <3>1, <3>2 DEF Tables
  <2>2. \A r \in Rows' : Lands(row, r)'
    BY <1>2, <1>3 DEF ChunkRows, Lands, Id
  <2>3. Unborn(row, apps)'
    BY <1>2, <1>3 DEF Unborn, Id
  <2>4. LandedOnce'
    <3>1. \A a \in DOMAIN apps' : notes'[a] = Cardinality(Upon(row, a)')
      BY <1>2, <1>3 DEF ChunkNotes
    <3> QED BY <3>1 DEF LandedOnce, Upon
  <2>5. \A a \in DOMAIN apps' : apps'[a].version <= clock'
    <3> TAKE a \in DOMAIN apps'
    <3>1. apps'[a].version = now \/ (a \in DOMAIN apps /\ apps'[a] = apps[a])
      BY <1>5
    <3> QED BY <3>1, <1>2, <1>4, <1>5
  <2>6. /\ file' \in Files /\ file' \in Seq(FileRows) /\ clock' \in Nat /\ Upload <= clock'
        /\ batch' \in [state : States, expired : BOOLEAN]
    BY <1>1, <1>2, <1>4 DEF ImportInv, Kept, Committed
  <2> QED BY <2>1, <2>2, <2>3, <2>4, <2>5, <2>6 DEF Kept
<1>7. Untouched'
  BY <1>1 DEF Untouched, Committed, Early
<1>8. ASSUME NEW r \in Rows, row'[r].outcome \in Landed  PROVE Tracks(r)'
  <2> DEFINE a == row'[r].app
  <2>0. r \in Upon(done.row, a)
    BY <1>3, <1>8 DEF Upon
  <2>1. CASE r \in D
    <3>1. a \in DOMAIN apps' /\ row'[r].wrote = now
      BY <1>2, <1>3, <1>8, <2>1 DEF ChunkRows
    <3>2. apps'[a].version = now /\ a \in Wrote
      BY <1>5, <2>0, <2>1, <3>1
    <3> QED BY <1>2, <1>4, <3>1, <3>2 DEF Tracks
  <2>2. CASE r \notin D
    <3>1. Tracks(r) /\ a = row[r].app /\ row'[r].wrote = row[r].wrote
      BY <1>0, <1>3, <1>8, <2>2 DEF ImportInv, Undoable
    <3>2. a \in DOMAIN apps /\ row[r].wrote <= apps[a].version /\ row[r].wrote \in Nat
      BY <3>1 DEF Tracks, ImportInv, Kept, Tables, RowStates
    <3>3. a \in DOMAIN apps' /\ row[r].wrote <= apps'[a].version
      <4>1. a \in DOMAIN apps' /\ (apps'[a].version = now \/ apps'[a] = apps[a])
        BY <1>5, <3>2
      <4> QED BY <4>1, <3>2, <1>4, <1>5
    <3>4. a \in edited' => row[r].wrote < apps'[a].version
      <4>1. a \notin Wrote => apps'[a] = apps[a]
        BY <3>2, <3>3 DEF Wrote
      <4> QED BY <4>1, <1>2, <3>1 DEF Tracks
    <3>5. Upon(row', a) = {r} /\ a \notin edited' => row[r].wrote = apps'[a].version
      <4> SUFFICES ASSUME Upon(row', a) = {r}, a \notin edited'
                   PROVE  row[r].wrote = apps'[a].version
        OBVIOUS
      <4>1. Upon(done.row, a) = {r} /\ Upon(row, a) = {r}
        BY <1>3, <2>2
      <4>2. apps'[a] = apps[a] /\ a \notin Wrote
        BY <4>1, <2>2, <1>5, <3>3
      <4> QED BY <4>1, <4>2, <3>1, <1>2 DEF Tracks
    <3>6. Upon(row, row[r].app)' = Upon(row', a)
      BY <1>3
    <3> QED BY <3>1, <3>3, <3>4, <3>5, <3>6 DEF Tracks
  <2> QED BY <2>1, <2>2
<1>9. Recalls'
  <2>0. /\ Recalls
        /\ origin' = [a \in DOMAIN origin \cup (Wrote \cap DOMAIN apps) |->
                          IF a \in DOMAIN origin THEN origin[a] ELSE Values(apps[a])]
    BY <1>0, <1>1 DEF ImportInv, Undoable, Committed
  <2>1. ASSUME NEW a \in DOMAIN origin'  PROVE Upon(row, a)' # {}
    <3>1. CASE a \in DOMAIN origin
      BY <1>3, <2>0, <3>1 DEF Recalls
    <3>2. CASE a \in Wrote
      BY <1>3, <1>5, <3>2 DEF Wrote
    <3> QED BY <2>0, <3>1, <3>2
  <2>2. ASSUME NEW r \in Rows, row'[r].outcome = "updated", Upon(row', row'[r].app) = {r}
        PROVE  row'[r].app \in DOMAIN origin' /\ origin'[row'[r].app] = row'[r].before
    <3> DEFINE a == row'[r].app
    <3>1. Upon(done.row, a) = {r} /\ Upon(row, a) = {r} \ D
      BY <1>3, <2>2
    <3>2. CASE r \in D
      <4>1. a \in DOMAIN apps
        BY <1>0, <1>2, <1>3, <2>2 DEF ChunkRows, Lands, Opening
      <4>2. row'[r].before = Values(apps[a])
        BY <1>2, <1>3, <2>2, <3>1, <3>2, <4>1 DEF ChunkBefore
      <4>3. a \in Wrote
        BY <1>5, <3>1, <3>2, <4>1
      <4>4. a \notin DOMAIN origin
        BY <2>0, <3>1, <3>2 DEF Recalls
      <4> QED BY <2>0, <4>1, <4>2, <4>3, <4>4
    <3>3. CASE r \notin D
      <4>1. Upon(row, a) = {r} /\ row[r].outcome = "updated" /\ row[r].app = a
            /\ row'[r].before = row[r].before
        BY <1>3, <2>2, <3>1, <3>3
      <4>2. a \in DOMAIN origin /\ origin[a] = row[r].before
        BY <2>0, <4>1 DEF Recalls
      <4> QED BY <2>0, <4>1, <4>2
    <3> QED BY <3>2, <3>3
  <2>3. \A r \in Rows' : row'[r].outcome = "updated" /\ Upon(row', row'[r].app) = {r} =>
            row'[r].app \in DOMAIN origin' /\ origin'[row'[r].app] = row'[r].before
    BY <1>3, <2>2
  <2>4. \A r \in Rows' : Upon(row, row[r].app)' = Upon(row', row'[r].app)
    BY <1>3
  <2> QED BY <2>1, <2>3, <2>4 DEF Recalls
<1>10. Undoable'
  <2>1. 1..Len(Existing) \subseteq DOMAIN apps'
    BY <1>0, <1>5 DEF Opening
  <2> QED BY <1>3, <1>8, <1>9, <2>1 DEF Undoable
<1> QED BY <1>6, <1>7, <1>10 DEF ImportInv

-------------------------------------------------------------------------------
(* The undo.                                                                   *)

\* The undo goes from row to row.
LEMMA TakingBackRows ==
    ASSUME NEW N, N = Len(file), N \in Nat, NEW written, NEW now
    PROVE  LET after == TakingBack(written, now) IN
           /\ after[0] = [apps |-> apps, notes |-> notes]
           /\ \A r \in 1..N : after[r] = IF r \in written THEN TakeBack(after[r - 1], r, now)
                                         ELSE after[r - 1]
<1> DEFINE start == [apps |-> apps, notes |-> notes]
           Next(g, r) == IF r \in written THEN TakeBack(g[r - 1], r, now) ELSE g[r - 1]
           Chain(g, m) == g = [r \in 0..m |-> IF r = 0 THEN start ELSE Next(g, r)]
           Good == {m \in 0..N : \E g : Chain(g, m)}
<1>1. 0 \in Good
  <2> DEFINE g == [r \in 0..0 |-> start]
  <2>1. Chain(g, 0) /\ 0 \in 0..N
    OBVIOUS
  <2> HIDE DEF g, Chain
  <2> QED BY <2>1
<1>2. ASSUME NEW m \in 1..N, m - 1 \in Good  PROVE m \in Good
  <2>1. PICK g : Chain(g, m - 1)
    BY <1>2
  <2> DEFINE h == [r \in 0..m |-> IF r < m THEN g[r] ELSE Next(g, m)]
  <2> HIDE DEF start
  <2>2. \A r \in 0..(m - 1) : h[r] = g[r]
    OBVIOUS
  <2>3. \A r \in 0..(m - 1) : g[r] = IF r = 0 THEN start ELSE Next(g, r)
    BY <2>1
  <2>4. \A r \in 1..m : Next(h, r) = Next(g, r)
    BY <2>2
  <2>5. \A r \in 0..m : h[r] = IF r = 0 THEN start ELSE Next(h, r)
    <3> TAKE r \in 0..m
    <3>1. CASE r < m
      BY <3>1, <2>2, <2>3, <2>4
    <3>2. CASE r = m
      BY <3>2, <2>4
    <3> QED BY <3>1, <3>2
  <2>6. Chain(h, m)
    <3>1. h = [r \in 0..m |-> h[r]]
      OBVIOUS
    <3> HIDE DEF h
    <3> QED BY <3>1, <2>5
  <2>7. m \in 0..N
    OBVIOUS
  <2> HIDE DEF h, Chain
  <2> QED BY <2>6, <2>7
<1>3. PICK g : Chain(g, N)
  <2>1. N \in 0..N
    OBVIOUS
  <2> HIDE DEF Good
  <2>2. 0..N \subseteq Good
    BY <1>1, <1>2, Climbs
  <2> QED BY <2>1, <2>2 DEF Good
<1> DEFINE f == TakingBack(written, now)
<1>4. f = CHOOSE c : Chain(c, N)
  BY DEF TakingBack
<1>5. Chain(f, N)
  <2> HIDE DEF Chain, f
  <2> QED BY <1>3, <1>4
<1>6. 0 \in 0..N /\ \A r \in 1..N : r \in 0..N /\ r # 0
  OBVIOUS
<1> HIDE DEF f, start
<1>7. f[0] = start /\ \A r \in 1..N : f[r] = Next(f, r)
  BY <1>5, <1>6
<1> QED BY <1>7 DEF f, start

\* The undo has come to s: the rows of D are taken back.
UndoTables(s) ==
    /\ s = [apps |-> s.apps, notes |-> s.notes]
    /\ DOMAIN s.apps \subseteq DOMAIN apps /\ s.apps \in [DOMAIN s.apps -> AppRows]
    /\ s.notes \in [Ids -> Nat]
UndoApps(s, now) ==
    \A a \in DOMAIN s.apps : s.apps[a].version <= now /\ s.notes[a] = notes[a]
UndoLeaves(s, D) ==
    \A a \in DOMAIN apps :
        Upon(row, a) \intersect D = {} \/ a \in edited =>
            a \in DOMAIN s.apps /\ s.apps[a] = apps[a]
UndoRestores(s, D) ==
    \A a \in DOMAIN apps : \A r \in D :
        Upon(row, a) = {r} /\ a \notin edited =>
            IF row[r].outcome = "created" THEN a \notin DOMAIN s.apps
            ELSE a \in DOMAIN s.apps /\ Values(s.apps[a]) = row[r].before

TakenBack(s, D, now) ==
    UndoTables(s) /\ UndoApps(s, now) /\ UndoLeaves(s, D) /\ UndoRestores(s, D)

\* One row more is taken back, or is left: what of an undo step the proof needs.
Back(s, t, a0, r, now) ==
    \/ t = s /\ a0 \notin DOMAIN s.apps
    \/ t = s /\ a0 \in DOMAIN s.apps /\ s.apps[a0].version # row[r].wrote
    \/ /\ a0 \in DOMAIN s.apps /\ s.apps[a0].version = row[r].wrote
       /\ row[r].outcome = "created"
       /\ DOMAIN t.apps = DOMAIN s.apps \ {a0}
       /\ \A a \in DOMAIN t.apps : t.apps[a] = s.apps[a] /\ t.notes[a] = s.notes[a]
    \/ /\ a0 \in DOMAIN s.apps /\ s.apps[a0].version = row[r].wrote
       /\ row[r].outcome = "updated"
       /\ DOMAIN t.apps = DOMAIN s.apps /\ t.notes = s.notes
       /\ \A a \in DOMAIN s.apps : a # a0 => t.apps[a] = s.apps[a]
       /\ Values(t.apps[a0]) = row[r].before /\ t.apps[a0].version = now

\* A row that is taken back.
LEMMA TakeBackRow ==
    ASSUME ImportInv, NEW now \in Nat, NEW s, UndoTables(s), NEW r \in Rows,
           row[r].outcome \in Landed, NEW t, t = TakeBack(s, r, now)
    PROVE  UndoTables(t) /\ Back(s, t, row[r].app, r, now)
<1> DEFINE a0 == row[r].app
<1>1. CASE a0 \notin DOMAIN s.apps \/ Moved(s, r)
  BY <1>1 DEF TakeBack, Back, Moved
<1>2. CASE a0 \in DOMAIN s.apps /\ ~Moved(s, r) /\ row[r].outcome = "created"
  <2>1. t = [s EXCEPT !.apps = [b \in DOMAIN s.apps \ {a0} |-> s.apps[b]], !.notes[a0] = 0]
    BY <1>2 DEF TakeBack
  <2>2. /\ t.apps = [b \in DOMAIN s.apps \ {a0} |-> s.apps[b]]
        /\ t.notes = [s.notes EXCEPT ![a0] = 0]
        /\ t = [apps |-> t.apps, notes |-> t.notes]
    BY <2>1 DEF UndoTables
  <2>3. t.notes \in [Ids -> Nat]
    <3>1. PICK k \in Nat : k = 0
      OBVIOUS
    <3>2. s.notes \in [Ids -> Nat] /\ t.notes = [s.notes EXCEPT ![a0] = k]
      BY <2>2, <3>1 DEF UndoTables
    <3> QED BY <3>2
  <2>4. UndoTables(t)
    BY <2>2, <2>3 DEF UndoTables
  <2>5. \A a \in DOMAIN t.apps : t.apps[a] = s.apps[a] /\ t.notes[a] = s.notes[a]
    <3>1. DOMAIN t.apps \subseteq Ids
      BY <2>4 DEF UndoTables, ImportInv, Kept, Tables
    <3> QED BY <2>2, <3>1 DEF UndoTables
  <2> QED BY <1>2, <2>2, <2>4, <2>5 DEF Back, Moved
<1>3. CASE a0 \in DOMAIN s.apps /\ ~Moved(s, r) /\ row[r].outcome = "updated"
  <2> DEFINE before == row[r].before
             old == s.apps[a0]
             new == [old EXCEPT !.status = before.status, !.actor = before.actor,
                                !.next = before.next, !.version = now]
  <2>1. t = [s EXCEPT !.apps[a0] = new]
    BY <1>3 DEF TakeBack
  <2>2. old \in AppRows /\ before \in Contents
    BY <1>3 DEF UndoTables, ImportInv, Kept, Lands
  <2>3. new \in AppRows /\ new.version = now /\ new.status = before.status
        /\ new.actor = before.actor /\ new.next = before.next
    BY <2>2 DEF AppRows, Contents
  <2> HIDE DEF new
  <2>4. Values(new) = before
    BY <2>2, <2>3 DEF Values, Contents
  <2>5. /\ t.apps = [s.apps EXCEPT ![a0] = new] /\ t.notes = s.notes
        /\ t = [apps |-> t.apps, notes |-> t.notes]
    BY <2>1 DEF UndoTables
  <2>6. UndoTables(t)
    BY <2>3, <2>5 DEF UndoTables
  <2>7. /\ DOMAIN t.apps = DOMAIN s.apps /\ t.apps[a0] = new
        /\ \A a \in DOMAIN s.apps : a # a0 => t.apps[a] = s.apps[a]
    BY <1>3, <2>5 DEF UndoTables
  <2> QED BY <1>3, <2>3, <2>4, <2>5, <2>6, <2>7 DEF Back, Moved
<1> QED BY <1>1, <1>2, <1>3 DEF Landed

\* An undo takes back one row more.
LEMMA UndoSteps ==
    ASSUME ImportInv, batch.state # "rolled_back", NEW now, now = clock + 1, NEW s,
           NEW D \in SUBSET Rows, TakenBack(s, D, now),
           NEW r \in Rows, r \notin D, row[r].outcome \in Landed,
           NEW t, t = TakeBack(s, r, now)
    PROVE  TakenBack(t, D \union {r}, now)
<1> DEFINE a0 == row[r].app
           E == D \union {r}
<1>0. /\ UndoTables(s) /\ UndoApps(s, now) /\ UndoLeaves(s, D) /\ UndoRestores(s, D)
      /\ now \in Nat
  BY DEF TakenBack, ImportInv, Kept
<1>1. UndoTables(t) /\ Back(s, t, a0, r, now)
  BY <1>0, TakeBackRow
<1>2. /\ a0 \in DOMAIN apps /\ r \in Upon(row, a0)
      /\ apps[a0].version \in Nat /\ row[r].wrote \in Nat
      /\ a0 \in edited => row[r].wrote # apps[a0].version
      /\ Upon(row, a0) = {r} /\ a0 \notin edited => row[r].wrote = apps[a0].version
      /\ \A a : r \in Upon(row, a) => a = a0
  <2>1. Tracks(r)
    BY DEF ImportInv, Undoable
  <2>2. a0 \in DOMAIN apps /\ apps[a0].version \in Nat /\ row[r].wrote \in Nat
    BY <2>1 DEF Tracks, ImportInv, Kept, Tables, AppRows, RowStates
  <2> QED BY <2>1, <2>2 DEF Tracks, Upon
<1>3. /\ DOMAIN t.apps \subseteq DOMAIN s.apps
      /\ \A a \in DOMAIN s.apps : a # a0 => a \in DOMAIN t.apps /\ t.apps[a] = s.apps[a]
      /\ a0 \in edited => t = s
      /\ \A a \in DOMAIN t.apps : /\ t.notes[a] = s.notes[a]
                                  /\ t.apps[a].version = now \/ t.apps[a] = s.apps[a]
  <2>1. a0 \in edited => s.apps[a0] = apps[a0]
    BY <1>0, <1>2 DEF UndoLeaves
  <2>2. CASE t = s
    BY <2>2
  <2>3. CASE /\ a0 \in DOMAIN s.apps /\ s.apps[a0].version = row[r].wrote
             /\ DOMAIN t.apps = DOMAIN s.apps \ {a0}
             /\ \A a \in DOMAIN t.apps : t.apps[a] = s.apps[a] /\ t.notes[a] = s.notes[a]
    BY <1>2, <2>1, <2>3
  <2>4. CASE /\ a0 \in DOMAIN s.apps /\ s.apps[a0].version = row[r].wrote
             /\ DOMAIN t.apps = DOMAIN s.apps /\ t.notes = s.notes
             /\ \A a \in DOMAIN s.apps : a # a0 => t.apps[a] = s.apps[a]
             /\ t.apps[a0].version = now
    BY <1>2, <2>1, <2>4
  <2> QED BY <1>1, <2>2, <2>3, <2>4 DEF Back
<1>4. UndoApps(t, now)
  <2> SUFFICES ASSUME NEW a \in DOMAIN t.apps
               PROVE  t.apps[a].version <= now /\ t.notes[a] = notes[a]
    BY DEF UndoApps
  <2>1. s.apps[a].version <= now /\ s.notes[a] = notes[a] /\ a \in DOMAIN s.apps
    BY <1>0, <1>3 DEF UndoApps
  <2>2. t.notes[a] = s.notes[a] /\ (t.apps[a].version = now \/ t.apps[a] = s.apps[a])
    BY <1>3
  <2> QED BY <1>0, <2>1, <2>2
<1>5. UndoLeaves(t, E)
  <2> SUFFICES ASSUME NEW a \in DOMAIN apps, Upon(row, a) \intersect E = {} \/ a \in edited
               PROVE  a \in DOMAIN t.apps /\ t.apps[a] = apps[a]
    BY DEF UndoLeaves
  <2>1. a \in DOMAIN s.apps /\ s.apps[a] = apps[a]
    <3>1. Upon(row, a) \intersect E = {} => Upon(row, a) \intersect D = {}
      OBVIOUS
    <3> QED BY <1>0, <3>1 DEF UndoLeaves
  <2>2. CASE a = a0
    <3>1. a0 \in edited
      BY <1>2, <2>2
    <3> QED BY <1>3, <2>1, <3>1
  <2>3. CASE a # a0
    BY <1>3, <2>1, <2>3
  <2> QED BY <2>2, <2>3
<1>6. UndoRestores(t, E)
  <2> SUFFICES ASSUME NEW a \in DOMAIN apps, NEW q \in E, Upon(row, a) = {q}, a \notin edited
               PROVE  IF row[q].outcome = "created" THEN a \notin DOMAIN t.apps
                      ELSE a \in DOMAIN t.apps /\ Values(t.apps[a]) = row[q].before
    BY DEF UndoRestores
  <2>1. CASE q \in D
    <3>1. a # a0
      BY <1>2, <2>1
    <3>2. IF row[q].outcome = "created" THEN a \notin DOMAIN s.apps
          ELSE a \in DOMAIN s.apps /\ Values(s.apps[a]) = row[q].before
      BY <1>0, <2>1 DEF UndoRestores
    <3> QED BY <1>3, <3>1, <3>2
  <2>2. CASE q = r
    <3>1. a = a0 /\ Upon(row, a0) \intersect D = {}
      BY <1>2, <2>2
    <3>2. a0 \in DOMAIN s.apps /\ s.apps[a0] = apps[a0] /\ row[r].wrote = apps[a0].version
      BY <1>0, <1>2, <2>2, <3>1 DEF UndoLeaves
    <3>3. \/ row[r].outcome = "created" /\ DOMAIN t.apps = DOMAIN s.apps \ {a0}
          \/ row[r].outcome = "updated" /\ DOMAIN t.apps = DOMAIN s.apps
             /\ Values(t.apps[a0]) = row[r].before
      BY <1>1, <3>2 DEF Back
    <3> QED BY <2>2, <3>1, <3>2, <3>3
  <2> QED BY <2>1, <2>2
<1> QED BY <1>1, <1>4, <1>5, <1>6 DEF TakenBack

\* An undo takes back all that landed.
LEMMA UndoTakesBack ==
    ASSUME ImportInv, batch.state # "rolled_back", NEW now, now = clock + 1,
           NEW P \in SUBSET Rows, \A r \in P : row[r].outcome \in Landed,
           NEW done, done = TakingBack(P, now)[Len(file)]
    PROVE  TakenBack(done, P, now)
<1>0. PICK N \in Nat : N = Len(file) /\ Rows = 1..N
  BY DEF ImportInv, Kept, Rows
<1> DEFINE f == TakingBack(P, now)
           start == [apps |-> apps, notes |-> notes]
           Good == {n \in 0..N : TakenBack(f[n], Through(P, n), now)}
<1>1. /\ f[0] = start
      /\ \A r \in 1..N : f[r] = IF r \in P THEN TakeBack(f[r - 1], r, now) ELSE f[r - 1]
  BY <1>0, TakingBackRows
<1>2. TakenBack(start, {}, now)
  <2>1. start.apps = apps /\ start.notes = notes /\ start = [apps |-> apps, notes |-> notes]
    OBVIOUS
  <2>2. /\ apps \in [DOMAIN apps -> AppRows] /\ notes \in [Ids -> Nat] /\ clock \in Nat
        /\ \A a \in DOMAIN apps : apps[a].version <= clock /\ apps[a].version \in Nat
    BY DEF ImportInv, Kept, Tables, AppRows
  <2> HIDE DEF start
  <2>3. UndoTables(start)
    BY <2>1, <2>2 DEF UndoTables
  <2>4. UndoApps(start, now)
    <3> SUFFICES ASSUME NEW a \in DOMAIN apps  PROVE apps[a].version <= now
      BY <2>1 DEF UndoApps
    <3>1. apps[a].version <= clock /\ apps[a].version \in Nat /\ clock \in Nat
      BY <2>2
    <3> QED BY <3>1
  <2> QED BY <2>1, <2>3, <2>4 DEF UndoLeaves, UndoRestores, TakenBack
<1> HIDE DEF f, start
<1>3. P \in SUBSET (1..N) /\ \A n : Through(P, n) \in SUBSET Rows
  BY <1>0 DEF Through
<1>4. /\ Through(P, 0) = {} /\ Through(P, N) = P
      /\ \A n \in 1..N :
            /\ n \notin Through(P, n - 1)
            /\ n \in P => Through(P, n) = Through(P, n - 1) \union {n}
            /\ n \notin P => Through(P, n) = Through(P, n - 1)
  <2>1. /\ Through(P, 0) = {} /\ Through(P, N) = P
        /\ \A n \in 1..N :
              /\ n \notin Through(P, n - 1)
              /\ Through(P, n) = IF n \in P THEN Through(P, n - 1) \union {n}
                                 ELSE Through(P, n - 1)
    <3>1. P \in SUBSET (1..N) /\ N \in Nat
      BY <1>0, <1>3
    <3> QED BY <3>1, ThroughRows
  <2> QED BY <2>1
<1>5. 0 \in Good
  <2>1. 0 \in 0..N
    BY <1>0
  <2> QED BY <2>1, <1>1, <1>2, <1>4
<1>6. ASSUME NEW n \in 1..N, n - 1 \in Good  PROVE n \in Good
  <2>0. n \in 0..N
    OBVIOUS
  <2>1. CASE n \in P
    <3>1. f[n] = TakeBack(f[n - 1], n, now) /\ n \in Rows /\ row[n].outcome \in Landed
      BY <1>0, <1>1, <2>1
    <3>2. Through(P, n) = Through(P, n - 1) \union {n} /\ n \notin Through(P, n - 1)
      BY <2>1, <1>4
    <3>3. TakenBack(f[n - 1], Through(P, n - 1), now) /\ Through(P, n - 1) \in SUBSET Rows
      BY <1>6, <1>3
    <3>4. TakenBack(f[n], Through(P, n - 1) \union {n}, now)
      BY <3>1, <3>2, <3>3, UndoSteps
    <3> QED BY <2>0, <3>2, <3>4
  <2>2. CASE n \notin P
    <3>1. f[n] = f[n - 1] /\ Through(P, n) = Through(P, n - 1)
      BY <1>1, <2>2, <1>4
    <3> QED BY <2>0, <3>1, <1>6
  <2> QED BY <2>1, <2>2
<1>7. 0..N \subseteq Good
  <2> HIDE DEF Good
  <2> QED BY <1>0, <1>5, <1>6, Climbs
<1>8. TakenBack(f[N], Through(P, N), now)
  <2>1. N \in 0..N
    BY <1>0
  <2> QED BY <2>1, <1>7
<1> QED BY <1>0, <1>4, <1>8 DEF f

LEMMA UndoKeeps ==
    ASSUME ImportInv, NEW k, Undo(k)
    PROVE  /\ ImportInv'
           /\ \E done, P : /\ P = {r \in Rows : row[r].outcome \in Landed}
                           /\ TakenBack(done, P, clock + 1) /\ apps' = done.apps
<1> DEFINE P == {r \in Rows : row[r].outcome \in Landed}
           done == TakingBack(P, clock + 1)[Len(file)]
<1>1. /\ apps' = done.apps /\ notes' = done.notes /\ clock' = clock + 1
      /\ batch' = [batch EXCEPT !.state = "rolled_back"] /\ batch.state # "rolled_back"
      /\ file' = file /\ row' = row /\ edited' = edited /\ origin' = origin
  BY DEF Undo
<1>2. TakenBack(done, P, clock + 1)
  <2>1. P \in SUBSET Rows /\ \A r \in P : row[r].outcome \in Landed
    OBVIOUS
  <2> HIDE DEF P
  <2> QED BY <1>1, <2>1, UndoTakesBack
<1> HIDE DEF done
<1>3. /\ DOMAIN apps' \subseteq DOMAIN apps /\ apps' \in [DOMAIN apps' -> AppRows]
      /\ notes' \in [Ids -> Nat]
      /\ \A a \in DOMAIN apps' : apps'[a].version <= clock + 1 /\ notes'[a] = notes[a]
  BY <1>1, <1>2 DEF TakenBack, UndoTables, UndoApps
<1>4. Rows' = Rows /\ Ids' = Ids
  BY <1>1 DEF Rows, Ids
<1>5. /\ batch'.state = "rolled_back" /\ batch' \in [state : States, expired : BOOLEAN]
      /\ clock' \in Nat /\ Upload <= clock' /\ clock \in Nat
  BY <1>1, UploadTime DEF ImportInv, Kept, States
<1>6. Kept'
  <2>1. Tables([apps |-> apps, row |-> row, notes |-> notes])'
    BY <1>1, <1>3, <1>4 DEF ImportInv, Kept, Tables
  <2>2. \A r \in Rows' : Lands(row, r)'
    BY <1>1, <1>4 DEF ImportInv, Kept, Lands, Id
  <2>3. Unborn(row, apps)'
    BY <1>1, <1>3, <1>4 DEF ImportInv, Kept, Unborn, Id
  <2>4. LandedOnce'
    <3>1. \A a \in DOMAIN apps :
             notes[a] = Cardinality({r \in Rows : row[r].outcome \in Landed /\ row[r].app = a})
      BY DEF ImportInv, Kept, LandedOnce
    <3>2. \A a \in DOMAIN apps' : a \in DOMAIN apps /\ notes'[a] = notes[a]
      BY <1>3
    <3> QED BY <1>1, <1>4, <3>1, <3>2 DEF LandedOnce
  <2> QED BY <1>1, <1>3, <1>5, <2>1, <2>2, <2>3, <2>4 DEF ImportInv, Kept
<1>7. Untouched' /\ Undoable'
  BY <1>5 DEF Untouched, Undoable, Early
<1> QED BY <1>1, <1>2, <1>6, <1>7 DEF ImportInv

-------------------------------------------------------------------------------
(* All steps.                                                                  *)

LEMMA ImportInvInit == ImportInit => ImportInv
<1> SUFFICES ASSUME ImportInit  PROVE ImportInv
  OBVIOUS
<1>1. /\ file \in Files /\ batch = [state |-> "uploaded", expired |-> FALSE]
      /\ row = [r \in Rows |-> FreshRow] /\ apps = [a \in 1..Len(Existing) |-> Existing[a]]
      /\ notes = [a \in Ids |-> 0] /\ clock = Upload /\ edited = {}
      /\ origin = [a \in {} |-> <<>>]
  BY DEF ImportInit
<1>2. /\ file \in Seq(FileRows) /\ Existing \in Seq(AppRows) /\ Upload \in Nat
      /\ Len(Existing) \in Nat /\ DOMAIN Existing = 1..Len(Existing)
  <2>1. file \in Seq(FileRows) /\ Existing \in Seq(AppRows)
    BY <1>1, ImportAssumption
  <2>2. Len(Existing) \in Nat /\ DOMAIN Existing = 1..Len(Existing)
    BY <2>1
  <2> QED BY <2>1, <2>2, ImportAssumption
<1>3. FreshRow \in RowStates /\ FreshRow.outcome = "pending" /\ FreshRow.kind \notin Matched
  BY DEF FreshRow, RowStates, Matched
<1>4. row \in [Rows -> RowStates]
      /\ \A r \in Rows : row[r].outcome = "pending" /\ row[r].kind \notin Matched
  <2> HIDE DEF FreshRow
  <2> QED BY <1>1, <1>3
<1>5. /\ DOMAIN apps = 1..Len(Existing) /\ apps \in [DOMAIN apps -> AppRows]
      /\ \A a \in DOMAIN apps : apps[a].version <= clock
  <2>1. \A a \in 1..Len(Existing) : Existing[a] \in AppRows /\ Existing[a].version <= Upload
    <3>1. \A a \in DOMAIN Existing : Existing[a].version <= Upload
      BY ImportAssumption
    <3>2. \A a \in 1..Len(Existing) : Existing[a] \in AppRows
      BY <1>2
    <3> QED BY <1>2, <3>1, <3>2
  <2> QED BY <1>1, <2>1
<1>6. \A a : Upon(row, a) = {}
  BY <1>4 DEF Upon, Landed
<1>7. Kept
  <2>1. 1..Len(Existing) \subseteq Ids
    <3>1. Len(file) \in Nat
      BY <1>2
    <3> QED BY <1>2, <3>1 DEF Ids
  <2>2. notes \in [Ids -> Nat]
    BY <1>1
  <2>3. Tables([apps |-> apps, row |-> row, notes |-> notes])
    BY <1>4, <1>5, <2>1, <2>2 DEF Tables
  <2>4. \A r \in Rows : Lands(row, r)
    BY <1>4 DEF Lands
  <2>5. Unborn(row, apps)
    <3>1. \A r \in Rows : Id(r) \notin DOMAIN apps
      <4> TAKE r \in Rows
      <4>1. Id(r) \in Nat /\ Id(r) > Len(Existing)
        BY <1>2, RowIds
      <4> QED BY <4>1, <1>2, <1>5
    <3> QED BY <3>1 DEF Unborn
  <2>6. LandedOnce
    <3>1. \A a \in DOMAIN apps : notes[a] = 0 /\ Cardinality(Upon(row, a)) = 0
      BY <1>1, <1>5, <1>6, <2>1, FS_EmptySet
    <3> QED BY <3>1 DEF LandedOnce, Upon
  <2>7. batch \in [state : States, expired : BOOLEAN] /\ clock \in Nat /\ Upload <= clock
    BY <1>1, <1>2 DEF States
  <2> QED BY <1>1, <1>2, <1>5, <2>3, <2>4, <2>5, <2>6, <2>7 DEF Kept
<1>8. Untouched
  BY <1>4, <1>5 DEF Untouched
<1>9. Undoable
  <2>1. Recalls
    BY <1>1, <1>4 DEF Recalls
  <2> QED BY <1>4, <1>5, <2>1 DEF Undoable, Landed
<1> QED BY <1>7, <1>8, <1>9 DEF ImportInv

LEMMA EditKeeps ==
    ASSUME ImportInv, NEW a \in DOMAIN apps,
           Edit(a, "status", "Offer") \/ Edit(a, "next", "call")
    PROVE  ImportInv' /\ row' = row /\ batch' = batch /\ file' = file
<1> DEFINE old == apps[a]
           Becomes(new) == /\ new \in AppRows /\ new.version = clock + 1
                           /\ apps' = [apps EXCEPT ![a] = new]
<1>2. /\ old \in AppRows /\ a \in Ids /\ clock \in Nat
      /\ "user" \in Entries /\ "Offer" \in Entries /\ "call" \in Entries
  BY ImportAssumption DEF ImportInv, Kept, Tables
<1>3. PICK new : Becomes(new)
  <2>1. CASE Edit(a, "status", "Offer")
    <3>1. PICK value \in Entries : value = "Offer"
      BY <1>2
    <3>2. PICK actor \in Entries : actor = IF "status" = "status" THEN "user" ELSE old.actor
      BY <1>2 DEF AppRows
    <3> DEFINE new == [old EXCEPT !.status = value, !.version = clock + 1, !.actor = actor]
    <3>5. value \in Entries /\ actor \in Entries /\ old \in AppRows /\ clock + 1 \in Nat
      BY <1>2, <3>1, <3>2
    <3>3. new \in AppRows /\ new.version = clock + 1
      BY <3>5 DEF AppRows
    <3>4. apps' = [apps EXCEPT ![a] = new]
      BY <2>1, <3>1, <3>2 DEF Edit
    <3> HIDE DEF new
    <3> QED BY <3>3, <3>4
  <2>2. CASE Edit(a, "next", "call")
    <3>1. PICK value \in Entries : value = "call"
      BY <1>2
    <3>2. PICK actor \in Entries : actor = IF "next" = "status" THEN "user" ELSE old.actor
      BY <1>2 DEF AppRows
    <3> DEFINE new == [old EXCEPT !.next = value, !.version = clock + 1, !.actor = actor]
    <3>5. value \in Entries /\ actor \in Entries /\ old \in AppRows /\ clock + 1 \in Nat
      BY <1>2, <3>1, <3>2
    <3>3. new \in AppRows /\ new.version = clock + 1
      BY <3>5 DEF AppRows
    <3>4. apps' = [apps EXCEPT ![a] = new]
      BY <2>2, <3>1, <3>2, <3>5 DEF Edit, AppRows
    <3> HIDE DEF new
    <3> QED BY <3>3, <3>4
  <2> QED BY <2>1, <2>2
<1>1. /\ file' = file /\ row' = row /\ batch' = batch /\ notes' = notes /\ origin' = origin
      /\ apps' = [apps EXCEPT ![a] = new] /\ clock' = clock + 1 /\ edited' = edited \union {a}
  BY <1>3 DEF Edit, fileVars
<1>4. /\ DOMAIN apps' = DOMAIN apps /\ apps' \in [DOMAIN apps' -> AppRows]
      /\ apps'[a].version = clock + 1
      /\ \A b \in DOMAIN apps : b # a => apps'[b] = apps[b]
  BY <1>1, <1>3 DEF ImportInv, Kept, Tables
<1>5. Rows' = Rows /\ Ids' = Ids
  BY <1>1 DEF Rows, Ids
<1>6. clock \in Nat /\ \A b \in DOMAIN apps : apps[b].version \in Nat /\ apps[b].version <= clock
  BY DEF ImportInv, Kept, Tables, AppRows
<1>7. Kept'
  <2>1. Tables([apps |-> apps, row |-> row, notes |-> notes])'
    BY <1>1, <1>4, <1>5 DEF ImportInv, Kept, Tables
  <2>2. (\A r \in Rows' : Lands(row, r)') /\ Unborn(row, apps)' /\ LandedOnce'
    <3>1. \A r \in Rows' : Lands(row, r)'
      BY <1>1, <1>5 DEF ImportInv, Kept, Lands, Id
    <3>2. Unborn(row, apps)'
      BY <1>1, <1>4, <1>5 DEF ImportInv, Kept, Unborn, Id
    <3>3. LandedOnce'
      <4>1. \A b \in DOMAIN apps :
               notes[b] = Cardinality({r \in Rows : row[r].outcome \in Landed /\ row[r].app = b})
        BY DEF ImportInv, Kept, LandedOnce
      <4>2. notes' = notes /\ row' = row /\ Rows' = Rows /\ DOMAIN apps' = DOMAIN apps
        BY <1>1, <1>4, <1>5
      <4> QED BY <4>1, <4>2 DEF LandedOnce
    <3> QED BY <3>1, <3>2, <3>3
  <2>3. \A b \in DOMAIN apps' : apps'[b].version <= clock'
    <3> TAKE b \in DOMAIN apps'
    <3>1. apps'[b].version = clock + 1 \/ apps'[b] = apps[b]
      BY <1>4
    <3>2. b \in DOMAIN apps
      BY <1>4
    <3> QED BY <1>1, <1>6, <3>1, <3>2
  <2>4. clock' \in Nat /\ Upload <= clock'
    BY <1>1, <1>6, UploadTime DEF ImportInv, Kept
  <2> QED BY <1>1, <2>1, <2>2, <2>3, <2>4 DEF ImportInv, Kept
<1>8. Untouched'
  BY <1>1, <1>4, <1>5 DEF ImportInv, Untouched
<1>9. Undoable'
  <2> SUFFICES ASSUME batch.state # "rolled_back"
               PROVE  /\ 1..Len(Existing) \subseteq DOMAIN apps'
                      /\ \A r \in Rows' : row'[r].outcome \in Landed => Tracks(r)'
                      /\ Recalls'
    BY <1>1 DEF Undoable
  <2>1. \A b : Upon(row, b)' = Upon(row, b)
    BY <1>1, <1>5 DEF Upon
  <2>2. ASSUME NEW r \in Rows, row[r].outcome \in Landed  PROVE Tracks(r)'
    <3> DEFINE b == row[r].app
    <3>1. Tracks(r) /\ b \in DOMAIN apps /\ row[r].wrote <= apps[b].version
      BY <2>2 DEF ImportInv, Undoable, Tracks
    <3>2. row[r].wrote \in Nat /\ apps[b].version \in Nat /\ apps[b].version <= clock
      BY <1>6, <3>1 DEF ImportInv, Kept, Tables, RowStates
    <3>3. CASE b = a
      <4>1. /\ apps'[b].version = clock + 1 /\ b \in DOMAIN apps' /\ b \in edited'
            /\ row[r].wrote < clock + 1
        BY <1>1, <1>4, <1>6, <3>1, <3>2, <3>3
      <4> QED BY <1>1, <1>6, <3>2, <4>1 DEF Tracks
    <3>4. CASE b # a
      <4>1. apps'[b] = apps[b] /\ b \in DOMAIN apps' /\ (b \in edited' <=> b \in edited)
        BY <1>1, <1>4, <3>1, <3>4
      <4> QED BY <1>1, <2>1, <3>1, <4>1 DEF Tracks
    <3> QED BY <3>3, <3>4
  <2>3. Recalls'
    BY <1>1, <1>5, <2>1 DEF ImportInv, Undoable, Recalls
  <2> QED BY <1>1, <1>4, <1>5, <2>2, <2>3 DEF ImportInv, Undoable
<1> QED BY <1>1, <1>7, <1>8, <1>9 DEF ImportInv

\* No row lands, and nothing is undone.
Quiet ==
    /\ \A r \in Rows : row'[r].outcome = "updated" => row[r].outcome = "updated"
    /\ batch'.state = "rolled_back" => batch.state = "rolled_back"

LEMMA WizardQuiet ==
    ASSUME ImportInv, Wizard
    PROVE  ImportInv' /\ Quiet
<1>0. /\ batch \in [state : States, expired : BOOLEAN] /\ row \in [Rows -> RowStates]
  BY DEF ImportInv, Kept, Tables
<1>1. CASE SetMapping
  <2>1. row' = [r \in Rows |-> [FreshRow EXCEPT !.included = row[r].included]]
        /\ batch'.state = "mapped"
    BY <1>0, <1>1 DEF SetMapping
  <2>2. \A r \in Rows : row'[r].outcome = "pending"
    BY <2>1 DEF FreshRow
  <2> QED BY <1>1, <2>1, <2>2, SetMappingKeeps DEF Quiet
<1>2. CASE Preview
  <2>1. batch'.state = "previewed" /\ Untouched /\ batch.state \in Early
    BY <1>0, <1>2 DEF Preview, ImportInv, Early
  <2>2. \A r \in Rows : row'[r].outcome = row[r].outcome
    <3> TAKE r \in Rows
    <3>1. PICK match : match = Match(r)
      OBVIOUS
    <3>2. PICK conflict : conflict = Conflict(r, match)
      OBVIOUS
    <3>3. row'[r] = [row[r] EXCEPT !.kind = match.kind, !.app = match.app,
                                   !.conflict = conflict,
                                   !.state = IF conflict = {} THEN "none" ELSE "unresolved"]
      BY <1>2, <3>1, <3>2 DEF Preview
    <3> QED BY <1>0, <3>3 DEF RowStates
  <2> QED BY <1>2, <2>1, <2>2, PreviewKeeps DEF Quiet
<1>3. CASE Discard \/ Expire
  <2>1. /\ UNCHANGED importCore /\ batch' \in [state : States, expired : BOOLEAN]
        /\ batch'.state = batch.state \/ (batch'.state \notin Early /\ batch.state # "rolled_back")
        /\ row' = row /\ (batch'.state = "rolled_back" => batch.state = "rolled_back")
    BY <1>0, <1>3 DEF Discard, Expire, importCore, States, Early
  <2> QED BY <2>1, CoreStays DEF Quiet
<1>4. ASSUME NEW r \in Rows,
             \/ \E theirs, mine \in SUBSET Columns : ResolveRow(r, theirs, mine)
             \/ \E included \in BOOLEAN : SetIncluded(r, included)
      PROVE  ImportInv' /\ Quiet
  <2>1. \A q \in Rows : row'[q].outcome = row[q].outcome
    <3>0. row[r] \in RowStates
      BY <1>0
    <3>1. CASE \E theirs, mine \in SUBSET Columns : ResolveRow(r, theirs, mine)
      <4>1. PICK theirs, mine :
               row' = [row EXCEPT ![r].state = "resolved", ![r].theirs = theirs, ![r].mine = mine]
        BY <3>1 DEF ResolveRow
      <4> DEFINE w == [row[r] EXCEPT !.state = "resolved", !.theirs = theirs, !.mine = mine]
      <4>2. w.outcome = row[r].outcome
        BY <3>0 DEF RowStates
      <4>3. row' = [row EXCEPT ![r] = w]
        BY <1>0, <4>1
      <4> HIDE DEF w
      <4> QED BY <1>0, <4>2, <4>3
    <3>2. CASE \E included \in BOOLEAN : SetIncluded(r, included)
      <4>1. PICK included : row' = [row EXCEPT ![r].included = included]
        BY <3>2 DEF SetIncluded
      <4> QED BY <1>0, <4>1 DEF RowStates
    <3> QED BY <1>4, <3>1, <3>2
  <2>2. batch' = batch
    BY <1>4 DEF ResolveRow, SetIncluded
  <2> QED BY <1>4, <2>1, <2>2, RowEditKeeps DEF Quiet
<1> QED BY <1>1, <1>2, <1>3, <1>4 DEF Wizard

\* Every step keeps the invariant; only a chunk lands rows and only an undo undoes.
LEMMA ImportSteps ==
    ASSUME ImportInv, [ImportNext]_importVars
    PROVE  /\ ImportInv'
           /\ Quiet \/ (\E k : CommitChunk(k)) \/ (\E k : Undo(k))
<1>0. batch \in [state : States, expired : BOOLEAN]
  BY DEF ImportInv, Kept
<1>1. ASSUME UNCHANGED importCore, batch' = batch  PROVE ImportInv' /\ Quiet
  BY <1>0, <1>1, CoreStays DEF Quiet, importCore
<1>2. CASE Wizard
  BY <1>2, WizardQuiet
<1>3. CASE TabStep
  <2>1. UNCHANGED importCore /\ batch' = batch
    BY <1>3 DEF TabStep, Press, GiveUp, TryAgain, CloseTab, fileVars, importCore
  <2> QED BY <1>1, <2>1
<1>4. CASE Serves
  <2>1. PICK k : Replay(k) \/ Refuse(k) \/ Execute(k)
    BY <1>4 DEF Serves, Serve
  <2>2. CASE Replay(k) \/ Refuse(k)
    <3>1. UNCHANGED importCore /\ batch' = batch
      BY <2>2 DEF Replay, Refuse, fileVars, importCore
    <3> QED BY <1>1, <3>1
  <2>3. CASE CommitChunk(k)
    BY <2>3, CommitKeeps
  <2>4. CASE CommitDone(k)
    <3>1. UNCHANGED importCore /\ batch' = batch
      BY <2>4 DEF CommitDone, importCore
    <3> QED BY <1>1, <3>1
  <2>5. CASE Undo(k)
    BY <2>5, UndoKeeps
  <2> QED BY <2>1, <2>2, <2>3, <2>4, <2>5 DEF Execute
<1>5. CASE Elsewhere
  <2>1. PICK a \in DOMAIN apps : Edit(a, "status", "Offer") \/ Edit(a, "next", "call")
    BY <1>5 DEF Elsewhere
  <2>2. "Offer" \in Entries /\ "call" \in Entries /\ "status" \in Columns /\ "next" \in Columns
    BY ImportAssumption DEF Columns
  <2>3. ImportInv' /\ row' = row /\ batch' = batch
    BY <2>1, <2>2, EditKeeps
  <2> QED BY <2>3 DEF Quiet
<1>6. CASE UNCHANGED importVars
  <2>1. UNCHANGED importCore /\ batch' = batch
    BY <1>6 DEF importVars, fileVars, importCore
  <2> QED BY <1>1, <2>1
<1> QED BY <1>2, <1>3, <1>4, <1>5, <1>6 DEF ImportNext

LEMMA ImportInvAlways == ImportSpec => []ImportInv
<1>1. ImportInv /\ [ImportNext]_importVars => ImportInv'
  BY ImportSteps
<1> QED BY <1>1, ImportInvInit, PTL DEF ImportSpec

-------------------------------------------------------------------------------

\* Every row that says it landed has written its application exactly once,
\* whatever was sent twice, answered late or driven from two tabs
\* (import_commit_chunk, under the batch's lock and its key).
THEOREM RowsLandOnce == ImportSpec => []LandedOnce
<1>1. ImportInv => LandedOnce
  BY DEF ImportInv, Kept
<1> QED BY <1>1, ImportInvAlways, PTL

\* A chunk that changes a status a person set.
LEMMA PersonsStatusStep ==
    ASSUME ImportInv, [ImportNext]_importVars,
           NEW a \in DOMAIN apps \cap DOMAIN apps',
           NEW here, here = {r \in Rows : /\ row[r].outcome = "pending"
                                          /\ row'[r].outcome = "updated"
                                          /\ row'[r].app = a},
           here # {}, apps[a].actor = "user", apps'[a].status # apps[a].status
    PROVE  \E r \in here :
              /\ row[r].kind = "round-trip"
              /\ IF row[r].state = "resolved"
                 THEN /\ "status" \in row[r].conflict => "status" \in row[r].theirs
                      /\ "status" \notin row[r].mine
                 ELSE file[r].token = apps[a].version
<1>1. PICK k : CommitChunk(k)
  <2>1. ~Quiet
    BY DEF Quiet
  <2>2. \A k : Undo(k) => row' = row
    BY DEF Undo
  <2> QED BY <2>1, <2>2, ImportSteps
<1>2. PICK done, D : Committed(done, D)
  BY <1>1, ChunkCommitted
<1>3. Opening
  BY <1>1, ChunkCommitted
<1>4. PICK q \in D : /\ done.row[q].outcome = "updated" /\ done.row[q].app = a
                     /\ Allowed(row[q], q, apps[a].version)
  <2>1. ChunkLocks(done, D) /\ apps' = done.apps
    BY <1>2 DEF Committed, ChunkInv
  <2> QED BY <2>1 DEF ChunkLocks
<1>5. q \in Rows /\ row[q].outcome = "pending"
  BY <1>2 DEF Committed, Waiting
<1>6. row'[q].outcome = "updated" /\ row'[q].app = a
  BY <1>2, <1>3, <1>4, <1>5, CommittedRows
<1> QED BY <1>4, <1>5, <1>6 DEF Allowed

\* The import changes a status a person set by a round trip only: one whose
\* application has not moved since the export, or one the person was asked about,
\* and then never a status in conflict without "theirs" nor one answered "mine"
\* (the choices, the version compared again and the lock of app_import_commit_chunk).
THEOREM ImportKeepsPersonsStatus == ImportSpec => PersonsStatusKept
<1> DEFINE Step ==
        \A a \in DOMAIN apps \cap DOMAIN apps' :
          LET here == {r \in Rows : /\ row[r].outcome = "pending"
                                    /\ row'[r].outcome = "updated"
                                    /\ row'[r].app = a} IN
          here # {} /\ apps[a].actor = "user" /\ apps'[a].status # apps[a].status =>
              \E r \in here :
                  /\ row[r].kind = "round-trip"
                  /\ IF row[r].state = "resolved"
                     THEN /\ "status" \in row[r].conflict => "status" \in row[r].theirs
                          /\ "status" \notin row[r].mine
                     ELSE file[r].token = apps[a].version
<1>1. ImportInv /\ [ImportNext]_importVars => Step
  BY PersonsStatusStep
<1> QED BY <1>1, ImportInvAlways, PTL DEF ImportSpec, PersonsStatusKept

\* An undo leaves alone what the import did not write and what was edited since,
\* and puts everything else back: a created application is gone, an updated one has
\* the values it had before (import_undo, which compares the version each row left).
THEOREM UndoIsExact == ImportSpec => UndoExact
<1> DEFINE Step ==
        batch.state # "rolled_back" /\ batch'.state = "rolled_back" =>
        \A a \in DOMAIN apps :
            LET by == {r \in Rows : row[r].outcome \in Landed /\ row[r].app = a} IN
            /\ by = {} \/ a \in edited => a \in DOMAIN apps' /\ apps'[a] = apps[a]
            /\ \A r \in by :
                  by = {r} /\ a \notin edited =>
                      IF row[r].outcome = "created" THEN a \notin DOMAIN apps'
                      ELSE a \in DOMAIN apps' /\ Values(apps'[a]) = origin[a]
<1>1. ASSUME ImportInv, [ImportNext]_importVars  PROVE Step
  <2> SUFFICES ASSUME batch.state # "rolled_back", batch'.state = "rolled_back",
                      NEW a \in DOMAIN apps
               PROVE  /\ Upon(row, a) = {} \/ a \in edited =>
                            a \in DOMAIN apps' /\ apps'[a] = apps[a]
                      /\ \A r \in Upon(row, a) :
                            Upon(row, a) = {r} /\ a \notin edited =>
                                IF row[r].outcome = "created" THEN a \notin DOMAIN apps'
                                ELSE a \in DOMAIN apps' /\ Values(apps'[a]) = origin[a]
    BY DEF Upon
  <2>1. PICK k : Undo(k)
    <3>1. ~Quiet
      BY DEF Quiet
    <3>2. \A k : ~CommitChunk(k)
      BY <1>1, ChunkCommitted DEF Committed
    <3> QED BY <1>1, <3>1, <3>2, ImportSteps
  <2>2. PICK done, P : /\ P = {r \in Rows : row[r].outcome \in Landed}
                       /\ TakenBack(done, P, clock + 1) /\ apps' = done.apps
    BY <1>1, <2>1, UndoKeeps
  <2>3. UndoLeaves(done, P) /\ UndoRestores(done, P)
    BY <2>2 DEF TakenBack
  <2>4. Upon(row, a) = {} \/ a \in edited => a \in DOMAIN apps' /\ apps'[a] = apps[a]
    BY <2>2, <2>3 DEF UndoLeaves
  <2>5. ASSUME NEW r \in Upon(row, a), Upon(row, a) = {r}, a \notin edited
        PROVE  IF row[r].outcome = "created" THEN a \notin DOMAIN apps'
               ELSE a \in DOMAIN apps' /\ Values(apps'[a]) = origin[a]
    <3>1. r \in P /\ r \in Rows /\ row[r].app = a /\ row[r].outcome \in Landed
      BY <2>2, <2>5 DEF Upon
    <3>2. IF row[r].outcome = "created" THEN a \notin DOMAIN apps'
          ELSE a \in DOMAIN apps' /\ Values(apps'[a]) = row[r].before
      BY <2>2, <2>3, <2>5, <3>1 DEF UndoRestores
    <3>3. row[r].outcome = "updated" => origin[a] = row[r].before
      BY <1>1, <2>5, <3>1 DEF ImportInv, Undoable, Recalls
    <3> QED BY <3>1, <3>2, <3>3 DEF Landed
  <2> QED BY <2>4, <2>5
<1> QED BY <1>1, ImportInvAlways, PTL DEF ImportSpec, UndoExact
===============================================================================
