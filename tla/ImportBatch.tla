------------------------------ MODULE ImportBatch ------------------------------
(* One import of a spreadsheet, from its mapping to its undo: the batch and its *)
(* rows, the applications they write, the tabs that drive the commit loop and   *)
(* the undo, and the rest of the app, which goes on editing applications. Every *)
(* command locks the batch and then the applications it touches, so each is one *)
(* step; between two of them anything may happen.                               *)
EXTENDS Integers, FiniteSets, Sequences

CONSTANTS
    Files,       \* the spreadsheets: sequences of rows [hqId, token, key,
                 \* strength, name, status, next]
    Existing,    \* the applications before the import, numbered from 1
    Entries,     \* what a cell of a file and a column of an application may hold
    Upload,      \* the time of the upload: exports and applications are older
    Tabs,
    Chunk,       \* rows a commit settles (COMMIT_CHUNK)
    MaxStarts,   \* bound: presses of Import, Undo and reloads of a running commit
    MaxEdits,    \* bound: edits of applications from elsewhere
    MaxCallFaults    \* bound: answers lost and calls given up on

VARIABLES
    file,
    batch,       \* [state, expired]; expired: the 24 hours of undo are over
    row,         \* import_rows: what preview, resolve and commit made of each
    apps,        \* applications: [key, name, status, actor, next, version]
    notes,       \* application_notes an import wrote, by application
    clock,       \* now() of the latest transaction
    answered,      \* command_idempotency: rows remaining, by key
    calls,       \* commands in flight, by key
    tab,         \* [doing, key, at] of each
    minted, starts, edits, callFaults,
    edited,      \* applications changed elsewhere since this import wrote them
    origin       \* the applications it wrote, as they were before

fileVars == <<file, batch, row, answered>>
tabVars == <<calls, tab, minted, starts, callFaults>>
importVars == <<fileVars, apps, notes, clock, tabVars, edits, edited, origin>>

Columns == {"status", "next"}
AppRows == [key : Entries, name : Entries, status : Entries, actor : Entries,
            next : Entries, version : Nat]

FileRows == [hqId : Nat, token : 0..Upload, key : Entries,
             strength : {"strong", "weak", "none"},
             name : Entries, status : Entries, next : Entries]

ASSUME ImportAssumption ==
    /\ {"", "system", "user", "Inbox", "Offer", "call"} \subseteq Entries
    /\ Upload \in Nat
    /\ Existing \in Seq(AppRows)
    /\ \A a \in DOMAIN Existing : Existing[a].version <= Upload
    /\ Files \subseteq Seq(FileRows)

Unset == "(unset)"      \* the marker that clears a column
Matched == {"matches-existing", "round-trip"}
Landed == {"created", "updated"}
Rows == DOMAIN file
Ids == 1..(Len(Existing) + Len(file))
Id(r) == Len(Existing) + r      \* the application a row creates is named by it
Values(app) == [status |-> app.status, actor |-> app.actor, next |-> app.next]

FreshRow == [kind |-> "new", app |-> 0, state |-> "none", conflict |-> {},
             theirs |-> {}, mine |-> {}, included |-> TRUE, outcome |-> "pending",
             before |-> <<>>, wrote |-> 0]
IdleTab == [doing |-> "nothing", key |-> 0, at |-> "idle"]

-------------------------------------------------------------------------------
(* Mapping and preview.                                                         *)

\* A new mapping invalidates every conclusion drawn from the old one.
SetMapping ==
    /\ batch.state \in {"uploaded", "mapped", "previewed"}
    /\ batch' = [batch EXCEPT !.state = "mapped"]
    /\ row' = [r \in Rows |-> [FreshRow EXCEPT !.included = row[r].included]]
    /\ UNCHANGED <<file, answered, apps, notes, clock, tabVars, edits, edited, origin>>

Lowest(set) == CHOOSE a \in set : \A b \in set : a <= b
WithName(name) == {a \in DOMAIN apps : apps[a].name = name}
Unkeyed(name) == {a \in WithName(name) : apps[a].key = ""}

\* The rules in their order: the first row of a key, the round trip, a strong
\* key, a strong row by name among the keyless; a weak key only suggests. A row
\* without a name is not looked up by it.
Match(r) ==
    LET f == file[r]
        byKey == {a \in DOMAIN apps : apps[a].key = f.key}
        is(kind, app) == [kind |-> kind, app |-> app]
    IN CASE f.key # "" /\ \E q \in 1..(r - 1) : file[q].key = f.key
                -> is("duplicate-in-file", 0)
         [] f.hqId \in DOMAIN apps -> is("round-trip", f.hqId)
         [] f.strength = "strong" /\ byKey # {} -> is("matches-existing", Lowest(byKey))
         [] f.strength = "strong" /\ byKey = {} /\ f.name # "" /\ Unkeyed(f.name) # {}
                -> is("matches-existing", Lowest(Unkeyed(f.name)))
         [] f.strength = "weak" /\ f.name # "" /\ WithName(f.name) # {}
                -> is("suggestion", Lowest(WithName(f.name)))
         [] f.strength # "strong" -> is("unkeyable", 0)
         [] OTHER -> is("new", 0)

\* The cells of a round trip that would change an application that has moved
\* since the export. The marker counts by its effect.
Differs(r, app) ==
    {c \in Columns :
        /\ file[r][c] # ""
        /\ (IF c = "next" /\ file[r][c] = Unset THEN "" ELSE file[r][c]) # app[c]}

Conflict(r, match) ==
    IF match.kind = "round-trip" /\ file[r].token \notin {0, apps[match.app].version}
    THEN Differs(r, apps[match.app])
    ELSE {}

Preview ==
    /\ batch.state \in {"mapped", "previewed"}
    /\ batch' = [batch EXCEPT !.state = "previewed"]
    /\ row' = [r \in Rows |->
          LET match == Match(r)
              conflict == Conflict(r, match) IN
          [row[r] EXCEPT !.kind = match.kind, !.app = match.app, !.conflict = conflict,
                         !.state = IF conflict = {} THEN "none" ELSE "unresolved"]]
    /\ UNCHANGED <<file, answered, apps, notes, clock, tabVars, edits, edited, origin>>

\* Any of the columns may be answered, and none has to be. An answer that says
\* what no answer means is left out: "mine" for a cell in conflict, "theirs" for
\* one that is not.
ResolveRow(r, theirs, mine) ==
    /\ batch.state \in {"mapped", "previewed"}
    /\ row[r].state = "unresolved"
    /\ theirs \subseteq row[r].conflict /\ mine \cap row[r].conflict = {}
    /\ row' = [row EXCEPT ![r].state = "resolved", ![r].theirs = theirs, ![r].mine = mine]
    /\ UNCHANGED <<file, batch, answered, apps, notes, clock, tabVars, edits, edited, origin>>

SetIncluded(r, included) ==
    /\ batch.state \in {"mapped", "previewed"}
    /\ row[r].outcome = "pending"
    /\ row' = [row EXCEPT ![r].included = included]
    /\ UNCHANGED <<file, batch, answered, apps, notes, clock, tabVars, edits, edited, origin>>

Discard ==
    /\ batch.state \in {"uploaded", "mapped", "previewed"}
    /\ batch' = [batch EXCEPT !.state = "discarded"]
    /\ UNCHANGED <<file, row, answered, apps, notes, clock, tabVars, edits, edited, origin>>

-------------------------------------------------------------------------------
(* Commit. s is the state a chunk has reached: apps, row, notes.                *)

\* The cells a resolved row does not write: the ones in conflict but for the answer
\* "theirs", and the ones answered "mine". The other cells it writes.
KeepsMine(w) == IF w.state = "resolved" THEN (w.conflict \ w.theirs) \cup w.mine ELSE {}
Cell(w, r, c) == IF c \in KeepsMine(w) THEN "" ELSE file[r][c]

RoundTrip(w, r) ==
    w.kind = "round-trip" /\ (file[r].token # 0 \/ w.state = "resolved")

\* Mutant of Stale: the version the file carries is not compared again.
StaleNever(w, r, app) == FALSE

\* The version is compared again in the transaction that writes, unless the
\* person has resolved the row.
Stale(w, r, app) ==
    RoundTrip(w, r) /\ w.state # "resolved" /\ app.version # file[r].token

NextOf(cell, old) == IF cell = "" THEN old ELSE IF cell = Unset THEN "" ELSE cell

Fails(s, r) == [s EXCEPT !.row[r].outcome = "failed"]
Skips(s, r) == [s EXCEPT !.row[r].outcome = "skipped"]

\* A status a person set changes by a round trip only.
Updates(s, r, now) ==
    LET w == s.row[r]
        old == s.apps[w.app]
        said == Cell(w, r, "status")
        writes == /\ said \notin {"", old.status}
                  /\ old.actor = "user" => RoundTrip(w, r)
        new == [old EXCEPT !.status = IF writes THEN said ELSE @,
                           !.actor = IF writes /\ RoundTrip(w, r) THEN "user" ELSE @,
                           !.next = NextOf(Cell(w, r, "next"), @),
                           !.version = now]
    IN [s EXCEPT !.apps[w.app] = new,
                 !.notes[w.app] = @ + 1,
                 !.row[r] = [w EXCEPT !.outcome = "updated", !.before = Values(old),
                                      !.wrote = now]]

\* The new application has no posting: none of the file's have been swept.
Creates(s, r, now) ==
    LET said == file[r].status
        new == [key |-> "", name |-> file[r].name,
                status |-> IF said = "" THEN "Inbox" ELSE said, actor |-> "system",
                next |-> NextOf(file[r].next, ""), version |-> now]
    IN [s EXCEPT !.apps = [a \in DOMAIN s.apps \cup {Id(r)} |->
                              IF a = Id(r) THEN new ELSE s.apps[a]],
                 !.notes[Id(r)] = 1,
                 !.row[r] = [@ EXCEPT !.outcome = "created", !.app = Id(r), !.wrote = now]]

\* A row in its turn: a duplicate is passed over, a marker where none may be and an
\* application that is gone fail it, and so does a new row without a name.
Settle(s, r, now) ==
    LET w == s.row[r]
        taken == \E a \in DOMAIN s.apps :
                    s.apps[a].key = "" /\ s.apps[a].name = file[r].name
    IN CASE w.kind = "duplicate-in-file" -> Skips(s, r)
         [] w.kind # "duplicate-in-file" /\ Unset \in {file[r].status, file[r].name}
              -> Fails(s, r)
         [] OTHER ->
              IF w.kind \in Matched
              THEN IF w.app \notin DOMAIN s.apps THEN Fails(s, r)
                   ELSE IF Stale(w, r, s.apps[w.app])
                   THEN [Fails(s, r) EXCEPT !.row[r].state = "unresolved"]
                   ELSE Updates(s, r, now)
              ELSE IF file[r].name = "" THEN Fails(s, r)
              ELSE IF taken THEN Skips(s, r) ELSE Creates(s, r, now)

\* Mutant of Waiting: a chunk takes the next rows whether or not they are settled.
TakesAll == {r \in Rows : row[r].included}

Waiting == {r \in Rows : row[r].outcome = "pending" /\ row[r].included}

Unresolved == {r \in Rows : row[r].state = "unresolved" /\ row[r].included}

FirstOf(set, n) == {r \in set : Cardinality({q \in set : q < r}) < n}

\* What a chunk has come to, row by row in the order of the file.
Settling(picked, now) ==
    LET after[r \in 0..Len(file)] ==
            IF r = 0 THEN [apps |-> apps, row |-> row, notes |-> notes]
            ELSE IF r \in picked THEN Settle(after[r - 1], r, now)
            ELSE after[r - 1]
    IN after

Answer(k, remaining) ==
    answered' = [j \in DOMAIN answered \cup {k} |-> IF j = k THEN remaining ELSE answered[j]]

\* Rows excluded are settled with the first chunk.
CommitChunk(k) ==
    /\ batch.state \in {"previewed", "committing"}
    /\ Unresolved = {}
    /\ LET now == clock + 1
           done == Settling(FirstOf(Waiting, Chunk), now)[Len(file)]
           settled == [r \in Rows |->
               IF done.row[r].outcome = "pending" /\ ~done.row[r].included
               THEN [done.row[r] EXCEPT !.outcome = "skipped"] ELSE done.row[r]]
           remaining == Cardinality({r \in Rows : settled[r].outcome = "pending"})
           wrote == {a \in DOMAIN done.apps :
                       a \notin DOMAIN apps \/ done.apps[a] # apps[a]}
       IN /\ apps' = done.apps
          /\ notes' = done.notes
          /\ row' = settled
          /\ clock' = now
          /\ batch' = [batch EXCEPT !.state = IF remaining = 0 THEN "committed"
                                                               ELSE "committing"]
          /\ Answer(k, remaining)
          /\ edited' = edited \ wrote
          /\ origin' = [a \in DOMAIN origin \cup (wrote \cap DOMAIN apps) |->
                          IF a \in DOMAIN origin THEN origin[a] ELSE Values(apps[a])]
    /\ UNCHANGED <<file, edits>>

\* A batch that is done already answers a new key with nothing left.
CommitDone(k) ==
    /\ batch.state = "committed"
    /\ Answer(k, 0)
    /\ UNCHANGED <<file, batch, row, apps, notes, clock, edits, edited, origin>>

CommitRefused ==
    \/ batch.state \notin {"previewed", "committing", "committed"}
    \/ batch.state # "committed" /\ Unresolved # {}

-------------------------------------------------------------------------------
(* Undo, in the order of the file.                                              *)

\* Mutant of Moved: the undo takes back whatever the batch wrote.
MovedNever(s, r) == FALSE

\* The application is no longer at the version this row left behind.
Moved(s, r) == s.apps[row[r].app].version # row[r].wrote

TakeBack(s, r, now) ==
    LET a == row[r].app IN
    IF a \notin DOMAIN s.apps THEN s
    ELSE IF Moved(s, r) THEN s
    ELSE IF row[r].outcome = "created"
    THEN [s EXCEPT !.apps = [b \in DOMAIN s.apps \ {a} |-> s.apps[b]], !.notes[a] = 0]
    ELSE LET before == row[r].before IN
         [s EXCEPT !.apps[a] = [@ EXCEPT !.status = before.status, !.actor = before.actor,
                                         !.next = before.next, !.version = now]]

TakingBack(written, now) ==
    LET after[r \in 0..Len(file)] ==
            IF r = 0 THEN [apps |-> apps, notes |-> notes]
            ELSE IF r \in written THEN TakeBack(after[r - 1], r, now)
            ELSE after[r - 1]
    IN after

Undo(k) ==
    /\ batch.state \in {"committing", "committed"}
    /\ ~batch.expired
    /\ LET now == clock + 1
           written == {r \in Rows : row[r].outcome \in Landed}
           done == TakingBack(written, now)[Len(file)]
       IN /\ apps' = done.apps
          /\ notes' = done.notes
          /\ clock' = now
    /\ batch' = [batch EXCEPT !.state = "rolled_back"]
    /\ Answer(k, 0)
    /\ UNCHANGED <<file, row, edits, edited, origin>>

UndoRefused == batch.state \notin {"committing", "committed"} \/ batch.expired

Expire ==
    /\ batch.state \in {"committing", "committed"}
    /\ ~batch.expired
    /\ batch' = [batch EXCEPT !.expired = TRUE]
    /\ UNCHANGED <<file, row, answered, apps, notes, clock, tabVars, edits, edited, origin>>

-------------------------------------------------------------------------------
(* The tabs: runCommit and runUndo, one bounded call at a time.                 *)

Ask(t, doing, key) ==
    /\ tab' = [tab EXCEPT ![t] = [doing |-> doing, key |-> key, at |-> "asked"]]
    /\ calls' = [k \in DOMAIN calls \cup {key} |->
          IF k # key THEN calls[k]
          ELSE [doing |-> doing,
                running |-> 1 + (IF k \in DOMAIN calls THEN calls[k].running ELSE 0)]]

\* Import, Undo, or the commit screen opened on a batch that is half-way: a new
\* gesture, so a new key. The screen may be out of date.
Press(t, doing) ==
    /\ tab[t].at = "idle"
    /\ starts < MaxStarts
    /\ IF doing = "commit" THEN batch.state # "uploaded"
                           ELSE batch.state \in {"committing", "committed", "rolled_back"}
    /\ starts' = starts + 1
    /\ minted' = minted + 1
    /\ Ask(t, doing, minted + 1)
    /\ UNCHANGED <<fileVars, apps, notes, clock, callFaults, edits, edited, origin>>

\* The server is done with a call. Its tab, if it still waits for this key, goes
\* on to the next chunk, stops, or is finished.
Hears(k, ok, remaining) ==
    LET waiting == {t \in Tabs : tab[t].at = "asked" /\ tab[t].key = k}
        landed == [calls EXCEPT ![k].running = @ - 1]
        stays == UNCHANGED <<tab, minted>> /\ calls' = landed
        become(at) == /\ tab' = [t \in Tabs |-> IF t \notin waiting THEN tab[t]
                                    ELSE IF at = "idle" THEN IdleTab
                                    ELSE [tab[t] EXCEPT !.at = at]]
                      /\ calls' = landed
                      /\ UNCHANGED minted
    IN \/ /\ waiting = {}
          /\ stays
          /\ UNCHANGED callFaults
       \/ /\ waiting # {}
          /\ UNCHANGED callFaults
          /\ IF ~ok THEN become("stopped")
             ELSE IF remaining = 0 THEN become("idle")
             ELSE \E t \in waiting :
                    /\ minted' = minted + 1
                    /\ tab' = [tab EXCEPT ![t].key = minted + 1]
                    /\ calls' = [j \in DOMAIN calls \cup {minted + 1} |->
                          IF j \in DOMAIN calls THEN landed[j]
                          ELSE [doing |-> "commit", running |-> 1]]
       \/ /\ waiting # {}
          /\ callFaults < MaxCallFaults
          /\ callFaults' = callFaults + 1
          /\ stays

\* A key on record is answered from the record.
Replay(k) ==
    /\ k \in DOMAIN answered
    /\ Hears(k, TRUE, answered[k])
    /\ UNCHANGED <<fileVars, apps, notes, clock, starts, edits, edited, origin>>

Refuse(k) ==
    /\ k \notin DOMAIN answered
    /\ IF calls[k].doing = "commit" THEN CommitRefused ELSE UndoRefused
    /\ Hears(k, FALSE, 0)
    /\ UNCHANGED <<fileVars, apps, notes, clock, starts, edits, edited, origin>>

Execute(k) ==
    /\ k \notin DOMAIN answered
    /\ IF calls[k].doing = "commit" THEN CommitChunk(k) \/ CommitDone(k) ELSE Undo(k)
    /\ Hears(k, TRUE, answered'[k])
    /\ UNCHANGED starts

Serve(k) ==
    /\ calls[k].running > 0
    /\ Replay(k) \/ Refuse(k) \/ Execute(k)

\* Fifteen seconds without an answer. The call goes on.
GiveUp(t) ==
    /\ tab[t].at = "asked"
    /\ callFaults < MaxCallFaults
    /\ callFaults' = callFaults + 1
    /\ tab' = [tab EXCEPT ![t].at = "stopped"]
    /\ UNCHANGED <<fileVars, apps, notes, clock, calls, minted, starts, edits, edited, origin>>

\* "Keep importing", "Try again": the same key.
TryAgain(t) ==
    /\ tab[t].at = "stopped"
    /\ Ask(t, tab[t].doing, tab[t].key)
    /\ UNCHANGED <<fileVars, apps, notes, clock, minted, starts, callFaults, edits,
                   edited, origin>>

CloseTab(t) ==
    /\ tab[t].at # "idle"
    /\ tab' = [tab EXCEPT ![t] = IdleTab]
    /\ UNCHANGED <<fileVars, apps, notes, clock, calls, minted, starts, callFaults, edits,
                   edited, origin>>

-------------------------------------------------------------------------------
(* The rest of the app: a person moves an application's status or its next       *)
(* action.                                                                      *)

Edit(a, column, value) ==
    /\ edits < MaxEdits
    /\ apps[a][column] # value
    /\ edits' = edits + 1
    /\ clock' = clock + 1
    /\ LET old == apps[a] IN
       apps' = [apps EXCEPT ![a] = [old EXCEPT ![column] = value, !.version = clock + 1,
                    !.actor = IF column = "status" THEN "user" ELSE @]]
    /\ edited' = edited \cup {a}
    /\ UNCHANGED <<fileVars, notes, tabVars, origin>>

-------------------------------------------------------------------------------

ImportInit ==
    /\ file \in Files
    /\ batch = [state |-> "uploaded", expired |-> FALSE]
    /\ row = [r \in Rows |-> FreshRow]
    /\ apps = [a \in 1..Len(Existing) |-> Existing[a]]
    /\ notes = [a \in Ids |-> 0]
    /\ clock = Upload
    /\ answered = [k \in {} |-> 0]
    /\ calls = [k \in {} |-> [doing |-> "commit", running |-> 0]]
    /\ tab = [t \in Tabs |-> IdleTab]
    /\ minted = 0 /\ starts = 0 /\ edits = 0 /\ callFaults = 0
    /\ edited = {}
    /\ origin = [a \in {} |-> <<>>]

Wizard ==
    \/ SetMapping \/ Preview \/ Discard \/ Expire
    \/ \E r \in Rows :
          \/ \E theirs, mine \in SUBSET Columns : ResolveRow(r, theirs, mine)
          \/ \E included \in BOOLEAN : included # row[r].included /\ SetIncluded(r, included)

TabStep ==
    \E t \in Tabs :
        \/ \E doing \in {"commit", "undo"} : Press(t, doing)
        \/ GiveUp(t) \/ TryAgain(t) \/ CloseTab(t)

Serves == \E k \in DOMAIN calls : Serve(k)

Elsewhere ==
    \E a \in DOMAIN apps :
        \/ Edit(a, "status", "Offer")
        \/ Edit(a, "next", "call")

ImportNext == Wizard \/ TabStep \/ Serves \/ Elsewhere

ImportSpec == ImportInit /\ [][ImportNext]_importVars

\* A call that reached the server ends, and a person who is told that the import
\* stopped presses the button they are offered.
ImportFairSpec ==
    /\ ImportSpec
    /\ WF_importVars(Serves)
    /\ \A t \in Tabs : WF_importVars(TryAgain(t))

-------------------------------------------------------------------------------

\* Every row that says it landed has written its application exactly once,
\* whatever was sent twice, answered late or driven from two tabs: the notes this
\* import left on an application are as many as the rows that landed on it.
LandedOnce ==
    \A a \in DOMAIN apps :
        notes[a] = Cardinality({r \in Rows : row[r].outcome \in Landed /\ row[r].app = a})

\* The import changes a status a person set by a round trip only: one whose
\* application has not moved since the export, or one the person was asked about,
\* and then never against the answers - not by a status in conflict without
\* "theirs", and not by one answered "mine". (A status that was not in conflict at
\* the preview needs no answer and is written even over one set since: the README.)
PersonsStatusKept ==
    [][\A a \in DOMAIN apps \cap DOMAIN apps' :
          LET here == {r \in Rows : /\ row[r].outcome = "pending"
                                    /\ row'[r].outcome = "updated"
                                    /\ row'[r].app = a} IN
          here # {} /\ apps[a].actor = "user" /\ apps'[a].status # apps[a].status =>
              \E r \in here :
                  /\ row[r].kind = "round-trip"
                  /\ IF row[r].state = "resolved"
                     THEN /\ "status" \in row[r].conflict => "status" \in row[r].theirs
                          /\ "status" \notin row[r].mine
                     ELSE file[r].token = apps[a].version
      ]_importVars

\* An undo leaves alone what the import did not write and what was edited since,
\* and puts everything else back: a created application is gone, an updated one
\* has the values it had before. (An application that two rows landed on is not
\* covered: see the README.)
UndoExact ==
    [][batch.state # "rolled_back" /\ batch'.state = "rolled_back" =>
        \A a \in DOMAIN apps :
            LET by == {r \in Rows : row[r].outcome \in Landed /\ row[r].app = a} IN
            /\ by = {} \/ a \in edited => a \in DOMAIN apps' /\ apps'[a] = apps[a]
            /\ \A r \in by :
                  by = {r} /\ a \notin edited =>
                      IF row[r].outcome = "created" THEN a \notin DOMAIN apps'
                      ELSE a \in DOMAIN apps' /\ Values(apps'[a]) = origin[a]
      ]_importVars

\* "one stale row must not wedge the batch": a commit loop that is kept at gets
\* its batch out of "committing".
StaleRowDoesNotWedge ==
    \A t \in Tabs :
        tab[t].doing = "commit" /\ batch.state = "committing"
            ~> tab[t].doing # "commit" \/ batch.state # "committing"
===============================================================================
