------------------------------ MODULE TabProofs ------------------------------
(* What one tab promises, whichever of the three pages it shows, for any number  *)
(* of rows, texts, gestures, retries, failures and writes of others: it never    *)
(* keeps a guess, it overwrites only what it showed, an undo puts back what was  *)
(* there, and a write of the pipeline page is applied once and does not conflict *)
(* with another of the same page. All five follow from one inductive invariant,  *)
(* TabInv: of the server first, then of the overlay of /jobs and /queue, then of *)
(* the write queue of the pipeline page.                                         *)
EXTENDS Tab, TLAPS

\* A row of the page the tab shows, and what a gesture may change on it.
PageRow == IF surface = "pipeline" THEN ApplicationRow ELSE PostingRow
PageChange == IF surface = "pipeline" THEN Edits ELSE Triages

\* Finite sequences, and rows of some of the items.
Listing(s) == s \in Seq({s[n] : n \in DOMAIN s})
Some(rs, S) == DOMAIN rs \subseteq Items /\ rs \in [DOMAIN rs -> S]

-----------------------------------------------------------------------------
(* The server. *)

\* Rows, or a page of them, that the store has held.
Real(rs) == \A i \in DOMAIN rs : rs[i] \in held[i]
IsPage(p) == p \in [Items -> PageRow] /\ Real(p)

\* The store holds rows it has held. A version that two rows share was kept by a
\* note, which alone writes a row and leaves its version.
StoreInv ==
    /\ surface \in {"jobs", "queue", "pipeline"} /\ surface \in DOMAIN Foreign
    /\ clock \in Nat /\ minted \in Nat
    /\ held \in [Items -> SUBSET PageRow]
    /\ IsPage(store)
    /\ \A i \in Items : \A a \in held[i] : a.at <= clock
    /\ \A i \in Items : \A a, b \in held[i] :
          a.at = b.at => IgnoringNotes(a) = IgnoringNotes(b)

\* What a command says of the rows it is about was once true of them.
Grounded(r) ==
    /\ Some(r.read, PageRow) /\ DOMAIN r.read = Rows(r) /\ Real(r.read)
    /\ r.change.kind # "note" => \A i \in Rows(r) : r.expected[i] = r.read[i].at
    /\ r.key \in 1 .. minted
    /\ IF surface = "pipeline"
       THEN /\ r.from = "write" /\ r.change \in Changes /\ r.revalidates
            /\ r.change.kind = "note" => \A i \in Rows(r) : r.expected[i] = None
            /\ r.gesture \in Nat
       ELSE r.from \in {"decide", "undo"} /\ r.change \in Triages /\ ~r.revalidates

\* The commands that may still run, and those with the ones that have.
Asked == ({line[n] : n \in DOMAIN line} \ {Refresh}) \union strays
Known == Asked \union {effects[n].by : n \in DOMAIN effects}

\* Two requests with one key are about the same rows.
RequestsInv ==
    /\ Listing(line)
    /\ \A r \in Known : Grounded(r)
    /\ \A r, q \in Known : r.key = q.key => Rows(r) = Rows(q)

\* A key takes effect once, and its answer is what that effect left.
EffectsInv ==
    /\ Listing(effects)
    /\ \A n \in DOMAIN effects :
          LET e == effects[n] IN
          /\ DOMAIN e.before = Rows(e.by) /\ DOMAIN e.after = Rows(e.by)
          /\ Real(e.after) /\ e.by.key \in DOMAIN answers
    /\ \A m, n \in DOMAIN effects : effects[m].by.key = effects[n].by.key => m = n
    /\ \A k \in DOMAIN answers :
          \E n \in DOMAIN effects : effects[n].by.key = k /\ answers[k] = effects[n].after

\* The rows of an answer are those that the command wrote.
Answer(r, rs) == \E n \in DOMAIN effects : effects[n].by.key = r.key /\ rs = effects[n].after
\* What has come back answers the first request of the line.
ReplyInv ==
    reply # None =>
       /\ line # <<>>
       /\ reply.kind \in {"ok", "conflict", "thrown", "error", "auth", "page"}
       /\ reply.kind = "page" <=> Head(line) = Refresh
       /\ reply.kind \in {"ok", "conflict"} =>
             DOMAIN reply.rows = Rows(Head(line)) /\ Real(reply.rows)
       /\ reply.kind = "ok" => Answer(Head(line), reply.rows)
       /\ reply.kind \notin {"ok", "conflict"} => DOMAIN reply.rows = {}
       /\ reply.page # None => reply.kind \in {"ok", "page"} /\ IsPage(reply.page)

-----------------------------------------------------------------------------
(* /jobs and /queue. *)

\* A patch, if any, is a row the store has held.
Kept(row, i) == row # None => row \in held[i]

\* The gesture n wrote these rows over rows of these choices.
Wrote(n, rs, priors) ==
    \E m \in DOMAIN effects :
        /\ effects[m].by.from = "decide" /\ effects[m].by.n = n
        /\ \A i \in DOMAIN rs :
              /\ i \in Rows(effects[m].by)
              /\ rs[i] = effects[m].after[i] /\ priors[i] = effects[m].before[i].triage

\* A toast offers what was written, or what was on the page, and nothing guessed.
Offer(o) ==
    /\ DOMAIN o.rows \subseteq Items /\ Real(o.rows)
    /\ \/ /\ o.kind = "undo"
          /\ Some(o.priors, PostingRow) /\ DOMAIN o.priors = DOMAIN o.rows
          /\ Wrote(o.n, o.rows, [i \in DOMAIN o.rows |-> o.priors[i].triage])
       \/ o.kind = "retry" /\ Some(o.rows, PostingRow) /\ o.choice \in Choices

\* A group of an undo that is still to be sent: rows the gesture n wrote, and the
\* choice all of them had before.
Group(n, g) ==
    /\ Some(g.rows, PostingRow) /\ Real(g.rows) /\ g.choice \in Texts
    /\ Wrote(n, g.rows, [i \in DOMAIN g.rows |-> g.choice])

\* The gesture in flight has painted this row.
Guessed(i) == gesture # None /\ i \in DOMAIN gesture.targets

\* The requests of a line that decide: none, or the one of the gesture.
Idle(s) == \A n \in DOMAIN s : s[n].from # "decide"
Sole(s, targets, k) ==
    \A n \in DOMAIN s : s[n].from = "decide" =>
        /\ s[n].read = targets /\ s[n].n = k
        /\ \A m \in DOMAIN s : s[m].from = "decide" => m = n

\* On /jobs and /queue a key is minted for each request.
Distinct == \A r, q \in Known : r.key = q.key => r = q
\* Whatever no gesture in flight has painted, the store has held.
Overlay ==
    /\ IsPage(base)
    /\ patches \in [Items -> PostingRow \union {None}]
    /\ \A i \in Items : ~Guessed(i) => Kept(patches[i], i)
\* A gesture in flight is the only one that decides, and remembers rows the store
\* has held for all that it painted over.
InFlight ==
    /\ gesture = None => Idle(line)
    /\ gesture # None =>
          /\ Some(gesture.targets, PostingRow) /\ Real(gesture.targets)
          /\ Some(gesture.snapshot, PostingRow \union {None})
          /\ DOMAIN gesture.snapshot = DOMAIN gesture.targets
          /\ \A i \in DOMAIN gesture.targets : Kept(gesture.snapshot[i], i)
          /\ gesture.choice \in Choices
          /\ Sole(line, gesture.targets, made)
\* Undo and retry, offered, begun or sent, speak of rows that were really written.
Offered ==
    /\ \A o \in offers : Offer(o)
    /\ \A n \in DOMAIN undoing : \A g \in undoing[n] : Group(n, g)
    /\ \A r \in Asked : r.from = "undo" => Wrote(r.n, r.read, [i \in Rows(r) |-> r.change.to])

DecisionsInv == surface # "pipeline" => Distinct /\ Overlay /\ InFlight /\ Offered

-----------------------------------------------------------------------------
(* The pipeline page. *)

\* The writes the page still knows of.
Waiting == {waiting[n] : n \in DOMAIN waiting}
Pending == retries \union Waiting \union {t.write : t \in {turn} \ {None}}
Taken == queued - Len(waiting)

\* What a write asks for.
Asks(r, w) == r.gesture = w.id /\ r.key = w.key /\ Rows(r) = {w.item} /\ r.change = w.change

\* queued counts the writes that ever joined, so that Taken have had their turn.
QueueTypes ==
    /\ waiting \in Seq(Writes) /\ retries \subseteq Writes /\ queued \in Nat
    /\ Len(waiting) <= queued
    /\ turn # None => turn \in Turns /\ turn.n = Taken

\* A write waits, is under way, or may be retried: one of the three.
Sorted ==
    /\ \A m, n \in DOMAIN waiting : waiting[m] = waiting[n] => m = n
    /\ \A n \in DOMAIN waiting : waiting[n] \notin retries
    /\ turn # None => turn.write \notin retries /\ turn.write \notin Waiting

\* A key is a gesture, for the writes and for the requests they became.
Matched ==
    /\ \A w \in Pending : w.id \in 1 .. queued /\ w.key \in 1 .. minted
    /\ \A w, v \in Pending : w.key = v.key \/ w.id = v.id => w = v
    /\ \A r \in Known : r.gesture \in 1 .. queued /\ \E i \in Items : Rows(r) = {i}
    /\ \A r, q \in Known : r.key = q.key <=> r.gesture = q.gesture
    /\ \A r \in Known, w \in Pending : w.key = r.key \/ w.id = r.gesture => Asks(r, w)

\* The line carries the requests of this turn and of earlier ones, in their order.
InOrder ==
    \A n \in DOMAIN line :
        /\ line[n].from = "write" /\ line[n].n \in Nat /\ line[n].n <= Taken
        /\ turn # None /\ line[n].n = turn.n => Asks(line[n], turn.write)
        /\ \A m \in DOMAIN line : m < n => line[m].n < line[n].n

\* All rows but the one whose turn it is are rows the store has held, and of that
\* one the page remembers such a row.
OnScreen ==
    /\ rows \in [Items -> ApplicationRow]
    /\ \A i \in Items : turn = None \/ i # turn.write.item => rows[i] \in held[i]
    /\ turn # None => turn.before \in held[turn.write.item]
    /\ initial # None => IsPage(initial)

PipelineInv == surface = "pipeline" => QueueTypes /\ Sorted /\ Matched /\ InOrder /\ OnScreen

\* Nobody else has written, and the page was told of all that it wrote itself.
Undisturbed == surface = "pipeline" /\ strange = {}
Ran == reply # None /\ reply.kind = "ok"
Current(i) ==
    /\ turn = None \/ i # turn.write.item => rows[i].at = store[i].at
    /\ turn # None /\ i = turn.write.item => turn.before.at = store[i].at
    /\ initial # None => initial[i].at = store[i].at

\* Then the page has the current version of every row, in rows or in the render it
\* is about to take, and a request that is still to run names that version.
UndisturbedInv ==
    Undisturbed =>
      /\ reply # None => reply.kind # "conflict"
      /\ ~Ran =>
            /\ \A n \in DOMAIN line :
                  /\ line[n].key \notin DOMAIN answers
                  /\ \A i \in Rows(line[n]) : line[n].expected[i] \in {None, store[i].at}
            /\ \A w \in Pending : w.key \notin DOMAIN answers
            /\ \A i \in Items : Current(i)
      /\ Ran /\ Awaited =>
            /\ reply.page # None /\ \A i \in Items : reply.page[i].at = store[i].at
            /\ reply.rows[turn.write.item].at = store[turn.write.item].at
            /\ \A i \in Items \ {turn.write.item} : Current(i)
            /\ \A w \in retries \union Waiting : w.key \notin DOMAIN answers

\* The inductive invariant.
TabInv ==
    /\ StoreInv /\ RequestsInv /\ EffectsInv /\ ReplyInv
    /\ DecisionsInv /\ PipelineInv /\ UndisturbedInv
    /\ VersionStandsForRow /\ UndoRestores

-----------------------------------------------------------------------------
(* Sequences, rows and changes. *)

LEMMA Retyped ==
  ASSUME NEW T, NEW S, NEW t \in Seq(S), \A n \in 1 .. Len(t) : t[n] \in T
  PROVE  t \in Seq(T)
  OBVIOUS

LEMMA Appended ==
  ASSUME NEW s, Listing(s), NEW e
  PROVE  /\ Listing(Append(s, e)) /\ Len(s) \in Nat /\ DOMAIN s = 1 .. Len(s)
         /\ Len(Append(s, e)) = Len(s) + 1 /\ DOMAIN Append(s, e) = 1 .. Len(s) + 1
         /\ Append(s, e)[Len(s) + 1] = e
         /\ \A n \in DOMAIN s : Append(s, e)[n] = s[n]
<1>0. PICK t : t = Append(s, e)
  OBVIOUS
<1> DEFINE S == {s[n] : n \in DOMAIN s}
           T == {t[n] : n \in DOMAIN t}
<1>1. s \in Seq(S)
  BY DEF Listing
<1>2. s \in Seq(S \union {e})
  BY <1>1
<1>3. /\ Len(s) \in Nat /\ DOMAIN s = 1 .. Len(s)
      /\ t \in Seq(S \union {e}) /\ Len(t) = Len(s) + 1 /\ DOMAIN t = 1 .. Len(s) + 1
      /\ t[Len(s) + 1] = e /\ \A n \in DOMAIN s : t[n] = s[n]
  BY <1>0, <1>2
<1>4. t \in Seq(T)
  BY <1>3
<1> QED BY <1>0, <1>3, <1>4 DEF Listing

LEMMA Shifted ==
  ASSUME NEW s, Listing(s), s # <<>>
  PROVE  /\ Listing(Tail(s)) /\ Len(s) \in Nat \ {0} /\ DOMAIN s = 1 .. Len(s)
         /\ Len(Tail(s)) = Len(s) - 1 /\ DOMAIN Tail(s) = 1 .. Len(s) - 1
         /\ Head(s) = s[1] /\ 1 \in DOMAIN s
         /\ \A n \in DOMAIN Tail(s) : n + 1 \in DOMAIN s /\ Tail(s)[n] = s[n + 1]
<1>0. PICK t : t = Tail(s)
  OBVIOUS
<1> DEFINE S == {s[n] : n \in DOMAIN s}
           T == {t[n] : n \in DOMAIN t}
<1>1. s \in Seq(S)
  BY DEF Listing
<1>2. /\ Len(s) \in Nat \ {0} /\ DOMAIN s = 1 .. Len(s) /\ Head(s) = s[1]
      /\ t \in Seq(S) /\ Len(t) = Len(s) - 1 /\ DOMAIN t = 1 .. Len(s) - 1
      /\ \A n \in DOMAIN t : n + 1 \in DOMAIN s /\ t[n] = s[n + 1]
  BY <1>0, <1>1
<1>3. \A n \in 1 .. Len(t) : t[n] \in T
  BY <1>2
<1>4. t \in Seq(T)
  <2> HIDE DEF T, S
  <2> QED BY <1>2, <1>3, Retyped
<1>5. 1 \in DOMAIN s
  BY <1>2
<1>6. Listing(t)
  BY <1>4 DEF Listing
<1> HIDE DEF S, T
<1> QED BY <1>0, <1>2, <1>5, <1>6

LEMMA EmptyListing == Listing(<<>>) /\ DOMAIN <<>> = {}
<1>1. <<>> \in Seq({<<>>[n] : n \in DOMAIN <<>>}) /\ DOMAIN <<>> = {}
  OBVIOUS
<1> QED BY <1>1 DEF Listing

(* A change keeps a row a row, and leaves the version to Written.            *)
LEMMA AppliedTriage ==
  ASSUME NEW c \in Triages, NEW row \in PostingRow
  PROVE  /\ Applied(c, row) \in PostingRow /\ Applied(c, row).at = row.at
         /\ Applied(c, row).triage = c.to /\ c.kind = "triage"
<1>1. Applied(c, row) = [row EXCEPT !.triage = c.to]
  BY DEF Applied, Triages
<1> QED BY <1>1 DEF Triages, PostingRow

LEMMA AppliedEdit ==
  ASSUME NEW c \in Edits, NEW row \in ApplicationRow
  PROVE  /\ Applied(c, row) \in ApplicationRow /\ Applied(c, row).at = row.at
         /\ c.kind = "note" => Applied(c, row) = [row EXCEPT !.notes = @ + 1]
<1>0. {None, "user"} \subseteq Texts
  BY PagesAssumption
<1>1. CASE c.kind = "status"
  <2>1. c.to \in Texts
    BY <1>1 DEF Edits
  <2>2. Applied(c, row) = IF row.status = c.to /\ row.actor = "user" THEN row
            ELSE [row EXCEPT !.status = c.to, !.actor = "user", !.suggested = None]
    BY <1>1 DEF Applied
  <2> QED BY <1>0, <1>1, <2>1, <2>2 DEF ApplicationRow
<1>2. CASE c.kind = "confirm"
  <2>2. Applied(c, row) = IF row.suggested = None THEN row
            ELSE [row EXCEPT !.status = row.suggested, !.actor = "user", !.suggested = None]
    BY <1>2 DEF Applied
  <2> QED BY <1>0, <1>2, <2>2 DEF ApplicationRow
<1>3. CASE c.kind = "reject"
  <2>2. Applied(c, row) = [row EXCEPT !.suggested = None]
    BY <1>3 DEF Applied
  <2> QED BY <1>0, <1>3, <2>2 DEF ApplicationRow
<1>4. CASE c.kind = "note"
  <2>2. Applied(c, row) = [row EXCEPT !.notes = @ + 1]
    BY <1>4 DEF Applied
  <2> QED BY <1>0, <1>4, <2>2 DEF ApplicationRow
<1>5. CASE c.kind = "next"
  <2>1. c.to \in Texts
    BY <1>5 DEF Edits
  <2>2. Applied(c, row) = [row EXCEPT !.next = c.to]
    BY <1>5 DEF Applied
  <2> QED BY <1>0, <1>5, <2>1, <2>2 DEF ApplicationRow
<1> QED BY <1>1, <1>2, <1>3, <1>4, <1>5 DEF Edits

LEMMA AppliedRow ==
  ASSUME NEW c \in PageChange, NEW row \in PageRow
  PROVE  /\ Applied(c, row) \in PageRow /\ Applied(c, row).at = row.at
         /\ c.kind = "note" => IgnoringNotes(Applied(c, row)) = IgnoringNotes(row)
         /\ surface # "pipeline" => Applied(c, row).triage = c.to
<1>1. CASE surface = "pipeline"
  <2>1. c.kind = "note" => IgnoringNotes(Applied(c, row)) = IgnoringNotes(row)
    BY <1>1, AppliedEdit DEF PageChange, PageRow, IgnoringNotes, ApplicationRow
  <2> QED BY <1>1, <2>1, AppliedEdit DEF PageChange, PageRow
<1>2. CASE surface # "pipeline"
  BY <1>2, AppliedTriage DEF PageChange, PageRow
<1> QED BY <1>1, <1>2

LEMMA Stamped ==
  ASSUME NEW row \in PageRow, NEW t \in Nat
  PROVE  /\ [row EXCEPT !.at = t] \in PageRow /\ [row EXCEPT !.at = t].at = t
         /\ row.at \in Nat
         /\ surface # "pipeline" => [row EXCEPT !.at = t].triage = row.triage
  BY DEF PageRow, PostingRow, ApplicationRow

-----------------------------------------------------------------------------
(* What the store has held and what was done stays so.                       *)
Grows ==
    /\ surface' = surface
    /\ minted' \in Nat /\ minted <= minted'
    /\ \A i \in Items : held[i] \subseteq held'[i]
    /\ \A n \in DOMAIN effects : n \in DOMAIN effects' /\ effects'[n] = effects[n]

LEMMA RealKept ==
  ASSUME Grows, NEW rs, DOMAIN rs \subseteq Items, Real(rs)
  PROVE  Real(rs)'
  BY DEF Grows, Real

LEMMA PageKept ==
  ASSUME Grows, NEW p, IsPage(p)
  PROVE  IsPage(p)'
<1>1. p \in [Items -> PageRow'] /\ DOMAIN p = Items
  BY DEF Grows, IsPage, PageRow
<1> QED BY <1>1, RealKept DEF IsPage

LEMMA KeptKept ==
  ASSUME Grows, NEW i \in Items, NEW row, Kept(row, i)
  PROVE  Kept(row, i)'
  BY DEF Grows, Kept

LEMMA GroundedKept ==
  ASSUME Grows, StoreInv, NEW r, Grounded(r)
  PROVE  Grounded(r)'
<1>1. DOMAIN r.read \subseteq Items /\ Real(r.read) /\ r.key \in 1 .. minted'
  BY DEF Grows, Grounded, Some, StoreInv
<1>2. Real(r.read)'
  BY <1>1, RealKept
<1> QED BY <1>1, <1>2 DEF Grows, Grounded, Some, PageRow, Rows

LEMMA WroteKept ==
  ASSUME Grows, NEW n, NEW rs, NEW priors, Wrote(n, rs, priors)
  PROVE  Wrote(n, rs, priors)'
  BY DEF Grows, Wrote, Rows

LEMMA OfferKept ==
  ASSUME Grows, NEW o, Offer(o)
  PROVE  Offer(o)'
<1>1. Real(o.rows)'
  BY RealKept DEF Offer
<1>2. CASE o.kind = "undo" /\ Wrote(o.n, o.rows, [i \in DOMAIN o.rows |-> o.priors[i].triage])
  <2>1. Wrote(o.n, o.rows, [i \in DOMAIN o.rows |-> o.priors[i].triage])'
    BY <1>2, WroteKept
  <2> QED BY <1>1, <1>2, <2>1 DEF Offer
<1> QED BY <1>1, <1>2 DEF Offer

LEMMA GroupKept ==
  ASSUME Grows, NEW n, NEW g, Group(n, g)
  PROVE  Group(n, g)'
<1>1. Real(g.rows)'
  BY RealKept DEF Group, Some
<1>2. Wrote(n, g.rows, [i \in DOMAIN g.rows |-> g.choice])'
  BY WroteKept DEF Group
<1> QED BY <1>1, <1>2 DEF Group

-----------------------------------------------------------------------------
(* A row with a new version is newer than all, one without says the same.    *)
LEMMA StoreMoves ==
  ASSUME StoreInv, surface' = surface, minted' \in Nat, clock' \in {clock, clock + 1},
         store' \in [Items -> PageRow],
         held' = [i \in Items |-> held[i] \union {store'[i]}],
         \A i \in Items :
            \/ store'[i].at = clock + 1 /\ clock' = clock + 1
            \/ store'[i].at = store[i].at /\ IgnoringNotes(store'[i]) = IgnoringNotes(store[i])
  PROVE  StoreInv' /\ \A i \in Items : held[i] \subseteq held'[i]
<1>1. PageRow' = PageRow
  BY DEF PageRow
<1>2. \A i \in Items : held'[i] = held[i] \union {store'[i]}
  OBVIOUS
<1>3. held' \in [Items -> SUBSET PageRow]
  BY <1>2 DEF StoreInv
<1>4. IsPage(store)'
  BY <1>1, <1>2 DEF IsPage, Real
<1>5. clock \in Nat /\ clock' \in Nat /\ clock <= clock'
  BY DEF StoreInv
<1>6. \A i \in Items : store[i] \in held[i]
  BY DEF StoreInv, IsPage, Real
<1>7. ASSUME NEW i \in Items, NEW a \in held'[i]
      PROVE  a.at <= clock'
  <2>1. \A b \in held[i] : b.at <= clock /\ b.at \in Nat
    BY DEF StoreInv, PageRow, PostingRow, ApplicationRow
  <2> QED BY <1>2, <1>5, <1>6, <1>7, <2>1
<1>8. ASSUME NEW i \in Items, NEW a \in held'[i], NEW b \in held'[i], a.at = b.at
      PROVE  IgnoringNotes(a)' = IgnoringNotes(b)'
  <2>1. \A c \in held[i] : c.at <= clock /\ c.at \in Nat
    BY DEF StoreInv, PageRow, PostingRow, ApplicationRow
  <2>2. \A c, d \in held[i] : c.at = d.at => IgnoringNotes(c) = IgnoringNotes(d)
    BY DEF StoreInv
  <2>3. IgnoringNotes(a)' = IgnoringNotes(a) /\ IgnoringNotes(b)' = IgnoringNotes(b)
    BY DEF IgnoringNotes
  <2>4. PICK s : s = store'[i]
    OBVIOUS
  <2>5. \/ s.at = clock + 1
        \/ s.at = store[i].at /\ IgnoringNotes(s) = IgnoringNotes(store[i])
    BY <2>4 DEF IgnoringNotes
  <2>6. a \in held[i] \/ a = s
    BY <1>2, <2>4
  <2>7. b \in held[i] \/ b = s
    BY <1>2, <2>4
  <2>8. CASE a \in held[i] /\ b \in held[i]
    BY <1>8, <2>2, <2>3, <2>8
  <2>9. CASE a = s /\ b = s
    BY <2>3, <2>9
  <2>10. CASE a = s /\ b \in held[i]
    BY <1>5, <1>6, <1>8, <2>1, <2>2, <2>3, <2>5, <2>10
  <2>11. CASE b = s /\ a \in held[i]
    BY <1>5, <1>6, <1>8, <2>1, <2>2, <2>3, <2>5, <2>11
  <2> QED BY <2>6, <2>7, <2>8, <2>9, <2>10, <2>11
<1> QED BY <1>1, <1>2, <1>3, <1>4, <1>5, <1>7, <1>8 DEF StoreInv

(* What a command writes to one of its rows.                                 *)
LEMMA WrittenRow ==
  ASSUME StoreInv, NEW r, r.change \in PageChange, NEW i \in Rows(r), i \in Items,
         NEW row, row = Written(r)[i]
  PROVE  /\ row \in PageRow
         /\ \/ row.at = clock + 1 /\ NewVersion(r) = clock + 1
            \/ row.at = store[i].at /\ IgnoringNotes(row) = IgnoringNotes(store[i])
         /\ surface # "pipeline" => row.triage = r.change.to
<1>1. PICK a : a = store[i]
  OBVIOUS
<1>2. a \in PageRow /\ clock + 1 \in Nat
  BY <1>1 DEF StoreInv, IsPage
<1>3. PICK b : b = Applied(r.change, a)
  OBVIOUS
<1>4. /\ b \in PageRow /\ b.at = a.at
      /\ r.change.kind = "note" => IgnoringNotes(b) = IgnoringNotes(a)
      /\ surface # "pipeline" => b.triage = r.change.to
  BY <1>2, <1>3, AppliedRow
<1>5. row = IF Moves(r.change, a) THEN [b EXCEPT !.at = clock + 1] ELSE b
  BY <1>1, <1>3 DEF Written
<1>6. CASE Moves(r.change, a)
  <2>1. row = [b EXCEPT !.at = clock + 1]
    BY <1>5, <1>6
  <2>2. NewVersion(r) = clock + 1
    BY <1>1, <1>6 DEF NewVersion
  <2> QED BY <1>2, <1>4, <2>1, <2>2, Stamped
<1>7. CASE ~Moves(r.change, a)
  <2>1. row = b
    BY <1>5, <1>7
  <2>2. r.change.kind = "note" \/ b = a
    BY <1>3, <1>7 DEF Moves
  <2> QED BY <1>1, <1>4, <2>1, <2>2
<1> QED BY <1>6, <1>7

LEMMA Asking ==
  ASSUME StoreInv, NEW r, Grounded(r)
  PROVE  /\ Rows(r) \subseteq Items /\ r.change \in PageChange
         /\ \A i \in Rows(r) : r.read[i] \in PageRow /\ r.read[i] \in held[i] /\ r.read[i].at \in Nat
         /\ r.change.kind \notin {"refresh"} /\ r # Refresh
<1>1. r.change \in PageChange
  BY PagesAssumption DEF Grounded, PageChange
<1>2. r.change.kind # "refresh"
  BY <1>1 DEF PageChange, Edits, Triages
<1>3. r.from # "refresh"
  BY DEF Grounded
<1>4. Rows(r) \subseteq Items /\ \A i \in Rows(r) : r.read[i] \in PageRow /\ r.read[i] \in held[i]
  BY DEF Grounded, Some, Real
<1>5. \A a \in PageRow : a.at \in Nat
  BY DEF PageRow, PostingRow, ApplicationRow
<1> QED BY <1>1, <1>2, <1>3, <1>4, <1>5 DEF Refresh

(* A command that applies finds its rows as it read them off the page, up to notes. *)
LEMMA FoundAsRead ==
  ASSUME StoreInv, NEW r, Grounded(r), ~Conflicts(r), r.change.kind # "note", NEW i \in Rows(r)
  PROVE  store[i].at = r.read[i].at /\ IgnoringNotes(store[i]) = IgnoringNotes(r.read[i])
<1>1. r.expected[i] = r.read[i].at /\ r.read[i].at \in Nat /\ i \in Items /\ r.read[i] \in held[i]
  BY Asking DEF Grounded
<1>2. r.expected[i] # None
  BY <1>1, NullAssumption
<1>3. store[i].at = r.read[i].at
  BY <1>1, <1>2 DEF Conflicts
<1>4. store[i] \in held[i]
  BY <1>1 DEF StoreInv, IsPage, Real
<1> QED BY <1>1, <1>3, <1>4 DEF StoreInv

(* The whole of one execution.                                               *)
LEMMA AppliedStore ==
  ASSUME StoreInv, NEW r, Grounded(r), Applies(r), Execute(r), surface' = surface, minted' = minted
  PROVE  StoreInv' /\ (\A i \in Items : held[i] \subseteq held'[i])
         /\ \A i \in Rows(r) : store'[i] = Written(r)[i] /\ Written(r)[i] \in held'[i]
<1>1. /\ store' = Over(Written(r), store) /\ clock' = NewVersion(r)
      /\ held' = [i \in Items |-> held[i] \union {store'[i]}]
  BY DEF Execute
<1>2. Rows(r) \subseteq Items /\ r.change \in PageChange /\ DOMAIN Written(r) = Rows(r)
  BY Asking DEF Written
<1>3. DOMAIN store = Items /\ store \in [Items -> PageRow]
  BY DEF StoreInv, IsPage
<1>4. /\ DOMAIN store' = Items /\ store' = [i \in Items |-> store'[i]]
      /\ \A i \in Items : store'[i] = IF i \in Rows(r) THEN Written(r)[i] ELSE store[i]
  BY <1>1, <1>2, <1>3 DEF Over
<1>5. ASSUME NEW i \in Items
      PROVE  /\ store'[i] \in PageRow
             /\ \/ store'[i].at = clock + 1 /\ clock' = clock + 1
                \/ store'[i].at = store[i].at /\ IgnoringNotes(store'[i]) = IgnoringNotes(store[i])
  <2>1. CASE i \in Rows(r)
    <3>1. PICK row : row = Written(r)[i]
      OBVIOUS
    <3>2. /\ row \in PageRow
          /\ \/ row.at = clock + 1 /\ NewVersion(r) = clock + 1
             \/ row.at = store[i].at /\ IgnoringNotes(row) = IgnoringNotes(store[i])
      BY <1>2, <2>1, <3>1, WrittenRow
    <3>3. store'[i] = row
      BY <1>4, <2>1, <3>1
    <3> QED BY <1>1, <3>2, <3>3 DEF IgnoringNotes
  <2>2. CASE i \notin Rows(r)
    BY <1>3, <1>4, <2>2
  <2> QED BY <2>1, <2>2
<1>6. clock' \in {clock, clock + 1}
  BY <1>1 DEF NewVersion
<1>7. store' \in [Items -> PageRow]
  BY <1>4, <1>5
<1>8. minted' \in Nat
  BY DEF StoreInv
<1>9. StoreInv' /\ \A i \in Items : held[i] \subseteq held'[i]
  BY <1>1, <1>5, <1>6, <1>7, <1>8, StoreMoves
<1>10. \A i \in Rows(r) : store'[i] = Written(r)[i] /\ store'[i] \in held'[i]
  BY <1>1, <1>2, <1>4
<1> QED BY <1>9, <1>10

LEMMA AppliedEffects ==
  ASSUME StoreInv, RequestsInv, EffectsInv, VersionStandsForRow,
         NEW r, Grounded(r), Applies(r), Execute(r), surface' = surface, minted' = minted
  PROVE  /\ EffectsInv' /\ Grows /\ VersionStandsForRow'
         /\ Len(effects) \in Nat /\ DOMAIN effects = 1 .. Len(effects)
         /\ DOMAIN effects' = 1 .. Len(effects) + 1
         /\ \A n \in DOMAIN effects : effects'[n] = effects[n]
         /\ effects'[Len(effects) + 1] = [by |-> r, before |-> Now(r), after |-> Written(r)]
<1> DEFINE e == [by |-> r, before |-> Now(r), after |-> Written(r)]
           N == Len(effects) + 1
<1>1. effects' = Append(effects, e) /\ answers' = Over([k \in {r.key} |-> Written(r)], answers)
  BY DEF Execute
<1>2. /\ Listing(effects') /\ Len(effects) \in Nat /\ DOMAIN effects = 1 .. Len(effects)
      /\ DOMAIN effects' = 1 .. N /\ effects'[N] = e
      /\ \A n \in DOMAIN effects : effects'[n] = effects[n]
  <2>1. Listing(effects)
    BY DEF EffectsInv
  <2> HIDE DEF e
  <2> QED BY <1>1, <2>1, Appended
<1>3. Grows
  <2>1. \A n \in DOMAIN effects : n \in DOMAIN effects' /\ effects'[n] = effects[n]
    BY <1>2
  <2> QED BY <2>1, AppliedStore DEF Grows, StoreInv
<1>4. DOMAIN e.before = Rows(r) /\ DOMAIN e.after = Rows(r) /\ e.by = r
  BY DEF Now, Written
<1>5. /\ DOMAIN answers' = DOMAIN answers \union {r.key} /\ r.key \notin DOMAIN answers
      /\ \A k \in DOMAIN answers' : answers'[k] = IF k = r.key THEN Written(r) ELSE answers[k]
  BY <1>1 DEF Applies, Over
<1> HIDE DEF e
<1>6. \A n \in DOMAIN effects' :
         \/ n \in DOMAIN effects /\ effects'[n] = effects[n]
         \/ n = N /\ effects'[n] = e
  BY <1>2
<1>7. ASSUME NEW n \in DOMAIN effects'
      PROVE  /\ DOMAIN effects'[n].before = Rows(effects'[n].by)
             /\ DOMAIN effects'[n].after = Rows(effects'[n].by)
             /\ Real(effects[n].after)'
             /\ effects'[n].by.key \in DOMAIN answers'
  <2>1. CASE n \in DOMAIN effects /\ effects'[n] = effects[n]
    <3>1. PICK old : old = effects[n]
      OBVIOUS
    <3>2. DOMAIN old.after \subseteq Items
      <4>1. old.by \in Known
        BY <2>1, <3>1 DEF Known
      <4>2. Grounded(old.by)
        BY <4>1 DEF RequestsInv
      <4> QED BY <2>1, <3>1, <4>2, Asking DEF EffectsInv
    <3>3. /\ DOMAIN old.before = Rows(old.by) /\ DOMAIN old.after = Rows(old.by)
          /\ Real(old.after) /\ old.by.key \in DOMAIN answers
      BY <2>1, <3>1 DEF EffectsInv
    <3>4. Real(old.after)'
      BY <1>3, <3>2, <3>3, RealKept
    <3> QED BY <1>5, <2>1, <3>1, <3>3, <3>4 DEF Real
  <2>2. CASE n = N /\ effects'[n] = e
    <3>1. e.after = Written(r)
      BY DEF e
    <3>2. \A i \in DOMAIN e.after : e.after[i] \in held'[i]
      BY <1>4, <3>1, AppliedStore
    <3> QED BY <1>4, <1>5, <2>2, <3>2 DEF Real
  <2> QED BY <1>6, <2>1, <2>2
<1>8. ASSUME NEW m \in DOMAIN effects', NEW n \in DOMAIN effects',
             effects'[m].by.key = effects'[n].by.key
      PROVE  m = n
  <2>1. \A k \in DOMAIN effects : effects[k].by.key # r.key
    BY <1>5 DEF EffectsInv
  <2>2. \A j, k \in DOMAIN effects : effects[j].by.key = effects[k].by.key => j = k
    BY DEF EffectsInv
  <2> QED BY <1>4, <1>6, <1>8, <2>1, <2>2
<1>9. ASSUME NEW k \in DOMAIN answers'
      PROVE  \E n \in DOMAIN effects' : effects'[n].by.key = k /\ answers'[k] = effects'[n].after
  <2>1. CASE k = r.key
    <3>1. N \in DOMAIN effects' /\ effects'[N] = e /\ e.after = Written(r)
      BY <1>2 DEF e
    <3> QED BY <1>4, <1>5, <2>1, <3>1
  <2>2. CASE k # r.key
    <3>1. PICK n \in DOMAIN effects : effects[n].by.key = k /\ answers[k] = effects[n].after
      BY <1>5, <2>2 DEF EffectsInv
    <3> QED BY <1>2, <1>5, <2>2, <3>1
  <2> QED BY <2>1, <2>2
<1>10. EffectsInv'
  BY <1>2, <1>7, <1>8, <1>9 DEF EffectsInv, Rows
<1>11. VersionStandsForRow'
  <2>1. ASSUME NEW n \in DOMAIN effects', effects'[n].by.change.kind # "note",
               NEW i \in DOMAIN effects'[n].before
        PROVE  IgnoringNotes(effects[n].before[i])' = IgnoringNotes(effects[n].by.read[i])'
    <3>1. CASE n \in DOMAIN effects /\ effects'[n] = effects[n]
      <4>1. IgnoringNotes(effects[n].before[i]) = IgnoringNotes(effects[n].by.read[i])
        BY <2>1, <3>1 DEF VersionStandsForRow
      <4> QED BY <3>1, <4>1 DEF IgnoringNotes
    <3>2. CASE n = N /\ effects'[n] = e
      <4>1. i \in Rows(r) /\ r.change.kind # "note" /\ e.before[i] = store[i] /\ e.by = r
        BY <1>4, <2>1, <3>2 DEF Now, e
      <4>2. IgnoringNotes(store[i]) = IgnoringNotes(r.read[i])
        BY <4>1, FoundAsRead DEF Applies
      <4> QED BY <3>2, <4>1, <4>2 DEF IgnoringNotes
    <3> QED BY <1>6, <3>1, <3>2
  <2> QED BY <2>1 DEF VersionStandsForRow
<1> QED BY <1>2, <1>3, <1>10, <1>11 DEF e

(* A command runs at most once, is answered by the rows it wrote, and writes *)
(* over what its maker saw.                                                  *)
LEMMA Executed ==
  ASSUME StoreInv, RequestsInv, EffectsInv, VersionStandsForRow,
         NEW r \in Known, Execute(r), surface' = surface, minted' = minted,
         NEW o, o = Outcome(r)
  PROVE  /\ Grows /\ StoreInv' /\ EffectsInv' /\ VersionStandsForRow'
         /\ \A n \in DOMAIN effects' : effects'[n].by \in Known
         /\ o.kind \in {"ok", "conflict"} /\ DOMAIN o.rows = Rows(r)
         /\ \A i \in Rows(r) : o.rows[i] \in held'[i]
         /\ o.kind = "ok" =>
               \E n \in DOMAIN effects' : effects'[n].by.key = r.key /\ o.rows = effects'[n].after
<1>0. Grounded(r)
  BY DEF RequestsInv
<1>1. CASE Applies(r)
  <2>1. o.kind = "ok" /\ o.rows = Written(r)
    BY <1>1 DEF Outcome, Applies
  <2>2. DOMAIN o.rows = Rows(r) /\ \A i \in Rows(r) : o.rows[i] \in held'[i]
    BY <1>0, <1>1, <2>1, AppliedStore DEF Written
  <2>3. Grows /\ StoreInv' /\ EffectsInv' /\ VersionStandsForRow'
    BY <1>0, <1>1, AppliedStore, AppliedEffects
  <2>4. /\ Len(effects) \in Nat /\ DOMAIN effects = 1 .. Len(effects)
        /\ DOMAIN effects' = 1 .. Len(effects) + 1
        /\ \A n \in DOMAIN effects : effects'[n] = effects[n]
        /\ effects'[Len(effects) + 1] = [by |-> r, before |-> Now(r), after |-> Written(r)]
    BY <1>0, <1>1, AppliedEffects
  <2>5. \A n \in DOMAIN effects' : effects'[n].by \in Known
    <3>1. TAKE n \in DOMAIN effects'
    <3>2. CASE n \in DOMAIN effects
      BY <2>4, <3>2 DEF Known
    <3>3. CASE n = Len(effects) + 1
      BY <2>4, <3>3
    <3> QED BY <2>4, <3>2, <3>3
  <2>6. \E n \in DOMAIN effects' : effects'[n].by.key = r.key /\ o.rows = effects'[n].after
    <3>1. Len(effects) + 1 \in DOMAIN effects'
      BY <2>4
    <3> QED BY <2>1, <2>4, <3>1
  <2> QED BY <2>1, <2>2, <2>3, <2>5, <2>6
<1>2. CASE ~Applies(r)
  <2>1. UNCHANGED dbVars
    BY <1>2 DEF Execute
  <2>2. store' = store /\ clock' = clock /\ answers' = answers /\ held' = held /\ effects' = effects
    BY <2>1 DEF dbVars
  <2>3. StoreInv'
    BY <2>2 DEF StoreInv, IsPage, Real, PageRow, IgnoringNotes
  <2>4. EffectsInv' /\ VersionStandsForRow'
    <3>1. EffectsInv'
      BY <2>2, Zenon DEF EffectsInv, Real, Rows
    <3>2. VersionStandsForRow'
      BY <2>2, Zenon DEF VersionStandsForRow, IgnoringNotes
    <3> QED BY <3>1, <3>2
  <2>5. Grows
    BY <2>2 DEF Grows, StoreInv
  <2>6. \A n \in DOMAIN effects' : effects'[n].by \in Known
    BY <2>2 DEF Known
  <2>7. CASE r.key \in DOMAIN answers
    <3>1. o.kind = "ok" /\ o.rows = answers[r.key]
      BY <2>7 DEF Outcome
    <3>2. PICK n \in DOMAIN effects : effects[n].by.key = r.key /\ o.rows = effects[n].after
      BY <2>7, <3>1 DEF EffectsInv
    <3>3. effects[n].by \in Known
      BY DEF Known
    <3>4. Rows(effects[n].by) = Rows(r)
      BY <3>2, <3>3 DEF RequestsInv
    <3>5. DOMAIN o.rows = Rows(r) /\ Real(o.rows)
      BY <3>2, <3>4 DEF EffectsInv
    <3> QED BY <2>2, <2>3, <2>4, <2>5, <2>6, <3>1, <3>2, <3>5 DEF Real
  <2>8. CASE r.key \notin DOMAIN answers
    <3>1. o.kind = "conflict" /\ o.rows = Now(r)
      BY <1>2, <2>8 DEF Outcome, Applies
    <3>2. DOMAIN o.rows = Rows(r) /\ \A i \in Rows(r) : o.rows[i] = store[i]
      BY <3>1 DEF Now
    <3>3. \A i \in Rows(r) : store[i] \in held[i]
      BY <1>0, Asking DEF StoreInv, IsPage, Real
    <3> QED BY <2>2, <2>3, <2>4, <2>5, <2>6, <3>1, <3>2, <3>3
  <2> QED BY <2>7, <2>8
<1> QED BY <1>1, <1>2

(* An undo finds what its gesture wrote and writes back what that had found. *)
LEMMA UndoneStep ==
  ASSUME StoreInv, RequestsInv, EffectsInv, VersionStandsForRow, UndoRestores, DecisionsInv,
         NEW r \in Asked, Execute(r), surface' = surface, minted' = minted
  PROVE  UndoRestores'
<1>0. r \in Known /\ Grounded(r)
  BY DEF Known, RequestsInv
<1>1. CASE Applies(r)
  <2> DEFINE N == Len(effects) + 1
  <2>1. /\ Len(effects) \in Nat /\ DOMAIN effects = 1 .. Len(effects)
        /\ DOMAIN effects' = 1 .. N
        /\ \A n \in DOMAIN effects : effects'[n] = effects[n]
        /\ effects'[N] = [by |-> r, before |-> Now(r), after |-> Written(r)]
    BY <1>0, <1>1, AppliedEffects
  <2>2. ASSUME NEW n \in DOMAIN effects', effects'[n].by.from = "undo"
        PROVE  \E m \in 1 .. (n - 1) :
                 /\ effects'[m].by.from = "decide" /\ effects'[m].by.n = effects'[n].by.n
                 /\ \A i \in DOMAIN effects'[n].before :
                       /\ effects'[n].before[i] = effects'[m].after[i]
                       /\ effects'[n].after[i].triage = effects'[m].before[i].triage
    <3>1. CASE n \in DOMAIN effects
      <4>1. effects'[n] = effects[n]
        BY <2>1, <3>1
      <4>2. PICK m \in 1 .. (n - 1) :
                 /\ effects[m].by.from = "decide" /\ effects[m].by.n = effects[n].by.n
                 /\ \A i \in DOMAIN effects[n].before :
                       /\ effects[n].before[i] = effects[m].after[i]
                       /\ effects[n].after[i].triage = effects[m].before[i].triage
        BY <2>2, <3>1, <4>1 DEF UndoRestores
      <4>3. m \in DOMAIN effects
        BY <2>1, <3>1
      <4>4. effects'[m] = effects[m]
        BY <2>1, <4>3
      <4> QED BY <4>1, <4>2, <4>4
    <3>2. CASE n = N
      <4>1. /\ effects'[n].by = r /\ effects'[n].before = Now(r) /\ effects'[n].after = Written(r)
        BY <2>1, <3>2
      <4>2. r.from = "undo" /\ surface # "pipeline"
        BY <1>0, <2>2, <4>1 DEF Grounded
      <4>3. Wrote(r.n, r.read, [i \in Rows(r) |-> r.change.to])
        BY <4>2 DEF DecisionsInv, Offered
      <4>4. DOMAIN r.read = Rows(r)
        BY <1>0 DEF Grounded
      <4>5. PICK m \in DOMAIN effects :
              /\ effects[m].by.from = "decide" /\ effects[m].by.n = r.n
              /\ \A i \in Rows(r) : /\ r.read[i] = effects[m].after[i]
                                    /\ r.change.to = effects[m].before[i].triage
        BY <4>3, <4>4 DEF Wrote
      <4>6. r.change.kind # "note" /\ r.change \in PageChange /\ Rows(r) \subseteq Items
        BY <1>0, <4>2, Asking DEF Grounded, Triages
      <4>7. ASSUME NEW i \in Rows(r)
            PROVE  store[i] = r.read[i] /\ Written(r)[i].triage = r.change.to
        <5>1. store[i] = r.read[i]
          BY <1>0, <1>1, <4>2, <4>6, FoundAsRead DEF Applies, IgnoringNotes
        <5>2. Written(r)[i].triage = r.change.to
          BY <4>2, <4>6, WrittenRow
        <5> QED BY <5>1, <5>2
      <4>8. DOMAIN Now(r) = Rows(r) /\ \A i \in Rows(r) : Now(r)[i] = store[i]
        BY DEF Now
      <4>9. m \in 1 .. (n - 1) /\ effects'[m] = effects[m]
        BY <2>1, <3>2
      <4> QED BY <4>1, <4>5, <4>7, <4>8, <4>9
    <3> QED BY <2>1, <3>1, <3>2
  <2> QED BY <2>2 DEF UndoRestores
<1>2. CASE ~Applies(r)
  BY <1>2 DEF Execute, dbVars, UndoRestores
<1> QED BY <1>1, <1>2

-----------------------------------------------------------------------------
(* What a step of the server, the network or somebody else leaves standing.  *)
ServerKeeps ==
    /\ Grows /\ StoreInv' /\ RequestsInv' /\ EffectsInv' /\ ReplyInv'
    /\ VersionStandsForRow' /\ UndoRestores'
    /\ line' = line /\ Asked' \subseteq Asked /\ Known' \subseteq Known

LEMMA RequestsKept ==
  ASSUME StoreInv, RequestsInv, Grows, Listing(line'), Known' \subseteq Known
  PROVE  RequestsInv'
<1>1. ASSUME NEW r \in Known'
      PROVE  Grounded(r)'
  BY <1>1, GroundedKept DEF RequestsInv
<1>2. \A r, q \in Known' : r.key = q.key => Rows(r) = Rows(q)
  BY DEF RequestsInv
<1> QED BY <1>1, <1>2 DEF RequestsInv, Rows

LEMMA AskedFirst ==
  ASSUME NEW r \in {line[n] : n \in DOMAIN line}, r.change.kind # "refresh"
  PROVE  r \in Asked /\ r \in Known /\ r # Refresh
<1>1. Refresh.change.kind = "refresh"
  BY DEF Refresh
<1> QED BY <1>1 DEF Asked, Known

(* A step that writes no table.                                              *)
LEMMA TablesStand ==
  ASSUME StoreInv, EffectsInv, VersionStandsForRow, UndoRestores, UNCHANGED dbVars,
         surface' = surface, minted' \in Nat, minted <= minted'
  PROVE  Grows /\ StoreInv' /\ EffectsInv' /\ VersionStandsForRow' /\ UndoRestores'
<1>1. store' = store /\ clock' = clock /\ answers' = answers /\ held' = held /\ effects' = effects
  BY DEF dbVars
<1>2. StoreInv'
  BY <1>1 DEF StoreInv, IsPage, Real, PageRow, IgnoringNotes
<1>3. EffectsInv'
  BY <1>1, Zenon DEF EffectsInv, Real, Rows
<1>4. VersionStandsForRow'
  BY <1>1, Zenon DEF VersionStandsForRow, IgnoringNotes
<1>5. Grows
  BY <1>1 DEF Grows
<1>6. UndoRestores'
  BY <1>1 DEF UndoRestores
<1> QED BY <1>2, <1>3, <1>4, <1>5, <1>6

LEMMA HandleKeeps ==
  ASSUME StoreInv, RequestsInv, EffectsInv, VersionStandsForRow, UndoRestores, DecisionsInv,
         Handle, surface' = surface, minted' = minted
  PROVE  ServerKeeps
<1>1. PICK r \in {line[n] : n \in DOMAIN line} :
        /\ AtServer(r) /\ r.change.kind # "refresh" /\ Execute(r)
        /\ \E rendered \in IF Outcome(r).kind = "ok" THEN {None, store'} ELSE {None} :
              reply' = [kind |-> Outcome(r).kind, rows |-> Outcome(r).rows, page |-> rendered]
        /\ UNCHANGED <<line, wireVars>>
  BY DEF Handle
<1>2. r \in Asked /\ r \in Known /\ r # Refresh
  BY <1>1, AskedFirst
<1>3. PICK o : o = Outcome(r)
  OBVIOUS
<1>4. /\ Grows /\ StoreInv' /\ EffectsInv' /\ VersionStandsForRow'
      /\ \A n \in DOMAIN effects' : effects'[n].by \in Known
      /\ o.kind \in {"ok", "conflict"} /\ DOMAIN o.rows = Rows(r)
      /\ \A i \in Rows(r) : o.rows[i] \in held'[i]
      /\ o.kind = "ok" =>
            \E n \in DOMAIN effects' : effects'[n].by.key = r.key /\ o.rows = effects'[n].after
  BY <1>1, <1>2, <1>3, Executed
<1>5. UndoRestores'
  BY <1>1, <1>2, UndoneStep
<1>6. line' = line /\ strays' = strays
  BY <1>1 DEF wireVars
<1>7. Asked' = Asked
  BY <1>6 DEF Asked, Refresh
<1>8. Known' \subseteq Known
  BY <1>4, <1>7 DEF Known
<1>9. RequestsInv'
  BY <1>4, <1>6, <1>8, RequestsKept DEF RequestsInv
<1>10. ReplyInv'
  <2>1. PICK p : /\ p = None \/ (o.kind = "ok" /\ p = store')
                 /\ reply' = [kind |-> o.kind, rows |-> o.rows, page |-> p]
    BY <1>1, <1>3
  <2>2. reply'.kind = o.kind /\ reply'.rows = o.rows /\ reply'.page = p
    BY <2>1
  <2>3. line' # <<>> /\ Head(line') = r
    BY <1>1, <1>6 DEF AtServer
  <2>4. IsPage(store)'
    BY <1>4 DEF StoreInv
  <2>5. reply'.page # None => reply'.kind \in {"ok", "page"} /\ IsPage(reply.page)'
    BY <2>1, <2>2, <2>4 DEF IsPage, Real
  <2>6. Head(line') # Refresh' 
    BY <1>2, <2>3 DEF Refresh
  <2>7. DOMAIN reply'.rows = Rows(Head(line))' /\ Real(reply.rows)'
    BY <1>4, <2>2, <2>3 DEF Real, Rows
  <2>8. reply'.kind = "ok" => Answer(Head(line), reply.rows)'
    BY <1>4, <2>2, <2>3 DEF Answer
  <2> QED BY <1>4, <2>2, <2>3, <2>5, <2>6, <2>7, <2>8 DEF ReplyInv
<1> QED BY <1>4, <1>5, <1>6, <1>7, <1>8, <1>9, <1>10 DEF ServerKeeps

LEMMA RenderKeeps ==
  ASSUME StoreInv, RequestsInv, EffectsInv, VersionStandsForRow, UndoRestores, DecisionsInv,
         Render, surface' = surface, minted' = minted
  PROVE  ServerKeeps
<1>1. PICK r \in {line[n] : n \in DOMAIN line} :
        /\ AtServer(r) /\ r.change.kind = "refresh"
        /\ reply' = [kind |-> "page", rows |-> <<>>, page |-> store]
        /\ UNCHANGED <<dbVars, line, wireVars>>
  BY DEF Render
<1>2. /\ UNCHANGED dbVars /\ line' = line /\ strays' = strays
      /\ store' = store /\ effects' = effects
  BY <1>1 DEF wireVars, dbVars
<1>3. Grows /\ StoreInv' /\ EffectsInv' /\ VersionStandsForRow' /\ UndoRestores'
  BY <1>2, TablesStand DEF StoreInv
<1>4. Asked' = Asked /\ Known' = Known
  BY <1>2 DEF Asked, Known, Refresh
<1>5. RequestsInv'
  BY <1>2, <1>3, <1>4, RequestsKept DEF RequestsInv
<1>6. r = Refresh
  <2>1. ASSUME r # Refresh
        PROVE  FALSE
    <3>1. r \in Known
      BY <2>1 DEF Known, Asked
    <3> QED BY <1>1, <3>1, Asking DEF RequestsInv
  <2> QED BY <2>1
<1>7. ReplyInv'
  <2>1. reply'.kind = "page" /\ reply'.rows = <<>> /\ reply'.page = store
    BY <1>1
  <2>2. line' # <<>> /\ Head(line') = Refresh'
    BY <1>1, <1>2, <1>6 DEF AtServer, Refresh
  <2>3. IsPage(reply.page)'
    BY <1>2, <1>3, <2>1 DEF StoreInv, IsPage, Real
  <2>4. DOMAIN reply'.rows = {}
    BY <2>1, EmptyListing
  <2> QED BY <2>1, <2>2, <2>3, <2>4 DEF ReplyInv
<1> QED BY <1>2, <1>3, <1>4, <1>5, <1>7 DEF ServerKeeps

(* The two ways a request fails before it ran.                               *)
LEMMA FailureKeeps ==
  ASSUME StoreInv, RequestsInv, EffectsInv, VersionStandsForRow, UndoRestores,
         NEW r \in {line[n] : n \in DOMAIN line}, AtServer(r), r.change.kind # "refresh",
         NEW kind \in {"auth", "error", "thrown"},
         reply' = [kind |-> kind, rows |-> <<>>, page |-> None],
         strays' \in {strays, strays \union {r}},
         UNCHANGED dbVars, line' = line, surface' = surface, minted' = minted
  PROVE  ServerKeeps
<1>1. Grows /\ StoreInv' /\ EffectsInv' /\ VersionStandsForRow' /\ UndoRestores'
  BY TablesStand DEF StoreInv
<1>2. r \in Asked /\ r # Refresh
  BY AskedFirst
<1>3. Asked' \subseteq Asked
  BY <1>2 DEF Asked, Refresh
<1>4. Known' \subseteq Known
  BY <1>3 DEF Known, dbVars
<1>5. RequestsInv'
  BY <1>1, <1>4, RequestsKept DEF RequestsInv
<1>6. ReplyInv'
  <2>1. reply'.kind = kind /\ reply'.rows = <<>> /\ reply'.page = None
    OBVIOUS
  <2>2. line' # <<>> /\ Head(line') # Refresh'
    BY <1>2 DEF AtServer, Refresh
  <2>3. DOMAIN reply'.rows = {}
    BY <2>1, EmptyListing
  <2> QED BY <2>1, <2>2, <2>3 DEF ReplyInv
<1> QED BY <1>1, <1>3, <1>4, <1>5, <1>6 DEF ServerKeeps

LEMMA LoseReplyKeeps ==
  ASSUME StoreInv, RequestsInv, EffectsInv, ReplyInv, VersionStandsForRow, UndoRestores,
         LoseReply, surface' = surface, minted' = minted
  PROVE  ServerKeeps
<1>1. /\ reply # None /\ reply.kind = "ok" /\ reply' = [kind |-> "thrown", rows |-> <<>>, page |-> None]
      /\ UNCHANGED dbVars /\ line' = line /\ strays' = strays /\ effects' = effects
  BY DEF LoseReply, Thrown, dbVars
<1>2. Grows /\ StoreInv' /\ EffectsInv' /\ VersionStandsForRow' /\ UndoRestores'
  BY <1>1, TablesStand DEF StoreInv
<1>3. Asked' = Asked /\ Known' = Known
  BY <1>1 DEF Asked, Known, Refresh
<1>5. RequestsInv'
  BY <1>1, <1>2, <1>3, RequestsKept DEF RequestsInv
<1>6. ReplyInv'
  <2>1. reply'.kind = "thrown" /\ reply'.rows = <<>> /\ reply'.page = None
    BY <1>1
  <2>2. line' # <<>> /\ Head(line') # Refresh'
    BY <1>1 DEF ReplyInv, Refresh
  <2>3. DOMAIN reply'.rows = {}
    BY <2>1, EmptyListing
  <2> QED BY <2>1, <2>2, <2>3 DEF ReplyInv
<1> QED BY <1>1, <1>2, <1>3, <1>5, <1>6 DEF ServerKeeps

(* The rows under an answer that is on its way do not go.                    *)
LEMMA ReplyKept ==
  ASSUME StoreInv, RequestsInv, ReplyInv, Grows, reply' = reply,
         line # <<>> => line' # <<>> /\ Head(line') = Head(line)
  PROVE  ReplyInv'
<1> SUFFICES ASSUME reply # None
             PROVE  ReplyInv'
  BY DEF ReplyInv
<1>1. Real(reply.rows)' \/ reply.kind \notin {"ok", "conflict"}
  <2>1. CASE reply.kind \in {"ok", "conflict"}
    <3>1. DOMAIN reply.rows = Rows(Head(line)) /\ Real(reply.rows)
      BY <2>1 DEF ReplyInv
    <3>2. Head(line) \in Known
      <4>1. line # <<>> /\ Head(line) # Refresh
        BY <2>1 DEF ReplyInv
      <4>2. Head(line) = line[1] /\ 1 \in DOMAIN line
        BY <4>1, Shifted DEF RequestsInv
      <4> QED BY <4>1, <4>2 DEF Known, Asked
    <3>3. DOMAIN reply.rows \subseteq Items
      BY <3>1, <3>2, Asking DEF RequestsInv
    <3>4. \A i \in DOMAIN reply.rows : reply.rows[i] \in held'[i]
      BY <3>1, <3>3 DEF Grows, Real
    <3> QED BY <3>4 DEF Real
  <2> QED BY <2>1
<1>2. reply.page # None => IsPage(reply.page)'
  <2>1. PICK p : p = reply.page
    OBVIOUS
  <2>2. p # None => IsPage(p)'
    BY <2>1, PageKept DEF ReplyInv
  <2> QED BY <2>1, <2>2 DEF IsPage, Real
<1>3. reply.kind = "ok" => Answer(Head(line), reply.rows)'
  BY DEF ReplyInv, Answer, Grows
<1> QED BY <1>1, <1>2, <1>3 DEF ReplyInv, Rows, Refresh

LEMMA StrayRunsKeeps ==
  ASSUME StoreInv, RequestsInv, EffectsInv, ReplyInv, VersionStandsForRow, UndoRestores,
         DecisionsInv, StrayRuns, surface' = surface, minted' = minted
  PROVE  ServerKeeps
<1>1. PICK r \in strays : /\ strays' = strays \ {r} /\ Execute(r)
                          /\ line' = line /\ reply' = reply
  BY DEF StrayRuns
<1>2. r \in Asked /\ r \in Known
  BY DEF Asked, Known
<1>3. /\ Grows /\ StoreInv' /\ EffectsInv' /\ VersionStandsForRow'
      /\ \A n \in DOMAIN effects' : effects'[n].by \in Known
  BY <1>1, <1>2, Executed
<1>4. UndoRestores'
  BY <1>1, <1>2, UndoneStep
<1>5. Asked' \subseteq Asked
  BY <1>1 DEF Asked, Refresh
<1>6. Known' \subseteq Known
  BY <1>3, <1>5 DEF Known
<1>7. RequestsInv'
  BY <1>1, <1>3, <1>6, RequestsKept DEF RequestsInv
<1>8. ReplyInv'
  BY <1>1, <1>3, ReplyKept
<1> QED BY <1>1, <1>3, <1>4, <1>5, <1>6, <1>7, <1>8 DEF ServerKeeps

LEMMA ElsewhereKeeps ==
  ASSUME StoreInv, RequestsInv, EffectsInv, ReplyInv, VersionStandsForRow, UndoRestores,
         NEW c \in Foreign[surface], Elsewhere(c), surface' = surface, minted' = minted
  PROVE  ServerKeeps
<1>1. PICK i \in Items :
        /\ clock' = clock + 1
        /\ store' = [store EXCEPT ![i] = [Applied(c, store[i]) EXCEPT !.at = clock + 1]]
        /\ held' = [held EXCEPT ![i] = held[i] \union {store'[i]}]
        /\ answers' = answers /\ effects' = effects /\ line' = line /\ reply' = reply /\ strays' = strays
  BY DEF Elsewhere
<1>2. c \in PageChange
  BY PagesAssumption DEF PageChange, StoreInv
<1>3. PICK row : row = [Applied(c, store[i]) EXCEPT !.at = clock + 1]
  OBVIOUS
<1>4. row \in PageRow /\ row.at = clock + 1
  <2>1. PICK a : a = Applied(c, store[i])
    OBVIOUS
  <2>2. a \in PageRow
    BY <1>2, <2>1, AppliedRow DEF StoreInv, IsPage
  <2>3. clock + 1 \in Nat
    BY DEF StoreInv
  <2> QED BY <1>3, <2>1, <2>2, <2>3, Stamped
<1>5. store \in [Items -> PageRow] /\ held \in [Items -> SUBSET PageRow]
  BY DEF StoreInv, IsPage
<1>6. /\ store' \in [Items -> PageRow]
      /\ \A j \in Items : store'[j] = IF j = i THEN row ELSE store[j]
  BY <1>1, <1>3, <1>4, <1>5
<1>7. held' = [j \in Items |-> held[j] \union {store'[j]}]
  <2>1. \A j \in Items : store[j] \in held[j]
    BY DEF StoreInv, IsPage, Real
  <2>2. \A j \in Items : held'[j] = held[j] \union {store'[j]}
    BY <1>1, <1>5, <1>6, <2>1
  <2>3. held' = [j \in Items |-> held'[j]]
    BY <1>1, <1>5
  <2> QED BY <2>2, <2>3
<1>8. \A j \in Items :
        \/ store'[j].at = clock + 1 /\ clock' = clock + 1
        \/ store'[j].at = store[j].at /\ IgnoringNotes(store'[j]) = IgnoringNotes(store[j])
  BY <1>1, <1>4, <1>6
<1>9. minted' \in Nat
  BY DEF StoreInv
<1>10. StoreInv' /\ \A j \in Items : held[j] \subseteq held'[j]
  BY <1>1, <1>6, <1>7, <1>8, <1>9, StoreMoves
<1>11. Grows
  BY <1>1, <1>10 DEF Grows, StoreInv
<1>12. EffectsInv'
  <2>1. ASSUME NEW n \in DOMAIN effects
        PROVE  Real(effects[n].after)'
    <3>1. effects[n].by \in Known
      BY DEF Known
    <3>2. DOMAIN effects[n].after \subseteq Items
      BY <3>1, Asking DEF RequestsInv, EffectsInv
    <3>3. \A j \in DOMAIN effects[n].after : effects[n].after[j] \in held'[j]
      BY <1>10, <3>2 DEF EffectsInv, Real
    <3> QED BY <1>1, <3>3 DEF Real
  <2> QED BY <1>1, <2>1 DEF EffectsInv, Rows
<1>13. VersionStandsForRow' /\ UndoRestores'
  <2>1. VersionStandsForRow'
    BY <1>1, Zenon DEF VersionStandsForRow, IgnoringNotes
  <2>2. UndoRestores'
    BY <1>1 DEF UndoRestores
  <2> QED BY <2>1, <2>2
<1>14. Asked' = Asked /\ Known' = Known
  BY <1>1 DEF Asked, Known, Refresh
<1>15. RequestsInv'
  BY <1>1, <1>11, <1>14, RequestsKept DEF RequestsInv
<1>16. ReplyInv'
  BY <1>1, <1>11, ReplyKept
<1> QED BY <1>1, <1>10, <1>11, <1>12, <1>13, <1>14, <1>15, <1>16 DEF ServerKeeps

LEMMA ServerStepKeeps ==
  ASSUME StoreInv, RequestsInv, EffectsInv, ReplyInv, VersionStandsForRow, UndoRestores,
         DecisionsInv, ServerStep
  PROVE  ServerKeeps /\ UNCHANGED <<surface, minted, decisionVars, pipelineVars>>
<1>1. surface' = surface /\ minted' = minted
  BY DEF ServerStep
<1>2. CASE Handle
  BY <1>1, <1>2, HandleKeeps DEF ServerStep
<1>3. CASE Render
  BY <1>1, <1>3, RenderKeeps DEF ServerStep
<1>4. CASE \E kind \in {"auth", "error"} : Refuse(kind)
  <2>1. PICK kind \in {"auth", "error"} : Refuse(kind)
    BY <1>4
  <2> QED BY <1>1, <2>1, FailureKeeps DEF ServerStep, Refuse
<1>5. CASE CutOff
  BY <1>1, <1>5, FailureKeeps DEF ServerStep, CutOff, Thrown
<1>6. CASE LoseReply
  BY <1>1, <1>6, LoseReplyKeeps DEF ServerStep
<1>7. CASE StrayRuns
  BY <1>1, <1>7, StrayRunsKeeps DEF ServerStep
<1>8. CASE \E c \in Foreign[surface] : Elsewhere(c)
  BY <1>1, <1>8, ElsewhereKeeps DEF ServerStep
<1> QED BY <1>2, <1>3, <1>4, <1>5, <1>6, <1>7, <1>8 DEF ServerStep, Network

-----------------------------------------------------------------------------
(* How the pages stand while the server works.                               *)
LEMMA OfferedKept ==
  ASSUME Grows, Offered, offers' \subseteq offers, undoing' = undoing,
         \A r \in Asked' : r \in Asked \/ r.from # "undo"
  PROVE  Offered'
<1>1. \A o \in offers' : Offer(o)'
  BY OfferKept DEF Offered
<1>2. \A n \in DOMAIN undoing' : \A g \in undoing'[n] : Group(n, g)'
  BY GroupKept DEF Offered
<1>3. ASSUME NEW r \in Asked', r.from = "undo"
      PROVE  Wrote(r.n, r.read, [i \in Rows(r) |-> r.change.to])'
  BY <1>3, WroteKept DEF Offered
<1> QED BY <1>1, <1>2, <1>3 DEF Offered, Rows

LEMMA InFlightKept ==
  ASSUME Grows, InFlight, gesture' = gesture, made' = made, gesture # None,
         Sole(line', gesture.targets, made)
  PROVE  InFlight'
<1>1. PICK g : g = gesture
  OBVIOUS
<1>2. Real(g.targets)'
  BY <1>1, RealKept DEF InFlight, Some
<1>3. \A i \in DOMAIN g.targets : Kept(g.snapshot[i], i)'
  <2>1. TAKE i \in DOMAIN g.targets
  <2>2. i \in Items /\ Kept(g.snapshot[i], i)
    BY <1>1 DEF InFlight, Some
  <2> QED BY <2>2, KeptKept
<1> QED BY <1>1, <1>2, <1>3 DEF InFlight, Real, Kept

LEMMA InFlightStands ==
  ASSUME Grows, InFlight, gesture' = gesture, made' = made,
         gesture = None => Idle(line'),
         gesture # None => Sole(line', gesture.targets, made)
  PROVE  InFlight'
<1>1. CASE gesture = None
  BY <1>1 DEF InFlight
<1>2. CASE gesture # None
  BY <1>2, InFlightKept
<1> QED BY <1>1, <1>2

LEMMA OverlayStands ==
  ASSUME Grows, Overlay, base' = base, patches' = patches, gesture' = gesture
  PROVE  Overlay'
<1>1. IsPage(base)'
  <2>1. PICK b : b = base
    OBVIOUS
  <2>2. IsPage(b)'
    BY <2>1, PageKept DEF Overlay
  <2> QED BY <2>1, <2>2 DEF IsPage, Real
<1>2. ASSUME NEW i \in Items, ~Guessed(i)'
      PROVE  Kept(patches[i], i)'
  <2>1. PICK row : row = patches[i]
    OBVIOUS
  <2>2. Kept(row, i)
    BY <1>2, <2>1 DEF Overlay, Guessed
  <2>3. Kept(row, i)'
    BY <2>2, KeptKept
  <2> QED BY <2>1, <2>3 DEF Kept
<1> QED BY <1>1, <1>2 DEF Overlay

LEMMA DecisionsStand ==
  ASSUME DecisionsInv, ServerKeeps, UNCHANGED decisionVars
  PROVE  DecisionsInv'
<1> SUFFICES ASSUME surface # "pipeline"
             PROVE  (Distinct /\ Overlay /\ InFlight /\ Offered)'
  BY DEF DecisionsInv, ServerKeeps, Grows
<1>1. /\ Grows /\ line' = line /\ Asked' \subseteq Asked /\ Known' \subseteq Known
      /\ Distinct /\ Overlay /\ InFlight /\ Offered
  BY DEF ServerKeeps, DecisionsInv
<1>2. /\ base' = base /\ patches' = patches /\ gesture' = gesture /\ undoing' = undoing
      /\ offers' = offers /\ made' = made
  BY DEF decisionVars
<1>3. Distinct'
  BY <1>1 DEF Distinct
<1>4. Overlay'
  BY <1>1, <1>2, OverlayStands
<1>5. InFlight'
  BY <1>1, <1>2, InFlightStands DEF InFlight
<1>6. Offered'
  BY <1>1, <1>2, OfferedKept
<1> QED BY <1>3, <1>4, <1>5, <1>6

-----------------------------------------------------------------------------
(* What a step of the page itself leaves standing: it reads the tables and   *)
(* writes its line.                                                          *)
PageKeeps(S) ==
    /\ Grows /\ StoreInv' /\ RequestsInv' /\ EffectsInv'
    /\ VersionStandsForRow' /\ UndoRestores'
    /\ Asked' \subseteq Asked \union S /\ Known' \subseteq Known \union S

LEMMA PageStepKeeps ==
  ASSUME StoreInv, RequestsInv, EffectsInv, VersionStandsForRow, UndoRestores,
         UNCHANGED dbVars, strays' = strays, surface' = surface,
         minted' \in Nat, minted <= minted',
         NEW S, Listing(line'),
         \A n \in DOMAIN line' : line'[n] \in {line[m] : m \in DOMAIN line} \union {Refresh} \union S,
         \A r \in S : /\ Grounded(r)'
                      /\ \A q \in Known \union S : q.key = r.key => Rows(q) = Rows(r)
  PROVE  PageKeeps(S)
<1>1. Grows /\ StoreInv' /\ EffectsInv' /\ VersionStandsForRow' /\ UndoRestores'
  BY TablesStand
<1>2. Refresh' = Refresh
  BY DEF Refresh
<1>3. Asked' \subseteq Asked \union S
  BY <1>2 DEF Asked
<1>4. Known' \subseteq Known \union S
  BY <1>3 DEF Known, dbVars
<1>5. RequestsInv'
  <2>1. ASSUME NEW r \in Known'
        PROVE  Grounded(r)'
    BY <1>1, <1>4, <2>1, GroundedKept DEF RequestsInv
  <2>2. \A r, q \in Known' : r.key = q.key => Rows(r) = Rows(q)
    BY <1>4 DEF RequestsInv
  <2> QED BY <2>1, <2>2 DEF RequestsInv, Rows
<1> QED BY <1>1, <1>3, <1>4, <1>5 DEF PageKeeps

LEMMA LineAppend ==
  ASSUME NEW s, Listing(s), NEW e
  PROVE  /\ Listing(Append(s, e))
         /\ \A n \in DOMAIN Append(s, e) : Append(s, e)[n] \in {s[m] : m \in DOMAIN s} \union {e}
         /\ s # <<>> => Append(s, e) # <<>> /\ Head(Append(s, e)) = Head(s)
         /\ Idle(s) /\ e.from # "decide" => Idle(Append(s, e))
         /\ Idle(s) /\ e.from = "decide" => Sole(Append(s, e), e.read, e.n)
         /\ \A targets, k : Sole(s, targets, k) /\ e.from # "decide" => Sole(Append(s, e), targets, k)
<1>0. PICK t : t = Append(s, e)
  OBVIOUS
<1>1. /\ Listing(t) /\ Len(s) \in Nat /\ DOMAIN s = 1 .. Len(s)
      /\ DOMAIN t = 1 .. Len(s) + 1 /\ t[Len(s) + 1] = e
      /\ \A n \in DOMAIN s : t[n] = s[n]
  BY <1>0, Appended
<1>2. \A n \in DOMAIN t : n \in DOMAIN s \/ n = Len(s) + 1
  BY <1>1
<1>3. s # <<>> => t # <<>> /\ Head(t) = Head(s)
  <2>1. s \in Seq({s[n] : n \in DOMAIN s} \union {e})
    BY DEF Listing
  <2> QED BY <1>0, <2>1
<1>4. Idle(s) /\ e.from # "decide" => Idle(t)
  BY <1>1, <1>2 DEF Idle
<1>5. Idle(s) /\ e.from = "decide" => Sole(t, e.read, e.n)
  BY <1>1, <1>2 DEF Idle, Sole
<1>6. ASSUME NEW targets, NEW k, Sole(s, targets, k), e.from # "decide"
      PROVE  Sole(t, targets, k)
  <2>1. \A n \in DOMAIN t : t[n].from = "decide" => n \in DOMAIN s /\ t[n] = s[n]
    BY <1>1, <1>2, <1>6
  <2> QED BY <1>6, <2>1 DEF Sole
<1>7. \A n \in DOMAIN t : t[n] \in {s[m] : m \in DOMAIN s} \union {e}
  BY <1>1, <1>2
<1> QED BY <1>0, <1>1, <1>3, <1>4, <1>5, <1>6, <1>7

LEMMA LineTail ==
  ASSUME NEW s, Listing(s), s # <<>>
  PROVE  /\ Listing(Tail(s)) /\ Head(s) \in {s[m] : m \in DOMAIN s}
         /\ \A n \in DOMAIN Tail(s) : Tail(s)[n] \in {s[m] : m \in DOMAIN s}
         /\ Idle(s) => Idle(Tail(s))
         /\ \A targets, k : Sole(s, targets, k) =>
               /\ Sole(Tail(s), targets, k)
               /\ Head(s).from = "decide" =>
                     Idle(Tail(s)) /\ Head(s).read = targets /\ Head(s).n = k
<1>0. PICK t : t = Tail(s)
  OBVIOUS
<1>1. /\ Listing(t) /\ Len(s) \in Nat \ {0} /\ DOMAIN s = 1 .. Len(s)
      /\ DOMAIN t = 1 .. Len(s) - 1 /\ Head(s) = s[1] /\ 1 \in DOMAIN s
      /\ \A n \in DOMAIN t : n + 1 \in DOMAIN s /\ t[n] = s[n + 1]
  BY <1>0, Shifted
<1>2. Head(s) \in {s[m] : m \in DOMAIN s} /\ \A n \in DOMAIN t : t[n] \in {s[m] : m \in DOMAIN s}
  BY <1>1
<1>3. Idle(s) => Idle(t)
  BY <1>1 DEF Idle
<1>4. ASSUME NEW targets, NEW k, Sole(s, targets, k)
      PROVE  Sole(t, targets, k)
  <2>1. ASSUME NEW n \in DOMAIN t, t[n].from = "decide"
        PROVE  t[n].read = targets /\ t[n].n = k
    BY <1>1, <1>4, <2>1 DEF Sole
  <2>2. ASSUME NEW n \in DOMAIN t, t[n].from = "decide", NEW m \in DOMAIN t, t[m].from = "decide"
        PROVE  m = n
    <3>1. m + 1 = n + 1
      BY <1>1, <1>4, <2>2 DEF Sole
    <3> QED BY <1>1, <3>1
  <2> QED BY <2>1, <2>2 DEF Sole
<1>5. ASSUME NEW targets, NEW k, Sole(s, targets, k), Head(s).from = "decide"
      PROVE  Idle(t) /\ Head(s).read = targets /\ Head(s).n = k
  <2>1. Head(s).read = targets /\ Head(s).n = k
    BY <1>1, <1>5 DEF Sole
  <2>2. ASSUME NEW n \in DOMAIN t, t[n].from = "decide"
        PROVE  FALSE
    <3>1. n + 1 = 1
      BY <1>1, <1>5, <2>2 DEF Sole
    <3> QED BY <1>1, <2>2, <3>1
  <2> QED BY <2>1, <2>2 DEF Idle
<1> QED BY <1>0, <1>1, <1>2, <1>3, <1>4, <1>5

-----------------------------------------------------------------------------
(* The steps of /jobs and /queue.                                            *)
ServerInv ==
    /\ StoreInv /\ RequestsInv /\ EffectsInv /\ ReplyInv
    /\ VersionStandsForRow /\ UndoRestores

\* What is left of the line: some of its requests, and renderings.
Remains(l) ==
    Listing(l) /\ \A m \in DOMAIN l : l[m] \in {line[k] : k \in DOMAIN line} \union {Refresh}

\* The batch r goes out behind l.
Sending(l, r, from, n, rs, choice) ==
    /\ from = "decide" \/ from = "undo"
    /\ Some(rs, PostingRow) /\ Real(rs) /\ choice \in Texts
    /\ r = Batch(from, n, rs, choice)
    /\ Remains(l) /\ line' = Append(l, r)
    /\ minted' = minted + 1

LEMMA BatchSent ==
  ASSUME ServerInv, DecisionsInv, surface # "pipeline",
         UNCHANGED dbVars, strays' = strays, surface' = surface,
         NEW l, NEW r, NEW from, NEW n, NEW rs, NEW choice, Sending(l, r, from, n, rs, choice)
  PROVE  /\ PageKeeps({r}) /\ Distinct'
         /\ r.from = from /\ r.n = n /\ r.read = rs /\ Rows(r) = DOMAIN rs /\ r.change.to = choice
<1> USE DEF Sending
<1>1. /\ r.from = from /\ r.n = n /\ r.read = rs /\ r.key = minted + 1 /\ r.revalidates = FALSE
      /\ r.change = [kind |-> "triage", to |-> choice] /\ r.change.to = choice
      /\ r.expected = [i \in DOMAIN rs |-> rs[i].at]
  BY DEF Batch, Key
<1>2. Rows(r) = DOMAIN rs /\ r.change \in Triages /\ minted \in Nat
  BY <1>1 DEF Rows, Triages, ServerInv, StoreInv
<1>3. Real(rs)'
  BY DEF dbVars, Real
<1>4. Grounded(r)'
  <2>1. (surface # "pipeline")' /\ PageRow' = PostingRow
    BY DEF PageRow
  <2>2. r.key \in 1 .. minted'
    BY <1>1, <1>2
  <2>3. \A i \in Rows(r) : r.expected[i] = r.read[i].at
    BY <1>1, <1>2
  <2> QED BY <1>1, <1>2, <1>3, <2>1, <2>2, <2>3 DEF Grounded, Rows
<1>5. \A q \in Known : q.key # r.key
  <2>1. \A q \in Known : q.key \in 1 .. minted
    BY DEF ServerInv, RequestsInv, Grounded
  <2> QED BY <1>1, <1>2, <2>1
<1>6. Listing(line') /\ \A m \in DOMAIN line' : line'[m] \in {line[k] : k \in DOMAIN line} \union {Refresh} \union {r}
  BY LineAppend DEF Remains
<1>7. minted' \in Nat /\ minted <= minted'
  BY <1>2
<1>8. PageKeeps({r})
  BY <1>4, <1>5, <1>6, <1>7, PageStepKeeps DEF ServerInv
<1>9. Distinct'
  BY <1>5, <1>8 DEF PageKeeps, DecisionsInv, Distinct
<1> QED BY <1>1, <1>2, <1>8, <1>9

LEMMA DecideKeeps ==
  ASSUME ServerInv, DecisionsInv, surface # "pipeline",
         UNCHANGED dbVars, strays' = strays, surface' = surface, reply' = reply,
         NEW targets, NEW choice, choice \in Choices, Decide(targets, choice),
         Some(targets, PostingRow), Real(targets), offers' \subseteq offers
  PROVE  ServerInv' /\ DecisionsInv'
<1>1. PICK r : r = Batch("decide", made + 1, targets, choice)
  OBVIOUS
<1>2. /\ gesture = None /\ made' = made + 1 /\ minted' = minted + 1 /\ line' = Append(line, r)
      /\ gesture' = [targets |-> targets, choice |-> choice,
                     snapshot |-> [i \in DOMAIN targets |-> patches[i]]]
      /\ patches' = Patch([i \in DOMAIN targets |-> [targets[i] EXCEPT !.triage = choice]])
      /\ base' = base /\ undoing' = undoing
  BY <1>1 DEF Decide, Mint, Send
<1>3. choice \in Texts
  BY PagesAssumption
<1>4. /\ PageKeeps({r}) /\ Distinct'
      /\ r.from = "decide" /\ r.n = made + 1 /\ r.read = targets
  <2>1. Remains(line)
    BY DEF ServerInv, RequestsInv, Remains
  <2>2. PICK k : k = made + 1
    OBVIOUS
  <2>3. minted' = minted + 1 /\ line' = Append(line, r) /\ r = Batch("decide", k, targets, choice)
    BY <1>1, <1>2, <2>2
  <2>4. Sending(line, r, "decide", k, targets, choice)
    BY <1>3, <2>1, <2>3 DEF Sending
  <2>5. PageKeeps({r}) /\ Distinct' /\ r.from = "decide" /\ r.n = k /\ r.read = targets
    BY <2>4, BatchSent
  <2> QED BY <2>2, <2>5
<1>5. Distinct /\ Overlay /\ InFlight /\ Offered
  BY DEF DecisionsInv
<1>6. Grows
  BY <1>4 DEF PageKeeps
<1>7. ReplyInv'
  BY <1>2, <1>6, LineAppend, ReplyKept DEF ServerInv, RequestsInv
<1>8. gesture' # None
  <2>1. targets \in Rowsets(PostingRow) /\ gesture'.snapshot \in Rowsets(PostingRow \union {None})
    BY <1>2, <1>5 DEF Some, Rowsets, Overlay
  <2>2. gesture' \in Gestures
    BY <1>2, <2>1 DEF Gestures
  <2> QED BY <2>2, NullAssumption
<1>9. Overlay'
  <2>1. IsPage(base)'
    <3>1. PICK b : b = base
      OBVIOUS
    <3>2. IsPage(b)'
      BY <1>5, <1>6, <3>1, PageKept DEF Overlay
    <3> QED BY <1>2, <3>1, <3>2 DEF IsPage, Real
  <2>2. \A i \in DOMAIN targets : [targets[i] EXCEPT !.triage = choice] \in PostingRow
    BY <1>3 DEF Some, PostingRow
  <2>3. patches' = [i \in Items |-> IF i \in DOMAIN targets
                                     THEN [targets[i] EXCEPT !.triage = choice] ELSE patches[i]]
    BY <1>2 DEF Patch
  <2>4. patches' \in [Items -> PostingRow \union {None}]
    BY <1>5, <2>2, <2>3 DEF Overlay
  <2>5. ASSUME NEW i \in Items, ~Guessed(i)'
        PROVE  Kept(patches[i], i)'
    <3>1. i \notin DOMAIN targets
      BY <1>2, <1>8, <2>5 DEF Guessed
    <3>2. patches'[i] = patches[i] /\ Kept(patches[i], i)
      BY <1>2, <1>5, <2>3, <3>1 DEF Overlay, Guessed
    <3> QED BY <1>6, <3>2 DEF Kept, Grows
  <2> QED BY <2>1, <2>4, <2>5 DEF Overlay
<1>10. InFlight'
  <2>1. Real(targets)'
    BY <1>6, RealKept DEF Some
  <2>2. gesture'.targets = targets /\ gesture'.choice = choice
        /\ gesture'.snapshot = [i \in DOMAIN targets |-> patches[i]]
    BY <1>2
  <2>3. Some(gesture'.snapshot, PostingRow \union {None})
    BY <1>5, <2>2 DEF Some, Overlay
  <2>4. \A i \in DOMAIN targets : Kept(gesture.snapshot[i], i)'
    <3>1. \A i \in DOMAIN targets : i \in Items /\ Kept(patches[i], i)
      BY <1>2, <1>5 DEF Some, Overlay, Guessed
    <3> QED BY <1>6, <2>2, <3>1 DEF Kept, Grows
  <2>5. Sole(line', targets, made')
    <3>1. Idle(line) /\ Listing(line)
      BY <1>2, <1>5 DEF InFlight, ServerInv, RequestsInv
    <3> QED BY <1>2, <1>4, <3>1, LineAppend
  <2> QED BY <1>8, <2>1, <2>2, <2>3, <2>4, <2>5 DEF InFlight, Real
<1>11. Offered'
  <2>1. \A q \in Asked' : q \in Asked \/ q.from # "undo"
    BY <1>4 DEF PageKeeps
  <2> QED BY <1>2, <1>5, <1>6, <2>1, OfferedKept
<1> QED BY <1>4, <1>7, <1>9, <1>10, <1>11 DEF PageKeeps, ServerInv, DecisionsInv

LEMMA ShownRow ==
  ASSUME StoreInv, Overlay, surface # "pipeline", NEW i \in Items
  PROVE  Shown(i) \in PostingRow /\ (gesture = None => Shown(i) \in held[i])
<1>1. base[i] \in PostingRow /\ base[i] \in held[i]
  BY DEF Overlay, IsPage, Real, PageRow
<1>2. patches[i] # None => patches[i] \in PostingRow
  BY DEF Overlay
<1>3. gesture = None /\ patches[i] # None => patches[i] \in held[i]
  BY DEF Overlay, Guessed, Kept
<1> QED BY <1>1, <1>2, <1>3 DEF Shown

LEMMA PersonKeeps ==
  ASSUME ServerInv, DecisionsInv, surface # "pipeline",
         UNCHANGED dbVars, strays' = strays, surface' = surface, reply' = reply, Person
  PROVE  ServerInv' /\ DecisionsInv'
<1>0. Distinct /\ Overlay /\ InFlight /\ Offered
  BY DEF DecisionsInv
<1>1. ASSUME NEW S \in SUBSET Items, NEW c \in Choices, DecideRows(S, c)
      PROVE  ServerInv' /\ DecisionsInv'
  <2>1. PICK targets : targets = [i \in S |-> Shown(i)]
    OBVIOUS
  <2>2. Decide(targets, c) /\ offers' = offers /\ gesture = None
    BY <1>1, <2>1 DEF DecideRows, Decide
  <2>3. DOMAIN targets = S /\ S \subseteq Items /\ \A i \in S : targets[i] = Shown(i)
    BY <2>1
  <2>4. \A i \in S : targets[i] \in PostingRow /\ targets[i] \in held[i]
    BY <1>0, <2>2, <2>3, ShownRow DEF ServerInv
  <2>5. Some(targets, PostingRow) /\ Real(targets)
    BY <2>1, <2>3, <2>4 DEF Some, Real
  <2> QED BY <2>2, <2>5, DecideKeeps
<1>2. ASSUME NEW o \in offers, Retry(o)
      PROVE  ServerInv' /\ DecisionsInv'
  <2>1. o.kind = "retry" /\ Decide(o.rows, o.choice) /\ offers' \subseteq offers
    BY <1>2 DEF Retry
  <2>2. Some(o.rows, PostingRow) /\ Real(o.rows) /\ o.choice \in Choices
    BY <1>0, <2>1 DEF Offered, Offer
  <2> QED BY <2>1, <2>2, DecideKeeps
<1>3. ASSUME NEW o \in offers, Undo(o)
      PROVE  ServerInv' /\ DecisionsInv'
  <2>1. /\ o.kind = "undo" /\ offers' \subseteq offers /\ SendGroup(o.n, Groups(o))
        /\ base' = base /\ patches' = patches /\ gesture' = gesture /\ made' = made
    BY <1>3 DEF Undo
  <2>2. /\ DOMAIN o.rows \subseteq Items /\ \A i \in DOMAIN o.rows : o.rows[i] \in held[i]
        /\ Some(o.priors, PostingRow) /\ DOMAIN o.priors = DOMAIN o.rows
        /\ Wrote(o.n, o.rows, [i \in DOMAIN o.rows |-> o.priors[i].triage])
    BY <1>0, <2>1 DEF Offered, Offer, Real
  <2>3. ASSUME NEW g \in Groups(o)
        PROVE  Group(o.n, g)
    <3>1. PICK j \in DOMAIN o.rows :
            g = [choice |-> o.priors[j].triage,
                 rows |-> [i \in {k \in DOMAIN o.rows : o.priors[k].triage = o.priors[j].triage} |-> o.rows[i]]]
      BY DEF Groups
    <3>2. PICK I : I = {k \in DOMAIN o.rows : o.priors[k].triage = o.priors[j].triage}
      OBVIOUS
    <3>3. g.choice = o.priors[j].triage /\ g.rows = [i \in I |-> o.rows[i]] /\ DOMAIN g.rows = I
      BY <3>1, <3>2
    <3>4. g.choice \in Texts
      BY <2>2, <3>3 DEF Some, PostingRow
    <3>5. Some(g.rows, PostingRow) /\ Real(g.rows)
      <4>1. \A i \in Items : held[i] \subseteq PostingRow
        BY DEF ServerInv, StoreInv, PageRow
      <4>2. I \subseteq DOMAIN o.rows /\ \A i \in I : g.rows[i] = o.rows[i]
        BY <3>2, <3>3
      <4>3. \A i \in I : i \in Items /\ g.rows[i] \in held[i] /\ g.rows[i] \in PostingRow
        BY <2>2, <4>1, <4>2
      <4>4. g.rows \in [I -> PostingRow]
        BY <3>3, <4>3
      <4> QED BY <3>3, <4>3, <4>4 DEF Some, Real
    <3>6. Wrote(o.n, g.rows, [i \in DOMAIN g.rows |-> g.choice])
      <4>1. PICK m \in DOMAIN effects :
              /\ effects[m].by.from = "decide" /\ effects[m].by.n = o.n
              /\ \A i \in DOMAIN o.rows :
                    /\ i \in Rows(effects[m].by)
                    /\ o.rows[i] = effects[m].after[i]
                    /\ [k \in DOMAIN o.rows |-> o.priors[k].triage][i] = effects[m].before[i].triage
        BY <2>2 DEF Wrote
      <4>2. \A i \in I : o.priors[i].triage = g.choice /\ i \in DOMAIN o.rows
        BY <3>2, <3>3
      <4>3. ASSUME NEW i \in DOMAIN g.rows
            PROVE  /\ i \in Rows(effects[m].by) /\ g.rows[i] = effects[m].after[i]
                   /\ g.choice = effects[m].before[i].triage
        BY <3>3, <4>1, <4>2
      <4>4. \A i \in DOMAIN g.rows : [k \in DOMAIN g.rows |-> g.choice][i] = g.choice
        OBVIOUS
      <4> QED BY <4>1, <4>3, <4>4 DEF Wrote
    <3> QED BY <3>4, <3>5, <3>6 DEF Group
  <2>4. PICK g \in Groups(o) :
          /\ undoing' = Over([m \in {o.n} |-> Groups(o) \ {g}], undoing)
          /\ minted' = minted + 1
          /\ line' = Append(line, Batch("undo", o.n, g.rows, g.choice))
    BY <2>1 DEF SendGroup, Mint, Send
  <2>5. PICK r : r = Batch("undo", o.n, g.rows, g.choice)
    OBVIOUS
  <2>6. Group(o.n, g)
    BY <2>3
  <2>7. /\ PageKeeps({r}) /\ Distinct'
        /\ r.from = "undo" /\ r.n = o.n /\ r.read = g.rows /\ Rows(r) = DOMAIN g.rows
        /\ r.change.to = g.choice
    <3>1. Remains(line)
      BY DEF ServerInv, RequestsInv, Remains
    <3>2. Some(g.rows, PostingRow) /\ Real(g.rows) /\ g.choice \in Texts
      BY <2>6 DEF Group
    <3>3. minted' = minted + 1 /\ line' = Append(line, r)
      BY <2>4, <2>5
    <3>4. Sending(line, r, "undo", o.n, g.rows, g.choice)
      BY <2>5, <3>1, <3>2, <3>3 DEF Sending
    <3> QED BY <3>4, BatchSent
  <2>8. Grows
    BY <2>7 DEF PageKeeps
  <2>9. ReplyInv'
    BY <2>4, <2>5, <2>8, LineAppend, ReplyKept DEF ServerInv, RequestsInv
  <2>10. Overlay'
    BY <1>0, <2>1, <2>8, OverlayStands
  <2>11. InFlight'
    BY <1>0, <2>1, <2>4, <2>5, <2>7, <2>8, LineAppend, InFlightStands DEF InFlight, ServerInv, RequestsInv
  <2>12. Offered'
    <3>1. \A p \in offers' : Offer(p)'
      BY <1>0, <2>1, <2>8, OfferKept DEF Offered
    <3>2. \A n \in DOMAIN undoing' : \A h \in undoing'[n] : Group(n, h)
      BY <1>0, <2>3, <2>4 DEF Over, Offered
    <3>3. \A n \in DOMAIN undoing' : \A h \in undoing'[n] : Group(n, h)'
      BY <2>8, <3>2, GroupKept
    <3>4. Wrote(r.n, r.read, [i \in Rows(r) |-> r.change.to])
      BY <2>6, <2>7 DEF Group
    <3>5. \A q \in Asked' : q.from = "undo" => Wrote(q.n, q.read, [i \in Rows(q) |-> q.change.to])
      BY <1>0, <2>7, <3>4 DEF PageKeeps, Offered
    <3>6. ASSUME NEW q \in Asked', q.from = "undo"
          PROVE  Wrote(q.n, q.read, [i \in Rows(q) |-> q.change.to])'
      BY <2>8, <3>5, <3>6, WroteKept
    <3> QED BY <3>1, <3>3, <3>6 DEF Offered, Rows
  <2> QED BY <2>7, <2>9, <2>10, <2>11, <2>12 DEF PageKeeps, ServerInv, DecisionsInv
<1> QED BY <1>1, <1>2, <1>3 DEF Person

(* What is left of the line after an answer, with or without a rendering.    *)
LEMMA RestOfLine ==
  ASSUME RequestsInv, line # <<>>, NEW l, l = Tail(line) \/ l = Append(Tail(line), Refresh)
  PROVE  /\ Remains(l) /\ (Idle(line) => Idle(l))
         /\ \A targets, k : Sole(line, targets, k) =>
               /\ Sole(l, targets, k)
               /\ Head(line).from = "decide" =>
                     Idle(l) /\ Head(line).read = targets /\ Head(line).n = k
<1>1. PICK t : t = Tail(line)
  OBVIOUS
<1>2. /\ Remains(t) /\ (Idle(line) => Idle(t))
      /\ \A targets, k : Sole(line, targets, k) =>
            /\ Sole(t, targets, k)
            /\ Head(line).from = "decide" =>
                  Idle(t) /\ Head(line).read = targets /\ Head(line).n = k
  BY <1>1, LineTail DEF RequestsInv, Remains
<1>3. CASE l = Tail(line)
  BY <1>1, <1>2, <1>3
<1>4. CASE l = Append(Tail(line), Refresh)
  <2>1. Refresh.from # "decide"
    BY DEF Refresh
  <2>2. Listing(t) /\ l = Append(t, Refresh)
    BY <1>1, <1>2, <1>4 DEF Remains
  <2>3. /\ Listing(l) /\ \A n \in DOMAIN l : l[n] \in {t[m] : m \in DOMAIN t} \union {Refresh}
        /\ Idle(t) => Idle(l)
        /\ \A targets, k : Sole(t, targets, k) => Sole(l, targets, k)
    BY <2>1, <2>2, LineAppend
  <2>4. Remains(l)
    BY <1>2, <2>3 DEF Remains
  <2> QED BY <1>2, <2>3, <2>4
<1> QED BY <1>3, <1>4

(* What an answer says.                                                      *)
LEMMA Answering ==
  ASSUME ServerInv, reply # None, NEW h, h = Head(line)
  PROVE  /\ line # <<>> /\ h \in {line[n] : n \in DOMAIN line}
         /\ reply.page # None => IsPage(reply.page)
         /\ h # Refresh => h \in Asked /\ h \in Known /\ Grounded(h)
         /\ reply.kind \in {"ok", "conflict"} =>
               /\ h # Refresh /\ DOMAIN reply.rows = Rows(h) /\ Rows(h) \subseteq Items
               /\ Real(reply.rows) /\ \A i \in Rows(h) : reply.rows[i] \in PageRow
         /\ reply.kind = "ok" =>
               \E n \in DOMAIN effects : effects[n].by.key = h.key /\ reply.rows = effects[n].after
<1>1. line # <<>> /\ (reply.page # None => IsPage(reply.page))
  BY DEF ServerInv, ReplyInv
<1>2. h \in {line[n] : n \in DOMAIN line}
  BY <1>1, LineTail DEF ServerInv, RequestsInv
<1>3. h # Refresh => h \in Asked /\ h \in Known /\ Grounded(h)
  BY <1>2 DEF Asked, Known, ServerInv, RequestsInv
<1>4. reply.kind \in {"ok", "conflict"} =>
               h # Refresh /\ DOMAIN reply.rows = Rows(h) /\ Real(reply.rows)
  BY DEF ServerInv, ReplyInv
<1>5. ASSUME reply.kind \in {"ok", "conflict"}
      PROVE  Rows(h) \subseteq Items /\ \A i \in Rows(h) : reply.rows[i] \in PageRow
  <2>1. Rows(h) \subseteq Items
    BY <1>3, <1>4, <1>5, Asking DEF ServerInv
  <2>2. \A i \in Rows(h) : reply.rows[i] \in PageRow
    BY <1>4, <1>5, <2>1 DEF Real, ServerInv, StoreInv
  <2> QED BY <2>1, <2>2
<1>6. reply.kind = "ok" =>
               \E n \in DOMAIN effects : effects[n].by.key = h.key /\ reply.rows = effects[n].after
  BY DEF ServerInv, ReplyInv, Answer
<1> QED BY <1>1, <1>2, <1>3, <1>4, <1>5, <1>6

\* The step of the browser that takes an answer off the line.
Taking(l) ==
    /\ UNCHANGED dbVars /\ strays' = strays /\ surface' = surface
    /\ reply # None /\ reply' = None
    /\ l = Tail(line) \/ l = Append(Tail(line), Refresh)

LEMMA AnswerTaken ==
  ASSUME ServerInv, DecisionsInv, surface # "pipeline", NEW l, Taking(l),
         line' = l, minted' = minted
  PROVE  ServerInv' /\ PageKeeps({}) /\ Distinct'
<1>1. line # <<>>
  BY Answering DEF Taking
<1>2. Remains(l)
  BY <1>1, RestOfLine DEF Taking, ServerInv
<1>3. minted' \in Nat /\ minted <= minted'
  BY DEF ServerInv, StoreInv
<1>4. PageKeeps({})
  BY <1>2, <1>3, PageStepKeeps DEF Taking, Remains, ServerInv
<1>5. ReplyInv'
  BY DEF Taking, ReplyInv
<1>6. Distinct'
  BY <1>4 DEF PageKeeps, DecisionsInv, Distinct
<1> QED BY <1>4, <1>5, <1>6 DEF ServerInv, PageKeeps

LEMMA BaseRendered ==
  ASSUME ServerInv, Overlay, surface # "pipeline", reply # None, Rendered, Grows
  PROVE  IsPage(base)'
<1>1. PICK b : b = base'
  OBVIOUS
<1>2. b = base \/ (reply.page # None /\ b = reply.page)
  BY <1>1 DEF Rendered
<1>3. IsPage(b)
  BY <1>2, Answering DEF Overlay
<1>4. IsPage(b)'
  BY <1>3, PageKept
<1> QED BY <1>1, <1>4 DEF IsPage, Real

(* Rows that the store has held are put over the overlay.                    *)
LEMMA PatchedOver ==
  ASSUME Overlay, Grows, NEW rs, DOMAIN rs \subseteq Items,
         \A i \in DOMAIN rs : rs[i] \in PostingRow \union {None} /\ Kept(rs[i], i),
         NEW p, p = Patch(rs)
  PROVE  /\ p \in [Items -> PostingRow \union {None}]
         /\ \A i \in Items : i \in DOMAIN rs \/ ~Guessed(i) => Kept(p[i], i)'
<1>1. p = [i \in Items |-> IF i \in DOMAIN rs THEN rs[i] ELSE patches[i]]
  BY DEF Patch
<1>2. p \in [Items -> PostingRow \union {None}]
  BY <1>1 DEF Overlay
<1>3. \A i \in Items : i \in DOMAIN rs \/ ~Guessed(i) => Kept(p[i], i)
  BY <1>1 DEF Overlay
<1>4. ASSUME NEW i \in Items, i \in DOMAIN rs \/ ~Guessed(i)
      PROVE  Kept(p[i], i)'
  BY <1>3, <1>4, KeptKept
<1> QED BY <1>2, <1>4

LEMMA SettleKeeps ==
  ASSUME ServerInv, DecisionsInv, surface # "pipeline",
         UNCHANGED dbVars, strays' = strays, surface' = surface, Settle
  PROVE  ServerInv' /\ DecisionsInv'
<1>0. Distinct /\ Overlay /\ InFlight /\ Offered
  BY DEF DecisionsInv
<1>1. PICK h, l : h = Head(line) /\ l = line'
  OBVIOUS
<1>2. /\ reply # None /\ h.from = "decide" /\ gesture' = None /\ reply' = None /\ Rendered
      /\ undoing' = undoing /\ made' = made /\ minted' = minted
      /\ l = Tail(line) \/ l = Append(Tail(line), Refresh)
  BY <1>1 DEF Settle, Answered, Received, NextInLine, RefreshAfter
<1>3. ServerInv' /\ PageKeeps({}) /\ Distinct'
  BY <1>1, <1>2, AnswerTaken DEF Taking
<1>4. Grows
  BY <1>3 DEF PageKeeps
<1>5. /\ line # <<>> /\ h \in {line[n] : n \in DOMAIN line}
      /\ h # Refresh => h \in Asked /\ h \in Known /\ Grounded(h)
      /\ reply.kind \in {"ok", "conflict"} =>
            /\ h # Refresh /\ DOMAIN reply.rows = Rows(h) /\ Rows(h) \subseteq Items
            /\ Real(reply.rows) /\ \A i \in Rows(h) : reply.rows[i] \in PageRow
      /\ reply.kind = "ok" =>
            \E n \in DOMAIN effects : effects[n].by.key = h.key /\ reply.rows = effects[n].after
  BY <1>1, <1>2, Answering
<1>6. h # Refresh /\ h \in Known /\ Grounded(h)
  BY <1>2, <1>5 DEF Refresh
<1>7. gesture # None
  BY <1>0, <1>2, <1>5 DEF InFlight, Idle
<1>8. Sole(line, gesture.targets, made)
  BY <1>0, <1>7 DEF InFlight
<1>9. h.read = gesture.targets /\ h.n = made /\ Idle(l)
  BY <1>1, <1>2, <1>5, <1>8, RestOfLine DEF ServerInv
<1>10. Rows(h) = DOMAIN gesture.targets
  BY <1>6, <1>9 DEF Grounded
<1>11. Overlay'
  <2>1. IsPage(base)'
    BY <1>0, <1>2, <1>4, BaseRendered
  <2>2. ASSUME NEW rs, patches' = Patch(rs), DOMAIN rs = DOMAIN gesture.targets,
               \A i \in DOMAIN rs : rs[i] \in PostingRow \union {None} /\ Kept(rs[i], i)
        PROVE  Overlay'
    <3>1. DOMAIN rs \subseteq Items
      BY <1>0, <1>7, <2>2 DEF InFlight, Some
    <3>2. PICK p : p = patches'
      OBVIOUS
    <3>3. /\ p \in [Items -> PostingRow \union {None}]
          /\ \A i \in Items : i \in DOMAIN rs \/ ~Guessed(i) => Kept(p[i], i)'
      BY <1>0, <1>4, <2>2, <3>1, <3>2, PatchedOver
    <3>4. \A i \in Items : i \in DOMAIN rs \/ ~Guessed(i)
      BY <2>2 DEF Guessed
    <3>5. \A i \in Items : Kept(p[i], i)'
      BY <3>3, <3>4
    <3> QED BY <2>1, <3>2, <3>3, <3>5 DEF Overlay, Kept
  <2>3. CASE reply.kind = "ok"
    <3>1. PICK rs : rs = reply.rows
      OBVIOUS
    <3>2. patches' = Patch(rs)
      BY <2>3, <3>1 DEF Settle
    <3>3. DOMAIN rs = DOMAIN gesture.targets
      BY <1>5, <1>10, <2>3, <3>1
    <3>4. \A i \in DOMAIN rs : rs[i] \in PostingRow /\ rs[i] \in held[i]
      BY <1>5, <2>3, <3>1 DEF PageRow, Real
    <3> QED BY <2>2, <3>2, <3>3, <3>4 DEF Kept
  <2>4. CASE reply.kind # "ok"
    <3>1. PICK rs : rs = gesture.snapshot
      OBVIOUS
    <3>2. patches' = Patch(rs)
      BY <2>4, <3>1 DEF Settle, PutBack
    <3>3. /\ DOMAIN rs = DOMAIN gesture.targets
          /\ \A i \in DOMAIN rs : rs[i] \in PostingRow \union {None} /\ Kept(rs[i], i)
      BY <1>0, <1>7, <3>1 DEF InFlight, Some
    <3> QED BY <2>2, <3>2, <3>3
  <2> QED BY <2>3, <2>4
<1>12. InFlight'
  BY <1>1, <1>2, <1>9 DEF InFlight
<1>13. Offered'
  <2>1. ASSUME NEW o \in offers', o \notin offers
        PROVE  Offer(o)
    <3>1. CASE reply.kind = "ok"
      <4>1. o = [kind |-> "undo", n |-> made, rows |-> reply.rows, priors |-> gesture.targets]
        BY <2>1, <3>1 DEF Settle
      <4>2. PICK targets : targets = gesture.targets
        OBVIOUS
      <4>3. /\ o.kind = "undo" /\ o.n = made /\ o.rows = reply.rows /\ o.priors = targets
        BY <4>1, <4>2
      <4>4. PICK n \in DOMAIN effects : effects[n].by.key = h.key /\ reply.rows = effects[n].after
        BY <1>5, <3>1
      <4>5. effects[n].by = h
        <5>1. effects[n].by \in Known
          BY DEF Known
        <5> QED BY <1>0, <1>6, <4>4, <5>1 DEF Distinct
      <4>6. h.change.kind # "note"
        BY <1>6 DEF Grounded, Triages
      <4>7. \A i \in Rows(h) : effects[n].before[i] = targets[i]
        <5>1. DOMAIN effects[n].before = Rows(h)
          BY <4>5 DEF ServerInv, EffectsInv
        <5>2. \A i \in Rows(h) : IgnoringNotes(effects[n].before[i]) = IgnoringNotes(h.read[i])
          BY <4>5, <4>6, <5>1 DEF ServerInv, VersionStandsForRow
        <5> QED BY <1>9, <4>2, <5>2 DEF IgnoringNotes
      <4>8. DOMAIN o.rows = Rows(h) /\ Rows(h) \subseteq Items /\ Real(o.rows)
        BY <1>5, <3>1, <4>3
      <4>9. Some(o.priors, PostingRow) /\ DOMAIN o.priors = Rows(h)
        BY <1>0, <1>7, <1>10, <4>2, <4>3 DEF InFlight
      <4>10. Wrote(o.n, o.rows, [i \in DOMAIN o.rows |-> o.priors[i].triage])
        <5>1. effects[n].by.from = "decide" /\ effects[n].by.n = o.n
          BY <1>2, <1>9, <4>3, <4>5
        <5>2. \A i \in DOMAIN o.rows :
                /\ i \in Rows(effects[n].by) /\ o.rows[i] = effects[n].after[i]
                /\ [k \in DOMAIN o.rows |-> o.priors[k].triage][i] = effects[n].before[i].triage
          BY <4>3, <4>4, <4>5, <4>7, <4>8
        <5> QED BY <5>1, <5>2 DEF Wrote
      <4> QED BY <4>3, <4>8, <4>9, <4>10 DEF Offer
    <3>2. CASE reply.kind # "ok"
      <4>1. o = [kind |-> "retry", n |-> made, rows |-> gesture.targets, choice |-> gesture.choice]
        BY <2>1, <3>2 DEF Settle
      <4>2. o.kind = "retry" /\ o.rows = gesture.targets /\ o.choice = gesture.choice
        BY <4>1
      <4> QED BY <1>0, <1>7, <4>2 DEF InFlight, Offer, Some
    <3> QED BY <3>1, <3>2
  <2>2. \A o \in offers' : Offer(o)'
    BY <1>0, <1>4, <2>1, OfferKept DEF Offered
  <2>3. (offers' \cap offers) \subseteq offers
    OBVIOUS
  <2>4. \A n \in DOMAIN undoing' : \A g \in undoing'[n] : Group(n, g)'
    BY <1>0, <1>2, <1>4, GroupKept DEF Offered
  <2>5. ASSUME NEW r \in Asked', r.from = "undo"
        PROVE  Wrote(r.n, r.read, [i \in Rows(r) |-> r.change.to])'
    BY <1>0, <1>3, <1>4, <2>5, WroteKept DEF Offered, PageKeeps
  <2> QED BY <2>2, <2>4, <2>5 DEF Offered, Rows
<1> QED BY <1>3, <1>11, <1>12, <1>13 DEF DecisionsInv

LEMMA SettleUndoKeeps ==
  ASSUME ServerInv, DecisionsInv, surface # "pipeline",
         UNCHANGED dbVars, strays' = strays, surface' = surface,
         NEW n \in DOMAIN undoing, SettleUndo(n)
  PROVE  ServerInv' /\ DecisionsInv'
<1>0. Distinct /\ Overlay /\ InFlight /\ Offered
  BY DEF DecisionsInv
<1>1. PICK h, l : /\ h = Head(line)
                  /\ l = IF reply.kind = "conflict" THEN RefreshAfter ELSE NextInLine
  OBVIOUS
<1>2. /\ reply # None /\ h.from = "undo" /\ h.n = n /\ reply' = None /\ Rendered
      /\ gesture' = gesture /\ offers' = offers /\ made' = made
      /\ patches' = IF reply.kind = "ok" THEN Patch(reply.rows) ELSE patches
      /\ l = Tail(line) \/ l = Append(Tail(line), Refresh)
  BY <1>1 DEF SettleUndo, Answered, Received, NextInLine, RefreshAfter
<1>3. /\ line # <<>> /\ h \in {line[m] : m \in DOMAIN line}
      /\ h # Refresh => h \in Asked /\ h \in Known /\ Grounded(h)
      /\ reply.kind \in {"ok", "conflict"} =>
            /\ h # Refresh /\ DOMAIN reply.rows = Rows(h) /\ Rows(h) \subseteq Items
            /\ Real(reply.rows) /\ \A i \in Rows(h) : reply.rows[i] \in PageRow
  BY <1>1, <1>2, Answering
<1>4. /\ Remains(l) /\ (Idle(line) => Idle(l))
      /\ \A targets, k : Sole(line, targets, k) => Sole(l, targets, k)
  BY <1>2, <1>3, RestOfLine DEF ServerInv
<1>5. ASSUME NEW S, PageKeeps(S),
             gesture = None => Idle(line'),
             gesture # None => Sole(line', gesture.targets, made),
             \A m \in DOMAIN undoing' : \A g \in undoing'[m] : Group(m, g),
             \A r \in S : r.from = "undo" => Wrote(r.n, r.read, [i \in Rows(r) |-> r.change.to])
      PROVE  ServerInv' /\ Overlay' /\ InFlight' /\ Offered'
  <2>1. Grows
    BY <1>5 DEF PageKeeps
  <2>2. ServerInv'
    BY <1>2, <1>5 DEF ServerInv, PageKeeps, ReplyInv
  <2>3. Overlay'
    <3>1. IsPage(base)'
      BY <1>0, <1>2, <2>1, BaseRendered
    <3>2. PICK rs, p : rs = reply.rows /\ p = patches'
      OBVIOUS
    <3>3. CASE reply.kind = "ok"
      <4>1. DOMAIN rs \subseteq Items /\ p = Patch(rs)
        BY <1>2, <1>3, <3>2, <3>3
      <4>2. \A i \in DOMAIN rs : rs[i] \in PostingRow \union {None} /\ Kept(rs[i], i)
        BY <1>3, <3>2, <3>3 DEF PageRow, Real, Kept
      <4>3. /\ p \in [Items -> PostingRow \union {None}]
            /\ \A i \in Items : i \in DOMAIN rs \/ ~Guessed(i) => Kept(p[i], i)'
        BY <1>0, <2>1, <4>1, <4>2, PatchedOver
      <4>4. \A i \in Items : ~Guessed(i)' => ~Guessed(i)
        BY <1>2 DEF Guessed
      <4>5. \A i \in Items : ~Guessed(i)' => Kept(p[i], i)'
        BY <4>3, <4>4
      <4> QED BY <3>1, <3>2, <4>3, <4>5 DEF Overlay, Kept
    <3>4. CASE reply.kind # "ok"
      <4>1. patches' = patches
        BY <1>2, <3>4
      <4>2. \A i \in Items : ~Guessed(i)' => Kept(patches[i], i)
        BY <1>0, <1>2 DEF Overlay, Guessed
      <4>3. \A i \in Items : ~Guessed(i)' => Kept(patches[i], i)'
        BY <2>1, <4>1, <4>2 DEF Kept, Grows
      <4> QED BY <1>0, <3>1, <4>1, <4>3 DEF Overlay
    <3> QED BY <3>3, <3>4
  <2>4. InFlight'
    BY <1>0, <1>2, <1>5, <2>1, InFlightStands
  <2>5. Offered'
    <3>1. \A o \in offers' : Offer(o)'
      BY <1>0, <1>2, <2>1, OfferKept DEF Offered
    <3>2. \A m \in DOMAIN undoing' : \A g \in undoing'[m] : Group(m, g)'
      BY <1>5, <2>1, GroupKept
    <3>3. \A r \in Asked' : r.from = "undo" => Wrote(r.n, r.read, [i \in Rows(r) |-> r.change.to])
      BY <1>0, <1>5 DEF Offered, PageKeeps
    <3>4. ASSUME NEW r \in Asked', r.from = "undo"
          PROVE  Wrote(r.n, r.read, [i \in Rows(r) |-> r.change.to])'
      BY <2>1, <3>3, <3>4, WroteKept
    <3> QED BY <3>1, <3>2, <3>4 DEF Offered, Rows
  <2> QED BY <2>2, <2>3, <2>4, <2>5
<1>6. CASE /\ undoing' = [m \in DOMAIN undoing \ {n} |-> undoing[m]]
           /\ line' = l /\ UNCHANGED minted
  <2>1. PageKeeps({}) /\ Distinct'
    BY <1>2, <1>6, AnswerTaken DEF Taking
  <2>2. gesture = None => Idle(line')
    BY <1>0, <1>4, <1>6 DEF InFlight
  <2>3. gesture # None => Sole(line', gesture.targets, made)
    BY <1>0, <1>4, <1>6 DEF InFlight
  <2>4. \A m \in DOMAIN undoing' : \A g \in undoing'[m] : Group(m, g)
    BY <1>0, <1>6 DEF Offered
  <2> QED BY <1>5, <2>1, <2>2, <2>3, <2>4 DEF DecisionsInv
<1>7. ASSUME NEW g \in undoing[n], undoing' = [undoing EXCEPT ![n] = undoing[n] \ {g}],
             minted' = minted + 1, line' = Append(l, Batch("undo", n, g.rows, g.choice))
      PROVE  ServerInv' /\ DecisionsInv'
  <2>1. PICK r : r = Batch("undo", n, g.rows, g.choice)
    OBVIOUS
  <2>2. Group(n, g)
    BY <1>0 DEF Offered
  <2>3. Sending(l, r, "undo", n, g.rows, g.choice)
    BY <1>4, <1>7, <2>1, <2>2 DEF Sending, Group
  <2>4. /\ PageKeeps({r}) /\ Distinct'
        /\ r.from = "undo" /\ r.n = n /\ r.read = g.rows /\ Rows(r) = DOMAIN g.rows
        /\ r.change.to = g.choice
    BY <2>3, BatchSent
  <2>5. Listing(l) /\ line' = Append(l, r)
    BY <1>4, <1>7, <2>1 DEF Remains
  <2>6. /\ Idle(l) => Idle(line')
        /\ \A targets, k : Sole(l, targets, k) => Sole(line', targets, k)
    BY <2>4, <2>5, LineAppend
  <2>7. gesture = None => Idle(line')
    BY <1>0, <1>4, <2>6 DEF InFlight
  <2>8. gesture # None => Sole(line', gesture.targets, made)
    BY <1>0, <1>4, <2>6 DEF InFlight
  <2>9. \A m \in DOMAIN undoing' : \A k \in undoing'[m] : Group(m, k)
    BY <1>0, <1>7 DEF Offered
  <2>10. Wrote(r.n, r.read, [i \in Rows(r) |-> r.change.to])
    BY <2>2, <2>4 DEF Group
  <2>11. ServerInv' /\ Overlay' /\ InFlight' /\ Offered'
    BY <1>5, <2>4, <2>7, <2>8, <2>9, <2>10
  <2> QED BY <2>4, <2>11 DEF DecisionsInv
<1> QED BY <1>1, <1>6, <1>7 DEF SettleUndo, Mint, Key

LEMMA RefreshedKeeps ==
  ASSUME ServerInv, DecisionsInv, surface # "pipeline",
         UNCHANGED dbVars, strays' = strays, surface' = surface, Refreshed
  PROVE  ServerInv' /\ DecisionsInv'
<1>0. Distinct /\ Overlay /\ InFlight /\ Offered
  BY DEF DecisionsInv
<1>1. PICK l : l = Tail(line)
  OBVIOUS
<1>2. /\ reply # None /\ line # <<>> /\ line' = l /\ reply' = None /\ Rendered /\ minted' = minted
      /\ patches' = patches /\ gesture' = gesture /\ undoing' = undoing /\ offers' = offers /\ made' = made
  BY <1>1 DEF Refreshed, Answered, Received, NextInLine
<1>3. ServerInv' /\ PageKeeps({}) /\ Distinct'
  BY <1>1, <1>2, AnswerTaken DEF Taking
<1>4. Grows
  BY <1>3 DEF PageKeeps
<1>5. /\ Idle(line) => Idle(l)
      /\ \A targets, k : Sole(line, targets, k) => Sole(l, targets, k)
  BY <1>1, <1>2, RestOfLine DEF ServerInv
<1>6. Overlay'
  <2>1. IsPage(base)'
    BY <1>0, <1>2, <1>4, BaseRendered
  <2>2. \A i \in Items : ~Guessed(i)' => Kept(patches[i], i)
    BY <1>0, <1>2 DEF Overlay, Guessed
  <2>3. \A i \in Items : ~Guessed(i)' => Kept(patches[i], i)'
    BY <1>2, <1>4, <2>2 DEF Kept, Grows
  <2> QED BY <1>0, <1>2, <2>1, <2>3 DEF Overlay
<1>7. InFlight'
  BY <1>0, <1>2, <1>4, <1>5, InFlightStands DEF InFlight
<1>8. Offered'
  BY <1>0, <1>2, <1>3, <1>4, OfferedKept DEF PageKeeps
<1> QED BY <1>3, <1>6, <1>7, <1>8 DEF DecisionsInv

LEMMA DecisionStepKeeps ==
  ASSUME ServerInv, DecisionsInv, DecisionStep
  PROVE  ServerInv' /\ DecisionsInv' /\ surface # "pipeline" /\ surface' = surface
<1>1. /\ surface # "pipeline" /\ surface' = surface /\ strays' = strays /\ UNCHANGED dbVars
      /\ (Person /\ reply' = reply) \/ Browser
  BY DEF DecisionStep, Behind
<1>2. CASE Person /\ reply' = reply
  BY <1>1, <1>2, PersonKeeps
<1>3. CASE Browser
  BY <1>1, <1>3, SettleKeeps, SettleUndoKeeps, RefreshedKeeps DEF Browser
<1> QED BY <1>1, <1>2, <1>3

-----------------------------------------------------------------------------
(* The steps of the pipeline page.                                           *)
LEMMA PatchRow ==
  ASSUME NEW c \in Changes, NEW row \in ApplicationRow
  PROVE  OptimisticPatch(c, row) \in Guesses
<1>0. {None, "user"} \subseteq Texts /\ c \in Edits
  BY PagesAssumption
<1>1. CASE c.kind = "status"
  <2>1. c.to \in Texts
    BY <1>0, <1>1 DEF Edits
  <2>2. OptimisticPatch(c, row) = [status |-> c.to, actor |-> "user", suggested |-> None]
    BY <1>1 DEF OptimisticPatch
  <2> QED BY <1>0, <2>1, <2>2 DEF Guesses
<1>2. CASE c.kind = "confirm"
  <2>1. OptimisticPatch(c, row) =
          [status |-> IF row.suggested = None THEN row.status ELSE row.suggested,
           actor |-> "user", suggested |-> None]
    BY <1>2 DEF OptimisticPatch
  <2> QED BY <1>0, <2>1 DEF Guesses, ApplicationRow
<1>3. CASE c.kind = "reject"
  <2>1. OptimisticPatch(c, row) = [suggested |-> None]
    BY <1>3 DEF OptimisticPatch
  <2> QED BY <1>0, <2>1 DEF Guesses
<1>4. CASE c.kind = "note"
  <2>1. OptimisticPatch(c, row) = [notes |-> row.notes + 1]
    BY <1>4 DEF OptimisticPatch
  <2> QED BY <1>0, <2>1 DEF Guesses, ApplicationRow
<1>5. CASE c.kind = "next"
  <2>1. c.to \in Texts
    BY <1>0, <1>5 DEF Edits
  <2>2. OptimisticPatch(c, row) = [next |-> c.to]
    BY <1>5 DEF OptimisticPatch
  <2> QED BY <1>0, <2>1, <2>2 DEF Guesses
<1> QED BY <1>0, <1>1, <1>2, <1>3, <1>4, <1>5 DEF Edits

LEMMA GuessedRow ==
  ASSUME NEW patch \in Guesses, NEW row \in ApplicationRow
  PROVE  Over(patch, row) \in ApplicationRow
<1>1. PICK t : t = Over(patch, row)
  OBVIOUS
<1>2. DOMAIN row = {"status", "actor", "suggested", "next", "notes", "at"}
  BY DEF ApplicationRow
<1>3. CASE patch \in [status : Texts, actor : Texts, suggested : Texts]
  <2>1. DOMAIN patch = {"status", "actor", "suggested"}
    BY <1>3
  <2>2. t = [status |-> patch.status, actor |-> patch.actor, suggested |-> patch.suggested,
             next |-> row.next, notes |-> row.notes, at |-> row.at]
    BY <1>1, <1>2, <2>1 DEF Over
  <2> QED BY <1>1, <1>3, <2>2 DEF ApplicationRow
<1>4. CASE patch \in [suggested : Texts]
  <2>1. DOMAIN patch = {"suggested"}
    BY <1>4
  <2>2. t = [status |-> row.status, actor |-> row.actor, suggested |-> patch.suggested,
             next |-> row.next, notes |-> row.notes, at |-> row.at]
    BY <1>1, <1>2, <2>1 DEF Over
  <2> QED BY <1>1, <1>4, <2>2 DEF ApplicationRow
<1>5. CASE patch \in [notes : Nat]
  <2>1. DOMAIN patch = {"notes"}
    BY <1>5
  <2>2. t = [status |-> row.status, actor |-> row.actor, suggested |-> row.suggested,
             next |-> row.next, notes |-> patch.notes, at |-> row.at]
    BY <1>1, <1>2, <2>1 DEF Over
  <2> QED BY <1>1, <1>5, <2>2 DEF ApplicationRow
<1>6. CASE patch \in [next : Texts]
  <2>1. DOMAIN patch = {"next"}
    BY <1>6
  <2>2. t = [status |-> row.status, actor |-> row.actor, suggested |-> row.suggested,
             next |-> patch.next, notes |-> row.notes, at |-> row.at]
    BY <1>1, <1>2, <2>1 DEF Over
  <2> QED BY <1>1, <1>6, <2>2 DEF ApplicationRow
<1> QED BY <1>3, <1>4, <1>5, <1>6 DEF Guesses

(* A page that mints no key and queues no write knows no more than before.   *)
LEMMA MatchedKept ==
  ASSUME Matched, Grows, Pending' \subseteq Pending, Known' \subseteq Known,
         queued' \in Nat, queued \in Nat, queued <= queued', minted \in Nat
  PROVE  Matched'
<1>1. \A w \in Pending' : w.id \in 1 .. queued' /\ w.key \in 1 .. minted'
  BY DEF Matched, Grows
<1>2. \A w, v \in Pending' : w.key = v.key \/ w.id = v.id => w = v
  BY DEF Matched
<1>3. \A r \in Known' : r.gesture \in 1 .. queued' /\ \E i \in Items : Rows(r) = {i}
  BY DEF Matched
<1>4. \A r, q \in Known' : r.key = q.key <=> r.gesture = q.gesture
  BY DEF Matched
<1>5. \A r \in Known', w \in Pending' : w.key = r.key \/ w.id = r.gesture => Asks(r, w)
  BY DEF Matched
<1> QED BY <1>1, <1>2, <1>3, <1>4, <1>5 DEF Matched, Asks, Rows

LEMMA OnScreenKept ==
  ASSUME StoreInv, Grows, surface = "pipeline", OnScreen, QueueTypes,
         rows' = rows, turn' = turn, initial' = initial
  PROVE  OnScreen'
<1>1. \A i \in Items : held[i] \subseteq held'[i]
  BY DEF Grows
<1>2. \A i \in Items : turn = None \/ i # turn.write.item => rows[i] \in held'[i]
  BY <1>1 DEF OnScreen
<1>3. turn # None => turn.before \in held'[turn.write.item]
  BY <1>1 DEF OnScreen, QueueTypes, Turns, Writes
<1>4. initial # None => IsPage(initial)'
  <2>1. PICK p : p = initial
    OBVIOUS
  <2>2. p # None => IsPage(p)'
    BY <2>1, PageKept DEF OnScreen
  <2> QED BY <2>1, <2>2 DEF IsPage, Real
<1> QED BY <1>2, <1>3, <1>4 DEF OnScreen

LEMMA PipelineStands ==
  ASSUME StoreInv, PipelineInv, ServerKeeps, UNCHANGED pipelineVars
  PROVE  PipelineInv'
<1> SUFFICES ASSUME surface = "pipeline"
             PROVE  (QueueTypes /\ Sorted /\ Matched /\ InOrder /\ OnScreen)'
  BY DEF PipelineInv, ServerKeeps, Grows
<1>1. /\ waiting' = waiting /\ turn' = turn /\ retries' = retries /\ queued' = queued
      /\ rows' = rows /\ initial' = initial /\ line' = line
      /\ Grows /\ Known' \subseteq Known /\ minted \in Nat
  BY DEF pipelineVars, ServerKeeps, StoreInv
<1>2. QueueTypes /\ Sorted /\ Matched /\ InOrder /\ OnScreen
  BY DEF PipelineInv
<1>3. Pending' = Pending /\ Waiting' = Waiting /\ Taken' = Taken
  BY <1>1 DEF Pending, Waiting, Taken
<1>4. QueueTypes'
  BY <1>1, <1>2, <1>3 DEF QueueTypes
<1>5. Sorted'
  BY <1>1, <1>2, <1>3 DEF Sorted
<1>6. Matched'
  BY <1>1, <1>2, <1>3, MatchedKept DEF QueueTypes
<1>7. InOrder'
  BY <1>1, <1>2, <1>3 DEF InOrder, Asks, Rows
<1>8. OnScreen'
  BY <1>1, <1>2, OnScreenKept
<1> QED BY <1>4, <1>5, <1>6, <1>7, <1>8

(* A step that sends nothing: the line stands, or its first request is done.  *)
LEMMA QuietStep ==
  ASSUME ServerInv, UNCHANGED dbVars, strays' = strays, surface' = surface,
         minted' \in Nat, minted <= minted',
         \/ line' = line /\ reply' = reply
         \/ line' = Tail(line) /\ reply # None /\ reply' = None
  PROVE  ServerInv' /\ PageKeeps({}) /\ Grows /\ Known' \subseteq Known
<1>1. /\ Listing(line')
      /\ \A n \in DOMAIN line' : line'[n] \in {line[m] : m \in DOMAIN line} \union {Refresh} \union {}
  <2>1. CASE line' = line
    BY <2>1 DEF ServerInv, RequestsInv
  <2>2. CASE line' = Tail(line) /\ reply # None
    <3>1. Listing(line) /\ line # <<>>
      BY <2>2 DEF ServerInv, RequestsInv, ReplyInv
    <3> QED BY <2>2, <3>1, LineTail
  <2> QED BY <2>1, <2>2
<1>2. PageKeeps({})
  BY <1>1, PageStepKeeps DEF ServerInv
<1>3. Grows /\ Known' \subseteq Known
  BY <1>2 DEF PageKeeps
<1>4. ReplyInv'
  <2>1. CASE line' = line /\ reply' = reply
    BY <1>3, <2>1, ReplyKept DEF ServerInv
  <2>2. CASE reply' = None
    BY <2>2 DEF ReplyInv
  <2> QED BY <2>1, <2>2
<1> QED BY <1>2, <1>3, <1>4 DEF ServerInv, PageKeeps

(* A write joins the queue.                                                  *)
LEMMA Queued ==
  ASSUME QueueTypes, NEW w, w \in Writes, w \notin Waiting, waiting' = Append(waiting, w),
         queued' = queued + 1
  PROVE  /\ waiting' \in Seq(Writes) /\ queued' \in Nat /\ Len(waiting') <= queued'
         /\ Waiting' = Waiting \union {w} /\ Taken' = Taken
         /\ (\A m, n \in DOMAIN waiting : waiting[m] = waiting[n] => m = n) =>
               \A m, n \in DOMAIN waiting' : waiting'[m] = waiting'[n] => m = n
<1>1. /\ waiting \in Seq(Writes) /\ Len(waiting) \in Nat /\ queued \in Nat /\ Len(waiting) <= queued
      /\ DOMAIN waiting = 1 .. Len(waiting)
  BY DEF QueueTypes
<1>2. /\ waiting' \in Seq(Writes) /\ Len(waiting') = Len(waiting) + 1
      /\ DOMAIN waiting' = 1 .. Len(waiting) + 1 /\ waiting'[Len(waiting) + 1] = w
      /\ \A n \in 1 .. Len(waiting) : waiting'[n] = waiting[n]
  BY <1>1
<1>3. \A n \in DOMAIN waiting' :
         \/ n \in DOMAIN waiting /\ waiting'[n] = waiting[n]
         \/ n = Len(waiting) + 1 /\ waiting'[n] = w
  BY <1>1, <1>2
<1>4. Waiting' = Waiting \union {w}
  <2>1. Waiting' \subseteq Waiting \union {w}
    BY <1>3 DEF Waiting
  <2>2. w \in Waiting'
    BY <1>1, <1>2 DEF Waiting
  <2>3. Waiting \subseteq Waiting'
    BY <1>1, <1>2 DEF Waiting
  <2> QED BY <2>1, <2>2, <2>3
<1>5. Taken' = Taken
  BY <1>1, <1>2 DEF Taken
<1>6. ASSUME \A m, n \in DOMAIN waiting : waiting[m] = waiting[n] => m = n
      PROVE  \A m, n \in DOMAIN waiting' : waiting'[m] = waiting'[n] => m = n
  <2>1. \A n \in DOMAIN waiting : waiting[n] # w
    BY DEF Waiting
  <2> QED BY <1>3, <1>6, <2>1
<1> QED BY <1>1, <1>2, <1>4, <1>5, <1>6

(* The oldest write leaves it.                                               *)
LEMMA Unqueued ==
  ASSUME QueueTypes, waiting # <<>>, waiting' = Tail(waiting), queued' = queued,
         NEW w, w = Head(waiting)
  PROVE  /\ w \in Writes /\ w \in Waiting
         /\ waiting' \in Seq(Writes) /\ Len(waiting') <= queued' /\ Len(waiting) \in Nat \ {0}
         /\ Waiting' \subseteq Waiting /\ Waiting \subseteq Waiting' \union {w}
         /\ Taken \in Nat /\ Taken' = Taken + 1 /\ Taken' = queued - Len(waiting) + 1
         /\ (\A m, n \in DOMAIN waiting : waiting[m] = waiting[n] => m = n) =>
               /\ w \notin Waiting'
               /\ \A m, n \in DOMAIN waiting' : waiting'[m] = waiting'[n] => m = n
<1>1. /\ waiting \in Seq(Writes) /\ Len(waiting) \in Nat \ {0} /\ queued \in Nat /\ Len(waiting) <= queued
      /\ DOMAIN waiting = 1 .. Len(waiting) /\ w = waiting[1] /\ w \in Writes
  BY DEF QueueTypes
<1>2. /\ waiting' \in Seq(Writes) /\ Len(waiting') = Len(waiting) - 1
      /\ DOMAIN waiting' = 1 .. Len(waiting) - 1
      /\ \A n \in DOMAIN waiting' : n + 1 \in DOMAIN waiting /\ waiting'[n] = waiting[n + 1]
  BY <1>1
<1>3. w \in Waiting
  BY <1>1 DEF Waiting
<1>4. Waiting' \subseteq Waiting
  BY <1>2 DEF Waiting
<1>5. Waiting \subseteq Waiting' \union {w}
  <2>1. ASSUME NEW n \in DOMAIN waiting
        PROVE  waiting[n] \in Waiting' \union {w}
    <3>1. CASE n = 1
      BY <1>1, <3>1
    <3>2. CASE n # 1
      <4>1. n - 1 \in DOMAIN waiting' /\ waiting'[n - 1] = waiting[n]
        BY <1>1, <1>2, <3>2
      <4> QED BY <4>1 DEF Waiting
    <3> QED BY <3>1, <3>2
  <2> QED BY <2>1 DEF Waiting
<1>6. Taken \in Nat /\ Taken' = Taken + 1 /\ Taken' = queued - Len(waiting) + 1
  BY <1>1, <1>2 DEF Taken
<1>7. ASSUME \A m, n \in DOMAIN waiting : waiting[m] = waiting[n] => m = n
      PROVE  /\ w \notin Waiting'
             /\ \A m, n \in DOMAIN waiting' : waiting'[m] = waiting'[n] => m = n
  <2>1. ASSUME NEW n \in DOMAIN waiting', waiting'[n] = w
        PROVE  FALSE
    <3>1. n + 1 = 1 /\ n \in Nat \ {0}
      BY <1>1, <1>2, <1>7, <2>1
    <3> QED BY <3>1
  <2>2. ASSUME NEW m \in DOMAIN waiting', NEW n \in DOMAIN waiting', waiting'[m] = waiting'[n]
        PROVE  m = n
    <3>1. m + 1 = n + 1
      BY <1>2, <1>7, <2>2
    <3> QED BY <1>2, <3>1
  <2> QED BY <2>1, <2>2 DEF Waiting
<1> QED BY <1>1, <1>2, <1>3, <1>4, <1>5, <1>6, <1>7

\* The page works: the tables, and the requests it has given up on, stand.
AtWork == surface = "pipeline" /\ surface' = surface /\ UNCHANGED dbVars /\ strays' = strays

LEMMA KeysMinted ==
  ASSUME ServerInv
  PROVE  /\ minted \in Nat /\ \A k \in DOMAIN answers : k \in 1 .. minted
         /\ \A r \in Known : r.key \in 1 .. minted
<1>1. \A r \in Known : r.key \in 1 .. minted
  BY DEF ServerInv, RequestsInv, Grounded
<1>2. ASSUME NEW k \in DOMAIN answers
      PROVE  k \in 1 .. minted
  <2>1. PICK n \in DOMAIN effects : effects[n].by.key = k
    BY DEF ServerInv, EffectsInv
  <2>2. effects[n].by \in Known
    BY DEF Known
  <2> QED BY <1>1, <2>1, <2>2
<1> QED BY <1>1, <1>2 DEF ServerInv, StoreInv

LEMMA MakeKeeps ==
  ASSUME ServerInv, PipelineInv, UndisturbedInv, AtWork, UNCHANGED <<line, reply, strange>>,
         NEW i, i \in Apps, NEW c, c \in Changes, Make(i, c)
  PROVE  ServerInv' /\ PipelineInv' /\ UndisturbedInv'
<1>0. QueueTypes /\ Sorted /\ Matched /\ InOrder /\ OnScreen /\ queued \in Nat
  BY DEF PipelineInv, AtWork, QueueTypes
<1>1. PICK w : w = [id |-> queued + 1, item |-> i, change |-> c, key |-> minted + 1,
                    patch |-> OptimisticPatch(c, rows[i])]
  OBVIOUS
<1>2. /\ waiting' = Append(waiting, w) /\ queued' = queued + 1 /\ minted' = minted + 1
      /\ rows' = rows /\ turn' = turn /\ initial' = initial /\ retries' = retries
      /\ line' = line /\ reply' = reply /\ strange' = strange
  BY <1>1 DEF Make, Queue
<1>3. /\ minted \in Nat /\ \A k \in DOMAIN answers : k \in 1 .. minted
      /\ \A r \in Known : r.key \in 1 .. minted
  BY KeysMinted
<1>4. w \in Writes /\ w.id = queued + 1 /\ w.key = minted + 1
  <2>1. i \in Items /\ rows[i] \in ApplicationRow
    BY <1>0, PagesAssumption DEF OnScreen
  <2>2. OptimisticPatch(c, rows[i]) \in Guesses
    BY <2>1, PatchRow
  <2> QED BY <1>0, <1>1, <1>3, <2>1, <2>2 DEF Writes
<1>5. \A v \in Pending : v.id \in 1 .. queued /\ v.key \in 1 .. minted
  BY <1>0 DEF Matched
<1>6. w \notin Pending
  BY <1>0, <1>4, <1>5
<1>7. /\ waiting' \in Seq(Writes) /\ queued' \in Nat /\ Len(waiting') <= queued'
      /\ Waiting' = Waiting \union {w} /\ Taken' = Taken
      /\ \A m, n \in DOMAIN waiting' : waiting'[m] = waiting'[n] => m = n
  BY <1>0, <1>2, <1>4, <1>6, Queued DEF Pending, Sorted
<1>8. Pending' = Pending \union {w}
  BY <1>2, <1>7 DEF Pending
<1>9. ServerInv' /\ PageKeeps({}) /\ Grows /\ Known' \subseteq Known
  BY <1>2, <1>3, QuietStep DEF AtWork
<1>10. QueueTypes'
  BY <1>0, <1>2, <1>7 DEF QueueTypes
<1>11. Sorted'
  <2>1. \A v \in Waiting' : v \notin retries'
    BY <1>0, <1>2, <1>6, <1>7 DEF Sorted, Waiting, Pending
  <2>2. turn' # None => turn'.write \notin retries' /\ turn'.write \notin Waiting'
    BY <1>0, <1>2, <1>6, <1>7 DEF Sorted, Pending
  <2> QED BY <1>7, <2>1, <2>2 DEF Sorted, Waiting
<1>12. Matched'
  <2>1. \A v \in Pending' : v.id \in 1 .. queued' /\ v.key \in 1 .. minted'
    BY <1>0, <1>2, <1>3, <1>4, <1>5, <1>8
  <2>2. \A u, v \in Pending' : u.key = v.key \/ u.id = v.id => u = v
    BY <1>0, <1>3, <1>4, <1>5, <1>8 DEF Matched
  <2>3. \A r \in Known' : r.gesture \in 1 .. queued' /\ \E j \in Items : Rows(r) = {j}
    BY <1>0, <1>2, <1>9 DEF Matched
  <2>4. \A r, q \in Known' : r.key = q.key <=> r.gesture = q.gesture
    BY <1>0, <1>9 DEF Matched
  <2>5. \A r \in Known', v \in Pending' : v.key = r.key \/ v.id = r.gesture => Asks(r, v)
    BY <1>0, <1>3, <1>4, <1>8, <1>9 DEF Matched
  <2> QED BY <2>1, <2>2, <2>3, <2>4, <2>5 DEF Matched, Asks, Rows
<1>13. InOrder'
  BY <1>0, <1>2, <1>7 DEF InOrder, Asks, Rows
<1>14. OnScreen'
  BY <1>0, <1>2, <1>9, OnScreenKept DEF ServerInv, AtWork
<1>15. UndisturbedInv'
  <2> SUFFICES ASSUME Undisturbed'
               PROVE  UndisturbedInv'
    BY DEF UndisturbedInv
  <2>1. Undisturbed /\ store' = store /\ answers' = answers
    BY <1>2 DEF Undisturbed, AtWork, dbVars
  <2>2. w.key \notin DOMAIN answers
    BY <1>3, <1>4
  <2>3. (Ran' <=> Ran) /\ (Awaited' <=> Awaited) /\ \A j : Current(j)' <=> Current(j)
    BY <1>2, <2>1 DEF Ran, Awaited, Current
  <2>4. \A v \in retries' \union Waiting' : v = w \/ v \in retries \union Waiting
    BY <1>2, <1>7
  <2> QED BY <1>2, <1>8, <2>1, <2>2, <2>3, <2>4 DEF UndisturbedInv, Rows
<1> QED BY <1>9, <1>10, <1>11, <1>12, <1>13, <1>14, <1>15 DEF PipelineInv

LEMMA TryAgainKeeps ==
  ASSUME ServerInv, PipelineInv, UndisturbedInv, AtWork, UNCHANGED <<line, reply, strange>>,
         NEW w \in retries, TryAgain(w)
  PROVE  ServerInv' /\ PipelineInv' /\ UndisturbedInv'
<1>0. QueueTypes /\ Sorted /\ Matched /\ InOrder /\ OnScreen /\ queued \in Nat
  BY DEF PipelineInv, AtWork, QueueTypes
<1>2. /\ waiting' = Append(waiting, w) /\ queued' = queued + 1 /\ minted' = minted
      /\ rows' = rows /\ turn' = turn /\ initial' = initial /\ retries' = retries \ {w}
      /\ line' = line /\ reply' = reply /\ strange' = strange
  BY DEF TryAgain, Queue
<1>3. w \in Writes /\ w \notin Waiting
  BY <1>0 DEF QueueTypes, Sorted, Waiting
<1>4. /\ waiting' \in Seq(Writes) /\ queued' \in Nat /\ Len(waiting') <= queued'
      /\ Waiting' = Waiting \union {w} /\ Taken' = Taken
      /\ \A m, n \in DOMAIN waiting' : waiting'[m] = waiting'[n] => m = n
  BY <1>0, <1>2, <1>3, Queued DEF Sorted
<1>5. Pending' = Pending
  BY <1>2, <1>4 DEF Pending
<1>6. ServerInv' /\ PageKeeps({}) /\ Grows /\ Known' \subseteq Known
  <2>1. minted \in Nat
    BY DEF ServerInv, StoreInv
  <2> QED BY <1>2, <2>1, QuietStep DEF AtWork
<1>7. QueueTypes'
  BY <1>0, <1>2, <1>4 DEF QueueTypes
<1>8. Sorted'
  <2>1. \A v \in Waiting' : v \notin retries'
    BY <1>0, <1>2, <1>4 DEF Sorted, Waiting
  <2>2. turn' # None => turn'.write \notin retries' /\ turn'.write \notin Waiting'
    BY <1>0, <1>2, <1>4 DEF Sorted
  <2> QED BY <1>4, <2>1, <2>2 DEF Sorted, Waiting
<1>9. Matched'
  BY <1>0, <1>2, <1>4, <1>5, <1>6, MatchedKept DEF ServerInv, StoreInv
<1>10. InOrder'
  BY <1>0, <1>2, <1>4 DEF InOrder, Asks, Rows
<1>11. OnScreen'
  BY <1>0, <1>2, <1>6, OnScreenKept DEF ServerInv, AtWork
<1>12. UndisturbedInv'
  <2> SUFFICES ASSUME Undisturbed'
               PROVE  UndisturbedInv'
    BY DEF UndisturbedInv
  <2>1. Undisturbed /\ store' = store /\ answers' = answers
    BY <1>2 DEF Undisturbed, AtWork, dbVars
  <2>2. (Ran' <=> Ran) /\ (Awaited' <=> Awaited) /\ \A j : Current(j)' <=> Current(j)
    BY <1>2, <2>1 DEF Ran, Awaited, Current
  <2>3. retries' \union Waiting' \subseteq retries \union Waiting
    BY <1>2, <1>4
  <2> QED BY <1>2, <1>5, <2>1, <2>2, <2>3 DEF UndisturbedInv, Rows
<1> QED BY <1>6, <1>7, <1>8, <1>9, <1>10, <1>11, <1>12 DEF PipelineInv

\* The line has lost its first request or none.
LEMMA InOrderKept ==
  ASSUME InOrder, ServerInv, Taken' = Taken, Taken \in Nat,
         line' = line \/ (line' = Tail(line) /\ line # <<>>),
         turn' = turn \/ turn' = None
  PROVE  InOrder'
<1>1. CASE line' = line
  BY <1>1 DEF InOrder, Asks, Rows
<1>2. CASE line' = Tail(line) /\ line # <<>>
  <2>1. PICK t : t = Tail(line)
    OBVIOUS
  <2>2. /\ Len(line) \in Nat /\ DOMAIN line = 1 .. Len(line) /\ DOMAIN t = 1 .. Len(line) - 1
        /\ \A n \in DOMAIN t : n + 1 \in DOMAIN line /\ t[n] = line[n + 1]
    BY <1>2, <2>1, Shifted DEF ServerInv, RequestsInv
  <2>3. \A n \in DOMAIN t :
          /\ t[n].from = "write" /\ t[n].n \in Nat /\ t[n].n <= Taken
          /\ turn # None /\ t[n].n = turn.n => Asks(t[n], turn.write)
    BY <2>2 DEF InOrder
  <2>4. ASSUME NEW n \in DOMAIN t, NEW m \in DOMAIN t, m < n
        PROVE  t[m].n < t[n].n
    BY <2>2, <2>4 DEF InOrder
  <2> QED BY <1>2, <2>1, <2>3, <2>4 DEF InOrder, Asks, Rows
<1> QED BY <1>1, <1>2

\* No request of the line is that of a turn that is yet to come.
LEMMA HeadFirst ==
  ASSUME InOrder, ServerInv, QueueTypes, line # <<>>
  PROVE  /\ 1 \in DOMAIN line /\ Head(line) = line[1] /\ Taken \in Nat
         /\ Head(line).n <= Taken /\ Head(line).n \in Nat
         /\ \A n \in DOMAIN line : n = 1 \/ (line[n].n \in Nat /\ Head(line).n < line[n].n)
         /\ Head(line).n = Taken => DOMAIN line = {1} /\ DOMAIN Tail(line) = {}
<1>1. /\ 1 \in DOMAIN line /\ Head(line) = line[1] /\ Len(line) \in Nat \ {0}
      /\ DOMAIN line = 1 .. Len(line) /\ DOMAIN Tail(line) = 1 .. Len(line) - 1
  BY Shifted DEF ServerInv, RequestsInv
<1>2. Taken \in Nat
  BY DEF Taken, QueueTypes
<1>3. \A n \in DOMAIN line : n = 1 \/ (line[n].n \in Nat /\ Head(line).n < line[n].n)
  BY <1>1 DEF InOrder
<1>4. Head(line).n <= Taken /\ Head(line).n \in Nat
  BY <1>1 DEF InOrder
<1>5. ASSUME Head(line).n = Taken
      PROVE  DOMAIN line = {1} /\ DOMAIN Tail(line) = {}
  <2>1. \A n \in DOMAIN line : line[n].n <= Taken
    BY DEF InOrder
  <2>2. \A n \in DOMAIN line : n = 1
    BY <1>2, <1>3, <1>5, <2>1
  <2>3. Len(line) = 1
    BY <1>1, <2>2
  <2> QED BY <1>1, <2>3
<1> QED BY <1>1, <1>2, <1>3, <1>4, <1>5

LEMMA TakeKeeps ==
  ASSUME ServerInv, PipelineInv, UndisturbedInv, AtWork, UNCHANGED <<reply, strange>>, Take
  PROVE  ServerInv' /\ PipelineInv' /\ UndisturbedInv'
<1>0. QueueTypes /\ Sorted /\ Matched /\ InOrder /\ OnScreen
  BY DEF PipelineInv, AtWork
<1>1. PICK w, r, t, k : /\ w = Head(waiting) /\ k = queued - Len(waiting) + 1
                        /\ r = Request(w, k) /\ t = turn'
  OBVIOUS
<1>2. /\ turn = None /\ waiting # <<>> /\ waiting' = Tail(waiting)
      /\ t = [write |-> w, before |-> rows[w.item], n |-> k]
      /\ rows' = [rows EXCEPT ![w.item] = Over(w.patch, rows[w.item])]
      /\ line' = Append(line, r)
      /\ initial' = initial /\ retries' = retries /\ queued' = queued /\ minted' = minted
      /\ reply' = reply /\ strange' = strange
      /\ held' = held /\ store' = store /\ answers' = answers
  BY <1>1 DEF Take, Put, AtWork, dbVars
<1>3. /\ w \in Writes /\ w \in Waiting /\ w \notin Waiting'
      /\ waiting' \in Seq(Writes) /\ Len(waiting') <= queued'
      /\ Waiting' \subseteq Waiting
      /\ Taken \in Nat /\ Taken' = Taken + 1 /\ k = Taken + 1
      /\ \A m, n \in DOMAIN waiting' : waiting'[m] = waiting'[n] => m = n
  BY <1>0, <1>1, <1>2, Unqueued DEF Sorted
<1>4. t.write = w /\ t.before = rows[w.item] /\ t.n = k
  BY <1>2
<1>5. /\ w.item \in Items /\ w.change \in Changes /\ w.patch \in Guesses /\ w.id \in Nat
      /\ rows[w.item] \in ApplicationRow /\ rows[w.item] \in held[w.item]
  BY <1>0, <1>2, <1>3 DEF Writes, OnScreen
<1>6. t \in Turns /\ t # None
  <2>1. t \in Turns
    BY <1>2, <1>3, <1>5 DEF Turns
  <2> QED BY <2>1, NullAssumption
<1>7. w \in Pending /\ Pending' \subseteq Pending
  BY <1>1, <1>2, <1>3, <1>4 DEF Pending
<1>8. /\ r.from = "write" /\ r.n = k /\ r.key = w.key /\ r.change = w.change /\ r.gesture = w.id
      /\ r.revalidates = TRUE /\ Rows(r) = {w.item}
      /\ r.read = [i \in {w.item} |-> rows[i]]
      /\ r.expected[w.item] = IF w.change.kind = "note" THEN None ELSE rows[w.item].at
  BY <1>1 DEF Request, Rows
<1>9. Asks(r, w)
  BY <1>8 DEF Asks
<1>10. \A q \in Known : q.key = w.key \/ q.gesture = w.id => Asks(q, w)
  BY <1>0, <1>7 DEF Matched
<1>11. Grounded(r)'
  <2>1. (surface = "pipeline")' /\ PageRow' = ApplicationRow
    BY DEF AtWork, PageRow
  <2>2. r.key \in 1 .. minted'
    BY <1>0, <1>2, <1>7, <1>8 DEF Matched
  <2>3. DOMAIN r.read = {w.item} /\ r.read[w.item] = rows[w.item]
    BY <1>8
  <2>4. Some(r.read, ApplicationRow) /\ Real(r.read)'
    <3>1. r.read \in [{w.item} -> ApplicationRow]
      BY <1>5, <1>8
    <3> QED BY <1>2, <1>5, <2>3, <3>1 DEF Some, Real
  <2>5. r.change.kind # "note" => \A i \in Rows(r) : r.expected[i] = r.read[i].at
    BY <1>8, <2>3
  <2> QED BY <1>5, <1>8, <2>1, <2>2, <2>3, <2>4, <2>5 DEF Grounded, Rows, Some
<1>12. PageKeeps({r})
  <2>1. Listing(line)
    BY DEF ServerInv, RequestsInv
  <2>2. Listing(line') /\ \A n \in DOMAIN line' : line'[n] \in {line[m] : m \in DOMAIN line} \union {Refresh} \union {r}
    BY <1>2, <2>1, LineAppend
  <2>3. \A q \in Known : q.key = r.key => Rows(q) = Rows(r)
    BY <1>8, <1>10 DEF Asks
  <2>4. minted' \in Nat /\ minted <= minted'
    BY <1>2 DEF ServerInv, StoreInv
  <2> QED BY <1>11, <2>2, <2>3, <2>4, PageStepKeeps DEF ServerInv, AtWork
<1>13. Grows /\ Known' \subseteq Known \union {r}
  BY <1>12 DEF PageKeeps
<1>14. ServerInv'
  <2>1. ReplyInv'
    BY <1>2, <1>13, LineAppend, ReplyKept DEF ServerInv, RequestsInv
  <2> QED BY <1>12, <2>1 DEF ServerInv, PageKeeps
<1>15. QueueTypes'
  BY <1>0, <1>1, <1>2, <1>3, <1>4, <1>6 DEF QueueTypes
<1>16. Sorted'
  <2>1. \A v \in Waiting' : v \notin retries'
    BY <1>0, <1>2, <1>3 DEF Sorted, Waiting
  <2>2. w \notin retries
    BY <1>0, <1>3 DEF Sorted, Waiting
  <2> QED BY <1>1, <1>2, <1>3, <1>4, <2>1, <2>2 DEF Sorted, Waiting
<1>17. Matched'
  <2>1. \A v \in Pending' : v.id \in 1 .. queued' /\ v.key \in 1 .. minted'
    BY <1>0, <1>2, <1>7 DEF Matched
  <2>2. \A u, v \in Pending' : u.key = v.key \/ u.id = v.id => u = v
    BY <1>0, <1>7 DEF Matched
  <2>3. \A q \in Known' : q.gesture \in 1 .. queued' /\ \E j \in Items : Rows(q) = {j}
    BY <1>0, <1>2, <1>5, <1>7, <1>8, <1>13 DEF Matched
  <2>4. \A p, q \in Known' : p.key = q.key <=> p.gesture = q.gesture
    BY <1>0, <1>8, <1>10, <1>13 DEF Matched, Asks
  <2>5. \A q \in Known', v \in Pending' : v.key = q.key \/ v.id = q.gesture => Asks(q, v)
    BY <1>0, <1>7, <1>8, <1>9, <1>13 DEF Matched
  <2> QED BY <2>1, <2>2, <2>3, <2>4, <2>5 DEF Matched, Asks, Rows
<1>18. /\ Len(line) \in Nat /\ DOMAIN line = 1 .. Len(line)
       /\ DOMAIN line' = 1 .. Len(line) + 1 /\ line'[Len(line) + 1] = r
       /\ \A n \in DOMAIN line : line'[n] = line[n]
  BY <1>2, Appended DEF ServerInv, RequestsInv
<1>19. \A n \in DOMAIN line' :
          \/ n \in DOMAIN line /\ line'[n] = line[n]
          \/ n = Len(line) + 1 /\ line'[n] = r
  BY <1>18
<1>20. InOrder'
  <2>1. \A n \in DOMAIN line : line[n].from = "write" /\ line[n].n \in Nat /\ line[n].n < k
    BY <1>0, <1>3 DEF InOrder
  <2>2. \A n \in DOMAIN line' :
          /\ line'[n].from = "write" /\ line'[n].n \in Nat /\ line'[n].n <= Taken'
          /\ line'[n].n = t.n => Asks(line'[n], t.write)
    BY <1>3, <1>4, <1>8, <1>9, <1>19, <2>1
  <2>3. ASSUME NEW n \in DOMAIN line', NEW m \in DOMAIN line', m < n
        PROVE  line'[m].n < line'[n].n
    <3>1. m \in DOMAIN line /\ line'[m] = line[m]
      BY <1>18, <2>3
    <3>2. CASE n \in DOMAIN line
      BY <1>0, <1>18, <2>3, <3>1, <3>2 DEF InOrder
    <3>3. CASE n = Len(line) + 1
      BY <1>8, <1>18, <2>1, <3>1, <3>3
    <3> QED BY <1>18, <3>2, <3>3
  <2> QED BY <1>1, <2>2, <2>3 DEF InOrder, Asks, Rows
<1>21. OnScreen'
  <2>1. Over(w.patch, rows[w.item]) \in ApplicationRow
    BY <1>5, GuessedRow
  <2>2. /\ rows' \in [Items -> ApplicationRow]
        /\ \A i \in Items : i # w.item => rows'[i] = rows[i] /\ rows'[i] \in held'[i]
    BY <1>0, <1>2, <1>5, <2>1 DEF OnScreen
  <2>3. initial' # None => IsPage(initial)'
    <3>1. PICK p : p = initial
      OBVIOUS
    <3>2. p # None => IsPage(p)'
      BY <1>0, <1>13, <3>1, PageKept DEF OnScreen
    <3> QED BY <1>2, <3>1, <3>2 DEF IsPage, Real
  <2>4. \A i \in Items : turn' = None \/ i # turn'.write.item => rows'[i] \in held'[i]
    BY <1>1, <1>4, <1>6, <2>2
  <2>5. turn'.before \in held'[turn'.write.item]
    BY <1>1, <1>2, <1>4, <1>5
  <2> QED BY <2>2, <2>3, <2>4, <2>5 DEF OnScreen
<1>22. UndisturbedInv'
  <2> SUFFICES ASSUME Undisturbed'
               PROVE  UndisturbedInv'
    BY DEF UndisturbedInv
  <2>1. Undisturbed
    BY <1>2 DEF Undisturbed, AtWork
  <2>2. reply' # None => reply'.kind # "conflict"
    BY <1>2, <2>1 DEF UndisturbedInv
  <2>3. ASSUME ~Ran'
        PROVE  /\ \A n \in DOMAIN line' :
                    /\ line'[n].key \notin DOMAIN answers'
                    /\ \A i \in Rows(line'[n]) : line'[n].expected[i] \in {None, store'[i].at}
               /\ \A v \in Pending' : v.key \notin DOMAIN answers'
               /\ \A i \in Items : Current(i)'
    <3>1. /\ \A n \in DOMAIN line :
                  /\ line[n].key \notin DOMAIN answers
                  /\ \A i \in Rows(line[n]) : line[n].expected[i] \in {None, store[i].at}
          /\ \A v \in Pending : v.key \notin DOMAIN answers
          /\ \A i \in Items : Current(i)
      BY <1>2, <2>1, <2>3 DEF UndisturbedInv, Ran
    <3>2. \A i \in Items : rows[i].at = store[i].at /\ (initial # None => initial[i].at = store[i].at)
      BY <1>2, <3>1 DEF Current
    <3>3. r.key \notin DOMAIN answers /\ \A i \in Rows(r) : r.expected[i] \in {None, store[i].at}
      BY <1>5, <1>7, <1>8, <3>1, <3>2
    <3>4. ASSUME NEW i \in Items
          PROVE  Current(i)'
      <4>1. i # w.item => rows'[i] = rows[i]
        BY <1>0, <1>2 DEF OnScreen
      <4> QED BY <1>1, <1>2, <1>4, <1>6, <3>2, <4>1 DEF Current
    <3> QED BY <1>2, <1>7, <1>19, <3>1, <3>3, <3>4
  <2>4. ~(Ran' /\ Awaited')
    <3>1. ASSUME reply # None
          PROVE  Head(line').n # k
      <4>1. line # <<>>
        BY <3>1 DEF ServerInv, ReplyInv
      <4>2. Head(line') = Head(line)
        BY <1>2, <4>1, LineAppend DEF ServerInv, RequestsInv
      <4> QED BY <1>0, <1>3, <4>1, <4>2, HeadFirst
    <3> QED BY <1>1, <1>2, <1>4, <3>1 DEF Awaited
  <2> QED BY <2>2, <2>3, <2>4 DEF UndisturbedInv, Rows
<1> QED BY <1>14, <1>15, <1>16, <1>17, <1>20, <1>21, <1>22 DEF PipelineInv

\* The request of the turn answers for its row.
LEMMA HeadAsks ==
  ASSUME ServerInv, PipelineInv, surface = "pipeline", reply # None, NEW h, h = Head(line)
  PROVE  /\ line # <<>> /\ h \in Known /\ h # Refresh /\ h.from = "write"
         /\ reply.kind \in {"ok", "conflict", "thrown", "error", "auth"}
         /\ reply.page # None => reply.kind = "ok" /\ IsPage(reply.page)
         /\ \E i \in Items : Rows(h) = {i}
         /\ reply.kind \in {"ok", "conflict"} => DOMAIN reply.rows = Rows(h) /\ Real(reply.rows)
         /\ Awaited => turn # None /\ turn.write.item \in Items /\ h.n = Taken /\ Asks(h, turn.write)
<1>0. QueueTypes /\ Sorted /\ Matched /\ InOrder /\ OnScreen
  BY DEF PipelineInv
<1>1. line # <<>>
  BY DEF ServerInv, ReplyInv
<1>2. h = line[1] /\ 1 \in DOMAIN line
  BY <1>1, Shifted DEF ServerInv, RequestsInv
<1>3. h.from = "write"
  BY <1>0, <1>2 DEF InOrder
<1>4. h # Refresh
  BY <1>3 DEF Refresh
<1>5. h \in Known
  BY <1>2, <1>4 DEF Known, Asked
<1>6. /\ reply.kind \in {"ok", "conflict", "thrown", "error", "auth"}
      /\ reply.page # None => reply.kind = "ok" /\ IsPage(reply.page)
      /\ reply.kind \in {"ok", "conflict"} => DOMAIN reply.rows = Rows(h) /\ Real(reply.rows)
  BY <1>4 DEF ServerInv, ReplyInv
<1>7. \E i \in Items : Rows(h) = {i}
  BY <1>0, <1>5 DEF Matched
<1>8. ASSUME Awaited
      PROVE  turn # None /\ turn.write.item \in Items /\ h.n = Taken /\ Asks(h, turn.write)
  <2>1. turn # None /\ h.n = turn.n
    BY <1>8 DEF Awaited
  <2>2. turn \in Turns /\ turn.n = Taken
    BY <1>0, <2>1 DEF QueueTypes
  <2> QED BY <1>0, <1>2, <2>1, <2>2 DEF InOrder, Turns, Writes
<1> QED BY <1>1, <1>3, <1>4, <1>5, <1>6, <1>7, <1>8

\* The rows on the screen once nothing more is guessed of row i.
LEMMA TurnEnds ==
  ASSUME ServerInv, PipelineInv, AtWork, turn # None, turn' = None,
         retries' = retries \/ retries' = retries \union {turn.write},
         NEW x, x \in held[turn.write.item], rows' = [rows EXCEPT ![turn.write.item] = x],
         initial' = initial \/ (reply # None /\ reply.page # None /\ initial' = reply.page),
         UNCHANGED <<waiting, queued, minted>>,
         \/ line' = line /\ reply' = reply
         \/ line' = Tail(line) /\ reply # None /\ reply' = None
  PROVE  /\ ServerInv' /\ PipelineInv'
         /\ Pending' \subseteq Pending /\ (retries' = retries => Pending' \subseteq retries \union Waiting)
         /\ \A j \in Items : rows'[j] = IF j = turn.write.item THEN x ELSE rows[j]
         /\ \A n \in DOMAIN line' : \E m \in DOMAIN line : line'[n] = line[m]
<1>0. QueueTypes /\ Sorted /\ Matched /\ InOrder /\ OnScreen
  BY DEF PipelineInv, AtWork
<1>1. ServerInv' /\ Grows /\ Known' \subseteq Known
  <2>1. minted \in Nat
    BY DEF ServerInv, StoreInv
  <2> QED BY <2>1, QuietStep DEF AtWork
<1>2. turn.write.item \in Items /\ turn.write \in Writes
  BY <1>0 DEF QueueTypes, Turns, Writes
<1>3. x \in ApplicationRow
  BY <1>2 DEF ServerInv, StoreInv, AtWork, PageRow
<1>4. /\ rows' \in [Items -> ApplicationRow]
      /\ \A j \in Items : rows'[j] = IF j = turn.write.item THEN x ELSE rows[j]
  BY <1>0, <1>2, <1>3 DEF OnScreen
<1>5. Waiting' = Waiting /\ Taken' = Taken /\ Taken \in Nat
  BY <1>0 DEF Waiting, Taken, QueueTypes
<1>6. Pending' \subseteq Pending /\ (retries' = retries => Pending' \subseteq retries \union Waiting)
  <2>1. Pending' = retries' \union Waiting
    BY <1>5 DEF Pending
  <2>2. turn.write \in Pending
    BY DEF Pending
  <2> QED BY <2>1, <2>2 DEF Pending
<1>7. QueueTypes'
  BY <1>0, <1>2, <1>5 DEF QueueTypes
<1>8. Sorted'
  <2>1. \A n \in DOMAIN waiting : waiting[n] \notin retries'
    BY <1>0 DEF Sorted, Waiting
  <2> QED BY <1>0, <2>1 DEF Sorted
<1>9. Matched'
  BY <1>0, <1>1, <1>6, MatchedKept DEF QueueTypes, ServerInv, StoreInv
<1>10. line' = line \/ (line' = Tail(line) /\ line # <<>>)
  BY DEF ServerInv, ReplyInv
<1>11. InOrder'
  BY <1>0, <1>5, <1>10, InOrderKept
<1>12. OnScreen'
  <2>1. \A j \in Items : rows'[j] \in held'[j]
    <3>1. \A j \in Items : rows'[j] \in held[j]
      BY <1>0, <1>4 DEF OnScreen
    <3> QED BY <1>1, <3>1 DEF Grows
  <2>2. initial' # None => IsPage(initial)'
    <3>1. PICK p : p = initial'
      OBVIOUS
    <3>2. p # None => IsPage(p)
      BY <1>0, <3>1 DEF OnScreen, ServerInv, ReplyInv
    <3>3. p # None => IsPage(p)'
      BY <1>1, <3>2, PageKept
    <3> QED BY <3>1, <3>3 DEF IsPage, Real
  <2> QED BY <1>4, <2>1, <2>2 DEF OnScreen
<1>13. \A n \in DOMAIN line' : \E m \in DOMAIN line : line'[n] = line[m]
  <2>1. CASE line' = line
    BY <2>1
  <2>2. CASE line' = Tail(line) /\ line # <<>>
    BY <2>2, LineTail DEF ServerInv, RequestsInv
  <2> QED BY <1>10, <2>1, <2>2
<1> QED BY <1>1, <1>4, <1>6, <1>7, <1>8, <1>9, <1>11, <1>12, <1>13 DEF PipelineInv

LEMMA SettleWriteKeeps ==
  ASSUME ServerInv, PipelineInv, UndisturbedInv, AtWork, SettleWrite
  PROVE  ServerInv' /\ PipelineInv' /\ UndisturbedInv'
<1>1. PICK i, h, x : i = turn.write.item /\ h = Head(line) /\ x = rows'[i]
  OBVIOUS
<1>2. /\ Awaited /\ turn # None /\ reply # None
      /\ turn' = None /\ reply' = None /\ line' = Tail(line)
      /\ initial' = IF reply.page # None THEN reply.page ELSE initial
      /\ waiting' = waiting /\ queued' = queued /\ minted' = minted /\ strange' = strange
      /\ store' = store /\ answers' = answers
  BY DEF SettleWrite, Awaited, Arrives, AtWork, dbVars
<1>3. /\ line # <<>> /\ Rows(h) = {i} /\ i \in Items /\ h.n = Taken
      /\ reply.kind \in {"ok", "conflict"} => DOMAIN reply.rows = Rows(h) /\ Real(reply.rows)
      /\ reply.page # None => reply.kind = "ok"
  BY <1>1, <1>2, HeadAsks DEF AtWork, Asks
<1>4. rows \in [Items -> ApplicationRow] /\ turn.before \in held[i]
  BY <1>1, <1>2 DEF PipelineInv, AtWork, OnScreen
<1>5. \/ /\ reply.kind \in {"ok", "conflict"} /\ retries' = retries
         /\ rows' = [rows EXCEPT ![i] = reply.rows[i]]
      \/ /\ reply.kind \notin {"ok", "conflict"}
         /\ retries' = retries \/ retries' = retries \union {turn.write}
         /\ rows' = [rows EXCEPT ![i] = turn.before]
  BY <1>1 DEF SettleWrite, SettleOn, Put
<1>6. /\ x \in held[i] /\ rows' = [rows EXCEPT ![i] = x]
      /\ x = IF reply.kind \in {"ok", "conflict"} THEN reply.rows[i] ELSE turn.before
  BY <1>1, <1>3, <1>4, <1>5 DEF Real
<1>7. /\ ServerInv' /\ PipelineInv'
      /\ Pending' \subseteq Pending /\ (retries' = retries => Pending' \subseteq retries \union Waiting)
      /\ \A j \in Items : rows'[j] = IF j = i THEN x ELSE rows[j]
      /\ \A n \in DOMAIN line' : \E m \in DOMAIN line : line'[n] = line[m]
  BY <1>1, <1>2, <1>5, <1>6, TurnEnds
<1>8. UndisturbedInv'
  <2> SUFFICES ASSUME Undisturbed'
               PROVE  UndisturbedInv'
    BY DEF UndisturbedInv
  <2>1. Undisturbed
    BY <1>2 DEF Undisturbed, AtWork
  <2>2. CASE Ran
    <3>1. /\ reply.kind = "ok" /\ retries' = retries
          /\ reply.page # None /\ \A j \in Items : reply.page[j].at = store[j].at
          /\ reply.rows[i].at = store[i].at
          /\ \A j \in Items \ {i} : Current(j)
          /\ \A w \in retries \union Waiting : w.key \notin DOMAIN answers
      BY <1>1, <1>2, <1>5, <2>1, <2>2 DEF UndisturbedInv, Ran
    <3>2. DOMAIN line' = {}
      BY <1>1, <1>2, <1>3, HeadFirst DEF PipelineInv, AtWork
    <3>3. ASSUME NEW j \in Items
          PROVE  rows'[j].at = store'[j].at /\ initial'[j].at = store'[j].at
      <4>1. x = reply.rows[i]
        BY <1>6, <3>1
      <4> QED BY <1>1, <1>2, <1>7, <3>1, <4>1 DEF Current
    <3>4. \A w \in Pending' : w.key \notin DOMAIN answers'
      BY <1>2, <1>7, <3>1
    <3> QED BY <1>2, <3>2, <3>3, <3>4 DEF UndisturbedInv, Current, Ran
  <2>3. CASE ~Ran
    <3>1. /\ \A n \in DOMAIN line :
                  /\ line[n].key \notin DOMAIN answers
                  /\ \A j \in Rows(line[n]) : line[n].expected[j] \in {None, store[j].at}
          /\ \A w \in Pending : w.key \notin DOMAIN answers
          /\ \A j \in Items : Current(j)
          /\ reply.kind # "conflict"
      BY <1>2, <2>1, <2>3 DEF UndisturbedInv
    <3>2. x = turn.before /\ initial' = initial
      BY <1>2, <1>3, <1>6, <2>3, <3>1 DEF Ran
    <3>3. ASSUME NEW j \in Items
          PROVE  Current(j)'
      BY <1>1, <1>2, <1>7, <3>1, <3>2 DEF Current
    <3> QED BY <1>2, <1>7, <3>1, <3>3 DEF UndisturbedInv, Ran, Rows
  <2> QED BY <2>2, <2>3
<1> QED BY <1>7, <1>8

LEMMA GiveUpKeeps ==
  ASSUME ServerInv, PipelineInv, UndisturbedInv, AtWork, GiveUp
  PROVE  ServerInv' /\ PipelineInv' /\ UndisturbedInv'
<1>1. PICK i, x : i = turn.write.item /\ x = turn.before
  OBVIOUS
<1>2. /\ turn # None /\ turn' = None /\ rows' = [rows EXCEPT ![i] = x]
      /\ retries' = retries \union {turn.write}
      /\ initial' = initial /\ waiting' = waiting /\ queued' = queued /\ minted' = minted
      /\ line' = line /\ reply' = reply /\ strange' = strange
      /\ store' = store /\ answers' = answers
  BY <1>1 DEF GiveUp, Put, AtWork, dbVars
<1>3. x \in held[i]
  BY <1>1, <1>2 DEF PipelineInv, AtWork, OnScreen
<1>4. /\ ServerInv' /\ PipelineInv' /\ Pending' \subseteq Pending
      /\ \A j \in Items : rows'[j] = IF j = i THEN x ELSE rows[j]
  <2>1. x \in held[turn.write.item] /\ rows' = [rows EXCEPT ![turn.write.item] = x]
    BY <1>1, <1>2, <1>3
  <2>2. \A j \in Items : rows'[j] = IF j = turn.write.item THEN x ELSE rows[j]
    BY <1>2, <2>1, TurnEnds
  <2>3. ServerInv' /\ PipelineInv' /\ Pending' \subseteq Pending
    BY <1>2, <2>1, TurnEnds
  <2> QED BY <1>1, <2>2, <2>3
<1>5. UndisturbedInv'
  <2> SUFFICES ASSUME Undisturbed'
               PROVE  UndisturbedInv'
    BY DEF UndisturbedInv
  <2>1. Undisturbed /\ ~Awaited' /\ (Ran' <=> Ran)
    BY <1>2 DEF Undisturbed, AtWork, Awaited, Ran
  <2>2. ASSUME ~Ran, NEW j \in Items
        PROVE  Current(j)'
    <3>1. Current(j)
      BY <2>1, <2>2 DEF UndisturbedInv
    <3> QED BY <1>1, <1>2, <1>4, <3>1 DEF Current
  <2> QED BY <1>2, <1>4, <2>1, <2>2 DEF UndisturbedInv, Rows
<1> QED BY <1>4, <1>5

LEMMA TooLateKeeps ==
  ASSUME ServerInv, PipelineInv, UndisturbedInv, AtWork, TooLate
  PROVE  ServerInv' /\ PipelineInv' /\ UndisturbedInv'
<1>0. QueueTypes /\ Sorted /\ Matched /\ InOrder /\ OnScreen
  BY DEF PipelineInv, AtWork
<1>1. PICK h : h = Head(line)
  OBVIOUS
<1>2. /\ reply # None /\ reply' = None /\ line' = Tail(line)
      /\ initial' = IF reply.page # None THEN reply.page ELSE initial
      /\ strange' = Untold(reply.rows)
      /\ rows' = rows /\ waiting' = waiting /\ turn' = turn /\ retries' = retries
      /\ queued' = queued /\ minted' = minted /\ store' = store /\ answers' = answers
  BY DEF TooLate, Arrives, AtWork, dbVars
<1>3. /\ line # <<>> /\ \E i \in Items : Rows(h) = {i}
      /\ reply.kind \in {"ok", "conflict"} => DOMAIN reply.rows = Rows(h)
      /\ reply.page # None => reply.kind = "ok" /\ IsPage(reply.page)
  BY <1>1, <1>2, HeadAsks DEF AtWork
<1>4. ServerInv' /\ Grows /\ Known' \subseteq Known
  <2>1. minted \in Nat
    BY DEF ServerInv, StoreInv
  <2> QED BY <1>2, <2>1, QuietStep DEF AtWork
<1>5. Pending' = Pending /\ Waiting' = Waiting /\ Taken' = Taken /\ Taken \in Nat
  BY <1>0, <1>2 DEF Pending, Waiting, Taken, QueueTypes
<1>6. QueueTypes' /\ Sorted'
  BY <1>0, <1>2, <1>5 DEF QueueTypes, Sorted
<1>7. Matched'
  BY <1>0, <1>2, <1>4, <1>5, MatchedKept DEF QueueTypes, ServerInv, StoreInv
<1>8. InOrder'
  BY <1>0, <1>2, <1>3, <1>5, InOrderKept
<1>9. OnScreen'
  <2>1. \A j \in Items : turn' = None \/ j # turn'.write.item => rows'[j] \in held'[j]
    BY <1>0, <1>2, <1>4 DEF OnScreen, Grows
  <2>2. turn' # None => turn'.before \in held'[turn'.write.item]
    BY <1>0, <1>2, <1>4 DEF OnScreen, Grows, QueueTypes, Turns, Writes
  <2>3. initial' # None => IsPage(initial)'
    <3>1. PICK p : p = initial'
      OBVIOUS
    <3>2. p # None => IsPage(p)
      BY <1>0, <1>2, <1>3, <3>1 DEF OnScreen
    <3>3. p # None => IsPage(p)'
      BY <1>4, <3>2, PageKept
    <3> QED BY <3>1, <3>3 DEF IsPage, Real
  <2> QED BY <1>0, <1>2, <2>1, <2>2, <2>3 DEF OnScreen
<1>10. UndisturbedInv'
  <2> SUFFICES ASSUME Undisturbed'
               PROVE  UndisturbedInv'
    BY DEF UndisturbedInv
  <2>1. strange' = {} /\ strange' = strange \union {reply.rows[i].at : i \in DOMAIN reply.rows}
    BY <1>2 DEF Undisturbed, Untold
  <2>2. Undisturbed
    BY <2>1 DEF Undisturbed, AtWork
  <2>3. DOMAIN reply.rows = {}
    BY <2>1
  <2>4. ~Ran /\ initial' = initial
    BY <1>2, <1>3, <2>3 DEF Ran
  <2>5. /\ \A n \in DOMAIN line :
                /\ line[n].key \notin DOMAIN answers
                /\ \A j \in Rows(line[n]) : line[n].expected[j] \in {None, store[j].at}
        /\ \A w \in Pending : w.key \notin DOMAIN answers
        /\ \A j \in Items : Current(j)
    BY <2>2, <2>4 DEF UndisturbedInv
  <2>6. \A n \in DOMAIN line' : \E m \in DOMAIN line : line'[n] = line[m]
    BY <1>2, <1>3, LineTail DEF ServerInv, RequestsInv
  <2>7. \A j \in Items : Current(j)'
    BY <1>2, <2>4, <2>5 DEF Current
  <2> QED BY <1>2, <1>5, <2>5, <2>6, <2>7 DEF UndisturbedInv, Ran, Rows
<1> QED BY <1>4, <1>6, <1>7, <1>8, <1>9, <1>10 DEF PipelineInv

LEMMA RevalidatedKeeps ==
  ASSUME ServerInv, PipelineInv, UndisturbedInv, AtWork, Revalidated
  PROVE  ServerInv' /\ PipelineInv' /\ UndisturbedInv'
<1>0. QueueTypes /\ Sorted /\ Matched /\ InOrder /\ OnScreen
  BY DEF PipelineInv, AtWork
<1>1. /\ initial # None /\ rows' = initial /\ initial' = None
      /\ line' = line /\ reply' = reply /\ strange' = strange
      /\ waiting' = waiting /\ turn' = turn /\ retries' = retries
      /\ queued' = queued /\ minted' = minted /\ store' = store /\ answers' = answers
  BY DEF Revalidated, AtWork, dbVars
<1>2. ServerInv' /\ Grows /\ Known' \subseteq Known
  <2>1. minted \in Nat
    BY DEF ServerInv, StoreInv
  <2> QED BY <1>1, <2>1, QuietStep DEF AtWork
<1>3. Pending' = Pending /\ Waiting' = Waiting /\ Taken' = Taken /\ Taken \in Nat
  BY <1>0, <1>1 DEF Pending, Waiting, Taken, QueueTypes
<1>4. QueueTypes' /\ Sorted'
  BY <1>0, <1>1, <1>3 DEF QueueTypes, Sorted
<1>5. Matched'
  BY <1>0, <1>1, <1>2, <1>3, MatchedKept DEF QueueTypes, ServerInv, StoreInv
<1>6. InOrder'
  BY <1>0, <1>1, <1>3, InOrderKept
<1>7. OnScreen'
  <2>1. initial \in [Items -> ApplicationRow] /\ \A j \in Items : initial[j] \in held[j]
    BY <1>0, <1>1 DEF OnScreen, IsPage, Real, AtWork, PageRow
  <2>2. turn' # None => turn'.before \in held'[turn'.write.item]
    BY <1>0, <1>1, <1>2 DEF OnScreen, Grows, QueueTypes, Turns, Writes
  <2> QED BY <1>1, <1>2, <2>1, <2>2 DEF OnScreen, Grows
<1>8. UndisturbedInv'
  <2> SUFFICES ASSUME Undisturbed'
               PROVE  UndisturbedInv'
    BY DEF UndisturbedInv
  <2>1. Undisturbed /\ (Awaited' <=> Awaited) /\ (Ran' <=> Ran)
    BY <1>1 DEF Undisturbed, AtWork, Awaited, Ran
  <2>2. \A j : Current(j) => Current(j)'
    BY <1>1 DEF Current
  <2> QED BY <1>1, <1>3, <2>1, <2>2 DEF UndisturbedInv, Rows
<1> QED BY <1>2, <1>4, <1>5, <1>6, <1>7, <1>8 DEF PipelineInv

LEMMA WriteStepKeeps ==
  ASSUME ServerInv, PipelineInv, UndisturbedInv, WriteStep
  PROVE  ServerInv' /\ PipelineInv' /\ UndisturbedInv' /\ surface = "pipeline" /\ surface' = surface
<1>1. AtWork
  BY DEF WriteStep, Behind, AtWork
<1>2. CASE /\ \/ \E i \in Apps, c \in Changes : Make(i, c)
              \/ \E w \in retries : TryAgain(w)
           /\ UNCHANGED <<line, reply, strange>>
  BY <1>1, <1>2, MakeKeeps, TryAgainKeeps DEF AtWork
<1>3. CASE Take /\ UNCHANGED <<reply, strange>>
  BY <1>1, <1>3, TakeKeeps DEF AtWork
<1>4. CASE SettleWrite \/ GiveUp \/ TooLate \/ Revalidated
  BY <1>1, <1>4, SettleWriteKeeps, GiveUpKeeps, TooLateKeeps, RevalidatedKeeps DEF AtWork
<1> QED BY <1>2, <1>3, <1>4 DEF WriteStep

-----------------------------------------------------------------------------
(* The server and the pipeline page while nobody else writes.                *)

\* The first request is answered, but not with rows it wrote.
LEMMA NothingRan ==
  ASSUME UndisturbedInv, Undisturbed, UNCHANGED dbVars, line' = line, surface' = surface,
         UNCHANGED pipelineVars, reply = None,
         reply' # None => reply'.kind \notin {"ok", "conflict"}
  PROVE  UndisturbedInv'
<1>1. /\ store' = store /\ answers' = answers /\ rows' = rows /\ turn' = turn
      /\ initial' = initial /\ waiting' = waiting /\ retries' = retries
  BY DEF dbVars, pipelineVars
<1>2. ~Ran /\ ~Ran' /\ Pending' = Pending
  BY <1>1 DEF Ran, Pending, Waiting
<1>3. \A i : Current(i)' <=> Current(i)
  BY <1>1 DEF Current
<1> QED BY <1>1, <1>2, <1>3 DEF UndisturbedInv, Rows

LEMMA HandledUndisturbed ==
  ASSUME ServerInv, PipelineInv, UndisturbedInv, Undisturbed, Handle,
         surface' = surface, minted' = minted, UNCHANGED pipelineVars
  PROVE  UndisturbedInv'
<1>0. QueueTypes /\ Sorted /\ Matched /\ InOrder /\ OnScreen /\ surface = "pipeline"
  BY DEF PipelineInv, Undisturbed
<1>1. PICK r \in {line[n] : n \in DOMAIN line} :
        /\ AtServer(r) /\ r.change.kind # "refresh" /\ Execute(r)
        /\ \E rendered \in IF Outcome(r).kind = "ok" THEN {None, store'} ELSE {None} :
              /\ r.revalidates /\ Outcome(r).kind = "ok" => rendered # None
              /\ reply' = [kind |-> Outcome(r).kind, rows |-> Outcome(r).rows, page |-> rendered]
        /\ UNCHANGED <<line, wireVars>>
  BY DEF Handle
<1>2. r \in Known /\ Grounded(r) /\ line # <<>> /\ r = Head(line) /\ r = line[1] /\ 1 \in DOMAIN line
  <2>1. r \in Known
    BY <1>1, AskedFirst
  <2>2. line # <<>> /\ r = Head(line)
    BY <1>1 DEF AtServer
  <2> QED BY <2>1, <2>2, Shifted DEF ServerInv, RequestsInv
<1>3. /\ rows' = rows /\ turn' = turn /\ initial' = initial /\ waiting' = waiting
      /\ retries' = retries /\ line' = line /\ reply = None
  BY <1>1 DEF pipelineVars, AtServer
<1>4. /\ \A n \in DOMAIN line :
            /\ line[n].key \notin DOMAIN answers
            /\ \A i \in Rows(line[n]) : line[n].expected[i] \in {None, store[i].at}
      /\ \A w \in Pending : w.key \notin DOMAIN answers
      /\ \A i \in Items : Current(i)
  BY <1>3 DEF UndisturbedInv, Ran
<1>5. Applies(r)
  BY <1>2, <1>4 DEF Applies, Conflicts
<1>6. Outcome(r).kind = "ok" /\ Outcome(r).rows = Written(r)
  BY <1>5 DEF Outcome, Applies
<1>7. r.revalidates
  BY <1>0, <1>2 DEF Grounded
<1>8. reply' = [kind |-> "ok", rows |-> Written(r), page |-> store']
  BY <1>1, <1>6, <1>7
<1>9. reply'.kind = "ok" /\ reply'.rows = Written(r) /\ reply'.page = store'
  BY <1>8
<1>10. /\ StoreInv' /\ \A i \in Rows(r) : store'[i] = Written(r)[i]
  BY <1>1, <1>2, <1>5, AppliedStore DEF ServerInv
<1>11. /\ store' = Over(Written(r), store)
       /\ answers' = Over([k \in {r.key} |-> Written(r)], answers)
  BY <1>1, <1>5 DEF Execute
<1>12. /\ DOMAIN answers' = DOMAIN answers \union {r.key}
       /\ \A i \in Items \ Rows(r) : store'[i] = store[i]
  <2>1. DOMAIN Written(r) = Rows(r) /\ DOMAIN store = Items
    BY DEF Written, ServerInv, StoreInv, IsPage
  <2> QED BY <1>11, <2>1 DEF Over
<1>13. reply'.page # None /\ reply' # None
  <2>1. store' \in [Items -> ApplicationRow]
    BY <1>0, <1>10 DEF StoreInv, IsPage, PageRow
  <2>2. Rows(r) \subseteq Items
    BY <1>2, Asking DEF ServerInv
  <2>3. PICK W : W = Written(r)
    OBVIOUS
  <2>4. W \in [Rows(r) -> ApplicationRow]
    <3>1. W = [i \in Rows(r) |-> W[i]]
      BY <2>3 DEF Written
    <3> QED BY <1>10, <2>1, <2>2, <2>3, <3>1
  <2>5. W \in Rowsets(ApplicationRow)
    BY <2>2, <2>4 DEF Rowsets
  <2>6. reply' \in Replies
    BY <1>8, <2>1, <2>3, <2>5 DEF Replies
  <2>7. store' # None
    BY <1>1, <1>6, <1>7, <1>8
  <2> QED BY <1>9, <2>6, <2>7, NullAssumption
<1>14. ASSUME Awaited'
       PROVE  /\ \A i \in Items : reply'.page[i].at = store'[i].at
              /\ reply'.rows[turn'.write.item].at = store'[turn'.write.item].at
              /\ \A i \in Items \ {turn'.write.item} : Current(i)'
              /\ \A w \in retries' \union Waiting' : w.key \notin DOMAIN answers'
  <2>1. turn # None /\ r.n = turn.n
    BY <1>2, <1>3, <1>14 DEF Awaited
  <2>2. Asks(r, turn.write) /\ turn.write \in Pending
    BY <1>0, <1>2, <2>1 DEF InOrder, Pending
  <2>3. Rows(r) = {turn.write.item} /\ r.key = turn.write.key
    BY <2>2 DEF Asks
  <2>4. \A i \in Items \ {turn.write.item} : Current(i)'
    <3>1. TAKE i \in Items \ {turn.write.item}
    <3>2. store'[i] = store[i] /\ Current(i)
      BY <1>4, <1>12, <2>3
    <3> QED BY <1>3, <3>2 DEF Current
  <2>5. ASSUME NEW w \in retries \union Waiting
        PROVE  w.key \notin DOMAIN answers'
    <3>1. w \in Pending /\ w # turn.write
      BY <1>0, <2>1, <2>5 DEF Pending, Sorted
    <3>2. w.key # turn.write.key
      BY <1>0, <2>2, <3>1 DEF Matched
    <3> QED BY <1>4, <1>12, <2>3, <3>1, <3>2
  <2>6. retries' \union Waiting' = retries \union Waiting
    BY <1>3 DEF Waiting
  <2> QED BY <1>3, <1>9, <1>10, <2>3, <2>4, <2>5, <2>6
<1> QED BY <1>9, <1>13, <1>14 DEF UndisturbedInv, Ran

LEMMA ServerStepUndisturbed ==
  ASSUME ServerInv, PipelineInv, UndisturbedInv, DecisionsInv, ServerStep
  PROVE  UndisturbedInv'
<1> SUFFICES ASSUME Undisturbed'
             PROVE  UndisturbedInv'
  BY DEF UndisturbedInv
<1>1. /\ surface' = surface /\ minted' = minted /\ UNCHANGED pipelineVars
      /\ surface = "pipeline" /\ strange' = {} /\ Matched
  BY DEF ServerStep, Undisturbed, PipelineInv
<1>2. strange = {} => Undisturbed
  BY <1>1 DEF Undisturbed
<1>3. \A r \in Known : Rows(r) # {}
  BY <1>1 DEF Matched
<1>4. CASE Handle
  <2>1. strange' = strange
    BY <1>4 DEF Handle, wireVars
  <2> QED BY <1>1, <1>2, <1>4, <2>1, HandledUndisturbed
<1>5. CASE Render
  <2>1. /\ UNCHANGED dbVars /\ line' = line /\ strange' = strange /\ reply = None
        /\ reply' = [kind |-> "page", rows |-> <<>>, page |-> store]
    BY <1>5 DEF Render, wireVars, AtServer
  <2>2. reply'.kind = "page"
    BY <2>1
  <2> QED BY <1>1, <1>2, <2>1, <2>2, NothingRan
<1>6. CASE \E kind \in {"auth", "error"} : Refuse(kind)
  <2>1. PICK kind \in {"auth", "error"} : Refuse(kind)
    BY <1>6
  <2>2. /\ UNCHANGED dbVars /\ line' = line /\ strange' = strange /\ reply = None
        /\ reply' = [kind |-> kind, rows |-> <<>>, page |-> None]
    BY <2>1 DEF Refuse, AtServer
  <2>3. reply'.kind = kind
    BY <2>2
  <2> QED BY <1>1, <1>2, <2>2, <2>3, NothingRan
<1>7. CASE CutOff
  <2>1. /\ UNCHANGED dbVars /\ line' = line /\ strange' = strange /\ reply = None
        /\ reply' = [kind |-> "thrown", rows |-> <<>>, page |-> None]
    BY <1>7 DEF CutOff, AtServer, Thrown
  <2>2. reply'.kind = "thrown"
    BY <2>1
  <2> QED BY <1>1, <1>2, <2>1, <2>2, NothingRan
<1>8. CASE LoseReply
  <2>1. /\ reply # None /\ reply.kind = "ok"
        /\ strange' = strange \union {reply.rows[i].at : i \in DOMAIN reply.rows}
    BY <1>8 DEF LoseReply, Untold
  <2>2. PICK h : h = Head(line)
    OBVIOUS
  <2>3. h \in Known /\ DOMAIN reply.rows = Rows(h)
    BY <1>1, <2>1, <2>2, HeadAsks
  <2> QED BY <1>1, <1>3, <2>1, <2>3
<1>9. CASE StrayRuns
  <2>1. PICK r \in strays : Execute(r) /\ strange' = Untold(Outcome(r).rows)
    BY <1>9 DEF StrayRuns
  <2>2. r \in Known
    BY DEF Known, Asked
  <2>3. PICK o : o = Outcome(r)
    OBVIOUS
  <2>4. DOMAIN o.rows = Rows(r)
    BY <1>1, <2>1, <2>2, <2>3, Executed DEF ServerInv
  <2>5. strange' = strange \union {o.rows[i].at : i \in DOMAIN o.rows}
    BY <2>1, <2>3 DEF Untold
  <2> QED BY <1>1, <1>3, <2>2, <2>4, <2>5
<1>10. CASE \E c \in Foreign[surface] : Elsewhere(c)
  BY <1>1, <1>10 DEF Elsewhere
<1> QED BY <1>4, <1>5, <1>6, <1>7, <1>8, <1>9, <1>10 DEF ServerStep, Network

-----------------------------------------------------------------------------
(* The invariant is inductive.                                               *)
LEMMA TabInitially == Init => TabInv
<1> SUFFICES ASSUME Init
             PROVE  TabInv
  OBVIOUS
<1>1. PICK seed \in IF surface = "pipeline" THEN Applications ELSE Postings :
        ServerInit(seed) /\ DecisionsInit(seed) /\ PipelineInit(seed)
  BY DEF Init
<1>2. surface \in DOMAIN Foreign /\ surface \in {"jobs", "queue", "pipeline"}
  BY PagesAssumption DEF Init
<1>3. seed \in [Items -> PageRow] /\ \A i \in Items : seed[i].at = 0
  BY PagesAssumption DEF PageRow
<1>4. /\ store = seed /\ clock = 0 /\ answers = <<>> /\ line = <<>> /\ reply = None /\ strays = {}
      /\ held = [i \in Items |-> {seed[i]}] /\ minted = 0 /\ effects = <<>>
  BY <1>1 DEF ServerInit
<1>5. /\ DOMAIN line = {} /\ DOMAIN effects = {} /\ DOMAIN answers = {}
      /\ Listing(line) /\ Listing(effects)
  BY <1>4, EmptyListing
<1>6. Known = {} /\ Asked = {}
  BY <1>4, <1>5 DEF Known, Asked
<1>7. held \in [Items -> SUBSET PageRow] /\ \A i \in Items : held[i] = {seed[i]}
  BY <1>3, <1>4
<1>8. IsPage(seed)
  BY <1>3, <1>7 DEF IsPage, Real
<1>9. StoreInv
  BY <1>2, <1>3, <1>4, <1>7, <1>8 DEF StoreInv
<1>10. RequestsInv /\ EffectsInv /\ ReplyInv /\ VersionStandsForRow /\ UndoRestores
  BY <1>4, <1>5, <1>6 DEF RequestsInv, EffectsInv, ReplyInv, VersionStandsForRow, UndoRestores
<1>11. DecisionsInv
  <2>1. /\ base = seed /\ patches = [i \in Items |-> None] /\ gesture = None
        /\ undoing = <<>> /\ offers = {}
    BY <1>1 DEF DecisionsInit
  <2>2. DOMAIN undoing = {}
    BY <2>1, EmptyListing
  <2>3. Overlay
    BY <1>8, <2>1 DEF Overlay, Kept
  <2>4. InFlight /\ Offered /\ Distinct
    BY <1>5, <1>6, <2>1, <2>2 DEF InFlight, Idle, Offered, Distinct
  <2> QED BY <2>3, <2>4 DEF DecisionsInv
<1>12. /\ rows = seed /\ waiting = <<>> /\ turn = None /\ initial = None /\ retries = {} /\ queued = 0
  BY <1>1 DEF PipelineInit
<1>13. DOMAIN waiting = {} /\ waiting \in Seq(Writes) /\ Len(waiting) = 0
  BY <1>12
<1>14. Pending = {}
  BY <1>12, <1>13 DEF Pending, Waiting
<1>15. PipelineInv
  <2>1. QueueTypes /\ Sorted
    BY <1>12, <1>13 DEF QueueTypes, Sorted
  <2>2. Matched /\ InOrder
    BY <1>5, <1>6, <1>14 DEF Matched, InOrder
  <2>3. surface = "pipeline" => OnScreen
    BY <1>3, <1>7, <1>12 DEF OnScreen, PageRow
  <2> QED BY <2>1, <2>2, <2>3 DEF PipelineInv
<1>16. UndisturbedInv
  BY <1>4, <1>5, <1>12, <1>14 DEF UndisturbedInv, Ran, Current
<1> QED BY <1>9, <1>10, <1>11, <1>15, <1>16 DEF TabInv

LEMMA TabStands ==
  ASSUME TabInv, UNCHANGED vars
  PROVE  TabInv'
<1>1. /\ UNCHANGED dbVars /\ UNCHANGED decisionVars /\ UNCHANGED pipelineVars
      /\ line' = line /\ reply' = reply /\ strays' = strays /\ surface' = surface
      /\ minted' = minted /\ strange' = strange
  BY DEF vars, serverVars
<1>2. ServerInv' /\ PageKeeps({}) /\ Grows /\ Known' \subseteq Known
  <2>1. ServerInv /\ minted \in Nat
    BY DEF TabInv, ServerInv, StoreInv
  <2> QED BY <1>1, <2>1, QuietStep
<1>3. ServerKeeps
  BY <1>1, <1>2 DEF ServerKeeps, ServerInv, PageKeeps
<1>4. DecisionsInv' /\ PipelineInv'
  BY <1>1, <1>3, DecisionsStand, PipelineStands DEF TabInv
<1>5. UndisturbedInv'
  <2>1. /\ store' = store /\ answers' = answers /\ rows' = rows /\ turn' = turn
        /\ initial' = initial /\ waiting' = waiting /\ retries' = retries
    BY <1>1 DEF dbVars, pipelineVars
  <2>2. /\ Pending' = Pending /\ Waiting' = Waiting /\ (Undisturbed' <=> Undisturbed)
        /\ (Ran' <=> Ran) /\ (Awaited' <=> Awaited) /\ \A i : Current(i)' <=> Current(i)
    BY <1>1, <2>1 DEF Pending, Waiting, Undisturbed, Ran, Awaited, Current
  <2> QED BY <1>1, <2>1, <2>2 DEF TabInv, UndisturbedInv, Rows
<1> QED BY <1>2, <1>4, <1>5 DEF TabInv, ServerInv

LEMMA TabSteps ==
  ASSUME TabInv, Next
  PROVE  TabInv'
<1>0. ServerInv /\ DecisionsInv /\ PipelineInv /\ UndisturbedInv
  BY DEF TabInv, ServerInv
<1>1. CASE DecisionStep
  <2>1. ServerInv' /\ DecisionsInv' /\ surface # "pipeline" /\ surface' = surface
    BY <1>0, <1>1, DecisionStepKeeps
  <2> QED BY <2>1 DEF TabInv, ServerInv, PipelineInv, UndisturbedInv, Undisturbed
<1>2. CASE WriteStep
  <2>1. ServerInv' /\ PipelineInv' /\ UndisturbedInv' /\ surface = "pipeline" /\ surface' = surface
    BY <1>0, <1>2, WriteStepKeeps
  <2> QED BY <2>1 DEF TabInv, ServerInv, DecisionsInv
<1>3. CASE ServerStep
  <2>1. ServerKeeps /\ UNCHANGED <<surface, minted, decisionVars, pipelineVars>>
    BY <1>0, <1>3, ServerStepKeeps DEF ServerInv
  <2>2. DecisionsInv' /\ PipelineInv'
    BY <1>0, <2>1, DecisionsStand, PipelineStands DEF ServerInv
  <2>3. UndisturbedInv'
    BY <1>0, <1>3, ServerStepUndisturbed
  <2> QED BY <2>1, <2>2, <2>3 DEF TabInv, ServerKeeps
<1> QED BY <1>1, <1>2, <1>3 DEF Next

LEMMA TabInductive == Spec => []TabInv
<1>1. TabInv /\ [Next]_vars => TabInv'
  BY TabSteps, TabStands
<1> QED BY <1>1, TabInitially, PTL DEF Spec

-----------------------------------------------------------------------------
(* What a tab promises.                                                      *)

\* A refused, lost or late write leaves nothing guessed behind: with no gesture
\* in flight every row shown is one the store has held (revert of useDecisions,
\* put(before) in the write of the pipeline's table).
THEOREM NothingGuessedRemains == Spec => []NothingGuessed
<1>1. TabInv => NothingGuessed
  BY DEF TabInv, StoreInv, NothingGuessed, DecisionsInv, Overlay, Guessed, Kept, PipelineInv, OnScreen
<1> QED BY <1>1, TabInductive, PTL DEF NothingGuessed

\* A command that compares versions writes over the rows its page had when the
\* request was formed, whatever others wrote meanwhile and whichever abandoned
\* requests still run: the version it sends stands for the whole row, notes aside
\* (the expected versions that decide, undo and the pipeline's write send).
THEOREM ReadIsOverwritten == Spec => []VersionStandsForRow
<1>1. TabInv => VersionStandsForRow
  BY DEF TabInv
<1> QED BY <1>1, TabInductive, PTL DEF VersionStandsForRow

\* An undo that reached the store puts back exactly what its gesture found, row by
\* row, however many calls it takes (undo of useDecisions).
THEOREM UndoPutsBack == Spec => []UndoRestores
<1>1. TabInv => UndoRestores
  BY DEF TabInv
<1> QED BY <1>1, TabInductive, PTL DEF UndoRestores

\* A gesture of the pipeline page is applied at most once: a retry carries its key,
\* and so does the request that was given up on (changeStatus and its siblings).
THEOREM AppliedOncePerGesture == Spec => []GestureOnce
<1>1. TabInv => GestureOnce
  <2> SUFFICES ASSUME TabInv, NEW m \in DOMAIN effects, NEW n \in DOMAIN effects,
                      effects[m].by.from = "write", effects[n].by.from = "write",
                      effects[m].by.gesture = effects[n].by.gesture
               PROVE  m = n
    BY DEF GestureOnce
  <2>1. effects[m].by \in Known /\ effects[n].by \in Known
    BY DEF Known
  <2>2. surface = "pipeline"
    BY <2>1 DEF TabInv, RequestsInv, Grounded
  <2>3. effects[m].by.key = effects[n].by.key
    BY <2>1, <2>2 DEF TabInv, PipelineInv, Matched
  <2> QED BY <2>3 DEF TabInv, EffectsInv
<1> QED BY <1>1, TabInductive, PTL DEF GestureOnce

\* Two writes made in a row never conflict with each other: the queue reads a row's
\* version when the turn comes, so a conflict means that somebody else has written
\* or a request the page gave up on has run.
THEOREM NoConflictOfOnesOwn == Spec => []NoSelfConflict
<1>1. TabInv => NoSelfConflict
  BY DEF TabInv, NoSelfConflict, UndisturbedInv, Undisturbed
<1> QED BY <1>1, TabInductive, PTL DEF NoSelfConflict

-----------------------------------------------------------------------------
(* What a page waits for is under way. The undos of a session are told apart by  *)
(* the number of the gesture they take back, and each has one call in the line.  *)

\* The undos that have a call in a line, and that each has one only.
Undone(s) == {s[m].n : m \in {l \in DOMAIN s : s[l].from = "undo"}}
OneCallEach(s) ==
    \A l, m \in DOMAIN s :
        s[l].from = "undo" /\ s[m].from = "undo" /\ s[l].n = s[m].n => l = m

\* An undo is offered, or has begun, once for each gesture that is over.
Undos == {o \in offers : o.kind = "undo"}
Numbered ==
    /\ made \in Nat
    /\ DOMAIN undoing \subseteq 1 .. made
    /\ \A o \in Undos : o.n \in 1 .. made /\ o.n \notin DOMAIN undoing
    /\ \A o, p \in Undos : o.n = p.n => o = p
    /\ gesture # None =>
          made > 0 /\ made \notin DOMAIN undoing /\ \A o \in Undos : o.n # made

AccompaniedInv ==
    /\ surface # "pipeline" => Numbered /\ OneCallEach(line)
    /\ Accompanied

LEMMA CallAppended ==
  ASSUME NEW s, Listing(s), OneCallEach(s), NEW e, e.from = "undo" => e.n \notin Undone(s)
  PROVE  /\ OneCallEach(Append(s, e))
         /\ Undone(Append(s, e)) = IF e.from = "undo" THEN Undone(s) \union {e.n} ELSE Undone(s)
         /\ ~Idle(s) \/ e.from = "decide" => ~Idle(Append(s, e))
<1>0. PICK t : t = Append(s, e)
  OBVIOUS
<1>1. /\ Len(s) \in Nat /\ DOMAIN s = 1 .. Len(s) /\ DOMAIN t = 1 .. Len(s) + 1
      /\ t[Len(s) + 1] = e /\ \A n \in DOMAIN s : t[n] = s[n]
  BY <1>0, Appended
<1>2. \A n \in DOMAIN t : n = Len(s) + 1 \/ (n \in DOMAIN s /\ t[n] = s[n])
  BY <1>1
<1>3. DOMAIN s \subseteq DOMAIN t /\ Len(s) + 1 \in DOMAIN t
  BY <1>1
<1>4. OneCallEach(t)
  BY <1>1, <1>2 DEF OneCallEach, Undone
<1>5. Undone(t) = IF e.from = "undo" THEN Undone(s) \union {e.n} ELSE Undone(s)
  <2>1. \A k : k \in Undone(t) <=> \E m \in DOMAIN t : t[m].from = "undo" /\ k = t[m].n
    BY DEF Undone
  <2>2. \A k : k \in Undone(s) <=> \E m \in DOMAIN s : s[m].from = "undo" /\ k = s[m].n
    BY DEF Undone
  <2>3. \A k : k \in Undone(t) <=> k \in Undone(s) \/ (e.from = "undo" /\ k = e.n)
    <3> TAKE k
    <3>1. ASSUME NEW m \in DOMAIN t, t[m].from = "undo", k = t[m].n
          PROVE  k \in Undone(s) \/ (e.from = "undo" /\ k = e.n)
      BY <1>1, <1>2, <2>2, <3>1
    <3>2. ASSUME NEW m \in DOMAIN s, s[m].from = "undo", k = s[m].n
          PROVE  k \in Undone(t)
      BY <1>1, <1>3, <2>1, <3>2
    <3>3. e.from = "undo" /\ k = e.n => k \in Undone(t)
      BY <1>1, <1>3, <2>1
    <3> QED BY <2>1, <2>2, <3>1, <3>2, <3>3
  <2> QED BY <2>3
<1>6. ~Idle(s) \/ e.from = "decide" => ~Idle(t)
  BY <1>1, <1>3 DEF Idle
<1> QED BY <1>0, <1>4, <1>5, <1>6

LEMMA CallTaken ==
  ASSUME NEW s, Listing(s), s # <<>>, OneCallEach(s)
  PROVE  /\ OneCallEach(Tail(s))
         /\ Undone(Tail(s)) = IF Head(s).from = "undo" THEN Undone(s) \ {Head(s).n} ELSE Undone(s)
         /\ Head(s).from = "undo" => Head(s).n \in Undone(s)
         /\ Head(s).from # "decide" /\ ~Idle(s) => ~Idle(Tail(s))
<1>0. PICK t, h : t = Tail(s) /\ h = Head(s)
  OBVIOUS
<1>1. /\ Len(s) \in Nat \ {0} /\ DOMAIN s = 1 .. Len(s) /\ DOMAIN t = 1 .. Len(s) - 1
      /\ h = s[1] /\ 1 \in DOMAIN s
      /\ \A n \in DOMAIN t : n + 1 \in DOMAIN s /\ t[n] = s[n + 1]
  BY <1>0, Shifted
<1>2. \A m \in DOMAIN s : m = 1 \/ (m - 1 \in DOMAIN t /\ t[m - 1] = s[m])
  <2>1. ASSUME NEW m \in DOMAIN s, m # 1
        PROVE  m - 1 \in DOMAIN t /\ t[m - 1] = s[m]
    <3>1. m - 1 \in DOMAIN t /\ (m - 1) + 1 = m
      BY <1>1, <2>1
    <3> QED BY <1>1, <3>1
  <2> QED BY <2>1
<1>3. OneCallEach(t)
  <2>1. ASSUME NEW l \in DOMAIN t, NEW m \in DOMAIN t,
               t[l].from = "undo", t[m].from = "undo", t[l].n = t[m].n
        PROVE  l = m
    <3>1. l + 1 = m + 1
      BY <1>1, <2>1 DEF OneCallEach
    <3> QED BY <1>1, <3>1
  <2> QED BY <2>1 DEF OneCallEach
<1>4. \A k : k \in Undone(t) <=> \E m \in DOMAIN t : t[m].from = "undo" /\ k = t[m].n
  BY DEF Undone
<1>5. \A k : k \in Undone(s) <=> \E m \in DOMAIN s : s[m].from = "undo" /\ k = s[m].n
  BY DEF Undone
<1>6. Undone(t) \subseteq Undone(s)
  BY <1>1, <1>4, <1>5
<1>7. h.from = "undo" => h.n \in Undone(s) /\ h.n \notin Undone(t)
  <2>1. ASSUME h.from = "undo", NEW m \in DOMAIN t, t[m].from = "undo", h.n = t[m].n
        PROVE  FALSE
    <3>1. m + 1 = 1
      BY <1>1, <2>1 DEF OneCallEach
    <3> QED BY <1>1, <3>1
  <2> QED BY <1>1, <1>4, <1>5, <2>1
<1>8. \A k \in Undone(s) : k \in Undone(t) \/ (h.from = "undo" /\ k = h.n)
  BY <1>1, <1>2, <1>4, <1>5
<1>9. h.from # "decide" /\ ~Idle(s) => ~Idle(t)
  BY <1>1, <1>2 DEF Idle
<1> QED BY <1>0, <1>3, <1>6, <1>7, <1>8, <1>9

\* The two readings of a page that is busy.
LEMMA BusyPage ==
  ASSUME surface # "pipeline"
  PROVE  Accompanied <=> (gesture # None <=> ~Idle(line)) /\ DOMAIN undoing = Undone(line)
  BY DEF Accompanied, Idle, Undone

\* ... and of one that is, after a step.
LEMMA StillBusy ==
  ASSUME surface # "pipeline", surface' = surface, Numbered', OneCallEach(line'),
         gesture' # None <=> ~Idle(line'), DOMAIN undoing' = Undone(line')
  PROVE  AccompaniedInv'
BY DEF AccompaniedInv, Accompanied, Idle, Undone, OneCallEach

LEMMA PersonAccompanied ==
  ASSUME TabInv, TabInv', AccompaniedInv, surface # "pipeline", surface' = surface, Person
  PROVE  AccompaniedInv'
<1>0. /\ Numbered /\ OneCallEach(line) /\ (gesture # None <=> ~Idle(line))
      /\ DOMAIN undoing = Undone(line) /\ Listing(line)
  BY BusyPage DEF AccompaniedInv, TabInv, RequestsInv
<1>1. ASSUME NEW targets, NEW choice, Decide(targets, choice), offers' \subseteq offers
      PROVE  AccompaniedInv'
  <2>1. PICK r : r = Batch("decide", made + 1, targets, choice)
    OBVIOUS
  <2>2. /\ line' = Append(line, r) /\ r.from = "decide" /\ made' = made + 1 /\ undoing' = undoing
        /\ gesture = None
        /\ gesture' = [targets |-> targets, choice |-> choice,
                       snapshot |-> [i \in DOMAIN targets |-> patches[i]]]
    BY <1>1, <2>1 DEF Decide, Send, Batch
  <2>3. OneCallEach(line') /\ Undone(line') = Undone(line) /\ ~Idle(line')
    BY <1>0, <2>2, CallAppended
  <2>4. gesture' # None
    BY <2>3 DEF TabInv, DecisionsInv, InFlight, Idle
  <2>5. Numbered'
    BY <1>0, <1>1, <2>2 DEF Numbered, Undos
  <2> QED BY <1>0, <2>2, <2>3, <2>4, <2>5, StillBusy
<1>2. ASSUME NEW o \in offers, Undo(o)
      PROVE  AccompaniedInv'
  <2>1. PICK g \in Groups(o) :
          /\ undoing' = Over([m \in {o.n} |-> Groups(o) \ {g}], undoing)
          /\ line' = Append(line, Batch("undo", o.n, g.rows, g.choice))
    BY <1>2 DEF Undo, SendGroup, Send
  <2>2. PICK r : r = Batch("undo", o.n, g.rows, g.choice)
    OBVIOUS
  <2>3. /\ r.from = "undo" /\ r.n = o.n /\ o.kind = "undo" /\ offers' = offers \ {o}
        /\ gesture' = gesture /\ made' = made
    BY <1>2, <2>2 DEF Undo, Batch
  <2>4. DOMAIN undoing' = DOMAIN undoing \union {o.n}
    BY <2>1 DEF Over
  <2>5. o \in Undos /\ o.n \notin Undone(line)
    BY <1>0, <2>3 DEF Undos, Numbered
  <2>6. OneCallEach(line') /\ Undone(line') = Undone(line) \union {o.n} /\ (~Idle(line) => ~Idle(line'))
    BY <1>0, <2>1, <2>2, <2>3, <2>5, CallAppended
  <2>7. Idle(line) => Idle(line')
    BY <1>0, <2>1, <2>2, <2>3, LineAppend
  <2>8. Numbered'
    BY <1>0, <2>3, <2>4, <2>5 DEF Numbered, Undos
  <2> QED BY <1>0, <2>3, <2>4, <2>6, <2>7, <2>8, StillBusy
<1>3. ASSUME NEW o \in offers, Retry(o)
      PROVE  AccompaniedInv'
  BY <1>1, <1>3 DEF Retry
<1>4. ASSUME NEW S, NEW choice, DecideRows(S, choice)
      PROVE  AccompaniedInv'
  BY <1>1, <1>4 DEF DecideRows
<1> QED BY <1>2, <1>3, <1>4 DEF Person

\* What is left of the line once its first request is answered.
LEMMA RestAccompanied ==
  ASSUME TabInv, OneCallEach(line), line # <<>>,
         NEW l, l = Tail(line) \/ l = Append(Tail(line), Refresh)
  PROVE  /\ Listing(l) /\ OneCallEach(l)
         /\ Undone(l) = IF Head(line).from = "undo" THEN Undone(line) \ {Head(line).n}
                        ELSE Undone(line)
         /\ Head(line).from = "undo" => Head(line).n \in Undone(line)
         /\ Head(line).from # "decide" => (Idle(l) <=> Idle(line))
<1>1. PICK t : t = Tail(line)
  OBVIOUS
<1>2. /\ Listing(t) /\ OneCallEach(t)
      /\ Undone(t) = IF Head(line).from = "undo" THEN Undone(line) \ {Head(line).n}
                     ELSE Undone(line)
      /\ Head(line).from = "undo" => Head(line).n \in Undone(line)
      /\ Head(line).from # "decide" /\ ~Idle(line) => ~Idle(t)
  BY <1>1, CallTaken, LineTail DEF TabInv, RequestsInv
<1>3. Listing(l) /\ OneCallEach(l) /\ Undone(l) = Undone(t) /\ (~Idle(t) => ~Idle(l))
  <2>1. Refresh.from = "refresh"
    BY DEF Refresh
  <2>2. CASE l = Append(t, Refresh)
    BY <1>2, <2>1, <2>2, CallAppended, LineAppend
  <2> QED BY <1>1, <1>2, <2>2
<1>4. Idle(line) => Idle(l)
  BY RestOfLine DEF TabInv
<1> QED BY <1>2, <1>3, <1>4

LEMMA BrowserAccompanied ==
  ASSUME TabInv, AccompaniedInv, surface # "pipeline", surface' = surface, Browser
  PROVE  AccompaniedInv'
<1>0. /\ Numbered /\ OneCallEach(line) /\ (gesture # None <=> ~Idle(line))
      /\ DOMAIN undoing = Undone(line) /\ Listing(line)
  BY BusyPage DEF AccompaniedInv, TabInv, RequestsInv
<1>1. CASE Settle
  <2>1. PICK h : h = Head(line)
    OBVIOUS
  <2>2. /\ line # <<>> /\ h.from = "decide" /\ gesture' = None /\ undoing' = undoing /\ made' = made
        /\ line' = Tail(line) \/ line' = Append(Tail(line), Refresh)
    BY <1>1, <2>1 DEF Settle, Answered, NextInLine, RefreshAfter
  <2>3. OneCallEach(line') /\ Undone(line') = Undone(line)
    BY <1>0, <2>1, <2>2, RestAccompanied
  <2>4. h \in {line[n] : n \in DOMAIN line}
    BY <1>0, <2>1, <2>2, LineTail
  <2>5. gesture # None
    BY <1>0, <2>2, <2>4 DEF Idle
  <2>6. Idle(line')
    <3>1. Sole(line, gesture.targets, made)
      BY <2>5 DEF TabInv, DecisionsInv, InFlight
    <3> QED BY <2>1, <2>2, <3>1, RestOfLine DEF TabInv
  <2>7. \A o \in offers' :
          o \in offers \/ o.kind = "retry"
            \/ o = [kind |-> "undo", n |-> made, rows |-> reply.rows, priors |-> gesture.targets]
    BY <1>1 DEF Settle
  <2>8. Numbered'
    <3>1. \A o \in Undos' : o \in Undos
            \/ o = [kind |-> "undo", n |-> made, rows |-> reply.rows, priors |-> gesture.targets]
      BY <2>7 DEF Undos
    <3> QED BY <1>0, <2>2, <2>5, <3>1 DEF Numbered
  <2> QED BY <1>0, <2>2, <2>3, <2>6, <2>8, StillBusy
<1>2. ASSUME NEW n \in DOMAIN undoing, SettleUndo(n)
      PROVE  AccompaniedInv'
  <2>1. PICK h, rest : /\ h = Head(line)
                       /\ rest = IF reply.kind = "conflict" THEN RefreshAfter ELSE NextInLine
    OBVIOUS
  <2>2. /\ line # <<>> /\ h.from = "undo" /\ h.n = n
        /\ gesture' = gesture /\ offers' = offers /\ made' = made
    BY <1>2, <2>1 DEF SettleUndo, Answered
  <2>3. /\ Listing(rest) /\ OneCallEach(rest) /\ Undone(rest) = Undone(line) \ {n}
        /\ Idle(rest) <=> Idle(line)
    BY <1>0, <2>1, <2>2, RestAccompanied DEF NextInLine, RefreshAfter
  <2>4. CASE undoing' = [m \in DOMAIN undoing \ {n} |-> undoing[m]] /\ line' = rest
    <3>1. DOMAIN undoing' = DOMAIN undoing \ {n}
      BY <2>4
    <3>2. Numbered'
      BY <1>0, <2>2, <3>1 DEF Numbered, Undos
    <3> QED BY <1>0, <2>2, <2>3, <2>4, <3>1, <3>2, StillBusy
  <2>5. ASSUME NEW g, undoing' = [undoing EXCEPT ![n] = @ \ {g}],
               line' = Append(rest, Batch("undo", n, g.rows, g.choice))
        PROVE  AccompaniedInv'
    <3>1. PICK r : r = Batch("undo", n, g.rows, g.choice)
      OBVIOUS
    <3>2. r.from = "undo" /\ r.n = n
      BY <3>1 DEF Batch
    <3>3. /\ OneCallEach(line') /\ Undone(line') = Undone(rest) \union {n}
          /\ Idle(line') <=> Idle(rest)
      BY <2>3, <2>5, <3>1, <3>2, CallAppended, LineAppend
    <3>4. DOMAIN undoing' = DOMAIN undoing
      BY <2>5
    <3>5. Numbered'
      BY <1>0, <2>2, <3>4 DEF Numbered, Undos
    <3> QED BY <1>0, <2>2, <2>3, <3>3, <3>4, <3>5, StillBusy
  <2> QED BY <1>2, <2>1, <2>4, <2>5 DEF SettleUndo
<1>3. CASE Refreshed
  <2>1. /\ line # <<>> /\ Head(line).from = "refresh" /\ line' = Tail(line)
        /\ gesture' = gesture /\ undoing' = undoing /\ offers' = offers /\ made' = made
    BY <1>3 DEF Refreshed, Answered, NextInLine
  <2>2. OneCallEach(line') /\ Undone(line') = Undone(line) /\ (Idle(line') <=> Idle(line))
    BY <1>0, <2>1, RestAccompanied
  <2>3. Numbered'
    BY <1>0, <2>1 DEF Numbered, Undos
  <2> QED BY <1>0, <2>1, <2>2, <2>3, StillBusy
<1> QED BY <1>1, <1>2, <1>3 DEF Browser

LEMMA WriteAccompanied ==
  ASSUME TabInv, AccompaniedInv, WriteStep
  PROVE  AccompaniedInv'
<1>0. surface = "pipeline" /\ surface' = surface /\ Listing(line)
  BY DEF WriteStep, Behind, TabInv, RequestsInv
<1>1. ASSUME turn' # None
      PROVE  \E m \in DOMAIN line' : line'[m].n = turn'.n
  <2>1. CASE turn' = turn /\ line' = line
    BY <1>0, <1>1, <2>1 DEF AccompaniedInv, Accompanied
  <2>2. CASE Take
    <3>1. PICK w, k : /\ k = queued - Len(waiting) + 1
                      /\ turn' = [write |-> w, before |-> rows[w.item], n |-> k]
                      /\ line' = Append(line, Request(w, k))
      BY <2>2 DEF Take
    <3>2. PICK r : r = Request(w, k)
      OBVIOUS
    <3>3. r.n = k /\ turn'.n = k
      BY <3>1, <3>2 DEF Request
    <3>4. Len(line) + 1 \in DOMAIN line' /\ line'[Len(line) + 1] = r
      BY <1>0, <3>1, <3>2, Appended
    <3> QED BY <3>3, <3>4
  <2>3. CASE TooLate
    <3>1. PICK t : t = Tail(line)
      OBVIOUS
    <3>2. turn' = turn /\ line' = t /\ line # <<>> /\ Head(line).n # turn.n
      BY <1>1, <2>3, <3>1 DEF TooLate, Awaited, TabInv, ReplyInv
    <3>3. PICK m \in DOMAIN line : line[m].n = turn.n
      BY <1>0, <1>1, <3>2 DEF AccompaniedInv, Accompanied
    <3>4. /\ Len(line) \in Nat \ {0} /\ DOMAIN line = 1 .. Len(line) /\ DOMAIN t = 1 .. Len(line) - 1
          /\ Head(line) = line[1] /\ \A n \in DOMAIN t : t[n] = line[n + 1]
      BY <1>0, <3>1, <3>2, Shifted
    <3>5. m - 1 \in DOMAIN t /\ (m - 1) + 1 = m
      BY <3>2, <3>3, <3>4
    <3>6. t[m - 1].n = turn.n
      BY <3>3, <3>4, <3>5
    <3> QED BY <3>2, <3>5, <3>6
  <2>4. SettleWrite \/ GiveUp => turn' = None
    BY DEF SettleWrite, GiveUp
  <2>5. \A i, c : Make(i, c) => turn' = turn
    BY DEF Make, Queue
  <2>6. \A w : TryAgain(w) => turn' = turn
    BY DEF TryAgain, Queue
  <2>7. Revalidated => turn' = turn /\ line' = line
    BY DEF Revalidated
  <2> QED BY <1>1, <2>1, <2>2, <2>3, <2>4, <2>5, <2>6, <2>7 DEF WriteStep
<1> QED BY <1>0, <1>1 DEF AccompaniedInv, Accompanied

LEMMA AccompaniedStays ==
  ASSUME AccompaniedInv, UNCHANGED <<line, surface, decisionVars, pipelineVars>>
  PROVE  AccompaniedInv'
<1>1. /\ gesture' = gesture /\ undoing' = undoing /\ offers' = offers /\ made' = made
      /\ turn' = turn /\ line' = line /\ surface' = surface
  BY DEF decisionVars, pipelineVars
<1>2. Numbered' <=> Numbered
  BY <1>1 DEF Numbered, Undos
<1>3. Accompanied' <=> Accompanied
  BY <1>1 DEF Accompanied
<1> QED BY <1>1, <1>2, <1>3 DEF AccompaniedInv, OneCallEach

\* No page waits for an answer that nothing in the line will bring, and no answer
\* to a gesture or an undo comes to a page that does not wait for it (busyRef of
\* useDecisions, the groups of its undo, the tail of the pipeline's writes).
THEOREM NobodyWaitsInVain == Spec => []Accompanied
<1>1. Init => AccompaniedInv
  <2> SUFFICES ASSUME Init PROVE AccompaniedInv
    OBVIOUS
  <2>1. /\ line = <<>> /\ gesture = None /\ undoing = <<>> /\ offers = {} /\ made = 0 /\ turn = None
    BY DEF Init, ServerInit, DecisionsInit, PipelineInit
  <2>2. DOMAIN line = {} /\ DOMAIN undoing = {}
    BY <2>1, EmptyListing
  <2> QED BY <2>1, <2>2 DEF AccompaniedInv, Accompanied, Numbered, Undos, OneCallEach
<1>2. TabInv /\ TabInv' /\ AccompaniedInv /\ [Next]_vars => AccompaniedInv'
  <2> SUFFICES ASSUME TabInv, TabInv', AccompaniedInv, [Next]_vars PROVE AccompaniedInv'
    OBVIOUS
  <2>1. CASE DecisionStep
    <3>1. surface # "pipeline" /\ surface' = surface /\ (Person \/ Browser)
      BY <2>1 DEF DecisionStep, Behind
    <3> QED BY <3>1, PersonAccompanied, BrowserAccompanied
  <2>2. CASE ServerStep
    <3>1. line' = line
      BY <2>2 DEF ServerStep, Network, Handle, Render, Refuse, CutOff, LoseReply, StrayRuns, Elsewhere
    <3> QED BY <2>2, <3>1, AccompaniedStays DEF ServerStep
  <2>3. CASE UNCHANGED vars
    BY <2>3, AccompaniedStays DEF vars, serverVars
  <2> QED BY <2>1, <2>2, <2>3, WriteAccompanied DEF Next
<1>3. AccompaniedInv => Accompanied
  BY DEF AccompaniedInv
<1> QED BY <1>1, <1>2, <1>3, TabInductive, PTL DEF Spec
==============================================================================
