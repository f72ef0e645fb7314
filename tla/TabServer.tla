------------------------------ MODULE TabServer ------------------------------
(* What one browser tab sees of the server: rows with a version, commands that  *)
(* compare it, answers kept under a key, and requests that are sent one after  *)
(* the other (the framework queues the actions of a tab), may be cut off and   *)
(* may still run after the tab was told that they failed. How a command is     *)
(* executed inside the database is the subject of Lifecycle and BulkTriage;    *)
(* here it is one step.                                                        *)
EXTENDS Naturals, Sequences, FiniteSets

CONSTANTS
    Items,         \* rows of the page: postings, or applications
    None,          \* null
    MaxElsewhere,  \* bound on the writes of others
    MaxFailures    \* bound on refused, lost and timed-out requests

VARIABLES
    store,     \* the committed rows: [Items -> row], a row has a version "at"
    clock,     \* the latest version written
    answers,   \* results recorded under a key
    line,      \* requests of the tab, oldest first; the first is at the server
    reply,     \* the answer to the first request, not yet received, or None
    strays,    \* requests the tab has given up on that may still be executed
    failures,  \* how many requests were refused or lost so far
    others,    \* how many writes others have made
    minted,    \* how many idempotency keys the tab has minted
    \* history, read by the properties only
    held,      \* every row the store ever held: [Items -> set of rows]
    strange,   \* versions the tab was not told of when they were written
    effects    \* the commands executed, in order, with the rows before and after

dbVars == <<store, clock, answers, held, effects>>
serverVars == <<dbVars, line, reply, strays, failures, others, minted, strange>>
wireVars == <<strays, failures, others, strange>>

\* f, and g where f says nothing.
Over(f, g) == [x \in DOMAIN f \union DOMAIN g |-> IF x \in DOMAIN f THEN f[x] ELSE g[x]]

\* A row with change c made to it, but for its version.
Applied(c, row) ==
    CASE c.kind = "triage" -> [row EXCEPT !.triage = c.to]
      [] c.kind = "status" ->
            IF row.status = c.to /\ row.actor = "user" THEN row
            ELSE [row EXCEPT !.status = c.to, !.actor = "user", !.suggested = None]
      [] c.kind = "confirm" ->
            IF row.suggested = None THEN row
            ELSE [row EXCEPT !.status = row.suggested, !.actor = "user", !.suggested = None]
      [] c.kind = "reject" -> [row EXCEPT !.suggested = None]
      [] c.kind = "note" -> [row EXCEPT !.notes = @ + 1]
      [] c.kind = "next" -> [row EXCEPT !.next = c.to]

\* A note does not move the version, and neither does a gesture that changes nothing.
Moves(c, row) == c.kind # "note" /\ Applied(c, row) # row

Rows(r) == DOMAIN r.expected
Now(r) == [i \in Rows(r) |-> store[i]]

Written(r) ==
    [i \in Rows(r) |->
        IF Moves(r.change, store[i])
        THEN [Applied(r.change, store[i]) EXCEPT !.at = clock + 1]
        ELSE Applied(r.change, store[i])]

\* Mutant of Conflicts: a batch conflicts only when all of it does.
ConflictsThroughout(r) == \A i \in Rows(r) : r.expected[i] \notin {None, store[i].at}

\* A note carries no version: it cannot conflict with anything.
Conflicts(r) == \E i \in Rows(r) : r.expected[i] \notin {None, store[i].at}

\* A command is answered: the recorded answer, a conflict, or the rows it wrote.
Outcome(r) ==
    IF r.key \in DOMAIN answers THEN [kind |-> "ok", rows |-> answers[r.key]]
    ELSE IF Conflicts(r) THEN [kind |-> "conflict", rows |-> Now(r)]
    ELSE [kind |-> "ok", rows |-> Written(r)]

Applies(r) == r.key \notin DOMAIN answers /\ ~Conflicts(r)
NewVersion(r) == IF \E i \in Rows(r) : Moves(r.change, store[i]) THEN clock + 1 ELSE clock

Execute(r) ==
    \/ /\ Applies(r)
       /\ store' = Over(Written(r), store)
       /\ clock' = NewVersion(r)
       /\ answers' = Over([k \in {r.key} |-> Written(r)], answers)
       /\ held' = [i \in Items |-> held[i] \union {store'[i]}]
       /\ effects' = Append(effects, [by |-> r, before |-> Now(r), after |-> Written(r)])
    \/ /\ ~Applies(r)
       /\ UNCHANGED dbVars

AtServer(r) == line # <<>> /\ r = Head(line) /\ reply = None
Thrown == [kind |-> "thrown", rows |-> <<>>, page |-> None]
FailOnce == failures < MaxFailures /\ failures' = failures + 1

-----------------------------------------------------------------------------
(* The first request is answered. A successful action may bring the page along, *)
(* rendered after the command.                                                 *)
Handle ==
    \E r \in {line[n] : n \in DOMAIN line} :
        /\ AtServer(r) /\ r.change.kind # "refresh"
        /\ Execute(r)
        /\ \E rendered \in IF Outcome(r).kind = "ok" THEN {None, store'} ELSE {None} :
              /\ r.revalidates /\ Outcome(r).kind = "ok" => rendered # None
              /\ reply' = [kind |-> Outcome(r).kind, rows |-> Outcome(r).rows, page |-> rendered]
        /\ UNCHANGED <<line, wireVars>>

\* router.refresh(): the page, rendered now.
Render ==
    \E r \in {line[n] : n \in DOMAIN line} :
        /\ AtServer(r) /\ r.change.kind = "refresh"
        /\ reply' = [kind |-> "page", rows |-> <<>>, page |-> store]
        /\ UNCHANGED <<dbVars, line, wireVars>>

\* The session has expired, or the store is down: nothing is applied.
Refuse(kind) ==
    \E r \in {line[n] : n \in DOMAIN line} :
        /\ AtServer(r) /\ r.change.kind # "refresh"
        /\ FailOnce
        /\ reply' = [kind |-> kind, rows |-> <<>>, page |-> None]
        /\ UNCHANGED <<dbVars, line, strays, others, strange>>

\* The connection is lost before the command ran; the server may run it yet.
CutOff ==
    \E r \in {line[n] : n \in DOMAIN line} :
        /\ AtServer(r) /\ r.change.kind # "refresh"
        /\ FailOnce
        /\ reply' = Thrown
        /\ strays' = strays \union {r}
        /\ UNCHANGED <<dbVars, line, others, strange>>

\* The versions of an answer that does not reach the tab.
Untold(rows) == strange \union {rows[i].at : i \in DOMAIN rows}

\* The answer is lost on its way back. (A lost conflict is a CutOff and a StrayRuns.)
LoseReply ==
    /\ reply # None /\ reply.kind = "ok"
    /\ FailOnce
    /\ reply' = Thrown
    /\ strange' = Untold(reply.rows)
    /\ UNCHANGED <<dbVars, line, strays, others>>

StrayRuns ==
    \E r \in strays :
        /\ strays' = strays \ {r}
        /\ Execute(r)
        /\ strange' = Untold(Outcome(r).rows)
        /\ UNCHANGED <<line, reply, failures, others>>

(* Another device of the same person, or a bot, writes a row. *)
Elsewhere(c) ==
    \E i \in Items :
        /\ others < MaxElsewhere
        /\ others' = others + 1
        /\ Moves(c, store[i])
        /\ clock' = clock + 1
        /\ store' = [store EXCEPT ![i] = [Applied(c, @) EXCEPT !.at = clock + 1]]
        /\ held' = [held EXCEPT ![i] = @ \union {store'[i]}]
        /\ strange' = strange \union {clock + 1}
        /\ UNCHANGED <<answers, effects, line, reply, strays, failures>>

Network ==
    \/ Handle
    \/ Render
    \/ \E kind \in {"auth", "error"} : Refuse(kind)
    \/ CutOff
    \/ LoseReply
    \/ StrayRuns

ServerInit(rows) ==
    /\ store = rows
    /\ clock = 0
    /\ answers = <<>>
    /\ line = <<>>
    /\ reply = None
    /\ strays = {}
    /\ failures = 0
    /\ others = 0
    /\ held = [i \in Items |-> {rows[i]}]
    /\ strange = {}
    /\ minted = 0
    /\ effects = <<>>
=============================================================================
