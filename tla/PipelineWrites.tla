--------------------------- MODULE PipelineWrites ----------------------------
(* The writes of the pipeline page: optimistic, one at a time in the order they *)
(* were made, each with the version the row has when its turn comes and with a *)
(* bound on the wait; a retry carries the key of the gesture it repeats.       *)
EXTENDS TabServer

CONSTANTS
    Changes,     \* what a person may change: [kind, to]
    MaxWrites,   \* bound on the gestures of a session
    MaxRetries   \* bound on how many of them are repeated

VARIABLES
    rows,        \* the rows on the screen (rows and rowsRef)
    waiting,     \* writes whose turn has not come, oldest first (tail)
    turn,        \* the write in flight, or None
    initial,     \* a page the framework has rendered and not yet shown, or None
    retries,     \* toasts that offer Retry
    queued,      \* how many writes were queued
    repeated     \* how many of them from a toast

pipelineVars == <<rows, waiting, turn, initial, retries, queued, repeated>>

\* What a gesture shows before the server answers, taken from the row it is made on.
OptimisticPatch(c, row) ==
    CASE c.kind = "status" -> [status |-> c.to, actor |-> "user", suggested |-> None]
      [] c.kind = "confirm" ->
            [status |-> IF row.suggested = None THEN row.status ELSE row.suggested,
             actor |-> "user", suggested |-> None]
      [] c.kind = "reject" -> [suggested |-> None]
      [] c.kind = "note" -> [notes |-> row.notes + 1]
      [] c.kind = "next" -> [next |-> c.to]

Put(i, row) == rows' = [rows EXCEPT ![i] = row]

-----------------------------------------------------------------------------
Queue(w) ==
    /\ queued' = queued + 1
    /\ waiting' = Append(waiting, w)
    /\ UNCHANGED <<rows, turn, initial>>

\* A gesture: its key is minted now, its version is read later.
Make(i, c) ==
    /\ queued - repeated < MaxWrites
    /\ Queue([id |-> queued + 1, item |-> i, change |-> c, key |-> minted + 1,
               patch |-> OptimisticPatch(c, rows[i])])
    /\ minted' = minted + 1
    /\ UNCHANGED <<retries, repeated>>

\* Mutant of TryAgain: a fresh key.
TryAgainAnew(w) ==
    /\ repeated < MaxRetries
    /\ repeated' = repeated + 1
    /\ Queue([w EXCEPT !.key = minted + 1])
    /\ retries' = retries \ {w}
    /\ minted' = minted + 1

\* The same gesture with the same key; its patch is computed from the same old row.
TryAgain(w) ==
    /\ repeated < MaxRetries
    /\ repeated' = repeated + 1
    /\ Queue(w)
    /\ retries' = retries \ {w}
    /\ UNCHANGED minted

\* read: the row the version was taken from, which need not be the one w was made on.
Request(w, n) ==
    [from |-> "write", n |-> n, key |-> w.key, change |-> w.change,
     expected |-> [i \in {w.item} |-> IF w.change.kind = "note" THEN None ELSE rows[i].at],
     read |-> [i \in {w.item} |-> rows[i]], gesture |-> w.id, revalidates |-> TRUE]

(* The turn of the oldest write. *)
Take ==
    /\ turn = None /\ waiting # <<>>
    /\ LET w == Head(waiting) IN
       /\ turn' = [write |-> w, before |-> rows[w.item], n |-> queued - Len(waiting) + 1]
       /\ Put(w.item, Over(w.patch, rows[w.item]))
       /\ line' = Append(line, Request(w, queued - Len(waiting) + 1))
    /\ waiting' = Tail(waiting)
    /\ UNCHANGED <<initial, retries, queued, repeated, minted>>

Awaited == turn # None /\ reply # None /\ line # <<>> /\ Head(line).n = turn.n

\* The page that came with an answer waits for the framework to show it.
Arrives == initial' = IF reply.page # None THEN reply.page ELSE initial

\* Mutant of SettleOn: the optimistic row is kept.
SettleOnOurs(i, row) == rows' = rows

\* Settle on the row the server returned.
SettleOn(i, row) == Put(i, row)

(* The answer comes in time: settle on the row the server returned, or revert. *)
SettleWrite ==
    /\ Awaited
    /\ LET i == turn.write.item IN
       \/ /\ reply.kind \in {"ok", "conflict"}
          /\ SettleOn(i, reply.rows[i])
          /\ UNCHANGED retries
       \/ /\ reply.kind \in {"thrown", "error"}
          /\ Put(i, turn.before)
          /\ retries' = retries \union {turn.write}
       \/ /\ reply.kind = "auth"
          /\ Put(i, turn.before)
          /\ UNCHANGED retries
    /\ Arrives
    /\ turn' = None
    /\ reply' = None
    /\ line' = Tail(line)
    /\ UNCHANGED <<waiting, queued, repeated, minted, strange>>

\* Mutant of GiveUp: no bound on the wait.
NeverGiveUp == FALSE

(* The wait is over first: revert and offer Retry. The request goes on.         *)
GiveUp ==
    /\ turn # None
    /\ Put(turn.write.item, turn.before)
    /\ retries' = retries \union {turn.write}
    /\ turn' = None
    /\ UNCHANGED <<waiting, initial, queued, repeated, minted, line, reply, strange>>

(* An answer nobody waits for: only the page it may have brought is used.       *)
TooLate ==
    /\ reply # None /\ ~Awaited
    /\ Arrives
    /\ strange' = Untold(reply.rows)
    /\ reply' = None
    /\ line' = Tail(line)
    /\ UNCHANGED <<rows, waiting, turn, retries, queued, repeated, minted>>

\* The page is shown: every row as the server rendered it.
Revalidated ==
    /\ initial # None
    /\ rows' = initial
    /\ initial' = None
    /\ UNCHANGED <<waiting, turn, retries, queued, repeated, minted, line, reply, strange>>

PipelineInit(seed) ==
    /\ rows = seed
    /\ waiting = <<>>
    /\ turn = None
    /\ initial = None
    /\ retries = {}
    /\ queued = 0
    /\ repeated = 0
=============================================================================
