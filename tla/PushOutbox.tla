------------------------------ MODULE PushOutbox ------------------------------
(* One user's discovery push, from the boards to the phone: the hourly sweep    *)
(* (monitor.run), the Feed and Outbox tabs of the user's spreadsheet, and the   *)
(* flush at the end of the tracker chain (tracker.outbox). The two bots are     *)
(* separate jobs and overlap; each may die between two of its steps.            *)
EXTENDS Integers, Sequences, FiniteSets, SequencesExt

CONSTANTS
    Roles,          \* postings the title filter lets through
    Boards,
    BoardOf,        \* the company board a role is on
    MaxAttempts,    \* tracker.outbox MAX_ATTEMPTS
    MaxSweeps,      \* bound: sweeps ever started
    MaxMoves,       \* bound: changes of the boards and of the user's settings
    MaxPushFaults   \* bound: deaths and sheet calls that fail

VARIABLES
    board,       \* roles listed now
    feed,        \* Feed status of the roles that have a row
    seeded,      \* boards observed before
    stamped,     \* roles whose pushed_at is set
    outbox,      \* the Outbox tab
    email,       \* the user moved the event to email
    quiet,       \* the clock is inside the user's quiet hours
    sweep, flush,
    heard,       \* roles a push ntfy took has named
    unread,      \* roles of a push ntfy answered with an error status
    sweeps, moves, pushFaults

policy == <<email, quiet>>
pushVars == <<board, feed, seeded, stamped, outbox, policy, sweep, flush, heard,
              unread, sweeps, moves, pushFaults>>

FeedStatuses == {"New", "Seen", "Closed"}
Outcomes == {"open", "sent", "dropped", "abandoned"}

\* wake: deliver_after is in the future. tonight: the row's key ends in the wake
\* time a push held now would get, so the same news would have the same key.
OutboxRow == [news : SUBSET Roles, wake : BOOLEAN, tonight : BOOLEAN,
              attempts : Nat, outcome : Outcomes]

IdleSweep == [at |-> "idle", todo |-> {}, history |-> <<>>, email |-> FALSE,
              new |-> {}, news |-> {}]
IdleFlush == [at |-> "idle", todo |-> {}, quiet |-> FALSE, email |-> FALSE,
              row |-> 0, sent |-> FALSE]

PushFault == pushFaults < MaxPushFaults /\ pushFaults' = pushFaults + 1
Move == moves < MaxMoves /\ moves' = moves + 1

\* _send posts once and reads no status: ntfy's refusal counts as sent, and a
\* call that died may have reached the phone.
Wire(news, sent) ==
    \/ sent /\ heard' = heard \cup news /\ UNCHANGED unread
    \/ sent /\ unread' = unread \cup news /\ UNCHANGED heard
    \/ ~sent /\ heard' \in {heard, heard \cup news} /\ UNCHANGED unread

-------------------------------------------------------------------------------
(* The world: boards, clock, the user's settings.                              *)

BoardMoves(r) ==
    /\ Move
    /\ board' = IF r \in board THEN board \ {r} ELSE board \cup {r}
    /\ UNCHANGED <<feed, seeded, stamped, outbox, policy, sweep, flush, heard, unread,
                   sweeps, pushFaults>>

UserMovesChannel ==
    /\ Move
    /\ email' = ~email
    /\ UNCHANGED <<board, feed, seeded, stamped, outbox, quiet, sweep, flush, heard,
                   unread, sweeps, pushFaults>>

\* The wake time comes. The user may have widened the window meanwhile.
Wake ==
    /\ quiet \/ \E i \in DOMAIN outbox : outbox[i].wake
    /\ quiet' \in BOOLEAN
    /\ outbox' = [i \in DOMAIN outbox |-> [outbox[i] EXCEPT !.wake = FALSE, !.tonight = FALSE]]
    /\ UNCHANGED <<board, feed, seeded, stamped, email, sweep, flush, heard, unread,
                   sweeps, moves, pushFaults>>

Nightfall ==
    /\ ~quiet
    /\ quiet' = TRUE
    /\ UNCHANGED <<board, feed, seeded, stamped, outbox, email, sweep, flush, heard,
                   unread, sweeps, moves, pushFaults>>

-------------------------------------------------------------------------------
(* The sweep. It reads the settings and the history once, reconciles and flushes *)
(* board by board, and pushes at the end.                                       *)

SweepAt(step) == sweep.at = step

StartSweep ==
    /\ SweepAt("idle")
    /\ sweeps < MaxSweeps
    /\ sweeps' = sweeps + 1
    /\ sweep' = [IdleSweep EXCEPT !.at = "boards", !.todo = Boards, !.history = feed,
                                  !.email = email]
    /\ UNCHANGED <<board, feed, seeded, stamped, outbox, policy, flush, heard, unread,
                   moves, pushFaults>>

\* reconcile_company. An unseen board is seeded silently; whether fourteen days
\* have passed since a missing role was seen is left open.
Reconciled(b, listed, closed) ==
    LET history == sweep.history
        fresh == listed \ DOMAIN history
        back == {r \in listed \cap DOMAIN history : history[r] = "Closed"}
        news == IF b \in seeded THEN fresh \cup back ELSE {}
    IN [new |-> news,
        feed |-> [r \in DOMAIN feed \cup fresh |->
            CASE b \notin seeded -> IF r \in fresh THEN "Seen" ELSE feed[r]
              [] r \in news -> "New"
              [] b \in seeded /\ r \in closed -> "Closed"
              [] OTHER -> feed[r]]]

SweepBoard(b) ==
    /\ SweepAt("boards")
    /\ b \in sweep.todo
    /\ LET listed == {r \in board : BoardOf[r] = b}
           missing == {r \in DOMAIN sweep.history \ listed :
                           BoardOf[r] = b /\ sweep.history[r] # "Closed"} IN
       \E closed \in SUBSET missing :
          LET result == Reconciled(b, listed, closed) IN
          /\ feed' = result.feed
          /\ sweep' = [sweep EXCEPT !.todo = @ \ {b}, !.new = @ \cup result.new]
    /\ seeded' = seeded \cup {b}
    /\ UNCHANGED <<board, stamped, outbox, policy, flush, heard, unread, sweeps, moves,
                   pushFaults>>

\* A board that cannot be fetched, or not before the deadline, waits for the
\* next sweep.
SkipBoard(b) ==
    /\ SweepAt("boards")
    /\ b \in sweep.todo
    /\ PushFault
    /\ sweep' = [sweep EXCEPT !.todo = @ \ {b}]
    /\ UNCHANGED <<board, feed, seeded, stamped, outbox, policy, flush, heard, unread,
                   sweeps, moves>>

EndSweep == sweep' = IdleSweep

\* One push, for the new roles whose tags clear the gates: which ones do depends
\* on what the tagger read. push asks the policy first: the channel from the
\* settings the sweep started with, the quiet hours from the clock.
Push ==
    /\ SweepAt("boards")
    /\ sweep.todo = {}
    /\ \E news \in SUBSET sweep.new :
         IF news = {} \/ sweep.email
         THEN EndSweep
         ELSE sweep' = [sweep EXCEPT !.at = IF quiet THEN "hold" ELSE "send", !.news = news]
    /\ UNCHANGED <<board, feed, seeded, stamped, outbox, policy, flush, heard, unread,
                   sweeps, moves, pushFaults>>

Told == sweep' = [sweep EXCEPT !.at = "stamp"]

SendNow ==
    /\ SweepAt("send")
    /\ \E sent \in BOOLEAN :
          /\ Wire(sweep.news, sent)
          /\ IF sent THEN Told ELSE EndSweep
    /\ UNCHANGED <<board, feed, seeded, stamped, outbox, policy, flush, sweeps, moves,
                   pushFaults>>

\* The same news with the same wake time is one row while that row is open.
Enqueued(news) ==
    IF \E i \in DOMAIN outbox :
          outbox[i].outcome = "open" /\ outbox[i].tonight /\ outbox[i].news = news
    THEN outbox
    ELSE Append(outbox, [news |-> news, wake |-> TRUE, tonight |-> TRUE,
                       attempts |-> 0, outcome |-> "open"])

Hold ==
    /\ SweepAt("hold")
    /\ outbox' = Enqueued(sweep.news)
    /\ Told
    /\ UNCHANGED <<board, feed, seeded, stamped, policy, flush, heard, unread, sweeps,
                   moves, pushFaults>>

\* Mutant of HoldFails: enqueue swallows the storage failure.
HoldFailsQuietly ==
    /\ SweepAt("hold")
    /\ PushFault
    /\ Told
    /\ UNCHANGED <<board, feed, seeded, stamped, outbox, policy, flush, heard, unread,
                   sweeps, moves>>

\* enqueue raises, _hold pages ops and answers False.
HoldFails ==
    /\ SweepAt("hold")
    /\ PushFault
    /\ EndSweep
    /\ UNCHANGED <<board, feed, seeded, stamped, outbox, policy, flush, heard, unread,
                   sweeps, moves>>

\* mark_pushed, one cell after the other.
Stamp(r) ==
    /\ SweepAt("stamp")
    /\ r \in sweep.news
    /\ stamped' = stamped \cup {r}
    /\ IF sweep.news = {r} THEN EndSweep
                           ELSE sweep' = [sweep EXCEPT !.news = @ \ {r}]
    /\ UNCHANGED <<board, feed, seeded, outbox, policy, flush, heard, unread, sweeps,
                   moves, pushFaults>>

SweepDies ==
    /\ ~SweepAt("idle")
    /\ PushFault
    /\ EndSweep
    /\ UNCHANGED <<board, feed, seeded, stamped, outbox, policy, flush, heard, unread,
                   sweeps, moves>>

-------------------------------------------------------------------------------
(* The flush. It reads the settings, the clock and the due rows once.          *)

FlushAt(step) == flush.at = step
Current == flush.row
SetRow(i, row) == outbox' = [outbox EXCEPT ![i] = row]

\* Mutant of DueRows: a row whose night is over counts as old news.
DueTonight == {i \in DOMAIN outbox :
                  outbox[i].outcome = "open" /\ ~outbox[i].wake /\ outbox[i].tonight}

DueRows == {i \in DOMAIN outbox : outbox[i].outcome = "open" /\ ~outbox[i].wake}

StartFlush ==
    /\ FlushAt("idle")
    /\ DueRows # {}
    /\ flush' = [at |-> "next", todo |-> DueRows, quiet |-> quiet, email |-> email,
                 row |-> 0, sent |-> FALSE]
    /\ UNCHANGED <<board, feed, seeded, stamped, outbox, policy, sweep, heard, unread,
                   sweeps, moves, pushFaults>>

NextRow ==
    flush' = IF flush.todo = {} THEN IdleFlush ELSE [flush EXCEPT !.at = "next"]

\* allow() is asked again, of the settings and the instant the flush started with.
FlushRow(i) ==
    /\ FlushAt("next")
    /\ i \in flush.todo
    /\ flush' = [flush EXCEPT !.todo = @ \ {i}, !.row = i,
                    !.at = IF flush.email THEN "drop"
                           ELSE IF flush.quiet THEN "defer" ELSE "send"]
    /\ UNCHANGED <<board, feed, seeded, stamped, outbox, policy, sweep, heard, unread,
                   sweeps, moves, pushFaults>>

Drop ==
    /\ FlushAt("drop")
    /\ SetRow(Current, [outbox[Current] EXCEPT !.outcome = "dropped"])
    /\ NextRow
    /\ UNCHANGED <<board, feed, seeded, stamped, policy, sweep, heard, unread, sweeps,
                   moves, pushFaults>>

\* One more attempt: the row waits for the next flush or is given up.
Tried(row, again) ==
    LET attempts == row.attempts + 1 IN
    IF attempts >= MaxAttempts
    THEN [row EXCEPT !.attempts = attempts, !.outcome = "abandoned"]
    ELSE [row EXCEPT !.attempts = attempts, !.wake = again]

Defer ==
    /\ FlushAt("defer")
    /\ SetRow(Current, Tried(outbox[Current], TRUE))
    /\ NextRow
    /\ UNCHANGED <<board, feed, seeded, stamped, policy, sweep, heard, unread, sweeps,
                   moves, pushFaults>>

FlushSend ==
    /\ FlushAt("send")
    /\ \E sent \in BOOLEAN :
          /\ Wire(outbox[Current].news, sent)
          /\ flush' = [flush EXCEPT !.at = "mark", !.sent = sent]
    /\ UNCHANGED <<board, feed, seeded, stamped, outbox, policy, sweep, sweeps, moves,
                   pushFaults>>

Mark ==
    /\ FlushAt("mark")
    /\ SetRow(Current, IF flush.sent
                    THEN [outbox[Current] EXCEPT !.attempts = @ + 1, !.outcome = "sent"]
                    ELSE Tried(outbox[Current], FALSE))
    /\ NextRow
    /\ UNCHANGED <<board, feed, seeded, stamped, policy, sweep, heard, unread, sweeps,
                   moves, pushFaults>>

\* The write of one row's outcome fails: ops is paged, the batch goes on.
MarkFails ==
    /\ flush.at \in {"drop", "defer", "mark"}
    /\ PushFault
    /\ NextRow
    /\ UNCHANGED <<board, feed, seeded, stamped, outbox, policy, sweep, heard, unread,
                   sweeps, moves>>

FlushDies ==
    /\ ~FlushAt("idle")
    /\ PushFault
    /\ flush' = IdleFlush
    /\ UNCHANGED <<board, feed, seeded, stamped, outbox, policy, sweep, heard, unread,
                   sweeps, moves>>

-------------------------------------------------------------------------------

PushInit ==
    /\ board \in SUBSET Roles
    /\ feed = [r \in {} |-> "New"]
    /\ seeded = {}
    /\ stamped = {}
    /\ outbox = <<>>
    /\ email = FALSE
    /\ quiet \in BOOLEAN
    /\ sweep = IdleSweep
    /\ flush = IdleFlush
    /\ heard = {}
    /\ unread = {}
    /\ sweeps = 0
    /\ moves = 0
    /\ pushFaults = 0

World == (\E r \in Roles : BoardMoves(r)) \/ UserMovesChannel \/ Wake \/ Nightfall

SweepStep ==
    \/ StartSweep
    \/ \E b \in Boards : SweepBoard(b) \/ SkipBoard(b)
    \/ Push \/ SendNow \/ Hold \/ HoldFails
    \/ \E r \in Roles : Stamp(r)
    \/ SweepDies

FlushWorks ==
    \/ StartFlush
    \/ \E i \in DOMAIN outbox : FlushRow(i)
    \/ Drop \/ Defer \/ FlushSend \/ Mark

PushNext == World \/ SweepStep \/ FlushWorks \/ MarkFails \/ FlushDies

\* The tracker chain runs every two hours and the night ends. A flush that sees
\* its row through is what a row needs; the sweep may stop for good.
PushFairness == WF_pushVars(FlushWorks) /\ WF_pushVars(Wake)

PushSpec == PushInit /\ [][PushNext]_pushVars /\ PushFairness

-------------------------------------------------------------------------------

Histories == UNION {[roles -> FeedStatuses] : roles \in SUBSET Roles}
SweepRecord == [at : {"idle", "boards", "hold", "send", "stamp"}, todo : SUBSET Boards,
                history : Histories, email : BOOLEAN, new : SUBSET Roles, news : SUBSET Roles]
AboutOneRow == {"drop", "defer", "send", "mark"}
FlushRecord == [at : {"idle", "next"} \cup AboutOneRow, todo : SUBSET Nat, quiet : BOOLEAN,
                email : BOOLEAN, row : Nat, sent : BOOLEAN]

PushTypeOK ==
    /\ board \subseteq Roles /\ stamped \subseteq Roles
    /\ heard \subseteq Roles /\ unread \subseteq Roles
    /\ seeded \subseteq Boards
    /\ feed \in Histories
    /\ outbox \in Seq(OutboxRow)
    /\ email \in BOOLEAN /\ quiet \in BOOLEAN
    /\ sweep \in SweepRecord
    /\ flush \in FlushRecord
    /\ flush.todo \subseteq DOMAIN outbox
    /\ flush.at \in AboutOneRow => flush.row \in DOMAIN outbox

Named == UNION {outbox[i].news : i \in DOMAIN outbox}

\* A Feed row that says its role was pushed is telling the truth, whatever died
\* or failed on the way: the phone was told, or ntfy answered (with an error
\* nobody reads), or a row of the Outbox names the role; and a row closed as sent
\* was sent (core/outbox.py: a swallowed enqueue "loses the ROLE").
StampIsBacked ==
    /\ stamped \subseteq heard \cup unread \cup Named
    /\ \A i \in DOMAIN outbox :
          outbox[i].outcome = "sent" => outbox[i].news \subseteq heard \cup unread

\* Suppressed is not dropped: what quiet hours held is sent, given up with a page,
\* or dropped by the user's newer setting, and never waits for ever. (A sweep adds
\* one row at most, and the first one only seeds.)
QueueDrains ==
    \A i \in 1..(MaxSweeps - 1) :
        (i \in DOMAIN outbox) ~> (i \in DOMAIN outbox /\ outbox[i].outcome # "open")
===============================================================================
