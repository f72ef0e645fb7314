--------------------------------- MODULE Capture ---------------------------------
(* A mail's way from the person's mailbox to the store: the Apps Script appends  *)
(* it to the sheet, posts what it appended to /api/capture, and keeps what did   *)
(* not arrive in a bounded queue and what was refused in a bounded pen.          *)
EXTENDS Integers, Sequences, FiniteSets, SequencesExt

CONSTANTS
    MaxMails,        \* bound: mails that pass the gate
    ChunkSize,       \* events per request (CAPTURE_CHUNK)
    QueueMax,        \* events the queue holds (CAPTURE_QUEUE_MAX_EVENTS)
    PenMax,          \* events the pen holds (CAPTURE_PARKED_MAX_EVENTS)
    MaxPassCuts      \* bound: passes that die or throw

ASSUME CaptureAssumption ==
    /\ {MaxMails, MaxPassCuts} \subseteq Nat
    /\ {ChunkSize, QueueMax, PenMax} \subseteq Nat \ {0}

VARIABLES
    rowsIn,          \* mails with a row in the Email Events tab: 1..rowsIn
    captured,        \* mails with a row in email_events
    queue,           \* HQ_CAPTURE_QUEUE
    pen,             \* HQ_CAPTURE_PARKED
    token,           \* "pasted": the script has the live one; "minted": it has
                     \* another; "none": none is live
    pass,            \* the run that holds the script lock
    counted,         \* mails counted as dropped
    parkedOnce,      \* mails that were ever in the pen
    cutOff,          \* mails that a pass cut short had in hand and nothing holds
    passCuts

captureVars ==
    <<rowsIn, captured, queue, pen, token, pass, counted, parkedOnce, cutOff, passCuts>>

NoPass == [at |-> "idle"]

InHand ==
    IF pass.at = "idle" THEN {}
    ELSE UNION {Range(pass.fresh), Range(pass.todo), Range(pass.failed), Range(pass.refused)}

-------------------------------------------------------------------------------

\* The script lock admits one pass.
StartPass ==
    /\ pass.at = "idle"
    /\ pass' = [at |-> "append", authentic |-> FALSE, fresh |-> <<>>, todo |-> <<>>,
                parked |-> <<>>, failed |-> <<>>, refused |-> <<>>, down |-> FALSE]
    /\ UNCHANGED <<rowsIn, captured, queue, pen, token, counted, parkedOnce, cutOff, passCuts>>

\* A mail the sheet has a row of is skipped, here and in every later pass.
AppendRow ==
    /\ pass.at = "append" /\ rowsIn < MaxMails
    /\ rowsIn' = rowsIn + 1
    /\ pass' = [pass EXCEPT !.fresh = Append(@, rowsIn + 1)]
    /\ UNCHANGED <<captured, queue, pen, token, counted, parkedOnce, cutOff, passCuts>>

\* What the queue holds goes first, then what this pass appended.
Deliver ==
    /\ pass.at = "append"
    /\ LET pending == queue \o pass.fresh IN
       pass' = IF pending = <<>> /\ pen = <<>> THEN NoPass
               ELSE [pass EXCEPT !.at = "post", !.authentic = token = "pasted",
                                 !.todo = pending, !.parked = pen]
    /\ UNCHANGED <<rowsIn, captured, queue, pen, token, counted, parkedOnce, cutOff, passCuts>>

-------------------------------------------------------------------------------

ChunkOf(events) == SubSeq(events, 1, Min({ChunkSize, Len(events)}))
After(events) == SubSeq(events, Len(ChunkOf(events)) + 1, Len(events))

\* What a request may come to: whether it is to be tried again, what it stored and
\* which of its rows were refused. An endpoint that is down, a token that is not
\* the live one and a lost answer are tried again, and a lost answer may have
\* stored. An accepted request refuses the rows it cannot store, a malformed one is
\* refused whole, and one whose answer cannot be read is taken for refused.
Replies(sent) ==
    {[retry |-> TRUE, stored |-> {}, refused |-> {}],
     [retry |-> FALSE, stored |-> {}, refused |-> sent]} \cup
    IF ~pass.authentic THEN {}
    ELSE {[retry |-> TRUE, stored |-> sent, refused |-> {}],
          [retry |-> FALSE, stored |-> sent, refused |-> sent]} \cup
         {[retry |-> FALSE, stored |-> sent \ odd, refused |-> odd] : odd \in SUBSET sent}

\* rejectedFrom_: the refused rows in the order in which the answer names them.
Listings(rows) == {s \in [1..Cardinality(rows) -> rows] : Range(s) = rows}

\* Mutant of Unsent: only the request that failed is kept.
FailedOnly(events) == ChunkOf(events)

\* The first request that fails ends the sending: it is kept, and all behind it.
Unsent(events) == events

PostPending ==
    /\ pass.at = "post" /\ pass.todo # <<>>
    /\ \E reply \in Replies(Range(ChunkOf(pass.todo))) : \E refused \in Listings(reply.refused) :
          /\ captured' = captured \cup reply.stored
          /\ pass' = [pass EXCEPT
                !.todo = IF reply.retry THEN <<>> ELSE After(@),
                !.failed = IF reply.retry THEN Unsent(pass.todo) ELSE <<>>,
                !.refused = @ \o refused,
                !.down = reply.retry]
    /\ UNCHANGED <<rowsIn, queue, pen, token, counted, parkedOnce, cutOff, passCuts>>

\* The pen is posted last, and not at all when the endpoint was down.
PostParked ==
    /\ pass.at = "post" /\ pass.todo = <<>> /\ ~pass.down /\ pass.parked # <<>>
    /\ LET chunk == ChunkOf(pass.parked) IN
       \E reply \in Replies(Range(chunk)) : \E refused \in Listings(reply.refused) :
          /\ captured' = captured \cup reply.stored
          /\ pass' = [pass EXCEPT
                !.parked = After(@),
                !.refused = @ \o (IF reply.retry THEN chunk ELSE refused)]
    /\ UNCHANGED <<rowsIn, queue, pen, token, counted, parkedOnce, cutOff, passCuts>>

\* What boundedSave_ may leave of a list: its end, for the bound on events or the
\* one on characters, whichever is the tighter; or nothing, when it cannot be
\* stored. What it does not leave is counted.
Saved(events, max) ==
    {SubSeq(events, Len(events) - Min({max, Len(events)}) + 1, Len(events)), <<>>}

SaveQueue ==
    /\ pass.at = "post" /\ pass.todo = <<>>
    /\ pass.down \/ pass.parked = <<>>
    /\ queue' \in Saved(pass.failed, QueueMax)
    /\ counted' = counted \cup (Range(pass.failed) \ Range(queue'))
    /\ pass' = [pass EXCEPT !.at = "save"]
    /\ UNCHANGED <<rowsIn, captured, pen, token, parkedOnce, cutOff, passCuts>>

SavePen ==
    /\ pass.at = "save"
    /\ pen' \in Saved(pass.refused, PenMax)
    /\ counted' = counted \cup (Range(pass.refused) \ Range(pen'))
    /\ parkedOnce' = parkedOnce \cup Range(pen')
    /\ pass' = NoPass
    /\ UNCHANGED <<rowsIn, captured, queue, token, cutOff, passCuts>>

\* A pass runs out of its time, or a call to the mailbox, the sheet or the
\* properties throws. The rows it appended keep the next pass from taking them up.
CutShort ==
    /\ pass.at # "idle" /\ passCuts < MaxPassCuts
    /\ passCuts' = passCuts + 1
    /\ cutOff' = cutOff \cup (InHand \ (Range(queue) \cup Range(pen)))
    /\ pass' = NoPass
    /\ UNCHANGED <<rowsIn, captured, queue, pen, token, counted, parkedOnce>>

-------------------------------------------------------------------------------

\* Tokens are told apart by whether they are the live one; what a pass that is
\* sending has read of the properties is not, once another is minted.
TokenBecomes(state) ==
    /\ token' = state
    /\ pass' = IF pass.at = "idle" THEN NoPass ELSE [pass EXCEPT !.authentic = FALSE]
    /\ UNCHANGED <<rowsIn, captured, queue, pen, counted, parkedOnce, cutOff, passCuts>>

\* hq_rotate_capture_token: the label's tokens are revoked and one is minted.
RotateToken == TokenBecomes("minted")

\* hq_revoke_capture_tokens, alone or as a part of a suspension.
RevokeTokens == token # "none" /\ TokenBecomes("none")

\* The operator pastes the token they were shown into the script's properties.
PasteToken ==
    /\ token = "minted"
    /\ token' = "pasted"
    /\ UNCHANGED <<rowsIn, captured, queue, pen, pass, counted, parkedOnce, cutOff, passCuts>>

-------------------------------------------------------------------------------

\* A lane that has its endpoint and its token.
CaptureInit ==
    /\ rowsIn = 0
    /\ captured = {}
    /\ queue = <<>> /\ pen = <<>>
    /\ token = "pasted"
    /\ pass = NoPass
    /\ counted = {} /\ parkedOnce = {} /\ cutOff = {}
    /\ passCuts = 0

CaptureNext ==
    \/ StartPass \/ AppendRow \/ Deliver
    \/ PostPending \/ PostParked \/ SaveQueue \/ SavePen \/ CutShort
    \/ RotateToken \/ RevokeTokens \/ PasteToken

CaptureSpec == CaptureInit /\ [][CaptureNext]_captureVars

-------------------------------------------------------------------------------

\* Where a mail with a row in the sheet may be, if it is nowhere else.
Held(m) ==
    m \in UNION {captured, Range(queue), Range(pen), InHand, counted, cutOff}

\* Every event is accounted for (Code.gs deliverToStore_: "Send this run's events
\* and account for every one of them") that was not refused: stored, queued, with
\* the pass that sends it, or counted as dropped, whatever fails and in which
\* request, whether a token is rotated meanwhile and however full the queue is.
Accounted == \A m \in 1..rowsIn : Held(m) \/ m \in parkedOnce

\* The same of every event. A refused one is to stay in the pen until it is taken
\* or its eviction is counted (RUNBOOK: "A row that will never be valid stays
\* parked until it is evicted").
RefusedStaysHeld == \A m \in 1..rowsIn : Held(m)
===============================================================================
