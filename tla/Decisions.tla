----------------------------- MODULE Decisions ------------------------------
(* The decisions of the pages /jobs and /queue (useDecisions): an optimistic    *)
(* overlay over the rows the server rendered, one gesture at a time, an undo    *)
(* per delivered gesture, and a revert when a gesture came back as nothing.     *)
EXTENDS TabServer

CONSTANTS
    Choices,      \* triage values with their wake dates; Undecided is one
    Undecided,
    MaxGestures   \* bound on the decisions of a session, retries included

ASSUME ChoicesAssumption == Undecided \in Choices

VARIABLES
    surface,    \* the page the tab is on: "jobs", "queue" or "pipeline"
    base,       \* the rows as the server rendered them
    patches,    \* the overlay: [Items -> row or None]
    gesture,    \* the decision in flight, or None (busy)
    undoing,    \* undos in flight: [number of the gesture -> groups not yet sent]
    offers,     \* toasts with an action: Undo or Retry
    made,       \* how many decisions were made
    warned      \* history: the newest version a conflict has told of, per row

decisionVars == <<base, patches, gesture, undoing, offers, made, warned>>

\* The fresher of the rendered row and its patch.
Shown(i) ==
    IF patches[i] = None \/ base[i].at > patches[i].at THEN base[i] ELSE patches[i]

StillOpen == {i \in Items : Shown(i).triage = Undecided}

\* /queue lists what is undecided and the rest has left it; /jobs shows every row.
Visible == IF surface = "queue" THEN StillOpen ELSE Items

Patch(rows) == [i \in Items |-> IF i \in DOMAIN rows THEN rows[i] ELSE patches[i]]

Mint == minted' = minted + 1
Key == minted + 1
Send(r) == line' = Append(line, r)

Batch(from, n, rows, choice) ==
    [from |-> from, n |-> n, key |-> Key, change |-> [kind |-> "triage", to |-> choice],
     expected |-> [i \in DOMAIN rows |-> rows[i].at], read |-> rows, revalidates |-> FALSE]

Refresh == [from |-> "refresh", n |-> 0, key |-> None, change |-> [kind |-> "refresh"],
            expected |-> <<>>, read |-> <<>>, revalidates |-> FALSE]

-----------------------------------------------------------------------------
(* decide(): the rows as the person saw them and a choice; the overlay under    *)
(* them is kept to be put back.                                                *)
Decide(targets, choice) ==
    /\ gesture = None
    /\ targets # <<>>
    /\ made < MaxGestures
    /\ made' = made + 1
    /\ gesture' = [targets |-> targets, choice |-> choice,
                   snapshot |-> [i \in DOMAIN targets |-> patches[i]]]
    /\ patches' = Patch([i \in DOMAIN targets |-> [targets[i] EXCEPT !.triage = choice]])
    /\ Mint
    /\ Send(Batch("decide", made + 1, targets, choice))
    /\ UNCHANGED <<base, undoing, warned>>

\* The rows of the selection, or the one row whose button was pressed.
DecideRows(S, choice) ==
    /\ S \subseteq Visible
    /\ Decide([i \in S |-> Shown(i)], choice)
    /\ UNCHANGED offers

\* The same gesture again, from its toast: the rows it was made on, a fresh key.
Retry(o) ==
    /\ o.kind = "retry"
    /\ Decide(o.rows, o.choice)
    /\ offers' = offers \ {o}

-----------------------------------------------------------------------------
Answered(from) == reply # None /\ line # <<>> /\ Head(line).from = from
Received ==
    /\ reply' = None
    /\ warned' = IF reply.kind # "conflict" THEN warned
                 ELSE [i \in Items |-> IF i \in DOMAIN reply.rows THEN reply.rows[i].at ELSE warned[i]]

\* A page that came with the answer, or by itself. /queue is seeded once.
Rendered == base' = IF reply.page # None /\ surface = "jobs" THEN reply.page ELSE base

NextInLine == Tail(line)

\* Mutant of PutBack: the optimistic rows stay.
LeaveGuess == patches

\* What every refused gesture does to the overlay.
PutBack == Patch(gesture.snapshot)

\* Mutant of RefreshAfter: the page is not read again.
RefreshNever == NextInLine

\* router.refresh() after a conflict.
RefreshAfter == Append(NextInLine, Refresh)

(* The answer to a decision. *)
Settle ==
    /\ Answered("decide")
    /\ gesture' = None
    /\ Rendered
    /\ Received
    /\ \/ /\ reply.kind = "ok"
          /\ patches' = Patch(reply.rows)
          /\ offers' = offers \union
                {[kind |-> "undo", n |-> made, rows |-> reply.rows, priors |-> gesture.targets]}
          /\ line' = NextInLine
       \/ /\ reply.kind # "ok"
          /\ patches' = PutBack
          /\ line' = IF reply.kind = "conflict" THEN RefreshAfter ELSE NextInLine
          /\ offers' = IF reply.kind # "error" THEN offers
                       ELSE offers \union
                            {[kind |-> "retry", n |-> made, rows |-> gesture.targets,
                              choice |-> gesture.choice]}
    /\ UNCHANGED <<undoing, made, minted>>

\* Mutant of Groups: the whole selection gets what its first row was.
GroupsAtOnce(o) ==
    {[choice |-> o.priors[CHOOSE i \in DOMAIN o.rows : TRUE].triage, rows |-> o.rows]}

\* One call writes one choice, so the rows are parted by what they were before.
Groups(o) ==
    {[choice |-> c, rows |-> [i \in {j \in DOMAIN o.rows : o.priors[j].triage = c} |-> o.rows[i]]] :
        c \in {o.priors[i].triage : i \in DOMAIN o.rows}}

SendGroup(n, groups) ==
    \E g \in groups :
        /\ undoing' = Over([m \in {n} |-> groups \ {g}], undoing)
        /\ Mint
        /\ Send(Batch("undo", n, g.rows, g.choice))

Undo(o) ==
    /\ o.kind = "undo"
    /\ offers' = offers \ {o}
    /\ SendGroup(o.n, Groups(o))
    /\ UNCHANGED <<base, patches, gesture, made, warned>>

(* The answer to one group of an undo; the next group follows whatever it was. *)
SettleUndo(n) ==
    /\ Answered("undo") /\ Head(line).n = n
    /\ patches' = IF reply.kind = "ok" THEN Patch(reply.rows) ELSE patches
    /\ Rendered
    /\ Received
    /\ LET rest == IF reply.kind = "conflict" THEN RefreshAfter ELSE NextInLine IN
       \/ /\ undoing[n] = {}
          /\ undoing' = [m \in DOMAIN undoing \ {n} |-> undoing[m]]
          /\ line' = rest
          /\ UNCHANGED minted
       \/ \E g \in undoing[n] :
             /\ undoing' = [undoing EXCEPT ![n] = @ \ {g}]
             /\ Mint
             /\ line' = Append(rest, Batch("undo", n, g.rows, g.choice))
    /\ UNCHANGED <<gesture, offers, made>>

Refreshed ==
    /\ Answered("refresh")
    /\ Rendered
    /\ Received
    /\ line' = NextInLine
    /\ UNCHANGED <<patches, gesture, undoing, offers, made, minted>>

-----------------------------------------------------------------------------
Person ==
    \/ \E S \in SUBSET Items, c \in Choices \ {Undecided} : DecideRows(S, c)
    \/ \E o \in offers : Retry(o) \/ Undo(o)

Browser ==
    \/ Settle
    \/ \E n \in DOMAIN undoing : SettleUndo(n)
    \/ Refreshed

DecisionsInit(rows) ==
    /\ base = rows
    /\ patches = [i \in Items |-> None]
    /\ gesture = None
    /\ undoing = <<>>
    /\ offers = {}
    /\ made = 0
    /\ warned = [i \in Items |-> 0]
=============================================================================
