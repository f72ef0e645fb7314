-------------------------------- MODULE Tab ----------------------------------
(* One browser tab on one of its three editing pages, the server behind it and  *)
(* everybody else who writes there. /jobs and /queue share Decisions, the      *)
(* pipeline page has a queue of writes.                                        *)
EXTENDS Decisions, PipelineWrites

CONSTANTS
    Apps,          \* the rows of the pipeline page
    Postings,      \* initial rows of postings, a set of [Items -> row]
    Applications,  \* initial rows of applications, likewise
    Foreign,       \* what others may change: [page -> set of changes]
    Texts          \* what a column of a row may say

PostingRow == [triage : Texts, at : Nat]
ApplicationRow == [status : Texts, actor : Texts, suggested : Texts, next : Texts,
                   notes : Nat, at : Nat]

Triages == [kind : {"triage"}, to : Texts]
Edits == [kind : {"confirm", "reject", "note"}] \union [kind : {"status", "next"}, to : Texts]

ASSUME PagesAssumption ==
    /\ {None, "user"} \union Choices \subseteq Texts /\ Apps \subseteq Items
    /\ \A seed \in Postings : seed \in [Items -> PostingRow] /\ \A i \in Items : seed[i].at = 0
    /\ \A seed \in Applications :
          seed \in [Items -> ApplicationRow] /\ \A i \in Items : seed[i].at = 0
    /\ Changes \subseteq Edits
    /\ DOMAIN Foreign \subseteq {"jobs", "queue", "pipeline"}
    /\ \A page \in DOMAIN Foreign :
          Foreign[page] \subseteq IF page = "pipeline" THEN Edits ELSE Triages

(* What a page may have in hand: rows, gestures, and the writes of its queue.  *)
Rowsets(S) == UNION {[I -> S] : I \in SUBSET Items}
Gestures == [targets : Rowsets(PostingRow), choice : Choices,
             snapshot : Rowsets(PostingRow \union {None})]
Guesses == [status : Texts, actor : Texts, suggested : Texts]
           \union [suggested : Texts] \union [notes : Nat] \union [next : Texts]
Writes == [id : Nat, item : Items, change : Changes, key : Nat, patch : Guesses]
Turns == [write : Writes, before : ApplicationRow, n : Nat]
Replies == [kind : {"ok"}, rows : Rowsets(ApplicationRow), page : [Items -> ApplicationRow]]

ASSUME NullAssumption == None \notin Nat \union Gestures \union Turns \union Replies

vars == <<serverVars, surface, decisionVars, pipelineVars>>

\* What no step of the browser touches.
Behind == <<dbVars, strays, failures, others, surface>>

DecisionStep ==
    /\ surface \in {"jobs", "queue"}
    /\ \/ Person /\ UNCHANGED reply
       \/ Browser
    /\ UNCHANGED <<Behind, strange, pipelineVars>>

WriteStep ==
    /\ surface = "pipeline"
    /\ \/ /\ \/ \E i \in Apps, c \in Changes : Make(i, c)
             \/ \E w \in retries : TryAgain(w)
          /\ UNCHANGED <<line, reply, strange>>
       \/ Take /\ UNCHANGED <<reply, strange>>
       \/ SettleWrite
       \/ GiveUp
       \/ TooLate
       \/ Revalidated
    /\ UNCHANGED <<Behind, decisionVars>>

ServerStep ==
    /\ \/ Network
       \/ \E c \in Foreign[surface] : Elsewhere(c)
    /\ UNCHANGED <<surface, minted, decisionVars, pipelineVars>>

Next == DecisionStep \/ WriteStep \/ ServerStep

\* /queue is handed the undecided rows only.
Init ==
    /\ surface \in DOMAIN Foreign
    /\ \E seed \in IF surface = "pipeline" THEN Applications ELSE Postings :
          /\ surface = "queue" => \A i \in Items : seed[i].triage = Undecided
          /\ ServerInit(seed)
          /\ DecisionsInit(seed)
          /\ PipelineInit(seed)

Spec == Init /\ [][Next]_vars

(* The event loop runs what has arrived, the timer of a write runs out. The     *)
(* pipeline page needs no more than that. The other two pages wait for as long *)
(* as the network does not answer: there the network owes an answer.           *)
EventLoop ==
    \/ DecisionStep /\ reply # None /\ reply' = None
    \/ WriteStep /\ \/ turn = None /\ turn' # None
                    \/ turn # None /\ turn' = None
                    \/ reply # None /\ reply' = None
                    \/ initial # None /\ initial' = None
Answers == ServerStep /\ surface # "pipeline" /\ reply = None /\ reply' # None

Fairness == WF_vars(EventLoop) /\ WF_vars(Answers)
FairSpec == Spec /\ Fairness
-----------------------------------------------------------------------------
Triaged(row) == row.triage
IgnoringNotes(row) == IF surface = "pipeline" THEN [row EXCEPT !.notes = 0] ELSE row

(* Nothing guessed remains: with no gesture in flight, every row of the overlay  *)
(* and of the pipeline page is a row the store has held, version and all. A     *)
(* refused or lost write leaves no optimistic value behind (DEC-011).           *)
NothingGuessed ==
    /\ surface # "pipeline" /\ gesture = None =>
          \A i \in Items : patches[i] # None => patches[i] \in held[i]
    /\ surface = "pipeline" /\ turn = None =>
          \A i \in Items : rows[i] \in held[i]

(* A version stands for its row: what a command that compares versions          *)
(* overwrites is, notes aside, the row its page had when the request was formed, *)
(* with no guess of the page in it and nothing written elsewhere in between. On   *)
(* /jobs and /queue that is the row the gesture was made on; on the pipeline page *)
(* it is the row when the write's turn comes, which may be a later one: after the *)
(* conflict of a write before it, the row that caused the conflict (README).     *)
VersionStandsForRow ==
    \A n \in DOMAIN effects :
        LET e == effects[n] IN
        e.by.change.kind # "note" =>
            \A i \in DOMAIN e.before : IgnoringNotes(e.before[i]) = IgnoringNotes(e.by.read[i])

(* An undo that reached the store gives each of its rows the choice it had      *)
(* before the gesture, and overwrites nothing but that gesture's own result,    *)
(* whatever the rows were before and however many calls it takes.               *)
UndoRestores ==
    \A n \in DOMAIN effects :
        effects[n].by.from = "undo" =>
            \E m \in 1..(n - 1) :
                /\ effects[m].by.from = "decide" /\ effects[m].by.n = effects[n].by.n
                /\ \A i \in DOMAIN effects[n].before :
                      /\ effects[n].before[i] = effects[m].after[i]
                      /\ effects[n].after[i].triage = effects[m].before[i].triage

(* A gesture of the pipeline page is applied at most once, however often it is  *)
(* retried and however late an abandoned request of it arrives.                *)
GestureOnce ==
    \A m, n \in DOMAIN effects :
        /\ effects[m].by.from = "write" /\ effects[n].by.from = "write"
        /\ effects[m].by.gesture = effects[n].by.gesture
        => m = n

(* Two writes made in a row on the pipeline page never conflict with each other: *)
(* a conflict means somebody else, or a request the page has given up on, wrote. *)
NoSelfConflict ==
    surface = "pipeline" /\ reply # None /\ reply.kind = "conflict" => strange # {}

(* What a page waits for is under way: it is busy exactly as long as a request   *)
(* of its gesture is in the line, an undo is in flight exactly as long as one of *)
(* its calls is, and the request of a write stays in the line for its turn.      *)
Accompanied ==
    /\ surface # "pipeline" =>
          /\ gesture # None <=> \E m \in DOMAIN line : line[m].from = "decide"
          /\ DOMAIN undoing = {line[m].n : m \in {l \in DOMAIN line : line[l].from = "undo"}}
    /\ surface = "pipeline" /\ turn # None => \E m \in DOMAIN line : line[m].n = turn.n

(* Every gesture is eventually answered for: its request is never dropped, the   *)
(* busy flag of /jobs and /queue drops and the pipeline's queue drains.          *)
Settled == gesture = None /\ turn = None /\ waiting = <<>>
EveryGestureSettles == []Accompanied /\ (~Settled ~> Settled)

(* "Showing the latest": after a conflict /jobs comes to show the row that      *)
(* caused it, or a later one.                                                   *)
ShowsTheLatest == \A i \in Items : Shown(i).at >= warned[i]
ConflictIsShown == surface = "jobs" => []<>ShowsTheLatest
=============================================================================
