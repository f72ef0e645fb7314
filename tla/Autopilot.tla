------------------------------- MODULE Autopilot -------------------------------
(* The staging record of prepared applications, for the application rows one    *)
(* person has for one posting (a keyed row and a manual one). Four browser      *)
(* commands and the delete of a queued application work on it; a request may    *)
(* be delivered more than once and stop between its statements where what it    *)
(* has read is under no lock. The executor that submits an approved package is  *)
(* not part of the repository: it is here as the triggers let it be.            *)
EXTENDS Integers, FiniteSets

CONSTANTS
    Applications,   \* rows of applications for one posting: siblings
    Words,          \* states a stage command may leave behind
    Packages,       \* what payload_hash tells apart
    Requests,       \* deliveries that can be under way at once
    Records,        \* what the staging record may hold at the start, by id
    MaxStages,      \* bound: stages ever created
    MaxGestures,    \* bound: gestures a person makes
    MaxEnded,       \* bound: applications rejected or gone at a time
    None

VARIABLES
    stages,     \* autopilot_stages, by id
    status,     \* of each application; "gone" when deleted
    request,    \* a delivery, or None
    recorded,   \* command_idempotency: keys with a stored answer
    executor,   \* the submission it is working on, or None
    staged,     \* stages created so far
    gestures    \* gestures made so far

autopilotVars == <<stages, status, request, recorded, executor, staged, gestures>>

-------------------------------------------------------------------------------
(* The states of a stage. *)

Editable == {"preparing", "needs_input", "ready_for_review", "changes_requested"}
Committed == {"submitting", "submitted", "outcome_unknown"}
Released == {"failed_retryable", "failed_terminal", "cancelled"}
Authorised == Committed \cup {"approved", "handed_off"}
StageStates == Editable \cup Authorised \cup Released

\* Mutant: an ambiguous outcome releases the slot.
OccupyingUnlessUnknown == Editable \cup {"approved", "handed_off", "submitting", "submitted"}

\* The states that hold the application's slot (autopilot_stages_one_live_attempt).
Occupying == Editable \cup {"approved", "handed_off"} \cup Committed

Arrows(state) ==
    CASE state = "preparing" -> {"needs_input", "ready_for_review", "cancelled"}
      [] state = "needs_input" -> {"preparing", "ready_for_review", "cancelled"}
      [] state = "ready_for_review" ->
            {"preparing", "needs_input", "changes_requested", "approved", "cancelled"}
      [] state = "changes_requested" ->
            {"preparing", "needs_input", "ready_for_review", "cancelled"}
      [] state = "approved" ->
            {"submitting", "changes_requested", "ready_for_review", "cancelled", "handed_off"}
      [] state = "submitting" ->
            {"submitted", "outcome_unknown", "failed_retryable", "failed_terminal", "cancelled"}
      [] state = "outcome_unknown" -> {"submitted", "failed_terminal"}
      [] state = "failed_retryable" ->
            {"approved", "changes_requested", "ready_for_review", "cancelled"}
      [] OTHER -> {}

\* approved: the package approved_hash was taken from. sent: the employer has it.
Stage == [application : Applications, state : StageStates, package : Packages,
          approved : Packages \cup {None}, version : Nat,
          receipt : BOOLEAN, sent : BOOLEAN]

\* What an employer may have received is in one of these states.
Reached == Committed \cup {"handed_off", "cancelled", "failed_terminal"}

OneSlot(record) ==
    \A s, t \in DOMAIN record :
        s # t /\ record[s].application = record[t].application =>
            record[s].state \notin Occupying \/ record[t].state \notin Occupying
SentReached(record) == \A s \in DOMAIN record : record[s].sent => record[s].state \in Reached

\* The binding: what is authorised is the package as it is.
ApprovalBinds(record) ==
    \A s \in DOMAIN record :
        record[s].state \in Authorised => record[s].approved = record[s].package

ASSUME AutopilotAssumption ==
    /\ MaxStages \in Nat /\ MaxGestures \in Nat /\ MaxEnded \in Nat
    /\ Words \subseteq {"preparing", "needs_input", "ready_for_review"}
    /\ \A record \in Records :
          /\ \E n \in 0..MaxStages : record \in [1..n -> Stage]
          /\ OneSlot(record) /\ SentReached(record) /\ ApprovalBinds(record)

StageIds == DOMAIN stages
Of(a) == {s \in StageIds : stages[s].application = a}
Holds(a) == \E s \in Of(a) : stages[s].state \in Occupying

\* What updated_at tells a screen: which stage, and how often it was written.
Token(s) == <<s, stages[s].version>>

\* The update of a stage's state, as the triggers and the index let it pass.
Permitted(s, to, approved) ==
    /\ to \in Arrows(stages[s].state)
    /\ to \in {"approved", "submitting", "handed_off"} => approved = stages[s].package
    /\ to \in {"submitting", "handed_off"} => approved = stages[s].approved
    /\ to = "submitted" => stages[s].receipt
    /\ to \in Released \cup {"handed_off"} => ~stages[s].receipt
    /\ to \in Occupying =>
         \A t \in Of(stages[s].application) \ {s} : stages[t].state \notin Occupying

MovedTo(s, to, approved) ==
    [stages[s] EXCEPT !.state = to, !.version = @ + 1,
        !.approved = IF to \in Editable THEN None ELSE approved]

NewStage(a, package) ==
    [application |-> a, state |-> "preparing", package |-> package, approved |-> None,
     version |-> 0, receipt |-> FALSE, sent |-> FALSE]

With(s, row) == [t \in StageIds \cup {s} |-> IF t = s THEN row ELSE stages[t]]

\* What a gesture can ask for.
Said == StageStates \cup {"submitted_with_reason", "abandoned"}

\* word: the state asked for, or the outcome reported. at: "sent" until the first
\* lookup, then the statement it comes to next.
Request ==
    {g \in [doing : {"stage", "review", "retry", "settle"}, application : Applications,
            stage : Nat, word : Said, package : Packages \cup {None},
            token : {None} \cup (Nat \X Nat), key : Nat, at : {"sent", "act", "insert"}] :
        /\ g.doing = "stage" => g.word \in Words /\ g.package \in Packages
        /\ g.doing = "review" => g.word \in {"approved", "changes_requested", "cancelled"}}

Execution == [stage : 1..staged, at : {"submit", "confirmed", "file", "close"}]

-------------------------------------------------------------------------------
(* Gestures: what a person can press with what the screens show. *)

Gestured(doing, a, s, word, package, token) ==
    [doing |-> doing, application |-> a, stage |-> s, word |-> word,
     package |-> package, token |-> token, key |-> gestures + 1, at |-> "sent"]

StageGestures ==
    UNION {{Gestured("stage", a, 0, word, p, token) :
            word \in Words, p \in Packages,
            token \in {None} \cup {Token(s) : s \in Of(a)}} :
           a \in {b \in Applications : status[b] # "gone"}}

\* Approving sends the hash of the package on the screen, the others none.
ReviewGestures ==
    UNION {{Gestured("review", stages[s].application, s, word,
                IF word = "approved" THEN stages[s].package ELSE None, token) :
            word \in {"approved", "changes_requested", "cancelled"},
            token \in {None, Token(s)}} : s \in StageIds}

RetryGestures ==
    {Gestured("retry", stages[s].application, s, "preparing", stages[s].package, None) : s \in StageIds}

\* The report, and whether a reason comes with it.
SettleGestures ==
    UNION {{Gestured("settle", stages[s].application, s, word, None, token) :
            word \in {"submitted", "submitted_with_reason", "abandoned"},
            token \in {None, Token(s)}} : s \in StageIds}

Unused == {r \in Requests : request[r] = None}

Gesture ==
    /\ Unused # {} /\ gestures < MaxGestures
    /\ \E g \in StageGestures \cup ReviewGestures \cup RetryGestures \cup SettleGestures :
          request' = [request EXCEPT ![CHOOSE r \in Unused : TRUE] = g]
    /\ gestures' = gestures + 1
    /\ UNCHANGED <<stages, status, recorded, executor, staged>>

\* Two tabs flush one outbox: the same command, under the same key.
DeliverTwice(r) ==
    /\ request[r] # None /\ Unused # {}
    /\ LET again == [request[r] EXCEPT !.at = "sent"] IN
       request' = [request EXCEPT ![CHOOSE q \in Unused : TRUE] = again]
    /\ UNCHANGED <<stages, status, recorded, executor, staged, gestures>>

-------------------------------------------------------------------------------
(* A delivery. A request that is refused or answered leaves no trace but what   *)
(* it wrote; a commit stores the answer under the key.                          *)

Doing(r, doing, at) ==
    request[r] # None /\ request[r].doing = doing /\ request[r].at = at
Key(r) == request[r].key
Over(r) == request' = [request EXCEPT ![r] = None]
Onward(r, at) == request' = [request EXCEPT ![r].at = at]
Untouched == UNCHANGED <<stages, status, recorded, staged>>

\* The row lock a retry keeps on the attempt it follows until it commits.
Locked(s) == \E q \in Requests : Doing(q, "retry", "insert") /\ request[q].stage = s

\* hq_autopilot_sibling_live_attempt: the posting's other row has an attempt.
SiblingLive(a) ==
    \E b \in Applications \ {a} : \E s \in Of(b) : stages[s].state \notin Released

\* The first lookup of the key, under no lock, and for a stage what is read
\* before the insert.
LookUp(r) ==
    /\ request[r] # None /\ request[r].at = "sent"
    /\ LET a == request[r].application
           refused ==
               /\ request[r].doing = "stage"
               /\ \/ status[a] = "gone"
                  \/ (\A s \in Of(a) : stages[s].state \in Released) /\ SiblingLive(a)
       IN IF Key(r) \in recorded \/ refused THEN Over(r) ELSE Onward(r, "act")
    /\ Untouched /\ UNCHANGED <<executor, gestures>>

\* on conflict do nothing finds the slot free.
StageInserts(r) ==
    LET a == request[r].application
        born == NewStage(a, request[r].package) IN
    /\ Doing(r, "stage", "act") /\ ~Holds(a) /\ status[a] # "gone"
    /\ staged < MaxStages
    /\ staged' = staged + 1
    \* Behind the lock the key is looked up again; a row it answers for stays.
    /\ stages' = With(staged + 1,
                      IF Key(r) \in recorded THEN born
                      ELSE [born EXCEPT !.state = request[r].word])
    /\ recorded' = recorded \cup {Key(r)}
    /\ Over(r)
    /\ UNCHANGED <<status, executor, gestures>>

\* The stage that holds the slot is edited: the package, then the state.
StageEdits(r) ==
    /\ Doing(r, "stage", "act")
    /\ \E s \in Of(request[r].application) :
        /\ ~Locked(s)
        /\ stages[s].state \in Editable
        /\ Key(r) \notin recorded
        /\ request[r].token \in {None, Token(s)}
        /\ stages' =
             IF stages[s].package = request[r].package /\ stages[s].state = request[r].word
             THEN stages
             ELSE With(s, [stages[s] EXCEPT !.package = request[r].package,
                             !.state = request[r].word, !.version = @ + 1])
        /\ recorded' = recorded \cup {Key(r)}
        /\ Over(r)
        /\ UNCHANGED <<status, executor, staged, gestures>>

\* The application or its open stage is gone or frozen, the token is old, or the
\* key has been answered meanwhile.
StageEnds(r) ==
    LET a == request[r].application IN
    /\ Doing(r, "stage", "act")
    /\ IF Holds(a)
       THEN \A s \in Of(a) : stages[s].state \in Occupying =>
              \/ stages[s].state \notin Editable
              \/ Key(r) \in recorded
              \/ request[r].token \notin {None, Token(s)}
       ELSE status[a] = "gone"
    /\ Over(r) /\ Untouched /\ UNCHANGED <<executor, gestures>>

\* Behind the row lock: the stage is there, the key is new, the token current.
Acts(r, doing) ==
    LET s == request[r].stage IN
    /\ Doing(r, doing, "act") /\ s \in StageIds /\ ~Locked(s)
    /\ Key(r) \notin recorded
    /\ request[r].token \in {None, Token(s)}

\* Mutant: the token alone guards an approval.
SawSomePackage(r) == TRUE

\* The hash sent along is of the package as it is now.
SawThePackage(r) ==
    request[r].word = "approved" => request[r].package = stages[request[r].stage].package

ApprovalAfter(s, word) ==
    CASE word = "approved" -> stages[s].package
      [] word = "cancelled" -> stages[s].approved
      [] OTHER -> None

CanReview(r) ==
    LET s == request[r].stage  word == request[r].word IN
    /\ SawThePackage(r)
    /\ stages[s].state = word \/ Permitted(s, word, ApprovalAfter(s, word))

Review(r) ==
    LET s == request[r].stage  word == request[r].word IN
    /\ Acts(r, "review") /\ CanReview(r)
    /\ stages' = IF stages[s].state = word THEN stages
                 ELSE With(s, MovedTo(s, word, ApprovalAfter(s, word)))
    /\ recorded' = recorded \cup {Key(r)}
    /\ Over(r)
    /\ UNCHANGED <<status, executor, staged, gestures>>

\* The prior attempt is settled and, at this instant, no sibling is live.
RetryChecks(r) ==
    LET s == request[r].stage IN
    /\ Acts(r, "retry")
    /\ stages[s].state \in Released /\ ~SiblingLive(stages[s].application)
    /\ Onward(r, "insert")
    /\ Untouched /\ UNCHANGED <<executor, gestures>>

\* unique_violation, when a newer attempt holds the slot, is a conflict.
RetryInserts(r) ==
    LET s == request[r].stage  a == request[r].application IN
    /\ Doing(r, "retry", "insert")
    /\ IF Holds(a)
       THEN Untouched
       ELSE /\ staged < MaxStages
            /\ staged' = staged + 1
            /\ stages' = With(staged + 1, NewStage(a, stages[s].package))
            /\ recorded' = recorded \cup {Key(r)}
            /\ UNCHANGED status
    /\ Over(r)
    /\ UNCHANGED <<executor, gestures>>

\* What app_set_status makes of the application when it is told Applied: a
\* finished one needs a reason, and without it nothing is written.
ManualStatus(a, word) ==
    IF status[a] = "Rejected" /\ word = "submitted" THEN {} ELSE {"Applied"}

\* The stage and the manual status are one transaction.
HandOff(r) ==
    LET s == request[r].stage  a == request[r].application IN
    /\ Acts(r, "settle") /\ request[r].word # "abandoned"
    /\ stages[s].state = "approved"
    /\ Permitted(s, "handed_off", stages[s].approved)
    /\ \E now \in ManualStatus(a, request[r].word) : status' = [status EXCEPT ![a] = now]
    /\ stages' = With(s, [MovedTo(s, "handed_off", stages[s].approved) EXCEPT !.sent = TRUE])
    /\ recorded' = recorded \cup {Key(r)}
    /\ Over(r)
    /\ UNCHANGED <<executor, staged, gestures>>

Abandon(r) ==
    LET s == request[r].stage IN
    /\ Acts(r, "settle") /\ request[r].word = "abandoned"
    /\ stages[s].state = "approved"
    /\ Permitted(s, "cancelled", stages[s].approved)
    /\ stages' = With(s, MovedTo(s, "cancelled", stages[s].approved))
    /\ recorded' = recorded \cup {Key(r)}
    /\ Over(r)
    /\ UNCHANGED <<status, executor, staged, gestures>>

CanSettle(r) ==
    LET s == request[r].stage IN
    /\ stages[s].state = "approved"
    /\ request[r].word # "abandoned" =>
          ManualStatus(request[r].application, request[r].word) # {}

\* Every refusal behind the lock, and the answer of the record.
Refused(r) ==
    LET s == request[r].stage IN
    /\ request[r] # None /\ request[r].doing # "stage" /\ request[r].at = "act"
    /\ s \in StageIds => ~Locked(s)
    /\ Acts(r, request[r].doing) =>
         CASE request[r].doing = "review" -> ~CanReview(r)
           [] request[r].doing = "retry" ->
                stages[s].state \notin Released \/ SiblingLive(stages[s].application)
           [] request[r].doing = "settle" -> ~CanSettle(r)
    /\ Over(r) /\ Untouched /\ UNCHANGED <<executor, gestures>>

-------------------------------------------------------------------------------
(* The application row. *)

Another == Cardinality({a \in Applications : status[a] \in {"Rejected", "gone"}}) < MaxEnded

\* A person ends the application on the pipeline page.
Reject(a) ==
    /\ Another
    /\ status[a] \in {"Queued", "Applied"}
    /\ status' = [status EXCEPT ![a] = "Rejected"]
    /\ UNCHANGED <<stages, request, recorded, executor, staged, gestures>>

\* Mutant: the state stands for the evidence.
MayGoByState(s) == stages[s].state \notin Committed

\* The delete of an application cascades to its stages; one that may have
\* reached an employer, or holds a receipt, refuses it.
MayGo(s) == stages[s].state \notin Committed /\ ~stages[s].receipt

Withdraw(a) ==
    /\ status[a] = "Queued" /\ Another
    /\ \A s \in Of(a) : MayGo(s) /\ ~Locked(s)
    /\ status' = [status EXCEPT ![a] = "gone"]
    /\ stages' = [s \in StageIds \ Of(a) |-> stages[s]]
    /\ UNCHANGED <<request, recorded, executor, staged, gestures>>

-------------------------------------------------------------------------------
(* The executor, through the service role. *)

Submitting(at) == executor # None /\ executor.at = at /\ executor.stage \in StageIds
Work(s, at) == executor' = [stage |-> s, at |-> at]
WorksOn(s) == executor # None /\ executor.stage = s
Browser == UNCHANGED <<status, request, recorded, staged, gestures>>

Begin(s) ==
    /\ executor = None /\ s \in StageIds /\ ~Locked(s)
    /\ Permitted(s, "submitting", stages[s].approved)
    /\ stages' = With(s, MovedTo(s, "submitting", stages[s].approved))
    /\ Work(s, "submit") /\ Browser

\* The provider takes it, with a confirmation.
Accepted ==
    /\ Submitting("submit")
    /\ stages' = With(executor.stage, [stages[executor.stage] EXCEPT !.sent = TRUE])
    /\ Work(executor.stage, "confirmed") /\ Browser

\* Nothing was taken, and that is proved.
Failed ==
    /\ Submitting("submit")
    /\ \E to \in {"failed_retryable", "failed_terminal"} :
         LET s == executor.stage IN
         /\ ~Locked(s) /\ Permitted(s, to, stages[s].approved)
         /\ stages' = With(s, MovedTo(s, to, stages[s].approved))
    /\ executor' = None /\ Browser

\* The guard of the receipt reads the stage without a lock.
ReceiptGuard ==
    /\ Submitting("confirmed")
    /\ stages[executor.stage].state \in {"submitting", "outcome_unknown"}
    /\ Work(executor.stage, "file") /\ Browser /\ UNCHANGED stages

ReceiptFiled ==
    /\ Submitting("file")
    /\ stages' = With(executor.stage, [stages[executor.stage] EXCEPT !.receipt = TRUE])
    /\ Work(executor.stage, "close") /\ Browser

Confirmed ==
    LET s == executor.stage IN
    /\ Submitting("close") /\ ~Locked(s)
    /\ Permitted(s, "submitted", stages[s].approved)
    /\ stages' = With(s, MovedTo(s, "submitted", stages[s].approved))
    /\ executor' = None /\ Browser

\* It dies, or one of its statements is refused.
Dies ==
    /\ executor # None
    /\ executor' = None /\ Browser /\ UNCHANGED stages

\* A submission nobody is working on may have gone through.
Doubt(s) ==
    /\ s \in StageIds /\ ~WorksOn(s) /\ ~Locked(s)
    /\ Permitted(s, "outcome_unknown", stages[s].approved)
    /\ stages' = With(s, MovedTo(s, "outcome_unknown", stages[s].approved))
    /\ Browser /\ UNCHANGED executor

\* Reconciliation: a person says there is no application, or the provider's
\* record of one is found.
WriteOff(s) ==
    /\ s \in StageIds /\ stages[s].state = "outcome_unknown" /\ ~Locked(s)
    /\ Permitted(s, "failed_terminal", stages[s].approved)
    /\ stages' = With(s, MovedTo(s, "failed_terminal", stages[s].approved))
    /\ Browser /\ UNCHANGED executor

Found(s) ==
    /\ s \in StageIds /\ executor = None
    /\ stages[s].state = "outcome_unknown" /\ stages[s].sent
    /\ Work(s, IF stages[s].receipt THEN "close" ELSE "confirmed")
    /\ Browser /\ UNCHANGED stages

-------------------------------------------------------------------------------

AutopilotInit ==
    /\ stages \in Records
    /\ staged \in 0..MaxStages /\ StageIds = 1..staged
    /\ status = [a \in Applications |-> "Queued"]
    /\ request = [r \in Requests |-> None]
    /\ recorded = {} /\ executor = None /\ gestures = 0

Delivery(r) ==
    \/ DeliverTwice(r)
    \/ LookUp(r)
    \/ StageInserts(r) \/ StageEdits(r) \/ StageEnds(r)
    \/ Review(r) \/ RetryChecks(r) \/ RetryInserts(r)
    \/ HandOff(r) \/ Abandon(r) \/ Refused(r)

Executes ==
    \/ Accepted \/ Failed \/ ReceiptGuard \/ ReceiptFiled \/ Confirmed \/ Dies
    \/ \E s \in 1..MaxStages : Begin(s) \/ Doubt(s) \/ WriteOff(s) \/ Found(s)

AutopilotNext ==
    \/ Gesture \/ \E r \in Requests : Delivery(r)
    \/ \E a \in Applications : Reject(a) \/ Withdraw(a)
    \/ Executes

AutopilotSpec == AutopilotInit /\ [][AutopilotNext]_autopilotVars

-------------------------------------------------------------------------------
(* Properties. *)

AutopilotTypeOK ==
    /\ staged \in 0..MaxStages /\ gestures \in Nat
    /\ StageIds \subseteq 1..staged
    /\ stages \in [StageIds -> Stage]
    /\ request \in [Requests -> {None} \cup Request]
    /\ \A r \in Requests : Doing(r, "retry", "insert") => request[r].stage \in StageIds
    /\ executor \in {None} \cup Execution

\* An approval is of the package the person read: a re-stage that lands between
\* the rendering of the review screen and the press is never what gets approved,
\* and what was approved is not changed until the approval is thrown away.
ApprovedAsRead ==
    [][\A s \in StageIds \cap DOMAIN stages' :
         /\ stages'[s].state = "approved" /\ stages[s].state # "approved" =>
              \E r \in Requests :
                 request[r] # None /\ request'[r] = None /\ request[r].stage = s
                 /\ request[r].package = stages'[s].package
         /\ stages'[s].state \in Authorised => stages'[s].approved = stages'[s].package
      ]_autopilotVars

\* An attempt that may have reached the employer is never blindly repeated: while
\* nobody has written it off, its application has no other attempt under way.
NeverBlindlyRetried ==
    \A s, t \in StageIds :
        s # t /\ stages[s].application = stages[t].application /\ stages[s].sent =>
           \/ stages[s].state \in {"cancelled", "failed_terminal"}
           \/ stages[t].state \in Released

\* A stage that holds a receipt stays: no gesture that deletes the application
\* takes the evidence with it.
EvidenceKept ==
    [][\A s \in StageIds : stages[s].receipt =>
         s \in DOMAIN stages' /\ stages'[s].receipt]_autopilotVars
===============================================================================
