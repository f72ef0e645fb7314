------------------------------ MODULE EmailSends ------------------------------
(* The lifecycle mail of one account: the facts the entitlement commands        *)
(* record, the ledger email_sends, and dispatchLifecycleEmail, which the        *)
(* scheduler and the operator's curl may run at the same time. A dispatcher     *)
(* claims the key, asks the provider, records the answer; it may die between    *)
(* any two of those, and a store call that throws ends it the same way.         *)
EXTENDS Integers, FiniteSets

CONSTANTS
    Facts,          \* a set of numbers: entitlement events, oldest first
    Dispatchers,
    Limit,          \* of hq_email_pending_lifecycle
    MaxDispatches   \* bound: dispatches ever started

ASSUME MailAssumption ==
    Facts \subseteq Nat /\ Limit \in Nat \ {0} /\ MaxDispatches \in Nat

VARIABLES
    facts,        \* events committed so far
    ledger,       \* email_sends.status, for the facts that have a row
    suppressed,   \* the account's address is in email_suppressions
    mails,        \* mails the provider has accepted, by fact
    dispatcher,   \* [at, due, on, answer] of each
    dispatches

mailVars == <<facts, ledger, suppressed, mails, dispatcher, dispatches>>

Recordable == {"sent", "skipped", "failed", "unknown"}
MailStatuses == Recordable \cup {"claimed", "suppressed"}

\* at: the step it is before. due: what its read returned and it has not got
\* past. on: whether the deployment has a provider. answer: to be recorded.
Idle == [at |-> "idle", due |-> {}, on |-> FALSE, answer |-> "unknown"]

DispatcherType ==
    [at : {"idle", "claim", "insert", "skip", "send", "record"},
     due : SUBSET Facts, on : BOOLEAN, answer : Recordable]

Pending == facts \ DOMAIN ledger
Oldest(set) == CHOOSE f \in set : \A g \in set : f <= g
Item(d) == Oldest(dispatcher[d].due)
At(d, step) == dispatcher[d].at = step
Goto(d, step) == dispatcher' = [dispatcher EXCEPT ![d].at = step]

\* The loop goes on to the next item, or the request ends.
Past(d) ==
    LET rest == dispatcher[d].due \ {Item(d)} IN
    dispatcher' = [dispatcher EXCEPT ![d] =
        IF rest = {} THEN Idle ELSE [@ EXCEPT !.at = "claim", !.due = rest]]

Row(f, status) ==
    ledger' = [g \in DOMAIN ledger \cup {f} |-> IF g = f THEN status ELSE ledger[g]]

-------------------------------------------------------------------------------

\* An entitlement command commits. A fact may become visible after a later one.
RecordFact(f) ==
    /\ f \notin facts
    /\ facts' = facts \cup {f}
    /\ UNCHANGED <<ledger, suppressed, mails, dispatcher, dispatches>>

Suppress ==
    /\ ~suppressed
    /\ suppressed' = TRUE
    /\ UNCHANGED <<facts, ledger, mails, dispatcher, dispatches>>

\* The pending read: the oldest Limit facts with no row.
Due ==
    {f \in Pending : Cardinality({g \in Pending : g < f}) < Limit}

Dispatch(d, on) ==
    /\ At(d, "idle")
    /\ dispatches < MaxDispatches
    /\ Pending # {}
    /\ dispatcher' = [dispatcher EXCEPT ![d] =
          [at |-> "claim", due |-> Due, on |-> on, answer |-> "unknown"]]
    /\ dispatches' = dispatches + 1
    /\ UNCHANGED <<facts, ledger, suppressed, mails>>

\* hq_email_claim_send looks at the suppressions first, and a suppressed address
\* gets a terminal row at once unless the key is taken.
ClaimSuppressed(d) ==
    /\ At(d, "claim")
    /\ suppressed
    /\ IF Item(d) \in DOMAIN ledger THEN UNCHANGED ledger
                                    ELSE Row(Item(d), "suppressed")
    /\ Past(d)
    /\ UNCHANGED <<facts, suppressed, mails, dispatches>>

ClaimClean(d) ==
    /\ At(d, "claim")
    /\ ~suppressed
    /\ Goto(d, "insert")
    /\ UNCHANGED <<facts, ledger, suppressed, mails, dispatches>>

\* Mutant of Insert: a claim whose dispatcher seems to have died is taken over.
InsertOverClaimed(d) ==
    /\ At(d, "insert")
    /\ IF Item(d) \in DOMAIN ledger /\ ledger[Item(d)] # "claimed"
       THEN Past(d) /\ UNCHANGED ledger
       ELSE /\ Row(Item(d), "claimed")
            /\ Goto(d, IF dispatcher[d].on THEN "send" ELSE "skip")
    /\ UNCHANGED <<facts, suppressed, mails, dispatches>>

\* The unique key decides who holds the claim: a taken key ends the item.
Insert(d) ==
    /\ At(d, "insert")
    /\ IF Item(d) \in DOMAIN ledger
       THEN Past(d) /\ UNCHANGED ledger
       ELSE /\ Row(Item(d), "claimed")
            /\ Goto(d, IF dispatcher[d].on THEN "send" ELSE "skip")
    /\ UNCHANGED <<facts, suppressed, mails, dispatches>>

\* Mail is off: a loud skip.
Skip(d) ==
    /\ At(d, "skip")
    /\ dispatcher' = [dispatcher EXCEPT ![d].at = "record", ![d].answer = "skipped"]
    /\ UNCHANGED <<facts, ledger, suppressed, mails, dispatches>>

\* The provider: accepted with an id, refused, or (accepted or not) an answer
\* that never came or names no message.
Send(d) ==
    /\ At(d, "send")
    /\ \E accepted \in BOOLEAN :
         /\ mails' = [mails EXCEPT ![Item(d)] = @ + (IF accepted THEN 1 ELSE 0)]
         /\ \E answer \in {IF accepted THEN "sent" ELSE "failed", "unknown"} :
              dispatcher' = [dispatcher EXCEPT ![d].at = "record", ![d].answer = answer]
    /\ UNCHANGED <<facts, ledger, suppressed, dispatches>>

\* hq_email_record_send moves a claimed row only; any other raises and ends the
\* dispatch.
Record(d) ==
    /\ At(d, "record")
    /\ IF Item(d) \in DOMAIN ledger /\ ledger[Item(d)] = "claimed"
       THEN Row(Item(d), dispatcher[d].answer) /\ Past(d)
       ELSE dispatcher' = [dispatcher EXCEPT ![d] = Idle] /\ UNCHANGED ledger
    /\ UNCHANGED <<facts, suppressed, mails, dispatches>>

Die(d) ==
    /\ ~At(d, "idle")
    /\ dispatcher' = [dispatcher EXCEPT ![d] = Idle]
    /\ UNCHANGED <<facts, ledger, suppressed, mails, dispatches>>

-------------------------------------------------------------------------------

MailInit ==
    /\ facts = {}
    /\ ledger = [f \in {} |-> "claimed"]
    /\ suppressed = FALSE
    /\ mails = [f \in Facts |-> 0]
    /\ dispatcher = [d \in Dispatchers |-> Idle]
    /\ dispatches = 0

MailStep(d) ==
    \/ \E on \in BOOLEAN : Dispatch(d, on)
    \/ ClaimSuppressed(d) \/ ClaimClean(d) \/ Insert(d)
    \/ Skip(d) \/ Send(d) \/ Record(d) \/ Die(d)

MailNext ==
    \/ \E f \in Facts : RecordFact(f)
    \/ Suppress
    \/ \E d \in Dispatchers : MailStep(d)

MailSpec == MailInit /\ [][MailNext]_mailVars

-------------------------------------------------------------------------------

MailTypeOK ==
    /\ facts \subseteq Facts
    /\ DOMAIN ledger \subseteq Facts
    /\ \A f \in DOMAIN ledger : ledger[f] \in MailStatuses
    /\ suppressed \in BOOLEAN
    /\ mails \in [Facts -> Nat]
    /\ dispatcher \in [Dispatchers -> DispatcherType]
    /\ dispatches \in 0..MaxDispatches

\* However many dispatchers overlap and die, a fact is mailed at most once; a row
\* that says sent has its mail, and no mail exists for a fact whose row says
\* skipped, suppressed or failed, or that has no row yet. Only "claimed" and
\* "unknown" leave it open (dispatch.ts: claim first, provider second).
LedgerTrue ==
    \A f \in Facts :
        /\ mails[f] <= 1
        /\ f \in DOMAIN ledger /\ ledger[f] = "sent" => mails[f] = 1
        /\ f \notin DOMAIN ledger \/ ledger[f] \in {"skipped", "suppressed", "failed"}
              => mails[f] = 0
===============================================================================
