----------------------------- MODULE Lifecycle ------------------------------
(***************************************************************************)
(* One user's posting and application, from the first triage to a finished *)
(* application: every command that writes user_postings or applications,   *)
(* delivered any number of times, interleaved with every other.            *)
(***************************************************************************)
EXTENDS Triage, Pipeline

CONSTANTS
  Offered,       \* the commands callers send
  Signals,       \* what the classifier may conclude from an email
  Births,        \* application rows that may exist at the start, or Nil
  Swept,         \* postings the sweep may list or close meanwhile
  Arriving       \* postings the store does not have yet

ASSUME OfferedAssumption == Offered \subseteq CommandNames
(* The classifier may not name an ending only a person may write.          *)
ASSUME SignalsAssumption ==
  \A s \in Signals : s.status \in (Statuses \cup {""}) \ Resolved /\ s.stamp \in Stamps
(* What was there at the start was written before any of the transactions. *)
ASSUME BirthsAssumption ==
  /\ Births \subseteq AppRows \cup {Nil}
  /\ \A row \in Births \ {Nil} : row.id = 0 /\ row.ver = 0
ASSUME SweptAssumption == Swept \subseteq Postings
ASSUME UntriagedAssumption == \E c \in Choices : c.triage = "" /\ c.reason = ""

Untriaged == CHOOSE c \in Choices : c.triage = "" /\ c.reason = ""

(* What a client can say about a posting, given the page it has just read: *)
(* an expectation is the version on that page, or none.                    *)
Expectations(ver) == {Nil, ver}

PostingGestures(p) ==
  {EmailGesture(p, s) : s \in Signals}
    \cup IF board[p] = "absent" THEN {} ELSE
      {TriageGesture(p, c, e) : c \in Choices, e \in Expectations(up[p].ver)}
        \cup {DigestGesture(p, c) : c \in DigestChoices}

ApplicationGestures(p) ==
  LET row == app[p]
      seen == Expectations(row.ver)
  IN IF row = Nil THEN {}
     ELSE {StatusGesture(p, row.id, s, n, e) : s \in Statuses, n \in BOOLEAN, e \in seen}
            \cup {ResolveGesture(p, row.id, d, e) : d \in {"confirm", "reject"}, e \in seen}
            \cup {NoteGesture(p, row.id)}
            \cup {NextGesture(p, row.id, n, e) : n \in Nexts, e \in seen}

Init ==
  /\ up = [p \in Postings |-> [choice |-> Untriaged, ver |-> 0]]
  /\ app \in [Postings -> Births \cup {Nil}]
  /\ \A p \in Postings : IF p \in Arriving THEN app[p] = Nil ELSE app[p] \in Births
  /\ idem = [k \in Keys |-> Nil]
  /\ events = <<>>
  /\ board = [p \in Postings |-> IF p \in Arriving THEN "absent" ELSE "open"]
  /\ gest = [k \in Keys |-> Nil]
  /\ clock = 0
  /\ pc = [t \in Txns |-> "idle"]
  /\ key = [t \in Txns |-> Nil]
  /\ now = [t \in Txns |-> 0]
  /\ res = [t \in Txns |-> Nil]
  /\ reply = [t \in Txns |-> "none"]
  /\ wUp = [t \in Txns |-> Nil]
  /\ wApp = [t \in Txns |-> Nil]
  /\ wEv = [t \in Txns |-> Nil]
  /\ upLock = [p \in Postings |-> NoTx]
  /\ appLock = [p \in Postings |-> NoTx]

Call ==
  \/ \E k \in Keys, p \in Postings :
       \E g \in PostingGestures(p) \cup ApplicationGestures(p) :
         g.cmd \in Offered /\ Mint(k, g)
  \/ \E t \in Txns, k \in Keys : Deliver(t, k)

Serve(t) == TriageStep(t) \/ PipelineStep(t) \/ Commit(t)

(* Every transaction has been used: nothing is left to happen. *)
AllServed ==
  /\ \A t \in Txns : pc[t] = "done"
  /\ UNCHANGED vars

Next ==
  \/ Call
  \/ \E t \in Txns : Serve(t)
  \/ \E t \in Txns : Lose(t)
  \/ \E p \in Swept : Sweep(p)
  \/ AllServed

Spec == Init /\ [][Next]_vars

(* The database runs a transaction it has started; callers, lost           *)
(* connections and the board owe nobody anything.                          *)
FairSpec == Spec /\ \A t \in Txns : WF_vars(Serve(t))

-----------------------------------------------------------------------------
(***************************************************************************)
(* Types.                                                                  *)
(***************************************************************************)
TriageGestures ==
  [cmd: {"app_set_triage"}, posting: Postings, id: {0}, expect: Nat \cup {Nil}, arg: Choices]
DigestGestures ==
  [cmd: {"hq_digest_set_triage"}, posting: Postings, id: {0}, expect: {Nil}, arg: Choices]
StatusGestures ==
  [cmd: {"app_set_status"}, posting: Postings, id: Nat, expect: Nat \cup {Nil},
   arg: [status: Statuses, note: BOOLEAN]]
ResolveGestures ==
  [cmd: {"app_resolve_suggestion"}, posting: Postings, id: Nat, expect: Nat \cup {Nil},
   arg: [decision: {"confirm", "reject"}]]
NoteGestures ==
  [cmd: {"app_add_note"}, posting: Postings, id: Nat, expect: {Nil}, arg: [note: {TRUE}]]
NextGestures ==
  [cmd: {"app_set_next_action"}, posting: Postings, id: Nat, expect: Nat \cup {Nil},
   arg: [next: Nexts]]
EmailGestures ==
  [cmd: {EmailCommand}, posting: Postings, id: {0}, expect: {Nil}, arg: Signals]
Gestures == TriageGestures \cup DigestGestures \cup StatusGestures \cup ResolveGestures
              \cup NoteGestures \cup NextGestures \cup EmailGestures

EmailResults == [outcome: EmailOutcomes, id: Nat \cup {Nil},
                 status: Statuses \cup {""}, sugg: Statuses \cup {""}]
Results == UpRows \cup AppRows \cup EmailResults \cup {Nil}
Answers == [cmd: CommandNames, res: Results]
ASSUME AnswersAssumption ==
  /\ Nil \notin Answers /\ Nil \notin Gestures /\ Nil \notin UpRows /\ Nil \notin Nat
  /\ Nil \notin AppRows /\ Gone \notin AppRows /\ Gone # Nil

Labels  == {"idle", "lock", "check", "sync", "insert", "again", "noted", "commit", "done"}
Replies == {"none", "ok", "unapplied", "conflict", "gone", "reopen", "unique_violation",
            "claimed", "lost"}

TypeOK ==
  /\ up \in [Postings -> UpRows]
  /\ app \in [Postings -> AppRows \cup {Nil}]
  /\ idem \in [Keys -> Answers \cup {Nil}]
  /\ board \in [Postings -> {"absent", "open", "Closed"}]
  /\ gest \in [Keys -> Gestures \cup {Nil}]
  /\ clock \in Nat
  /\ pc \in [Txns -> Labels]
  /\ key \in [Txns -> Keys \cup {Nil}]
  /\ now \in [Txns -> Nat]
  /\ res \in [Txns -> Results]
  /\ reply \in [Txns -> Replies]
  /\ wUp \in [Txns -> UpRows \cup {Nil}]
  /\ wApp \in [Txns -> AppRows \cup {Nil, Gone}]
  /\ upLock \in [Postings -> Txns \cup {NoTx}]
  /\ appLock \in [Postings -> Txns \cup {NoTx}]
  /\ \A t \in Txns : pc[t] # "idle" => key[t] \in Keys /\ gest[key[t]] # Nil

-----------------------------------------------------------------------------
(***************************************************************************)
(* Safety.                                                                 *)
(***************************************************************************)

(* The event that says a command took effect: not the note that an email   *)
(* could not be applied, and not an email that found no row to apply to.   *)
Effect(e) == e.kind # "unapplied" /\ (e.kind = "triage" \/ e.id # Nil)

(* One key takes effect at most once, however often and however            *)
(* concurrently it is delivered ("Repeating the key returns the first      *)
(* result instead of applying twice"): the trail never holds two effects   *)
(* of one key.                                                             *)
AppliedOnce ==
  \A i, j \in 1 .. Len(events) :
    Effect(events[i]) /\ Effect(events[j]) /\ events[i].key = events[j].key => i = j

(* Every delivery of a user's gesture that succeeds is told the same, the  *)
(* answer stored under its key, whichever delivery did the work.           *)
SameAnswer ==
  \A t \in Txns :
    reply[t] = "ok" /\ Cmd(t) # EmailCommand =>
      idem[key[t]] # Nil /\ res[t] = idem[key[t]].res

(* However often a gesture is delivered, it is done once and every delivery *)
(* that succeeds is told what that one did.                                *)
Idempotent == AppliedOnce /\ SameAnswer

(* A transaction that commits successfully in this step. *)
Commits(t) == reply[t] # "ok" /\ reply'[t] = "ok" /\ pc[t] = "commit"

(* Compare and set: a write made on a version the client read replaces     *)
(* exactly that version at commit, whatever ran since the client read it.  *)
NoLostUpdate ==
  [][\A t \in Txns : Commits(t) /\ G(t).expect # Nil =>
       /\ wUp[t] # Nil => up[P(t)].ver = G(t).expect
       /\ wApp[t] # Nil /\ Cmd(t) \in RowCommands => app[P(t)].ver = G(t).expect]_vars

(* A version token names one state of a row for good: a changed row never  *)
(* takes a version that some client already holds.  (A note is not part of *)
(* the row.)                                                               *)
Bare(row) == IF row = Nil THEN Nil ELSE [row EXCEPT !.notes = {}]
TokensNeverReturn ==
  [][\A p \in Postings, k \in Keys :
       gest[k] # Nil /\ gest[k].posting = p /\ gest[k].expect # Nil =>
         /\ gest[k].cmd = "app_set_triage" /\ up'[p] # up[p] =>
              up'[p].ver # gest[k].expect
         /\ gest[k].cmd \in RowCommands /\ Bare(app'[p]) # Bare(app[p]) /\ app'[p] # Nil =>
              app'[p].ver # gest[k].expect]_vars

(* The two together: a version stands for what the client read until it is *)
(* replaced, and nothing else ever bears it.                               *)
CompareAndSet == NoLostUpdate /\ TokensNeverReturn

(* The audit trail is complete and in order: its last word about a         *)
(* posting's triage and about an application's status is what the tables   *)
(* say, and where it says nothing they hold what they were born with.      *)
StatusKinds == {"status", "confirmed", "advanced"}
AboutTriage(e, p) == e.kind = "triage" /\ e.posting = p
AboutStatus(e, p) == e.kind \in StatusKinds /\ e.posting = p /\ e.id = app[p].id
TrailAgrees ==
  \A p \in Postings :
    /\ \A i \in 1 .. Len(events) :
         AboutTriage(events[i], p)
           /\ (\A j \in i + 1 .. Len(events) : ~AboutTriage(events[j], p))
         => up[p].choice = events[i].to
    /\ (\A i \in 1 .. Len(events) : ~AboutTriage(events[i], p)) => up[p].choice = Untriaged
    /\ app[p] # Nil =>
         /\ \A i \in 1 .. Len(events) :
              AboutStatus(events[i], p)
                /\ (\A j \in i + 1 .. Len(events) : ~AboutStatus(events[j], p))
              => app[p].status = events[i].to
         /\ (\A i \in 1 .. Len(events) : ~AboutStatus(events[i], p)) =>
              app[p].status \in {"Queued", "Inbox"} \/ app[p].id = 0

(* Marking a posting interested puts an application in the pipeline, and   *)
(* no interleaving with the email lane or another gesture removes it while *)
(* the posting stays interested.                                           *)
InterestedHasApplication ==
  \A p \in Postings : up[p].choice.triage = "interested" => app[p] # Nil

(* Leaving "interested" buries only a Queued application: one that an      *)
(* email or a person has moved on survives every triage.                   *)
MovedOnSurvives ==
  [][\A p \in Postings :
       app[p] # Nil /\ (app'[p] = Nil \/ app'[p].id # app[p].id) =>
         app[p].status = "Queued"]_vars

(* No bot overrules a person.  An email never changes the status or the    *)
(* actor of an application a person has claimed, moves an unclaimed one    *)
(* only forward, never to an ending only a person may write, and never     *)
(* takes away a suggestion it did not replace.                             *)
BotsDefer ==
  [][\A t \in Txns, p \in Postings :
       Commits(t) /\ Cmd(t) = EmailCommand /\ app[p] # Nil /\ app'[p] # app[p] =>
         /\ app'[p] # Nil /\ app'[p].actor = app[p].actor
         /\ app[p].actor = "user" => app'[p].status = app[p].status
         /\ app'[p].status # app[p].status =>
              /\ Rank(app'[p].status) > Rank(app[p].status)
              /\ app'[p].status \notin Resolved
         /\ app[p].sugg # "" => app'[p].sugg # ""]_vars

(* A refusal of app_set_triage is about somebody else's write: once a key  *)
(* has been answered, no delivery of it is told of a conflict or a         *)
(* violated constraint (the phantom conflict the second lookup is for).    *)
RefusedMeansUnapplied ==
  [][\A t \in Txns :
       reply[t] = "none" /\ reply'[t] \in {"conflict", "gone", "unique_violation"}
         /\ Cmd(t) = "app_set_triage" => idem[key[t]] = Nil]_vars

-----------------------------------------------------------------------------
(***************************************************************************)
(* Waiting: the guards of the actions that take a row, read from the side  *)
(* of the transaction that has to wait for its holder.                     *)
(***************************************************************************)

(* select ... for update on a posting *)
WaitsForPosting(t, u) ==
  pc[t] = "lock" /\ Cmd(t) \in TriageCommands /\ upLock[P(t)] = u

(* A select for update, an insert or a delete that meets an application    *)
(* row, or a place in the unique index, that somebody has.                 *)
WaitsForApplication(t, u) ==
  /\ \/ pc[t] = "lock" /\ Cmd(t) \in RowCommands /\ app[P(t)] # Nil /\ app[P(t)].id = G(t).id
     \/ pc[t] = "lock" /\ Cmd(t) = EmailCommand /\ board[P(t)] # "absent" /\ app[P(t)] # Nil
     \/ pc[t] = "again" /\ app[P(t)] # Nil
     \/ pc[t] = "insert" /\ Cmd(t) = EmailCommand /\ (app[P(t)] = Nil \/ wApp[u] # Nil)
     \/ pc[t] = "insert" /\ Cmd(t) \in TriageCommands /\ app[P(t)] = Nil
     \/ pc[t] = "sync" /\ G(t).arg.triage # "interested" /\ Queued(P(t))
  /\ appLock[P(t)] = u

WaitsFor(t, u) == WaitsForPosting(t, u) \/ WaitsForApplication(t, u)

(* A call that has started waits for another transaction or can go on: no  *)
(* branch of a command is missing, and nothing but a row lock stops one.   *)
WaitsOrRuns(t) ==
  pc[t] \notin {"idle", "done"} =>
    (ENABLED Serve(t) <=> ~\E u \in Txns : WaitsFor(t, u))

(* Row locks are never waited for in a circle, a transaction's own         *)
(* included: among any transactions there is one that waits for none of    *)
(* them.                                                                   *)
NoCircularWait ==
  \A S \in SUBSET Txns : S # {} => \E t \in S : \A u \in S : ~WaitsFor(t, u)

(* Every call the database has started ends: no row lock is waited for     *)
(* for ever, in any mix of commands.                                       *)
EveryCallEnds ==
  \A t \in Txns :
    /\ [](WaitsOrRuns(t) /\ NoCircularWait)
    /\ pc[t] # "idle" ~> pc[t] = "done"
=============================================================================
