-------------------------- MODULE LifecycleProofs ---------------------------
(***************************************************************************)
(* Theorems about Lifecycle, for every number of transactions, keys and    *)
(* postings, and every set of choices, statuses and signals.               *)
(***************************************************************************)
EXTENDS LifecycleInvariants, TLAPS

USE DEF CommandNames, TriageCommands, RowCommands, EmailCommand

(* What a started transaction carries. *)
LEMMA Carried ==
  ASSUME TypeOK, NEW t \in Txns, pc[t] # "idle"
  PROVE  /\ key[t] \in Keys
         /\ G(t) \in Gestures
         /\ Cmd(t) \in CommandNames
         /\ P(t) \in Postings
         /\ G(t).expect \in Nat \cup {Nil}
<1>1. key[t] \in Keys /\ G(t) \in Gestures
  BY DEF TypeOK, G
<1>2. \A g \in Gestures :
        g.cmd \in CommandNames /\ g.posting \in Postings /\ g.expect \in Nat \cup {Nil}
  BY DEF Gestures, TriageGestures, DigestGestures, StatusGestures, ResolveGestures,
         NoteGestures, NextGestures, EmailGestures
<1> QED BY <1>1, <1>2 DEF Cmd, P

(* What each command says. *)
LEMMA Arguments ==
  ASSUME TypeOK, NEW t \in Txns, pc[t] # "idle"
  PROVE  /\ Cmd(t) \in TriageCommands => G(t).arg \in Choices
         /\ Cmd(t) = "app_set_status" =>
              G(t).arg.status \in Statuses /\ G(t).arg.note \in BOOLEAN
         /\ Cmd(t) = "app_resolve_suggestion" => G(t).arg.decision \in {"confirm", "reject"}
         /\ Cmd(t) = "app_set_next_action" => G(t).arg.next \in Nexts
         /\ Cmd(t) = EmailCommand => G(t).arg \in Signals
         /\ Cmd(t) \in {"hq_digest_set_triage", "app_add_note"} => G(t).expect = Nil
  BY Carried DEF TypeOK, G, Cmd, P, Gestures, TriageGestures, DigestGestures, StatusGestures,
         ResolveGestures, NoteGestures, NextGestures, EmailGestures

LEMMA InitLockInv == Init => LockInv
<1> SUFFICES ASSUME Init PROVE LockInv
  OBVIOUS
<1>1. Untriaged \in Choices
  BY UntriagedAssumption DEF Untriaged
<1>2. TypeOK
  BY <1>1, BirthsAssumption DEF Init, TypeOK, UpRows, Labels, Replies, Results
<1>3. \A t \in Txns : Staged(t) /\ Holds(t)
  BY DEF Init, Staged, Holds, Deciding
<1> QED BY <1>2, <1>3 DEF LockInv

(* A step leaves a transaction as it was if it changes none of what the    *)
(* transaction has and takes none of the locks it holds.                   *)
LEMMA Bystander ==
  ASSUME LockInv, NEW u \in Txns,
         pc'[u] = pc[u], key'[u] = key[u], wApp'[u] = wApp[u],
         pc[u] # "idle" => gest'[key[u]] = gest[key[u]],
         \A p \in Postings : upLock[p] = u => upLock'[p] = u,
         \A p \in Postings : appLock[p] = u => appLock'[p] = u,
         \A p \in Postings : appLock[p] = u /\ app[p] # Nil => app'[p] # Nil
  PROVE  (Staged(u) /\ Holds(u))'
<1> USE DEF LockInv
<1>1. CASE pc[u] = "idle"
  BY <1>1 DEF Staged, Holds, Deciding
<1>2. CASE pc[u] # "idle"
  <2>1. Cmd(u)' = Cmd(u) /\ P(u)' = P(u) /\ P(u) \in Postings
    BY <1>2, Carried DEF G, Cmd, P
  <2> QED
    BY <1>2, <2>1 DEF Staged, Holds, Deciding
<1> QED BY <1>1, <1>2

(* A step of t that leaves every other transaction as it was. *)
Alone(t) ==
  /\ gest' = gest
  /\ \A u \in Txns \ {t} : pc'[u] = pc[u] /\ key'[u] = key[u] /\ wApp'[u] = wApp[u]
  /\ \A p \in Postings, u \in Txns \ {t} :
       /\ upLock[p] = u => upLock'[p] = u
       /\ appLock[p] = u => appLock'[p] = u
       /\ appLock[p] = u /\ app[p] # Nil => app'[p] # Nil

LEMMA AloneKeeps ==
  ASSUME LockInv, NEW t \in Txns, Alone(t), TypeOK', (Staged(t) /\ Holds(t))'
  PROVE  LockInv'
<1>1. ASSUME NEW u \in Txns, u # t
      PROVE  (Staged(u) /\ Holds(u))'
  BY <1>1, Bystander DEF Alone
<1> QED BY <1>1 DEF LockInv

(* A transaction that ends without a commit leaves the tables and every    *)
(* other transaction as they were.                                         *)
LEMMA FailKeeps ==
  ASSUME LockInv, NEW t \in Txns, pc[t] # "idle", NEW code \in Replies, Fail(t, code)
  PROVE  LockInv'
<1> USE DEF LockInv
<1>1. TypeOK'
  BY DEF TypeOK, Fail, Release, DropWrites, tables, session, Labels, Results
<1>2. Alone(t)
  BY DEF TypeOK, Alone, Fail, Release, DropWrites, tables, session
<1>3. (Staged(t) /\ Holds(t))'
  BY DEF TypeOK, Staged, Holds, Deciding, Fail, DropWrites
<1> QED BY <1>1, <1>2, <1>3, AloneKeeps

LEMMA AnswerStoredKeeps ==
  ASSUME LockInv, NEW t \in Txns, pc[t] = "check", AnswerStored(t)
  PROVE  LockInv'
<1> USE DEF LockInv
<1>1. key[t] \in Keys /\ idem[key[t]] \in Answers
  BY Carried DEF TypeOK, AnswerStored, Hit
<1>2. TypeOK'
  BY <1>1 DEF TypeOK, AnswerStored, Goto, tables, session, writes, locks, Labels, Answers
<1>3. Alone(t)
  BY DEF TypeOK, Alone, AnswerStored, Goto, tables, session, writes, locks
<1>4. (Staged(t) /\ Holds(t))'
  BY DEF TypeOK, Staged, Holds, Deciding, AnswerStored, Goto, tables, session, writes, locks,
         G, Cmd, P
<1> QED BY <1>2, <1>3, <1>4, AloneKeeps

LEMMA AnswerUnchangedKeeps ==
  ASSUME LockInv, NEW t \in Txns, pc[t] = "check",
         NEW row \in Results, AnswerUnchanged(t, row)
  PROVE  LockInv'
<1> USE DEF LockInv
<1>1. TypeOK'
  BY DEF TypeOK, AnswerUnchanged, Goto, tables, session, writes, locks, Labels
<1>2. Alone(t)
  BY DEF TypeOK, Alone, AnswerUnchanged, Goto, tables, session, writes, locks
<1>3. (Staged(t) /\ Holds(t))'
  BY DEF TypeOK, Staged, Holds, Deciding, AnswerUnchanged, Goto, tables, session, writes,
         locks, G, Cmd, P
<1> QED BY <1>1, <1>2, <1>3, AloneKeeps

-----------------------------------------------------------------------------
(* Calls. *)
(* What a page offers is a gesture. *)
LEMMA Mintable ==
  ASSUME TypeOK, NEW p \in Postings,
         NEW g \in PostingGestures(p) \cup ApplicationGestures(p)
  PROVE  g \in Gestures
<1>1. CASE g \in {EmailGesture(p, s) : s \in Signals}
  <2>1. g \in EmailGestures
    BY <1>1 DEF EmailGestures, EmailGesture
  <2> QED BY <2>1 DEF Gestures
<1>2. CASE g \in {TriageGesture(p, c, e) : c \in Choices, e \in Expectations(up[p].ver)}
  <2>1. up[p].ver \in Nat
    BY DEF TypeOK, UpRows
  <2>2. PICK c \in Choices, e \in Nat \cup {Nil} : g = TriageGesture(p, c, e)
    BY <1>2, <2>1 DEF Expectations
  <2>3. g \in TriageGestures
    BY <2>2 DEF TriageGestures, TriageGesture
  <2> QED BY <2>3 DEF Gestures
<1>3. CASE g \in {DigestGesture(p, c) : c \in DigestChoices}
  <2>1. PICK c \in Choices : g = DigestGesture(p, c)
    BY <1>3 DEF DigestChoices
  <2>2. g \in DigestGestures
    BY <2>1 DEF DigestGestures, DigestGesture
  <2> QED BY <2>2 DEF Gestures
<1>4. CASE g \in ApplicationGestures(p)
  <2>1. app[p] # Nil /\ app[p] \in AppRows
    BY <1>4 DEF TypeOK, ApplicationGestures
  <2>2. app[p].id \in Nat /\ Expectations(app[p].ver) \subseteq Nat \cup {Nil}
    BY <2>1 DEF AppRows, Expectations
  <2> DEFINE row == app[p]
             seen == Expectations(row.ver)
  <2>3. CASE g \in {StatusGesture(p, row.id, s, n, e) :
                      s \in Statuses, n \in BOOLEAN, e \in seen}
    <3>1. g \in StatusGestures
      BY <2>2, <2>3 DEF StatusGestures, StatusGesture
    <3> QED BY <3>1 DEF Gestures
  <2>4. CASE g \in {ResolveGesture(p, row.id, d, e) :
                      d \in {"confirm", "reject"}, e \in seen}
    <3>1. g \in ResolveGestures
      BY <2>2, <2>4 DEF ResolveGestures, ResolveGesture
    <3> QED BY <3>1 DEF Gestures
  <2>5. CASE g = NoteGesture(p, row.id)
    <3>1. g \in NoteGestures
      BY <2>2, <2>5 DEF NoteGestures, NoteGesture
    <3> QED BY <3>1 DEF Gestures
  <2>6. CASE g \in {NextGesture(p, row.id, n, e) : n \in Nexts, e \in seen}
    <3>1. g \in NextGestures
      BY <2>2, <2>6 DEF NextGestures, NextGesture
    <3> QED BY <3>1 DEF Gestures
  <2>7. \/ g \in {StatusGesture(p, row.id, s, n, e) :
                      s \in Statuses, n \in BOOLEAN, e \in seen}
        \/ g \in {ResolveGesture(p, row.id, d, e) :
                      d \in {"confirm", "reject"}, e \in seen}
        \/ g = NoteGesture(p, row.id)
        \/ g \in {NextGesture(p, row.id, n, e) : n \in Nexts, e \in seen}
    BY <1>4, <2>1 DEF ApplicationGestures
  <2> QED BY <2>3, <2>4, <2>5, <2>6, <2>7
<1> QED BY <1>1, <1>2, <1>3, <1>4 DEF PostingGestures

LEMMA MintKeeps ==
  ASSUME LockInv, NEW k \in Keys, NEW p \in Postings,
         NEW g \in PostingGestures(p) \cup ApplicationGestures(p), Mint(k, g)
  PROVE  LockInv'
<1> USE DEF LockInv
<1>1. g \in Gestures
  BY Mintable
<1>2. TypeOK'
  <2>1. \A t \in Txns : pc'[t] # "idle" => key'[t] \in Keys /\ gest'[key'[t]] # Nil
    BY DEF TypeOK, Mint, session
  <2> QED BY <1>1, <2>1 DEF TypeOK, Mint, tables, session, writes, locks
<1>3. ASSUME NEW u \in Txns PROVE (Staged(u) /\ Holds(u))'
  <2>1. pc[u] # "idle" => gest'[key[u]] = gest[key[u]]
    BY DEF TypeOK, Mint
  <2> QED BY <2>1, Bystander DEF Mint, tables, session, writes, locks
<1> QED BY <1>2, <1>3

LEMMA DeliverKeeps ==
  ASSUME LockInv, NEW t \in Txns, NEW k \in Keys, Deliver(t, k)
  PROVE  LockInv'
<1> USE DEF LockInv
<1>1. TypeOK'
  BY DEF TypeOK, Deliver, Goto, tables, writes, locks, Labels, Replies, Answers
<1>2. Alone(t)
  BY DEF TypeOK, Alone, Deliver, Goto, tables, writes, locks
<1>3. (Staged(t) /\ Holds(t))'
  BY DEF TypeOK, Staged, Holds, Deciding, Deliver, Goto, writes
<1> QED BY <1>1, <1>2, <1>3, AloneKeeps

LEMMA SweepKeeps ==
  ASSUME LockInv, NEW p \in Postings, Sweep(p)
  PROVE  LockInv'
<1> USE DEF LockInv
<1>1. TypeOK'
  BY DEF TypeOK, Sweep, session, writes, locks
<1>2. ASSUME NEW u \in Txns PROVE (Staged(u) /\ Holds(u))'
  BY Bystander DEF Sweep, session, writes, locks
<1> QED BY <1>1, <1>2

-----------------------------------------------------------------------------
(* Triage. *)
LEMMA LockPostingKeeps ==
  ASSUME LockInv, NEW t \in Txns, LockPosting(t)
  PROVE  LockInv'
<1> USE DEF LockInv
<1>1. P(t) \in Postings
  BY Carried DEF LockPosting
<1>2. TypeOK'
  BY <1>1 DEF TypeOK, LockPosting, Goto, tables, session, writes, Labels
<1>3. Alone(t)
  BY <1>1, NullsAssumption DEF TypeOK, Alone, LockPosting, Goto, tables, session, writes
<1>4. (Staged(t) /\ Holds(t))'
  BY <1>1 DEF TypeOK, Staged, Holds, Deciding, LockPosting, Goto, tables, session, writes,
              G, Cmd, P
<1> QED BY <1>2, <1>3, <1>4, AloneKeeps

LEMMA WriteChoiceKeeps ==
  ASSUME LockInv, NEW t \in Txns, pc[t] = "check", Cmd(t) \in TriageCommands, WriteChoice(t)
  PROVE  LockInv'
<1> USE DEF LockInv
<1>1. [choice |-> G(t).arg, ver |-> now[t]] \in UpRows
  BY Arguments DEF TypeOK, UpRows
<1>2. TypeOK'
  BY <1>1 DEF TypeOK, WriteChoice, Goto, tables, session, locks, Labels, Results
<1>3. Alone(t)
  BY DEF TypeOK, Alone, WriteChoice, Goto, tables, session, locks
<1>4. wApp[t] = Nil
  BY DEF Holds
<1>5. (Staged(t) /\ Holds(t))'
  BY <1>4 DEF TypeOK, Staged, Holds, Deciding, WriteChoice, Goto, tables, session, locks,
              G, Cmd, P
<1> QED BY <1>2, <1>3, <1>5, AloneKeeps

(* The last statement before the stored answer; what was buffered for the  *)
(* application is nothing, or a row or a delete on a row now locked.       *)
LEMMA SyncDoneKeeps ==
  ASSUME LockInv, NEW t \in Txns, pc[t] \in {"sync", "insert"}, Cmd(t) \in TriageCommands,
         NEW appId, SyncDone(t, appId),
         \/ wApp' = wApp /\ appLock' = appLock
         \/ /\ appLock[P(t)] = NoTx
            /\ appLock' = [appLock EXCEPT ![P(t)] = t]
            /\ \E w \in AppRows \cup {Gone} : wApp' = [wApp EXCEPT ![t] = w]
  PROVE  LockInv'
<1> USE DEF LockInv
<1>1. P(t) \in Postings
  BY Carried
<1>2. TypeOK'
  BY <1>1 DEF TypeOK, SyncDone, Goto, tables, session, Labels
<1>3. Alone(t)
  BY <1>1, NullsAssumption DEF TypeOK, Alone, SyncDone, Goto, tables, session
<1>4. wApp[t] = Nil /\ upLock[P(t)] = t
  BY DEF Holds, Deciding
<1>5. /\ Cmd(t)' = Cmd(t) /\ P(t)' = P(t) /\ pc'[t] = "commit" /\ upLock' = upLock
      /\ Cmd(t) \notin RowCommands
  BY DEF TypeOK, SyncDone, Goto, session, G, Cmd, P
<1>6. wApp'[t] = Nil \/ appLock'[P(t)] = t
  BY <1>1, <1>4 DEF TypeOK
<1>7. (Staged(t) /\ Holds(t))'
  BY <1>4, <1>5, <1>6 DEF Staged, Holds, Deciding
<1> QED BY <1>2, <1>3, <1>7, AloneKeeps

(* A step that only moves on. *)
LEMMA GotoKeeps ==
  ASSUME LockInv, NEW t \in Txns, NEW label \in Labels, Goto(t, label),
         UNCHANGED <<tables, gest, clock, session, res, reply, writes, locks>>,
         (Staged(t) /\ Holds(t))', pc[t] # "idle"
  PROVE  LockInv'
<1> USE DEF LockInv
<1>1. TypeOK'
  BY DEF TypeOK, Goto, tables, session, writes, locks
<1>2. Alone(t)
  BY DEF TypeOK, Alone, Goto, tables, session, writes, locks
<1> QED BY <1>1, <1>2, AloneKeeps

LEMMA TriageKeeps ==
  ASSUME LockInv, NEW t \in Txns, TriageStep(t)
  PROVE  LockInv'
<1> USE DEF LockInv
<1>1. CASE LockPosting(t)
  BY <1>1, LockPostingKeeps
<1>2. CASE AppSetTriage(t)
  <2>1. up[P(t)] \in Results /\ pc[t] = "check" /\ Cmd(t) \in TriageCommands
    BY <1>2, Carried DEF AppSetTriage, TypeOK, Results
  <2>2. "conflict" \in Replies
    BY DEF Replies
  <2> QED
    BY <1>2, <2>1, <2>2, AnswerStoredKeeps, AnswerUnchangedKeeps, FailKeeps, WriteChoiceKeeps
    DEF AppSetTriage
<1>3. CASE HqDigestSetTriage(t)
  <2>1. up[P(t)] \in Results /\ pc[t] = "check" /\ Cmd(t) \in TriageCommands
    BY <1>3, Carried DEF HqDigestSetTriage, TypeOK, Results
  <2>2. "gone" \in Replies
    BY DEF Replies
  <2> QED
    BY <1>3, <2>1, <2>2, AnswerStoredKeeps, AnswerUnchangedKeeps, FailKeeps, WriteChoiceKeeps
    DEF HqDigestSetTriage
<1>4. CASE FindApplication(t)
  <2>1. pc[t] = "sync" /\ Cmd(t) \in TriageCommands
    BY <1>4 DEF FindApplication, Staged
  <2>2. CASE SyncDone(t, Nil) /\ UNCHANGED <<wApp, appLock>>
    BY <2>1, <2>2, SyncDoneKeeps
  <2>3. CASE /\ Goto(t, "insert")
             /\ UNCHANGED <<tables, gest, clock, session, res, reply, writes, locks>>
    <3>1. (Staged(t) /\ Holds(t))'
      BY <2>1, <2>3 DEF TypeOK, Staged, Holds, Deciding, Goto, tables, session, writes, locks,
                        G, Cmd, P
    <3> QED BY <2>1, <2>3, <3>1, GotoKeeps DEF Labels
  <2> QED BY <1>4, <2>2, <2>3 DEF FindApplication
<1>5. CASE QueueApplication(t)
  <2>1. pc[t] = "insert" /\ Cmd(t) \in TriageCommands
    BY <1>5 DEF QueueApplication
  <2>2. CASE Fail(t, "unique_violation")
    BY <2>1, <2>2, FailKeeps DEF Replies
  <2>3. CASE ~Fail(t, "unique_violation")
    <3> DEFINE row == [id |-> now[t], status |-> "Queued", actor |-> "system", sugg |-> "",
                       next |-> "", seen |-> "", notes |-> {}, ver |-> now[t]]
    <3>1. row \in AppRows
      BY BlanksAssumption DEF TypeOK, AppRows, Actors
    <3> QED BY <1>5, <2>1, <2>3, <3>1, SyncDoneKeeps DEF QueueApplication
  <2> QED BY <2>2, <2>3
<1>6. CASE UnqueueApplication(t)
  <2>1. pc[t] = "sync" /\ Cmd(t) \in TriageCommands
    BY <1>6 DEF UnqueueApplication, Staged
  <2> QED BY <1>6, <2>1, SyncDoneKeeps DEF UnqueueApplication
<1> QED BY <1>1, <1>2, <1>3, <1>4, <1>5, <1>6 DEF TriageStep

-----------------------------------------------------------------------------
(* The pipeline page. *)
LEMMA LockApplicationKeeps ==
  ASSUME LockInv, NEW t \in Txns, LockApplication(t)
  PROVE  LockInv'
<1> USE DEF LockInv
<1>1. P(t) \in Postings /\ pc[t] = "lock" /\ Cmd(t) \in RowCommands
  BY Carried DEF LockApplication
<1>2. CASE Fail(t, "gone")
  BY <1>1, <1>2, FailKeeps DEF Replies
<1>3. CASE ~Fail(t, "gone")
  <2>1. /\ app[P(t)] # Nil /\ appLock[P(t)] = NoTx
        /\ appLock' = [appLock EXCEPT ![P(t)] = t]
        /\ Goto(t, "check")
        /\ UNCHANGED <<tables, gest, clock, session, res, reply, writes, upLock>>
    BY <1>3 DEF LockApplication
  <2>2. TypeOK'
    BY <1>1, <2>1 DEF TypeOK, Goto, tables, session, writes, Labels
  <2>3. Alone(t)
    BY <1>1, <2>1, NullsAssumption DEF TypeOK, Alone, Goto, tables, session, writes
  <2>4. wApp[t] = Nil
    BY <1>1 DEF Holds
  <2>5. (Staged(t) /\ Holds(t))'
    BY <1>1, <2>1, <2>4
    DEF TypeOK, Staged, Holds, Deciding, Goto, tables, session, writes, G, Cmd, P
  <2> QED BY <2>2, <2>3, <2>5, AloneKeeps
<1> QED BY <1>2, <1>3

LEMMA WriteApplicationKeeps ==
  ASSUME LockInv, NEW t \in Txns, pc[t] = "check", Cmd(t) \in RowCommands,
         NEW row \in AppRows, NEW kind, NEW to, WriteApplication(t, row, kind, to)
  PROVE  LockInv'
<1> USE DEF LockInv
<1>1. TypeOK'
  BY DEF TypeOK, WriteApplication, Goto, tables, session, locks, Labels, Results
<1>2. Alone(t)
  BY DEF TypeOK, Alone, WriteApplication, Goto, tables, session, locks
<1>3. /\ Cmd(t)' = Cmd(t) /\ P(t)' = P(t) /\ pc'[t] = "commit"
      /\ appLock'[P(t)] = t /\ Cmd(t) \notin TriageCommands
  BY DEF TypeOK, WriteApplication, Goto, session, locks, G, Cmd, P, Holds, Deciding
<1>4. (Staged(t) /\ Holds(t))'
  BY <1>3 DEF Staged, Holds, Deciding
<1> QED BY <1>1, <1>2, <1>4, AloneKeeps

(* The row a command about an application has locked. *)
LEMMA LockedRow ==
  ASSUME LockInv, NEW t \in Txns, pc[t] = "check", Cmd(t) \in RowCommands
  PROVE  app[P(t)] \in AppRows /\ now[t] \in Nat /\ key[t] \in Keys
<1>1. P(t) \in Postings /\ key[t] \in Keys
  BY Carried DEF LockInv
<1> QED BY <1>1 DEF LockInv, TypeOK, Holds

LEMMA StatusKeeps ==
  ASSUME LockInv, NEW t \in Txns, AppSetStatus(t)
  PROVE  LockInv'
<1> DEFINE row == app[P(t)]
           g   == G(t).arg
           new == [row EXCEPT !.status = g.status, !.actor = "user", !.sugg = "",
                              !.ver = now[t],
                              !.notes = IF g.note THEN @ \cup {key[t]} ELSE @]
<1>1. pc[t] = "check" /\ Cmd(t) = "app_set_status"
  BY DEF AppSetStatus
<1>2. row \in AppRows /\ now[t] \in Nat /\ key[t] \in Keys
  BY <1>1, LockedRow
<1>3. g.status \in Statuses /\ g.note \in BOOLEAN
  BY <1>1, Arguments DEF LockInv
<1>4. new \in AppRows
  BY <1>2, <1>3 DEF AppRows, Actors
<1>5. row \in Results /\ {"reopen", "conflict"} \subseteq Replies
  BY <1>2 DEF Results, Replies
<1>6. \/ AnswerStored(t) \/ Fail(t, "reopen") \/ AnswerUnchanged(t, row) \/ Fail(t, "conflict")
      \/ WriteApplication(t, new, "status", g.status)
  BY DEF AppSetStatus
<1> QED
  BY <1>1, <1>4, <1>5, <1>6, AnswerStoredKeeps, AnswerUnchangedKeeps, FailKeeps,
     WriteApplicationKeeps

LEMMA ResolveKeeps ==
  ASSUME LockInv, NEW t \in Txns, AppResolveSuggestion(t)
  PROVE  LockInv'
<1> DEFINE row       == app[P(t)]
           confirmed == [row EXCEPT !.status = row.sugg, !.actor = "user", !.sugg = "",
                                    !.ver = now[t]]
           rejected  == [row EXCEPT !.sugg = "", !.ver = now[t]]
<1>1. pc[t] = "check" /\ Cmd(t) = "app_resolve_suggestion"
  BY DEF AppResolveSuggestion
<1>2. row \in AppRows /\ now[t] \in Nat
  BY <1>1, LockedRow
<1>3. row.sugg # "" => confirmed \in AppRows
  BY <1>2 DEF AppRows, Actors
<1>4. rejected \in AppRows
  BY <1>2 DEF AppRows, Actors
<1>5. row \in Results /\ "conflict" \in Replies
  BY <1>2 DEF Results, Replies
<1>6. \/ AnswerStored(t) \/ AnswerUnchanged(t, row) \/ Fail(t, "conflict")
      \/ row.sugg # "" /\ WriteApplication(t, confirmed, "confirmed", row.sugg)
      \/ WriteApplication(t, rejected, "rejected", row.sugg)
  BY DEF AppResolveSuggestion
<1> QED
  BY <1>1, <1>3, <1>4, <1>5, <1>6, AnswerStoredKeeps, AnswerUnchangedKeeps, FailKeeps,
     WriteApplicationKeeps

LEMMA NoteKeeps ==
  ASSUME LockInv, NEW t \in Txns, AppAddNote(t)
  PROVE  LockInv'
<1> DEFINE row == app[P(t)]
           new == [row EXCEPT !.notes = @ \cup {key[t]}]
<1>1. pc[t] = "check" /\ Cmd(t) = "app_add_note"
  BY DEF AppAddNote
<1>2. row \in AppRows /\ key[t] \in Keys
  BY <1>1, LockedRow
<1>3. new \in AppRows
  BY <1>2 DEF AppRows
<1>4. AnswerStored(t) \/ WriteApplication(t, new, "note", "")
  BY DEF AppAddNote
<1> QED BY <1>1, <1>3, <1>4, AnswerStoredKeeps, WriteApplicationKeeps

LEMMA NextActionKeeps ==
  ASSUME LockInv, NEW t \in Txns, AppSetNextAction(t)
  PROVE  LockInv'
<1> DEFINE row == app[P(t)]
           n   == G(t).arg.next
           new == [row EXCEPT !.next = n, !.ver = now[t]]
<1>1. pc[t] = "check" /\ Cmd(t) = "app_set_next_action"
  BY DEF AppSetNextAction
<1>2. row \in AppRows /\ now[t] \in Nat
  BY <1>1, LockedRow
<1>3. n \in Nexts
  BY <1>1, Arguments DEF LockInv
<1>4. new \in AppRows
  BY <1>2, <1>3 DEF AppRows
<1>5. row \in Results /\ "conflict" \in Replies
  BY <1>2 DEF Results, Replies
<1>6. \/ AnswerStored(t) \/ AnswerUnchanged(t, row) \/ Fail(t, "conflict")
      \/ WriteApplication(t, new, "next", n)
  BY DEF AppSetNextAction
<1> QED
  BY <1>1, <1>4, <1>5, <1>6, AnswerStoredKeeps, AnswerUnchangedKeeps, FailKeeps,
     WriteApplicationKeeps

-----------------------------------------------------------------------------
(* The email lane. *)
LEMMA EmailOutcomeRange ==
  ASSUME NEW status, NEW actor, NEW signal
  PROVE  /\ EmailOutcome(status, actor, signal) \in EmailOutcomes
         /\ EmailOutcome(status, actor, signal) = "advanced" => signal.status # ""
  BY DEF EmailOutcome, EmailOutcomes

LEMMA NoteUnappliedKeeps ==
  ASSUME LockInv, NEW t \in Txns, pc[t] = "lock", Cmd(t) = EmailCommand, NoteUnapplied(t)
  PROVE  LockInv'
<1> USE DEF LockInv
<1>1. TypeOK'
  BY DEF TypeOK, NoteUnapplied, Goto, tables, session, locks, Labels
<1>2. Alone(t)
  BY DEF TypeOK, Alone, NoteUnapplied, Goto, tables, session, locks
<1>3. Cmd(t)' = Cmd(t) /\ pc'[t] = "noted" /\ wApp' = wApp
  BY DEF TypeOK, NoteUnapplied, Goto, session, G, Cmd
<1>4. wApp[t] = Nil
  BY DEF Holds
<1>5. (Staged(t) /\ Holds(t))'
  BY <1>3, <1>4 DEF Staged, Holds, Deciding
<1> QED BY <1>1, <1>2, <1>5, AloneKeeps

LEMMA LockFoundKeeps ==
  ASSUME LockInv, NEW t \in Txns, pc[t] \in {"lock", "again"}, Cmd(t) = EmailCommand,
         LockFound(t)
  PROVE  LockInv'
<1> USE DEF LockInv
<1>1. P(t) \in Postings
  BY Carried
<1>2. TypeOK'
  BY <1>1 DEF TypeOK, LockFound, Goto, tables, session, writes, Labels
<1>3. Alone(t)
  BY <1>1, NullsAssumption DEF TypeOK, Alone, LockFound, Goto, tables, session, writes
<1>4. Cmd(t)' = Cmd(t) /\ pc'[t] = "check" /\ wApp[t] = Nil /\ wApp'[t] = Nil
  BY DEF TypeOK, LockFound, Goto, session, writes, G, Cmd, P, Holds
<1>5. (Staged(t) /\ Holds(t))'
  BY <1>4 DEF Staged, Holds, Deciding
<1> QED BY <1>2, <1>3, <1>5, AloneKeeps

(* A step of an email that only moves on has written nothing. *)
LEMMA EmailGotoKeeps ==
  ASSUME LockInv, NEW t \in Txns, pc[t] \in {"lock", "insert", "again"},
         Cmd(t) = EmailCommand, NEW label \in {"insert", "again", "check"}, Goto(t, label),
         UNCHANGED <<tables, gest, clock, session, res, reply, writes, locks>>
  PROVE  LockInv'
<1> USE DEF LockInv
<1>1. Cmd(t)' = Cmd(t) /\ pc'[t] = label /\ wApp[t] = Nil /\ wApp'[t] = Nil
  BY DEF TypeOK, Goto, session, writes, G, Cmd, P, Holds
<1>2. (Staged(t) /\ Holds(t))'
  BY <1>1 DEF Staged, Holds, Deciding
<1> QED BY <1>2, GotoKeeps DEF Labels

LEMMA EmailFindKeeps ==
  ASSUME LockInv, NEW t \in Txns, EmailFind(t)
  PROVE  LockInv'
<1>1. pc[t] = "lock" /\ Cmd(t) = EmailCommand
  BY DEF EmailFind
<1> QED
  BY <1>1, NoteUnappliedKeeps, LockFoundKeeps, EmailGotoKeeps DEF EmailFind

LEMMA EmailInsertKeeps ==
  ASSUME LockInv, NEW t \in Txns, EmailInsert(t)
  PROVE  LockInv'
<1> USE DEF LockInv
<1>1. P(t) \in Postings /\ pc[t] = "insert" /\ Cmd(t) = EmailCommand
  BY Carried DEF EmailInsert
<1> DEFINE row == [id |-> now[t], status |-> "Inbox", actor |-> "system", sugg |-> "",
                   next |-> "", seen |-> G(t).arg.stamp, notes |-> {}, ver |-> now[t]]
<1>2. CASE /\ Goto(t, "again")
           /\ UNCHANGED <<tables, gest, clock, session, res, reply, writes, locks>>
  BY <1>1, <1>2, EmailGotoKeeps
<1>3. CASE /\ app[P(t)] = Nil /\ appLock[P(t)] = NoTx
           /\ appLock' = [appLock EXCEPT ![P(t)] = t]
           /\ wApp' = [wApp EXCEPT ![t] = row]
           /\ Goto(t, "check")
           /\ UNCHANGED <<tables, gest, clock, session, res, reply, wUp, wEv, upLock>>
  <2>1. row \in AppRows
    <3>1. G(t).arg \in Signals
      BY <1>1, Arguments
    <3> QED BY <3>1, SignalsAssumption, BlanksAssumption DEF TypeOK, AppRows, Actors
  <2>2. TypeOK'
    BY <1>1, <1>3, <2>1 DEF TypeOK, Goto, tables, session, Labels
  <2>3. Alone(t)
    BY <1>1, <1>3, NullsAssumption DEF TypeOK, Alone, Goto, tables, session
  <2>4. /\ Cmd(t)' = Cmd(t) /\ P(t)' = P(t) /\ pc'[t] = "check"
        /\ wApp'[t] = row /\ appLock'[P(t)] = t
    BY <1>1, <1>3 DEF TypeOK, Goto, session, G, Cmd, P
  <2>5. (Staged(t) /\ Holds(t))'
    BY <1>1, <2>1, <2>4 DEF Staged, Holds, Deciding, AppRows
  <2> QED BY <2>2, <2>3, <2>5, AloneKeeps
<1> QED BY <1>2, <1>3 DEF EmailInsert

LEMMA EmailFindAgainKeeps ==
  ASSUME LockInv, NEW t \in Txns, EmailFindAgain(t)
  PROVE  LockInv'
<1>1. pc[t] = "again" /\ Cmd(t) = EmailCommand
  BY DEF LockInv, EmailFindAgain, Staged
<1> QED BY <1>1, LockFoundKeeps, EmailGotoKeeps DEF EmailFindAgain

(* What an email makes of a row is a row. *)
LEMMA EmailWriteRow ==
  ASSUME LockInv, NEW t \in Txns, pc[t] = "check", Cmd(t) = EmailCommand,
         NEW row \in AppRows, NEW outcome \in EmailOutcomes,
         outcome = "advanced" => G(t).arg.status # ""
  PROVE  EmailWrite(t, row, outcome) \in AppRows
<1>1. /\ G(t).arg.status \in Statuses \cup {""} /\ G(t).arg.stamp \in Stamps
      /\ now[t] \in Nat
  BY Arguments, SignalsAssumption DEF LockInv, TypeOK
<1> QED BY <1>1 DEF AppRows, EmailWrite

(* An email decided, with a row to write or none. *)
LEMMA DecidedKeeps ==
  ASSUME LockInv, NEW t \in Txns, pc[t] = "check", Cmd(t) = EmailCommand,
         NEW after \in AppRows \cup {Nil}, after # Nil => appLock[P(t)] = t,
         NEW answer \in Results,
         wApp' = [wApp EXCEPT ![t] = after],
         res' = [res EXCEPT ![t] = answer],
         Goto(t, "commit"),
         UNCHANGED <<tables, gest, clock, session, reply, wUp, locks>>
  PROVE  LockInv'
<1> USE DEF LockInv
<1>1. TypeOK'
  BY DEF TypeOK, Goto, tables, session, locks, Labels
<1>2. Alone(t)
  BY DEF TypeOK, Alone, Goto, tables, session, locks
<1>3. /\ Cmd(t)' = Cmd(t) /\ P(t)' = P(t) /\ pc'[t] = "commit"
      /\ wApp'[t] = after /\ appLock' = appLock
  BY DEF TypeOK, Goto, session, locks, G, Cmd, P
<1>4. (Staged(t) /\ Holds(t))'
  BY <1>3 DEF Staged, Holds, Deciding
<1> QED BY <1>1, <1>2, <1>4, AloneKeeps

LEMMA HqApplyEmailEventKeeps ==
  ASSUME LockInv, NEW t \in Txns, HqApplyEmailEvent(t)
  PROVE  LockInv'
<1> USE DEF LockInv
<1> DEFINE row     == EmailRow(t)
           outcome == IF row = Nil THEN EmailOutcome("", "", G(t).arg)
                      ELSE EmailOutcome(row.status, row.actor, G(t).arg)
           after   == IF row = Nil THEN Nil ELSE EmailWrite(t, row, outcome)
           answer  == EmailResult(outcome, after)
<1>1. P(t) \in Postings /\ pc[t] = "check" /\ Cmd(t) = EmailCommand
  BY Carried DEF HqApplyEmailEvent
<1>2. row \in AppRows \cup {Nil}
  BY <1>1 DEF TypeOK, Holds, EmailRow
<1>3. outcome \in EmailOutcomes /\ (outcome = "advanced" => G(t).arg.status # "")
  BY EmailOutcomeRange
<1>4. after \in AppRows \cup {Nil}
  BY <1>1, <1>2, <1>3, EmailWriteRow
<1>5. row # Nil => appLock[P(t)] = t
  BY <1>1 DEF EmailRow, Holds
<1>6. CASE AnswerStored(t)
  BY <1>1, <1>6, AnswerStoredKeeps
<1>7. CASE Fail(t, "claimed")
  BY <1>1, <1>7, FailKeeps DEF Replies
<1>8. CASE /\ wApp' = [wApp EXCEPT ![t] = after]
           /\ res' = [res EXCEPT ![t] = answer]
           /\ Goto(t, "commit")
           /\ UNCHANGED <<tables, gest, clock, session, reply, wUp, locks>>
  <2>1. answer \in Results
    <3>1. answer \in EmailResults
      BY <1>3, <1>4 DEF EmailResult, EmailResults, AppRows
    <3> QED BY <3>1 DEF Results
  <2>2. after # Nil => appLock[P(t)] = t
    BY <1>5
  <2> HIDE DEF row, outcome, after, answer
  <2> QED BY <1>1, <1>4, <1>8, <2>1, <2>2, DecidedKeeps
<1> QED BY <1>6, <1>7, <1>8 DEF HqApplyEmailEvent

LEMMA CommitUnappliedKeeps ==
  ASSUME LockInv, NEW t \in Txns, CommitUnapplied(t)
  PROVE  LockInv'
<1> USE DEF LockInv
<1>1. TypeOK'
  BY DEF TypeOK, CommitUnapplied, Goto, DropWrites, session, locks, Labels, Replies
<1>2. Alone(t)
  BY DEF TypeOK, Alone, CommitUnapplied, Goto, DropWrites, session, locks
<1>3. (Staged(t) /\ Holds(t))'
  BY DEF TypeOK, Staged, Holds, Deciding, CommitUnapplied, Goto, DropWrites
<1> QED BY <1>1, <1>2, <1>3, AloneKeeps

LEMMA PipelineKeeps ==
  ASSUME LockInv, NEW t \in Txns, PipelineStep(t)
  PROVE  LockInv'
  BY LockApplicationKeeps, StatusKeeps, ResolveKeeps, NoteKeeps, NextActionKeeps,
     EmailFindKeeps, EmailInsertKeeps, EmailFindAgainKeeps, HqApplyEmailEventKeeps,
     CommitUnappliedKeeps
  DEF PipelineStep

-----------------------------------------------------------------------------
(* The end of a transaction. *)
LEMMA CommitKeeps ==
  ASSUME LockInv, NEW t \in Txns, Commit(t)
  PROVE  LockInv'
<1> USE DEF LockInv
<1>1. /\ P(t) \in Postings /\ key[t] \in Keys /\ Cmd(t) \in CommandNames
      /\ pc[t] = "commit"
  BY Carried DEF Commit
<1>2. TypeOK'
  <2>1. up' \in [Postings -> UpRows]
    BY <1>1 DEF TypeOK, Commit
  <2>2. app' \in [Postings -> AppRows \cup {Nil}]
    BY <1>1 DEF TypeOK, Commit
  <2>3. idem' \in [Keys -> Answers \cup {Nil}]
    <3>1. [cmd |-> Cmd(t), res |-> res[t]] \in Answers
      BY <1>1 DEF TypeOK, Answers
    <3> QED BY <1>1, <3>1 DEF TypeOK, Commit
  <2>4. /\ board' = board /\ gest' = gest /\ clock' = clock /\ key' = key /\ now' = now
        /\ res' = res
    BY DEF Commit, session
  <2>5. pc' \in [Txns -> Labels] /\ reply' \in [Txns -> Replies]
    BY DEF TypeOK, Commit, Goto, Labels, Replies
  <2>6. wUp' \in [Txns -> UpRows \cup {Nil}] /\ wApp' \in [Txns -> AppRows \cup {Nil, Gone}]
    BY DEF TypeOK, Commit, DropWrites
  <2>7. /\ upLock' \in [Postings -> Txns \cup {NoTx}]
        /\ appLock' \in [Postings -> Txns \cup {NoTx}]
    BY DEF TypeOK, Commit, Release
  <2>8. \A u \in Txns : pc'[u] # "idle" => key'[u] \in Keys /\ gest'[key'[u]] # Nil
    BY <1>1, <2>4 DEF TypeOK, Commit, Goto
  <2>9. /\ gest' \in [Keys -> Gestures \cup {Nil}] /\ key' \in [Txns -> Keys \cup {Nil}]
        /\ board' \in [Postings -> {"absent", "open", "Closed"}] /\ clock' \in Nat
        /\ now' \in [Txns -> Nat] /\ res' \in [Txns -> Results]
    BY <2>4 DEF TypeOK
  <2> HIDE DEF LockInv
  <2> QED BY <2>1, <2>2, <2>3, <2>5, <2>6, <2>7, <2>8, <2>9 DEF TypeOK
<1>3. Alone(t)
  <2>1. \A p \in Postings, u \in Txns \ {t} : appLock[p] = u => app'[p] = app[p]
    BY <1>1 DEF TypeOK, Holds, Commit
  <2> QED
    BY <2>1 DEF TypeOK, Alone, Commit, Goto, Release, DropWrites, session
<1>4. (Staged(t) /\ Holds(t))'
  BY DEF TypeOK, Staged, Holds, Deciding, Commit, Goto, DropWrites
<1> QED BY <1>2, <1>3, <1>4, AloneKeeps

LEMMA StutterKeeps ==
  ASSUME LockInv, UNCHANGED vars
  PROVE  LockInv'
<1> USE DEF LockInv, vars, tables, session, writes, locks
<1>1. TypeOK'
  BY DEF TypeOK
<1>2. ASSUME NEW u \in Txns PROVE (Staged(u) /\ Holds(u))'
  BY Bystander
<1> QED BY <1>1, <1>2

LEMMA NextLockInv ==
  ASSUME LockInv, [Next]_vars
  PROVE  LockInv'
<1>1. CASE Call
  BY <1>1, MintKeeps, DeliverKeeps DEF Call
<1>2. ASSUME NEW t \in Txns, Serve(t)
      PROVE  LockInv'
  BY <1>2, TriageKeeps, PipelineKeeps, CommitKeeps DEF Serve
<1>3. ASSUME NEW t \in Txns, Lose(t)
      PROVE  LockInv'
  BY <1>3, FailKeeps DEF Lose, Replies
<1>4. ASSUME NEW p \in Swept, Sweep(p)
      PROVE  LockInv'
  BY <1>4, SweepKeeps, SweptAssumption
<1>5. CASE UNCHANGED vars
  BY <1>5, StutterKeeps
<1> QED BY <1>1, <1>2, <1>3, <1>4, <1>5 DEF Next, AllServed

(* Every value stays in its type and every command holds the rows it is    *)
(* deciding about, from the read to the commit.                            *)
THEOREM LocksHeld == Spec => []LockInv
<1>1. LockInv /\ [Next]_vars => LockInv'
  BY NextLockInv
<1> QED BY InitLockInv, <1>1, PTL DEF Spec

(* Every reachable state is one the tables, the protocol and the replies   *)
(* of the RPCs have a name for, for any number of transactions, keys and   *)
(* postings.                                                               *)
THEOREM TypeCorrect == Spec => []TypeOK
<1>1. LockInv => TypeOK
  BY DEF LockInv
<1> QED BY LocksHeld, <1>1, PTL

-----------------------------------------------------------------------------
(***************************************************************************)
(* One idempotency key takes effect at most once, for every number of      *)
(* deliveries, keys and postings, in every interleaving of the commands.   *)
(*                                                                         *)
(* The argument: a command that has decided to write looked its key up     *)
(* while it held the row, and holds the row until it commits (LockInv).    *)
(* Two deliveries of one key are about the same row, so they cannot both   *)
(* be pending; and once one has committed an effect the key has an answer, *)
(* so no other becomes pending.                                            *)
(***************************************************************************)

LEMMA InitOnceInv == Init => OnceInv
<1> SUFFICES ASSUME Init PROVE OnceInv
  OBVIOUS
<1>1. TrailOK
  BY DEF Init, TrailOK
<1>2. Len(events) = 0
  BY DEF Init
<1>3. AppliedOnce /\ \A k \in Keys : ~Applied(k)
  BY <1>2 DEF AppliedOnce, Applied
<1>4. \A t \in Txns : Buffered(t)
  BY DEF Init, Buffered, Pending
<1> QED BY <1>1, <1>3, <1>4 DEF OnceInv

(* A step of t that appends nothing to the trail, answers no key and       *)
(* leaves the other transactions as they were.                             *)
LEMMA QuietKeeps ==
  ASSUME LockInv, OnceInv, NEW t \in Txns, Alone(t),
         events' = events, idem' = idem, TrailOK',
         \A u \in Txns \ {t} : wEv'[u] = wEv[u],
         Buffered(t)'
  PROVE  OnceInv'
<1>1. AppliedOnce'
  BY DEF OnceInv, AppliedOnce
<1>2. \A k \in Keys : Applied(k)' => idem'[k] # Nil
  BY DEF OnceInv, Applied
<1>3. ASSUME NEW u \in Txns, u # t
      PROVE  Buffered(u)'
  <2>1. pc'[u] = pc[u] /\ key'[u] = key[u] /\ wEv'[u] = wEv[u] /\ gest' = gest
    BY <1>3 DEF Alone
  <2>2. Cmd(u)' = Cmd(u) /\ P(u)' = P(u)
    BY <2>1 DEF G, Cmd, P
  <2>3. (Pending(u)' <=> Pending(u)) /\ (Applied(key[u])' <=> Applied(key[u]))
    BY <2>1, <2>2 DEF Pending, Applied
  <2>4. Pending(u) => P(u) \in Postings
    BY Carried DEF Pending, LockInv
  <2>5. Pending(u) /\ Cmd(u) = EmailCommand => appLock'[P(u)] = u
    BY <1>3, <2>4 DEF OnceInv, Buffered, Alone
  <2> QED
    BY <2>1, <2>2, <2>3, <2>5 DEF OnceInv, Buffered, Applied
<1> QED BY <1>1, <1>2, <1>3 DEF OnceInv

(* A transaction that is not about to commit has buffered no event, and    *)
(* one that buffers nothing keeps the trail's types.                       *)
LEMMA NothingBuffered ==
  ASSUME OnceInv, NEW t \in Txns, pc[t] \notin {"commit", "noted"}
  PROVE  wEv[t] = Nil
  BY DEF OnceInv, Buffered

(* A key with no answer has had no effect. *)
LEMMA Unanswered ==
  ASSUME LockInv, OnceInv, NEW t \in Txns, pc[t] # "idle", ~Hit(t)
  PROVE  ~Applied(key[t])
  BY Carried DEF LockInv, OnceInv, Hit

LEMMA FailOnce ==
  ASSUME LockInv, OnceInv, NEW t \in Txns, NEW code, Fail(t, code)
  PROVE  OnceInv'
<1>1. Alone(t)
  BY DEF LockInv, TypeOK, Alone, Fail, Release, DropWrites, tables, session
<1>2. TrailOK'
  BY DEF OnceInv, TrailOK, Fail, DropWrites, tables
<1>3. Buffered(t)'
  BY DEF LockInv, TypeOK, OnceInv, TrailOK, Buffered, Pending, Fail, DropWrites
<1>4. \A u \in Txns \ {t} : wEv'[u] = wEv[u]
  BY DEF OnceInv, TrailOK, Fail, DropWrites
<1> QED BY <1>1, <1>2, <1>3, <1>4, QuietKeeps DEF Fail, tables

(* A step from a row in hand, or from nothing, to a label at which nothing *)
(* is pending.                                                             *)
LEMMA MoveOnce ==
  ASSUME LockInv, OnceInv, NEW t \in Txns, Alone(t), pc[t] \notin {"commit", "noted"},
         NEW label, label \notin {"sync", "insert"}, Goto(t, label),
         events' = events, idem' = idem, wEv' = wEv
  PROVE  OnceInv'
<1>1. TrailOK'
  BY DEF OnceInv, TrailOK
<1>2. pc'[t] = label
  BY DEF LockInv, TypeOK, Goto
<1>3. Buffered(t)'
  BY <1>2, NothingBuffered DEF Buffered, Pending
<1> QED BY <1>1, <1>3, QuietKeeps

LEMMA AnswerStoredOnce ==
  ASSUME LockInv, OnceInv, NEW t \in Txns, pc[t] = "check", AnswerStored(t)
  PROVE  OnceInv'
<1>1. Alone(t)
  BY DEF LockInv, TypeOK, Alone, AnswerStored, Goto, tables, session, writes, locks
<1> QED BY <1>1, MoveOnce DEF AnswerStored, tables, writes

LEMMA AnswerUnchangedOnce ==
  ASSUME LockInv, OnceInv, NEW t \in Txns, pc[t] = "check", NEW row, AnswerUnchanged(t, row)
  PROVE  OnceInv'
<1>1. Alone(t)
  BY DEF LockInv, TypeOK, Alone, AnswerUnchanged, Goto, tables, session, writes, locks
<1> QED BY <1>1, MoveOnce DEF AnswerUnchanged, tables, writes

-----------------------------------------------------------------------------
(* Calls and the sweep. *)
LEMMA OutsideOnce ==
  ASSUME LockInv, OnceInv,
         UNCHANGED <<app, events, idem, pc, session, writes, locks>>,
         \A u \in Txns : pc[u] # "idle" => gest'[key[u]] = gest[key[u]]
  PROVE  OnceInv'
<1> USE DEF session, writes, locks
<1>1. TrailOK' /\ AppliedOnce' /\ \A k \in Keys : Applied(k)' => idem'[k] # Nil
  BY DEF OnceInv, TrailOK, AppliedOnce, Applied
<1>2. ASSUME NEW u \in Txns PROVE Buffered(u)'
  <2>1. pc[u] # "idle" => Cmd(u)' = Cmd(u) /\ P(u)' = P(u)
    BY DEF G, Cmd, P
  <2>2. (Pending(u)' <=> Pending(u)) /\ (Applied(key[u])' <=> Applied(key[u]))
    BY <2>1 DEF Pending, Applied
  <2>3. Pending(u) => pc[u] # "idle"
    BY DEF Pending
  <2> QED BY <2>1, <2>2, <2>3 DEF OnceInv, Buffered, Applied
<1> QED BY <1>1, <1>2 DEF OnceInv

LEMMA MintOnce ==
  ASSUME LockInv, OnceInv, NEW k \in Keys, NEW g, Mint(k, g)
  PROVE  OnceInv'
<1>1. \A u \in Txns : pc[u] # "idle" => gest'[key[u]] = gest[key[u]]
  BY DEF LockInv, TypeOK, Mint
<1> QED BY <1>1, OutsideOnce DEF Mint, tables

LEMMA DeliverOnce ==
  ASSUME LockInv, OnceInv, NEW t \in Txns, NEW k \in Keys, Deliver(t, k)
  PROVE  OnceInv'
<1>1. Alone(t)
  BY DEF LockInv, TypeOK, Alone, Deliver, Goto, tables, writes, locks
<1>2. pc[t] = "idle" /\ events' = events /\ idem' = idem /\ wEv' = wEv
  BY DEF Deliver, tables, writes
<1>3. Goto(t, "lock") \/ Goto(t, "done")
  BY DEF Deliver
<1> QED BY <1>1, <1>2, <1>3, MoveOnce

-----------------------------------------------------------------------------
(* Triage. *)
LEMMA LockPostingOnce ==
  ASSUME LockInv, OnceInv, NEW t \in Txns, LockPosting(t)
  PROVE  OnceInv'
<1>1. P(t) \in Postings
  BY Carried DEF LockPosting, LockInv
<1>2. Alone(t)
  BY <1>1, NullsAssumption
  DEF LockInv, TypeOK, Alone, LockPosting, Goto, tables, session, writes
<1> QED BY <1>2, MoveOnce DEF LockPosting, tables, writes

LEMMA WriteChoiceOnce ==
  ASSUME LockInv, OnceInv, NEW t \in Txns, pc[t] = "check", Cmd(t) \in TriageCommands,
         ~Hit(t), WriteChoice(t)
  PROVE  OnceInv'
<1>1. Alone(t)
  BY DEF LockInv, TypeOK, Alone, WriteChoice, Goto, tables, session, locks
<1>2. events' = events /\ idem' = idem /\ wEv' = wEv /\ key' = key
  BY DEF WriteChoice, tables, session
<1>3. TrailOK'
  BY <1>2 DEF OnceInv, TrailOK
<1>4. Cmd(t)' = Cmd(t) /\ pc'[t] = "sync"
  BY DEF LockInv, TypeOK, WriteChoice, Goto, session, G, Cmd
<1>5. ~Applied(key[t])'
  BY <1>2, Unanswered DEF Applied
<1>6. Buffered(t)'
  BY <1>2, <1>4, <1>5, NothingBuffered DEF Buffered
<1> QED BY <1>1, <1>2, <1>3, <1>6, QuietKeeps

LEMMA SyncDoneOnce ==
  ASSUME LockInv, OnceInv, NEW t \in Txns, pc[t] \in {"sync", "insert"},
         Cmd(t) \in TriageCommands, NEW appId \in Nat \cup {Nil}, SyncDone(t, appId), Alone(t)
  PROVE  OnceInv'
<1>1. TriageEvent(t, appId) \in EventRecords /\ TriageEvent(t, appId).key = key[t]
  BY Carried, Arguments DEF LockInv, TriageEvent, EventRecords, TriageEvents
<1>2. events' = events /\ idem' = idem /\ key' = key
  BY DEF SyncDone, tables, session
<1>3. TrailOK' /\ wEv'[t] = TriageEvent(t, appId)
  BY <1>1, <1>2 DEF OnceInv, TrailOK, SyncDone
<1>4. Cmd(t)' = Cmd(t) /\ pc'[t] = "commit"
  BY DEF LockInv, TypeOK, SyncDone, Goto, session, G, Cmd
<1>5. ~Applied(key[t])'
  BY <1>2 DEF OnceInv, Buffered, Pending, Applied
<1>6. Buffered(t)'
  BY <1>1, <1>2, <1>3, <1>4, <1>5 DEF Buffered
<1>7. \A u \in Txns \ {t} : wEv'[u] = wEv[u]
  BY DEF OnceInv, TrailOK, SyncDone
<1> QED BY <1>2, <1>3, <1>6, <1>7, QuietKeeps

LEMMA TriageOnce ==
  ASSUME LockInv, OnceInv, NEW t \in Txns, TriageStep(t)
  PROVE  OnceInv'
<1>1. CASE LockPosting(t)
  BY <1>1, LockPostingOnce
<1>2. CASE AppSetTriage(t)
  BY <1>2, AnswerStoredOnce, AnswerUnchangedOnce, FailOnce, WriteChoiceOnce DEF AppSetTriage
<1>3. CASE HqDigestSetTriage(t)
  BY <1>3, AnswerStoredOnce, AnswerUnchangedOnce, FailOnce, WriteChoiceOnce
  DEF HqDigestSetTriage
<1>4. CASE FindApplication(t)
  <2>1. pc[t] = "sync" /\ Cmd(t) \in TriageCommands
    BY <1>4 DEF FindApplication, LockInv, Staged
  <2>2. CASE SyncDone(t, Nil) /\ UNCHANGED <<wApp, appLock>>
    <3>1. Alone(t)
      BY <2>2 DEF LockInv, TypeOK, Alone, SyncDone, Goto, tables, session
    <3> QED BY <2>1, <2>2, <3>1, SyncDoneOnce
  <2>3. CASE /\ Goto(t, "insert")
             /\ UNCHANGED <<tables, gest, clock, session, res, reply, writes, locks>>
    <3>1. Alone(t)
      BY <2>3 DEF LockInv, TypeOK, Alone, Goto, tables, session, writes, locks
    <3>2. /\ events' = events /\ idem' = idem /\ wEv' = wEv /\ key' = key
          /\ pc'[t] = "insert"
      BY <2>3 DEF LockInv, TypeOK, Goto, tables, session, writes
    <3>3. TrailOK' /\ ~Applied(key[t])' /\ Cmd(t)' = Cmd(t)
      BY <2>1, <2>3, <3>2 DEF OnceInv, TrailOK, Buffered, Pending, Applied, G, Cmd
    <3>4. Buffered(t)'
      BY <2>1, <3>2, <3>3, NothingBuffered DEF Buffered
    <3> QED BY <3>1, <3>2, <3>3, <3>4, QuietKeeps
  <2> QED BY <1>4, <2>2, <2>3 DEF FindApplication
<1>5. CASE QueueApplication(t)
  <2>1. pc[t] = "insert" /\ Cmd(t) \in TriageCommands /\ P(t) \in Postings
    BY <1>5, Carried DEF QueueApplication, LockInv
  <2>2. CASE Fail(t, "unique_violation")
    BY <2>2, FailOnce
  <2>3. CASE ~Fail(t, "unique_violation")
    <3>1. now[t] \in Nat
      BY DEF LockInv, TypeOK
    <3>2. /\ appLock[P(t)] = NoTx /\ appLock' = [appLock EXCEPT ![P(t)] = t]
          /\ \E row : wApp' = [wApp EXCEPT ![t] = row]
          /\ SyncDone(t, now[t])
      BY <1>5, <2>3 DEF QueueApplication
    <3>3. Alone(t)
      BY <2>1, <3>2, NullsAssumption
      DEF LockInv, TypeOK, Alone, SyncDone, Goto, tables, session
    <3> QED BY <2>1, <3>1, <3>2, <3>3, SyncDoneOnce
  <2> QED BY <2>2, <2>3
<1>6. CASE UnqueueApplication(t)
  <2>1. pc[t] = "sync" /\ Cmd(t) \in TriageCommands /\ P(t) \in Postings
    BY <1>6, Carried DEF UnqueueApplication, LockInv, Staged
  <2>2. Alone(t)
    BY <1>6, <2>1, NullsAssumption
    DEF LockInv, TypeOK, Alone, UnqueueApplication, SyncDone, Goto, tables, session
  <2> QED BY <1>6, <2>1, <2>2, SyncDoneOnce DEF UnqueueApplication
<1> QED BY <1>1, <1>2, <1>3, <1>4, <1>5, <1>6 DEF TriageStep

-----------------------------------------------------------------------------
(* The pipeline page. *)
LEMMA LockApplicationOnce ==
  ASSUME LockInv, OnceInv, NEW t \in Txns, LockApplication(t)
  PROVE  OnceInv'
<1>1. P(t) \in Postings /\ pc[t] = "lock"
  BY Carried DEF LockInv, LockApplication
<1>2. CASE Fail(t, "gone")
  BY <1>2, FailOnce
<1>3. CASE ~Fail(t, "gone")
  <2>1. Alone(t)
    BY <1>1, <1>3, NullsAssumption
    DEF LockInv, TypeOK, Alone, LockApplication, Goto, tables, session, writes
  <2> QED BY <1>1, <1>3, <2>1, MoveOnce DEF LockApplication, tables, writes
<1> QED BY <1>2, <1>3

(* A decision written in one step: an event of its own, on a key that had  *)
(* no answer.                                                              *)
LEMMA DecisionOnce ==
  ASSUME LockInv, OnceInv, NEW t \in Txns, pc[t] = "check", ~Hit(t), Alone(t),
         NEW e \in EventRecords, e.key = key[t],
         Effect(e) /\ Cmd(t) = EmailCommand => appLock[P(t)] = t,
         wEv' = [wEv EXCEPT ![t] = e],
         events' = events, idem' = idem, session' = session, locks' = locks,
         Goto(t, "commit")
  PROVE  OnceInv'
<1>1. /\ key' = key /\ appLock' = appLock /\ pc'[t] = "commit" /\ wEv'[t] = e
      /\ \A u \in Txns \ {t} : wEv'[u] = wEv[u]
  BY DEF LockInv, TypeOK, OnceInv, TrailOK, Goto, session, locks
<1>2. TrailOK'
  BY DEF OnceInv, TrailOK
<1>3. ~Applied(key[t])'
  BY <1>1, Unanswered DEF Applied
<1>4. Cmd(t)' = Cmd(t) /\ P(t)' = P(t)
  BY <1>1 DEF Alone, G, Cmd, P
<1>5. Buffered(t)'
  BY <1>1, <1>3, <1>4 DEF Buffered, Pending
<1> QED BY <1>1, <1>2, <1>5, QuietKeeps

LEMMA WriteApplicationOnce ==
  ASSUME LockInv, OnceInv, NEW t \in Txns, pc[t] = "check", Cmd(t) \in RowCommands, ~Hit(t),
         NEW row, row.id \in Nat,
         NEW kind \in {"status", "confirmed", "rejected", "note", "next"},
         NEW to \in Statuses \cup Nexts \cup {""}, WriteApplication(t, row, kind, to)
  PROVE  OnceInv'
<1>1. Event(t, kind, row.id, to) \in EventRecords /\ Event(t, kind, row.id, to).key = key[t]
  BY Carried DEF LockInv, Event, EventRecords, RowEvents
<1>2. Alone(t)
  BY DEF LockInv, TypeOK, Alone, WriteApplication, Goto, tables, session, locks
<1> QED BY <1>1, <1>2, DecisionOnce DEF WriteApplication, tables

LEMMA PageOnce ==
  ASSUME LockInv, OnceInv, NEW t \in Txns,
         AppSetStatus(t) \/ AppResolveSuggestion(t) \/ AppAddNote(t) \/ AppSetNextAction(t)
  PROVE  OnceInv'
<1> DEFINE row == app[P(t)]
<1>1. pc[t] = "check" /\ Cmd(t) \in RowCommands
  BY DEF AppSetStatus, AppResolveSuggestion, AppAddNote, AppSetNextAction
<1>2. row.id \in Nat /\ row.sugg \in Statuses \cup {""} /\ row \in AppRows
  BY <1>1, LockedRow DEF AppRows
<1>3. CASE AppSetStatus(t)
  <2> DEFINE g   == G(t).arg
             new == [row EXCEPT !.status = g.status, !.actor = "user", !.sugg = "",
                                !.ver = now[t],
                                !.notes = IF g.note THEN @ \cup {key[t]} ELSE @]
  <2>1. \/ AnswerStored(t) \/ Fail(t, "reopen") \/ AnswerUnchanged(t, row)
        \/ Fail(t, "conflict")
        \/ ~Hit(t) /\ WriteApplication(t, new, "status", g.status)
    BY <1>3 DEF AppSetStatus
  <2>2. new.id \in Nat /\ g.status \in Statuses
    BY <1>2, <1>3, Arguments DEF AppRows, LockInv, AppSetStatus
  <2> QED
    BY <1>1, <2>1, <2>2, AnswerStoredOnce, AnswerUnchangedOnce, FailOnce, WriteApplicationOnce
<1>4. CASE AppResolveSuggestion(t)
  <2> DEFINE confirmed == [row EXCEPT !.status = row.sugg, !.actor = "user", !.sugg = "",
                                      !.ver = now[t]]
             rejected  == [row EXCEPT !.sugg = "", !.ver = now[t]]
  <2>1. \/ AnswerStored(t) \/ AnswerUnchanged(t, row) \/ Fail(t, "conflict")
        \/ ~Hit(t) /\ WriteApplication(t, confirmed, "confirmed", row.sugg)
        \/ ~Hit(t) /\ WriteApplication(t, rejected, "rejected", row.sugg)
    BY <1>4 DEF AppResolveSuggestion
  <2>2. confirmed.id \in Nat /\ rejected.id \in Nat
    BY <1>2 DEF AppRows
  <2> QED
    BY <1>1, <1>2, <2>1, <2>2, AnswerStoredOnce, AnswerUnchangedOnce, FailOnce,
       WriteApplicationOnce
<1>5. CASE AppAddNote(t)
  <2> DEFINE new == [row EXCEPT !.notes = @ \cup {key[t]}]
  <2>1. AnswerStored(t) \/ (~Hit(t) /\ WriteApplication(t, new, "note", ""))
    BY <1>5 DEF AppAddNote
  <2>2. new.id \in Nat
    BY <1>2 DEF AppRows
  <2> QED BY <1>1, <2>1, <2>2, AnswerStoredOnce, WriteApplicationOnce
<1>6. CASE AppSetNextAction(t)
  <2> DEFINE n   == G(t).arg.next
             new == [row EXCEPT !.next = n, !.ver = now[t]]
  <2>1. \/ AnswerStored(t) \/ AnswerUnchanged(t, row) \/ Fail(t, "conflict")
        \/ ~Hit(t) /\ WriteApplication(t, new, "next", n)
    BY <1>6 DEF AppSetNextAction
  <2>2. new.id \in Nat /\ n \in Nexts
    BY <1>2, <1>6, Arguments DEF AppRows, LockInv, AppSetNextAction
  <2> QED
    BY <1>1, <2>1, <2>2, AnswerStoredOnce, AnswerUnchangedOnce, FailOnce, WriteApplicationOnce
<1> QED BY <1>3, <1>4, <1>5, <1>6

-----------------------------------------------------------------------------
(* The email lane. *)
LEMMA NoteUnappliedOnce ==
  ASSUME LockInv, OnceInv, NEW t \in Txns, pc[t] = "lock", NoteUnapplied(t)
  PROVE  OnceInv'
<1>1. Alone(t)
  BY DEF LockInv, TypeOK, Alone, NoteUnapplied, Goto, tables, session, locks
<1>2. Event(t, "unapplied", Nil, "") \in EventRecords
  BY Carried DEF LockInv, Event, EventRecords, RowEvents
<1>3. /\ Event(t, "unapplied", Nil, "").key = key[t]
      /\ ~Effect(Event(t, "unapplied", Nil, ""))
  BY DEF Event, Effect
<1>4. /\ events' = events /\ idem' = idem /\ key' = key /\ pc'[t] = "noted"
      /\ wEv'[t] \in {Nil, Event(t, "unapplied", Nil, "")}
      /\ \A u \in Txns \ {t} : wEv'[u] = wEv[u]
      /\ TrailOK'
  BY <1>2 DEF LockInv, TypeOK, OnceInv, TrailOK, NoteUnapplied, Goto, tables, session
<1>5. Buffered(t)'
  BY <1>3, <1>4 DEF Buffered, Pending
<1> QED BY <1>1, <1>4, <1>5, QuietKeeps

LEMMA LockFoundOnce ==
  ASSUME LockInv, OnceInv, NEW t \in Txns, pc[t] \in {"lock", "again"}, LockFound(t)
  PROVE  OnceInv'
<1>1. P(t) \in Postings
  BY Carried DEF LockInv
<1>2. Alone(t)
  BY <1>1, NullsAssumption
  DEF LockInv, TypeOK, Alone, LockFound, Goto, tables, session, writes
<1> QED BY <1>2, MoveOnce DEF LockFound, tables, writes

(* An email that only moves on is not pending. *)
LEMMA EmailGotoOnce ==
  ASSUME LockInv, OnceInv, NEW t \in Txns, pc[t] \in {"lock", "insert", "again"},
         Cmd(t) = EmailCommand, NEW label \in {"insert", "again", "check"}, Goto(t, label),
         UNCHANGED <<tables, gest, clock, session, res, reply, writes, locks>>
  PROVE  OnceInv'
<1>1. Alone(t)
  BY DEF LockInv, TypeOK, Alone, Goto, tables, session, writes, locks
<1>2. /\ events' = events /\ idem' = idem /\ wEv' = wEv /\ pc'[t] = label
      /\ Cmd(t)' = Cmd(t) /\ TrailOK'
  BY DEF LockInv, TypeOK, OnceInv, TrailOK, Goto, tables, session, writes, G, Cmd
<1>3. Buffered(t)'
  BY <1>2, NothingBuffered DEF Buffered, Pending
<1> QED BY <1>1, <1>2, <1>3, QuietKeeps

LEMMA EmailFindOnce ==
  ASSUME LockInv, OnceInv, NEW t \in Txns, EmailFind(t)
  PROVE  OnceInv'
  BY NoteUnappliedOnce, LockFoundOnce, EmailGotoOnce DEF EmailFind

LEMMA EmailFindAgainOnce ==
  ASSUME LockInv, OnceInv, NEW t \in Txns, EmailFindAgain(t)
  PROVE  OnceInv'
<1>1. pc[t] = "again" /\ Cmd(t) = EmailCommand
  BY DEF LockInv, EmailFindAgain, Staged
<1> QED BY <1>1, LockFoundOnce, EmailGotoOnce DEF EmailFindAgain

LEMMA EmailInsertOnce ==
  ASSUME LockInv, OnceInv, NEW t \in Txns, EmailInsert(t)
  PROVE  OnceInv'
<1>1. P(t) \in Postings /\ pc[t] = "insert" /\ Cmd(t) = EmailCommand
  BY Carried DEF LockInv, EmailInsert
<1>2. CASE /\ Goto(t, "again")
           /\ UNCHANGED <<tables, gest, clock, session, res, reply, writes, locks>>
  BY <1>1, <1>2, EmailGotoOnce
<1>3. CASE /\ app[P(t)] = Nil /\ appLock[P(t)] = NoTx
           /\ appLock' = [appLock EXCEPT ![P(t)] = t]
           /\ \E row : wApp' = [wApp EXCEPT ![t] = row]
           /\ Goto(t, "check")
           /\ UNCHANGED <<tables, gest, clock, session, res, reply, wUp, wEv, upLock>>
  <2>1. Alone(t)
    BY <1>1, <1>3, NullsAssumption DEF LockInv, TypeOK, Alone, Goto, tables, session
  <2> QED BY <1>1, <1>3, <2>1, MoveOnce DEF tables
<1> QED BY <1>2, <1>3 DEF EmailInsert

(* What an email tells the trail. *)
LEMMA EmailEvent ==
  ASSUME NEW t, key[t] \in Keys, P(t) \in Postings, NEW outcome \in EmailOutcomes,
         NEW id \in Nat \cup {Nil}, NEW to \in Statuses \cup {""}
  PROVE  /\ Event(t, outcome, id, to) \in EventRecords
         /\ Event(t, outcome, id, to).key = key[t]
         /\ Effect(Event(t, outcome, id, to)) => id # Nil
<1>1. outcome # "triage"
  BY DEF EmailOutcomes
<1>2. Event(t, outcome, id, to) \in RowEvents
  BY DEF Event, RowEvents
<1> QED BY <1>1, <1>2 DEF EventRecords, Event, Effect

LEMMA HqApplyEmailEventOnce ==
  ASSUME LockInv, OnceInv, NEW t \in Txns, HqApplyEmailEvent(t)
  PROVE  OnceInv'
<1> DEFINE row     == EmailRow(t)
           outcome == IF row = Nil THEN EmailOutcome("", "", G(t).arg)
                      ELSE EmailOutcome(row.status, row.actor, G(t).arg)
           after   == IF row = Nil THEN Nil ELSE EmailWrite(t, row, outcome)
           id      == IF row = Nil THEN Nil ELSE row.id
           e       == Event(t, outcome, id, G(t).arg.status)
<1>1. pc[t] = "check" /\ Cmd(t) = EmailCommand /\ P(t) \in Postings
  BY Carried DEF LockInv, HqApplyEmailEvent
<1>2. row \in AppRows \cup {Nil}
  BY <1>1 DEF LockInv, TypeOK, Holds, EmailRow
<1>3. row # Nil => appLock[P(t)] = t
  BY <1>1 DEF EmailRow, LockInv, Holds
<1>4. outcome \in EmailOutcomes
  BY EmailOutcomeRange
<1>5. id \in Nat \cup {Nil}
  BY <1>2 DEF AppRows
<1>6. e \in EventRecords /\ e.key = key[t] /\ (Effect(e) => appLock[P(t)] = t)
  <2>1. G(t).arg.status \in Statuses \cup {""} /\ key[t] \in Keys
    BY <1>1, Carried, Arguments, SignalsAssumption DEF LockInv
  <2>2. e \in EventRecords /\ e.key = key[t] /\ (Effect(e) => id # Nil)
    <3> HIDE DEF outcome, id
    <3> QED BY <1>1, <1>4, <1>5, <2>1, EmailEvent
  <2> QED BY <1>3, <2>2
<1>7. CASE AnswerStored(t)
  BY <1>1, <1>7, AnswerStoredOnce
<1>8. CASE Fail(t, "claimed")
  BY <1>8, FailOnce
<1>9. CASE ~AnswerStored(t) /\ ~Fail(t, "claimed")
  <2>1. /\ ~Hit(t)
        /\ wApp' = [wApp EXCEPT ![t] = after]
        /\ wEv' = [wEv EXCEPT ![t] = e]
        /\ Goto(t, "commit")
        /\ UNCHANGED <<tables, gest, clock, session, reply, wUp, locks>>
    BY <1>9 DEF HqApplyEmailEvent
  <2> HIDE DEF row, outcome, after, id, e
  <2>2. Alone(t)
    BY <2>1 DEF LockInv, TypeOK, Alone, Goto, tables, session, locks
  <2> QED BY <1>1, <1>6, <2>1, <2>2, DecisionOnce DEF tables
<1> QED BY <1>7, <1>8, <1>9

-----------------------------------------------------------------------------
(* The trail grows by one event. *)
LEMMA Grown ==
  ASSUME TrailOK, NEW e \in EventRecords, events' = Append(events, e)
  PROVE  /\ events' \in Seq(EventRecords)
         /\ Len(events') = Len(events) + 1 /\ Len(events) \in Nat
         /\ \A i \in 1 .. Len(events) : events'[i] = events[i]
         /\ events'[Len(events) + 1] = e
         /\ \A k : Applied(k)' <=> Applied(k) \/ (Effect(e) /\ e.key = k)
<1>1. /\ events' \in Seq(EventRecords)
      /\ Len(events') = Len(events) + 1 /\ Len(events) \in Nat
      /\ \A i \in 1 .. Len(events) : events'[i] = events[i]
      /\ events'[Len(events) + 1] = e
  BY DEF TrailOK
<1>2. 1 .. Len(events') = 1 .. Len(events) \cup {Len(events) + 1}
  BY <1>1
<1> QED BY <1>1, <1>2 DEF Applied, Effect

(* An effect of a key that had none, or no effect at all, keeps effects    *)
(* apart.                                                                  *)
LEMMA GrownOnce ==
  ASSUME TrailOK, AppliedOnce, NEW e \in EventRecords, events' = Append(events, e),
         Effect(e) => ~Applied(e.key)
  PROVE  AppliedOnce'
<1> DEFINE n == Len(events)
<1>1. /\ Len(events') = n + 1 /\ n \in Nat
      /\ \A i \in 1 .. n : events'[i] = events[i]
      /\ events'[n + 1] = e
  BY Grown
<1>2. ASSUME NEW i \in 1 .. n, Effect(events'[i]), events'[i].key = e.key
      PROVE  ~Effect(e)
  BY <1>1, <1>2 DEF Applied
<1>3. ASSUME NEW i \in 1 .. (n + 1), NEW j \in 1 .. (n + 1), Effect(events'[i]),
             Effect(events'[j]), events'[i].key = events'[j].key
      PROVE  i = j
  <2> HIDE DEF n
  <2>1. CASE i \in 1 .. n /\ j \in 1 .. n
    BY <1>1, <1>3, <2>1 DEF AppliedOnce, n
  <2>2. CASE i = n + 1 /\ j = n + 1
    BY <2>2
  <2>3. CASE i \in 1 .. n /\ j = n + 1
    BY <1>1, <1>2, <1>3, <2>3
  <2>4. CASE i = n + 1 /\ j \in 1 .. n
    BY <1>1, <1>2, <1>3, <2>4
  <2> QED BY <1>1, <2>1, <2>2, <2>3, <2>4
<1>4. ASSUME NEW i \in 1 .. Len(events'), NEW j \in 1 .. Len(events')
      PROVE  Effect(events'[i]) /\ Effect(events'[j]) /\ events'[i].key = events'[j].key
               => i = j
  BY <1>1, <1>3, <1>4
<1> QED BY <1>4 DEF AppliedOnce, Effect

(* Two deliveries of one key are never pending together. *)
LEMMA Exclusive ==
  ASSUME LockInv, OnceInv, NEW t \in Txns, NEW u \in Txns,
         Pending(t), Pending(u), key[t] = key[u]
  PROVE  t = u
<1>1. pc[t] # "idle" /\ pc[u] # "idle" /\ Deciding(t) /\ Deciding(u)
  BY DEF Pending, Deciding
<1>2. Cmd(t) = Cmd(u) /\ P(t) = P(u) /\ Cmd(t) \in CommandNames
  BY <1>1, Carried DEF LockInv, G, Cmd, P
<1>3. CASE Cmd(t) \in TriageCommands
  BY <1>1, <1>2, <1>3 DEF LockInv, Holds
<1>4. CASE Cmd(t) \in RowCommands
  BY <1>1, <1>2, <1>4 DEF LockInv, Holds
<1>5. CASE Cmd(t) = EmailCommand
  BY <1>2, <1>5 DEF OnceInv, Buffered
<1> QED BY <1>2, <1>3, <1>4, <1>5

LEMMA CommitUnappliedOnce ==
  ASSUME LockInv, OnceInv, NEW t \in Txns, CommitUnapplied(t)
  PROVE  OnceInv'
<1>1. /\ pc[t] = "noted" /\ idem' = idem /\ key' = key /\ pc'[t] = "done" /\ wEv'[t] = Nil
      /\ gest' = gest /\ appLock' = appLock
      /\ \A u \in Txns \ {t} : wEv'[u] = wEv[u] /\ pc'[u] = pc[u]
      /\ wEv' \in [Txns -> EventRecords \cup {Nil}]
  BY DEF LockInv, TypeOK, OnceInv, TrailOK, CommitUnapplied, Goto, DropWrites, session, locks
<1>2. /\ events' \in Seq(EventRecords) /\ AppliedOnce'
      /\ \A k : Applied(k)' <=> Applied(k)
  <2>1. CASE wEv[t] = Nil
    BY <2>1 DEF OnceInv, TrailOK, CommitUnapplied, AppliedOnce, Applied
  <2>2. CASE wEv[t] # Nil
    <3>1. /\ wEv[t] \in EventRecords /\ ~Effect(wEv[t])
          /\ events' = Append(events, wEv[t])
      BY <1>1, <2>2 DEF OnceInv, TrailOK, Buffered, CommitUnapplied
    <3> QED BY <3>1, Grown, GrownOnce DEF OnceInv
  <2> QED BY <2>1, <2>2
<1>3. ASSUME NEW u \in Txns PROVE Buffered(u)'
  <2>1. CASE u = t
    BY <1>1, <2>1 DEF Buffered, Pending
  <2>2. CASE u # t
    <3>1. Cmd(u)' = Cmd(u) /\ P(u)' = P(u)
      BY <1>1 DEF G, Cmd, P
    <3>2. Pending(u)' <=> Pending(u)
      BY <1>1, <2>2, <3>1 DEF Pending
    <3> QED BY <1>1, <1>2, <2>2, <3>1, <3>2 DEF OnceInv, Buffered
  <2> QED BY <2>1, <2>2
<1> QED BY <1>1, <1>2, <1>3 DEF OnceInv, TrailOK

(* The commit of a pending command is the one effect of its key.           *)
LEMMA CommitOnce ==
  ASSUME LockInv, OnceInv, NEW t \in Txns, Commit(t)
  PROVE  OnceInv'
<1>1. /\ pc[t] = "commit" /\ key' = key /\ pc'[t] = "done" /\ wEv'[t] = Nil
      /\ gest' = gest
      /\ \A u \in Txns \ {t} : wEv'[u] = wEv[u] /\ pc'[u] = pc[u]
      /\ \A p \in Postings, u \in Txns \ {t} : appLock[p] = u => appLock'[p] = u
      /\ wEv' \in [Txns -> EventRecords \cup {Nil}]
  BY DEF LockInv, TypeOK, OnceInv, TrailOK, Commit, Goto, DropWrites, Release, session
<1>2. key[t] \in Keys /\ Cmd(t) \in CommandNames
  BY <1>1, Carried DEF LockInv
<1>3. idem'[key[t]] # Nil /\ \A k \in Keys : idem[k] # Nil => idem'[k] # Nil
  <2>1. [cmd |-> Cmd(t), res |-> res[t]] \in Answers
    BY <1>2 DEF LockInv, TypeOK, Answers
  <2> QED
    BY <1>2, <2>1, AnswersAssumption DEF LockInv, TypeOK, Commit, Hit
<1>4. \/ /\ wEv[t] = Nil /\ events' = events
      \/ /\ wEv[t] \in EventRecords /\ wEv[t].key = key[t] /\ wEv[t] # Nil
         /\ events' = Append(events, wEv[t])
  BY <1>1 DEF OnceInv, TrailOK, Buffered, Commit
<1>5. wEv[t] # Nil /\ Effect(wEv[t]) => Pending(t) /\ ~Applied(key[t])
  BY <1>1 DEF OnceInv, Buffered, Pending
<1>6. /\ events' \in Seq(EventRecords) /\ AppliedOnce'
      /\ \A k : Applied(k)' <=>
                \/ Applied(k)
                \/ wEv[t] # Nil /\ Effect(wEv[t]) /\ k = key[t]
  <2>1. CASE wEv[t] = Nil
    BY <1>4, <2>1 DEF OnceInv, TrailOK, AppliedOnce, Applied
  <2>2. CASE wEv[t] # Nil
    BY <1>4, <1>5, <2>2, Grown, GrownOnce DEF OnceInv
  <2> QED BY <2>1, <2>2
<1>7. \A k \in Keys : Applied(k)' => idem'[k] # Nil
  BY <1>3, <1>6 DEF OnceInv
<1>8. ASSUME NEW u \in Txns PROVE Buffered(u)'
  <2>1. CASE u = t
    BY <1>1, <2>1 DEF Buffered, Pending
  <2>2. CASE u # t
    <3>1. Cmd(u)' = Cmd(u) /\ P(u)' = P(u)
      BY <1>1 DEF G, Cmd, P
    <3>2. Pending(u)' <=> Pending(u)
      BY <1>1, <2>2, <3>1 DEF Pending
    <3>3. Pending(u) => ~Applied(key[u])'
      BY <1>1, <1>5, <1>6, <2>2, Exclusive DEF OnceInv, Buffered
    <3>4. Pending(u) => P(u) \in Postings
      BY Carried DEF Pending, LockInv
    <3>5. Pending(u) /\ Cmd(u) = EmailCommand => appLock'[P(u)] = u
      BY <1>1, <2>2, <3>4 DEF OnceInv, Buffered
    <3> QED BY <1>1, <2>2, <3>1, <3>2, <3>3, <3>5 DEF OnceInv, Buffered
  <2> QED BY <2>1, <2>2
<1> QED BY <1>1, <1>6, <1>7, <1>8 DEF OnceInv, TrailOK

-----------------------------------------------------------------------------
LEMMA NextOnceInv ==
  ASSUME LockInv, OnceInv, [Next]_vars
  PROVE  OnceInv'
<1>1. CASE Call
  BY <1>1, MintOnce, DeliverOnce DEF Call
<1>2. ASSUME NEW t \in Txns, TriageStep(t)
      PROVE  OnceInv'
  BY <1>2, TriageOnce
<1>3. ASSUME NEW t \in Txns, PipelineStep(t)
      PROVE  OnceInv'
  BY <1>3, LockApplicationOnce, PageOnce, EmailFindOnce, EmailInsertOnce, EmailFindAgainOnce,
     HqApplyEmailEventOnce, CommitUnappliedOnce
  DEF PipelineStep
<1>4. ASSUME NEW t \in Txns, Commit(t)
      PROVE  OnceInv'
  BY <1>4, CommitOnce
<1>5. ASSUME NEW t \in Txns, Lose(t)
      PROVE  OnceInv'
  BY <1>5, FailOnce DEF Lose
<1>6. ASSUME NEW p \in Swept, Sweep(p)
      PROVE  OnceInv'
  BY <1>6, OutsideOnce DEF Sweep, session, writes, locks
<1>7. CASE UNCHANGED vars
  BY <1>7, OutsideOnce DEF vars, tables, session, writes, locks
<1> QED BY <1>1, <1>2, <1>3, <1>4, <1>5, <1>6, <1>7 DEF Next, Serve, AllServed

(* The trail never holds two effects of one key: redelivery, concurrent    *)
(* delivery, lost connections and the other lanes included, a command is   *)
(* applied at most once.                                                   *)
THEOREM OnlyOnce == Spec => []AppliedOnce
<1>1. LockInv /\ OnceInv /\ [Next]_vars => OnceInv'
  BY NextOnceInv
<1>2. OnceInv => AppliedOnce
  BY DEF OnceInv
<1> QED BY LocksHeld, InitOnceInv, <1>1, <1>2, PTL DEF Spec

(* An effect on the trail has an answer under its key, for the next        *)
(* delivery to be told.                                                    *)
THEOREM EffectsAnswered == Spec => [](\A k \in Keys : Applied(k) => idem[k] # Nil)
<1>1. LockInv /\ OnceInv /\ [Next]_vars => OnceInv'
  BY NextOnceInv
<1>2. OnceInv => \A k \in Keys : Applied(k) => idem[k] # Nil
  BY DEF OnceInv
<1> QED BY LocksHeld, InitOnceInv, <1>1, <1>2, PTL DEF Spec
-----------------------------------------------------------------------------
(***************************************************************************)
(* Row locks are never waited for in a circle, whatever commands run and   *)
(* however many: who holds an application takes nothing more, and who      *)
(* holds a posting waits at most for an application.                       *)
(***************************************************************************)

(* A step of t that gives nobody else a row. *)
Takes(t) ==
  /\ \A u \in Txns \ {t} :
       pc'[u] = pc[u] /\ key'[u] = key[u] /\ (pc[u] # "idle" => gest'[key[u]] = gest[key[u]])
  /\ \A p \in Postings, u \in Txns \ {t} :
       /\ upLock'[p] = u => upLock[p] = u
       /\ appLock'[p] = u => appLock[p] = u

LEMMA TakesHeld ==
  ASSUME LockInv, HeldInv, NEW t, Takes(t), t \in Txns => Held(t)'
  PROVE  HeldInv'
<1>1. ASSUME NEW u \in Txns, u # t
      PROVE  Held(u)'
  <2>1. CASE pc[u] = "idle"
    BY <1>1, <2>1 DEF HeldInv, Held, Takes, Deciding
  <2>2. CASE pc[u] # "idle"
    <3>1. Cmd(u)' = Cmd(u) /\ P(u)' = P(u) /\ pc'[u] = pc[u]
      BY <1>1, <2>2 DEF Takes, G, Cmd, P
    <3> QED BY <1>1, <3>1 DEF HeldInv, Held, Takes, Deciding
  <2> QED BY <2>1, <2>2
<1> QED BY <1>1 DEF HeldInv

(* A transaction that ends lets go of all it has. *)
LEMMA ReleaseHeld ==
  ASSUME LockInv, HeldInv, NEW t \in Txns, Goto(t, "done"), Release(t), gest' = gest, key' = key
  PROVE  HeldInv'
<1>1. Takes(t)
  BY NullsAssumption DEF LockInv, TypeOK, Takes, Goto, Release
<1>2. Held(t)'
  BY NullsAssumption DEF LockInv, TypeOK, Held, Release
<1> QED BY <1>1, <1>2, TakesHeld

LEMMA FailHeld ==
  ASSUME LockInv, HeldInv, NEW t \in Txns, NEW code, Fail(t, code)
  PROVE  HeldInv'
  BY ReleaseHeld DEF Fail, Goto, session

(* A step to another point of the command, with or without another row.    *)
LEMMA MoveHeld ==
  ASSUME LockInv, HeldInv, NEW t \in Txns, pc[t] # "idle",
         NEW label, Goto(t, label), gest' = gest, key' = key,
         upLock' \in {upLock, [upLock EXCEPT ![P(t)] = t]},
         appLock' \in {appLock, [appLock EXCEPT ![P(t)] = t]},
         (\E p \in Postings : upLock[p] = t) \/ upLock' # upLock =>
           label \in {"check", "sync", "insert", "commit"} /\ Cmd(t) \in TriageCommands,
         (\E p \in Postings : appLock[p] = t) \/ appLock' # appLock =>
           label = "commit" \/ (label = "check" /\ Cmd(t) \notin TriageCommands)
  PROVE  HeldInv'
<1>1. /\ pc'[t] = label /\ Cmd(t)' = Cmd(t) /\ P(t)' = P(t) /\ P(t) \in Postings
      /\ upLock \in [Postings -> Txns \cup {NoTx}] /\ appLock \in [Postings -> Txns \cup {NoTx}]
  BY Carried DEF LockInv, TypeOK, Goto, G, Cmd, P
<1>2. Takes(t)
  <2>1. \A p \in Postings, u \in Txns \ {t} : upLock'[p] = u => upLock[p] = u
    BY <1>1
  <2>2. \A p \in Postings, u \in Txns \ {t} : appLock'[p] = u => appLock[p] = u
    BY <1>1
  <2> QED BY <2>1, <2>2 DEF LockInv, TypeOK, Takes, Goto
<1>3. Held(t)'
  <2>1. \A p \in Postings : upLock'[p] = t => p = P(t) /\ (upLock[p] = t \/ upLock' # upLock)
    BY <1>1 DEF HeldInv, Held
  <2>2. \A p \in Postings : appLock'[p] = t => p = P(t) /\ (appLock[p] = t \/ appLock' # appLock)
    BY <1>1 DEF HeldInv, Held
  <2> QED BY <1>1, <2>1, <2>2 DEF Held, Deciding
<1> QED BY <1>2, <1>3, TakesHeld

(* Behind its row a command goes on to the commit. *)
LEMMA AnswerHeld ==
  ASSUME LockInv, HeldInv, NEW t \in Txns, pc[t] = "check", Goto(t, "commit"),
         UNCHANGED <<gest, session, locks>>
  PROVE  HeldInv'
  BY MoveHeld DEF HeldInv, Held, session, locks

(* Before it has a row. *)
LEMMA EmptyHeld ==
  ASSUME HeldInv, NEW t \in Txns
  PROVE  /\ pc[t] \notin {"check", "sync", "insert", "commit"} =>
              \A p \in Postings : upLock[p] # t
         /\ pc[t] \notin {"check", "commit"} => \A p \in Postings : appLock[p] # t
         /\ Cmd(t) \notin TriageCommands => \A p \in Postings : upLock[p] # t
         /\ pc[t] = "check" /\ Cmd(t) \in TriageCommands => \A p \in Postings : appLock[p] # t
  BY DEF HeldInv, Held, Deciding

LEMMA TriageHeld ==
  ASSUME LockInv, HeldInv, NEW t \in Txns, TriageStep(t)
  PROVE  HeldInv'
<1>1. CASE LockPosting(t)
  BY <1>1, MoveHeld, EmptyHeld DEF LockPosting, session
<1>2. ASSUME pc[t] = "check", Cmd(t) \in TriageCommands, WriteChoice(t)
      PROVE  HeldInv'
  BY <1>2, MoveHeld, EmptyHeld DEF WriteChoice, session, locks
<1>3. CASE AppSetTriage(t)
  BY <1>2, <1>3, AnswerHeld, FailHeld DEF AppSetTriage, AnswerStored, AnswerUnchanged
<1>4. CASE HqDigestSetTriage(t)
  BY <1>2, <1>4, AnswerHeld, FailHeld DEF HqDigestSetTriage, AnswerStored, AnswerUnchanged
<1>5. ASSUME pc[t] \in {"sync", "insert"}, Cmd(t) \in TriageCommands, NEW id, SyncDone(t, id),
             appLock' \in {appLock, [appLock EXCEPT ![P(t)] = t]}
      PROVE  HeldInv'
  BY <1>5, MoveHeld DEF SyncDone, session
<1>6. CASE FindApplication(t)
  <2>1. Cmd(t) \in TriageCommands /\ pc[t] = "sync"
    BY <1>6 DEF LockInv, Staged, FindApplication
  <2>2. CASE Goto(t, "insert") /\ UNCHANGED <<gest, session, locks>>
    BY <2>1, <2>2, MoveHeld, EmptyHeld DEF session, locks
  <2> QED BY <1>5, <1>6, <2>1, <2>2 DEF FindApplication
<1>7. CASE QueueApplication(t)
  BY <1>5, <1>7, FailHeld DEF QueueApplication
<1>8. CASE UnqueueApplication(t)
  <2>1. Cmd(t) \in TriageCommands /\ pc[t] = "sync"
    BY <1>8 DEF LockInv, Staged, UnqueueApplication
  <2> QED BY <1>5, <1>8, <2>1 DEF UnqueueApplication
<1> QED BY <1>1, <1>3, <1>4, <1>6, <1>7, <1>8 DEF TriageStep

LEMMA PageHeld ==
  ASSUME LockInv, HeldInv, NEW t \in Txns,
         \/ LockApplication(t) \/ AppSetStatus(t) \/ AppResolveSuggestion(t)
         \/ AppAddNote(t) \/ AppSetNextAction(t)
  PROVE  HeldInv'
<1>1. CASE LockApplication(t)
  BY <1>1, MoveHeld, EmptyHeld, FailHeld DEF LockApplication, session
<1>2. CASE AppSetStatus(t)
  BY <1>2, AnswerHeld, FailHeld
  DEF AppSetStatus, AnswerStored, AnswerUnchanged, WriteApplication
<1>3. CASE AppResolveSuggestion(t)
  BY <1>3, AnswerHeld, FailHeld
  DEF AppResolveSuggestion, AnswerStored, AnswerUnchanged, WriteApplication
<1>4. CASE AppAddNote(t)
  BY <1>4, AnswerHeld DEF AppAddNote, AnswerStored, WriteApplication
<1>5. CASE AppSetNextAction(t)
  BY <1>5, AnswerHeld, FailHeld
  DEF AppSetNextAction, AnswerStored, AnswerUnchanged, WriteApplication
<1> QED BY <1>1, <1>2, <1>3, <1>4, <1>5

LEMMA EmailHeld ==
  ASSUME LockInv, HeldInv, NEW t \in Txns,
         \/ EmailFind(t) \/ EmailInsert(t) \/ EmailFindAgain(t) \/ HqApplyEmailEvent(t)
         \/ CommitUnapplied(t)
  PROVE  HeldInv'
<1>1. ASSUME pc[t] \in {"lock", "insert", "again", "noted"}, Cmd(t) = EmailCommand,
             NEW label, Goto(t, label), UNCHANGED <<gest, session, upLock>>,
             \/ appLock' = appLock
             \/ appLock' = [appLock EXCEPT ![P(t)] = t] /\ label = "check"
      PROVE  HeldInv'
  BY <1>1, MoveHeld, EmptyHeld DEF session
<1>2. CASE EmailFind(t)
  BY <1>1, <1>2 DEF EmailFind, NoteUnapplied, LockFound, locks
<1>3. CASE EmailInsert(t)
  BY <1>1, <1>3 DEF EmailInsert, locks
<1>4. CASE EmailFindAgain(t)
  BY <1>1, <1>4 DEF EmailFindAgain, LockFound, locks, LockInv, Staged
<1>5. CASE HqApplyEmailEvent(t)
  BY <1>5, AnswerHeld, FailHeld DEF HqApplyEmailEvent, AnswerStored
<1>6. CASE CommitUnapplied(t)
  BY <1>1, <1>6 DEF CommitUnapplied, locks, LockInv, Staged
<1> QED BY <1>2, <1>3, <1>4, <1>5, <1>6

LEMMA NextHeld ==
  ASSUME LockInv, HeldInv, [Next]_vars
  PROVE  HeldInv'
<1>1. ASSUME NEW k \in Keys, NEW g, Mint(k, g)
      PROVE  HeldInv'
  <2>1. \A u \in Txns : pc[u] # "idle" => gest'[key[u]] = gest[key[u]]
    BY <1>1 DEF LockInv, TypeOK, Mint
  <2>2. Takes(NoTx)
    BY <1>1, <2>1 DEF Mint, Takes, session, locks
  <2> QED BY <2>2, NullsAssumption, TakesHeld
<1>2. ASSUME NEW t \in Txns, NEW k \in Keys, Deliver(t, k)
      PROVE  HeldInv'
  <2>1. Takes(t)
    BY <1>2 DEF LockInv, TypeOK, Deliver, Goto, Takes, locks
  <2>2. Held(t)'
    BY <1>2, EmptyHeld DEF Deliver, Held, locks
  <2> QED BY <2>1, <2>2, TakesHeld
<1>3. CASE Call
  BY <1>1, <1>2, <1>3 DEF Call
<1>4. ASSUME NEW t \in Txns, Serve(t)
      PROVE  HeldInv'
  <2>1. CASE PipelineStep(t)
    BY <2>1, PageHeld, EmailHeld DEF PipelineStep
  <2>2. CASE Commit(t)
    BY <2>2, ReleaseHeld DEF Commit, session
  <2> QED BY <1>4, <2>1, <2>2, TriageHeld DEF Serve
<1>5. ASSUME NEW t \in Txns, Lose(t)
      PROVE  HeldInv'
  BY <1>5, FailHeld DEF Lose
<1>6. ASSUME UNCHANGED <<gest, pc, session, locks>>
      PROVE  HeldInv'
  <2>1. Takes(NoTx)
    BY <1>6 DEF Takes, session, locks
  <2> QED BY <2>1, NullsAssumption, TakesHeld
<1>7. ASSUME NEW p \in Swept, Sweep(p)
      PROVE  HeldInv'
  BY <1>6, <1>7 DEF Sweep
<1>8. CASE UNCHANGED vars
  BY <1>6, <1>8 DEF vars
<1> QED BY <1>3, <1>4, <1>5, <1>7, <1>8 DEF Next, AllServed

(* A chain of waits has at most two links. *)
LEMMA ShortChains ==
  ASSUME LockInv, HeldInv, NEW t \in Txns, NEW u \in Txns, WaitsFor(t, u)
  PROVE  /\ WaitsForApplication(t, u) => \A v \in Txns : ~WaitsFor(u, v)
         /\ WaitsForPosting(t, u) => \A v \in Txns : ~WaitsForPosting(u, v)
<1>1. P(t) \in Postings
  BY Carried DEF LockInv, WaitsFor, WaitsForPosting, WaitsForApplication
<1>2. ASSUME appLock[P(t)] = u, NEW v \in Txns
      PROVE  ~WaitsFor(u, v)
  BY <1>1, <1>2, EmptyHeld DEF WaitsFor, WaitsForPosting, WaitsForApplication
<1>3. ASSUME upLock[P(t)] = u, NEW v \in Txns
      PROVE  ~WaitsForPosting(u, v)
  BY <1>1, <1>3, EmptyHeld DEF WaitsForPosting
<1> QED BY <1>2, <1>3 DEF WaitsForPosting, WaitsForApplication

(* Any number of triages, page gestures, emails and deliveries, whichever  *)
(* postings they are about: there is no set of them in which everybody     *)
(* waits for a row another one, or itself, has.                            *)
THEOREM NoDeadlock == Spec => []NoCircularWait
<1>1. Init => HeldInv
  BY NullsAssumption DEF Init, HeldInv, Held
<1>2. LockInv /\ HeldInv => NoCircularWait
  <2> SUFFICES ASSUME LockInv, HeldInv, NEW S \in SUBSET Txns, S # {},
                      \A t \in S : \E u \in S : WaitsFor(t, u)
               PROVE  FALSE
    BY DEF NoCircularWait
  <2>1. PICK t \in S, u \in S, v \in S, w \in S :
          WaitsFor(t, u) /\ WaitsFor(u, v) /\ WaitsFor(v, w)
    OBVIOUS
  <2>2. WaitsForPosting(t, u) /\ ~WaitsForPosting(u, v)
    BY <2>1, ShortChains DEF WaitsFor
  <2>3. WaitsForApplication(u, v)
    BY <2>1, <2>2 DEF WaitsFor
  <2> QED BY <2>1, <2>3, ShortChains
<1>3. LockInv /\ HeldInv /\ [Next]_vars => HeldInv'
  BY NextHeld
<1> QED BY <1>1, <1>2, <1>3, LocksHeld, PTL DEF Spec
=============================================================================
