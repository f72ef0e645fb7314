------------------------------- MODULE Triage -------------------------------
(***************************************************************************)
(* Deciding about a posting: app_set_triage (the application), and         *)
(* hq_digest_set_triage (a link in the digest email, sent through the      *)
(* service role with the user taken from the signature).                   *)
(*                                                                         *)
(* Both lock the user_postings row, and both keep the pipeline in step:    *)
(* interested creates a Queued application when there is none, any other   *)
(* decision deletes the application while it is Queued.                    *)
(***************************************************************************)
EXTENDS Commands

TriageGesture(p, c, expect) ==
  [cmd |-> "app_set_triage", posting |-> p, id |-> 0, expect |-> expect, arg |-> c]

(* A digest link carries no reason, no wake date and no version. *)
DigestGesture(p, c) ==
  [cmd |-> "hq_digest_set_triage", posting |-> p, id |-> 0, expect |-> Nil, arg |-> c]

DigestChoices == {c \in Choices : c.triage # "snoozed" /\ c.reason = ""}

(* select ... for update on the user's posting *)
LockPosting(t) ==
  /\ pc[t] = "lock" /\ Cmd(t) \in TriageCommands
  /\ upLock[P(t)] = NoTx
  /\ upLock' = [upLock EXCEPT ![P(t)] = t]
  /\ Goto(t, "check")
  /\ UNCHANGED <<tables, gest, clock, session, res, reply, writes, appLock>>

(* The update of user_postings, and on to the application. *)
WriteChoice(t) ==
  LET row == [choice |-> G(t).arg, ver |-> now[t]]
  IN /\ wUp' = [wUp EXCEPT ![t] = row]
     /\ res' = [res EXCEPT ![t] = row]
     /\ Goto(t, "sync")
     /\ UNCHANGED <<tables, gest, clock, session, reply, wApp, wEv, locks>>

(* Mutants of AppSetTriage: no second lookup; no version check. *)
AppSetTriageAskedOnce(t) ==
  LET row == up[P(t)]
  IN /\ pc[t] = "check" /\ Cmd(t) = "app_set_triage"
     /\ \/ row.choice = G(t).arg /\ AnswerUnchanged(t, row)
        \/ row.choice # G(t).arg /\ Stale(t, row) /\ Fail(t, "conflict")
        \/ row.choice # G(t).arg /\ ~Stale(t, row) /\ WriteChoice(t)

AppSetTriageUnchecked(t) ==
  LET row == up[P(t)]
  IN /\ pc[t] = "check" /\ Cmd(t) = "app_set_triage"
     /\ \/ AnswerStored(t)
        \/ ~Hit(t) /\ row.choice = G(t).arg /\ AnswerUnchanged(t, row)
        \/ ~Hit(t) /\ row.choice # G(t).arg /\ WriteChoice(t)

(* Behind the lock: replay, then "a gesture that changes nothing writes    *)
(* nothing", then the version check, then the write.                       *)
AppSetTriage(t) ==
  LET row == up[P(t)]
  IN /\ pc[t] = "check" /\ Cmd(t) = "app_set_triage"
     /\ \/ AnswerStored(t)
        \/ ~Hit(t) /\ row.choice = G(t).arg /\ AnswerUnchanged(t, row)
        \/ ~Hit(t) /\ row.choice # G(t).arg /\ Stale(t, row) /\ Fail(t, "conflict")
        \/ ~Hit(t) /\ row.choice # G(t).arg /\ ~Stale(t, row) /\ WriteChoice(t)

(* The digest refuses a closed listing before it asks for its replay, and  *)
(* its no-op looks at the decision and the wake date but not the reason.   *)
HqDigestSetTriage(t) ==
  LET row  == up[P(t)]
      same == row.choice.triage = G(t).arg.triage /\ row.choice.wake = NoDate
  IN /\ pc[t] = "check" /\ Cmd(t) = "hq_digest_set_triage"
     /\ \/ board[P(t)] = "Closed" /\ Fail(t, "gone")
        \/ board[P(t)] # "Closed" /\ AnswerStored(t)
        \/ board[P(t)] # "Closed" /\ ~Hit(t) /\ same /\ AnswerUnchanged(t, row)
        \/ board[P(t)] # "Closed" /\ ~Hit(t) /\ ~same /\ WriteChoice(t)

(* The audit event, the last thing before the result is stored. *)
TriageEvent(t, appId) ==
  [key |-> key[t], kind |-> "triage", posting |-> P(t), id |-> appId, to |-> G(t).arg]

SyncDone(t, appId) ==
  /\ wEv' = [wEv EXCEPT ![t] = TriageEvent(t, appId)]
  /\ Goto(t, "commit")
  /\ UNCHANGED <<tables, gest, clock, session, res, reply, wUp, upLock>>

(* Mutant of FindApplication: a row nobody has committed yet counts. *)
FindApplicationUncommitted(t) ==
  /\ pc[t] = "sync" /\ G(t).arg.triage = "interested"
  /\ \/ /\ app[P(t)] # Nil \/ appLock[P(t)] # NoTx
        /\ SyncDone(t, Nil) /\ UNCHANGED <<wApp, appLock>>
     \/ /\ app[P(t)] = Nil /\ appLock[P(t)] = NoTx
        /\ Goto(t, "insert")
        /\ UNCHANGED <<tables, gest, clock, session, res, reply, writes, locks>>

(* where not exists (...): the snapshot of the insert statement decides    *)
(* whether there is anything to insert.                                    *)
FindApplication(t) ==
  /\ pc[t] = "sync" /\ G(t).arg.triage = "interested"
  /\ \/ /\ app[P(t)] # Nil
        /\ SyncDone(t, Nil) /\ UNCHANGED <<wApp, appLock>>
     \/ /\ app[P(t)] = Nil
        /\ Goto(t, "insert")
        /\ UNCHANGED <<tables, gest, clock, session, res, reply, writes, locks>>

(* Mutant of QueueApplication: an existing row is waited out, not refused. *)
QueueApplicationPatiently(t) ==
  /\ pc[t] = "insert" /\ Cmd(t) \in TriageCommands
  /\ app[P(t)] = Nil /\ appLock[P(t)] = NoTx
  /\ appLock' = [appLock EXCEPT ![P(t)] = t]
  /\ wApp' = [wApp EXCEPT ![t] =
       [id |-> now[t], status |-> "Queued", actor |-> "system", sugg |-> "",
        next |-> "", seen |-> "", notes |-> {}, ver |-> now[t]]]
  /\ SyncDone(t, now[t])

(* The unique index has the last word: another transaction's uncommitted   *)
(* row is waited for, and a committed one is a unique_violation (the       *)
(* insert has no ON CONFLICT clause), which aborts the command.            *)
QueueApplication(t) ==
  /\ pc[t] = "insert" /\ Cmd(t) \in TriageCommands
  /\ \/ app[P(t)] # Nil /\ Fail(t, "unique_violation")
     \/ /\ app[P(t)] = Nil /\ appLock[P(t)] = NoTx
        /\ appLock' = [appLock EXCEPT ![P(t)] = t]
        /\ wApp' = [wApp EXCEPT ![t] =
             [id |-> now[t], status |-> "Queued", actor |-> "system", sugg |-> "",
              next |-> "", seen |-> "",
              notes |-> {}, ver |-> now[t]]]
        /\ SyncDone(t, now[t])

Queued(p) == app[p] # Nil /\ app[p].status = "Queued"

(* Mutant of UnqueueApplication: the delete does not ask for the status.   *)
UnqueueAnyApplication(t) ==
  /\ pc[t] = "sync" /\ G(t).arg.triage # "interested"
  /\ \/ /\ app[P(t)] = Nil
        /\ SyncDone(t, Nil) /\ UNCHANGED <<wApp, appLock>>
     \/ /\ app[P(t)] # Nil
        /\ appLock[P(t)] = NoTx
        /\ appLock' = [appLock EXCEPT ![P(t)] = t]
        /\ wApp' = [wApp EXCEPT ![t] = Gone]
        /\ SyncDone(t, Nil)

(* delete ... where status = 'Queued': a locked row is waited for and read *)
(* again; its notes go with it (on delete cascade).                        *)
UnqueueApplication(t) ==
  /\ pc[t] = "sync" /\ G(t).arg.triage # "interested"
  /\ \/ /\ ~Queued(P(t))
        /\ SyncDone(t, Nil) /\ UNCHANGED <<wApp, appLock>>
     \/ /\ Queued(P(t))
        /\ appLock[P(t)] = NoTx
        /\ appLock' = [appLock EXCEPT ![P(t)] = t]
        /\ wApp' = [wApp EXCEPT ![t] = Gone]
        /\ SyncDone(t, Nil)

TriageStep(t) ==
  \/ LockPosting(t)
  \/ AppSetTriage(t)
  \/ HqDigestSetTriage(t)
  \/ FindApplication(t)
  \/ QueueApplication(t)
  \/ UnqueueApplication(t)
=============================================================================
