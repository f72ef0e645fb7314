------------------------------ MODULE Commands ------------------------------
(***************************************************************************)
(* The write path: how one command (a security-definer RPC) runs as one    *)
(* READ COMMITTED transaction against the tables of one user.              *)
(*                                                                         *)
(* A transaction buffers what it writes and publishes it at commit; other  *)
(* transactions see only what is committed, except through the row locks.  *)
(* Every command first asks command_idempotency whether its key was        *)
(* already answered, takes the lock on the row it is about, asks again,    *)
(* and decides.  The modules Triage and Pipeline add the decisions.        *)
(*                                                                         *)
(* A gesture is fixed when it is minted (the client generates its key and  *)
(* keeps it over retries), and any number of transactions may carry it: a  *)
(* retry, a double delivery, a lost response.                              *)
(***************************************************************************)
EXTENDS Integers, Sequences, StatusLadder

CONSTANTS
  Txns,        \* transactions: one delivery of one gesture each
  Keys,        \* idempotency keys
  Postings,    \* the postings the user was gated for
  Choices,     \* triage decisions [triage, reason, wake]
  Statuses,    \* application statuses in play
  Nexts,       \* texts of "next action"
  Stamps,      \* what evidence and last_activity of an application may hold
  NoDate,      \* the null wake date
  NoTx,        \* no transaction holds the lock
  Nil,         \* SQL null: no row, no value
  Gone         \* a buffered delete

Triages == {"", "interested", "dismissed", "snoozed"}
Actors  == {"system", "user"}

(* A choice is what passed validation: a snooze, and only a snooze, has a  *)
(* wake date (the CHECK snooze_has_a_date and the gesture's own guard).    *)
ASSUME ChoicesAssumption ==
  \A c \in Choices : c.triage \in Triages /\ (c.triage = "snoozed" <=> c.wake # NoDate)
ASSUME NullsAssumption == NoTx \notin Txns
ASSUME BlanksAssumption == "" \in Nexts /\ "" \in Stamps /\ {"Inbox", "Queued"} \subseteq Statuses

TriageCommands == {"app_set_triage", "hq_digest_set_triage"}
RowCommands    == {"app_set_status", "app_resolve_suggestion",
                   "app_add_note", "app_set_next_action"}
CasCommands    == {"app_set_triage", "app_set_status",
                   "app_resolve_suggestion", "app_set_next_action"}
EmailCommand   == "hq_apply_email_event"
CommandNames   == TriageCommands \cup RowCommands \cup {EmailCommand}

VARIABLES
  \* committed tables
  up,        \* user_postings: posting -> [choice, ver]; ver is updated_at
  app,       \* applications: posting -> row or Nil; unique (user, posting)
  idem,      \* command_idempotency: key -> [cmd, res] or Nil
  events,    \* the audit trail, each event with the application id it was written with
  board,     \* postings.status: posting -> "absent", "open" or "Closed"
  \* outside the store
  gest,      \* key -> the gesture minted under it, or Nil
  clock,     \* transactions started so far; a transaction's now()
  \* per transaction
  pc, key, now,
  res,       \* v_result, what the caller will be told
  reply,     \* how the call ended
  wUp, wApp, wEv,   \* uncommitted writes
  \* per posting
  upLock,    \* who holds the user_postings row
  appLock    \* who holds the application row, or its place in the unique index

tables  == <<up, app, idem, events, board>>
writes  == <<wUp, wApp, wEv>>
locks   == <<upLock, appLock>>
session == <<key, now>>
vars    == <<tables, gest, clock, pc, session, res, reply, writes, locks>>

UpRows  == [choice: Choices, ver: Nat]
AppRows == [id: Nat, status: Statuses, actor: Actors, sugg: Statuses \cup {""},
            next: Nexts, seen: Stamps, notes: SUBSET Keys, ver: Nat]

G(t)   == gest[key[t]]
P(t)   == G(t).posting
Cmd(t) == G(t).cmd
Hit(t) == idem[key[t]] # Nil

(* null expectation: the caller read nothing and accepts last-write-wins *)
Stale(t, row) == G(t).expect # Nil /\ row.ver # G(t).expect

Release(t) ==
  /\ upLock'  = [p \in Postings |-> IF upLock[p] = t THEN NoTx ELSE upLock[p]]
  /\ appLock' = [p \in Postings |-> IF appLock[p] = t THEN NoTx ELSE appLock[p]]

DropWrites(t) ==
  /\ wUp'  = [wUp EXCEPT ![t] = Nil]
  /\ wApp' = [wApp EXCEPT ![t] = Nil]
  /\ wEv'  = [wEv EXCEPT ![t] = Nil]

(* `raise exception`, or a connection that went away: nothing is written. *)
Fail(t, code) ==
  /\ pc'    = [pc EXCEPT ![t] = "done"]
  /\ reply' = [reply EXCEPT ![t] = code]
  /\ res'   = [res EXCEPT ![t] = Nil]
  /\ Release(t) /\ DropWrites(t)
  /\ UNCHANGED <<tables, gest, clock, session>>

Goto(t, label) == pc' = [pc EXCEPT ![t] = label]

(* Mutant of AnswerStored: a replay is told what the row says today. *)
AnswerToday(t) ==
  /\ Hit(t)
  /\ res' = [res EXCEPT ![t] = up[P(t)]]
  /\ Goto(t, "commit")
  /\ UNCHANGED <<tables, gest, clock, session, reply, writes, locks>>

(***************************************************************************)
(* A replay found behind the lock, and the no-op branches, answer without  *)
(* touching a table; what is left to do is commit.                         *)
(***************************************************************************)
AnswerStored(t) ==
  /\ Hit(t)
  /\ res' = [res EXCEPT ![t] = idem[key[t]].res]
  /\ Goto(t, "commit")
  /\ UNCHANGED <<tables, gest, clock, session, reply, writes, locks>>

AnswerUnchanged(t, row) ==
  /\ res' = [res EXCEPT ![t] = row]
  /\ Goto(t, "commit")
  /\ UNCHANGED <<tables, gest, clock, session, reply, writes, locks>>

-----------------------------------------------------------------------------
(* The client fixes a gesture under a fresh key. *)
Mint(k, g) ==
  /\ gest[k] = Nil
  /\ gest' = [gest EXCEPT ![k] = g]
  /\ UNCHANGED <<tables, clock, pc, session, res, reply, writes, locks>>

(* The transaction starts, which fixes its now(), and looks its key up     *)
(* without holding anything: this settles sequential replays only.         *)
Deliver(t, k) ==
  /\ pc[t] = "idle" /\ gest[k] # Nil
  /\ clock' = clock + 1
  /\ now' = [now EXCEPT ![t] = clock + 1]
  /\ key' = [key EXCEPT ![t] = k]
  /\ IF idem[k] = Nil
       THEN /\ Goto(t, "lock")
            /\ UNCHANGED <<res, reply>>
       ELSE /\ Goto(t, "done")
            /\ res' = [res EXCEPT ![t] = idem[k].res]
            /\ reply' = [reply EXCEPT ![t] = "ok"]
  /\ UNCHANGED <<tables, gest, writes, locks>>

(* Mutant of Commit: a deleted application leaves its mark in the table. *)
CommitTombstone(t) ==
  /\ pc[t] = "commit"
  /\ up'  = IF wUp[t] = Nil THEN up ELSE [up EXCEPT ![P(t)] = wUp[t]]
  /\ app' = IF wApp[t] = Nil THEN app ELSE [app EXCEPT ![P(t)] = wApp[t]]
  /\ events' = IF wEv[t] = Nil THEN events ELSE Append(events, wEv[t])
  /\ idem' = IF Hit(t) THEN idem
             ELSE [idem EXCEPT ![key[t]] = [cmd |-> Cmd(t), res |-> res[t]]]
  /\ Goto(t, "done")
  /\ reply' = [reply EXCEPT ![t] = "ok"]
  /\ Release(t) /\ DropWrites(t)
  /\ UNCHANGED <<board, gest, clock, session, res>>

(* Store the result under the key unless the key already has one, publish, *)
(* release the locks and answer.                                           *)
Commit(t) ==
  /\ pc[t] = "commit"
  /\ up'  = IF wUp[t] = Nil THEN up ELSE [up EXCEPT ![P(t)] = wUp[t]]
  /\ app' = IF wApp[t] = Nil THEN app
            ELSE [app EXCEPT ![P(t)] = IF wApp[t] = Gone THEN Nil ELSE wApp[t]]
  /\ events' = IF wEv[t] = Nil THEN events ELSE Append(events, wEv[t])
  /\ idem' = IF Hit(t) THEN idem
             ELSE [idem EXCEPT ![key[t]] = [cmd |-> Cmd(t), res |-> res[t]]]
  /\ Goto(t, "done")
  /\ reply' = [reply EXCEPT ![t] = "ok"]
  /\ Release(t) /\ DropWrites(t)
  /\ UNCHANGED <<board, gest, clock, session, res>>

(* The connection is lost, or the server stopped, before the commit. *)
Lose(t) ==
  /\ pc[t] \notin {"idle", "done"}
  /\ Fail(t, "lost")

(* The sweep mirrors a posting the store did not have yet, or finds a      *)
(* listing gone from its board.                                            *)
Sweep(p) ==
  /\ \/ board[p] = "absent" /\ board' = [board EXCEPT ![p] = "open"]
     \/ board[p] = "open" /\ board' = [board EXCEPT ![p] = "Closed"]
  /\ UNCHANGED <<up, app, idem, events, gest, clock, pc, session, res, reply, writes, locks>>
=============================================================================
