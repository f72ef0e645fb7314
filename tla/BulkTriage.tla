----------------------------- MODULE BulkTriage -----------------------------
(***************************************************************************)
(* app_set_triage_bulk: one decision about many postings, in one           *)
(* transaction.  The rows are locked one by one in the order the caller    *)
(* listed them, so two batches can wait for each other, and Postgres then  *)
(* aborts one of them.  Unlike app_set_triage it looks its key up once,    *)
(* before it holds any lock, and tests the version before the no-op.       *)
(*                                                                         *)
(* The application side is reduced to what a batch reads and writes of it: *)
(* whether there is a row and whether it is Queued.  The other lanes       *)
(* (email, pipeline page) run as atomic steps here; their interleavings    *)
(* with a triage are the subject of Lifecycle.                             *)
(***************************************************************************)
EXTENDS Integers, Sequences

CONSTANTS
  Txns, Keys, Postings,
  Choices,        \* triage decisions in play ("" is undecided)
  Batches,        \* the selections: sequences of distinct postings
  Expecting,      \* whether callers send versions: a subset of BOOLEAN
  NoTx, Nil

ASSUME BatchesAssumption ==
  \A b \in Batches : b \in Seq(Postings) /\ Len(b) >= 1 /\ \A i, j \in 1 .. Len(b) :
    b[i] \in Postings /\ (b[i] = b[j] => i = j)
ASSUME LocksAssumption == NoTx \notin Txns

UpRows == [choice: Choices \cup {""}, ver: Nat]
Gestures == [batch: Batches, choice: Choices,
             expect: UNION {[1 .. Len(b) -> Nat \cup {Nil}] : b \in Batches}]
ASSUME RowsAssumption == Nil \notin UpRows \cup {"none", "Queued"} \cup Gestures

VARIABLES
  up,      \* user_postings: posting -> [choice, ver]
  app,     \* applications: posting -> "none", "Queued" or "moved"
  idem,    \* command_idempotency: key -> result or Nil
  events,  \* the audit trail, [key, posting, to]
  gest,    \* key -> [batch, choice, expect] or Nil
  clock,
  pc, key, now, at,       \* per transaction; at is the loop counter i
  wUp, wApp, wEv, rows,   \* per transaction: uncommitted writes and v_rows
  reply, res,
  upLock                  \* per posting

tables == <<up, app, idem, events>>
buffers == <<wUp, wApp, wEv, rows>>
vars == <<tables, gest, clock, pc, key, now, at, buffers, reply, res, upLock>>

Nothing == [p \in Postings |-> Nil]
G(t)    == gest[key[t]]
Here(t) == G(t).batch[at[t]]

Init ==
  /\ up = [p \in Postings |-> [choice |-> "", ver |-> 0]]
  /\ app = [p \in Postings |-> "none"]
  /\ idem = [k \in Keys |-> Nil]
  /\ events = <<>>
  /\ gest = [k \in Keys |-> Nil]
  /\ clock = 0
  /\ pc = [t \in Txns |-> "idle"]
  /\ key = [t \in Txns |-> Nil]
  /\ now = [t \in Txns |-> 0]
  /\ at = [t \in Txns |-> 0]
  /\ wUp = [t \in Txns |-> Nothing]
  /\ wApp = [t \in Txns |-> Nothing]
  /\ wEv = [t \in Txns |-> <<>>]
  /\ rows = [t \in Txns |-> <<>>]
  /\ reply = [t \in Txns |-> "none"]
  /\ res = [t \in Txns |-> Nil]
  /\ upLock = [p \in Postings |-> NoTx]

(* The client reads the rows and fixes the batch, with the version of each *)
(* row it selected or with none.                                           *)
Mint(k) ==
  /\ gest[k] = Nil
  /\ \E b \in Batches, c \in Choices, v \in Expecting :
       gest' = [gest EXCEPT ![k] =
         [batch |-> b, choice |-> c,
          expect |-> [i \in 1 .. Len(b) |-> IF v THEN up[b[i]].ver ELSE Nil]]]
  /\ UNCHANGED <<tables, clock, pc, key, now, at, buffers, reply, res, upLock>>

Deliver(t, k) ==
  /\ pc[t] = "idle" /\ gest[k] # Nil
  /\ clock' = clock + 1
  /\ now' = [now EXCEPT ![t] = clock + 1]
  /\ key' = [key EXCEPT ![t] = k]
  /\ \/ /\ idem[k] # Nil
        /\ pc' = [pc EXCEPT ![t] = "done"]
        /\ reply' = [reply EXCEPT ![t] = "ok"]
        /\ res' = [res EXCEPT ![t] = idem[k]]
        /\ UNCHANGED at
     \/ /\ idem[k] = Nil
        /\ pc' = [pc EXCEPT ![t] = "loop"]
        /\ at' = [at EXCEPT ![t] = 1]
        /\ UNCHANGED <<reply, res>>
  /\ UNCHANGED <<tables, gest, buffers, upLock>>

Fail(t, code) ==
  /\ pc' = [pc EXCEPT ![t] = "done"]
  /\ reply' = [reply EXCEPT ![t] = code]
  /\ upLock' = [p \in Postings |-> IF upLock[p] = t THEN NoTx ELSE upLock[p]]
  /\ wUp' = [wUp EXCEPT ![t] = Nothing]
  /\ wApp' = [wApp EXCEPT ![t] = Nothing]
  /\ wEv' = [wEv EXCEPT ![t] = <<>>]
  /\ rows' = [rows EXCEPT ![t] = <<>>]
  /\ UNCHANGED <<tables, gest, clock, key, now, at, res>>

(* Mutant of TakeRow: a plain select. *)
ReadRow(t) ==
  /\ pc[t] = "loop" /\ at[t] <= Len(G(t).batch)
  /\ upLock' = [upLock EXCEPT ![Here(t)] = t]
  /\ UNCHANGED <<tables, gest, clock, pc, key, now, at, buffers, reply, res>>

(* select ... for update, if nobody else holds the row *)
TakeRow(t) ==
  /\ pc[t] = "loop" /\ at[t] <= Len(G(t).batch)
  /\ upLock[Here(t)] = NoTx
  /\ upLock' = [upLock EXCEPT ![Here(t)] = t]
  /\ UNCHANGED <<tables, gest, clock, pc, key, now, at, buffers, reply, res>>

Stale(t) == G(t).expect[at[t]] # Nil /\ up[Here(t)].ver # G(t).expect[at[t]]

(* An unchanged row contributes nothing but itself to the answer. *)
KeepRow(t) ==
  /\ rows' = [rows EXCEPT ![t] = Append(@, up[Here(t)])]
  /\ at' = [at EXCEPT ![t] = @ + 1]
  /\ UNCHANGED <<tables, gest, clock, pc, key, now, wUp, wApp, wEv, reply, res, upLock>>

(* update, keep the application in step, append the event(s) *)
WriteRow(t, row, ev) ==
  LET p == Here(t)
      c == G(t).choice
  IN /\ wUp' = [wUp EXCEPT ![t][p] = row]
     /\ wApp' = [wApp EXCEPT ![t][p] =
          IF c = "interested" /\ app[p] = "none" THEN "Queued"
          ELSE IF c # "interested" /\ app[p] = "Queued" THEN "none"
          ELSE Nil]
     /\ wEv' = [wEv EXCEPT ![t] = @ \o ev]
     /\ rows' = [rows EXCEPT ![t] = Append(@, row)]
     /\ at' = [at EXCEPT ![t] = @ + 1]
     /\ UNCHANGED <<tables, gest, clock, pc, key, now, reply, res, upLock>>

Holds(t) == pc[t] = "loop" /\ at[t] <= Len(G(t).batch) /\ upLock[Here(t)] = t
Chosen(t) == [choice |-> G(t).choice, ver |-> now[t]]
Told(t)   == <<[key |-> key[t], posting |-> Here(t), to |-> G(t).choice]>>
Same(t)   == up[Here(t)].choice = G(t).choice

(* Mutants of DecideRow: a conflict skips its row; no version check; an    *)
(* event only with a new application.                                      *)
DecideRowSkipping(t) ==
  /\ Holds(t)
  /\ \/ (Stale(t) \/ Same(t)) /\ KeepRow(t)
     \/ ~Stale(t) /\ ~Same(t) /\ WriteRow(t, Chosen(t), Told(t))

DecideRowUnchecked(t) ==
  /\ Holds(t)
  /\ \/ Same(t) /\ KeepRow(t)
     \/ ~Same(t) /\ WriteRow(t, Chosen(t), Told(t))

DecideRowQuietly(t) ==
  /\ Holds(t)
  /\ \/ Stale(t) /\ Fail(t, "conflict")
     \/ ~Stale(t) /\ Same(t) /\ KeepRow(t)
     \/ /\ ~Stale(t) /\ ~Same(t)
        /\ WriteRow(t, Chosen(t), IF app[Here(t)] = "none" THEN Told(t) ELSE <<>>)

(* One turn of the loop on a row this transaction holds: any conflict     *)
(* fails the whole batch.                                                  *)
DecideRow(t) ==
  /\ Holds(t)
  /\ \/ Stale(t) /\ Fail(t, "conflict")
     \/ ~Stale(t) /\ Same(t) /\ KeepRow(t)
     \/ ~Stale(t) /\ ~Same(t) /\ WriteRow(t, Chosen(t), Told(t))

(* Mutant of Stored: on conflict do update.                                *)
StoredAnyway(t) == [idem EXCEPT ![key[t]] = rows[t]]

(* on conflict do nothing                                                  *)
Stored(t) == IF idem[key[t]] # Nil THEN idem ELSE [idem EXCEPT ![key[t]] = rows[t]]

Commit(t) ==
  /\ pc[t] = "loop" /\ at[t] > Len(G(t).batch)
  /\ up' = [p \in Postings |-> IF wUp[t][p] = Nil THEN up[p] ELSE wUp[t][p]]
  /\ app' = [p \in Postings |-> IF wApp[t][p] = Nil THEN app[p] ELSE wApp[t][p]]
  /\ events' = events \o wEv[t]
  /\ idem' = Stored(t)
  /\ pc' = [pc EXCEPT ![t] = "done"]
  /\ reply' = [reply EXCEPT ![t] = "ok"]
  /\ res' = [res EXCEPT ![t] = rows[t]]
  /\ upLock' = [p \in Postings |-> IF upLock[p] = t THEN NoTx ELSE upLock[p]]
  /\ wUp' = [wUp EXCEPT ![t] = Nothing]
  /\ wApp' = [wApp EXCEPT ![t] = Nothing]
  /\ wEv' = [wEv EXCEPT ![t] = <<>>]
  /\ rows' = [rows EXCEPT ![t] = <<>>]
  /\ UNCHANGED <<gest, clock, key, now, at>>

(* Postgres' deadlock detector: in a set of transactions that all wait for *)
(* locks held inside the set, it aborts one (40P01).                       *)
Waits(t, u) ==
  /\ pc[t] = "loop" /\ at[t] <= Len(G(t).batch)
  /\ upLock[Here(t)] = u /\ u # t

DeadlockVictim(t) ==
  /\ \E S \in SUBSET Txns : t \in S /\ \A u \in S : \E v \in S : Waits(u, v)
  /\ Fail(t, "deadlock")

Lose(t) == pc[t] = "loop" /\ Fail(t, "lost")

(* Another lane gives the posting an application, or moves a Queued one    *)
(* on, unless a batch has an uncommitted write there.                      *)
OtherLane(p) ==
  /\ app[p] # "moved" /\ \A t \in Txns : wApp[t][p] = Nil
  /\ app' = [app EXCEPT ![p] = "moved"]
  /\ UNCHANGED <<up, idem, events, gest, clock, pc, key, now, at, buffers, reply, res, upLock>>

Serve(t) == TakeRow(t) \/ DecideRow(t) \/ Commit(t) \/ DeadlockVictim(t)

AllServed == (\A t \in Txns : pc[t] = "done") /\ UNCHANGED vars

Next ==
  \/ \E k \in Keys : Mint(k)
  \/ \E t \in Txns, k \in Keys : Deliver(t, k)
  \/ \E t \in Txns : Serve(t)
  \/ \E t \in Txns : Lose(t)
  \/ \E p \in Postings : OtherLane(p)
  \/ AllServed

Spec == Init /\ [][Next]_vars

-----------------------------------------------------------------------------
TypeOK ==
  /\ up \in [Postings -> UpRows]
  /\ app \in [Postings -> {"none", "Queued", "moved"}]
  /\ pc \in [Txns -> {"idle", "loop", "done"}]
  /\ now \in [Txns -> Nat] /\ at \in [Txns -> Nat]
  /\ upLock \in [Postings -> Txns \cup {NoTx}]
  /\ reply \in [Txns -> {"none", "ok", "conflict", "deadlock", "lost"}]

Commits(t) == pc[t] = "loop" /\ pc'[t] = "done" /\ reply'[t] = "ok"

(* All or nothing: when postings change, it is one batch committing, every *)
(* posting of that batch ends with its decision, and nothing outside the   *)
(* batch moves ("a conflict on any single row rolls the entire batch       *)
(* back").                                                                 *)
BatchWhole ==
  [][up' # up =>
       \E t \in Txns :
         /\ Commits(t)
         /\ \A i \in 1 .. Len(G(t).batch) : up'[G(t).batch[i]].choice = G(t).choice
         /\ \A p \in Postings : up'[p] # up[p] =>
              \E i \in 1 .. Len(G(t).batch) : G(t).batch[i] = p]_vars

(* Compare and set across the whole batch: when it commits, every row of   *)
(* it, the unchanged ones included, is still the version the client read.  *)
BatchSeesItsVersions ==
  [][\A t \in Txns : Commits(t) =>
       \A i \in 1 .. Len(G(t).batch) :
         G(t).expect[i] # Nil => up[G(t).batch[i]].ver = G(t).expect[i]]_vars

(* A batch that carries the versions it read takes effect at most once on  *)
(* any posting, although its key is looked up only before the locks: the   *)
(* version check of the second delivery stops it.  (A caller that sends    *)
(* none has no such guard.)                                                *)
Twice(i, j) == i # j /\ events[i].key = events[j].key /\ events[i].posting = events[j].posting
VersionedBatchOnce ==
  \A i, j \in 1 .. Len(events) :
    Twice(i, j) => \E n \in 1 .. Len(gest[events[i].key].batch) :
                     gest[events[i].key].expect[n] = Nil

(* The trail's last word about a posting is its decision, and everything    *)
(* keeps the shape of the table or transaction it stands for.              *)
Consistent ==
  TypeOK /\ \A p \in Postings, i \in 1 .. Len(events) :
    events[i].posting = p /\ (\A j \in i + 1 .. Len(events) : events[j].posting # p)
      => up[p].choice = events[i].to

-----------------------------------------------------------------------------
(* "Repeating the key returns the first result instead of applying twice": *)
(* a delivery of a batch that has been answered is not told of a conflict. *)
BatchReplayAnswered ==
  [][\A t \in Txns : reply[t] = "none" /\ reply'[t] = "conflict" => idem[key[t]] = Nil]_vars
=============================================================================
