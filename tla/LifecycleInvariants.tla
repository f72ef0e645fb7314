------------------------ MODULE LifecycleInvariants -------------------------
(***************************************************************************)
(* The inductive invariant behind the theorems about Lifecycle: who holds  *)
(* which row at which point of a command, and what a pending command and   *)
(* the trail know of each other.                                           *)
(***************************************************************************)
EXTENDS Lifecycle

(* The command has its row and has not finished. *)
Deciding(t) == pc[t] \in {"check", "sync", "insert", "commit"}

(* Which commands pass through which point. *)
Staged(t) ==
  /\ pc[t] = "sync" => Cmd(t) \in TriageCommands
  /\ pc[t] \in {"again", "noted"} => Cmd(t) = EmailCommand
  /\ pc[t] = "insert" => Cmd(t) \notin RowCommands

(* From the read to the commit a command about a posting holds the posting *)
(* row, and a command about an application holds an application row that   *)
(* exists; whoever has written an application, in any lane, holds it.  A   *)
(* delete is buffered only by a command that has nothing left to decide.   *)
Holds(t) ==
  /\ Deciding(t) /\ Cmd(t) \in TriageCommands => upLock[P(t)] = t
  /\ Deciding(t) /\ Cmd(t) \in RowCommands => appLock[P(t)] = t
  /\ pc[t] = "check" /\ Cmd(t) \in RowCommands => app[P(t)] # Nil
  /\ wApp[t] # Nil =>
       /\ appLock[P(t)] = t
       /\ pc[t] = "commit" \/ (pc[t] = "check" /\ Cmd(t) = EmailCommand)
  /\ pc[t] # "commit" => wApp[t] \in AppRows \cup {Nil}

LockInv == TypeOK /\ \A t \in Txns : Staged(t) /\ Holds(t)

(* A posting is held by a triage of it, an application by a command that   *)
(* has taken all it takes: the posting always comes before the application.*)
Held(t) ==
  \A p \in Postings :
    /\ upLock[p] = t => P(t) = p /\ Deciding(t) /\ Cmd(t) \in TriageCommands
    /\ appLock[p] = t =>
         /\ P(t) = p
         /\ pc[t] = "commit" \/ (pc[t] = "check" /\ Cmd(t) \notin TriageCommands)

HeldInv == \A t \in Txns : Held(t)

-----------------------------------------------------------------------------
(***************************************************************************)
(* What keeps a key from taking effect twice.                              *)
(***************************************************************************)
TriageEvents ==
  [key: Keys, kind: {"triage"}, posting: Postings, id: Nat \cup {Nil}, to: Choices]
RowEvents ==
  [key: Keys, kind: {"status", "confirmed", "rejected", "note", "next", "unapplied"}
                       \cup EmailOutcomes,
   posting: Postings, id: Nat \cup {Nil}, to: Statuses \cup Nexts \cup {""}]
EventRecords == TriageEvents \cup RowEvents
ASSUME EventsAssumption == Nil \notin EventRecords

TrailOK ==
  /\ events \in Seq(EventRecords)
  /\ wEv \in [Txns -> EventRecords \cup {Nil}]

Applied(k) == \E i \in 1 .. Len(events) : Effect(events[i]) /\ events[i].key = k

(* The command has decided to write and has not committed. *)
Pending(t) ==
  \/ pc[t] \in {"sync", "insert"} /\ Cmd(t) \in TriageCommands
  \/ pc[t] = "commit" /\ wEv[t] # Nil /\ Effect(wEv[t])

(* A buffered event is its transaction's own.  While a command is pending  *)
(* no other delivery of its key has committed an effect: it looked the key *)
(* up holding the row, and still holds it.                                 *)
Buffered(t) ==
  /\ wEv[t] # Nil => wEv[t].key = key[t] /\ pc[t] \in {"commit", "noted"}
  /\ pc[t] = "noted" /\ wEv[t] # Nil => ~Effect(wEv[t])
  /\ Pending(t) => ~Applied(key[t])
  /\ Pending(t) /\ Cmd(t) = EmailCommand => appLock[P(t)] = t

OnceInv ==
  /\ TrailOK
  /\ AppliedOnce
  /\ \A k \in Keys : Applied(k) => idem[k] # Nil
  /\ \A t \in Txns : Buffered(t)

-----------------------------------------------------------------------------
(***************************************************************************)
(* Stamps.  A transaction stamps what it writes with its now(); no row, no *)
(* expectation and no event bears the stamp of one that is still running.  *)
(***************************************************************************)
Running(t) == pc[t] \notin {"idle", "done"}

Spent(n) ==
  \/ \E p \in Postings : up[p].ver = n
  \/ \E p \in Postings : app[p] # Nil /\ n \in {app[p].id, app[p].ver}
  \/ \E k \in Keys : gest[k] # Nil /\ gest[k].expect = n
  \/ \E i \in 1 .. Len(events) : events[i].id = n

StampInv ==
  /\ \A t \in Txns : Running(t) => now[t] \in 1 .. clock
  /\ \A t, u \in Txns : Running(t) /\ Running(u) /\ now[t] = now[u] => t = u
  /\ \A n \in Nat : Spent(n) => n <= clock /\ \A t \in Txns : Running(t) => now[t] # n

-----------------------------------------------------------------------------
(***************************************************************************)
(* What a command has buffered, against the rows it holds.                 *)
(***************************************************************************)

(* The row already says what the command asks for.                         *)
Agrees(t) ==
  LET choice == up[P(t)].choice
  IN IF Cmd(t) = "app_set_triage" THEN choice = G(t).arg
     ELSE choice.triage = G(t).arg.triage /\ choice.wake = NoDate

(* A buffered decision changes the row its caller read, under a key that   *)
(* has no answer; one that changes nothing answers with the row.           *)
ChoiceMade(t) ==
  wUp[t] # Nil =>
    /\ pc[t] \in {"sync", "insert", "commit"} /\ Cmd(t) \in TriageCommands
    /\ wUp[t] = [choice |-> G(t).arg, ver |-> now[t]] /\ res[t] = wUp[t]
    /\ idem[key[t]] = Nil
    /\ ~Agrees(t)
    /\ G(t).expect # Nil => up[P(t)].ver = G(t).expect

ChoiceKept(t) ==
  pc[t] \in {"sync", "insert", "commit"} /\ Cmd(t) \in TriageCommands =>
    /\ pc[t] \in {"sync", "insert"} => wUp[t] # Nil
    /\ pc[t] = "insert" => G(t).arg.triage = "interested"
    /\ pc[t] = "commit" /\ wUp[t] = Nil =>
         /\ wApp[t] = Nil /\ wEv[t] = Nil
         /\ idem[key[t]] = Nil => Agrees(t) /\ res[t] = up[P(t)]

(* The application goes along with a decision.                             *)
InStep(t) ==
  pc[t] = "commit" /\ wUp[t] # Nil =>
    /\ \E id \in {Nil, now[t]} : wEv[t] = TriageEvent(t, id)
    /\ IF G(t).arg.triage = "interested"
         THEN wApp[t] \in AppRows \/ (wApp[t] = Nil /\ app[P(t)] # Nil)
         ELSE wApp[t] \in {Nil, Gone}

(* What no bot may do to a row.                                            *)
Defers(old, new) ==
  /\ new.actor = old.actor
  /\ old.actor = "user" => new.status = old.status
  /\ new.status # old.status =>
       Rank(new.status) > Rank(old.status) /\ new.status \notin Resolved
  /\ old.sugg # "" => new.sugg # ""

(* A buffered application replaces the row it was made from: only a Queued *)
(* one is deleted, a new one has the transaction's stamp, a changed one    *)
(* the version its caller read.                                            *)
Rewrites(t) ==
  /\ wApp[t] = Gone => wUp[t] # Nil /\ G(t).arg.triage # "interested" /\ Queued(P(t))
  /\ wApp[t] \in AppRows /\ app[P(t)] = Nil =>
       wApp[t].id = now[t] /\ wApp[t].ver = now[t] /\ Cmd(t) \notin RowCommands
  /\ wApp[t] \in AppRows /\ app[P(t)] # Nil =>
       /\ Cmd(t) \notin TriageCommands
       /\ wApp[t].id = app[P(t)].id
       /\ wApp[t].ver = now[t] \/ Bare(wApp[t]) = Bare(app[P(t)])
       /\ Cmd(t) \in RowCommands /\ G(t).expect # Nil => app[P(t)].ver = G(t).expect
       /\ Cmd(t) = EmailCommand => pc[t] = "commit" /\ Defers(app[P(t)], wApp[t])

(* The buffered event says what the buffered rows do.                      *)
SaysStatus(t) == wEv[t] # Nil /\ wEv[t].kind \in StatusKinds

Told(t) ==
  /\ pc[t] = "check" /\ wApp[t] # Nil => wApp[t].status = "Inbox"
  /\ pc[t] = "noted" /\ wEv[t] # Nil => wEv[t].kind = "unapplied" /\ wEv[t].id = Nil
  /\ pc[t] = "commit" =>
       /\ wEv[t] # Nil /\ wEv[t].kind = "triage" => wUp[t] # Nil
       /\ wEv[t] # Nil => \/ wEv[t].id \in {Nil, now[t]}
                          \/ wApp[t] \in AppRows /\ wEv[t].id = wApp[t].id
       /\ SaysStatus(t) => /\ wEv[t].posting = P(t)
                           /\ \/ wEv[t].id = Nil
                              \/ /\ wApp[t] \in AppRows
                                 /\ wEv[t].id = wApp[t].id /\ wEv[t].to = wApp[t].status
       /\ wApp[t] \in AppRows /\ ~(SaysStatus(t) /\ wEv[t].id # Nil) =>
            IF app[P(t)] = Nil THEN wApp[t].status \in {"Queued", "Inbox"}
            ELSE wApp[t].status = app[P(t)].status

(* What the caller is told is what is stored under the key, or is about to *)
(* be.                                                                     *)
Answered(t) ==
  /\ pc[t] = "commit" /\ Cmd(t) # EmailCommand /\ idem[key[t]] # Nil =>
       res[t] = idem[key[t]].res
  /\ reply[t] = "ok" =>
       pc[t] = "done" /\ (Cmd(t) # EmailCommand =>
                            idem[key[t]] # Nil /\ res[t] = idem[key[t]].res)

Grounded(t) ==
  /\ ChoiceMade(t) /\ ChoiceKept(t) /\ InStep(t) /\ Rewrites(t) /\ Told(t) /\ Answered(t)

WriteInv == StampInv /\ \A t \in Txns : Grounded(t)
=============================================================================
