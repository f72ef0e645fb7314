-------------------------- MODULE WritePathProofs ---------------------------
(***************************************************************************)
(* What the write path promises of its rows, its answers and its trail,    *)
(* for any number of transactions, keys and postings.                      *)
(*                                                                         *)
(* A command reads its row, buffers what it will write and commits later;  *)
(* whether the write is still right at the commit is the whole question.   *)
(* WriteInv says that it is, for every command and at every point of it:   *)
(* the buffered decision, application and event stand in the right         *)
(* relation to the rows as they are now, not as they were when they were   *)
(* read.  It is kept because the rows a command relies on are held by it   *)
(* (LockInv), because a key is answered by whoever holds its row           *)
(* (OnceInv), and because a stamp is spent by its own transaction only.    *)
(* Each property then is one look at what a commit writes (CommitMoves).   *)
(***************************************************************************)
EXTENDS LifecycleProofs, LifecycleRefinement

USE DEF CommandNames, TriageCommands, RowCommands, EmailCommand

(* A transaction that holds nothing back holds nothing.                    *)
LEMMA EmptyHands ==
  ASSUME LockInv, OnceInv, NEW t \in Txns, Grounded(t),
         pc[t] \in {"idle", "lock", "again", "done"}
  PROVE  wUp[t] = Nil /\ wApp[t] = Nil /\ wEv[t] = Nil
<1>1. wUp[t] = Nil
  BY DEF Grounded, ChoiceMade
<1>2. wApp[t] = Nil
  BY DEF LockInv, Holds
<1>3. wEv[t] = Nil
  BY NothingBuffered
<1> QED BY <1>1, <1>2, <1>3

(* What a transaction knows stays true while the rows it holds, the        *)
(* application of a posting it decides about and the answer to its key     *)
(* stay.                                                                   *)
LEMMA GroundKept ==
  ASSUME LockInv, OnceInv, NEW u \in Txns, Grounded(u),
         pc'[u] = pc[u], key'[u] = key[u], now'[u] = now[u], res'[u] = res[u],
         reply'[u] = reply[u], wUp'[u] = wUp[u], wApp'[u] = wApp[u], wEv'[u] = wEv[u],
         pc[u] # "idle" =>
           /\ gest'[key[u]] = gest[key[u]]
           /\ Deciding(u) /\ Cmd(u) \in TriageCommands =>
                up'[P(u)] = up[P(u)] /\ (app[P(u)] # Nil => app'[P(u)] # Nil)
           /\ appLock[P(u)] = u => app'[P(u)] = app[P(u)]
           /\ Deciding(u) /\ Cmd(u) # EmailCommand => idem'[key[u]] = idem[key[u]]
           /\ idem[key[u]] # Nil => idem'[key[u]] = idem[key[u]]
  PROVE  Grounded(u)'
<1>1. CASE pc[u] = "idle"
  <2>1. wUp[u] = Nil /\ wApp[u] = Nil /\ wEv[u] = Nil /\ reply[u] # "ok"
    BY <1>1, EmptyHands DEF Grounded, Answered
  <2>2. (ChoiceMade(u) /\ ChoiceKept(u) /\ InStep(u))'
    BY <1>1, <2>1 DEF ChoiceMade, ChoiceKept, InStep
  <2>3. (Rewrites(u) /\ Told(u) /\ Answered(u))'
    BY <1>1, <2>1, AnswersAssumption DEF Rewrites, Told, Answered
  <2> QED BY <2>2, <2>3 DEF Grounded
<1>2. CASE pc[u] # "idle"
  <2>1. G(u)' = G(u) /\ Cmd(u)' = Cmd(u) /\ P(u)' = P(u)
    BY <1>2 DEF G, Cmd, P
  <2>2. Cmd(u) \in CommandNames
    BY <1>2, Carried DEF LockInv
  <2>3. wApp[u] # Nil => app'[P(u)] = app[P(u)]
    BY <1>2 DEF LockInv, Holds
  <2>4. ChoiceMade(u)'
    BY <1>2, <2>1, <2>2 DEF Grounded, ChoiceMade, Agrees, Deciding
  <2>5. ChoiceKept(u)'
    BY <1>2, <2>1, <2>2 DEF Grounded, ChoiceKept, Agrees, Deciding
  <2>6. InStep(u)'
    <3>1. wUp[u] # Nil => Cmd(u) \in TriageCommands
      BY DEF Grounded, ChoiceMade
    <3>2. \A id : TriageEvent(u, id)' = TriageEvent(u, id)
      BY <2>1 DEF TriageEvent
    <3> QED BY <1>2, <2>1, <3>1, <3>2 DEF Grounded, InStep, Deciding
  <2>7. Rewrites(u)'
    <3>1. wApp[u] = Nil => Rewrites(u)'
      BY AnswersAssumption DEF Rewrites
    <3>2. wApp[u] # Nil => Rewrites(u)'
      BY <1>2, <2>1, <2>3 DEF Grounded, Rewrites, Queued
    <3> QED BY <3>1, <3>2
  <2>8. Told(u)'
    <3>1. SaysStatus(u)' <=> SaysStatus(u)
      BY DEF SaysStatus
    <3> QED BY <2>1, <2>3, <3>1, AnswersAssumption DEF Grounded, Told
  <2>9. Answered(u)'
    BY <1>2, <2>1, <2>2 DEF Grounded, Answered, Deciding
  <2> QED BY <2>4, <2>5, <2>6, <2>7, <2>8, <2>9 DEF Grounded
<1> QED BY <1>1, <1>2

(* A step of t that writes no table and touches no other transaction.      *)
Aside(t) ==
  /\ up' = up /\ app' = app /\ idem' = idem
  /\ \A u \in Txns \ {t} :
       /\ pc'[u] = pc[u] /\ key'[u] = key[u] /\ now'[u] = now[u] /\ res'[u] = res[u]
       /\ reply'[u] = reply[u]
       /\ wUp'[u] = wUp[u] /\ wApp'[u] = wApp[u] /\ wEv'[u] = wEv[u]
       /\ pc[u] # "idle" => gest'[key[u]] = gest[key[u]]

LEMMA AsideKeeps ==
  ASSUME LockInv, OnceInv, NEW t, Aside(t), NEW u \in Txns, u # t, Grounded(u)
  PROVE  Grounded(u)'
  BY GroundKept DEF Aside

(* No stamp is spent that a running transaction still bears.               *)
LEMMA StampsKept ==
  ASSUME StampInv, now' = now, clock' = clock,
         \A u \in Txns : Running(u)' => Running(u),
         \A n \in Nat : Spent(n)' => \/ Spent(n)
                                     \/ \E t \in Txns : Running(t) /\ ~Running(t)' /\ n = now[t]
  PROVE  StampInv'
<1>1. \A t \in Txns : Running(t)' => now'[t] \in 1 .. clock'
  BY DEF StampInv
<1>2. \A t, u \in Txns : Running(t)' /\ Running(u)' /\ now'[t] = now'[u] => t = u
  BY DEF StampInv
<1>3. ASSUME NEW n \in Nat, Spent(n)'
      PROVE  n <= clock' /\ \A u \in Txns : Running(u)' => now'[u] # n
  <2>1. CASE Spent(n)
    BY <2>1 DEF StampInv
  <2>2. ASSUME NEW t \in Txns, Running(t), ~Running(t)', n = now[t]
        PROVE  n <= clock' /\ \A u \in Txns : Running(u)' => now'[u] # n
    BY <2>2 DEF StampInv
  <2> QED BY <1>3, <2>1, <2>2
<1> QED BY <1>1, <1>2, <1>3 DEF StampInv

(* A step of a running transaction that stamps nothing.                    *)
InPlace(t) ==
  /\ Aside(t) /\ Running(t)
  /\ UNCHANGED <<gest, events, clock, key, now>>

LEMMA InPlaceKeeps ==
  ASSUME LockInv, OnceInv, WriteInv, NEW t \in Txns, InPlace(t), Grounded(t)'
  PROVE  WriteInv'
<1>1. \A u \in Txns : Running(u)' => Running(u)
  BY DEF InPlace, Aside, Running
<1>2. \A n \in Nat : Spent(n)' => Spent(n)
  BY DEF InPlace, Aside, Spent
<1>3. StampInv'
  BY <1>1, <1>2, StampsKept DEF WriteInv, InPlace
<1>4. \A u \in Txns : Grounded(u)'
  BY AsideKeeps DEF WriteInv, InPlace
<1> QED BY <1>3, <1>4 DEF WriteInv

(* A transaction with nothing buffered and nothing decided.                *)
LEMMA EmptyGrounded ==
  ASSUME NEW t,
         wUp'[t] = Nil, wApp'[t] = Nil, wEv'[t] = Nil,
         pc'[t] # "commit",
         pc'[t] \in {"sync", "insert"} => Cmd(t)' = EmailCommand,
         reply'[t] = "ok" => pc'[t] = "done" /\ (Cmd(t)' # EmailCommand =>
                               idem'[key'[t]] # Nil /\ res'[t] = idem'[key'[t]].res)
  PROVE  Grounded(t)'
<1>1. (ChoiceMade(t) /\ ChoiceKept(t) /\ InStep(t))'
  BY DEF ChoiceMade, ChoiceKept, InStep
<1>2. (Rewrites(t) /\ Told(t))'
  BY AnswersAssumption DEF Rewrites, Told
<1>3. Answered(t)'
  BY DEF Answered
<1> QED BY <1>1, <1>2, <1>3 DEF Grounded

(* What a running transaction has been told. *)
LEMMA NotYet ==
  ASSUME NEW t, Grounded(t), pc[t] # "done"
  PROVE  reply[t] # "ok"
  BY DEF Grounded, Answered

LEMMA FailGrounded ==
  ASSUME LockInv, OnceInv, WriteInv, NEW t \in Txns, Running(t),
         NEW code, code # "ok", Fail(t, code)
  PROVE  WriteInv'
<1>1. InPlace(t)
  BY DEF LockInv, TypeOK, OnceInv, TrailOK, InPlace, Aside, Fail, DropWrites, tables, session
<1>2. /\ wUp'[t] = Nil /\ wApp'[t] = Nil /\ wEv'[t] = Nil /\ pc'[t] = "done"
      /\ reply'[t] # "ok"
  BY DEF LockInv, TypeOK, OnceInv, TrailOK, Fail, DropWrites
<1> QED BY <1>1, <1>2, EmptyGrounded, InPlaceKeeps

(* A step to another label, with nothing in hand.                          *)
LEMMA MoveGrounded ==
  ASSUME LockInv, OnceInv, WriteInv, NEW t \in Txns,
         pc[t] \in {"lock", "again"} \/ (pc[t] = "insert" /\ Cmd(t) = EmailCommand),
         NEW label \in {"insert", "again", "check"}, Goto(t, label),
         label = "insert" => Cmd(t) = EmailCommand,
         UNCHANGED <<tables, gest, clock, session, res, reply, writes>>
  PROVE  WriteInv'
<1>1. InPlace(t)
  BY DEF LockInv, TypeOK, InPlace, Aside, Running, Goto, tables, session, writes
<1>2. Grounded(t)
  BY DEF WriteInv
<1>3. wUp[t] = Nil /\ wApp[t] = Nil /\ wEv[t] = Nil /\ reply[t] # "ok"
  <2>1. wUp[t] = Nil
    BY <1>2 DEF Grounded, ChoiceMade
  <2>2. wApp[t] = Nil
    BY DEF LockInv, Holds
  <2>3. wEv[t] = Nil
    BY NothingBuffered
  <2> QED BY <1>2, <2>1, <2>2, <2>3, NotYet
<1>4. pc'[t] = label /\ Cmd(t)' = Cmd(t)
  BY DEF LockInv, TypeOK, Goto, session, G, Cmd
<1> QED BY <1>1, <1>3, <1>4, EmptyGrounded, InPlaceKeeps DEF writes

-----------------------------------------------------------------------------
(* Calls and the sweep. *)
LEMMA MintGrounded ==
  ASSUME LockInv, OnceInv, WriteInv, NEW k \in Keys, NEW p \in Postings,
         NEW g \in PostingGestures(p) \cup ApplicationGestures(p), Mint(k, g)
  PROVE  WriteInv'
<1>1. \A u \in Txns : pc[u] # "idle" => gest'[key[u]] = gest[key[u]]
  BY DEF LockInv, TypeOK, Mint
<1>2. \A u \in Txns : Grounded(u)'
  BY <1>1, GroundKept DEF Mint, WriteInv, tables, session, writes, locks
<1>3. g.expect \in Nat => \/ \E q \in Postings : up[q].ver = g.expect
                          \/ app[p] # Nil /\ app[p].ver = g.expect
  BY AnswersAssumption DEF PostingGestures, ApplicationGestures, Expectations, EmailGesture,
     TriageGesture, DigestGesture, StatusGesture, ResolveGesture, NoteGesture, NextGesture
<1>4. \A n \in Nat : Spent(n)' => Spent(n)
  BY <1>3 DEF LockInv, TypeOK, Mint, Spent, tables
<1>5. StampInv'
  BY <1>4, StampsKept DEF WriteInv, Mint, session, Running
<1> QED BY <1>2, <1>5 DEF WriteInv

LEMMA DeliverGrounded ==
  ASSUME LockInv, OnceInv, WriteInv, NEW t \in Txns, NEW k \in Keys, Deliver(t, k)
  PROVE  WriteInv'
<1>1. /\ pc[t] = "idle" /\ clock \in Nat /\ clock' = clock + 1 /\ now'[t] = clock + 1
      /\ key'[t] = k /\ gest' = gest
      /\ \A u \in Txns \ {t} : now'[u] = now[u] /\ pc'[u] = pc[u]
  BY DEF LockInv, TypeOK, Deliver, Goto
<1>2. Aside(t)
  BY DEF LockInv, TypeOK, Aside, Deliver, Goto, tables, writes
<1>3. Grounded(t)'
  <2>1. Grounded(t)
    BY DEF WriteInv
  <2>2. wUp'[t] = Nil /\ wApp'[t] = Nil /\ wEv'[t] = Nil /\ reply[t] # "ok"
    BY <1>1, <2>1, EmptyHands, NotYet DEF Deliver, writes
  <2>3. CASE idem[k] = Nil
    <3>1. pc'[t] = "lock" /\ reply'[t] # "ok"
      BY <2>2, <2>3 DEF LockInv, TypeOK, Deliver, Goto
    <3> QED BY <2>2, <3>1, EmptyGrounded
  <2>4. CASE idem[k] # Nil
    <3>1. pc'[t] = "done" /\ res'[t] = idem'[key'[t]].res /\ idem'[key'[t]] # Nil
      BY <1>1, <2>4 DEF LockInv, TypeOK, Deliver, Goto, tables
    <3> QED BY <2>2, <3>1, EmptyGrounded
  <2> QED BY <2>3, <2>4
<1>4. \A u \in Txns : Grounded(u)'
  BY <1>2, <1>3, AsideKeeps DEF WriteInv
<1>5. \A n : Spent(n)' <=> Spent(n)
  BY DEF Deliver, tables, Spent
<1>6. \A u \in Txns \ {t} : Running(u)' <=> Running(u)
  BY <1>1 DEF Running
<1>7. StampInv'
  <2>1. \A u \in Txns : Running(u)' => now'[u] \in 1 .. clock'
    BY <1>1, <1>6 DEF WriteInv, StampInv
  <2>2. \A u, v \in Txns : Running(u)' /\ Running(v)' /\ now'[u] = now'[v] => u = v
    BY <1>1, <1>6 DEF WriteInv, StampInv
  <2>3. \A n \in Nat : Spent(n)' => n <= clock' /\ \A u \in Txns : Running(u)' => now'[u] # n
    BY <1>1, <1>5, <1>6 DEF WriteInv, StampInv
  <2> QED BY <2>1, <2>2, <2>3 DEF StampInv
<1> QED BY <1>4, <1>7 DEF WriteInv

(* A step that leaves all of this alone. *)
LEMMA OutsideGrounded ==
  ASSUME LockInv, OnceInv, WriteInv,
         UNCHANGED <<up, app, idem, events, gest, clock, pc, session, res, reply, writes>>
  PROVE  WriteInv'
<1>1. \A u \in Txns : Grounded(u)'
  BY GroundKept DEF WriteInv, session, writes
<1>2. \A n \in Nat : Spent(n)' => Spent(n)
  BY DEF Spent
<1>3. StampInv'
  BY <1>2, StampsKept DEF WriteInv, session, Running
<1> QED BY <1>1, <1>3 DEF WriteInv

-----------------------------------------------------------------------------
(* Triage. *)
LEMMA LockPostingGrounded ==
  ASSUME LockInv, OnceInv, WriteInv, NEW t \in Txns, LockPosting(t)
  PROVE  WriteInv'
  BY MoveGrounded DEF LockPosting

(* Behind its row, before it has written.                                  *)
LEMMA NothingWritten ==
  ASSUME LockInv, OnceInv, NEW t \in Txns, Grounded(t), pc[t] = "check"
  PROVE  /\ wUp[t] = Nil /\ wEv[t] = Nil /\ reply[t] # "ok"
         /\ Cmd(t) # EmailCommand => wApp[t] = Nil
<1>1. wUp[t] = Nil
  BY DEF Grounded, ChoiceMade
<1>2. wEv[t] = Nil
  BY NothingBuffered
<1>3. reply[t] # "ok"
  BY NotYet
<1>4. Cmd(t) # EmailCommand => wApp[t] = Nil
  BY DEF LockInv, Holds
<1> QED BY <1>1, <1>2, <1>3, <1>4

(* A replay behind the lock, or a command that finds nothing to change.    *)
LEMMA AnswerGrounded ==
  ASSUME LockInv, OnceInv, WriteInv, NEW t \in Txns, pc[t] = "check", Goto(t, "commit"),
         NEW r, res' = [res EXCEPT ![t] = r],
         Cmd(t) # EmailCommand /\ Hit(t) => r = idem[key[t]].res,
         Cmd(t) \in TriageCommands /\ ~Hit(t) => Agrees(t) /\ r = up[P(t)],
         UNCHANGED <<tables, gest, clock, session, reply, writes, locks>>
  PROVE  WriteInv'
<1>1. InPlace(t)
  BY DEF LockInv, TypeOK, InPlace, Aside, Running, Goto, tables, session, writes
<1>2. Grounded(t)
  BY DEF WriteInv
<1>3. wUp[t] = Nil /\ wEv[t] = Nil /\ reply[t] # "ok" /\ (Cmd(t) # EmailCommand => wApp[t] = Nil)
  BY <1>2, NothingWritten
<1>4. /\ pc'[t] = "commit" /\ res'[t] = r /\ now' = now /\ wUp' = wUp /\ wApp' = wApp /\ wEv' = wEv
      /\ reply' = reply /\ up' = up /\ app' = app /\ idem' = idem /\ key' = key
      /\ G(t)' = G(t) /\ Cmd(t)' = Cmd(t) /\ P(t)' = P(t)
  BY DEF LockInv, TypeOK, Goto, tables, session, writes, G, Cmd, P
<1>5. (ChoiceMade(t) /\ ChoiceKept(t) /\ InStep(t))'
  BY <1>3, <1>4 DEF ChoiceMade, ChoiceKept, InStep, Agrees, Hit
<1>6. Rewrites(t)'
  BY <1>2, <1>3, <1>4 DEF Grounded, Rewrites
<1>7. Told(t)'
  <2>1. wApp[t] \in AppRows => app[P(t)] = Nil /\ wApp[t].status = "Inbox"
    BY <1>2, <1>3, AnswersAssumption DEF Grounded, Told, Rewrites
  <2>2. ~SaysStatus(t)'
    BY <1>3, <1>4 DEF SaysStatus
  <2> QED BY <1>3, <1>4, <2>1, <2>2 DEF Told
<1>8. Answered(t)'
  BY <1>3, <1>4 DEF Answered, Hit
<1> QED BY <1>1, <1>5, <1>6, <1>7, <1>8, InPlaceKeeps DEF Grounded

LEMMA WriteChoiceGrounded ==
  ASSUME LockInv, OnceInv, WriteInv, NEW t \in Txns, pc[t] = "check", Cmd(t) \in TriageCommands,
         ~Hit(t), ~Agrees(t), ~Stale(t, up[P(t)]), WriteChoice(t)
  PROVE  WriteInv'
<1> DEFINE row == [choice |-> G(t).arg, ver |-> now[t]]
<1>1. InPlace(t)
  BY DEF LockInv, TypeOK, InPlace, Aside, Running, WriteChoice, Goto, tables, session
<1>2. wEv[t] = Nil /\ reply[t] # "ok" /\ wApp[t] = Nil
  BY NothingWritten DEF WriteInv
<1>3. /\ pc'[t] = "sync" /\ res'[t] = row /\ wUp'[t] = row /\ now' = now /\ wApp' = wApp /\ wEv' = wEv
      /\ reply' = reply /\ up' = up /\ app' = app /\ idem' = idem /\ key' = key
      /\ G(t)' = G(t) /\ Cmd(t)' = Cmd(t) /\ P(t)' = P(t)
  BY DEF LockInv, TypeOK, WriteChoice, Goto, tables, session, G, Cmd, P
<1>4. row # Nil
  <2>1. row \in UpRows
    BY Arguments DEF LockInv, TypeOK, UpRows
  <2> QED BY <2>1, AnswersAssumption
<1>5. ChoiceMade(t)'
  BY <1>3, <1>4 DEF ChoiceMade, Agrees, Hit, Stale
<1>6. (ChoiceKept(t) /\ InStep(t))'
  BY <1>3, <1>4 DEF ChoiceKept, InStep
<1>7. (Rewrites(t) /\ Told(t) /\ Answered(t))'
  BY <1>2, <1>3, AnswersAssumption DEF Rewrites, Told, Answered
<1> QED BY <1>1, <1>5, <1>6, <1>7, InPlaceKeeps DEF Grounded

LEMMA AppSetTriageGrounded ==
  ASSUME LockInv, OnceInv, WriteInv, NEW t \in Txns, AppSetTriage(t)
  PROVE  WriteInv'
<1>1. pc[t] = "check" /\ Cmd(t) = "app_set_triage"
  BY DEF AppSetTriage
<1>2. Agrees(t) <=> up[P(t)].choice = G(t).arg
  BY <1>1 DEF Agrees
<1>3. CASE AnswerStored(t)
  BY <1>1, <1>3, AnswerGrounded DEF AnswerStored
<1>4. CASE ~Hit(t) /\ up[P(t)].choice = G(t).arg /\ AnswerUnchanged(t, up[P(t)])
  BY <1>1, <1>2, <1>4, AnswerGrounded DEF AnswerUnchanged
<1>5. CASE Fail(t, "conflict")
  BY <1>1, <1>5, FailGrounded DEF Running
<1>6. CASE ~Hit(t) /\ up[P(t)].choice # G(t).arg /\ ~Stale(t, up[P(t)]) /\ WriteChoice(t)
  BY <1>1, <1>2, <1>6, WriteChoiceGrounded
<1> QED BY <1>3, <1>4, <1>5, <1>6 DEF AppSetTriage

LEMMA HqDigestSetTriageGrounded ==
  ASSUME LockInv, OnceInv, WriteInv, NEW t \in Txns, HqDigestSetTriage(t)
  PROVE  WriteInv'
<1> DEFINE same == up[P(t)].choice.triage = G(t).arg.triage /\ up[P(t)].choice.wake = NoDate
<1>1. pc[t] = "check" /\ Cmd(t) = "hq_digest_set_triage"
  BY DEF HqDigestSetTriage
<1>2. Agrees(t) <=> same
  BY <1>1 DEF Agrees
<1>3. CASE AnswerStored(t)
  BY <1>1, <1>3, AnswerGrounded DEF AnswerStored
<1>4. CASE ~Hit(t) /\ same /\ AnswerUnchanged(t, up[P(t)])
  BY <1>1, <1>2, <1>4, AnswerGrounded DEF AnswerUnchanged
<1>5. CASE Fail(t, "gone")
  BY <1>1, <1>5, FailGrounded DEF Running
<1>6. CASE ~Hit(t) /\ ~same /\ WriteChoice(t)
  <2>1. ~Stale(t, up[P(t)])
    BY <1>1, Arguments DEF Stale, LockInv
  <2> QED BY <1>1, <1>2, <1>6, <2>1, WriteChoiceGrounded
<1> QED BY <1>3, <1>4, <1>5, <1>6 DEF HqDigestSetTriage

(* The decision is written; what it does to the application goes along.    *)
LEMMA SyncDoneGrounded ==
  ASSUME LockInv, OnceInv, WriteInv, NEW t \in Txns, pc[t] \in {"sync", "insert"},
         Cmd(t) \in TriageCommands, NEW appId \in {Nil, now[t]}, SyncDone(t, appId),
         NEW w, wApp' = [wApp EXCEPT ![t] = w],
         \/ w = Nil /\ (G(t).arg.triage = "interested" => app[P(t)] # Nil)
         \/ w = Gone /\ G(t).arg.triage # "interested" /\ Queued(P(t))
         \/ /\ w \in AppRows /\ G(t).arg.triage = "interested" /\ app[P(t)] = Nil
            /\ w.id = now[t] /\ w.ver = now[t] /\ w.status = "Queued"
  PROVE  WriteInv'
<1> USE AnswersAssumption
<1> DEFINE e == TriageEvent(t, appId)
<1>1. InPlace(t)
  BY DEF LockInv, TypeOK, OnceInv, TrailOK, InPlace, Aside, Running, SyncDone, Goto, tables,
         session
<1>2. Grounded(t)
  BY DEF WriteInv
<1>3. /\ pc'[t] = "commit" /\ wApp'[t] = w /\ wEv'[t] = e
      /\ res' = res /\ wUp' = wUp /\ now' = now
      /\ reply' = reply /\ up' = up /\ app' = app /\ idem' = idem /\ key' = key
      /\ G(t)' = G(t) /\ Cmd(t)' = Cmd(t) /\ P(t)' = P(t)
  BY DEF LockInv, TypeOK, OnceInv, TrailOK, SyncDone, Goto, tables, session, G, Cmd, P
<1>4. wUp[t] # Nil /\ reply[t] # "ok" /\ idem[key[t]] = Nil
  BY <1>2, NotYet DEF Grounded, ChoiceKept, ChoiceMade
<1>5. e.kind = "triage" /\ e.id = appId /\ e.posting = P(t)
  BY DEF TriageEvent
<1>6. ChoiceMade(t)'
  BY <1>2, <1>3 DEF Grounded, ChoiceMade, Agrees
<1>7. ChoiceKept(t)'
  BY <1>3, <1>4 DEF ChoiceKept
<1>8. InStep(t)'
  <2>1. \A id : TriageEvent(t, id)' = TriageEvent(t, id)
    BY <1>3 DEF TriageEvent
  <2> QED BY <1>3, <2>1 DEF InStep
<1>9. Rewrites(t)'
  BY <1>3, <1>4 DEF Rewrites, Queued
<1>10. Told(t)'
  <2>1. ~SaysStatus(t)'
    BY <1>3, <1>5 DEF SaysStatus, StatusKinds
  <2> HIDE DEF e
  <2> QED BY <1>3, <1>4, <1>5, <2>1 DEF Told
<1>11. Answered(t)'
  BY <1>3, <1>4 DEF Answered
<1> QED BY <1>1, <1>6, <1>7, <1>8, <1>9, <1>10, <1>11, InPlaceKeeps DEF Grounded

LEMMA FindApplicationGrounded ==
  ASSUME LockInv, OnceInv, WriteInv, NEW t \in Txns, FindApplication(t)
  PROVE  WriteInv'
<1>1. pc[t] = "sync" /\ Cmd(t) \in TriageCommands /\ G(t).arg.triage = "interested"
  BY DEF FindApplication, LockInv, Staged
<1>2. wApp[t] = Nil
  BY <1>1 DEF LockInv, Holds
<1>3. CASE app[P(t)] # Nil /\ SyncDone(t, Nil) /\ UNCHANGED <<wApp, appLock>>
  <2>1. wApp' = [wApp EXCEPT ![t] = Nil]
    BY <1>2, <1>3 DEF LockInv, TypeOK
  <2> QED BY <1>1, <1>3, <2>1, SyncDoneGrounded
<1>4. CASE /\ Goto(t, "insert")
           /\ UNCHANGED <<tables, gest, clock, session, res, reply, writes, locks>>
  <2>1. InPlace(t)
    BY <1>1, <1>4 DEF LockInv, TypeOK, InPlace, Aside, Running, Goto, tables, session, writes
  <2>2. /\ pc'[t] = "insert" /\ res' = res /\ wUp' = wUp /\ now' = now /\ wApp' = wApp /\ wEv' = wEv
        /\ reply' = reply /\ up' = up /\ app' = app /\ idem' = idem /\ key' = key
        /\ G(t)' = G(t) /\ Cmd(t)' = Cmd(t) /\ P(t)' = P(t)
    BY <1>4 DEF LockInv, TypeOK, Goto, tables, session, writes, G, Cmd, P
  <2>3. Grounded(t)
    BY DEF WriteInv
  <2>4. reply[t] # "ok"
    BY <1>1, <2>3, NotYet
  <2>5. (ChoiceMade(t) /\ ChoiceKept(t) /\ InStep(t))'
    BY <1>1, <2>2, <2>3 DEF Grounded, ChoiceMade, ChoiceKept, InStep, Agrees
  <2>6. (Rewrites(t) /\ Told(t) /\ Answered(t))'
    BY <1>2, <2>2, <2>4, AnswersAssumption DEF Rewrites, Told, Answered
  <2> QED BY <2>1, <2>5, <2>6, InPlaceKeeps DEF Grounded
<1> QED BY <1>3, <1>4 DEF FindApplication

LEMMA QueueApplicationGrounded ==
  ASSUME LockInv, OnceInv, WriteInv, NEW t \in Txns, QueueApplication(t)
  PROVE  WriteInv'
<1>1. pc[t] = "insert" /\ Cmd(t) \in TriageCommands
  BY DEF QueueApplication
<1>2. CASE Fail(t, "unique_violation")
  BY <1>1, <1>2, FailGrounded DEF Running
<1>3. CASE ~Fail(t, "unique_violation")
  <2> DEFINE row == [id |-> now[t], status |-> "Queued", actor |-> "system", sugg |-> "",
                     next |-> "", seen |-> "", notes |-> {}, ver |-> now[t]]
  <2>1. row \in AppRows
    BY BlanksAssumption DEF LockInv, TypeOK, AppRows, Actors
  <2>2. G(t).arg.triage = "interested"
    BY <1>1 DEF WriteInv, Grounded, ChoiceKept
  <2>3. /\ app[P(t)] = Nil /\ wApp' = [wApp EXCEPT ![t] = row] /\ SyncDone(t, now[t])
    BY <1>3 DEF QueueApplication
  <2>4. row.id = now[t] /\ row.ver = now[t] /\ row.status = "Queued"
    OBVIOUS
  <2> HIDE DEF row
  <2> QED BY <1>1, <2>1, <2>2, <2>3, <2>4, SyncDoneGrounded
<1> QED BY <1>2, <1>3

LEMMA UnqueueApplicationGrounded ==
  ASSUME LockInv, OnceInv, WriteInv, NEW t \in Txns, UnqueueApplication(t)
  PROVE  WriteInv'
<1>1. pc[t] = "sync" /\ Cmd(t) \in TriageCommands /\ G(t).arg.triage # "interested"
  BY DEF UnqueueApplication, LockInv, Staged
<1>2. CASE SyncDone(t, Nil) /\ UNCHANGED <<wApp, appLock>>
  <2>1. wApp' = [wApp EXCEPT ![t] = Nil]
    BY <1>1, <1>2 DEF LockInv, TypeOK, Holds
  <2> QED BY <1>1, <1>2, <2>1, SyncDoneGrounded
<1>3. CASE Queued(P(t)) /\ wApp' = [wApp EXCEPT ![t] = Gone] /\ SyncDone(t, Nil)
  BY <1>1, <1>3, SyncDoneGrounded
<1> QED BY <1>2, <1>3 DEF UnqueueApplication

LEMMA TriageGrounded ==
  ASSUME LockInv, OnceInv, WriteInv, NEW t \in Txns, TriageStep(t)
  PROVE  WriteInv'
  BY LockPostingGrounded, AppSetTriageGrounded, HqDigestSetTriageGrounded,
     FindApplicationGrounded, QueueApplicationGrounded, UnqueueApplicationGrounded
  DEF TriageStep

-----------------------------------------------------------------------------
(* The pipeline page. *)
LEMMA LockApplicationGrounded ==
  ASSUME LockInv, OnceInv, WriteInv, NEW t \in Txns, LockApplication(t)
  PROVE  WriteInv'
  BY FailGrounded, MoveGrounded DEF LockApplication, Running

LEMMA EventSays ==
  ASSUME NEW t, NEW kind, NEW id, NEW to
  PROVE  /\ Event(t, kind, id, to).kind = kind
         /\ Event(t, kind, id, to).id = id
         /\ Event(t, kind, id, to).to = to
         /\ Event(t, kind, id, to).posting = P(t)
  BY DEF Event

LEMMA WriteApplicationGrounded ==
  ASSUME LockInv, OnceInv, WriteInv, NEW t \in Txns, pc[t] = "check", Cmd(t) \in RowCommands,
         ~Hit(t), ~Stale(t, app[P(t)]),
         NEW row \in AppRows, row.id = app[P(t)].id,
         row.ver = now[t] \/ Bare(row) = Bare(app[P(t)]),
         NEW kind, NEW to, Event(t, kind, row.id, to) \in EventRecords,
         Event(t, kind, row.id, to).kind # "triage",
         IF kind \in StatusKinds THEN to = row.status ELSE row.status = app[P(t)].status,
         WriteApplication(t, row, kind, to)
  PROVE  WriteInv'
<1> USE AnswersAssumption
<1>1. InPlace(t)
  BY DEF LockInv, TypeOK, OnceInv, TrailOK, InPlace, Aside, Running, WriteApplication, Goto,
         tables, session
<1>2. wUp[t] = Nil /\ reply[t] # "ok"
  BY NothingWritten DEF WriteInv
<1>3. app[P(t)] \in AppRows /\ app[P(t)] # Nil /\ row.id \in Nat /\ row.id # Nil
  <2>1. app[P(t)] \in AppRows
    BY LockedRow
  <2>2. row.id \in Nat
    BY DEF AppRows
  <2> QED BY <2>1, <2>2
<1>4. /\ pc'[t] = "commit" /\ wApp'[t] = row /\ wEv'[t] = Event(t, kind, row.id, to)
      /\ wUp' = wUp /\ now' = now
      /\ reply' = reply /\ up' = up /\ app' = app /\ idem' = idem /\ key' = key
      /\ G(t)' = G(t) /\ Cmd(t)' = Cmd(t) /\ P(t)' = P(t)
  BY DEF LockInv, TypeOK, OnceInv, TrailOK, WriteApplication, Goto, tables, session, G, Cmd, P
<1>5. /\ wEv'[t].kind = kind /\ wEv'[t].id = row.id /\ wEv'[t].to = to
      /\ wEv'[t].posting = P(t)
  BY <1>4, EventSays
<1>6. (ChoiceMade(t) /\ ChoiceKept(t) /\ InStep(t))'
  BY <1>2, <1>4 DEF ChoiceMade, ChoiceKept, InStep
<1>7. Rewrites(t)'
  BY <1>3, <1>4 DEF Rewrites, Stale
<1>8. Told(t)'
  <2>1. wEv'[t] # Nil => (SaysStatus(t)' <=> kind \in StatusKinds)
    BY <1>5 DEF SaysStatus
  <2>2. wEv'[t] # Nil
    BY <1>4, EventsAssumption
  <2> QED BY <1>3, <1>4, <1>5, <2>1, <2>2 DEF Told
<1>9. Answered(t)'
  BY <1>2, <1>4 DEF Answered, Hit
<1> QED BY <1>1, <1>6, <1>7, <1>8, <1>9, InPlaceKeeps DEF Grounded

LEMMA StatusGrounded ==
  ASSUME LockInv, OnceInv, WriteInv, NEW t \in Txns, AppSetStatus(t)
  PROVE  WriteInv'
<1> DEFINE row   == app[P(t)]
           g     == G(t).arg
           notes == IF g.note THEN row.notes \cup {key[t]} ELSE row.notes
           new   == [row EXCEPT !.status = g.status, !.actor = "user", !.sugg = "",
                                !.ver = now[t], !.notes = notes]
           to    == g.status
<1>1. pc[t] = "check" /\ Cmd(t) = "app_set_status"
  BY DEF AppSetStatus
<1>2. row \in AppRows /\ now[t] \in Nat /\ key[t] \in Keys /\ P(t) \in Postings
  BY <1>1, LockedRow, Carried DEF LockInv
<1>3. to \in Statuses /\ notes \in SUBSET Keys /\ row.id \in Nat
  BY <1>1, <1>2, Arguments DEF LockInv, AppRows
<1>4. new \in AppRows /\ new.id = row.id /\ new.status = to /\ new.ver = now[t]
  <2> HIDE DEF row, notes
  <2> QED BY <1>2, <1>3 DEF AppRows, Actors
<1>5. \/ AnswerStored(t)
      \/ Fail(t, "reopen")
      \/ ~Hit(t) /\ AnswerUnchanged(t, row)
      \/ Fail(t, "conflict")
      \/ ~Hit(t) /\ ~Stale(t, row) /\ WriteApplication(t, new, "status", to)
  BY DEF AppSetStatus
<1>6. CASE AnswerStored(t)
  BY <1>1, <1>6, AnswerGrounded DEF AnswerStored
<1>7. CASE Fail(t, "reopen") \/ Fail(t, "conflict")
  BY <1>1, <1>7, FailGrounded DEF Running
<1>8. CASE ~Hit(t) /\ AnswerUnchanged(t, row)
  BY <1>1, <1>8, AnswerGrounded DEF AnswerUnchanged
<1>9. CASE ~Hit(t) /\ ~Stale(t, row) /\ WriteApplication(t, new, "status", to)
  <2>1. /\ Event(t, "status", new.id, to) \in EventRecords
        /\ Event(t, "status", new.id, to).kind # "triage"
    <3> HIDE DEF new, to
    <3>1. new.id \in Nat
      BY <1>3, <1>4
    <3> QED BY <1>2, <1>3, <3>1 DEF Event, EventRecords, RowEvents
  <2> HIDE DEF new, to
  <2> QED BY <1>1, <1>4, <1>9, <2>1, WriteApplicationGrounded DEF StatusKinds
<1> HIDE DEF row, new, to
<1> QED BY <1>5, <1>6, <1>7, <1>8, <1>9

LEMMA ResolveGrounded ==
  ASSUME LockInv, OnceInv, WriteInv, NEW t \in Txns, AppResolveSuggestion(t)
  PROVE  WriteInv'
<1> DEFINE row       == app[P(t)]
           to        == row.sugg
           confirmed == [row EXCEPT !.status = row.sugg, !.actor = "user", !.sugg = "",
                                    !.ver = now[t]]
           rejected  == [row EXCEPT !.sugg = "", !.ver = now[t]]
<1>1. pc[t] = "check" /\ Cmd(t) = "app_resolve_suggestion"
  BY DEF AppResolveSuggestion
<1>2. row \in AppRows /\ now[t] \in Nat /\ key[t] \in Keys /\ P(t) \in Postings
  BY <1>1, LockedRow, Carried DEF LockInv
<1>3. to \in Statuses \cup {""} /\ row.id \in Nat
  BY <1>2 DEF AppRows
<1>4. to # "" => /\ confirmed \in AppRows /\ confirmed.id = row.id /\ confirmed.status = to
                 /\ confirmed.ver = now[t]
  <2> HIDE DEF row
  <2> QED BY <1>2, <1>3 DEF AppRows, Actors
<1>5. /\ rejected \in AppRows /\ rejected.id = row.id /\ rejected.status = row.status
      /\ rejected.ver = now[t]
  <2> HIDE DEF row
  <2> QED BY <1>2, <1>3 DEF AppRows, Actors
<1>6. \/ AnswerStored(t)
      \/ ~Hit(t) /\ AnswerUnchanged(t, row)
      \/ Fail(t, "conflict")
      \/ to # "" /\ ~Hit(t) /\ ~Stale(t, row) /\ WriteApplication(t, confirmed, "confirmed", to)
      \/ ~Hit(t) /\ ~Stale(t, row) /\ WriteApplication(t, rejected, "rejected", to)
  BY DEF AppResolveSuggestion
<1>7. CASE AnswerStored(t)
  BY <1>1, <1>7, AnswerGrounded DEF AnswerStored
<1>8. CASE Fail(t, "conflict")
  BY <1>1, <1>8, FailGrounded DEF Running
<1>9. CASE ~Hit(t) /\ AnswerUnchanged(t, row)
  BY <1>1, <1>9, AnswerGrounded DEF AnswerUnchanged
<1>10. CASE /\ to # "" /\ ~Hit(t) /\ ~Stale(t, row)
            /\ WriteApplication(t, confirmed, "confirmed", to)
  <2> HIDE DEF confirmed, to
  <2>1. /\ Event(t, "confirmed", confirmed.id, to) \in EventRecords
        /\ Event(t, "confirmed", confirmed.id, to).kind # "triage"
    <3>1. confirmed.id \in Nat
      BY <1>3, <1>4, <1>10
    <3> QED BY <1>2, <1>3, <3>1 DEF Event, EventRecords, RowEvents
  <2> QED BY <1>1, <1>4, <1>10, <2>1, WriteApplicationGrounded DEF StatusKinds
<1>11. CASE ~Hit(t) /\ ~Stale(t, row) /\ WriteApplication(t, rejected, "rejected", to)
  <2> HIDE DEF rejected, to
  <2>1. /\ Event(t, "rejected", rejected.id, to) \in EventRecords
        /\ Event(t, "rejected", rejected.id, to).kind # "triage"
    <3>1. rejected.id \in Nat
      BY <1>3, <1>5
    <3> QED BY <1>2, <1>3, <3>1 DEF Event, EventRecords, RowEvents
  <2> QED BY <1>1, <1>5, <1>11, <2>1, WriteApplicationGrounded DEF StatusKinds
<1> HIDE DEF row, confirmed, rejected, to
<1> QED BY <1>6, <1>7, <1>8, <1>9, <1>10, <1>11

LEMMA NoteGrounded ==
  ASSUME LockInv, OnceInv, WriteInv, NEW t \in Txns, AppAddNote(t)
  PROVE  WriteInv'
<1> DEFINE row   == app[P(t)]
           notes == row.notes \cup {key[t]}
           new   == [row EXCEPT !.notes = notes]
<1>1. pc[t] = "check" /\ Cmd(t) = "app_add_note"
  BY DEF AppAddNote
<1>2. row \in AppRows /\ key[t] \in Keys /\ P(t) \in Postings
  BY <1>1, LockedRow, Carried DEF LockInv
<1>3. notes \in SUBSET Keys /\ row.id \in Nat
  BY <1>2 DEF AppRows
<1>4. new \in AppRows /\ new.id = row.id /\ new.status = row.status
  <2> HIDE DEF row, notes
  <2> QED BY <1>2, <1>3 DEF AppRows
<1>5. Bare(new) = Bare(row)
  <2>1. row # Nil /\ new # Nil
    BY <1>2, <1>4, AnswersAssumption
  <2>2. [new EXCEPT !.notes = {}] = [row EXCEPT !.notes = {}]
    <3> HIDE DEF row, notes
    <3> QED BY <1>2 DEF AppRows
  <2> HIDE DEF row, new
  <2> QED BY <2>1, <2>2 DEF Bare
<1>6. ~Stale(t, row)
  BY <1>1, Arguments DEF Stale, LockInv
<1>7. AnswerStored(t) \/ (~Hit(t) /\ WriteApplication(t, new, "note", ""))
  BY DEF AppAddNote
<1>8. CASE AnswerStored(t)
  BY <1>1, <1>8, AnswerGrounded DEF AnswerStored
<1>9. CASE ~Hit(t) /\ WriteApplication(t, new, "note", "")
  <2> HIDE DEF new
  <2>1. /\ Event(t, "note", new.id, "") \in EventRecords
        /\ Event(t, "note", new.id, "").kind # "triage"
    BY <1>2, <1>3, <1>4 DEF Event, EventRecords, RowEvents
  <2> QED BY <1>1, <1>4, <1>5, <1>6, <1>9, <2>1, WriteApplicationGrounded DEF StatusKinds
<1> HIDE DEF new
<1> QED BY <1>7, <1>8, <1>9

LEMMA NextActionGrounded ==
  ASSUME LockInv, OnceInv, WriteInv, NEW t \in Txns, AppSetNextAction(t)
  PROVE  WriteInv'
<1> DEFINE row == app[P(t)]
           n   == G(t).arg.next
           new == [row EXCEPT !.next = n, !.ver = now[t]]
<1>1. pc[t] = "check" /\ Cmd(t) = "app_set_next_action"
  BY DEF AppSetNextAction
<1>2. row \in AppRows /\ now[t] \in Nat /\ key[t] \in Keys /\ P(t) \in Postings
  BY <1>1, LockedRow, Carried DEF LockInv
<1>3. n \in Nexts /\ row.id \in Nat
  BY <1>1, <1>2, Arguments DEF LockInv, AppRows
<1>4. new \in AppRows /\ new.id = row.id /\ new.status = row.status /\ new.ver = now[t]
  <2> HIDE DEF row, n
  <2> QED BY <1>2, <1>3 DEF AppRows
<1>5. \/ AnswerStored(t)
      \/ ~Hit(t) /\ AnswerUnchanged(t, row)
      \/ Fail(t, "conflict")
      \/ ~Hit(t) /\ ~Stale(t, row) /\ WriteApplication(t, new, "next", n)
  BY DEF AppSetNextAction
<1>6. CASE AnswerStored(t)
  BY <1>1, <1>6, AnswerGrounded DEF AnswerStored
<1>7. CASE Fail(t, "conflict")
  BY <1>1, <1>7, FailGrounded DEF Running
<1>8. CASE ~Hit(t) /\ AnswerUnchanged(t, row)
  BY <1>1, <1>8, AnswerGrounded DEF AnswerUnchanged
<1>9. CASE ~Hit(t) /\ ~Stale(t, row) /\ WriteApplication(t, new, "next", n)
  <2> HIDE DEF new, n
  <2>1. /\ Event(t, "next", new.id, n) \in EventRecords
        /\ Event(t, "next", new.id, n).kind # "triage"
    <3>1. new.id \in Nat
      BY <1>3, <1>4
    <3> QED BY <1>2, <1>3, <3>1 DEF Event, EventRecords, RowEvents
  <2> QED BY <1>1, <1>4, <1>9, <2>1, WriteApplicationGrounded DEF StatusKinds
<1> HIDE DEF row, new, n
<1> QED BY <1>5, <1>6, <1>7, <1>8, <1>9

LEMMA PageGrounded ==
  ASSUME LockInv, OnceInv, WriteInv, NEW t \in Txns,
         AppSetStatus(t) \/ AppResolveSuggestion(t) \/ AppAddNote(t) \/ AppSetNextAction(t)
  PROVE  WriteInv'
  BY StatusGrounded, ResolveGrounded, NoteGrounded, NextActionGrounded

-----------------------------------------------------------------------------
(* The email lane. *)
LEMMA RankInt ==
  ASSUME NEW s
  PROVE  Rank(s) \in Int
<1>1. s \in OnLadder => Rung(s) \in 1 .. 8
  BY DEF OnLadder, Rung
<1>2. CASE s = ""
  <2>1. Rank(s) = -1
    BY <1>2, Zenon DEF Rank
  <2> QED BY <2>1
<1>3. CASE s # "" /\ s \in OnLadder
  <2>1. Rank(s) = Rung(s) - 1
    BY <1>3, Zenon DEF Rank
  <2>2. Rung(s) \in 1 .. 8
    BY <1>1, <1>3, Zenon
  <2> QED BY <2>1, <2>2
<1>4. CASE s # "" /\ s \notin OnLadder
  <2>1. Rank(s) = 9 \/ Rank(s) = 10 \/ Rank(s) = 11
    BY <1>4, Zenon DEF Rank
  <2> QED BY <2>1
<1> QED BY <1>2, <1>3, <1>4

(* A bot moves a row forward or not at all, and does not move a claimed one. *)
LEMMA EmailAdvances ==
  ASSUME NEW status, NEW actor, NEW signal,
         EmailOutcome(status, actor, signal) = "advanced"
  PROVE  actor # "user" /\ Rank(signal.status) > Rank(status)
<1>1. /\ Rank(signal.status) \in Int /\ Rank(status) \in Int
      /\ Rank(signal.sheetStatus) \in Int
  BY RankInt
<1>2. FurthestRank(status, signal.sheetStatus) \in Int
  BY <1>1 DEF FurthestRank
<1>3. FurthestRank(status, signal.sheetStatus) >= Rank(status)
  BY <1>1 DEF FurthestRank
<1>4. actor # "user" /\ ~(Rank(signal.status) <= FurthestRank(status, signal.sheetStatus))
  BY DEF EmailOutcome
<1> QED BY <1>1, <1>2, <1>3, <1>4

LEMMA EmailSuggests ==
  ASSUME NEW status, NEW actor, NEW signal, signal.status = ""
  PROVE  EmailOutcome(status, actor, signal) = "matched"
  BY DEF EmailOutcome

(* What an email makes of a row. *)
LEMMA EmailWritten ==
  ASSUME LockInv, NEW t \in Txns, pc[t] = "check", Cmd(t) = EmailCommand,
         NEW row \in AppRows, NEW outcome,
         outcome = EmailOutcome(row.status, row.actor, G(t).arg),
         NEW after, after = EmailWrite(t, row, outcome)
  PROVE  /\ after \in AppRows /\ after.id = row.id
         /\ after = row \/ after.ver = now[t]
         /\ IF outcome = "advanced" THEN after.status = G(t).arg.status
            ELSE after.status = row.status
         /\ Defers(row, after)
<1> DEFINE s   == G(t).arg
           status == IF outcome = "advanced" THEN s.status ELSE row.status
           sugg   == IF outcome \in {"locked", "suggested"} THEN s.status ELSE row.sugg
           new    == [row EXCEPT !.status = status, !.sugg = sugg, !.seen = s.stamp]
<1>1. s.status \in (Statuses \cup {""}) \ Resolved /\ s.stamp \in Stamps /\ now[t] \in Nat
  BY Arguments, SignalsAssumption DEF LockInv, TypeOK
<1>2. after \in AppRows
  <2>1. outcome \in EmailOutcomes /\ (outcome = "advanced" => s.status # "")
    BY EmailOutcomeRange
  <2> QED BY <2>1, EmailWriteRow
<1>3. after = IF new = row THEN row ELSE [new EXCEPT !.ver = now[t]]
  BY DEF EmailWrite
<1>4. new.id = row.id /\ new.actor = row.actor /\ new.status = status /\ new.sugg = sugg
  <2> HIDE DEF status, sugg
  <2> QED BY DEF AppRows
<1>5. /\ after.id = row.id /\ after.actor = row.actor /\ after.status = status
      /\ after.sugg = sugg /\ (after = row \/ after.ver = now[t])
  <2>1. CASE new = row
    BY <1>3, <1>4, <2>1
  <2>2. CASE new # row
    <3>1. after = [new EXCEPT !.ver = now[t]]
      BY <1>3, <2>2
    <3>2. /\ after.id = new.id /\ after.actor = new.actor /\ after.status = new.status
          /\ after.sugg = new.sugg /\ after.ver = now[t]
      <4> HIDE DEF status, sugg
      <4> QED BY <3>1 DEF AppRows
    <3> HIDE DEF new
    <3> QED BY <1>4, <3>2
  <2> QED BY <2>1, <2>2
<1>6. outcome = "advanced" => row.actor # "user" /\ Rank(s.status) > Rank(row.status)
  BY EmailAdvances
<1>7. outcome \in {"locked", "suggested"} => s.status # ""
  BY EmailSuggests
<1>8. Defers(row, after)
  <2> HIDE DEF s
  <2> QED BY <1>1, <1>5, <1>6, <1>7 DEF Defers
<1> QED BY <1>2, <1>5, <1>8

LEMMA EmailInsertGrounded ==
  ASSUME LockInv, OnceInv, WriteInv, NEW t \in Txns, EmailInsert(t)
  PROVE  WriteInv'
<1> USE AnswersAssumption
<1> DEFINE row == [id |-> now[t], status |-> "Inbox", actor |-> "system", sugg |-> "",
                   next |-> "", seen |-> G(t).arg.stamp, notes |-> {}, ver |-> now[t]]
<1>1. pc[t] = "insert" /\ Cmd(t) = EmailCommand
  BY DEF EmailInsert
<1>2. CASE /\ Goto(t, "again")
           /\ UNCHANGED <<tables, gest, clock, session, res, reply, writes, locks>>
  BY <1>1, <1>2, MoveGrounded
<1>3. CASE /\ app[P(t)] = Nil /\ appLock[P(t)] = NoTx
           /\ appLock' = [appLock EXCEPT ![P(t)] = t]
           /\ wApp' = [wApp EXCEPT ![t] = row]
           /\ Goto(t, "check")
           /\ UNCHANGED <<tables, gest, clock, session, res, reply, wUp, wEv, upLock>>
  <2>1. row.id = now[t] /\ row.ver = now[t] /\ row.status = "Inbox"
    OBVIOUS
  <2>2. row \in AppRows
    <3>1. G(t).arg \in Signals
      BY <1>1, Arguments DEF LockInv
    <3> QED BY <3>1, SignalsAssumption, BlanksAssumption DEF LockInv, TypeOK, AppRows, Actors
  <2> HIDE DEF row
  <2>3. InPlace(t)
    BY <1>1, <1>3 DEF LockInv, TypeOK, InPlace, Aside, Running, Goto, tables, session
  <2>4. /\ pc'[t] = "check" /\ wApp'[t] = row /\ wUp' = wUp /\ wEv' = wEv /\ now' = now
        /\ reply' = reply /\ app' = app
        /\ Cmd(t)' = Cmd(t) /\ P(t)' = P(t)
    BY <1>3 DEF LockInv, TypeOK, Goto, tables, session, G, Cmd, P
  <2>5. wUp[t] = Nil /\ wEv[t] = Nil /\ reply[t] # "ok"
    BY <1>1, NothingBuffered, NotYet DEF WriteInv, Grounded, ChoiceMade
  <2>6. (ChoiceMade(t) /\ ChoiceKept(t) /\ InStep(t))'
    BY <2>4, <2>5 DEF ChoiceMade, ChoiceKept, InStep
  <2>7. (Rewrites(t) /\ Told(t) /\ Answered(t))'
    BY <1>1, <1>3, <2>1, <2>2, <2>4, <2>5 DEF Rewrites, Told, Answered
  <2> QED BY <2>3, <2>6, <2>7, InPlaceKeeps DEF Grounded
<1> QED BY <1>2, <1>3 DEF EmailInsert

LEMMA NoteUnappliedGrounded ==
  ASSUME LockInv, OnceInv, WriteInv, NEW t \in Txns, pc[t] = "lock", NoteUnapplied(t)
  PROVE  WriteInv'
<1>1. InPlace(t)
  BY DEF LockInv, TypeOK, OnceInv, TrailOK, InPlace, Aside, Running, NoteUnapplied, Goto,
         tables, session
<1>2. wUp[t] = Nil /\ wApp[t] = Nil /\ reply[t] # "ok"
  BY EmptyHands, NotYet DEF WriteInv
<1>3. /\ pc'[t] = "noted" /\ wUp' = wUp /\ wApp' = wApp /\ reply' = reply
      /\ wEv'[t] \in {Nil, Event(t, "unapplied", Nil, "")}
  BY DEF LockInv, TypeOK, OnceInv, TrailOK, NoteUnapplied, Goto
<1>4. wEv'[t] # Nil => wEv'[t].kind = "unapplied" /\ wEv'[t].id = Nil
  <2> DEFINE e == Event(t, "unapplied", Nil, "")
  <2>1. e.kind = "unapplied" /\ e.id = Nil
    BY DEF Event
  <2> HIDE DEF e
  <2>2. wEv'[t] \in {Nil, e}
    BY <1>3 DEF e
  <2> QED BY <2>1, <2>2
<1>5. (ChoiceMade(t) /\ ChoiceKept(t) /\ InStep(t))'
  BY <1>2, <1>3 DEF ChoiceMade, ChoiceKept, InStep
<1>6. (Rewrites(t) /\ Told(t) /\ Answered(t))'
  BY <1>2, <1>3, <1>4, AnswersAssumption DEF Rewrites, Told, Answered
<1> QED BY <1>1, <1>5, <1>6, InPlaceKeeps DEF Grounded

LEMMA EmailFindGrounded ==
  ASSUME LockInv, OnceInv, WriteInv, NEW t \in Txns, EmailFind(t) \/ EmailFindAgain(t)
  PROVE  WriteInv'
<1>1. CASE EmailFind(t)
  BY <1>1, NoteUnappliedGrounded, MoveGrounded DEF EmailFind, LockFound, locks
<1>2. CASE EmailFindAgain(t)
  BY <1>2, MoveGrounded DEF EmailFindAgain, LockFound, locks
<1> QED BY <1>1, <1>2

(* What an email has buffered when it commits.                             *)
LEMMA DecidedGrounded ==
  ASSUME LockInv, OnceInv, WriteInv, NEW t \in Txns, pc[t] = "check", Cmd(t) = EmailCommand,
         ~Hit(t),
         NEW row, row = EmailRow(t),
         NEW outcome,
         row # Nil => outcome = EmailOutcome(row.status, row.actor, G(t).arg),
         NEW after, after = IF row = Nil THEN Nil ELSE EmailWrite(t, row, outcome),
         NEW e, e \in EventRecords,
         /\ e.kind = outcome /\ e.kind # "triage" /\ e.posting = P(t) /\ e.to = G(t).arg.status
         /\ e.id = IF row = Nil THEN Nil ELSE row.id,
         wApp' = [wApp EXCEPT ![t] = after], wEv' = [wEv EXCEPT ![t] = e],
         NEW r, res' = [res EXCEPT ![t] = r],
         Goto(t, "commit"),
         UNCHANGED <<tables, gest, clock, session, reply, wUp, locks>>
  PROVE  WriteInv'
<1> USE AnswersAssumption
<1>1. InPlace(t)
  BY DEF LockInv, TypeOK, OnceInv, TrailOK, InPlace, Aside, Running, Goto, tables, session
<1>2. Grounded(t) /\ wUp[t] = Nil /\ reply[t] # "ok"
  BY NothingWritten DEF WriteInv
<1>3. /\ pc'[t] = "commit" /\ wApp'[t] = after /\ wEv'[t] = e
      /\ wUp' = wUp /\ now' = now /\ reply' = reply /\ app' = app
      /\ G(t)' = G(t) /\ Cmd(t)' = Cmd(t) /\ P(t)' = P(t)
  BY DEF LockInv, TypeOK, OnceInv, TrailOK, Goto, tables, session, G, Cmd, P
<1>4. e # Nil
  BY EventsAssumption
<1>5. row \in AppRows \cup {Nil}
  BY Carried DEF LockInv, TypeOK, Holds, EmailRow
<1>6. row # Nil =>
        /\ after \in AppRows /\ after.id = row.id /\ after.id \in Nat
        /\ after = row \/ after.ver = now[t]
        /\ IF outcome = "advanced" THEN after.status = G(t).arg.status
           ELSE after.status = row.status
        /\ Defers(row, after)
  <2>1. row # Nil => after = EmailWrite(t, row, outcome)
    OBVIOUS
  <2>2. after \in AppRows => after.id \in Nat
    BY DEF AppRows
  <2> QED BY <1>5, <2>1, <2>2, EmailWritten
<1>7. row = Nil => after = Nil
  OBVIOUS
<1>8. row # Nil => \/ app[P(t)] # Nil /\ row = app[P(t)]
                   \/ app[P(t)] = Nil /\ row.id = now[t] /\ row.ver = now[t] /\ row.status = "Inbox"
  <2>1. CASE wApp[t] # Nil
    <3>1. row = wApp[t] /\ row \in AppRows
      BY <1>5, <2>1 DEF EmailRow
    <3> QED BY <1>2, <2>1, <3>1 DEF Grounded, Rewrites, Told
  <2>2. CASE wApp[t] = Nil
    BY <2>2 DEF EmailRow
  <2> QED BY <2>1, <2>2
<1>9. (ChoiceMade(t) /\ ChoiceKept(t) /\ InStep(t))'
  BY <1>2, <1>3 DEF ChoiceMade, ChoiceKept, InStep
<1>10. Rewrites(t)'
  <2>1. after \in AppRows => row # Nil
    BY <1>7
  <2>2. after # Gone
    BY <1>6, <1>7
  <2> QED BY <1>3, <1>6, <1>8, <2>1, <2>2 DEF Rewrites
<1>11. Told(t)'
  <2>1. SaysStatus(t)' <=> outcome \in StatusKinds
    BY <1>3, <1>4 DEF SaysStatus
  <2>2. outcome \in StatusKinds /\ row # Nil => outcome = "advanced"
    BY DEF StatusKinds, EmailOutcome
  <2>3. after \in AppRows => row # Nil
    BY <1>7
  <2> QED BY <1>3, <1>4, <1>6, <1>8, <2>1, <2>2, <2>3 DEF Told, StatusKinds
<1>12. Answered(t)'
  BY <1>2, <1>3 DEF Answered
<1> QED BY <1>1, <1>9, <1>10, <1>11, <1>12, InPlaceKeeps DEF Grounded

LEMMA HqApplyEmailEventGrounded ==
  ASSUME LockInv, OnceInv, WriteInv, NEW t \in Txns, HqApplyEmailEvent(t)
  PROVE  WriteInv'
<1> DEFINE row     == EmailRow(t)
           outcome == IF row = Nil THEN EmailOutcome("", "", G(t).arg)
                      ELSE EmailOutcome(row.status, row.actor, G(t).arg)
           after   == IF row = Nil THEN Nil ELSE EmailWrite(t, row, outcome)
           id      == IF row = Nil THEN Nil ELSE row.id
           to      == G(t).arg.status
           e       == Event(t, outcome, id, to)
           answer  == EmailResult(outcome, after)
<1>1. pc[t] = "check" /\ Cmd(t) = EmailCommand /\ P(t) \in Postings /\ key[t] \in Keys
  BY Carried DEF LockInv, HqApplyEmailEvent
<1>2. row \in AppRows \cup {Nil}
  BY <1>1 DEF LockInv, TypeOK, Holds, EmailRow
<1>3. outcome \in EmailOutcomes
  BY EmailOutcomeRange
<1>4. id \in Nat \cup {Nil}
  BY <1>2 DEF AppRows
<1>5. to \in Statuses \cup {""}
  BY <1>1, Arguments, SignalsAssumption DEF LockInv
<1>6. e \in EventRecords
  <2> HIDE DEF outcome, id, to
  <2> QED BY <1>1, <1>3, <1>4, <1>5, EmailEvent
<1>7. e.kind = outcome /\ e.id = id /\ e.to = to /\ e.posting = P(t)
  <2> HIDE DEF outcome, id, to
  <2> QED BY EventSays
<1>8. outcome # "triage"
  BY <1>3 DEF EmailOutcomes
<1>9. CASE AnswerStored(t)
  BY <1>1, <1>9, AnswerGrounded DEF AnswerStored
<1>10. CASE Fail(t, "claimed")
  BY <1>1, <1>10, FailGrounded DEF Running
<1>11. CASE ~AnswerStored(t) /\ ~Fail(t, "claimed")
  <2>1. /\ ~Hit(t)
        /\ wApp' = [wApp EXCEPT ![t] = after]
        /\ wEv' = [wEv EXCEPT ![t] = e]
        /\ res' = [res EXCEPT ![t] = answer]
        /\ Goto(t, "commit")
        /\ UNCHANGED <<tables, gest, clock, session, reply, wUp, locks>>
    BY <1>11 DEF HqApplyEmailEvent
  <2>2. row # Nil => outcome = EmailOutcome(row.status, row.actor, G(t).arg)
    OBVIOUS
  <2>3. after = IF row = Nil THEN Nil ELSE EmailWrite(t, row, outcome)
    OBVIOUS
  <2>4. row = EmailRow(t) /\ id = (IF row = Nil THEN Nil ELSE row.id) /\ to = G(t).arg.status
    OBVIOUS
  <2> HIDE DEF row, outcome, after, id, to, e, answer
  <2>5. /\ e.kind = outcome /\ e.kind # "triage" /\ e.posting = P(t) /\ e.to = G(t).arg.status
        /\ e.id = IF row = Nil THEN Nil ELSE row.id
    BY <1>7, <1>8, <2>4
  <2> QED BY <1>1, <1>6, <2>1, <2>2, <2>3, <2>4, <2>5, DecidedGrounded
<1> QED BY <1>9, <1>10, <1>11

-----------------------------------------------------------------------------
(* The end of a transaction. *)

(* The trail grows by an event that bears no number, or one already spent  *)
(* or spent in this step.                                                  *)
LEMMA TrailSpends ==
  ASSUME TrailOK, NEW e \in EventRecords, events' = Append(events, e), NEW n
  PROVE  (\E i \in 1 .. Len(events') : events'[i].id = n)
           => (\E i \in 1 .. Len(events) : events[i].id = n) \/ e.id = n
<1>1. /\ Len(events') = Len(events) + 1 /\ Len(events) \in Nat
      /\ \A i \in 1 .. Len(events) : events'[i] = events[i]
      /\ events'[Len(events) + 1] = e
  BY Grown
<1>2. 1 .. Len(events') = 1 .. Len(events) \cup {Len(events) + 1}
  BY <1>1
<1> QED BY <1>1, <1>2

LEMMA CommitUnappliedGrounded ==
  ASSUME LockInv, OnceInv, WriteInv, NEW t \in Txns, CommitUnapplied(t)
  PROVE  WriteInv'
<1>1. /\ pc[t] = "noted" /\ pc'[t] = "done" /\ reply'[t] = "unapplied"
      /\ wUp'[t] = Nil /\ wApp'[t] = Nil /\ wEv'[t] = Nil
      /\ up' = up /\ app' = app /\ gest' = gest /\ now' = now /\ clock' = clock
  BY DEF LockInv, TypeOK, OnceInv, TrailOK, CommitUnapplied, Goto, DropWrites, session
<1>2. Aside(t)
  BY DEF LockInv, TypeOK, OnceInv, TrailOK, Aside, CommitUnapplied, Goto, DropWrites, session
<1>3. Grounded(t)'
  BY <1>1, EmptyGrounded
<1>4. \A u \in Txns : Grounded(u)'
  BY <1>2, <1>3, AsideKeeps DEF WriteInv
<1>5. \A n \in Nat : Spent(n)' => Spent(n)
  <2>1. CASE wEv[t] = Nil
    BY <1>1, <2>1 DEF CommitUnapplied, Spent
  <2>2. CASE wEv[t] # Nil
    <3>1. wEv[t] \in EventRecords /\ events' = Append(events, wEv[t])
      BY <2>2 DEF CommitUnapplied, OnceInv, TrailOK
    <3>2. wEv[t].id = Nil
      BY <1>1, <2>2 DEF WriteInv, Grounded, Told
    <3> QED BY <1>1, <3>1, <3>2, TrailSpends, AnswersAssumption DEF Spent, OnceInv
  <2> QED BY <2>1, <2>2
<1>6. \A u \in Txns : Running(u)' => Running(u)
  BY <1>1, <1>2 DEF Aside, Running
<1>7. StampInv'
  BY <1>1, <1>5, <1>6, StampsKept DEF WriteInv
<1> QED BY <1>4, <1>7 DEF WriteInv

(* Two deliveries of one gesture are not both behind their row.            *)
LEMMA OneDecides ==
  ASSUME LockInv, NEW t \in Txns, NEW u \in Txns, Deciding(t), Deciding(u),
         key[t] = key[u], Cmd(u) # EmailCommand
  PROVE  t = u
<1>1. pc[t] # "idle" /\ pc[u] # "idle"
  BY DEF Deciding
<1>2. Cmd(t) = Cmd(u) /\ P(t) = P(u) /\ Cmd(t) \in CommandNames
  BY <1>1, Carried DEF LockInv, G, Cmd, P
<1> QED BY <1>2 DEF LockInv, Holds

(* A note apart, a row that is the same has the same version. *)
LEMMA BareVersion ==
  ASSUME NEW row \in AppRows, NEW new \in AppRows, Bare(new) = Bare(row)
  PROVE  new.ver = row.ver
<1>1. row # Nil /\ new # Nil
  BY AnswersAssumption
<1>2. [row EXCEPT !.notes = {}].ver = row.ver /\ [new EXCEPT !.notes = {}].ver = new.ver
  BY DEF AppRows
<1> QED BY <1>1, <1>2 DEF Bare

(* What a commit does: to the rows, to the answers, and to the sessions.   *)
LEMMA CommitHolds ==
  ASSUME LockInv, NEW t \in Txns, Commit(t)
  PROVE  /\ pc[t] = "commit" /\ Deciding(t) /\ Running(t)
         /\ P(t) \in Postings /\ key[t] \in Keys /\ Cmd(t) \in CommandNames
  BY Carried DEF LockInv, Commit, Deciding, Running

LEMMA CommitRows ==
  ASSUME LockInv, NEW t \in Txns, Commit(t)
  PROVE  /\ \A p \in Postings \ {P(t)} : up'[p] = up[p] /\ app'[p] = app[p]
         /\ up'[P(t)] = IF wUp[t] = Nil THEN up[P(t)] ELSE wUp[t]
         /\ app'[P(t)] = IF wApp[t] = Nil THEN app[P(t)]
                         ELSE IF wApp[t] = Gone THEN Nil ELSE wApp[t]
  BY CommitHolds DEF LockInv, TypeOK, Commit

LEMMA CommitAnswers ==
  ASSUME LockInv, NEW t \in Txns, Commit(t)
  PROVE  /\ \A k \in Keys \ {key[t]} : idem'[k] = idem[k]
         /\ idem[key[t]] # Nil => idem'[key[t]] = idem[key[t]]
         /\ idem[key[t]] = Nil => idem'[key[t]] = [cmd |-> Cmd(t), res |-> res[t]]
  BY CommitHolds DEF LockInv, TypeOK, Commit, Hit

LEMMA CommitFrame ==
  ASSUME NEW t \in Txns, Commit(t)
  PROVE  gest' = gest /\ key' = key /\ now' = now /\ clock' = clock /\ res' = res
  BY DEF Commit, session

LEMMA CommitEnds ==
  ASSUME LockInv, OnceInv, NEW t \in Txns, Commit(t)
  PROVE  /\ pc'[t] = "done" /\ reply'[t] = "ok"
         /\ wUp'[t] = Nil /\ wApp'[t] = Nil /\ wEv'[t] = Nil
         /\ \A u \in Txns \ {t} :
              /\ pc'[u] = pc[u] /\ reply'[u] = reply[u]
              /\ wUp'[u] = wUp[u] /\ wApp'[u] = wApp[u] /\ wEv'[u] = wEv[u]
  BY DEF LockInv, TypeOK, OnceInv, TrailOK, Commit, Goto, DropWrites

(* The stamps a commit spends are the transaction's own.                   *)
LEMMA CommitSpends ==
  ASSUME LockInv, OnceInv, WriteInv, NEW t \in Txns, Commit(t), NEW n \in Nat, Spent(n)'
  PROVE  Spent(n) \/ n = now[t]
<1> USE AnswersAssumption
<1>1. Grounded(t) /\ pc[t] = "commit" /\ P(t) \in Postings
  BY CommitHolds DEF WriteInv
<1>2. wApp[t] \in AppRows =>
        /\ wApp[t].id = now[t] \/ (app[P(t)] # Nil /\ wApp[t].id = app[P(t)].id)
        /\ wApp[t].ver = now[t] \/ (app[P(t)] # Nil /\ wApp[t].ver = app[P(t)].ver)
  <2>1. app[P(t)] \in AppRows \cup {Nil}
    BY <1>1 DEF LockInv, TypeOK
  <2> QED BY <1>1, <2>1, BareVersion DEF Grounded, Rewrites
<1>3. wApp[t] \in AppRows \cup {Nil, Gone}
  BY DEF LockInv, TypeOK
<1>4. ASSUME NEW p \in Postings, up'[p].ver = n
      PROVE  Spent(n) \/ n = now[t]
  <2>1. CASE up'[p] = up[p]
    BY <1>4, <2>1 DEF Spent
  <2>2. CASE up'[p] # up[p]
    <3>1. up'[p] = wUp[t] /\ wUp[t] # Nil
      BY <2>2, CommitRows
    <3>2. wUp[t].ver = now[t]
      BY <1>1, <3>1 DEF Grounded, ChoiceMade
    <3> QED BY <1>4, <3>1, <3>2
  <2> QED BY <2>1, <2>2
<1>5. ASSUME NEW p \in Postings, app'[p] # Nil, n \in {app'[p].id, app'[p].ver}
      PROVE  Spent(n) \/ n = now[t]
  <2>1. CASE app'[p] = app[p]
    BY <1>5, <2>1 DEF Spent
  <2>2. CASE app'[p] # app[p]
    <3>1. p = P(t)
      BY <2>2, CommitRows
    <3>2. app'[p] = wApp[t] /\ wApp[t] # Nil /\ wApp[t] # Gone
      BY <1>5, <2>2, <3>1, CommitRows
    <3>3. wApp[t] \in AppRows
      BY <1>3, <3>2
    <3> QED BY <1>2, <1>5, <3>1, <3>2, <3>3, <1>1 DEF Spent
  <2> QED BY <2>1, <2>2
<1>6. ASSUME NEW k \in Keys, gest'[k] # Nil /\ gest'[k].expect = n
      PROVE  Spent(n)
  BY <1>6, CommitFrame DEF Spent
<1>7. ASSUME \E i \in 1 .. Len(events') : events'[i].id = n
      PROVE  Spent(n) \/ n = now[t]
  <2>1. CASE wEv[t] = Nil
    BY <1>7, <2>1 DEF Commit, Spent
  <2>2. CASE wEv[t] # Nil
    <3>1. wEv[t] \in EventRecords /\ events' = Append(events, wEv[t])
      BY <2>2 DEF Commit, OnceInv, TrailOK
    <3>2. (\E i \in 1 .. Len(events) : events[i].id = n) \/ wEv[t].id = n
      BY <1>7, <3>1, TrailSpends DEF OnceInv
    <3>3. \/ wEv[t].id \in {Nil, now[t]}
          \/ wApp[t] \in AppRows /\ wEv[t].id = wApp[t].id
      BY <1>1, <2>2 DEF Grounded, Told
    <3> QED BY <1>1, <1>2, <3>2, <3>3 DEF Spent
  <2> QED BY <2>1, <2>2
<1> QED BY <1>4, <1>5, <1>6, <1>7 DEF Spent

(* A commit leaves alone what every other command has under way.           *)
LEMMA CommitSpares ==
  ASSUME LockInv, OnceInv, WriteInv, NEW t \in Txns, Commit(t),
         NEW u \in Txns, u # t, pc[u] # "idle"
  PROVE  /\ gest'[key[u]] = gest[key[u]]
         /\ Deciding(u) /\ Cmd(u) \in TriageCommands =>
              up'[P(u)] = up[P(u)] /\ (app[P(u)] # Nil => app'[P(u)] # Nil)
         /\ appLock[P(u)] = u => app'[P(u)] = app[P(u)]
         /\ Deciding(u) /\ Cmd(u) # EmailCommand => idem'[key[u]] = idem[key[u]]
         /\ idem[key[u]] # Nil => idem'[key[u]] = idem[key[u]]
<1> USE AnswersAssumption
<1>1. /\ P(u) \in Postings /\ key[u] \in Keys
      /\ Deciding(t) /\ pc[t] = "commit" /\ Grounded(t)
  BY CommitHolds, Carried DEF LockInv, WriteInv
<1>2. wUp[t] # Nil => upLock[P(t)] = t
  BY <1>1 DEF Grounded, ChoiceMade, LockInv, Holds
<1>3. wApp[t] # Nil => appLock[P(t)] = t
  BY DEF LockInv, Holds
<1>4. wApp[t] = Gone => wUp[t] # Nil
  BY <1>1 DEF Grounded, Rewrites
<1>5. ASSUME Deciding(u), Cmd(u) \in TriageCommands
      PROVE  up'[P(u)] = up[P(u)] /\ (app[P(u)] # Nil => app'[P(u)] # Nil)
  <2>1. CASE P(u) # P(t)
    BY <1>1, <2>1, CommitRows
  <2>2. CASE P(u) = P(t)
    <3>1. upLock[P(u)] = u
      BY <1>5 DEF LockInv, Holds
    <3>2. wUp[t] = Nil /\ wApp[t] # Gone
      BY <1>2, <1>4, <2>2, <3>1
    <3> QED BY <2>2, <3>2, CommitRows
  <2> QED BY <2>1, <2>2
<1>6. ASSUME appLock[P(u)] = u
      PROVE  app'[P(u)] = app[P(u)]
  <2>1. CASE P(u) # P(t)
    BY <1>1, <2>1, CommitRows
  <2>2. CASE P(u) = P(t)
    BY <1>3, <1>6, <2>2, CommitRows
  <2> QED BY <2>1, <2>2
<1>7. ASSUME Deciding(u), Cmd(u) # EmailCommand
      PROVE  idem'[key[u]] = idem[key[u]]
  <2>1. key[u] # key[t]
    BY <1>1, <1>7, OneDecides
  <2> QED BY <1>1, <2>1, CommitAnswers
<1>8. idem[key[u]] # Nil => idem'[key[u]] = idem[key[u]]
  BY <1>1, CommitAnswers
<1>9. gest'[key[u]] = gest[key[u]]
  BY CommitFrame
<1> QED BY <1>5, <1>6, <1>7, <1>8, <1>9

LEMMA CommitGrounded ==
  ASSUME LockInv, OnceInv, WriteInv, NEW t \in Txns, Commit(t)
  PROVE  WriteInv'
<1> USE AnswersAssumption
<1>1. /\ pc[t] = "commit" /\ Deciding(t) /\ P(t) \in Postings /\ key[t] \in Keys
      /\ Grounded(t) /\ Cmd(t) \in CommandNames
  BY CommitHolds DEF WriteInv
<1>2. idem[key[t]] = Nil => idem'[key[t]] # Nil /\ idem'[key[t]].res = res[t]
  <2>1. [cmd |-> Cmd(t), res |-> res[t]] \in Answers
    BY <1>1 DEF LockInv, TypeOK, Answers
  <2>2. [cmd |-> Cmd(t), res |-> res[t]].res = res[t]
    OBVIOUS
  <2> QED BY <2>1, <2>2, CommitAnswers
<1>3. Grounded(t)'
  <2>1. Cmd(t)' = Cmd(t) /\ key'[t] = key[t] /\ res'[t] = res[t]
    BY CommitFrame DEF G, Cmd
  <2>2. Cmd(t) # EmailCommand => idem'[key[t]] # Nil /\ res[t] = idem'[key[t]].res
    <3>1. CASE idem[key[t]] = Nil
      BY <1>2, <3>1
    <3>2. CASE idem[key[t]] # Nil
      BY <1>1, <3>2, CommitAnswers DEF Grounded, Answered
    <3> QED BY <3>1, <3>2
  <2>3. /\ pc'[t] = "done" /\ reply'[t] = "ok"
        /\ wUp'[t] = Nil /\ wApp'[t] = Nil /\ wEv'[t] = Nil
    BY CommitEnds
  <2> QED BY <2>1, <2>2, <2>3, EmptyGrounded
<1>4. ASSUME NEW u \in Txns, u # t
      PROVE  Grounded(u)'
  <2>1. /\ pc'[u] = pc[u] /\ reply'[u] = reply[u]
        /\ wUp'[u] = wUp[u] /\ wApp'[u] = wApp[u] /\ wEv'[u] = wEv[u]
    BY <1>4, CommitEnds
  <2>2. key'[u] = key[u] /\ now'[u] = now[u] /\ res'[u] = res[u]
    BY CommitFrame
  <2> QED BY <1>4, <2>1, <2>2, CommitSpares, GroundKept DEF WriteInv
<1>5. \A n \in Nat : Spent(n)' => \/ Spent(n)
                                  \/ \E v \in Txns : Running(v) /\ ~Running(v)' /\ n = now[v]
  <2>1. Running(t) /\ ~Running(t)'
    BY <1>1, CommitEnds DEF Running
  <2> QED BY <2>1, CommitSpends
<1>6. \A u \in Txns : Running(u)' => Running(u)
  BY <1>1, CommitEnds DEF Running
<1>7. StampInv'
  BY <1>5, <1>6, StampsKept, CommitFrame DEF WriteInv
<1> QED BY <1>3, <1>4, <1>7 DEF WriteInv

-----------------------------------------------------------------------------
LEMMA InitWriteInv == Init => WriteInv
<1> SUFFICES ASSUME Init PROVE WriteInv
  OBVIOUS
<1> USE AnswersAssumption
<1>1. StampInv
  <2>1. ASSUME NEW n \in Nat, Spent(n)
        PROVE  n = 0
    <3>1. Len(events) = 0
      BY DEF Init
    <3>2. \A p \in Postings : app[p] # Nil => app[p] \in Births \ {Nil}
      BY DEF Init
    <3>3. \A p \in Postings : app[p] # Nil => app[p].id = 0 /\ app[p].ver = 0
      BY <3>2, BirthsAssumption
    <3> QED BY <2>1, <3>1, <3>3 DEF Init, Spent
  <2> QED BY <2>1 DEF StampInv, Running, Init
<1>2. ASSUME NEW t \in Txns
      PROVE  Grounded(t)
  <2>1. /\ pc[t] = "idle" /\ reply[t] = "none"
        /\ wUp[t] = Nil /\ wApp[t] = Nil /\ wEv[t] = Nil
    BY DEF Init
  <2>2. ChoiceMade(t) /\ ChoiceKept(t) /\ InStep(t)
    BY <2>1 DEF ChoiceMade, ChoiceKept, InStep
  <2>3. Rewrites(t) /\ Told(t) /\ Answered(t)
    BY <2>1 DEF Rewrites, Told, Answered
  <2> QED BY <2>2, <2>3 DEF Grounded
<1> QED BY <1>1, <1>2 DEF WriteInv

LEMMA NextWriteInv ==
  ASSUME LockInv, OnceInv, WriteInv, [Next]_vars
  PROVE  WriteInv'
<1>1. CASE Call
  BY <1>1, MintGrounded, DeliverGrounded DEF Call
<1>2. ASSUME NEW t \in Txns, TriageStep(t)
      PROVE  WriteInv'
  BY <1>2, TriageGrounded
<1>3. ASSUME NEW t \in Txns, PipelineStep(t)
      PROVE  WriteInv'
  BY <1>3, LockApplicationGrounded, PageGrounded, EmailFindGrounded, EmailInsertGrounded,
     HqApplyEmailEventGrounded, CommitUnappliedGrounded
  DEF PipelineStep
<1>4. ASSUME NEW t \in Txns, Commit(t)
      PROVE  WriteInv'
  BY <1>4, CommitGrounded
<1>5. ASSUME NEW t \in Txns, Lose(t)
      PROVE  WriteInv'
  BY <1>5, FailGrounded DEF Lose, Running
<1>6. ASSUME NEW p \in Swept, Sweep(p)
      PROVE  WriteInv'
  BY <1>6, OutsideGrounded DEF Sweep
<1>7. CASE UNCHANGED vars
  BY <1>7, OutsideGrounded DEF vars, tables
<1> QED BY <1>1, <1>2, <1>3, <1>4, <1>5, <1>6, <1>7 DEF Next, Serve, AllServed

(* The invariant of the write path: the locks, the trail and the buffered  *)
(* writes together.                                                        *)
PathInv == LockInv /\ OnceInv /\ WriteInv

LEMMA PathHeld == Spec => []PathInv
<1>1. Init => PathInv
  BY InitLockInv, InitOnceInv, InitWriteInv DEF PathInv
<1>2. PathInv /\ [Next]_vars => PathInv'
  BY NextLockInv, NextOnceInv, NextWriteInv DEF PathInv
<1> QED BY <1>1, <1>2, PTL DEF Spec

-----------------------------------------------------------------------------
(* Once, and told the same.  The trail never holds two effects of one key, *)
(* and every delivery of a user's gesture that succeeds is told the answer *)
(* stored under its key.                                                   *)
THEOREM SaidOnce == Spec => []Idempotent
<1>1. PathInv => Idempotent
  BY DEF PathInv, OnceInv, WriteInv, Grounded, Answered, Idempotent, SameAnswer
<1> QED BY PathHeld, <1>1, PTL

(* Only a commit touches a decision, an application or an answer; the      *)
(* gestures only ever grow.                                                *)
LEMMA OnlyCommits ==
  ASSUME [Next]_vars
  PROVE  \/ \E t \in Txns : Commit(t)
         \/ /\ up' = up /\ app' = app /\ idem' = idem
            /\ gest' = gest \/ \E k \in Keys, p \in Postings :
                 \E g \in PostingGestures(p) \cup ApplicationGestures(p) : Mint(k, g)
<1>1. CASE Call
  BY <1>1 DEF Call, Mint, Deliver, tables
<1>2. ASSUME NEW t \in Txns, TriageStep(t)
      PROVE  up' = up /\ app' = app /\ idem' = idem /\ gest' = gest
  BY <1>2 DEF TriageStep, LockPosting, AppSetTriage, HqDigestSetTriage, FindApplication,
     QueueApplication, UnqueueApplication, SyncDone, WriteChoice, AnswerStored, AnswerUnchanged,
     Fail, tables
<1>3. ASSUME NEW t \in Txns, PipelineStep(t)
      PROVE  up' = up /\ app' = app /\ idem' = idem /\ gest' = gest
  <2>1. CASE LockApplication(t) \/ EmailFind(t) \/ EmailInsert(t) \/ EmailFindAgain(t)
               \/ CommitUnapplied(t)
    BY <2>1 DEF LockApplication, EmailFind, EmailInsert, EmailFindAgain, CommitUnapplied,
       NoteUnapplied, LockFound, Fail, tables
  <2>2. CASE AppSetStatus(t) \/ AppResolveSuggestion(t) \/ AppAddNote(t) \/ AppSetNextAction(t)
    BY <2>2 DEF AppSetStatus, AppResolveSuggestion, AppAddNote, AppSetNextAction,
       WriteApplication, AnswerStored, AnswerUnchanged, Fail, tables
  <2>3. CASE HqApplyEmailEvent(t)
    BY <2>3 DEF HqApplyEmailEvent, AnswerStored, Fail, tables
  <2> QED BY <1>3, <2>1, <2>2, <2>3 DEF PipelineStep
<1>4. ASSUME NEW t \in Txns, Lose(t)
      PROVE  up' = up /\ app' = app /\ idem' = idem /\ gest' = gest
  BY <1>4 DEF Lose, Fail, tables
<1>5. ASSUME NEW p \in Swept, Sweep(p)
      PROVE  up' = up /\ app' = app /\ idem' = idem /\ gest' = gest
  BY <1>5 DEF Sweep
<1>6. CASE UNCHANGED vars
  BY <1>6 DEF vars, tables
<1> QED BY <1>1, <1>2, <1>3, <1>4, <1>5, <1>6 DEF Next, Serve, AllServed

(* What a commit does to a posting and its application, given what its     *)
(* transaction had buffered.                                               *)
LEMMA CommitMoves ==
  ASSUME PathInv, NEW t \in Txns, Commit(t), NEW p \in Postings
  PROVE  /\ up'[p] # up[p] => p = P(t) /\ up'[p] = wUp[t] /\ wUp[t] # Nil
         /\ app'[p] # app[p] /\ app'[p] # Nil =>
              p = P(t) /\ app'[p] = wApp[t] /\ wApp[t] \in AppRows
         /\ app[p] # Nil /\ app'[p] = Nil =>
              /\ p = P(t) /\ wApp[t] = Gone /\ wUp[t] # Nil /\ Queued(p)
              /\ G(t).arg.triage # "interested"
<1> USE AnswersAssumption DEF PathInv
<1>1. wApp[t] \in AppRows \cup {Nil, Gone}
  BY DEF LockInv, TypeOK
<1>2. Rewrites(t)
  BY DEF WriteInv, Grounded
<1>3. CASE p # P(t)
  BY <1>3, CommitRows
<1>4. CASE p = P(t)
  BY <1>1, <1>2, <1>4, CommitRows DEF Rewrites
<1> QED BY <1>3, <1>4

(* Leaving "interested" buries only a Queued application: whatever         *)
(* transactions overlap, one that an email or a person has moved on        *)
(* survives every triage.                                                  *)
THEOREM OnlyQueuedIsBuried == Spec => MovedOnSurvives
<1>1. PathInv /\ [Next]_vars =>
        \A p \in Postings :
          app[p] # Nil /\ (app'[p] = Nil \/ app'[p].id # app[p].id) => app[p].status = "Queued"
  <2> SUFFICES ASSUME PathInv, [Next]_vars, NEW p \in Postings, app[p] # Nil,
                      app'[p] = Nil \/ app'[p].id # app[p].id
               PROVE  app[p].status = "Queued"
    OBVIOUS
  <2>1. PICK t \in Txns : Commit(t)
    BY OnlyCommits
  <2>2. CASE app'[p] = Nil
    BY <2>1, <2>2, CommitMoves DEF Queued
  <2>3. CASE app'[p] # Nil
    BY <2>1, <2>3, CommitMoves DEF PathInv, WriteInv, Grounded, Rewrites
  <2> QED BY <2>2, <2>3
<1> QED BY PathHeld, <1>1, PTL DEF Spec, MovedOnSurvives

(* Marking a posting interested puts an application in the pipeline, and   *)
(* no interleaving with the email lane or another gesture removes it while *)
(* the posting stays interested.                                           *)
LEMMA InterestKept ==
  ASSUME PathInv, InterestedHasApplication, [Next]_vars
  PROVE  InterestedHasApplication'
<1> USE AnswersAssumption
<1> SUFFICES ASSUME NEW p \in Postings, up'[p].choice.triage = "interested"
             PROVE  app'[p] # Nil
  BY DEF InterestedHasApplication
<1>1. CASE up' = up /\ app' = app
  BY <1>1 DEF InterestedHasApplication
<1>2. ASSUME NEW t \in Txns, Commit(t)
      PROVE  app'[p] # Nil
  <2>1. pc[t] = "commit" /\ P(t) \in Postings /\ ChoiceMade(t) /\ InStep(t)
    BY <1>2, CommitHolds DEF PathInv, WriteInv, Grounded
  <2>2. CASE p # P(t) \/ wUp[t] = Nil
    <3>1. up'[p] = up[p]
      BY <1>2, <2>2, CommitMoves
    <3>2. app[p] # Nil
      BY <3>1 DEF InterestedHasApplication
    <3> QED BY <1>2, <2>2, <3>2, CommitMoves
  <2>3. CASE p = P(t) /\ wUp[t] # Nil
    <3>1. up'[p] = wUp[t]
      BY <1>2, <2>3, CommitRows DEF PathInv
    <3>2. wUp[t].choice = G(t).arg
      BY <2>1, <2>3 DEF ChoiceMade
    <3>3. wApp[t] \in AppRows \/ (wApp[t] = Nil /\ app[p] # Nil)
      BY <2>1, <2>3, <3>1, <3>2 DEF InStep
    <3>4. app'[p] = IF wApp[t] = Nil THEN app[p] ELSE IF wApp[t] = Gone THEN Nil ELSE wApp[t]
      BY <1>2, <2>3, CommitRows DEF PathInv
    <3> QED BY <3>3, <3>4
  <2> QED BY <2>2, <2>3
<1> QED BY <1>1, <1>2, OnlyCommits

THEOREM InterestIsServed == Spec => []InterestedHasApplication
<1>1. Init => InterestedHasApplication
  <2>1. Untriaged.triage = ""
    BY UntriagedAssumption DEF Untriaged
  <2>2. Init => \A p \in Postings : up[p].choice = Untriaged
    BY DEF Init
  <2> QED BY <2>1, <2>2 DEF InterestedHasApplication
<1>2. PathInv /\ InterestedHasApplication /\ [Next]_vars => InterestedHasApplication'
  BY InterestKept
<1> QED BY PathHeld, <1>1, <1>2, PTL DEF Spec

(* A write made on a version the client read replaces exactly that version *)
(* at commit, and no row that changes ever takes a version some client     *)
(* already holds: what a command buffers was checked against a row it      *)
(* still holds, and is stamped with a time nobody else has.                *)
LEMMA Replaces ==
  ASSUME PathInv, NEW t \in Txns, Commits(t), G(t).expect # Nil
  PROVE  /\ wUp[t] # Nil => up[P(t)].ver = G(t).expect
         /\ wApp[t] # Nil /\ Cmd(t) \in RowCommands => app[P(t)].ver = G(t).expect
<1> USE AnswersAssumption DEF PathInv
<1>1. ChoiceMade(t) /\ Rewrites(t)
  BY DEF WriteInv, Grounded
<1>2. wApp[t] \in AppRows \cup {Nil, Gone}
  BY DEF LockInv, TypeOK
<1>3. wUp[t] # Nil => Cmd(t) \in TriageCommands
  BY <1>1 DEF ChoiceMade
<1> QED BY <1>1, <1>2, <1>3 DEF ChoiceMade, Rewrites

LEMMA TokenIsNew ==
  ASSUME PathInv, [Next]_vars, NEW p \in Postings, NEW k \in Keys,
         gest[k] # Nil, gest[k].expect # Nil
  PROVE  /\ up'[p] # up[p] => up'[p].ver # gest[k].expect
         /\ Bare(app'[p]) # Bare(app[p]) /\ app'[p] # Nil => app'[p].ver # gest[k].expect
<1> USE DEF PathInv
<1>1. CASE up' = up /\ app' = app
  BY <1>1
<1>2. ASSUME NEW t \in Txns, Commit(t)
      PROVE  /\ up'[p] # up[p] => up'[p].ver # gest[k].expect
             /\ Bare(app'[p]) # Bare(app[p]) /\ app'[p] # Nil => app'[p].ver # gest[k].expect
  <2>1. Running(t) /\ ChoiceMade(t) /\ Rewrites(t)
    BY <1>2, CommitHolds DEF WriteInv, Grounded
  <2>2. now[t] # gest[k].expect
    <3>1. now[t] \in Nat
      BY DEF LockInv, TypeOK
    <3>2. now[t] = gest[k].expect => Spent(now[t])
      BY DEF Spent
    <3> QED BY <2>1, <3>1, <3>2 DEF WriteInv, StampInv
  <2>3. up'[p] # up[p] => up'[p].ver = now[t]
    <3>1. wUp[t] # Nil => wUp[t].ver = now[t]
      BY <2>1 DEF ChoiceMade
    <3> QED BY <1>2, <3>1, CommitMoves
  <2>4. Bare(app'[p]) # Bare(app[p]) /\ app'[p] # Nil => app'[p].ver = now[t]
    BY <1>2, <2>1, CommitMoves DEF Rewrites
  <2> QED BY <2>2, <2>3, <2>4
<1> QED BY <1>1, <1>2, OnlyCommits

THEOREM ComparesAndSets == Spec => CompareAndSet
<1>1. PathInv => \A t \in Txns : Commits(t) /\ G(t).expect # Nil =>
       /\ wUp[t] # Nil => up[P(t)].ver = G(t).expect
       /\ wApp[t] # Nil /\ Cmd(t) \in RowCommands => app[P(t)].ver = G(t).expect
  BY Replaces
<1>2. PathInv /\ [Next]_vars => \A p \in Postings, k \in Keys :
       gest[k] # Nil /\ gest[k].posting = p /\ gest[k].expect # Nil =>
         /\ gest[k].cmd = "app_set_triage" /\ up'[p] # up[p] =>
              up'[p].ver # gest[k].expect
         /\ gest[k].cmd \in RowCommands /\ Bare(app'[p]) # Bare(app[p]) /\ app'[p] # Nil =>
              app'[p].ver # gest[k].expect
  BY TokenIsNew
<1>3. Spec => NoLostUpdate
  BY PathHeld, <1>1, PTL DEF Spec, NoLostUpdate
<1>4. Spec => TokensNeverReturn
  BY PathHeld, <1>2, PTL DEF Spec, TokensNeverReturn
<1> QED BY <1>3, <1>4 DEF CompareAndSet

(* No bot overrules a person: an email leaves the status and the actor of  *)
(* a claimed application alone, moves an unclaimed one only forward and    *)
(* never to an ending, and takes no suggestion away.                       *)
THEOREM BotsAlwaysDefer == Spec => BotsDefer
<1>1. PathInv /\ [Next]_vars =>
        \A t \in Txns, p \in Postings :
          Commits(t) /\ Cmd(t) = EmailCommand /\ app[p] # Nil /\ app'[p] # app[p] =>
            /\ app'[p] # Nil /\ app'[p].actor = app[p].actor
            /\ app[p].actor = "user" => app'[p].status = app[p].status
            /\ app'[p].status # app[p].status =>
                 /\ Rank(app'[p].status) > Rank(app[p].status)
                 /\ app'[p].status \notin Resolved
            /\ app[p].sugg # "" => app'[p].sugg # ""
  <2> SUFFICES ASSUME PathInv, [Next]_vars, NEW t \in Txns, NEW p \in Postings, Commits(t),
                      Cmd(t) = EmailCommand, app[p] # Nil, app'[p] # app[p]
               PROVE  app'[p] # Nil /\ Defers(app[p], app'[p])
    BY DEF Defers
  <2>1. PICK u \in Txns : Commit(u)
    BY OnlyCommits
  <2>2. u = t
    BY <2>1, CommitEnds DEF PathInv, Commits
  <2>3. wUp[t] = Nil
    BY DEF PathInv, WriteInv, Grounded, ChoiceMade
  <2>4. app'[p] # Nil
    BY <2>1, <2>2, <2>3, CommitMoves
  <2>5. p = P(t) /\ app'[p] = wApp[t] /\ wApp[t] \in AppRows
    BY <2>1, <2>2, <2>4, CommitMoves
  <2>6. Defers(app[p], wApp[t])
    BY <2>5 DEF PathInv, WriteInv, Grounded, Rewrites
  <2> QED BY <2>4, <2>5, <2>6
<1> QED BY PathHeld, <1>1, PTL DEF Spec, BotsDefer

(* A refusal of app_set_triage is about somebody else's write: it looked   *)
(* its key up behind the lock, and while it holds the row no delivery of   *)
(* that key is answered.                                                   *)
Refused(t) == reply[t] = "none" /\ reply'[t] \in {"conflict", "gone", "unique_violation"}

LEMMA RefusedByTriage ==
  ASSUME PathInv, NEW t \in Txns, Refused(t), Cmd(t) = "app_set_triage",
         NEW u \in Txns, TriageStep(u)
  PROVE  idem[key[t]] = Nil
<1> USE DEF PathInv
<1>1. reply \in [Txns -> Replies]
  BY DEF LockInv, TypeOK
<1>2. \A code : Fail(u, code) => t = u /\ reply'[t] = code
  BY <1>1 DEF Fail, Refused
<1>3. CASE LockPosting(u) \/ FindApplication(u) \/ UnqueueApplication(u)
  BY <1>3 DEF LockPosting, FindApplication, UnqueueApplication, SyncDone, Refused
<1>4. CASE AppSetTriage(u)
  BY <1>2, <1>4 DEF AppSetTriage, AnswerStored, AnswerUnchanged, WriteChoice, Hit, Refused
<1>5. CASE HqDigestSetTriage(u)
  BY <1>2, <1>5 DEF HqDigestSetTriage, AnswerStored, AnswerUnchanged, WriteChoice, Refused
<1>6. CASE QueueApplication(u)
  <2>1. CASE ~Fail(u, "unique_violation")
    BY <1>6, <2>1 DEF QueueApplication, SyncDone, Refused
  <2>2. CASE Fail(u, "unique_violation")
    <3>1. t = u /\ pc[t] = "insert"
      BY <1>2, <1>6, <2>2 DEF QueueApplication
    <3>2. ChoiceMade(t) /\ ChoiceKept(t)
      BY DEF WriteInv, Grounded
    <3> QED BY <3>1, <3>2 DEF ChoiceMade, ChoiceKept
  <2> QED BY <2>1, <2>2
<1> QED BY <1>3, <1>4, <1>5, <1>6 DEF TriageStep

LEMMA RefusedByPipeline ==
  ASSUME PathInv, NEW t \in Txns, Refused(t), NEW u \in Txns, PipelineStep(u)
  PROVE  Cmd(t) # "app_set_triage"
<1> USE DEF PathInv
<1>1. reply \in [Txns -> Replies]
  BY DEF LockInv, TypeOK
<1>2. \A code : Fail(u, code) => t = u
  BY <1>1 DEF Fail, Refused
<1>3. CASE LockApplication(u)
  BY <1>2, <1>3 DEF LockApplication, Refused
<1>4. CASE AppSetStatus(u) \/ AppResolveSuggestion(u)
  BY <1>2, <1>4 DEF AppSetStatus, AppResolveSuggestion, WriteApplication, AnswerStored,
     AnswerUnchanged, Refused
<1>5. CASE AppAddNote(u) \/ AppSetNextAction(u)
  BY <1>2, <1>5 DEF AppAddNote, AppSetNextAction, WriteApplication, AnswerStored,
     AnswerUnchanged, Refused
<1>6. CASE EmailFind(u) \/ EmailInsert(u) \/ EmailFindAgain(u)
  BY <1>6 DEF EmailFind, EmailInsert, EmailFindAgain, NoteUnapplied, LockFound, Refused
<1>7. CASE HqApplyEmailEvent(u)
  BY <1>2, <1>7 DEF HqApplyEmailEvent, AnswerStored, Refused
<1>8. CASE CommitUnapplied(u)
  BY <1>1, <1>8 DEF CommitUnapplied, Refused
<1> QED BY <1>3, <1>4, <1>5, <1>6, <1>7, <1>8 DEF PipelineStep

THEOREM RefusalsAreReal == Spec => RefusedMeansUnapplied
<1>1. PathInv /\ [Next]_vars =>
        \A t \in Txns :
          reply[t] = "none" /\ reply'[t] \in {"conflict", "gone", "unique_violation"}
            /\ Cmd(t) = "app_set_triage" => idem[key[t]] = Nil
  <2> SUFFICES ASSUME PathInv, [Next]_vars, NEW t \in Txns, Refused(t),
                      Cmd(t) = "app_set_triage"
               PROVE  idem[key[t]] = Nil
    BY DEF Refused
  <2> USE DEF PathInv
  <2>1. reply \in [Txns -> Replies]
    BY DEF LockInv, TypeOK
  <2>2. CASE Call
    BY <2>1, <2>2 DEF Call, Mint, Deliver, Refused
  <2>3. ASSUME NEW u \in Txns, TriageStep(u)
        PROVE  idem[key[t]] = Nil
    BY <2>3, RefusedByTriage
  <2>4. ASSUME NEW u \in Txns, PipelineStep(u)
        PROVE  FALSE
    BY <2>4, RefusedByPipeline
  <2>5. ASSUME NEW u \in Txns, Commit(u)
        PROVE  FALSE
    BY <2>1, <2>5 DEF Commit, Refused
  <2>6. ASSUME NEW u \in Txns, Lose(u)
        PROVE  FALSE
    BY <2>1, <2>6 DEF Lose, Fail, Refused
  <2>7. ASSUME NEW p \in Swept, Sweep(p)
        PROVE  FALSE
    BY <2>7 DEF Sweep, Refused
  <2>8. CASE UNCHANGED vars
    BY <2>8 DEF vars, Refused
  <2> QED BY <2>2, <2>3, <2>4, <2>5, <2>6, <2>7, <2>8 DEF Next, Serve, AllServed
<1> QED BY PathHeld, <1>1, PTL DEF Spec, RefusedMeansUnapplied

-----------------------------------------------------------------------------
(* The trail, one posting at a time.                                       *)
TriageTrail(p) ==
  /\ \A i \in 1 .. Len(events) :
       AboutTriage(events[i], p)
         /\ (\A j \in i + 1 .. Len(events) : ~AboutTriage(events[j], p))
       => up[p].choice = events[i].to
  /\ (\A i \in 1 .. Len(events) : ~AboutTriage(events[i], p)) => up[p].choice = Untriaged

StatusTrail(p) ==
  app[p] # Nil =>
    /\ \A i \in 1 .. Len(events) :
         AboutStatus(events[i], p)
           /\ (\A j \in i + 1 .. Len(events) : ~AboutStatus(events[j], p))
         => app[p].status = events[i].to
    /\ (\A i \in 1 .. Len(events) : ~AboutStatus(events[i], p)) =>
         app[p].status \in {"Queued", "Inbox"} \/ app[p].id = 0

(* A trail grown by one event keeps agreeing when the tables do what the   *)
(* event says, or, when it is about something else, nothing.               *)
LEMMA TriageTold ==
  ASSUME TrailOK, NEW p \in Postings, TriageTrail(p), NEW e \in EventRecords,
         events' = Append(events, e),
         up'[p].choice = IF AboutTriage(e, p) THEN e.to ELSE up[p].choice
  PROVE  TriageTrail(p)'
<1> DEFINE n == Len(events)
<1>1. /\ Len(events') = n + 1 /\ n \in Nat
      /\ \A i \in 1 .. n : events'[i] = events[i]
      /\ events'[n + 1] = e
  BY Grown
<1> HIDE DEF n
<1>2. CASE AboutTriage(e, p)
  <2>1. ASSUME NEW i \in 1 .. n + 1, \A j \in i + 1 .. n + 1 : ~AboutTriage(events'[j], p)
        PROVE  i = n + 1
    BY <1>1, <1>2, <2>1
  <2> QED BY <1>1, <1>2, <2>1 DEF TriageTrail, AboutTriage
<1>3. CASE ~AboutTriage(e, p)
  <2>1. ASSUME NEW i \in 1 .. n + 1, AboutTriage(events'[i], p),
               \A j \in i + 1 .. n + 1 : ~AboutTriage(events'[j], p)
        PROVE  up'[p].choice = events'[i].to
    <3>1. i \in 1 .. n /\ \A j \in i + 1 .. n : ~AboutTriage(events[j], p)
      BY <1>1, <1>3, <2>1
    <3> QED BY <1>1, <1>3, <2>1, <3>1 DEF TriageTrail, n
  <2>2. (\A i \in 1 .. n + 1 : ~AboutTriage(events'[i], p)) => up'[p].choice = Untriaged
    BY <1>1, <1>3 DEF TriageTrail, n
  <2> QED BY <1>1, <2>1, <2>2 DEF TriageTrail, AboutTriage
<1> QED BY <1>2, <1>3

LEMMA StatusTold ==
  ASSUME TrailOK, NEW p \in Postings, StatusTrail(p), NEW e \in EventRecords,
         events' = Append(events, e), app'[p] # Nil,
         IF e.kind \in StatusKinds /\ e.posting = p /\ e.id = app'[p].id
         THEN app'[p].status = e.to
         ELSE IF app[p] = Nil
         THEN /\ \A i \in 1 .. Len(events) : events[i].id # app'[p].id
              /\ app'[p].status \in {"Queued", "Inbox"}
         ELSE app'[p].id = app[p].id /\ app'[p].status = app[p].status
  PROVE  StatusTrail(p)'
<1> DEFINE n == Len(events)
           About(x) == x.kind \in StatusKinds /\ x.posting = p /\ x.id = app'[p].id
<1>1. /\ Len(events') = n + 1 /\ n \in Nat
      /\ \A i \in 1 .. n : events'[i] = events[i]
      /\ events'[n + 1] = e
  BY Grown
<1>2. \A i \in 1 .. n : app[p] # Nil /\ app'[p].id = app[p].id =>
                          (About(events[i]) <=> AboutStatus(events[i], p))
  BY DEF AboutStatus
<1>3. \A i \in 1 .. n : (\A j \in 1 .. n : events[j].id # app'[p].id) => ~About(events[i])
  OBVIOUS
<1> HIDE DEF n, About
<1>4. CASE About(e)
  <2>1. ASSUME NEW i \in 1 .. n + 1, \A j \in i + 1 .. n + 1 : ~About(events'[j])
        PROVE  i = n + 1
    BY <1>1, <1>4, <2>1
  <2>2. app'[p].status = e.to
    BY <1>4 DEF About
  <2>3. \A i \in 1 .. n + 1 : About(events'[i]) /\ (\A j \in i + 1 .. n + 1 : ~About(events'[j]))
          => app'[p].status = events'[i].to
    BY <1>1, <2>1, <2>2
  <2>4. ~ \A i \in 1 .. n + 1 : ~About(events'[i])
    BY <1>1, <1>4
  <2> QED BY <1>1, <2>3, <2>4 DEF StatusTrail, AboutStatus, About
<1>5. CASE ~About(e) /\ app[p] = Nil
  <2>1. \A i \in 1 .. n : ~About(events[i])
    BY <1>3, <1>5 DEF About, n
  <2>2. \A i \in 1 .. n + 1 : ~About(events'[i])
    BY <1>1, <1>5, <2>1
  <2>3. app'[p].status \in {"Queued", "Inbox"}
    BY <1>5 DEF About
  <2> QED BY <1>1, <2>2, <2>3 DEF StatusTrail, AboutStatus, About
<1>6. CASE ~About(e) /\ app[p] # Nil
  <2>1. app'[p].id = app[p].id /\ app'[p].status = app[p].status
    BY <1>6 DEF About
  <2>2. ASSUME NEW i \in 1 .. n + 1, About(events'[i]),
               \A j \in i + 1 .. n + 1 : ~About(events'[j])
        PROVE  app'[p].status = events'[i].to
    <3>1. i \in 1 .. n /\ \A j \in i + 1 .. n : ~About(events[j])
      BY <1>1, <1>6, <2>2
    <3>2. AboutStatus(events[i], p) /\ \A j \in i + 1 .. n : ~AboutStatus(events[j], p)
      BY <1>1, <1>2, <1>6, <2>1, <2>2, <3>1
    <3> QED BY <1>1, <1>6, <2>1, <3>1, <3>2 DEF StatusTrail, n
  <2>3. (\A i \in 1 .. n + 1 : ~About(events'[i])) =>
          app'[p].status \in {"Queued", "Inbox"} \/ app'[p].id = 0
    <3> SUFFICES ASSUME \A i \in 1 .. n + 1 : ~About(events'[i])
                 PROVE  app'[p].status \in {"Queued", "Inbox"} \/ app'[p].id = 0
      OBVIOUS
    <3>1. \A i \in 1 .. n : ~AboutStatus(events[i], p)
      BY <1>1, <1>2, <1>6, <2>1
    <3> QED BY <1>6, <2>1, <3>1 DEF StatusTrail, n
  <2> QED BY <1>1, <2>2, <2>3 DEF StatusTrail, AboutStatus, About
<1> QED BY <1>4, <1>5, <1>6

(* The event of a decision goes on the trail with it.                      *)
LEMMA DecisionTold ==
  ASSUME PathInv, NEW t \in Txns, pc[t] = "commit", wUp[t] # Nil
  PROVE  /\ wEv[t] \in EventRecords /\ wEv[t].kind = "triage"
         /\ wEv[t].posting = P(t) /\ wEv[t].to = wUp[t].choice
<1> USE DEF PathInv
<1>1. ChoiceMade(t) /\ InStep(t)
  BY DEF WriteInv, Grounded
<1>2. PICK id \in {Nil, now[t]} : wEv[t] = TriageEvent(t, id)
  BY <1>1 DEF InStep
<1>3. TriageEvent(t, id) \in EventRecords
  <2>1. Cmd(t) \in TriageCommands /\ id \in Nat \cup {Nil}
    BY <1>1 DEF ChoiceMade, LockInv, TypeOK
  <2> QED BY <2>1, Carried, Arguments DEF LockInv, TriageEvent, EventRecords, TriageEvents
<1>4. wUp[t].choice = G(t).arg
  BY <1>1 DEF ChoiceMade
<1> QED BY <1>2, <1>3, <1>4 DEF TriageEvent

LEMMA CommitTellsTriage ==
  ASSUME PathInv, NEW t \in Txns, Commit(t), NEW p \in Postings, TriageTrail(p)
  PROVE  TriageTrail(p)'
<1> USE DEF PathInv
<1>1. pc[t] = "commit" /\ Told(t)
  BY CommitHolds DEF WriteInv, Grounded
<1>2. wEv[t] \in EventRecords \cup {Nil}
  BY DEF OnceInv, TrailOK
<1>3. CASE wEv[t] = Nil
  <2>1. wUp[t] = Nil
    BY <1>1, <1>3, DecisionTold, EventsAssumption
  <2>2. up'[p] = up[p]
    BY <2>1, CommitMoves
  <2>3. events' = events
    BY <1>3 DEF Commit
  <2> QED BY <2>2, <2>3 DEF TriageTrail, AboutTriage
<1>4. CASE wEv[t] # Nil
  <2>1. wEv[t] \in EventRecords /\ events' = Append(events, wEv[t])
    BY <1>2, <1>4 DEF Commit
  <2>2. up'[p].choice = IF AboutTriage(wEv[t], p) THEN wEv[t].to ELSE up[p].choice
    <3>1. CASE wUp[t] = Nil
      <4>1. wEv[t].kind # "triage"
        BY <1>1, <1>4, <3>1 DEF Told
      <4>2. up'[p] = up[p]
        BY <3>1, CommitMoves
      <4> QED BY <4>1, <4>2 DEF AboutTriage
    <3>2. CASE wUp[t] # Nil
      <4>1. AboutTriage(wEv[t], p) <=> p = P(t)
        BY <1>1, <3>2, DecisionTold DEF AboutTriage
      <4>2. p # P(t) => up'[p] = up[p]
        BY CommitMoves
      <4>3. p = P(t) => up'[p] = wUp[t]
        BY <3>2, CommitRows
      <4> QED BY <1>1, <3>2, <4>1, <4>2, <4>3, DecisionTold
    <3> QED BY <3>1, <3>2
  <2> QED BY <2>1, <2>2, TriageTold DEF OnceInv
<1> QED BY <1>3, <1>4

LEMMA CommitTellsStatus ==
  ASSUME PathInv, NEW t \in Txns, Commit(t), NEW p \in Postings, StatusTrail(p)
  PROVE  StatusTrail(p)'
<1> USE AnswersAssumption DEF PathInv
<1> SUFFICES ASSUME app'[p] # Nil PROVE StatusTrail(p)'
  BY DEF StatusTrail
<1> DEFINE e    == wEv[t]
           says == e.kind \in StatusKinds /\ e.posting = p /\ e.id = app'[p].id
<1>1. pc[t] = "commit" /\ Running(t) /\ Told(t) /\ Rewrites(t)
  BY CommitHolds DEF WriteInv, Grounded
<1>2. e \in EventRecords \cup {Nil}
  BY DEF OnceInv, TrailOK
<1>3. app'[p] # app[p] => p = P(t) /\ app'[p] = wApp[t] /\ wApp[t] \in AppRows
  BY CommitMoves
<1>4. app[p] \in AppRows \cup {Nil}
  BY DEF LockInv, TypeOK
<1>5. app'[p].id # Nil
  BY <1>3, <1>4 DEF AppRows
<1>6. e # Nil /\ says =>
        p = P(t) /\ wApp[t] \in AppRows /\ e.to = wApp[t].status /\ SaysStatus(t) /\ e.id # Nil
  BY <1>1, <1>5 DEF Told, SaysStatus
<1>7. wApp[t] \in AppRows /\ p = P(t) => app'[p] = wApp[t]
  BY CommitRows
<1>8. CASE e # Nil /\ says
  <2>1. e \in EventRecords /\ events' = Append(events, e)
    BY <1>2, <1>8 DEF Commit
  <2>2. app'[p].status = e.to
    BY <1>6, <1>7, <1>8
  <2> HIDE DEF e
  <2> QED BY <1>8, <2>1, <2>2, StatusTold DEF OnceInv
<1>9. CASE ~(e # Nil /\ says)
  <2>1. IF app[p] = Nil
        THEN /\ \A i \in 1 .. Len(events) : events[i].id # app'[p].id
             /\ app'[p].status \in {"Queued", "Inbox"}
        ELSE app'[p].id = app[p].id /\ app'[p].status = app[p].status
    <3>1. CASE app'[p] = app[p]
      BY <3>1
    <3>2. CASE app'[p] # app[p]
      <4>1. p = P(t) /\ app'[p] = wApp[t] /\ wApp[t] \in AppRows
        BY <1>3, <3>2
      <4>2. ~(SaysStatus(t) /\ e.id # Nil)
        BY <1>1, <1>9, <4>1 DEF Told, SaysStatus
      <4>3. IF app[p] = Nil THEN wApp[t].status \in {"Queued", "Inbox"}
            ELSE wApp[t].status = app[p].status
        BY <1>1, <4>1, <4>2 DEF Told
      <4>4. app[p] = Nil => wApp[t].id = now[t]
        BY <1>1, <4>1 DEF Rewrites
      <4>5. app[p] # Nil => wApp[t].id = app[p].id
        BY <1>1, <4>1 DEF Rewrites
      <4>6. \A i \in 1 .. Len(events) : events[i].id # now[t]
        <5>1. now[t] \in Nat /\ ~Spent(now[t])
          BY <1>1 DEF LockInv, TypeOK, WriteInv, StampInv
        <5> QED BY <5>1 DEF Spent
      <4> QED BY <4>1, <4>3, <4>4, <4>5, <4>6
    <3> QED BY <3>1, <3>2
  <2>2. CASE e = Nil
    <3>1. events' = events
      BY <2>2 DEF Commit
    <3>2. CASE app[p] = Nil
      BY <2>1, <3>1, <3>2 DEF StatusTrail, AboutStatus
    <3>3. CASE app[p] # Nil
      BY <2>1, <3>1, <3>3 DEF StatusTrail, AboutStatus
    <3> QED BY <3>2, <3>3
  <2>3. CASE e # Nil
    <3>1. e \in EventRecords /\ events' = Append(events, e) /\ ~says
      BY <1>2, <1>9, <2>3 DEF Commit
    <3> HIDE DEF e
    <3> QED BY <2>1, <3>1, StatusTold DEF OnceInv
  <2> QED BY <2>2, <2>3
<1> QED BY <1>8, <1>9

(* Only a commit, and the note that an email found nothing to apply to,    *)
(* write the trail.                                                        *)
LEMMA OnlyCommitsTell ==
  ASSUME [Next]_vars
  PROVE  \/ \E t \in Txns : Commit(t) \/ CommitUnapplied(t)
         \/ events' = events
<1>1. CASE Call
  BY <1>1 DEF Call, Mint, Deliver, tables
<1>2. ASSUME NEW t \in Txns, TriageStep(t)
      PROVE  events' = events
  BY <1>2 DEF TriageStep, LockPosting, AppSetTriage, HqDigestSetTriage, FindApplication,
     QueueApplication, UnqueueApplication, SyncDone, WriteChoice, AnswerStored, AnswerUnchanged,
     Fail, tables
<1>3. ASSUME NEW t \in Txns, PipelineStep(t), ~CommitUnapplied(t)
      PROVE  events' = events
  <2>1. CASE LockApplication(t) \/ EmailFind(t) \/ EmailInsert(t) \/ EmailFindAgain(t)
    BY <2>1 DEF LockApplication, EmailFind, EmailInsert, EmailFindAgain,
       NoteUnapplied, LockFound, Fail, tables
  <2>2. CASE AppSetStatus(t) \/ AppResolveSuggestion(t) \/ AppAddNote(t) \/ AppSetNextAction(t)
    BY <2>2 DEF AppSetStatus, AppResolveSuggestion, AppAddNote, AppSetNextAction,
       WriteApplication, AnswerStored, AnswerUnchanged, Fail, tables
  <2>3. CASE HqApplyEmailEvent(t)
    BY <2>3 DEF HqApplyEmailEvent, AnswerStored, Fail, tables
  <2> QED BY <1>3, <2>1, <2>2, <2>3 DEF PipelineStep
<1>4. ASSUME NEW t \in Txns, Lose(t)
      PROVE  events' = events
  BY <1>4 DEF Lose, Fail, tables
<1>5. ASSUME NEW p \in Swept, Sweep(p)
      PROVE  events' = events
  BY <1>5 DEF Sweep
<1>6. CASE UNCHANGED vars
  BY <1>6 DEF vars, tables
<1> QED BY <1>1, <1>2, <1>3, <1>4, <1>5, <1>6 DEF Next, Serve, AllServed

LEMMA TrailKept ==
  ASSUME PathInv, [Next]_vars, NEW p \in Postings, TriageTrail(p), StatusTrail(p)
  PROVE  (TriageTrail(p) /\ StatusTrail(p))'
<1> USE DEF PathInv
<1>1. ASSUME NEW t \in Txns, Commit(t)
      PROVE  (TriageTrail(p) /\ StatusTrail(p))'
  BY <1>1, CommitTellsTriage, CommitTellsStatus
<1>2. ASSUME up' = up, app' = app, events' = events
      PROVE  (TriageTrail(p) /\ StatusTrail(p))'
  BY <1>2 DEF TriageTrail, StatusTrail, AboutTriage, AboutStatus
<1>3. ASSUME NEW t \in Txns, CommitUnapplied(t), wEv[t] # Nil
      PROVE  (TriageTrail(p) /\ StatusTrail(p))'
  <2>1. /\ up' = up /\ app' = app /\ events' = Append(events, wEv[t])
        /\ wEv[t] \in EventRecords
    BY <1>3 DEF CommitUnapplied, OnceInv, TrailOK
  <2>2. wEv[t].kind = "unapplied"
    BY <1>3 DEF CommitUnapplied, WriteInv, Grounded, Told
  <2>3. TriageTrail(p)'
    BY <2>1, <2>2, TriageTold DEF OnceInv, AboutTriage
  <2>4. CASE app[p] = Nil
    BY <2>1, <2>3, <2>4 DEF StatusTrail
  <2>5. CASE app[p] # Nil
    <3>1. wEv[t].kind \notin StatusKinds
      BY <2>2 DEF StatusKinds
    <3> QED BY <2>1, <2>3, <2>5, <3>1, StatusTold DEF OnceInv
  <2> QED BY <2>4, <2>5
<1>4. ASSUME NEW t \in Txns, CommitUnapplied(t), wEv[t] = Nil
      PROVE  up' = up /\ app' = app /\ events' = events
  BY <1>4 DEF CommitUnapplied
<1> QED BY <1>1, <1>2, <1>3, <1>4, OnlyCommits, OnlyCommitsTell

(* The audit trail is complete and in order: its last word about a         *)
(* posting's decision and about an application's status is what the tables *)
(* say, and where it says nothing they hold what they were born with.      *)
THEOREM TrailIsTheTruth == Spec => []TrailAgrees
<1> DEFINE Trails == \A p \in Postings : TriageTrail(p) /\ StatusTrail(p)
<1>1. Init => Trails
  <2> SUFFICES ASSUME Init, NEW p \in Postings PROVE TriageTrail(p) /\ StatusTrail(p)
    OBVIOUS
  <2>1. Len(events) = 0 /\ up[p].choice = Untriaged
    BY DEF Init
  <2>2. app[p] # Nil => app[p].id = 0
    BY BirthsAssumption DEF Init
  <2> QED BY <2>1, <2>2 DEF TriageTrail, StatusTrail
<1>2. PathInv /\ Trails /\ [Next]_vars => Trails'
  BY TrailKept
<1>3. Trails => TrailAgrees
  BY DEF TriageTrail, StatusTrail, TrailAgrees
<1> HIDE DEF Trails
<1> QED BY PathHeld, <1>1, <1>2, <1>3, PTL DEF Spec

-----------------------------------------------------------------------------
(* The write path implements the decision register.                        *)
Live      == {p \in Postings : app[p] # Nil}
Answer(k) == IF idem[k] = Nil THEN Nil ELSE idem[k].res

LEMMA RegisterInit == Init => Register!Init
<1> SUFFICES ASSUME Init PROVE Register!Init
  OBVIOUS
<1>1. Untriaged.triage = ""
  BY UntriagedAssumption DEF Untriaged
<1>2. \A p \in Postings : up[p].choice.triage = "" /\ up[p].ver = 0
  <2>1. \A p \in Postings : up[p].choice = Untriaged /\ up[p].ver = 0
    BY DEF Init
  <2> QED BY <1>1, <2>1
<1>3. [k \in Keys |-> IF idem[k] = Nil THEN Nil ELSE idem[k].res] = [k \in Keys |-> Nil]
  BY DEF Init
<1>4. gest = [k \in Keys |-> Nil]
  BY DEF Init
<1> QED BY <1>2, <1>3, <1>4 DEF Register!Init

(* What a commit does to the answers.                                      *)
LEMMA CommitAnswersOne ==
  ASSUME PathInv, NEW t \in Txns, Commit(t)
  PROVE  \A k \in Keys :
           Answer(k)' = IF k = key[t] /\ idem[k] = Nil THEN res[t] ELSE Answer(k)
<1> USE AnswersAssumption DEF PathInv
<1>1. \A k \in Keys \ {key[t]} : Answer(k)' = Answer(k)
  BY CommitAnswers DEF Answer
<1>2. ASSUME NEW k \in Keys, k = key[t], idem[k] # Nil
      PROVE  Answer(k)' = Answer(k)
  BY <1>2, CommitAnswers DEF Answer
<1>3. ASSUME NEW k \in Keys, k = key[t], idem[k] = Nil
      PROVE  Answer(k)' = res[t]
  <2> DEFINE a == [cmd |-> Cmd(t), res |-> res[t]]
  <2>1. a \in Answers
    BY CommitHolds DEF LockInv, TypeOK, Answers
  <2>2. idem'[k] = a
    BY <1>3, CommitAnswers
  <2>3. a # Nil /\ a.res = res[t]
    BY <2>1
  <2> QED BY <2>2, <2>3 DEF Answer
<1> QED BY <1>1, <1>2, <1>3

LEMMA DecisionStep ==
  ASSUME PathInv, NEW t \in Txns, Commit(t), wUp[t] # Nil, NEW k \in Keys, k = key[t]
  PROVE  Register!Decide(k)
<1> USE AnswersAssumption DEF PathInv
<1> DEFINE p == P(t)
           answer == [j \in Keys |-> Answer(j)]
<1>1. /\ pc[t] = "commit" /\ Running(t) /\ p \in Postings /\ k \in Keys
      /\ ChoiceMade(t) /\ InStep(t)
      /\ gest[k] # Nil /\ gest' = gest
  BY CommitHolds, CommitFrame DEF WriteInv, Grounded, LockInv, TypeOK, Running
<1>2. /\ Cmd(t) \in TriageCommands /\ idem[k] = Nil /\ ~Agrees(t)
      /\ wUp[t] = [choice |-> G(t).arg, ver |-> now[t]] /\ res[t] = wUp[t]
      /\ G(t).expect # Nil => up[p].ver = G(t).expect
  BY <1>1 DEF ChoiceMade
<1>3. /\ up' = [up EXCEPT ![p] = wUp[t]] /\ up'[p] = wUp[t]
      /\ up'[p].ver = now[t] /\ wUp[t] = [choice |-> G(t).arg, ver |-> up'[p].ver]
  <2>1. up' = [up EXCEPT ![p] = wUp[t]]
    BY DEF Commit
  <2>2. up'[p] = wUp[t]
    BY CommitRows
  <2> QED BY <1>2, <2>1, <2>2
<1>4. up'[p].ver # up[p].ver
  <2>1. now[t] \in Nat /\ ~Spent(now[t])
    BY <1>1 DEF LockInv, TypeOK, WriteInv, StampInv
  <2> QED BY <1>1, <1>3, <2>1 DEF Spent
<1>5. Live' \in IF G(t).arg.triage = "interested" THEN {Live \cup {p}} ELSE {Live, Live \ {p}}
  <2>1. \A q \in Postings \ {p} : app'[q] = app[q]
    BY CommitRows
  <2>2. app'[p] = IF wApp[t] = Nil THEN app[p] ELSE IF wApp[t] = Gone THEN Nil ELSE wApp[t]
    BY CommitRows
  <2>3. CASE G(t).arg.triage = "interested"
    <3>1. wApp[t] \in AppRows \/ (wApp[t] = Nil /\ app[p] # Nil)
      BY <1>1, <2>3 DEF InStep
    <3>2. app'[p] # Nil
      BY <2>2, <3>1
    <3>3. Live' = Live \cup {p}
      BY <1>1, <2>1, <3>2 DEF Live
    <3> QED BY <2>3, <3>3
  <2>4. CASE G(t).arg.triage # "interested"
    <3>1. wApp[t] \in {Nil, Gone}
      BY <1>1, <2>4 DEF InStep
    <3>2. CASE wApp[t] = Nil
      <4>1. Live' = Live
        BY <2>1, <2>2, <3>2 DEF Live
      <4> QED BY <2>4, <4>1
    <3>3. CASE wApp[t] = Gone
      <4>1. Live' = Live \ {p}
        BY <2>1, <2>2, <3>3 DEF Live
      <4> QED BY <2>4, <4>1
    <3> QED BY <3>1, <3>2, <3>3
  <2> QED BY <2>3, <2>4
<1>6. [j \in Keys |-> Answer(j)'] = [answer EXCEPT ![k] = up'[p]]
  <2>1. \A j \in Keys : Answer(j)' = IF j = k THEN up'[p] ELSE Answer(j)
    BY <1>2, <1>3, CommitAnswersOne
  <2> QED BY <2>1
<1>7. Register!Open(k)
  BY <1>1, <1>2 DEF Register!Open, Register!Deciding, Cmd, G
<1>8. Register!Expected(k)
  BY <1>2 DEF Register!Expected, G, P
<1>9. ~Register!Agrees(k)
  BY <1>2 DEF Register!Agrees, Agrees, Cmd, G, P
<1>10. gest[k].posting = p /\ gest[k].arg = G(t).arg
  BY DEF P, G
<1> HIDE DEF p
<1>11. up' = [up EXCEPT ![gest[k].posting] =
                [choice |-> gest[k].arg, ver |-> up'[gest[k].posting].ver]]
  BY <1>3, <1>10
<1>12. up'[gest[k].posting].ver # up[gest[k].posting].ver
  BY <1>4, <1>10
<1>13. {q \in Postings : app'[q] # Nil} \in
         IF gest[k].arg.triage = "interested" THEN {Live \cup {gest[k].posting}}
         ELSE {Live, Live \ {gest[k].posting}}
  BY <1>5, <1>10 DEF Live
<1>14. [j \in Keys |-> IF idem'[j] = Nil THEN Nil ELSE idem'[j].res] =
         [answer EXCEPT ![k] = up'[gest[k].posting]]
  BY <1>6, <1>10 DEF Answer
<1> QED BY <1>1, <1>7, <1>8, <1>9, <1>11, <1>12, <1>13, <1>14
        DEF Register!Decide, Register!Answered, Live, Answer

(* A commit that decides nothing: a triage that found its answer, or that  *)
(* asked for what the row says, and every other command.                   *)
LEMMA NoDecisionStep ==
  ASSUME PathInv, NEW t \in Txns, Commit(t), wUp[t] = Nil, NEW k \in Keys, k = key[t]
  PROVE  Register!Keep(k) \/ Register!Elsewhere \/ UNCHANGED Register!vars
<1> USE AnswersAssumption DEF PathInv
<1> DEFINE answer == [j \in Keys |-> Answer(j)]
<1>1. /\ pc[t] = "commit" /\ k \in Keys /\ ChoiceKept(t) /\ Rewrites(t)
      /\ gest[k] # Nil /\ gest' = gest /\ up' = up
  BY CommitHolds, CommitFrame DEF WriteInv, Grounded, LockInv, TypeOK, Commit
<1>2. \A j \in Keys : Answer(j)' = IF j = k /\ idem[j] = Nil THEN res[t] ELSE Answer(j)
  BY CommitAnswersOne
<1>3. Live \subseteq Live'
  BY <1>1, CommitMoves DEF Live
<1>4. CASE Cmd(t) \notin TriageCommands
  <2>1. \A j \in Keys : Answer(j)' # Answer(j) =>
          Answer(j) = Nil /\ gest[j] # Nil /\ gest[j].cmd \notin Register!Deciding
    <3>1. ASSUME NEW j \in Keys, Answer(j)' # Answer(j)
          PROVE  j = k /\ idem[j] = Nil
      BY <1>2, <3>1
    <3>2. gest[k].cmd \notin Register!Deciding
      BY <1>4 DEF Register!Deciding, Cmd, G
    <3> QED BY <1>1, <3>1, <3>2 DEF Answer
  <2>2. \A j \in Keys : [i \in Keys |-> Answer(i)'][j] = Answer(j)' /\ answer[j] = Answer(j)
    OBVIOUS
  <2> QED BY <1>1, <1>3, <2>1, <2>2 DEF Register!Elsewhere, Live, Answer
<1>5. CASE Cmd(t) \in TriageCommands
  <2>1. wApp[t] = Nil
    BY <1>1, <1>5 DEF ChoiceKept
  <2>2. app' = app
    BY <2>1 DEF Commit
  <2>3. CASE idem[k] # Nil
    <3>1. \A j \in Keys : Answer(j)' = Answer(j)
      BY <1>2, <2>3
    <3>2. [j \in Keys |-> Answer(j)'] = answer
      BY <3>1
    <3> QED BY <1>1, <2>2, <3>2 DEF Register!vars, Answer
  <2>4. CASE idem[k] = Nil
    <3>1. Agrees(t) /\ res[t] = up[P(t)]
      BY <1>1, <1>5, <2>4 DEF ChoiceKept
    <3>2. Register!Open(k) /\ Register!Agrees(k)
      BY <1>1, <1>5, <2>4, <3>1 DEF Register!Open, Register!Deciding, Register!Agrees,
         Agrees, Cmd, G, P
    <3>3. \A j \in Keys : Answer(j)' = IF j = k THEN up[P(t)] ELSE Answer(j)
      BY <1>2, <2>4, <3>1
    <3>4. [j \in Keys |-> Answer(j)'] = [answer EXCEPT ![k] = up[gest[k].posting]]
      BY <3>3 DEF P, G
    <3> QED BY <1>1, <2>2, <3>2, <3>4 DEF Register!Keep, Register!Answered, Answer
  <2> QED BY <2>3, <2>4
<1> QED BY <1>4, <1>5

LEMMA RegisterStep ==
  ASSUME PathInv, [Next]_vars
  PROVE  [Register!Next]_(Register!vars)
<1> USE DEF PathInv
<1>1. ASSUME NEW t \in Txns, Commit(t)
      PROVE  [Register!Next]_(Register!vars)
  <2>1. PICK k \in Keys : k = key[t]
    BY <1>1, CommitHolds
  <2>2. CASE wUp[t] # Nil
    <3>1. Register!Decide(k)
      BY <1>1, <2>1, <2>2, DecisionStep
    <3>2. Register!Next
      BY <2>1, <3>1 DEF Register!Next
    <3> QED BY <3>2
  <2>3. CASE wUp[t] = Nil
    <3>1. Register!Keep(k) \/ Register!Elsewhere \/ UNCHANGED Register!vars
      BY <1>1, <2>1, <2>3, NoDecisionStep
    <3>2. Register!Next \/ UNCHANGED Register!vars
      BY <2>1, <3>1 DEF Register!Next
    <3> QED BY <3>2
  <2> QED BY <2>2, <2>3
<1>2. CASE up' = up /\ app' = app /\ idem' = idem /\ gest' = gest
  BY <1>2 DEF Register!vars
<1>3. ASSUME NEW k \in Keys, NEW p \in Postings,
             NEW g \in PostingGestures(p) \cup ApplicationGestures(p), Mint(k, g)
      PROVE  Register!Ask(k)
  <2>1. gest[k] = Nil /\ gest'[k] # Nil
    <3>2. gest'[k] = g
      BY <1>3 DEF Mint, LockInv, TypeOK
    <3>3. g \in Gestures
      BY <1>3, Mintable DEF LockInv
    <3> QED BY <1>3, <3>2, <3>3, AnswersAssumption DEF Mint
  <2>2. \A j \in Keys \ {k} : gest'[j] = gest[j]
    BY <1>3 DEF Mint, LockInv, TypeOK
  <2> QED BY <1>3, <2>1, <2>2 DEF Register!Ask, Mint, tables
<1> QED BY <1>1, <1>2, <1>3, OnlyCommits DEF Register!Next

(* The triage commands, run concurrently with redelivery, loss and the     *)
(* other lanes, behave like the register: a decision takes effect in one   *)
(* step, only on the version its caller read, puts its answer under its    *)
(* key in that same step, and is never applied again.                      *)
THEOREM ImplementsRegister == Spec => RegisterSpec
<1> QED BY PathHeld, RegisterInit, RegisterStep, PTL DEF Spec, RegisterSpec, Register!Spec
=============================================================================
