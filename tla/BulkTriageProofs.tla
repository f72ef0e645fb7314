-------------------------- MODULE BulkTriageProofs --------------------------
(***************************************************************************)
(* What a bulk triage promises, for any number of transactions, keys and   *)
(* postings and for any selections.                                        *)
(*                                                                         *)
(* BulkInv follows each batch through its loop.  Behind the counter every  *)
(* row is locked, is still the version the client read, and has or is      *)
(* about to get the decision (Ready); the buffered rows and the buffered   *)
(* events are about the same postings (Buffered).  The lock alone does not *)
(* stop the second delivery of a key, which looked the key up before the   *)
(* first one committed: what stops it is that a version once replaced      *)
(* never comes back, although stamps are taken at the start of a           *)
(* transaction and rows may therefore go from a later stamp to an earlier  *)
(* one.  Retired says so, and every event on the trail carries the proof   *)
(* that the version it was written over is retired (Recorded).             *)
(***************************************************************************)
EXTENDS BulkRefinement, TLAPS

(* What app_set_triage_bulk writes on the trail.                            *)
AuditRows == [key: Keys, posting: Postings, to: Choices]

(* The tables and buffers hold what their columns allow.                   *)
Shapes ==
  /\ TypeOK
  /\ DOMAIN gest = Keys
  /\ \A k \in Keys : gest[k] # Nil =>
       /\ gest[k].batch \in Batches /\ gest[k].choice \in Choices
       /\ gest[k].expect \in [1 .. Len(gest[k].batch) -> Nat \cup {Nil}]
  /\ key \in [Txns -> Keys \cup {Nil}] /\ clock \in Nat
  /\ events \in Seq(AuditRows) /\ wEv \in [Txns -> Seq(AuditRows)]
  /\ wUp \in [Txns -> [Postings -> UpRows \cup {Nil}]]
  /\ wApp \in [Txns -> [Postings -> {"none", "Queued", Nil}]]

(* The positions the loop has passed.                                      *)
Visited(t) == 1 .. at[t] - 1

(* Where the loop of t has been: the row is held, it is the version the    *)
(* client read, and it has the decision or is about to get it.             *)
Ready(t, j) ==
  LET p == G(t).batch[j]
  IN /\ upLock[p] = t
     /\ G(t).expect[j] # Nil => up[p].ver = G(t).expect[j]
     /\ \/ wUp[t][p] = Nil /\ up[p].choice = G(t).choice
        \/ wUp[t][p] = Chosen(t)

Spoken(t, p) == \E i \in 1 .. Len(wEv[t]) : wEv[t][i].posting = p

(* One event for each row to be written, and none besides.                 *)
Buffered(t) ==
  /\ \A p \in Postings : wUp[t][p] # Nil =>
       Spoken(t, p) /\ \E j \in Visited(t) : G(t).batch[j] = p
  /\ \A i \in 1 .. Len(wEv[t]) :
       /\ wEv[t][i].key = key[t] /\ wEv[t][i].to = G(t).choice
       /\ wUp[t][wEv[t][i].posting] # Nil
  /\ \A i, j \in 1 .. Len(wEv[t]) : wEv[t][i].posting = wEv[t][j].posting => i = j

(* The stamp of a running transaction is no row's yet, and later than what *)
(* its client read.                                                        *)
Stamped(t) ==
  /\ now[t] <= clock
  /\ \A p \in Postings : up[p].ver # now[t]
  /\ \A j \in 1 .. Len(G(t).batch) : G(t).expect[j] # Nil => G(t).expect[j] < now[t]

Running(t) ==
  pc[t] = "loop" =>
    /\ key[t] \in Keys /\ gest[key[t]] # Nil
    /\ at[t] \in 1 .. Len(G(t).batch) + 1
    /\ \A j \in Visited(t) : Ready(t, j)
    /\ Buffered(t)
    /\ Stamped(t)

Resting(t) == pc[t] # "loop" => wUp[t] = Nothing /\ wApp[t] = Nothing /\ wEv[t] = <<>>

(* Stamps belong to one transaction each, and none is ahead of the clock.  *)
Clocked ==
  /\ \A t, u \in Txns : pc[t] = "loop" /\ pc[u] = "loop" /\ now[t] = now[u] => t = u
  /\ \A p \in Postings : up[p].ver <= clock
  /\ \A k \in Keys : gest[k] # Nil =>
       \A j \in 1 .. Len(gest[k].batch) : gest[k].expect[j] # Nil => gest[k].expect[j] <= clock

(* No row has this version, nor ever will again.                           *)
Retired(p, v) ==
  v <= clock /\ up[p].ver # v /\ \A t \in Txns : pc[t] = "loop" => now[t] # v

(* An event was written over a version that is retired, if its batch named *)
(* one.                                                                    *)
Recorded(e) ==
  /\ gest[e.key] # Nil
  /\ \E n \in 1 .. Len(gest[e.key].batch) :
       /\ gest[e.key].batch[n] = e.posting
       /\ gest[e.key].expect[n] # Nil => Retired(e.posting, gest[e.key].expect[n])

LastWord(i) == \A j \in i + 1 .. Len(events) : events[j].posting # events[i].posting

BulkInv ==
  /\ Shapes /\ Clocked
  /\ \A t \in Txns : Running(t) /\ Resting(t)
  /\ \A i \in 1 .. Len(events) :
       Recorded(events[i]) /\ (LastWord(i) => up[events[i].posting].choice = events[i].to)
  /\ VersionedBatchOnce

(* The write row p's application gets from this decision, as things stand. *)
Follow(t, p) ==
  IF G(t).choice = "interested" /\ app[p] = "none" THEN "Queued"
  ELSE IF G(t).choice # "interested" /\ app[p] = "Queued" THEN "none"
  ELSE Nil

(* Behind the counter the answer holds every row as the commit will leave  *)
(* it; a row is buffered when it changes, and its application with it, as  *)
(* if it were decided now.                                                 *)
Built(t) ==
  IF pc[t] # "loop" THEN rows[t] = <<>>
  ELSE /\ Len(rows[t]) = at[t] - 1
       /\ \A j \in Visited(t) :
            LET p == G(t).batch[j]
            IN rows[t][j] = IF wUp[t][p] = Nil THEN up[p] ELSE wUp[t][p]
       /\ \A p \in Postings :
            IF wUp[t][p] = Nil THEN wApp[t][p] = Nil
            ELSE up[p].choice # G(t).choice /\ wApp[t][p] = Follow(t, p)

(* Of an answered batch a row that was sent with its version has moved on  *)
(* for good, or still is that version and has the decision.                *)
SettledAt(k, n) ==
  LET p == gest[k].batch[n]
      v == gest[k].expect[n]
  IN v # Nil => Retired(p, v) \/ (up[p].ver = v /\ up[p].choice = gest[k].choice)

Settled(k) ==
  idem[k] # Nil => gest[k] # Nil /\ \A n \in 1 .. Len(gest[k].batch) : SettledAt(k, n)

AnswerInv ==
  /\ rows \in [Txns -> Seq(UpRows)] /\ DOMAIN idem = Keys
  /\ \A t \in Txns : Built(t)
  /\ \A k \in Keys : Settled(k)

-----------------------------------------------------------------------------
(* A minted gesture is about distinct postings.                            *)
LEMMA Meant ==
  ASSUME Shapes, NEW k \in Keys, gest[k] # Nil
  PROVE  LET b == gest[k].batch
         IN /\ b \in Seq(Postings) /\ Len(b) \in Nat /\ Len(b) >= 1
            /\ \A i \in 1 .. Len(b) : b[i] \in Postings
            /\ \A i, j \in 1 .. Len(b) : b[i] = b[j] => i = j
            /\ gest[k].choice \in Choices
            /\ \A i \in 1 .. Len(b) : gest[k].expect[i] \in Nat \cup {Nil}
<1>1. gest[k].batch \in Batches /\ gest[k].choice \in Choices
      /\ gest[k].expect \in [1 .. Len(gest[k].batch) -> Nat \cup {Nil}]
  BY DEF Shapes
<1> QED BY <1>1, BatchesAssumption

LEMMA RetiredKept ==
  ASSUME Shapes, NEW p \in Postings, NEW v \in Nat, Retired(p, v),
         clock' \in Nat, clock' >= clock,
         up'[p].ver # v,
         \A u \in Txns : pc'[u] = "loop" =>
           (pc[u] = "loop" /\ now'[u] = now[u]) \/ now'[u] > clock
  PROVE  Retired(p, v)'
<1>1. clock \in Nat /\ v <= clock
  BY DEF Shapes, Retired
<1>2. v <= clock'
  BY <1>1
<1>3. \A u \in Txns : pc'[u] = "loop" => now'[u] # v
  BY <1>1 DEF Retired
<1> QED BY <1>2, <1>3 DEF Retired

LEMMA RecordKept ==
  ASSUME Shapes, NEW e \in AuditRows, Recorded(e),
         \A k \in Keys : gest[k] # Nil => gest'[k] = gest[k],
         \A p \in Postings, v \in Nat : Retired(p, v) => Retired(p, v)'
  PROVE  Recorded(e)'
<1> DEFINE k == e.key
<1>1. k \in Keys /\ e.posting \in Postings /\ gest[k] # Nil /\ gest'[k] = gest[k]
  BY DEF Recorded, AuditRows
<1>2. PICK n \in 1 .. Len(gest[k].batch) :
        /\ gest[k].batch[n] = e.posting
        /\ gest[k].expect[n] # Nil => Retired(e.posting, gest[k].expect[n])
  BY DEF Recorded
<1>3. gest[k].expect[n] # Nil => gest[k].expect[n] \in Nat
  BY <1>1, <1>2, Meant
<1>4. gest'[k].expect[n] # Nil => Retired(e.posting, gest[k].expect[n])'
  BY <1>1, <1>2, <1>3
<1> QED BY <1>1, <1>2, <1>4 DEF Recorded, Retired

(* Steps that write no table leave the trail as it was.                    *)
LEMMA TrailKept ==
  ASSUME BulkInv, up' = up, events' = events, clock' \in Nat, clock' >= clock,
         \A k \in Keys : gest[k] # Nil => gest'[k] = gest[k],
         \A u \in Txns : pc'[u] = "loop" =>
           (pc[u] = "loop" /\ now'[u] = now[u]) \/ now'[u] > clock
  PROVE  /\ \A i \in 1 .. Len(events') :
              /\ Recorded(events[i])'
              /\ (LastWord(i) => up[events[i].posting].choice = events[i].to)'
         /\ VersionedBatchOnce'
<1>1. Shapes /\ events \in Seq(AuditRows)
  BY DEF BulkInv, Shapes
<1>2. \A p \in Postings, v \in Nat : Retired(p, v) => Retired(p, v)'
  <2> SUFFICES ASSUME NEW p \in Postings, NEW v \in Nat, Retired(p, v)
               PROVE  Retired(p, v)'
    OBVIOUS
  <2>1. up'[p].ver # v
    BY DEF Retired
  <2> QED BY <1>1, <2>1, RetiredKept
<1>3. ASSUME NEW i \in 1 .. Len(events)
      PROVE  Recorded(events[i])' /\ events[i].key \in Keys /\ gest'[events[i].key] = gest[events[i].key]
  <2>1. PICK e \in AuditRows : e = events[i]
    BY <1>1
  <2>2. Recorded(e) /\ e.key \in Keys
    BY <2>1 DEF BulkInv, AuditRows
  <2>3. gest[e.key] # Nil
    BY <2>2 DEF Recorded
  <2>4. Recorded(e)'
    BY <1>1, <1>2, <2>2, RecordKept
  <2>5. Recorded(events[i])'
    BY <2>1, <2>4 DEF Recorded, Retired
  <2> QED BY <2>1, <2>2, <2>3, <2>5
<1>4. ASSUME NEW i \in 1 .. Len(events)
      PROVE  (LastWord(i) => up[events[i].posting].choice = events[i].to)'
  BY DEF BulkInv, LastWord
<1>5. VersionedBatchOnce'
  BY <1>3 DEF BulkInv, VersionedBatchOnce, Twice
<1> QED BY <1>3, <1>4, <1>5

(* A transaction that does not move keeps what it knows, as long as the    *)
(* rows it holds stay and nobody else uses its stamp.                      *)
LEMMA BystanderKept ==
  ASSUME Shapes, NEW u \in Txns, Running(u), Resting(u),
         pc'[u] = pc[u], key'[u] = key[u], now'[u] = now[u], at'[u] = at[u],
         wUp'[u] = wUp[u], wApp'[u] = wApp[u], wEv'[u] = wEv[u],
         clock' \in Nat, clock' >= clock,
         \A k \in Keys : gest[k] # Nil => gest'[k] = gest[k],
         \A p \in Postings : upLock[p] = u => upLock'[p] = u /\ up'[p] = up[p],
         pc[u] = "loop" => \A p \in Postings : up'[p].ver # now[u]
  PROVE  Running(u)' /\ Resting(u)'
<1>1. Resting(u)'
  BY DEF Resting, Nothing
<1>2. ASSUME pc[u] = "loop"
      PROVE  Running(u)'
  <2>1. /\ key[u] \in Keys /\ gest[key[u]] # Nil
        /\ at[u] \in 1 .. Len(G(u).batch) + 1
        /\ \A j \in Visited(u) : Ready(u, j)
        /\ Buffered(u) /\ Stamped(u)
    BY <1>2 DEF Running
  <2>2. G(u)' = G(u)
    BY <2>1 DEF G
  <2>3. Len(G(u).batch) \in Nat /\ \A i \in 1 .. Len(G(u).batch) : G(u).batch[i] \in Postings
    BY <2>1, Meant DEF G
  <2>4. ASSUME NEW j \in Visited(u)
        PROVE  Ready(u, j)'
    <3>1. Ready(u, j) /\ G(u).batch[j] \in Postings
      BY <2>1, <2>3 DEF Visited
    <3>2. upLock'[G(u).batch[j]] = u /\ up'[G(u).batch[j]] = up[G(u).batch[j]]
      BY <3>1 DEF Ready
    <3> QED BY <2>2, <3>1, <3>2 DEF Ready, Chosen
  <2>5. Visited(u)' = Visited(u)
    BY DEF Visited
  <2>6. Buffered(u)'
    BY <2>1, <2>2, <2>5 DEF Buffered, Spoken
  <2>7. Stamped(u)'
    <3>1. now[u] \in Nat /\ clock \in Nat /\ now[u] <= clock
      BY <2>1 DEF Stamped, Shapes, TypeOK
    <3>2. now[u] <= clock'
      BY <3>1
    <3> QED BY <1>2, <2>1, <2>2, <3>2 DEF Stamped
  <2> QED BY <2>1, <2>2, <2>4, <2>5, <2>6, <2>7 DEF Running
<1> QED BY <1>1, <1>2 DEF Running

LEMMA InitBulkInv == Init => BulkInv
<1> SUFFICES ASSUME Init PROVE BulkInv
  OBVIOUS
<1>1. \A t \in Txns : pc[t] = "idle" /\ wUp[t] = Nothing /\ wApp[t] = Nothing /\ wEv[t] = <<>>
  BY DEF Init
<1>2. \A p \in Postings : up[p].ver = 0
  BY DEF Init
<1>3. \A k \in Keys : gest[k] = Nil
  BY DEF Init
<1>4. clock = 0 /\ DOMAIN gest = Keys /\ key \in [Txns -> Keys \cup {Nil}]
  BY DEF Init
<1>e. <<>> \in Seq(AuditRows) /\ Len(<<>>) = 0
  OBVIOUS
<1>5. events \in Seq(AuditRows) /\ Len(events) = 0 /\ wEv \in [Txns -> Seq(AuditRows)]
  BY <1>e DEF Init
<1>6. TypeOK
  BY DEF Init, TypeOK, UpRows
<1>7. wUp \in [Txns -> [Postings -> UpRows \cup {Nil}]]
      /\ wApp \in [Txns -> [Postings -> {"none", "Queued", Nil}]]
  BY DEF Init, Nothing
<1>8. Shapes
  BY <1>3, <1>4, <1>5, <1>6, <1>7 DEF Shapes
<1>9. Clocked
  BY <1>1, <1>2, <1>3, <1>4 DEF Clocked
<1>10. \A t \in Txns : Running(t) /\ Resting(t)
  BY <1>1 DEF Running, Resting
<1>11. 1 .. Len(events) = {}
  BY <1>5
<1>12. VersionedBatchOnce
  BY <1>11 DEF VersionedBatchOnce
<1> QED BY <1>8, <1>9, <1>10, <1>11, <1>12 DEF BulkInv

LEMMA MintKeeps ==
  ASSUME BulkInv, NEW k \in Keys, Mint(k)
  PROVE  BulkInv'
<1>1. PICK b \in Batches, c \in Choices, v \in Expecting :
        gest' = [gest EXCEPT ![k] =
          [batch |-> b, choice |-> c,
           expect |-> [i \in 1 .. Len(b) |-> IF v THEN up[b[i]].ver ELSE Nil]]]
  BY DEF Mint
<1>2. Shapes /\ Clocked /\ gest[k] = Nil
  BY DEF BulkInv, Mint
<1>3. UNCHANGED <<tables, clock, pc, key, now, at, buffers, reply, res, upLock>>
  BY DEF Mint
<1>4. /\ DOMAIN gest' = Keys
      /\ gest'[k].batch = b /\ gest'[k].choice = c
      /\ gest'[k].expect = [i \in 1 .. Len(b) |-> IF v THEN up[b[i]].ver ELSE Nil]
      /\ \A j \in Keys : gest[j] # Nil => gest'[j] = gest[j]
      /\ \A j \in Keys \ {k} : gest'[j] = gest[j]
  BY <1>1, <1>2 DEF Shapes
<1>5. \A p \in Postings : up[p].ver \in Nat /\ up[p].ver <= clock
  BY <1>2 DEF Shapes, TypeOK, UpRows, Clocked
<1>6. \A i \in 1 .. Len(b) : b[i] \in Postings
  BY BatchesAssumption
<1>7. gest'[k].expect \in [1 .. Len(b) -> Nat \cup {Nil}]
      /\ \A i \in 1 .. Len(b) : gest'[k].expect[i] # Nil => gest'[k].expect[i] <= clock
  BY <1>4, <1>5, <1>6
<1>8. Shapes'
  BY <1>2, <1>3, <1>4, <1>7 DEF Shapes, TypeOK, tables, buffers
<1>9. Clocked'
  BY <1>2, <1>3, <1>4, <1>7 DEF Clocked, tables
<1>10. \A u \in Txns : (Running(u) /\ Resting(u))'
  <2> SUFFICES ASSUME NEW u \in Txns PROVE (Running(u) /\ Resting(u))'
    OBVIOUS
  <2>1. Running(u) /\ Resting(u) /\ (pc[u] = "loop" => \A p \in Postings : up'[p].ver # now[u])
    BY <1>3 DEF BulkInv, Running, Stamped, tables
  <2>2. clock' \in Nat /\ clock' >= clock
    BY <1>2, <1>3 DEF Shapes
  <2> QED BY <1>2, <1>3, <1>4, <2>1, <2>2, BystanderKept DEF tables, buffers
<1>11. clock' \in Nat /\ clock' >= clock
  BY <1>2, <1>3 DEF Shapes
<1>12. /\ \A i \in 1 .. Len(events') :
            /\ Recorded(events[i])'
            /\ (LastWord(i) => up[events[i].posting].choice = events[i].to)'
       /\ VersionedBatchOnce'
  BY <1>3, <1>4, <1>11, TrailKept DEF tables
<1> QED BY <1>8, <1>9, <1>10, <1>12 DEF BulkInv

LEMMA DeliverKeeps ==
  ASSUME BulkInv, NEW t \in Txns, NEW k \in Keys, Deliver(t, k)
  PROVE  BulkInv'
<1>1. Shapes /\ Clocked /\ \A u \in Txns : Running(u) /\ Resting(u)
  BY DEF BulkInv
<1>2. /\ pc[t] = "idle" /\ gest[k] # Nil /\ clock' = clock + 1
      /\ now' = [now EXCEPT ![t] = clock + 1] /\ key' = [key EXCEPT ![t] = k]
      /\ UNCHANGED <<tables, gest, buffers, upLock>>
  BY DEF Deliver
<1>3. clock \in Nat /\ clock' \in Nat /\ clock' >= clock
  BY <1>1, <1>2 DEF Shapes
<1>4. /\ now'[t] = clock + 1 /\ key'[t] = k
      /\ \A u \in Txns \ {t} : now'[u] = now[u] /\ key'[u] = key[u]
                               /\ pc'[u] = pc[u] /\ at'[u] = at[u]
      /\ pc'[t] = "loop" => at'[t] = 1
      /\ pc' \in [Txns -> {"idle", "loop", "done"}] /\ at' \in [Txns -> Nat]
      /\ reply' \in [Txns -> {"none", "ok", "conflict", "deadlock", "lost"}]
      /\ pc'[t] \in {"loop", "done"}
  <2>1. TypeOK /\ key \in [Txns -> Keys \cup {Nil}]
    BY <1>1 DEF Shapes
  <2> QED BY <2>1, <1>2 DEF Deliver, TypeOK
<1>5. Shapes'
  BY <1>1, <1>2, <1>3, <1>4 DEF Shapes, TypeOK, tables, buffers
<1>6. \A u \in Txns : pc[u] = "loop" => now[u] \in Nat /\ now[u] <= clock
  BY <1>1 DEF Running, Stamped, Shapes, TypeOK
<1>7. \A p \in Postings : up[p].ver \in Nat /\ up[p].ver <= clock
  BY <1>1 DEF Shapes, TypeOK, UpRows, Clocked
<1>8. \A j \in Keys : gest[j] # Nil => \A i \in 1 .. Len(gest[j].batch) :
        gest[j].expect[i] # Nil => gest[j].expect[i] \in Nat /\ gest[j].expect[i] <= clock
  BY <1>1, Meant DEF Clocked
<1>9. Clocked'
  <2>1. \A u, w \in Txns : pc'[u] = "loop" /\ pc'[w] = "loop" /\ now'[u] = now'[w] => u = w
    BY <1>1, <1>3, <1>4, <1>6 DEF Clocked
  <2>2. \A p \in Postings : up'[p].ver <= clock'
    BY <1>2, <1>3, <1>7 DEF tables
  <2>3. \A j \in Keys : gest'[j] # Nil => \A i \in 1 .. Len(gest'[j].batch) :
          gest'[j].expect[i] # Nil => gest'[j].expect[i] <= clock'
    BY <1>2, <1>3, <1>8
  <2> QED BY <2>1, <2>2, <2>3 DEF Clocked
<1>10. ASSUME NEW u \in Txns PROVE (Running(u) /\ Resting(u))'
  <2>1. CASE u = t
    <3>1. wUp'[t] = Nothing /\ wApp'[t] = Nothing /\ wEv'[t] = <<>> /\ Nothing' = Nothing
      BY <1>1, <1>2 DEF Resting, buffers, Nothing
    <3>2. Resting(t)'
      BY <3>1 DEF Resting
    <3>3. ASSUME pc'[t] = "loop" PROVE Running(t)'
      <4>1. G(t)' = gest[k] /\ at'[t] = 1 /\ Visited(t)' = {}
        BY <1>2, <1>4, <3>3 DEF G, Visited
      <4>2. Len(gest[k].batch) \in Nat /\ Len(gest[k].batch) >= 1
        BY <1>1, <1>2, Meant
      <4>3. at'[t] \in 1 .. Len(gest[k].batch) + 1
        BY <4>1, <4>2
      <4>4. \A p \in Postings : wUp'[t][p] = Nil
        BY <3>1 DEF Nothing
      <4>5. 1 .. Len(wEv'[t]) = {}
        <5>1. Len(wEv'[t]) = 0
          BY <3>1
        <5> QED BY <5>1
      <4>6. Buffered(t)'
        BY <4>4, <4>5 DEF Buffered
      <4>7. Stamped(t)'
        <5>1. \A p \in Postings : up'[p].ver # now'[t]
          BY <1>2, <1>3, <1>4, <1>7 DEF tables
        <5>2. \A i \in 1 .. Len(gest[k].batch) : gest[k].expect[i] # Nil => gest[k].expect[i] < now'[t]
          BY <1>2, <1>3, <1>4, <1>8
        <5> QED BY <1>2, <1>3, <1>4, <4>1, <5>1, <5>2 DEF Stamped
      <4> QED BY <1>2, <1>4, <4>1, <4>3, <4>6, <4>7 DEF Running
    <3> QED BY <2>1, <3>2, <3>3 DEF Running
  <2>2. CASE u # t
    <3>1. Running(u) /\ Resting(u) /\ (pc[u] = "loop" => \A p \in Postings : up'[p].ver # now[u])
      BY <1>1, <1>2 DEF Running, Stamped, tables
    <3> QED BY <1>1, <1>2, <1>3, <1>4, <2>2, <3>1, BystanderKept DEF tables, buffers
  <2> QED BY <2>1, <2>2
<1>11. \A u \in Txns : pc'[u] = "loop" => (pc[u] = "loop" /\ now'[u] = now[u]) \/ now'[u] > clock
  BY <1>3, <1>4
<1>12. /\ \A i \in 1 .. Len(events') :
            /\ Recorded(events[i])'
            /\ (LastWord(i) => up[events[i].posting].choice = events[i].to)'
       /\ VersionedBatchOnce'
  BY <1>2, <1>3, <1>11, TrailKept DEF tables
<1> QED BY <1>5, <1>9, <1>10, <1>12 DEF BulkInv

LEMMA FailKeeps ==
  ASSUME BulkInv, NEW t \in Txns, NEW code \in {"conflict", "deadlock", "lost"}, Fail(t, code)
  PROVE  BulkInv'
<1>1. Shapes /\ Clocked /\ \A u \in Txns : Running(u) /\ Resting(u)
  BY DEF BulkInv
<1>2. /\ pc' = [pc EXCEPT ![t] = "done"] /\ reply' = [reply EXCEPT ![t] = code]
      /\ upLock' = [p \in Postings |-> IF upLock[p] = t THEN NoTx ELSE upLock[p]]
      /\ wUp' = [wUp EXCEPT ![t] = Nothing] /\ wApp' = [wApp EXCEPT ![t] = Nothing]
      /\ wEv' = [wEv EXCEPT ![t] = <<>>]
      /\ UNCHANGED <<tables, gest, clock, key, now, at, res>>
  BY DEF Fail
<1>3. clock \in Nat /\ clock' \in Nat /\ clock' >= clock
  BY <1>1, <1>2 DEF Shapes
<1>4. /\ pc'[t] = "done" /\ wUp'[t] = Nothing /\ wApp'[t] = Nothing /\ wEv'[t] = <<>>
      /\ \A u \in Txns \ {t} : pc'[u] = pc[u] /\ wUp'[u] = wUp[u] /\ wApp'[u] = wApp[u]
                               /\ wEv'[u] = wEv[u]
  BY <1>1, <1>2 DEF Shapes, TypeOK
<1>5. Shapes'
  <2>1. Nothing \in [Postings -> UpRows \cup {Nil}] /\ Nothing \in [Postings -> {"none", "Queued", Nil}]
        /\ <<>> \in Seq(AuditRows)
    BY DEF Nothing
  <2>2. /\ wUp' \in [Txns -> [Postings -> UpRows \cup {Nil}]]
        /\ wApp' \in [Txns -> [Postings -> {"none", "Queued", Nil}]]
        /\ wEv' \in [Txns -> Seq(AuditRows)]
    BY <1>1, <1>2, <2>1 DEF Shapes
  <2>3. TypeOK'
    BY <1>1, <1>2 DEF Shapes, TypeOK, tables
  <2> QED BY <1>1, <1>2, <2>2, <2>3 DEF Shapes, tables
<1>6. Clocked'
  BY <1>1, <1>2, <1>4 DEF Clocked, tables
<1>7. ASSUME NEW u \in Txns PROVE (Running(u) /\ Resting(u))'
  <2>1. CASE u = t
    <3>1. Nothing' = Nothing
      BY DEF Nothing
    <3> QED BY <1>4, <2>1, <3>1 DEF Running, Resting
  <2>2. CASE u # t
    <3>1. Running(u) /\ Resting(u) /\ (pc[u] = "loop" => \A p \in Postings : up'[p].ver # now[u])
      BY <1>1, <1>2 DEF Running, Stamped, tables
    <3>2. \A p \in Postings : upLock[p] = u => upLock'[p] = u /\ up'[p] = up[p]
      BY <1>2, <2>2 DEF tables
    <3> QED BY <1>1, <1>2, <1>3, <1>4, <2>2, <3>1, <3>2, BystanderKept
  <2> QED BY <2>1, <2>2
<1>8. /\ \A i \in 1 .. Len(events') :
           /\ Recorded(events[i])'
           /\ (LastWord(i) => up[events[i].posting].choice = events[i].to)'
      /\ VersionedBatchOnce'
  <2>1. \A u \in Txns : pc'[u] = "loop" => pc[u] = "loop" /\ now'[u] = now[u]
    BY <1>2, <1>4
  <2> QED BY <1>2, <1>3, <2>1, TrailKept DEF tables
<1> QED BY <1>5, <1>6, <1>7, <1>8 DEF BulkInv

(* Steps that write no table: all that is left to show is what they change *)
(* of their own transaction.                                               *)
LEMMA InsideKeeps ==
  ASSUME BulkInv, NEW t \in Txns, UNCHANGED <<up, events, gest, clock, pc, key, now>>,
         Shapes', (Running(t) /\ Resting(t))',
         \A u \in Txns \ {t} :
           /\ at'[u] = at[u] /\ wUp'[u] = wUp[u] /\ wApp'[u] = wApp[u] /\ wEv'[u] = wEv[u]
           /\ \A p \in Postings : upLock[p] = u => upLock'[p] = u
  PROVE  BulkInv'
<1>1. Shapes /\ Clocked /\ \A u \in Txns : Running(u) /\ Resting(u)
  BY DEF BulkInv
<1>2. clock' \in Nat /\ clock' >= clock
  BY <1>1 DEF Shapes
<1>3. Clocked'
  BY <1>1 DEF Clocked
<1>4. ASSUME NEW u \in Txns PROVE (Running(u) /\ Resting(u))'
  <2>1. CASE u = t
    BY <2>1
  <2>2. CASE u # t
    <3>1. Running(u) /\ Resting(u) /\ (pc[u] = "loop" => \A p \in Postings : up'[p].ver # now[u])
      BY <1>1 DEF Running, Stamped
    <3> QED BY <1>1, <1>2, <2>2, <3>1, BystanderKept
  <2> QED BY <2>1, <2>2
<1>5. /\ \A i \in 1 .. Len(events') :
           /\ Recorded(events[i])'
           /\ (LastWord(i) => up[events[i].posting].choice = events[i].to)'
      /\ VersionedBatchOnce'
  BY <1>2, TrailKept
<1> QED BY <1>3, <1>4, <1>5 DEF BulkInv

(* Where a looping transaction stands.                                     *)
LEMMA Standing ==
  ASSUME BulkInv, NEW t \in Txns, pc[t] = "loop", at[t] <= Len(G(t).batch)
  PROVE  /\ key[t] \in Keys /\ gest[key[t]] # Nil
         /\ at[t] \in 1 .. Len(G(t).batch) /\ Len(G(t).batch) \in Nat
         /\ Here(t) \in Postings
         /\ \A i \in 1 .. Len(G(t).batch) : G(t).batch[i] \in Postings
         /\ \A i, j \in 1 .. Len(G(t).batch) : G(t).batch[i] = G(t).batch[j] => i = j
         /\ G(t).choice \in Choices
         /\ \A j \in Visited(t) : Ready(t, j) /\ j \in 1 .. Len(G(t).batch) /\ G(t).batch[j] # Here(t)
         /\ Buffered(t) /\ Stamped(t)
         /\ wUp[t][Here(t)] = Nil
<1>1. /\ key[t] \in Keys /\ gest[key[t]] # Nil
      /\ at[t] \in 1 .. Len(G(t).batch) + 1
      /\ \A j \in Visited(t) : Ready(t, j)
      /\ Buffered(t) /\ Stamped(t)
  BY DEF BulkInv, Running
<1>2. /\ Len(G(t).batch) \in Nat
      /\ \A i \in 1 .. Len(G(t).batch) : G(t).batch[i] \in Postings
      /\ \A i, j \in 1 .. Len(G(t).batch) : G(t).batch[i] = G(t).batch[j] => i = j
      /\ G(t).choice \in Choices
  BY <1>1, Meant DEF G, BulkInv
<1>3. at[t] \in 1 .. Len(G(t).batch)
  BY <1>1, <1>2
<1>4. \A j \in Visited(t) : j \in 1 .. Len(G(t).batch) /\ G(t).batch[j] # Here(t)
  BY <1>2, <1>3 DEF Visited, Here
<1>5. Here(t) \in Postings
  BY <1>2, <1>3 DEF Here
<1>6. wUp[t][Here(t)] = Nil
  BY <1>1, <1>4, <1>5 DEF Buffered
<1> QED BY <1>1, <1>2, <1>3, <1>4, <1>5, <1>6

LEMMA TakeRowKeeps ==
  ASSUME BulkInv, NEW t \in Txns, TakeRow(t)
  PROVE  BulkInv'
<1>1. /\ pc[t] = "loop" /\ at[t] <= Len(G(t).batch) /\ upLock[Here(t)] = NoTx
      /\ upLock' = [upLock EXCEPT ![Here(t)] = t]
      /\ UNCHANGED <<tables, gest, clock, pc, key, now, at, buffers, reply, res>>
  BY DEF TakeRow
<1>2. Shapes /\ Here(t) \in Postings /\ Running(t) /\ Resting(t)
  BY <1>1, Standing DEF BulkInv
<1>3. \A u \in Txns : \A p \in Postings : upLock[p] = u => upLock'[p] = u /\ up'[p] = up[p]
  BY <1>1, <1>2, LocksAssumption DEF Shapes, TypeOK, tables
<1>4. Shapes'
  BY <1>1, <1>2 DEF Shapes, TypeOK, tables, buffers
<1>5. clock' \in Nat /\ clock' >= clock
  BY <1>1, <1>2 DEF Shapes
<1>6. (Running(t) /\ Resting(t))'
  <2>1. \A p \in Postings : up'[p].ver # now[t]
    BY <1>1, <1>2 DEF Running, Stamped, tables
  <2> QED BY <1>1, <1>2, <1>3, <1>5, <2>1, BystanderKept DEF buffers
<1> QED BY <1>1, <1>3, <1>4, <1>6, InsideKeeps DEF tables, buffers

LEMMA OtherLaneKeeps ==
  ASSUME BulkInv, NEW p \in Postings, OtherLane(p)
  PROVE  BulkInv'
<1>1. /\ app' = [app EXCEPT ![p] = "moved"]
      /\ UNCHANGED <<up, idem, events, gest, clock, pc, key, now, at, buffers, reply, res, upLock>>
  BY DEF OtherLane
<1>2. Shapes /\ Clocked /\ \A u \in Txns : Running(u) /\ Resting(u)
  BY DEF BulkInv
<1>3. Shapes'
  BY <1>1, <1>2 DEF Shapes, TypeOK, buffers
<1>4. clock' \in Nat /\ clock' >= clock
  BY <1>1, <1>2 DEF Shapes
<1>5. ASSUME NEW u \in Txns PROVE (Running(u) /\ Resting(u))'
  <2>1. Running(u) /\ Resting(u) /\ (pc[u] = "loop" => \A q \in Postings : up'[q].ver # now[u])
    BY <1>1, <1>2 DEF Running, Stamped
  <2> QED BY <1>1, <1>2, <1>4, <2>1, BystanderKept DEF buffers
<1>6. Clocked'
  BY <1>1, <1>2 DEF Clocked
<1>7. /\ \A i \in 1 .. Len(events') :
           /\ Recorded(events[i])'
           /\ (LastWord(i) => up[events[i].posting].choice = events[i].to)'
      /\ VersionedBatchOnce'
  BY <1>1, <1>4, TrailKept
<1> QED BY <1>3, <1>5, <1>6, <1>7 DEF BulkInv

LEMMA KeepRowKeeps ==
  ASSUME BulkInv, NEW t \in Txns, Holds(t), ~Stale(t), Same(t), KeepRow(t)
  PROVE  BulkInv'
<1>1. /\ pc[t] = "loop" /\ at[t] <= Len(G(t).batch) /\ upLock[Here(t)] = t
      /\ at' = [at EXCEPT ![t] = @ + 1]
      /\ UNCHANGED <<tables, gest, clock, pc, key, now, wUp, wApp, wEv, reply, res, upLock>>
  BY DEF Holds, KeepRow
<1>2. /\ key[t] \in Keys /\ gest[key[t]] # Nil
      /\ at[t] \in 1 .. Len(G(t).batch) /\ Len(G(t).batch) \in Nat
      /\ \A j \in Visited(t) : Ready(t, j)
      /\ Buffered(t) /\ Stamped(t) /\ wUp[t][Here(t)] = Nil
  BY <1>1, Standing
<1>3. Shapes /\ Resting(t)
  BY DEF BulkInv
<1>4. at'[t] = at[t] + 1 /\ \A u \in Txns \ {t} : at'[u] = at[u]
  BY <1>1, <1>3 DEF Shapes, TypeOK
<1>5. G(t)' = G(t) /\ Visited(t)' = Visited(t) \cup {at[t]}
  BY <1>1, <1>2, <1>4 DEF G, Visited
<1>6. ASSUME NEW j \in Visited(t) \cup {at[t]} PROVE Ready(t, j)'
  <2>1. Ready(t, j)
    <3>1. CASE j \in Visited(t)
      BY <1>2, <3>1
    <3>2. CASE j = at[t]
      BY <1>1, <1>2, <3>2 DEF Ready, Stale, Same, Here
    <3> QED BY <3>1, <3>2
  <2> QED BY <1>1, <1>5, <2>1 DEF Ready, Chosen, tables
<1>7. Buffered(t)'
  BY <1>1, <1>2, <1>5 DEF Buffered, Spoken
<1>8. Stamped(t)'
  BY <1>1, <1>2, <1>5 DEF Stamped, tables
<1>9. Running(t)'
  <2>1. at'[t] \in 1 .. Len(G(t).batch) + 1
    BY <1>2, <1>4
  <2> QED BY <1>1, <1>2, <1>5, <1>6, <1>7, <1>8, <2>1 DEF Running
<1>10. Resting(t)'
  BY <1>1 DEF Resting
<1>11. Shapes'
  BY <1>1, <1>2, <1>3, <1>4 DEF Shapes, TypeOK, tables
<1> QED BY <1>1, <1>4, <1>9, <1>10, <1>11, InsideKeeps DEF tables

LEMMA WriteRowKeeps ==
  ASSUME BulkInv, NEW t \in Txns, Holds(t), ~Stale(t), WriteRow(t, Chosen(t), Told(t))
  PROVE  BulkInv'
<1> DEFINE p == Here(t)
           c == G(t).choice
           e == [key |-> key[t], posting |-> p, to |-> c]
<1>1. /\ pc[t] = "loop" /\ at[t] <= Len(G(t).batch) /\ upLock[p] = t
      /\ wUp' = [wUp EXCEPT ![t][p] = Chosen(t)]
      /\ wEv' = [wEv EXCEPT ![t] = @ \o <<e>>]
      /\ at' = [at EXCEPT ![t] = @ + 1]
      /\ UNCHANGED <<tables, gest, clock, pc, key, now, reply, res, upLock>>
  BY DEF Holds, WriteRow, Told
<1>2. /\ key[t] \in Keys /\ gest[key[t]] # Nil
      /\ at[t] \in 1 .. Len(G(t).batch) /\ Len(G(t).batch) \in Nat
      /\ p \in Postings /\ c \in Choices
      /\ \A j \in Visited(t) : Ready(t, j) /\ j \in 1 .. Len(G(t).batch) /\ G(t).batch[j] # p
      /\ \A i \in 1 .. Len(G(t).batch) : G(t).batch[i] \in Postings
      /\ Buffered(t) /\ Stamped(t) /\ wUp[t][p] = Nil
  BY <1>1, Standing
<1>3. Shapes /\ Resting(t)
  BY DEF BulkInv
<1>4. \E a \in {"none", "Queued", Nil} : wApp' = [wApp EXCEPT ![t][p] = a]
  BY DEF WriteRow
<1>5. Chosen(t) \in UpRows /\ Chosen(t) # Nil
  <2>1. G(t).choice \in Choices /\ now[t] \in Nat
    BY <1>2, <1>3 DEF Shapes, TypeOK
  <2>2. Chosen(t) \in UpRows
    BY <2>1 DEF Chosen, UpRows
  <2> QED BY <2>2, RowsAssumption
<1>6. e \in AuditRows /\ e.key = key[t] /\ e.posting = p /\ e.to = c
  BY <1>2 DEF AuditRows
<1> HIDE DEF e, c, p
<1>7. /\ at'[t] = at[t] + 1 /\ wEv'[t] = wEv[t] \o <<e>>
      /\ wUp'[t][p] = Chosen(t) /\ \A q \in Postings \ {p} : wUp'[t][q] = wUp[t][q]
      /\ \A u \in Txns \ {t} : at'[u] = at[u] /\ wUp'[u] = wUp[u] /\ wApp'[u] = wApp[u]
                               /\ wEv'[u] = wEv[u]
  BY <1>1, <1>2, <1>3, <1>4 DEF Shapes, TypeOK
<1>8. G(t)' = G(t) /\ Visited(t)' = Visited(t) \cup {at[t]} /\ Chosen(t)' = Chosen(t)
  BY <1>1, <1>2, <1>7 DEF G, Visited, Chosen
<1>9. G(t).batch[at[t]] = p
  BY DEF Here, p
<1>10. ASSUME NEW j \in Visited(t) \cup {at[t]} PROVE Ready(t, j)'
  <2>1. CASE j \in Visited(t)
    <3>1. wUp'[t][G(t).batch[j]] = wUp[t][G(t).batch[j]]
      BY <1>2, <1>7, <2>1
    <3> QED BY <1>1, <1>2, <1>8, <2>1, <3>1 DEF Ready, tables
  <2>2. CASE j = at[t]
    BY <1>1, <1>7, <1>8, <1>9, <2>2 DEF Ready, Stale, Here, tables
  <2> QED BY <2>1, <2>2
<1>11. /\ wEv[t] \in Seq(AuditRows) /\ Len(wEv[t]) \in Nat /\ Len(wEv'[t]) = Len(wEv[t]) + 1
       /\ wEv'[t][Len(wEv[t]) + 1] = e
       /\ \A i \in 1 .. Len(wEv[t]) : wEv'[t][i] = wEv[t][i] /\ wEv[t][i] \in AuditRows
  BY <1>3, <1>6, <1>7 DEF Shapes
<1>12. \A i \in 1 .. Len(wEv[t]) : wEv[t][i].posting \in Postings /\ wEv[t][i].posting # p
  BY <1>2, <1>11 DEF Buffered, AuditRows
<1>13. Buffered(t)'
  <2>1. ASSUME NEW q \in Postings, wUp'[t][q] # Nil
        PROVE  Spoken(t, q)' /\ \E j \in Visited(t)' : G(t)'.batch[j] = q
    <3>1. CASE q = p
      BY <1>6, <1>8, <1>9, <1>11, <3>1 DEF Spoken
    <3>2. CASE q # p
      <4>1. Spoken(t, q) /\ \E j \in Visited(t) : G(t).batch[j] = q
        BY <1>2, <1>7, <2>1, <3>2 DEF Buffered
      <4> QED BY <1>8, <1>11, <4>1 DEF Spoken
    <3> QED BY <3>1, <3>2
  <2>2. ASSUME NEW i \in 1 .. Len(wEv'[t])
        PROVE  /\ wEv'[t][i].key = key'[t] /\ wEv'[t][i].to = G(t)'.choice
               /\ wUp'[t][wEv'[t][i].posting] # Nil
    <3>1. CASE i = Len(wEv[t]) + 1
      BY <1>1, <1>5, <1>6, <1>7, <1>8, <1>11, <3>1 DEF c
    <3>2. CASE i \in 1 .. Len(wEv[t])
      BY <1>1, <1>2, <1>7, <1>8, <1>11, <1>12, <3>2 DEF Buffered
    <3> QED BY <1>11, <3>1, <3>2
  <2>3. ASSUME NEW i \in 1 .. Len(wEv'[t]), NEW j \in 1 .. Len(wEv'[t]),
               wEv'[t][i].posting = wEv'[t][j].posting
        PROVE  i = j
    <3>1. CASE i \in 1 .. Len(wEv[t]) /\ j \in 1 .. Len(wEv[t])
      BY <1>2, <1>11, <2>3, <3>1 DEF Buffered
    <3>2. CASE i = Len(wEv[t]) + 1 /\ j \in 1 .. Len(wEv[t])
      BY <1>6, <1>11, <1>12, <2>3, <3>2
    <3>3. CASE j = Len(wEv[t]) + 1 /\ i \in 1 .. Len(wEv[t])
      BY <1>6, <1>11, <1>12, <2>3, <3>3
    <3>4. CASE j = Len(wEv[t]) + 1 /\ i = Len(wEv[t]) + 1
      BY <3>4
    <3> QED BY <1>11, <3>1, <3>2, <3>3, <3>4
  <2> QED BY <2>1, <2>2, <2>3 DEF Buffered
<1>14. Stamped(t)'
  BY <1>1, <1>2, <1>8 DEF Stamped, tables
<1>15. Running(t)'
  <2>1. at'[t] \in 1 .. Len(G(t).batch) + 1
    BY <1>2, <1>7
  <2> QED BY <1>1, <1>2, <1>8, <1>10, <1>13, <1>14, <2>1 DEF Running
<1>16. Resting(t)'
  BY <1>1 DEF Resting
<1>17. Shapes'
  <2>1. /\ wUp' \in [Txns -> [Postings -> UpRows \cup {Nil}]]
        /\ wApp' \in [Txns -> [Postings -> {"none", "Queued", Nil}]]
        /\ wEv' \in [Txns -> Seq(AuditRows)]
    BY <1>1, <1>2, <1>3, <1>4, <1>5, <1>6 DEF Shapes
  <2>2. TypeOK'
    BY <1>1, <1>2, <1>3 DEF Shapes, TypeOK, tables
  <2> QED BY <1>1, <1>3, <2>1, <2>2 DEF Shapes, tables
<1> QED BY <1>1, <1>7, <1>15, <1>16, <1>17, InsideKeeps DEF tables

(* What a batch that commits finds and leaves on the rows.                 *)
LEMMA CommitWrites ==
  ASSUME BulkInv, NEW t \in Txns, Commit(t)
  PROVE  /\ key[t] \in Keys /\ gest[key[t]] # Nil /\ pc[t] = "loop"
         /\ Buffered(t) /\ Stamped(t) /\ now[t] \in Nat /\ Chosen(t) \in UpRows
         /\ Len(G(t).batch) \in Nat
         /\ \A j \in 1 .. Len(G(t).batch) :
              /\ G(t).batch[j] \in Postings
              /\ up'[G(t).batch[j]].choice = G(t).choice
              /\ G(t).expect[j] # Nil => up[G(t).batch[j]].ver = G(t).expect[j]
         /\ \A p \in Postings : wUp[t][p] = Nil => up'[p] = up[p]
         /\ \A p \in Postings : wUp[t][p] # Nil =>
              /\ up'[p] = Chosen(t) /\ upLock[p] = t /\ Spoken(t, p)
              /\ \E j \in 1 .. Len(G(t).batch) : G(t).batch[j] = p
<1>1. /\ key[t] \in Keys /\ gest[key[t]] # Nil /\ pc[t] = "loop"
      /\ at[t] \in 1 .. Len(G(t).batch) + 1 /\ at[t] > Len(G(t).batch)
      /\ \A j \in Visited(t) : Ready(t, j)
      /\ Buffered(t) /\ Stamped(t)
  BY DEF BulkInv, Running, Commit
<1>2. /\ Len(G(t).batch) \in Nat /\ G(t).choice \in Choices
      /\ \A j \in 1 .. Len(G(t).batch) : G(t).batch[j] \in Postings
  BY <1>1, Meant DEF BulkInv, G
<1>3. Visited(t) = 1 .. Len(G(t).batch)
  BY <1>1, <1>2 DEF Visited
<1>4. now[t] \in Nat /\ Chosen(t) \in UpRows
  <2>1. now[t] \in Nat
    BY DEF BulkInv, Shapes, TypeOK
  <2> QED BY <1>2, <2>1 DEF Chosen, UpRows
<1>5. \A p \in Postings : up'[p] = IF wUp[t][p] = Nil THEN up[p] ELSE wUp[t][p]
  BY DEF Commit
<1>6. \A p \in Postings : wUp[t][p] = Nil => up'[p] = up[p]
  BY <1>5
<1>7. ASSUME NEW p \in Postings, wUp[t][p] # Nil
      PROVE  /\ up'[p] = Chosen(t) /\ upLock[p] = t /\ Spoken(t, p)
             /\ \E j \in 1 .. Len(G(t).batch) : G(t).batch[j] = p
  <2>1. PICK j \in Visited(t) : G(t).batch[j] = p
    BY <1>1, <1>7 DEF Buffered
  <2>2. wUp[t][p] = Chosen(t) /\ upLock[p] = t
    BY <1>1, <1>7, <2>1 DEF Ready
  <2>3. Spoken(t, p)
    BY <1>1, <1>7 DEF Buffered
  <2> QED BY <1>3, <1>5, <1>7, <2>1, <2>2, <2>3
<1>8. ASSUME NEW j \in 1 .. Len(G(t).batch)
      PROVE  /\ up'[G(t).batch[j]].choice = G(t).choice
             /\ G(t).expect[j] # Nil => up[G(t).batch[j]].ver = G(t).expect[j]
  <2>1. Ready(t, j) /\ G(t).batch[j] \in Postings
    BY <1>1, <1>2, <1>3
  <2>2. Chosen(t).choice = G(t).choice
    BY DEF Chosen
  <2>3. G(t).expect[j] # Nil => up[G(t).batch[j]].ver = G(t).expect[j]
    BY <2>1 DEF Ready
  <2>4. CASE wUp[t][G(t).batch[j]] = Nil
    BY <1>4, <1>6, <2>1, <2>3, <2>4, RowsAssumption DEF Ready
  <2>5. CASE wUp[t][G(t).batch[j]] # Nil
    BY <1>7, <2>1, <2>2, <2>3, <2>5
  <2> QED BY <2>4, <2>5
<1> QED BY <1>1, <1>2, <1>4, <1>6, <1>7, <1>8

(* A commit brings no retired version back, and retires those it replaces. *)
LEMMA CommitRetires ==
  ASSUME BulkInv, NEW t \in Txns, Commit(t), NEW p \in Postings, NEW v \in Nat
  PROVE  /\ Retired(p, v) => Retired(p, v)'
         /\ wUp[t][p] # Nil /\ up[p].ver = v => Retired(p, v)'
<1>1. Shapes /\ Clocked /\ \A u \in Txns : Running(u)
  BY DEF BulkInv
<1>2. /\ pc[t] = "loop" /\ Stamped(t) /\ now[t] \in Nat
      /\ wUp[t][p] = Nil => up'[p] = up[p]
      /\ wUp[t][p] # Nil => up'[p] = Chosen(t)
  BY CommitWrites
<1>3. clock \in Nat /\ clock' = clock /\ now' = now /\ pc' = [pc EXCEPT ![t] = "done"]
  BY <1>1 DEF Commit, Shapes
<1>4. \A u \in Txns : pc'[u] = "loop" => pc[u] = "loop" /\ now'[u] = now[u]
  BY <1>1, <1>3 DEF Shapes, TypeOK
<1>5. up'[p].ver = up[p].ver \/ up'[p].ver = now[t]
  BY <1>2 DEF Chosen
<1>6. ASSUME Retired(p, v) PROVE Retired(p, v)'
  <2>1. up'[p].ver # v
    BY <1>2, <1>5, <1>6 DEF Retired
  <2>2. clock' \in Nat /\ clock' >= clock
    BY <1>3
  <2> QED BY <1>1, <1>4, <1>6, <2>1, <2>2, RetiredKept
<1>7. ASSUME wUp[t][p] # Nil, up[p].ver = v PROVE Retired(p, v)'
  <2>1. v <= clock'
    BY <1>1, <1>3, <1>7 DEF Clocked
  <2>2. up'[p].ver # v
    BY <1>2, <1>7 DEF Chosen, Stamped
  <2>3. \A u \in Txns : pc'[u] = "loop" => now'[u] # v
    BY <1>1, <1>4, <1>7 DEF Running, Stamped
  <2> QED BY <2>1, <2>2, <2>3 DEF Retired
<1> QED BY <1>6, <1>7

LEMMA CommitKeeps ==
  ASSUME BulkInv, NEW t \in Txns, Commit(t)
  PROVE  BulkInv'
<1>1. Shapes /\ Clocked /\ \A u \in Txns : Running(u) /\ Resting(u)
  BY DEF BulkInv
<1>2. /\ app' = [p \in Postings |-> IF wApp[t][p] = Nil THEN app[p] ELSE wApp[t][p]]
      /\ events' = events \o wEv[t]
      /\ pc' = [pc EXCEPT ![t] = "done"] /\ reply' = [reply EXCEPT ![t] = "ok"]
      /\ upLock' = [p \in Postings |-> IF upLock[p] = t THEN NoTx ELSE upLock[p]]
      /\ wUp' = [wUp EXCEPT ![t] = Nothing] /\ wApp' = [wApp EXCEPT ![t] = Nothing]
      /\ wEv' = [wEv EXCEPT ![t] = <<>>]
      /\ UNCHANGED <<gest, clock, key, now, at>>
  BY DEF Commit
<1>3. /\ key[t] \in Keys /\ gest[key[t]] # Nil /\ pc[t] = "loop"
      /\ Buffered(t) /\ Stamped(t) /\ now[t] \in Nat /\ Chosen(t) \in UpRows
      /\ Len(G(t).batch) \in Nat
      /\ \A j \in 1 .. Len(G(t).batch) :
           /\ G(t).batch[j] \in Postings
           /\ up'[G(t).batch[j]].choice = G(t).choice
           /\ G(t).expect[j] # Nil => up[G(t).batch[j]].ver = G(t).expect[j]
      /\ \A p \in Postings : wUp[t][p] = Nil => up'[p] = up[p]
      /\ \A p \in Postings : wUp[t][p] # Nil =>
           /\ up'[p] = Chosen(t) /\ upLock[p] = t /\ Spoken(t, p)
           /\ \E j \in 1 .. Len(G(t).batch) : G(t).batch[j] = p
  BY CommitWrites
<1>4. Chosen(t).choice = G(t).choice /\ Chosen(t).ver = now[t]
  BY DEF Chosen
<1>5. /\ pc'[t] = "done" /\ wUp'[t] = Nothing /\ wApp'[t] = Nothing /\ wEv'[t] = <<>>
      /\ \A u \in Txns \ {t} : pc'[u] = pc[u] /\ wUp'[u] = wUp[u] /\ wApp'[u] = wApp[u]
                               /\ wEv'[u] = wEv[u]
  BY <1>1, <1>2 DEF Shapes, TypeOK
<1>6. clock \in Nat /\ clock' = clock
  BY <1>1, <1>2 DEF Shapes
<1>7. \A p \in Postings : up[p].ver \in Nat /\ (up'[p].ver = up[p].ver \/ up'[p].ver = now[t])
  BY <1>1, <1>3, <1>4 DEF Shapes, TypeOK, UpRows
<1>8. \A u \in Txns \ {t} : pc[u] = "loop" => now[u] # now[t]
  BY <1>1, <1>3 DEF Clocked
<1>9. Shapes'
  <2>1. Nothing \in [Postings -> UpRows \cup {Nil}] /\ Nothing \in [Postings -> {"none", "Queued", Nil}]
        /\ <<>> \in Seq(AuditRows)
    BY DEF Nothing
  <2>2. /\ wUp' \in [Txns -> [Postings -> UpRows \cup {Nil}]]
        /\ wApp' \in [Txns -> [Postings -> {"none", "Queued", Nil}]]
        /\ wEv' \in [Txns -> Seq(AuditRows)]
    BY <1>1, <1>2, <2>1 DEF Shapes
  <2>3. events' \in Seq(AuditRows)
    BY <1>1, <1>2 DEF Shapes
  <2>4. up' \in [Postings -> UpRows]
    <3>1. up' = [p \in Postings |-> IF wUp[t][p] = Nil THEN up[p] ELSE wUp[t][p]]
      BY DEF Commit
    <3>2. up \in [Postings -> UpRows] /\ wUp[t] \in [Postings -> UpRows \cup {Nil}]
      BY <1>1 DEF Shapes, TypeOK
    <3> QED BY <3>1, <3>2
  <2>5. app' \in [Postings -> {"none", "Queued", "moved"}]
    <3>1. app \in [Postings -> {"none", "Queued", "moved"}] /\ wApp[t] \in [Postings -> {"none", "Queued", Nil}]
      BY <1>1 DEF Shapes, TypeOK
    <3> QED BY <1>2, <3>1
  <2>6. TypeOK'
    BY <1>1, <1>2, <2>4, <2>5 DEF Shapes, TypeOK
  <2> QED BY <1>1, <1>2, <2>2, <2>3, <2>6 DEF Shapes
<1>10. Clocked'
  <2>1. \A p \in Postings : up'[p].ver <= clock
    BY <1>1, <1>3, <1>7 DEF Clocked, Stamped
  <2> QED BY <1>1, <1>2, <1>5, <2>1 DEF Clocked
<1>11. ASSUME NEW u \in Txns PROVE (Running(u) /\ Resting(u))'
  <2>1. CASE u = t
    <3>1. Nothing' = Nothing
      BY DEF Nothing
    <3> QED BY <1>5, <2>1, <3>1 DEF Running, Resting
  <2>2. CASE u # t
    <3>1. Running(u) /\ Resting(u)
      BY <1>1
    <3>2. pc[u] = "loop" => \A p \in Postings : up'[p].ver # now[u]
      BY <1>7, <1>8, <2>2, <3>1 DEF Running, Stamped
    <3>3. \A p \in Postings : upLock[p] = u => upLock'[p] = u /\ up'[p] = up[p]
      BY <1>2, <1>3, <2>2
    <3>4. clock' \in Nat /\ clock' >= clock
      BY <1>6
    <3> QED BY <1>1, <1>2, <1>5, <2>2, <3>1, <3>2, <3>3, <3>4, BystanderKept
  <2> QED BY <2>1, <2>2
<1>12. \A p \in Postings, v \in Nat : Retired(p, v) => Retired(p, v)'
  BY CommitRetires
<1>13. /\ Len(events) \in Nat /\ Len(wEv[t]) \in Nat /\ Len(events') = Len(events) + Len(wEv[t])
       /\ \A i \in 1 .. Len(events) : events'[i] = events[i] /\ events[i] \in AuditRows
       /\ \A i \in 1 .. Len(wEv[t]) : events'[Len(events) + i] = wEv[t][i] /\ wEv[t][i] \in AuditRows
  <2>1. events \in Seq(AuditRows) /\ wEv[t] \in Seq(AuditRows)
    BY <1>1 DEF Shapes
  <2> QED BY <1>2, <2>1
<1>14. \A i \in 1 .. Len(events') : i \in 1 .. Len(events) \/ \E j \in 1 .. Len(wEv[t]) : i = Len(events) + j
  <2> SUFFICES ASSUME NEW i \in 1 .. Len(events'), i > Len(events)
               PROVE  \E j \in 1 .. Len(wEv[t]) : i = Len(events) + j
    BY <1>13
  <2>1. i - Len(events) \in 1 .. Len(wEv[t]) /\ i = Len(events) + (i - Len(events))
    BY <1>13
  <2> QED BY <2>1
<1>15. ASSUME NEW i \in 1 .. Len(wEv[t])
       PROVE  /\ wEv[t][i].key = key[t] /\ wEv[t][i].to = G(t).choice
              /\ wEv[t][i].posting \in Postings /\ wUp[t][wEv[t][i].posting] # Nil
  BY <1>3, <1>13 DEF Buffered, AuditRows
<1>16. ASSUME NEW i \in 1 .. Len(events')
       PROVE  Recorded(events[i])'
  <2>1. CASE i \in 1 .. Len(events)
    <3>1. PICK e \in AuditRows : e = events[i]
      BY <1>13, <2>1
    <3>2. Recorded(e)
      BY <2>1, <3>1 DEF BulkInv
    <3>3. Recorded(e)'
      BY <1>1, <1>2, <1>12, <3>2, RecordKept
    <3> QED BY <1>13, <2>1, <3>1, <3>3 DEF Recorded, Retired
  <2>2. ASSUME NEW j \in 1 .. Len(wEv[t]), i = Len(events) + j
        PROVE  Recorded(events[i])'
    <3>1. PICK e \in AuditRows : e = wEv[t][j]
      BY <1>13
    <3>2. e.key = key[t] /\ e.posting \in Postings /\ wUp[t][e.posting] # Nil
      BY <1>15, <3>1
    <3>3. PICK n \in 1 .. Len(G(t).batch) : G(t).batch[n] = e.posting
      BY <1>3, <3>2
    <3>4. ASSUME G(t).expect[n] # Nil
          PROVE  /\ G(t).expect[n] <= clock' /\ up'[e.posting].ver # G(t).expect[n]
                 /\ \A u \in Txns : pc'[u] = "loop" => now'[u] # G(t).expect[n]
      <4>1. up[e.posting].ver = G(t).expect[n] /\ G(t).expect[n] < now[t]
        BY <1>3, <3>3, <3>4 DEF Stamped
      <4>2. up'[e.posting].ver = now[t]
        BY <1>3, <1>4, <3>2
      <4>3. G(t).expect[n] \in Nat /\ G(t).expect[n] <= clock
        BY <1>1, <1>7, <3>2, <4>1 DEF Clocked
      <4>4. \A u \in Txns : pc'[u] = "loop" => pc[u] = "loop" /\ now'[u] = now[u]
        BY <1>2, <1>5
      <4>5. \A u \in Txns : pc'[u] = "loop" => now'[u] # G(t).expect[n]
        BY <1>1, <3>2, <4>1, <4>4 DEF Running, Stamped
      <4>6. up'[e.posting].ver # G(t).expect[n]
        BY <1>3, <4>1, <4>2, <4>3
      <4> QED BY <1>6, <4>3, <4>5, <4>6
    <3>5. Recorded(e)'
      <4>1. gest'[e.key] = G(t) /\ gest'[e.key] # Nil
        BY <1>2, <1>3, <3>2 DEF G
      <4> QED BY <3>3, <3>4, <4>1 DEF Recorded, Retired
    <3>6. events'[i] = e
      BY <1>13, <2>2, <3>1
    <3> QED BY <3>5, <3>6 DEF Recorded, Retired
  <2> QED BY <1>14, <2>1, <2>2
<1>17. ASSUME NEW i \in 1 .. Len(events'), LastWord(i)'
       PROVE  up'[events'[i].posting].choice = events'[i].to
  <2>1. CASE i \in 1 .. Len(events)
    <3> DEFINE p == events[i].posting
    <3>1. p \in Postings /\ events'[i] = events[i]
      BY <1>13, <2>1 DEF AuditRows
    <3>2. ASSUME NEW j \in 1 .. Len(wEv[t]) PROVE wEv[t][j].posting # p
      <4>1. Len(events) + j \in i + 1 .. Len(events')
        BY <1>13, <2>1
      <4> QED BY <1>13, <1>17, <3>1, <4>1 DEF LastWord
    <3>3. wUp[t][p] = Nil
      BY <1>3, <3>1, <3>2 DEF Spoken
    <3>4. LastWord(i)
      <4> SUFFICES ASSUME NEW j \in i + 1 .. Len(events)
                   PROVE  events[j].posting # p
        BY DEF LastWord
      <4>1. j \in 1 .. Len(events) /\ j \in i + 1 .. Len(events')
        BY <1>13, <2>1
      <4>2. events'[j].posting # events'[i].posting
        BY <1>17, <4>1 DEF LastWord
      <4> QED BY <1>13, <3>1, <4>1, <4>2
    <3>5. up[p].choice = events[i].to
      BY <2>1, <3>4 DEF BulkInv
    <3> QED BY <1>3, <3>1, <3>3, <3>5
  <2>2. ASSUME NEW j \in 1 .. Len(wEv[t]), i = Len(events) + j
        PROVE  up'[events'[i].posting].choice = events'[i].to
    BY <1>3, <1>4, <1>13, <1>15, <2>2
  <2> QED BY <1>14, <2>1, <2>2
<1>18. VersionedBatchOnce'
  <2> DEFINE Unguarded(k) == \E n \in 1 .. Len(gest[k].batch) : gest[k].expect[n] = Nil
  <2>1. ASSUME NEW i \in 1 .. Len(events), NEW j \in 1 .. Len(wEv[t]),
               events[i].key = key[t], events[i].posting = wEv[t][j].posting
        PROVE  Unguarded(key[t])
    <3>1. PICK n \in 1 .. Len(G(t).batch) :
            /\ G(t).batch[n] = events[i].posting
            /\ G(t).expect[n] # Nil => Retired(events[i].posting, G(t).expect[n])
      BY <2>1 DEF BulkInv, Recorded, G
    <3>2. G(t).expect[n] # Nil => up[events[i].posting].ver = G(t).expect[n]
      BY <1>3, <3>1
    <3>3. G(t).expect[n] = Nil
      BY <3>1, <3>2 DEF Retired
    <3> QED BY <3>3 DEF G
  <2>2. ASSUME NEW i \in 1 .. Len(events'), NEW j \in 1 .. Len(events'), Twice(i, j)'
        PROVE  Unguarded(events'[i].key)
    <3>1. i # j /\ events'[i].key = events'[j].key /\ events'[i].posting = events'[j].posting
      BY <2>2 DEF Twice
    <3>2. CASE i \in 1 .. Len(events) /\ j \in 1 .. Len(events)
      <4>1. Twice(i, j)
        BY <1>13, <3>1, <3>2 DEF Twice
      <4> QED BY <1>13, <3>2, <4>1 DEF BulkInv, VersionedBatchOnce
    <3>3. ASSUME i \in 1 .. Len(events), NEW m \in 1 .. Len(wEv[t]), j = Len(events) + m
          PROVE  Unguarded(events'[i].key)
      <4>1. events[i].key = key[t] /\ events[i].posting = wEv[t][m].posting /\ events'[i] = events[i]
        BY <1>13, <1>15, <3>1, <3>3
      <4> QED BY <2>1, <3>3, <4>1
    <3>4. ASSUME j \in 1 .. Len(events), NEW m \in 1 .. Len(wEv[t]), i = Len(events) + m
          PROVE  Unguarded(events'[i].key)
      <4>1. events[j].key = key[t] /\ events[j].posting = wEv[t][m].posting /\ events'[i].key = key[t]
        BY <1>13, <1>15, <3>1, <3>4
      <4> QED BY <2>1, <3>4, <4>1
    <3>5. ASSUME NEW l \in 1 .. Len(wEv[t]), i = Len(events) + l,
                 NEW m \in 1 .. Len(wEv[t]), j = Len(events) + m
          PROVE  FALSE
      <4>1. wEv[t][l].posting = wEv[t][m].posting
        BY <1>13, <3>1, <3>5
      <4>2. l = m
        BY <1>3, <4>1 DEF Buffered
      <4> QED BY <3>1, <3>5, <4>2
    <3> QED BY <1>14, <3>2, <3>3, <3>4, <3>5
  <2> QED BY <1>2, <2>2 DEF VersionedBatchOnce
<1> QED BY <1>9, <1>10, <1>11, <1>16, <1>17, <1>18 DEF BulkInv, LastWord

LEMMA StillKeeps ==
  ASSUME BulkInv, UNCHANGED vars
  PROVE  BulkInv'
<1>1. UNCHANGED <<up, app, idem, events, gest, clock, pc, key, now, at, wUp, wApp, wEv, rows,
                  reply, res, upLock>>
  BY DEF vars, tables, buffers
<1>2. Shapes' /\ Clocked'
  BY <1>1 DEF BulkInv, Shapes, TypeOK, Clocked
<1>3. \A t \in Txns : (Running(t) /\ Resting(t))'
  <2> SUFFICES ASSUME NEW t \in Txns PROVE (Running(t) /\ Resting(t))'
    OBVIOUS
  <2>1. Running(t) /\ Resting(t) /\ Shapes /\ (pc[t] = "loop" => \A p \in Postings : up'[p].ver # now[t])
    BY <1>1 DEF BulkInv, Running, Stamped
  <2>2. clock' \in Nat /\ clock' >= clock
    BY <1>1, <2>1 DEF Shapes
  <2> QED BY <1>1, <2>1, <2>2, BystanderKept
<1>4. clock' \in Nat /\ clock' >= clock
  BY <1>1 DEF BulkInv, Shapes
<1>5. /\ \A i \in 1 .. Len(events') :
           /\ Recorded(events[i])'
           /\ (LastWord(i) => up[events[i].posting].choice = events[i].to)'
      /\ VersionedBatchOnce'
  BY <1>1, <1>4, TrailKept
<1> QED BY <1>2, <1>3, <1>5 DEF BulkInv

LEMMA NextBulkInv ==
  ASSUME BulkInv, [Next]_vars
  PROVE  BulkInv'
<1>1. ASSUME NEW k \in Keys, Mint(k) PROVE BulkInv'
  BY <1>1, MintKeeps
<1>2. ASSUME NEW t \in Txns, NEW k \in Keys, Deliver(t, k) PROVE BulkInv'
  BY <1>2, DeliverKeeps
<1>3. ASSUME NEW t \in Txns, TakeRow(t) PROVE BulkInv'
  BY <1>3, TakeRowKeeps
<1>4. ASSUME NEW t \in Txns, DecideRow(t) PROVE BulkInv'
  <2>1. CASE Stale(t) /\ Fail(t, "conflict")
    BY <2>1, FailKeeps
  <2>2. CASE ~Stale(t) /\ Same(t) /\ KeepRow(t)
    BY <1>4, <2>2, KeepRowKeeps DEF DecideRow
  <2>3. CASE ~Stale(t) /\ WriteRow(t, Chosen(t), Told(t))
    BY <1>4, <2>3, WriteRowKeeps DEF DecideRow
  <2> QED BY <1>4, <2>1, <2>2, <2>3 DEF DecideRow
<1>5. ASSUME NEW t \in Txns, Commit(t) PROVE BulkInv'
  BY <1>5, CommitKeeps
<1>6. ASSUME NEW t \in Txns, DeadlockVictim(t) PROVE BulkInv'
  BY <1>6, FailKeeps DEF DeadlockVictim
<1>7. ASSUME NEW t \in Txns, Lose(t) PROVE BulkInv'
  BY <1>7, FailKeeps DEF Lose
<1>8. ASSUME NEW p \in Postings, OtherLane(p) PROVE BulkInv'
  BY <1>8, OtherLaneKeeps
<1>9. CASE UNCHANGED vars
  BY <1>9, StillKeeps
<1> QED BY <1>1, <1>2, <1>3, <1>4, <1>5, <1>6, <1>7, <1>8, <1>9 DEF Next, Serve, AllServed

LEMMA BulkHeld == Spec => []BulkInv
<1>1. BulkInv /\ [Next]_vars => BulkInv'
  BY NextBulkInv
<1> QED BY InitBulkInv, <1>1, PTL DEF Spec

-----------------------------------------------------------------------------
(* The last event about a posting names the decision it has, however many  *)
(* batches, listing the same postings in whatever order, were locked,      *)
(* failed or aborted in between.                                           *)
THEOREM BulkTrailIsTheTruth == Spec => []Consistent
<1>1. BulkInv => Consistent
  <2> SUFFICES ASSUME BulkInv PROVE Consistent
    OBVIOUS
  <2>1. TypeOK
    BY DEF BulkInv, Shapes
  <2>2. ASSUME NEW p \in Postings, NEW i \in 1 .. Len(events), events[i].posting = p,
               \A j \in i + 1 .. Len(events) : events[j].posting # p
        PROVE  up[p].choice = events[i].to
    BY <2>2 DEF BulkInv, LastWord
  <2> QED BY <2>1, <2>2 DEF Consistent
<1> QED BY BulkHeld, <1>1, PTL

(* A batch that carries the versions it read takes effect once on each of  *)
(* its postings: whatever delivers it again finds a row whose version is   *)
(* retired, and no later stamp is that version again.                      *)
THEOREM VersionsStopTheSecond == Spec => []VersionedBatchOnce
<1>1. BulkInv => VersionedBatchOnce
  BY DEF BulkInv
<1> QED BY BulkHeld, <1>1, PTL

(* Only a commit answers ok, and only a commit moves a row.                *)
LEMMA OnlyCommitMoves ==
  ASSUME BulkInv, [Next]_vars
  PROVE  /\ up' # up => \E t \in Txns : Commit(t)
         /\ \A t \in Txns : Commits(t) => Commit(t)
<1>1. TypeOK
  BY DEF BulkInv, Shapes
<1>2. ASSUME NEW k \in Keys, Mint(k)
      PROVE  up' = up /\ pc' = pc
  BY <1>2 DEF Mint, tables
<1>3. ASSUME NEW u \in Txns, NEW k \in Keys, Deliver(u, k)
      PROVE  up' = up /\ \A t \in Txns : ~Commits(t)
  BY <1>1, <1>3 DEF Deliver, Commits, tables, TypeOK
<1>4. ASSUME NEW u \in Txns, TakeRow(u)
      PROVE  up' = up /\ pc' = pc
  BY <1>4 DEF TakeRow, tables
<1>5. ASSUME NEW u \in Txns, NEW code \in {"conflict", "deadlock", "lost"}, Fail(u, code)
      PROVE  up' = up /\ \A t \in Txns : ~Commits(t)
  BY <1>1, <1>5 DEF Fail, Commits, tables, TypeOK
<1>6. ASSUME NEW u \in Txns, KeepRow(u) \/ WriteRow(u, Chosen(u), Told(u))
      PROVE  up' = up /\ pc' = pc
  BY <1>6 DEF KeepRow, WriteRow, tables
<1>7. ASSUME NEW u \in Txns, DecideRow(u)
      PROVE  up' = up /\ \A t \in Txns : ~Commits(t)
  <2>1. CASE Fail(u, "conflict")
    BY <1>5, <2>1
  <2>2. CASE KeepRow(u) \/ WriteRow(u, Chosen(u), Told(u))
    BY <1>6, <2>2 DEF Commits
  <2> QED BY <1>7, <2>1, <2>2 DEF DecideRow
<1>8. ASSUME NEW u \in Txns, Commit(u)
      PROVE  \A t \in Txns : Commits(t) => t = u
  BY <1>1, <1>8 DEF Commit, Commits, TypeOK
<1>9. ASSUME NEW u \in Txns, DeadlockVictim(u) \/ Lose(u)
      PROVE  up' = up /\ \A t \in Txns : ~Commits(t)
  BY <1>5, <1>9 DEF DeadlockVictim, Lose
<1>10. ASSUME NEW p \in Postings, OtherLane(p)
       PROVE  up' = up /\ pc' = pc
  BY <1>10 DEF OtherLane
<1>11. CASE UNCHANGED vars
  BY <1>11 DEF vars, tables, Commits
<1>12. pc' = pc => \A t \in Txns : ~Commits(t)
  BY DEF Commits
<1> QED BY <1>2, <1>3, <1>4, <1>7, <1>8, <1>9, <1>10, <1>11, <1>12 DEF Next, Serve, AllServed

(* All or nothing: rows move only when one batch commits, which leaves     *)
(* every posting it lists with its decision and no other posting changed.  *)
THEOREM AllOrNothing == Spec => BatchWhole
<1>1. ASSUME BulkInv, [Next]_vars, up' # up
      PROVE  \E t \in Txns :
               /\ Commits(t)
               /\ \A i \in 1 .. Len(G(t).batch) : up'[G(t).batch[i]].choice = G(t).choice
               /\ \A p \in Postings : up'[p] # up[p] =>
                    \E i \in 1 .. Len(G(t).batch) : G(t).batch[i] = p
  <2>1. PICK t \in Txns : Commit(t)
    BY <1>1, OnlyCommitMoves
  <2>2. Commits(t)
    BY <1>1, <2>1 DEF Commit, Commits, BulkInv, Shapes, TypeOK
  <2> QED BY <1>1, <2>1, <2>2, CommitWrites
<1> QED BY BulkHeld, <1>1, PTL DEF Spec, BatchWhole

(* Compare and set over the whole batch: when it commits, every row it     *)
(* lists is still the version its client read, the rows it visited first   *)
(* and those it left as they were included.                                *)
THEOREM ComparesTheWholeBatch == Spec => BatchSeesItsVersions
<1>1. ASSUME BulkInv, [Next]_vars
      PROVE  \A t \in Txns : Commits(t) =>
               \A i \in 1 .. Len(G(t).batch) :
                 G(t).expect[i] # Nil => up[G(t).batch[i]].ver = G(t).expect[i]
  BY <1>1, OnlyCommitMoves, CommitWrites
<1> QED BY BulkHeld, <1>1, PTL DEF Spec, BatchSeesItsVersions

-----------------------------------------------------------------------------
(* The answer is built beside the writes, and an answered batch is settled *)
(* (AnswerInv): what the refinement needs besides BulkInv.                 *)

(* A row buffered for u is locked by u and on its batch, behind the        *)
(* counter.                                                                *)
LEMMA BufferedHeld ==
  ASSUME BulkInv, NEW u \in Txns, pc[u] = "loop", NEW p \in Postings, wUp[u][p] # Nil
  PROVE  upLock[p] = u
<1>1. PICK j \in Visited(u) : G(u).batch[j] = p
  BY DEF BulkInv, Running, Buffered
<1> QED BY <1>1 DEF BulkInv, Running, Ready

(* What u has built stands while u does not move, the rows it holds stay,  *)
(* and other lanes touch no application it has written.                    *)
LEMMA BuiltKept ==
  ASSUME BulkInv, NEW u \in Txns, Built(u),
         pc'[u] = pc[u], key'[u] = key[u], at'[u] = at[u],
         wUp'[u] = wUp[u], wApp'[u] = wApp[u], rows'[u] = rows[u],
         \A k \in Keys : gest[k] # Nil => gest'[k] = gest[k],
         \A p \in Postings : upLock[p] = u => up'[p] = up[p],
         \A p \in Postings : wUp[u][p] # Nil =>
           app'[p] = app[p] \/ (wApp[u][p] = Nil /\ app'[p] = "moved")
  PROVE  Built(u)'
<1>1. CASE pc[u] # "loop"
  BY <1>1 DEF Built
<1>2. CASE pc[u] = "loop"
  <2>1. /\ key[u] \in Keys /\ gest[key[u]] # Nil /\ at[u] \in 1 .. Len(G(u).batch) + 1
        /\ \A j \in Visited(u) : Ready(u, j)
    BY <1>2 DEF BulkInv, Running
  <2>2. Len(G(u).batch) \in Nat /\ \A i \in 1 .. Len(G(u).batch) : G(u).batch[i] \in Postings
    BY <2>1, Meant DEF G, BulkInv
  <2>3. G(u)' = G(u) /\ Visited(u)' = Visited(u)
    BY <2>1 DEF G, Visited
  <2>4. ASSUME NEW j \in Visited(u)
        PROVE  /\ up'[G(u).batch[j]] = up[G(u).batch[j]]
               /\ rows[u][j] = IF wUp[u][G(u).batch[j]] = Nil THEN up[G(u).batch[j]]
                               ELSE wUp[u][G(u).batch[j]]
    <3>1. G(u).batch[j] \in Postings /\ upLock[G(u).batch[j]] = u
      BY <2>1, <2>2 DEF Ready, Visited
    <3> QED BY <1>2, <3>1 DEF Built
  <2>5. ASSUME NEW p \in Postings
        PROVE  IF wUp[u][p] = Nil THEN wApp[u][p] = Nil
               ELSE up'[p].choice # G(u).choice /\ wApp[u][p] = Follow(u, p)'
    <3>1. CASE wUp[u][p] = Nil
      BY <1>2, <3>1 DEF Built
    <3>2. CASE wUp[u][p] # Nil
      <4>1. up[p].choice # G(u).choice /\ wApp[u][p] = Follow(u, p) /\ up'[p] = up[p]
        BY <1>2, <3>2, BufferedHeld DEF Built
      <4>2. CASE app'[p] = app[p]
        BY <2>3, <3>2, <4>1, <4>2 DEF Follow
      <4>3. CASE wApp[u][p] = Nil /\ app'[p] = "moved"
        BY <2>3, <3>2, <4>1, <4>3 DEF Follow
      <4> QED BY <3>2, <4>2, <4>3
    <3> QED BY <3>1, <3>2
  <2>6. Len(rows[u]) = at[u] - 1
    BY <1>2 DEF Built
  <2> QED BY <1>2, <2>3, <2>4, <2>5, <2>6 DEF Built
<1> QED BY <1>1, <1>2

(* Steps that write neither rows nor answers leave answered batches        *)
(* settled.                                                                *)
LEMMA SettledKept ==
  ASSUME BulkInv, AnswerInv, up' = up, idem' = idem, clock' \in Nat, clock' >= clock,
         \A k \in Keys : gest[k] # Nil => gest'[k] = gest[k],
         \A u \in Txns : pc'[u] = "loop" =>
           (pc[u] = "loop" /\ now'[u] = now[u]) \/ now'[u] > clock
  PROVE  DOMAIN idem' = Keys /\ \A k \in Keys : Settled(k)'
<1> SUFFICES ASSUME NEW k \in Keys, idem'[k] # Nil
             PROVE  gest'[k] # Nil /\ \A n \in 1 .. Len(gest'[k].batch) : SettledAt(k, n)'
  BY DEF AnswerInv, Settled
<1>1. /\ gest[k] # Nil /\ gest'[k] = gest[k]
      /\ \A n \in 1 .. Len(gest[k].batch) : SettledAt(k, n)
  BY DEF AnswerInv, Settled
<1>2. ASSUME NEW n \in 1 .. Len(gest[k].batch) PROVE SettledAt(k, n)'
  <2>1. PICK p \in Postings : p = gest[k].batch[n]
    BY <1>1, Meant DEF BulkInv
  <2>2. CASE gest[k].expect[n] = Nil
    BY <1>1, <2>2 DEF SettledAt
  <2>3. CASE gest[k].expect[n] # Nil
    <3>1. PICK v \in Nat : v = gest[k].expect[n]
      BY <1>1, <2>3, Meant DEF BulkInv
    <3>2. Retired(p, v) => Retired(p, v)'
      <4>1. Retired(p, v) => up'[p].ver # v
        BY DEF Retired
      <4> QED BY <4>1, RetiredKept DEF BulkInv
    <3>3. Retired(p, v) \/ (up[p].ver = v /\ up[p].choice = gest[k].choice)
      BY <1>1, <2>1, <2>3, <3>1 DEF SettledAt
    <3>4. Retired(p, v)' \/ (up'[p].ver = v /\ up'[p].choice = gest'[k].choice)
      BY <1>1, <3>2, <3>3
    <3> QED BY <1>1, <2>1, <3>1, <3>4 DEF SettledAt, Retired
  <2> QED BY <2>2, <2>3
<1> QED BY <1>1, <1>2

LEMMA InitAnswerInv == Init => AnswerInv
<1> SUFFICES ASSUME Init PROVE AnswerInv
  OBVIOUS
<1>1. rows = [t \in Txns |-> <<>>] /\ idem = [k \in Keys |-> Nil] /\ \A t \in Txns : pc[t] # "loop"
  BY DEF Init
<1>2. rows \in [Txns -> Seq(UpRows)] /\ \A t \in Txns : rows[t] = <<>>
  BY <1>1
<1> QED BY <1>1, <1>2 DEF AnswerInv, Built, Settled

LEMMA MintAnswers ==
  ASSUME BulkInv, AnswerInv, NEW k \in Keys, Mint(k)
  PROVE  AnswerInv'
<1>1. gest[k] = Nil /\ UNCHANGED <<tables, clock, pc, key, now, at, buffers, reply, res, upLock>>
  BY DEF Mint
<1>2. \A j \in Keys : gest[j] # Nil => gest'[j] = gest[j]
  BY <1>1 DEF Mint, BulkInv, Shapes
<1>3. clock' \in Nat /\ clock' >= clock
  BY <1>1 DEF BulkInv, Shapes
<1>4. \A u \in Txns : Built(u)'
  BY <1>1, <1>2, BuiltKept DEF AnswerInv, tables, buffers
<1>5. DOMAIN idem' = Keys /\ \A j \in Keys : Settled(j)'
  BY <1>1, <1>2, <1>3, SettledKept DEF tables
<1> QED BY <1>1, <1>4, <1>5 DEF AnswerInv, buffers

LEMMA DeliverAnswers ==
  ASSUME BulkInv, AnswerInv, NEW t \in Txns, NEW k \in Keys, Deliver(t, k)
  PROVE  AnswerInv'
<1>1. /\ pc[t] = "idle" /\ clock' = clock + 1
      /\ now' = [now EXCEPT ![t] = clock + 1] /\ key' = [key EXCEPT ![t] = k]
      /\ UNCHANGED <<tables, gest, buffers, upLock>>
  BY DEF Deliver
<1>2. clock \in Nat /\ clock' \in Nat /\ clock' >= clock
  BY <1>1 DEF BulkInv, Shapes
<1>3. /\ now'[t] = clock + 1
      /\ pc'[t] = "loop" => at'[t] = 1
      /\ \A u \in Txns \ {t} : now'[u] = now[u] /\ key'[u] = key[u]
                               /\ pc'[u] = pc[u] /\ at'[u] = at[u]
  BY <1>1 DEF Deliver, BulkInv, Shapes, TypeOK
<1>4. ASSUME NEW u \in Txns PROVE Built(u)'
  <2>1. CASE u = t
    <3>1. rows'[t] = <<>> /\ wUp'[t] = Nothing /\ wApp'[t] = Nothing
      BY <1>1 DEF AnswerInv, Built, BulkInv, Resting, buffers
    <3>2. ASSUME pc'[t] = "loop" PROVE Built(t)'
      <4>1. at'[t] = 1 /\ Visited(t)' = {} /\ Len(rows'[t]) = 0
        BY <1>3, <3>1, <3>2 DEF Visited
      <4>2. \A p \in Postings : wUp'[t][p] = Nil /\ wApp'[t][p] = Nil
        BY <3>1 DEF Nothing
      <4> QED BY <3>2, <4>1, <4>2 DEF Built
    <3> QED BY <2>1, <3>1, <3>2 DEF Built
  <2>2. CASE u # t
    <3>1. Built(u) /\ up' = up /\ app' = app /\ gest' = gest /\ UNCHANGED buffers
      BY <1>1 DEF AnswerInv, tables
    <3> QED BY <1>3, <2>2, <3>1, BuiltKept DEF buffers
  <2> QED BY <2>1, <2>2
<1>5. \A u \in Txns : pc'[u] = "loop" => (pc[u] = "loop" /\ now'[u] = now[u]) \/ now'[u] > clock
  BY <1>2, <1>3
<1>6. DOMAIN idem' = Keys /\ \A j \in Keys : Settled(j)'
  BY <1>1, <1>2, <1>5, SettledKept DEF tables
<1> QED BY <1>1, <1>4, <1>6 DEF AnswerInv, buffers

LEMMA FailAnswers ==
  ASSUME BulkInv, AnswerInv, NEW t \in Txns, NEW code, Fail(t, code)
  PROVE  AnswerInv'
<1>1. /\ pc' = [pc EXCEPT ![t] = "done"] /\ rows' = [rows EXCEPT ![t] = <<>>]
      /\ wUp' = [wUp EXCEPT ![t] = Nothing] /\ wApp' = [wApp EXCEPT ![t] = Nothing]
      /\ UNCHANGED <<tables, gest, clock, key, now, at>>
  BY DEF Fail
<1>2. /\ pc'[t] = "done" /\ rows'[t] = <<>>
      /\ \A u \in Txns \ {t} : pc'[u] = pc[u] /\ wUp'[u] = wUp[u] /\ wApp'[u] = wApp[u]
                               /\ rows'[u] = rows[u]
  BY <1>1 DEF BulkInv, Shapes, TypeOK, AnswerInv
<1>3. ASSUME NEW u \in Txns PROVE Built(u)'
  <2>1. CASE u = t
    BY <1>2, <2>1 DEF Built
  <2>2. CASE u # t
    <3>1. Built(u) /\ up' = up /\ app' = app /\ gest' = gest
      BY <1>1 DEF AnswerInv, tables
    <3> QED BY <1>1, <1>2, <2>2, <3>1, BuiltKept
  <2> QED BY <2>1, <2>2
<1>4. clock' \in Nat /\ clock' >= clock
  BY <1>1 DEF BulkInv, Shapes
<1>5. DOMAIN idem' = Keys /\ \A j \in Keys : Settled(j)'
  <2>1. \A u \in Txns : pc'[u] = "loop" => pc[u] = "loop" /\ now'[u] = now[u]
    BY <1>1, <1>2
  <2> QED BY <1>1, <1>4, <2>1, SettledKept DEF tables
<1>6. rows' \in [Txns -> Seq(UpRows)]
  <2>1. <<>> \in Seq(UpRows)
    OBVIOUS
  <2> QED BY <1>1, <2>1 DEF AnswerInv
<1> QED BY <1>3, <1>5, <1>6 DEF AnswerInv

(* A step of one loop that writes no table: what is left to show is what   *)
(* it has built.                                                           *)
LEMMA InsideAnswers ==
  ASSUME BulkInv, AnswerInv, NEW t \in Txns,
         UNCHANGED <<up, app, idem, gest, clock, pc, key, now>>,
         Built(t)', rows' \in [Txns -> Seq(UpRows)],
         \A u \in Txns \ {t} :
           at'[u] = at[u] /\ wUp'[u] = wUp[u] /\ wApp'[u] = wApp[u] /\ rows'[u] = rows[u]
  PROVE  AnswerInv'
<1>1. \A u \in Txns \ {t} : Built(u)'
  BY BuiltKept DEF AnswerInv
<1>2. clock' \in Nat /\ clock' >= clock
  BY DEF BulkInv, Shapes
<1>3. DOMAIN idem' = Keys /\ \A j \in Keys : Settled(j)'
  BY <1>2, SettledKept
<1> QED BY <1>1, <1>3 DEF AnswerInv

LEMMA TakeRowAnswers ==
  ASSUME BulkInv, AnswerInv, NEW t \in Txns, TakeRow(t)
  PROVE  AnswerInv'
<1>1. UNCHANGED <<tables, gest, clock, pc, key, now, at, buffers, reply, res>>
  BY DEF TakeRow
<1>2. Built(t)'
  BY <1>1, BuiltKept DEF AnswerInv, tables, buffers
<1> QED BY <1>1, <1>2, InsideAnswers DEF AnswerInv, tables, buffers

LEMMA KeepRowAnswers ==
  ASSUME BulkInv, AnswerInv, NEW t \in Txns, Holds(t), KeepRow(t)
  PROVE  AnswerInv'
<1>1. /\ pc[t] = "loop" /\ at[t] <= Len(G(t).batch)
      /\ rows' = [rows EXCEPT ![t] = Append(@, up[Here(t)])]
      /\ at' = [at EXCEPT ![t] = @ + 1]
      /\ UNCHANGED <<tables, gest, clock, pc, key, now, wUp, wApp, wEv, reply, res, upLock>>
  BY DEF Holds, KeepRow
<1>2. /\ key[t] \in Keys /\ at[t] \in 1 .. Len(G(t).batch) /\ Len(G(t).batch) \in Nat
      /\ Here(t) \in Postings /\ wUp[t][Here(t)] = Nil
  BY <1>1, Standing
<1>3. up[Here(t)] \in UpRows /\ rows \in [Txns -> Seq(UpRows)] /\ Len(rows[t]) = at[t] - 1
  BY <1>1, <1>2 DEF BulkInv, Shapes, TypeOK, AnswerInv, Built
<1>4. /\ at'[t] = at[t] + 1 /\ rows'[t] = Append(rows[t], up[Here(t)])
      /\ \A u \in Txns \ {t} : at'[u] = at[u] /\ rows'[u] = rows[u]
  BY <1>1, <1>3 DEF BulkInv, Shapes, TypeOK
<1>5. rows' \in [Txns -> Seq(UpRows)]
  BY <1>1, <1>3
<1>6. /\ Len(rows'[t]) = at[t] /\ rows'[t][at[t]] = up[Here(t)]
      /\ \A j \in 1 .. at[t] - 1 : rows'[t][j] = rows[t][j]
  BY <1>2, <1>3, <1>4
<1>7. G(t)' = G(t) /\ Visited(t)' = Visited(t) \cup {at[t]}
  BY <1>1, <1>2, <1>4 DEF G, Visited
<1>8. Built(t)'
  <2>1. Len(rows'[t]) = at'[t] - 1
    BY <1>2, <1>4, <1>6
  <2>2. ASSUME NEW j \in Visited(t) \cup {at[t]}
        PROVE  rows'[t][j] = IF wUp[t][G(t).batch[j]] = Nil THEN up[G(t).batch[j]]
                             ELSE wUp[t][G(t).batch[j]]
    <3>1. CASE j \in Visited(t)
      BY <1>1, <1>6, <3>1 DEF AnswerInv, Built, Visited
    <3>2. CASE j = at[t]
      BY <1>2, <1>6, <3>2 DEF Here
    <3> QED BY <3>1, <3>2
  <2>3. \A p \in Postings :
          IF wUp[t][p] = Nil THEN wApp[t][p] = Nil
          ELSE up[p].choice # G(t).choice /\ wApp[t][p] = Follow(t, p)
    BY <1>1 DEF AnswerInv, Built
  <2>4. \A p \in Postings : Follow(t, p)' = Follow(t, p)
    BY <1>1, <1>7 DEF Follow, tables
  <2> QED BY <1>1, <1>7, <2>1, <2>2, <2>3, <2>4 DEF Built, tables
<1> QED BY <1>1, <1>4, <1>5, <1>8, InsideAnswers DEF tables

LEMMA WriteRowAnswers ==
  ASSUME BulkInv, AnswerInv, NEW t \in Txns, Holds(t), ~Same(t), WriteRow(t, Chosen(t), Told(t))
  PROVE  AnswerInv'
<1> DEFINE p == Here(t)
<1>1. /\ pc[t] = "loop" /\ at[t] <= Len(G(t).batch)
      /\ wUp' = [wUp EXCEPT ![t][p] = Chosen(t)]
      /\ wApp' = [wApp EXCEPT ![t][p] = Follow(t, p)]
      /\ rows' = [rows EXCEPT ![t] = Append(@, Chosen(t))]
      /\ at' = [at EXCEPT ![t] = @ + 1]
      /\ UNCHANGED <<tables, gest, clock, pc, key, now, reply, res, upLock>>
  BY DEF Holds, WriteRow, Follow
<1>2. /\ key[t] \in Keys /\ at[t] \in 1 .. Len(G(t).batch) /\ Len(G(t).batch) \in Nat
      /\ p \in Postings /\ G(t).choice \in Choices
      /\ \A j \in Visited(t) : G(t).batch[j] # p
  BY <1>1, Standing
<1>3. Chosen(t) \in UpRows /\ Chosen(t) # Nil
  <2>1. now[t] \in Nat
    BY DEF BulkInv, Shapes, TypeOK
  <2>2. Chosen(t) \in UpRows
    BY <1>2, <2>1 DEF Chosen, UpRows
  <2> QED BY <2>2, RowsAssumption
<1>4. up[p].choice # G(t).choice /\ G(t).batch[at[t]] = p
  BY DEF Same, Here
<1> HIDE DEF p
<1>5. rows \in [Txns -> Seq(UpRows)] /\ Len(rows[t]) = at[t] - 1
  BY <1>1 DEF AnswerInv, Built
<1>6. /\ at'[t] = at[t] + 1 /\ rows'[t] = Append(rows[t], Chosen(t))
      /\ wUp'[t][p] = Chosen(t) /\ wApp'[t][p] = Follow(t, p)
      /\ \A q \in Postings \ {p} : wUp'[t][q] = wUp[t][q] /\ wApp'[t][q] = wApp[t][q]
      /\ \A u \in Txns \ {t} : at'[u] = at[u] /\ wUp'[u] = wUp[u] /\ wApp'[u] = wApp[u]
                               /\ rows'[u] = rows[u]
  BY <1>1, <1>2, <1>5 DEF BulkInv, Shapes, TypeOK
<1>7. rows' \in [Txns -> Seq(UpRows)]
  BY <1>1, <1>3, <1>5
<1>8. /\ Len(rows'[t]) = at[t] /\ rows'[t][at[t]] = Chosen(t)
      /\ \A j \in 1 .. at[t] - 1 : rows'[t][j] = rows[t][j]
  BY <1>2, <1>3, <1>5, <1>6
<1>9. G(t)' = G(t) /\ Visited(t)' = Visited(t) \cup {at[t]} /\ up' = up /\ app' = app
  BY <1>1, <1>2, <1>6 DEF G, Visited, tables
<1>10. Built(t)'
  <2>1. Len(rows'[t]) = at'[t] - 1
    BY <1>2, <1>6, <1>8
  <2>2. ASSUME NEW j \in Visited(t) \cup {at[t]}
        PROVE  rows'[t][j] = IF wUp'[t][G(t).batch[j]] = Nil THEN up[G(t).batch[j]]
                             ELSE wUp'[t][G(t).batch[j]]
    <3>1. CASE j \in Visited(t)
      <4>1. rows'[t][j] = rows[t][j] /\ G(t).batch[j] \in Postings \ {p}
        <5>1. key[t] \in Keys /\ gest[key[t]] # Nil /\ j \in 1 .. Len(G(t).batch)
          BY <1>1, <1>2, <3>1, Standing
        <5> QED BY <1>2, <1>8, <3>1, <5>1, Meant DEF Visited, G, BulkInv
      <4>2. wUp'[t][G(t).batch[j]] = wUp[t][G(t).batch[j]]
        BY <1>6, <4>1
      <4>3. rows[t][j] = IF wUp[t][G(t).batch[j]] = Nil THEN up[G(t).batch[j]]
                         ELSE wUp[t][G(t).batch[j]]
        BY <1>1, <3>1 DEF AnswerInv, Built
      <4> QED BY <4>1, <4>2, <4>3
    <3>2. CASE j = at[t]
      BY <1>3, <1>4, <1>6, <1>8, <3>2
    <3> QED BY <3>1, <3>2
  <2>3. ASSUME NEW q \in Postings
        PROVE  IF wUp'[t][q] = Nil THEN wApp'[t][q] = Nil
               ELSE up[q].choice # G(t).choice /\ wApp'[t][q] = Follow(t, q)
    <3>1. CASE q = p
      BY <1>3, <1>4, <1>6, <3>1
    <3>2. CASE q # p
      BY <1>1, <1>6, <3>2 DEF AnswerInv, Built
    <3> QED BY <3>1, <3>2
  <2>4. ASSUME NEW q \in Postings
        PROVE  IF wUp'[t][q] = Nil THEN wApp'[t][q] = Nil
               ELSE up'[q].choice # G(t)'.choice /\ wApp'[t][q] = Follow(t, q)'
    <3>1. Follow(t, q)' = Follow(t, q)
      BY <1>9 DEF Follow
    <3> QED BY <1>9, <2>3, <3>1
  <2>5. \A j \in Visited(t)' :
          rows'[t][j] = IF wUp'[t][G(t)'.batch[j]] = Nil THEN up'[G(t)'.batch[j]]
                        ELSE wUp'[t][G(t)'.batch[j]]
    BY <1>9, <2>2
  <2> QED BY <1>1, <2>1, <2>4, <2>5 DEF Built
<1> QED BY <1>1, <1>6, <1>7, <1>10, InsideAnswers DEF tables

LEMMA OtherLaneAnswers ==
  ASSUME BulkInv, AnswerInv, NEW p \in Postings, OtherLane(p)
  PROVE  AnswerInv'
<1>1. /\ \A t \in Txns : wApp[t][p] = Nil
      /\ app' = [app EXCEPT ![p] = "moved"]
      /\ UNCHANGED <<up, idem, events, gest, clock, pc, key, now, at, buffers, reply, res, upLock>>
  BY DEF OtherLane
<1>2. \A u \in Txns, q \in Postings : app'[q] = app[q] \/ (wApp[u][q] = Nil /\ app'[q] = "moved")
  BY <1>1 DEF BulkInv, Shapes, TypeOK
<1>3. \A u \in Txns : Built(u)'
  BY <1>1, <1>2, BuiltKept DEF AnswerInv, buffers
<1>4. clock' \in Nat /\ clock' >= clock
  BY <1>1 DEF BulkInv, Shapes
<1>5. DOMAIN idem' = Keys /\ \A j \in Keys : Settled(j)'
  BY <1>1, <1>4, SettledKept
<1> QED BY <1>1, <1>3, <1>5 DEF AnswerInv, buffers

(* The rows of the batch that t commits, and its answer.                   *)
LEMMA CommitTells ==
  ASSUME BulkInv, AnswerInv, NEW t \in Txns, Commit(t)
  PROVE  /\ \A p \in Postings :
              IF wUp[t][p] = Nil THEN wApp[t][p] = Nil
              ELSE up[p].choice # G(t).choice /\ wApp[t][p] = Follow(t, p)
         /\ rows[t] = [i \in 1 .. Len(G(t).batch) |-> up'[G(t).batch[i]]]
         /\ \A j \in 1 .. Len(G(t).batch) :
              wUp[t][G(t).batch[j]] = Nil => up[G(t).batch[j]].choice = G(t).choice
<1>1. /\ pc[t] = "loop" /\ at[t] > Len(G(t).batch) /\ at[t] \in 1 .. Len(G(t).batch) + 1
      /\ up' = [p \in Postings |-> IF wUp[t][p] = Nil THEN up[p] ELSE wUp[t][p]]
  BY DEF Commit, BulkInv, Running
<1>2. /\ Len(G(t).batch) \in Nat /\ \A j \in 1 .. Len(G(t).batch) : G(t).batch[j] \in Postings
  BY CommitWrites
<1>3. at[t] = Len(G(t).batch) + 1 /\ Visited(t) = 1 .. Len(G(t).batch)
  BY <1>1, <1>2 DEF Visited
<1>4. rows[t] \in Seq(UpRows) /\ Len(rows[t]) = Len(G(t).batch)
  BY <1>1, <1>2, <1>3 DEF AnswerInv, Built
<1>5. \A j \in 1 .. Len(G(t).batch) : rows[t][j] = up'[G(t).batch[j]]
  BY <1>1, <1>2, <1>3 DEF AnswerInv, Built
<1>6. rows[t] = [i \in 1 .. Len(G(t).batch) |-> up'[G(t).batch[i]]]
  BY <1>4, <1>5
<1>7. ASSUME NEW j \in 1 .. Len(G(t).batch), wUp[t][G(t).batch[j]] = Nil
      PROVE  up[G(t).batch[j]].choice = G(t).choice
  <2>1. up'[G(t).batch[j]] = up[G(t).batch[j]] /\ up'[G(t).batch[j]].choice = G(t).choice
    BY <1>2, <1>7, CommitWrites
  <2> QED BY <2>1
<1>8. \A p \in Postings :
        IF wUp[t][p] = Nil THEN wApp[t][p] = Nil
        ELSE up[p].choice # G(t).choice /\ wApp[t][p] = Follow(t, p)
  BY <1>1 DEF AnswerInv, Built
<1> QED BY <1>6, <1>7, <1>8

LEMMA CommitSettles ==
  ASSUME BulkInv, AnswerInv, NEW t \in Txns, Commit(t), NEW k \in Keys, idem'[k] # Nil
  PROVE  gest'[k] # Nil /\ \A n \in 1 .. Len(gest'[k].batch) : SettledAt(k, n)'
<1>1. gest' = gest /\ gest[k] # Nil /\ (k = key[t] \/ idem[k] # Nil)
  <2>1. k = key[t] \/ idem[k] # Nil
    BY DEF Commit, Stored, AnswerInv
  <2>2. gest[key[t]] # Nil
    BY CommitWrites
  <2> QED BY <2>1, <2>2 DEF Commit, AnswerInv, Settled
<1>2. ASSUME NEW n \in 1 .. Len(gest[k].batch), gest[k].expect[n] # Nil
      PROVE  SettledAt(k, n)'
  <2>1. PICK p \in Postings, v \in Nat : p = gest[k].batch[n] /\ v = gest[k].expect[n]
    BY <1>1, <1>2, Meant DEF BulkInv
  <2>2. wUp[t][p] = Nil => up'[p] = up[p]
    BY CommitWrites
  <2>3. CASE k = key[t]
    <3>1. up[p].ver = v /\ up'[p].choice = gest[k].choice
      BY <1>2, <2>1, <2>3, CommitWrites DEF G
    <3>2. wUp[t][p] # Nil => Retired(p, v)'
      BY <3>1, CommitRetires
    <3>3. Retired(p, v)' \/ (up'[p].ver = v /\ up'[p].choice = gest[k].choice)
      BY <2>2, <3>1, <3>2
    <3> QED BY <1>1, <2>1, <3>3 DEF SettledAt, Retired
  <2>4. CASE idem[k] # Nil
    <3>1. Retired(p, v) \/ (up[p].ver = v /\ up[p].choice = gest[k].choice)
      BY <1>2, <2>1, <2>4 DEF AnswerInv, Settled, SettledAt
    <3>2. Retired(p, v)' \/ (up'[p].ver = v /\ up'[p].choice = gest[k].choice)
      BY <2>2, <3>1, CommitRetires
    <3> QED BY <1>1, <2>1, <3>2 DEF SettledAt, Retired
  <2> QED BY <1>1, <2>3, <2>4
<1>3. ASSUME NEW n \in 1 .. Len(gest[k].batch), gest[k].expect[n] = Nil
      PROVE  SettledAt(k, n)'
  BY <1>1, <1>3 DEF SettledAt
<1> QED BY <1>1, <1>2, <1>3

LEMMA CommitAnswers ==
  ASSUME BulkInv, AnswerInv, NEW t \in Txns, Commit(t)
  PROVE  AnswerInv'
<1>1. /\ up' = [p \in Postings |-> IF wUp[t][p] = Nil THEN up[p] ELSE wUp[t][p]]
      /\ app' = [p \in Postings |-> IF wApp[t][p] = Nil THEN app[p] ELSE wApp[t][p]]
      /\ pc' = [pc EXCEPT ![t] = "done"] /\ rows' = [rows EXCEPT ![t] = <<>>]
      /\ wUp' = [wUp EXCEPT ![t] = Nothing] /\ wApp' = [wApp EXCEPT ![t] = Nothing]
      /\ UNCHANGED <<gest, clock, key, now, at>>
  BY DEF Commit
<1>2. /\ pc[t] = "loop" /\ pc'[t] = "done" /\ rows'[t] = <<>>
      /\ \A u \in Txns \ {t} : pc'[u] = pc[u] /\ wUp'[u] = wUp[u] /\ wApp'[u] = wApp[u]
                               /\ rows'[u] = rows[u]
  BY <1>1, CommitWrites DEF BulkInv, Shapes, TypeOK, AnswerInv
<1>3. \A p \in Postings : upLock[p] # t => wUp[t][p] = Nil /\ up'[p] = up[p] /\ app'[p] = app[p]
  BY <1>1, CommitWrites, CommitTells
<1>4. ASSUME NEW u \in Txns PROVE Built(u)'
  <2>1. CASE u = t
    BY <1>2, <2>1 DEF Built
  <2>2. CASE pc[u] # "loop" /\ u # t
    BY <1>2, <2>2 DEF AnswerInv, Built
  <2>3. CASE pc[u] = "loop" /\ u # t
    <3>1. \A p \in Postings : wUp[u][p] # Nil => app'[p] = app[p]
      BY <1>3, <2>3, BufferedHeld
    <3>2. \A p \in Postings : upLock[p] = u => up'[p] = up[p]
      BY <1>3, <2>3
    <3> QED BY <1>1, <1>2, <2>3, <3>1, <3>2, BuiltKept DEF AnswerInv
  <2> QED BY <2>1, <2>2, <2>3
<1>5. DOMAIN idem' = Keys
  BY DEF Commit, Stored, AnswerInv
<1>6. \A k \in Keys : Settled(k)'
  BY CommitSettles DEF Settled
<1>7. rows' \in [Txns -> Seq(UpRows)]
  <2>1. <<>> \in Seq(UpRows)
    OBVIOUS
  <2> QED BY <1>1, <2>1 DEF AnswerInv
<1> QED BY <1>4, <1>5, <1>6, <1>7 DEF AnswerInv

LEMMA StillAnswers ==
  ASSUME BulkInv, AnswerInv, UNCHANGED vars
  PROVE  AnswerInv'
<1>1. UNCHANGED <<up, app, idem, gest, clock, pc, key, now, at, wUp, wApp, rows>>
  BY DEF vars, tables, buffers
<1>2. \A u \in Txns : Built(u)'
  BY <1>1, BuiltKept DEF AnswerInv
<1>3. clock' \in Nat /\ clock' >= clock
  BY <1>1 DEF BulkInv, Shapes
<1>4. DOMAIN idem' = Keys /\ \A j \in Keys : Settled(j)'
  BY <1>1, <1>3, SettledKept
<1> QED BY <1>1, <1>2, <1>4 DEF AnswerInv

LEMMA NextAnswerInv ==
  ASSUME BulkInv, AnswerInv, [Next]_vars
  PROVE  AnswerInv'
<1>1. ASSUME NEW k \in Keys, Mint(k) PROVE AnswerInv'
  BY <1>1, MintAnswers
<1>2. ASSUME NEW t \in Txns, NEW k \in Keys, Deliver(t, k) PROVE AnswerInv'
  BY <1>2, DeliverAnswers
<1>3. ASSUME NEW t \in Txns, TakeRow(t) PROVE AnswerInv'
  BY <1>3, TakeRowAnswers
<1>4. ASSUME NEW t \in Txns, DecideRow(t) PROVE AnswerInv'
  <2>1. CASE Fail(t, "conflict")
    BY <2>1, FailAnswers
  <2>2. CASE KeepRow(t)
    BY <1>4, <2>2, KeepRowAnswers DEF DecideRow
  <2>3. CASE ~Same(t) /\ WriteRow(t, Chosen(t), Told(t))
    BY <1>4, <2>3, WriteRowAnswers DEF DecideRow
  <2> QED BY <1>4, <2>1, <2>2, <2>3 DEF DecideRow
<1>5. ASSUME NEW t \in Txns, Commit(t) PROVE AnswerInv'
  BY <1>5, CommitAnswers
<1>6. ASSUME NEW t \in Txns, DeadlockVictim(t) PROVE AnswerInv'
  BY <1>6, FailAnswers DEF DeadlockVictim
<1>7. ASSUME NEW t \in Txns, Lose(t) PROVE AnswerInv'
  BY <1>7, FailAnswers DEF Lose
<1>8. ASSUME NEW p \in Postings, OtherLane(p) PROVE AnswerInv'
  BY <1>8, OtherLaneAnswers
<1>9. CASE UNCHANGED vars
  BY <1>9, StillAnswers
<1> QED BY <1>1, <1>2, <1>3, <1>4, <1>5, <1>6, <1>7, <1>8, <1>9 DEF Next, Serve, AllServed

LEMMA BatchHeld == Spec => [](BulkInv /\ AnswerInv)
<1>1. BulkInv /\ AnswerInv /\ [Next]_vars => (BulkInv /\ AnswerInv)'
  BY NextBulkInv, NextAnswerInv
<1> QED BY InitBulkInv, InitAnswerInv, <1>1, PTL DEF Spec

-----------------------------------------------------------------------------
(* The batches implement the register.                                     *)
LEMMA RegisterInit == Init => Register!Init
BY DEF Init, Register!Init

LEMMA MintAsks ==
  ASSUME BulkInv, NEW k \in Keys, Mint(k)
  PROVE  Register!Ask(k)
<1>1. PICK b \in Batches, c \in Choices, v \in Expecting :
        gest' = [gest EXCEPT ![k] =
          [batch |-> b, choice |-> c,
           expect |-> [i \in 1 .. Len(b) |-> IF v THEN up[b[i]].ver ELSE Nil]]]
  BY DEF Mint
<1> DEFINE x == [i \in 1 .. Len(b) |-> IF v THEN up[b[i]].ver ELSE Nil]
<1>2. \A i \in 1 .. Len(b) : b[i] \in Postings /\ up[b[i]].ver \in Nat
  BY BatchesAssumption DEF BulkInv, Shapes, TypeOK, UpRows
<1>3. x \in [1 .. Len(b) -> Nat \cup {Nil}]
  BY <1>2
<1> HIDE DEF x
<1>4. [batch |-> b, choice |-> c, expect |-> x] \in Gestures
  BY <1>3 DEF Gestures
<1>5. [batch |-> b, choice |-> c, expect |-> x] # Nil
  BY <1>4, RowsAssumption
<1>6. gest'[k] = [batch |-> b, choice |-> c, expect |-> x] /\ \A j \in Keys \ {k} : gest'[j] = gest[j]
  BY <1>1 DEF BulkInv, Shapes, x
<1> QED BY <1>5, <1>6 DEF Register!Ask, Mint, tables

(* What moves is what the transaction has buffered.                        *)
LEMMA MovingIsBuffered ==
  ASSUME BulkInv, AnswerInv, NEW t \in Txns, Commit(t), NEW k \in Keys, k = key[t]
  PROVE  /\ \A p \in Postings : p \in Register!Moving(k) <=> wUp[t][p] # Nil
         /\ Register!Moving(k) \subseteq Postings
         /\ Register!Places(k) = 1 .. Len(G(t).batch)
<1>1. /\ gest[k] = G(t) /\ gest[k] # Nil /\ Len(G(t).batch) \in Nat
      /\ \A j \in 1 .. Len(G(t).batch) : G(t).batch[j] \in Postings
      /\ \A p \in Postings : wUp[t][p] # Nil => \E j \in 1 .. Len(G(t).batch) : G(t).batch[j] = p
  BY CommitWrites DEF G
<1>2. /\ \A p \in Postings : wUp[t][p] # Nil => up[p].choice # G(t).choice
      /\ \A j \in 1 .. Len(G(t).batch) :
           wUp[t][G(t).batch[j]] = Nil => up[G(t).batch[j]].choice = G(t).choice
  BY CommitTells
<1>3. Register!Places(k) = 1 .. Len(G(t).batch)
  <2>1. G(t).batch \in Seq(Postings)
    BY <1>1, Meant DEF BulkInv
  <2> QED BY <1>1, <2>1 DEF Register!Places
<1>4. Register!Moving(k) =
        {p \in {G(t).batch[i] : i \in 1 .. Len(G(t).batch)} : up[p].choice # G(t).choice}
  BY <1>1, <1>3 DEF Register!Moving
<1>5. Register!Moving(k) \subseteq Postings
  BY <1>1, <1>4
<1>6. ASSUME NEW p \in Postings
      PROVE  p \in Register!Moving(k) <=> wUp[t][p] # Nil
  BY <1>1, <1>2, <1>4
<1> QED BY <1>3, <1>5, <1>6

LEMMA CommitDecides ==
  ASSUME BulkInv, AnswerInv, NEW t \in Txns, Commit(t), NEW k \in Keys, k = key[t]
  PROVE  Register!Decided(k)
<1>1. /\ gest[k] = G(t) /\ gest[k] # Nil /\ gest' = gest /\ Stamped(t)
      /\ up' = [p \in Postings |-> IF wUp[t][p] = Nil THEN up[p] ELSE wUp[t][p]]
      /\ app' = [p \in Postings |-> IF wApp[t][p] = Nil THEN app[p] ELSE wApp[t][p]]
  BY CommitWrites DEF G, Commit
<1>2. /\ \A p \in Postings : p \in Register!Moving(k) <=> wUp[t][p] # Nil
      /\ Register!Moving(k) \subseteq Postings
      /\ Register!Places(k) = 1 .. Len(G(t).batch)
  BY MovingIsBuffered
<1>3. Register!Expected(k)
  BY <1>1, <1>2, CommitWrites DEF Register!Expected
<1>4. \A p \in Register!Moving(k) : up'[p] = Chosen(t) /\ up'[p].ver = now[t]
  BY <1>2, CommitWrites DEF Chosen
<1>5. up' = [p \in Postings |->
               IF p \in Register!Moving(k) THEN [choice |-> gest[k].choice, ver |-> up'[p].ver]
               ELSE up[p]]
  <2>1. \A p \in Postings : up'[p] =
          IF p \in Register!Moving(k) THEN [choice |-> gest[k].choice, ver |-> up'[p].ver]
          ELSE up[p]
    BY <1>1, <1>2, <1>4 DEF Chosen
  <2> QED BY <1>1, <2>1
<1>6. \A p \in Register!Moving(k) : \A q \in Postings : up'[p].ver # up[q].ver
  BY <1>1, <1>4 DEF Stamped
<1>7. app' = [p \in Postings |->
                IF p \in Register!Moving(k) THEN Register!Follows(p, gest[k].choice) ELSE app[p]]
  <2>1. ASSUME NEW p \in Postings
        PROVE  app'[p] = IF p \in Register!Moving(k) THEN Register!Follows(p, gest[k].choice)
                         ELSE app[p]
    <3>1. CASE wUp[t][p] = Nil
      BY <1>1, <1>2, <3>1, CommitTells
    <3>2. CASE wUp[t][p] # Nil
      <4>1. wApp[t][p] = Follow(t, p) /\ p \in Register!Moving(k)
        BY <1>2, <3>2, CommitTells
      <4>2. "none" # Nil /\ "Queued" # Nil
        BY RowsAssumption
      <4> QED BY <1>1, <4>1, <4>2 DEF Follow, Register!Follows
    <3> QED BY <3>1, <3>2
  <2> QED BY <1>1, <2>1
<1> QED BY <1>1, <1>3, <1>4, <1>5, <1>6, <1>7 DEF Register!Decided

(* A commit is a decision: the first one stores the answer, a later one    *)
(* finds every row its caller named the version of decided already.        *)
LEMMA CommitIsADecision ==
  ASSUME BulkInv, AnswerInv, NEW t \in Txns, Commit(t), NEW k \in Keys, k = key[t]
  PROVE  Register!Decide(k) \/ Register!DecideAgain(k)
<1>1. Register!Decided(k)
  BY CommitDecides
<1>2. gest[k] = G(t) /\ idem' = Stored(t) /\ Register!Places(k) = 1 .. Len(G(t).batch)
  BY MovingIsBuffered DEF G, Commit
<1>3. CASE idem[k] = Nil
  <2>1. idem' = [idem EXCEPT ![k] = [i \in Register!Places(k) |-> up'[gest[k].batch[i]]]]
    BY <1>2, <1>3, CommitTells DEF Stored
  <2> QED BY <1>1, <1>3, <2>1 DEF Register!Decide
<1>4. CASE idem[k] # Nil
  <2>1. idem' = idem
    BY <1>2, <1>4 DEF Stored
  <2>2. ASSUME NEW p, p \in Register!Moving(k), p \in Register!Guarded(k)
        PROVE  FALSE
    <3>1. PICK j \in 1 .. Len(G(t).batch) : gest[k].batch[j] = p /\ gest[k].expect[j] # Nil
      BY <1>2, <2>2 DEF Register!Guarded
    <3>2. up[p].choice # gest[k].choice
      BY <2>2 DEF Register!Moving
    <3>3. up[p].ver = gest[k].expect[j]
      BY <1>2, <3>1, CommitWrites
    <3>4. Retired(p, gest[k].expect[j]) \/ up[p].choice = gest[k].choice
      BY <1>2, <1>4, <3>1 DEF AnswerInv, Settled, SettledAt
    <3> QED BY <3>2, <3>3, <3>4 DEF Retired
  <2>3. Register!Moving(k) \cap Register!Guarded(k) = {}
    BY <2>2
  <2> QED BY <1>1, <1>4, <2>1, <2>3 DEF Register!DecideAgain
<1> QED BY <1>3, <1>4

LEMMA RegisterStep ==
  ASSUME BulkInv, AnswerInv, [Next]_vars
  PROVE  [Register!Next]_(Register!vars)
<1>1. ASSUME NEW k \in Keys, Mint(k)
      PROVE  Register!Next
  <2>1. Register!Ask(k)
    BY <1>1, MintAsks
  <2> QED BY <2>1 DEF Register!Next
<1>2. ASSUME NEW t \in Txns, Commit(t)
      PROVE  Register!Next
  <2>1. PICK k \in Keys : k = key[t]
    BY <1>2, CommitWrites
  <2>2. Register!Decide(k) \/ Register!DecideAgain(k)
    BY <1>2, <2>1, CommitIsADecision
  <2> QED BY <2>2 DEF Register!Next
<1>3. ASSUME NEW p \in Postings, OtherLane(p)
      PROVE  Register!Next
  <2>1. Register!Elsewhere
    BY <1>3 DEF OtherLane, Register!Elsewhere
  <2> QED BY <2>1 DEF Register!Next
<1>4. CASE up' = up /\ app' = app /\ idem' = idem /\ gest' = gest
  BY <1>4 DEF Register!vars
<1>5. ASSUME NEW t \in Txns, NEW k \in Keys, Deliver(t, k)
      PROVE  up' = up /\ app' = app /\ idem' = idem /\ gest' = gest
  BY <1>5 DEF Deliver, tables
<1>6. ASSUME NEW t \in Txns, TakeRow(t)
      PROVE  up' = up /\ app' = app /\ idem' = idem /\ gest' = gest
  BY <1>6 DEF TakeRow, tables
<1>7. ASSUME NEW t \in Txns, NEW code, Fail(t, code)
      PROVE  up' = up /\ app' = app /\ idem' = idem /\ gest' = gest
  BY <1>7 DEF Fail, tables
<1>8. ASSUME NEW t \in Txns, DecideRow(t)
      PROVE  up' = up /\ app' = app /\ idem' = idem /\ gest' = gest
  <2>1. CASE Fail(t, "conflict")
    BY <1>7, <2>1
  <2>2. CASE KeepRow(t) \/ WriteRow(t, Chosen(t), Told(t))
    BY <2>2 DEF KeepRow, WriteRow, tables
  <2> QED BY <1>8, <2>1, <2>2 DEF DecideRow
<1>9. ASSUME NEW t \in Txns, DeadlockVictim(t) \/ Lose(t)
      PROVE  up' = up /\ app' = app /\ idem' = idem /\ gest' = gest
  BY <1>7, <1>9 DEF DeadlockVictim, Lose
<1>10. CASE UNCHANGED vars
  BY <1>4, <1>10 DEF vars, tables
<1> QED BY <1>1, <1>2, <1>3, <1>4, <1>5, <1>6, <1>8, <1>9, <1>10 DEF Next, Serve, AllServed

(* Batches that list the same postings in any order, wait, deadlock, fail  *)
(* and are delivered again behave as if each took effect in one step, on   *)
(* the versions its caller named and with the rows of that step as its     *)
(* answer; a key that takes effect again touches only rows it named no     *)
(* version for.                                                            *)
THEOREM ImplementsBatchRegister == Spec => BatchRegisterSpec
<1> QED BY BatchHeld, RegisterInit, RegisterStep, PTL DEF Spec, BatchRegisterSpec, Register!Spec
=============================================================================
