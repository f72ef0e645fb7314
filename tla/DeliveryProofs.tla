---------------------------- MODULE DeliveryProofs ----------------------------
(* What leaves for the outside: the ledger of lifecycle mail tells the truth,   *)
(* for any number of facts and dispatchers; what the Feed says was pushed was   *)
(* pushed or is named by a row of the Outbox, for any roles, boards, sweeps and *)
(* faults; and an attempt that may have reached an employer is never blindly    *)
(* repeated, for any number of applications, requests and stages.               *)
EXTENDS EmailSends, PushOutbox, Autopilot, FiniteSetTheorems, WellFoundedInduction, TLAPS

-------------------------------------------------------------------------------
(* Lifecycle mail (email-sends).                                               *)

\* The dispatcher's claim of its item stands, and no mail has gone out for it
\* that the dispatcher does not know of.
Holding(d) == dispatcher[d].at \in {"skip", "send", "record"}

ClaimStands(d) ==
    /\ Item(d) \in DOMAIN ledger
    /\ ledger[Item(d)] = "claimed"
    /\ dispatcher[d].at \in {"skip", "send"} => mails[Item(d)] = 0
    /\ dispatcher[d].at = "record" =>
         /\ dispatcher[d].answer = "sent" => mails[Item(d)] = 1
         /\ dispatcher[d].answer \in {"skipped", "failed"} => mails[Item(d)] = 0

\* A claim has one holder.
OneHolder ==
    \A d, e \in Dispatchers : Holding(d) /\ Holding(e) /\ Item(d) = Item(e) => d = e

HasWork == \A d \in Dispatchers : dispatcher[d].at # "idle" => dispatcher[d].due # {}

MailInv ==
    /\ MailTypeOK /\ HasWork
    /\ LedgerTrue
    /\ \A d \in Dispatchers : Holding(d) => ClaimStands(d)
    /\ OneHolder

-------------------------------------------------------------------------------

\* Of numbers there is an oldest.
LEMMA OldestIsOne ==
    ASSUME NEW S, S \subseteq Facts, S # {}
    PROVE  Oldest(S) \in S /\ \A g \in S : Oldest(S) <= g
<1> DEFINE R == OpToRel(<, Nat)
<1>1. IsWellFoundedOn(R, Nat)
  BY NatLessThanWellFounded
<1>2. S \subseteq Nat
  BY MailAssumption
<1>3. PICK x \in S : \A y \in S : ~(<<y, x>> \in R)
  <2> HIDE DEF R
  <2> QED  BY <1>1, <1>2, WFMin
<1>4. \A y \in S : x <= y
  <2> TAKE y \in S
  <2>1. x \in Nat /\ y \in Nat /\ <<y, x>> \notin R
    BY <1>2, <1>3
  <2>2. ~(y < x)
    BY <2>1 DEF OpToRel
  <2> HIDE DEF R
  <2> QED  BY <2>1, <2>2
<1> QED  BY <1>4 DEF Oldest

LEMMA ItemIsDue ==
    ASSUME MailTypeOK, HasWork, NEW d \in Dispatchers, dispatcher[d].at # "idle"
    PROVE  Item(d) \in dispatcher[d].due /\ Item(d) \in Facts
  BY OldestIsOne DEF MailTypeOK, DispatcherType, HasWork, Item

\* A read that finds something pending returns something.
LEMMA DueIsSome ==
    ASSUME MailTypeOK, Pending # {}
    PROVE  Due # {} /\ Due \subseteq Facts
<1>1. Pending \subseteq Facts
  BY DEF Pending, MailTypeOK
<1>2. PICK f \in Pending : \A g \in Pending : f <= g
  BY <1>1, OldestIsOne
<1>3. {g \in Pending : g < f} = {}
  <2> SUFFICES ASSUME NEW g \in Pending, g < f  PROVE FALSE
    OBVIOUS
  <2> g \in Nat /\ f \in Nat
    BY <1>1, MailAssumption
  <2> QED  BY <1>2
<1>4. Cardinality({g \in Pending : g < f}) < Limit
  BY <1>3, FS_EmptySet, MailAssumption
<1>5. f \in Due
  BY <1>2, <1>4 DEF Due
<1> QED  BY <1>1, <1>5 DEF Due

\* What d does leaves the claims of the others standing, if it leaves their rows
\* and their mails alone.
LEMMA OthersKeepTheirs ==
    ASSUME MailInv, NEW d \in Dispatchers,
           \A e \in Dispatchers \ {d} : dispatcher'[e] = dispatcher[e],
           \A e \in Dispatchers \ {d} : Holding(e) =>
              /\ Item(e) \in DOMAIN ledger'
              /\ ledger'[Item(e)] = ledger[Item(e)]
              /\ mails'[Item(e)] = mails[Item(e)],
           Holding(d)' => ClaimStands(d)',
           Holding(d)' => \A e \in Dispatchers \ {d} : Holding(e) => Item(e) # Item(d)'
    PROVE  /\ \A e \in Dispatchers : Holding(e)' => ClaimStands(e)'
           /\ OneHolder'
<1>1. \A e \in Dispatchers \ {d} : Holding(e)' = Holding(e) /\ Item(e)' = Item(e)
  BY DEF Holding, Item
<1>2. \A e \in Dispatchers \ {d} : Holding(e)' => ClaimStands(e)'
  BY <1>1 DEF MailInv, ClaimStands
<1>3. OneHolder'
  BY <1>1 DEF MailInv, OneHolder
<1> QED  BY <1>2, <1>3

\* Going on to the next item keeps the dispatcher in its type, with work to do,
\* and holding nothing.
LEMMA PastHolds ==
    ASSUME MailInv, NEW d \in Dispatchers, dispatcher[d].at # "idle", Past(d)
    PROVE  /\ dispatcher' \in [Dispatchers -> DispatcherType]
           /\ HasWork'
           /\ ~Holding(d)'
           /\ \A e \in Dispatchers \ {d} : dispatcher'[e] = dispatcher[e]
  BY DEF MailInv, MailTypeOK, DispatcherType, HasWork, Past, Idle, Holding, Recordable

LEMMA GotoHolds ==
    ASSUME MailInv, NEW d \in Dispatchers, dispatcher[d].at # "idle",
           NEW step \in {"claim", "insert", "skip", "send", "record"}, Goto(d, step)
    PROVE  /\ dispatcher' \in [Dispatchers -> DispatcherType]
           /\ HasWork'
           /\ dispatcher'[d] = [dispatcher[d] EXCEPT !.at = step]
           /\ Item(d)' = Item(d)
           /\ \A e \in Dispatchers \ {d} : dispatcher'[e] = dispatcher[e]
  BY DEF MailInv, MailTypeOK, DispatcherType, HasWork, Goto, Item

-------------------------------------------------------------------------------

LEMMA MailInit_MailInv == MailInit => MailInv
<1> SUFFICES ASSUME MailInit PROVE MailInv
  OBVIOUS
<1>1. \A d \in Dispatchers : dispatcher[d] = Idle
  BY DEF MailInit
<1>2. Idle \in DispatcherType
  BY DEF Idle, DispatcherType, Recordable
<1>3. MailTypeOK
  <2>1. DOMAIN ledger = {}
    BY DEF MailInit
  <2>2. dispatcher \in [Dispatchers -> DispatcherType] /\ mails \in [Facts -> Nat]
    BY <1>2 DEF MailInit
  <2>3. \A f \in DOMAIN ledger : ledger[f] \in MailStatuses
    BY <2>1
  <2>4. dispatches \in 0..MaxDispatches
    BY MailAssumption DEF MailInit
  <2> QED  BY <2>1, <2>2, <2>3, <2>4 DEF MailInit, MailTypeOK
<1>4. HasWork /\ \A d \in Dispatchers : ~Holding(d)
  BY <1>1 DEF HasWork, Holding, Idle
<1>5. LedgerTrue
  BY DEF MailInit, LedgerTrue
<1> QED  BY <1>3, <1>4, <1>5 DEF MailInv, OneHolder

LEMMA DispatchKeeps ==
    ASSUME MailInv, NEW d \in Dispatchers, NEW on \in BOOLEAN, Dispatch(d, on)
    PROVE  MailInv'
<1>1. Due # {} /\ Due \subseteq Facts
  BY DueIsSome DEF MailInv, Dispatch
<1>2. MailTypeOK' /\ HasWork'
  BY <1>1, MailAssumption
  DEF Dispatch, MailInv, MailTypeOK, DispatcherType, HasWork, Recordable, At
<1>3. ~Holding(d)'
  BY DEF Dispatch, MailInv, MailTypeOK, Holding
<1>4. LedgerTrue'
  BY DEF Dispatch, MailInv, LedgerTrue
<1>5. /\ \A e \in Dispatchers \ {d} : dispatcher'[e] = dispatcher[e]
      /\ \A e \in Dispatchers \ {d} : Holding(e) =>
            Item(e) \in DOMAIN ledger' /\ ledger' = ledger /\ mails' = mails
  BY DEF Dispatch, MailInv, MailTypeOK, ClaimStands
<1>6. (\A e \in Dispatchers : Holding(e)' => ClaimStands(e)') /\ OneHolder'
  BY <1>3, <1>5, OthersKeepTheirs
<1> QED  BY <1>2, <1>4, <1>6 DEF MailInv

\* A row written for the item of d, on a key that was free.
LEMMA NewRow ==
    ASSUME MailInv, NEW d \in Dispatchers, dispatcher[d].at # "idle",
           Item(d) \notin DOMAIN ledger, NEW standing \in {"claimed", "suppressed"},
           Row(Item(d), standing), UNCHANGED <<facts, suppressed, mails, dispatches>>
    PROVE  /\ DOMAIN ledger' = DOMAIN ledger \cup {Item(d)}
           /\ DOMAIN ledger' \subseteq Facts
           /\ \A f \in DOMAIN ledger' : ledger'[f] \in MailStatuses
           /\ ledger'[Item(d)] = standing
           /\ \A f \in DOMAIN ledger : ledger'[f] = ledger[f]
           /\ LedgerTrue'
           /\ mails[Item(d)] = 0
<1>1. Item(d) \in Facts
  BY ItemIsDue DEF MailInv
<1>2. /\ DOMAIN ledger' = DOMAIN ledger \cup {Item(d)}
      /\ ledger'[Item(d)] = standing
      /\ \A f \in DOMAIN ledger : ledger'[f] = ledger[f]
  BY DEF Row
<1>3. mails[Item(d)] = 0
  BY <1>1 DEF MailInv, LedgerTrue
<1>4. LedgerTrue'
  BY <1>2, <1>3 DEF MailInv, LedgerTrue
<1>5. \A f \in DOMAIN ledger' : ledger'[f] \in MailStatuses
  BY <1>2 DEF MailInv, MailTypeOK, MailStatuses
<1> QED  BY <1>1, <1>2, <1>3, <1>4, <1>5 DEF MailInv, MailTypeOK

LEMMA ClaimSuppressedKeeps ==
    ASSUME MailInv, NEW d \in Dispatchers, ClaimSuppressed(d)
    PROVE  MailInv'
<1>1. dispatcher[d].at # "idle" /\ Past(d)
  BY DEF ClaimSuppressed, At
<1>2. /\ dispatcher' \in [Dispatchers -> DispatcherType] /\ HasWork' /\ ~Holding(d)'
      /\ \A e \in Dispatchers \ {d} : dispatcher'[e] = dispatcher[e]
  BY <1>1, PastHolds
<1>3. /\ DOMAIN ledger' \subseteq Facts
      /\ \A f \in DOMAIN ledger' : ledger'[f] \in MailStatuses
      /\ \A f \in DOMAIN ledger : f \in DOMAIN ledger' /\ ledger'[f] = ledger[f]
      /\ LedgerTrue'
  <2>1. CASE Item(d) \in DOMAIN ledger
    BY <2>1 DEF ClaimSuppressed, MailInv, MailTypeOK, LedgerTrue
  <2>2. CASE Item(d) \notin DOMAIN ledger
    <3>1. Row(Item(d), "suppressed") /\ UNCHANGED <<facts, suppressed, mails, dispatches>>
      BY <2>2 DEF ClaimSuppressed
    <3> QED  BY <1>1, <2>2, <3>1, NewRow
  <2> QED  BY <2>1, <2>2
<1>4. MailTypeOK'
  BY <1>2, <1>3 DEF ClaimSuppressed, MailInv, MailTypeOK
<1>5. \A e \in Dispatchers \ {d} : Holding(e) =>
         /\ Item(e) \in DOMAIN ledger'
         /\ ledger'[Item(e)] = ledger[Item(e)]
         /\ mails'[Item(e)] = mails[Item(e)]
  BY <1>3 DEF MailInv, ClaimStands, ClaimSuppressed
<1>6. (\A e \in Dispatchers : Holding(e)' => ClaimStands(e)') /\ OneHolder'
  BY <1>2, <1>5, OthersKeepTheirs
<1> QED  BY <1>2, <1>3, <1>4, <1>6 DEF MailInv

LEMMA ClaimCleanKeeps ==
    ASSUME MailInv, NEW d \in Dispatchers, ClaimClean(d)
    PROVE  MailInv'
<1>1. /\ dispatcher' \in [Dispatchers -> DispatcherType] /\ HasWork'
      /\ dispatcher'[d] = [dispatcher[d] EXCEPT !.at = "insert"]
      /\ \A e \in Dispatchers \ {d} : dispatcher'[e] = dispatcher[e]
  BY GotoHolds DEF ClaimClean, At
<1>2. ~Holding(d)'
  BY <1>1 DEF Holding, MailInv, MailTypeOK, DispatcherType
<1>3. MailTypeOK' /\ LedgerTrue'
  BY <1>1 DEF ClaimClean, MailInv, MailTypeOK, LedgerTrue
<1>4. (\A e \in Dispatchers : Holding(e)' => ClaimStands(e)') /\ OneHolder'
  <2>1. \A e \in Dispatchers \ {d} : Holding(e) =>
           /\ Item(e) \in DOMAIN ledger'
           /\ ledger'[Item(e)] = ledger[Item(e)]
           /\ mails'[Item(e)] = mails[Item(e)]
    BY DEF MailInv, ClaimStands, ClaimClean
  <2> QED  BY <1>1, <1>2, <2>1, OthersKeepTheirs
<1> QED  BY <1>1, <1>3, <1>4 DEF MailInv

\* The insert makes its dispatcher the holder of a key nobody holds.
LEMMA InsertKeeps ==
    ASSUME MailInv, NEW d \in Dispatchers, Insert(d)
    PROVE  MailInv'
<1>1. dispatcher[d].at # "idle"
  BY DEF Insert, At
<1>2. CASE Item(d) \in DOMAIN ledger
  <2>1. /\ dispatcher' \in [Dispatchers -> DispatcherType] /\ HasWork' /\ ~Holding(d)'
        /\ \A e \in Dispatchers \ {d} : dispatcher'[e] = dispatcher[e]
    BY <1>1, <1>2, PastHolds DEF Insert
  <2>2. MailTypeOK' /\ LedgerTrue'
    BY <1>2, <2>1 DEF Insert, MailInv, MailTypeOK, LedgerTrue
  <2>3. \A e \in Dispatchers \ {d} : Holding(e) =>
           /\ Item(e) \in DOMAIN ledger'
           /\ ledger'[Item(e)] = ledger[Item(e)]
           /\ mails'[Item(e)] = mails[Item(e)]
    BY <1>2 DEF MailInv, ClaimStands, Insert
  <2>4. (\A e \in Dispatchers : Holding(e)' => ClaimStands(e)') /\ OneHolder'
    BY <2>1, <2>3, OthersKeepTheirs
  <2> QED  BY <2>1, <2>2, <2>4 DEF MailInv
<1>3. CASE Item(d) \notin DOMAIN ledger
  <2>1. /\ Row(Item(d), "claimed")
        /\ UNCHANGED <<facts, suppressed, mails, dispatches>>
        /\ Goto(d, IF dispatcher[d].on THEN "send" ELSE "skip")
    BY <1>3 DEF Insert
  <2>2. /\ DOMAIN ledger' = DOMAIN ledger \cup {Item(d)}
        /\ DOMAIN ledger' \subseteq Facts
        /\ \A f \in DOMAIN ledger' : ledger'[f] \in MailStatuses
        /\ ledger'[Item(d)] = "claimed"
        /\ \A f \in DOMAIN ledger : ledger'[f] = ledger[f]
        /\ LedgerTrue'
        /\ mails[Item(d)] = 0
    BY <1>1, <1>3, <2>1, NewRow
  <2>3. PICK step \in {"send", "skip"} : Goto(d, step)
    BY <2>1
  <2>4. /\ dispatcher' \in [Dispatchers -> DispatcherType] /\ HasWork'
        /\ dispatcher'[d] = [dispatcher[d] EXCEPT !.at = step]
        /\ Item(d)' = Item(d)
        /\ \A e \in Dispatchers \ {d} : dispatcher'[e] = dispatcher[e]
    BY <1>1, <2>3, GotoHolds
  <2>5. dispatcher'[d].at = step
    BY <2>4 DEF MailInv, MailTypeOK, DispatcherType
  <2>6. ClaimStands(d)'
    BY <2>1, <2>2, <2>4, <2>5 DEF ClaimStands
  <2>7. \A e \in Dispatchers \ {d} : Holding(e) =>
           /\ Item(e) \in DOMAIN ledger'
           /\ ledger'[Item(e)] = ledger[Item(e)]
           /\ mails'[Item(e)] = mails[Item(e)]
           /\ Item(e) # Item(d)
    BY <1>3, <2>1, <2>2 DEF MailInv, ClaimStands
  <2>8. (\A e \in Dispatchers : Holding(e)' => ClaimStands(e)') /\ OneHolder'
    BY <2>4, <2>6, <2>7, OthersKeepTheirs
  <2>9. MailTypeOK'
    BY <2>1, <2>2, <2>4 DEF MailInv, MailTypeOK
  <2> QED  BY <2>2, <2>4, <2>8, <2>9 DEF MailInv
<1> QED  BY <1>2, <1>3

\* The others hold other keys than a holder.
LEMMA OthersElsewhere ==
    ASSUME MailInv, NEW d \in Dispatchers, Holding(d)
    PROVE  \A e \in Dispatchers \ {d} : Holding(e) => Item(e) # Item(d)
  BY DEF MailInv, OneHolder

\* A holder that goes on to record has an answer that is true of its mail.
LEMMA ToRecord ==
    ASSUME MailInv, NEW d \in Dispatchers, Holding(d), NEW answer \in Recordable,
           dispatcher' = [dispatcher EXCEPT ![d].at = "record", ![d].answer = answer],
           UNCHANGED <<facts, ledger, suppressed, dispatches>>,
           mails' \in [Facts -> Nat],
           \A f \in Facts \ {Item(d)} : mails'[f] = mails[f],
           mails'[Item(d)] <= 1,
           answer = "sent" => mails'[Item(d)] = 1,
           answer \in {"skipped", "failed"} => mails'[Item(d)] = 0
    PROVE  MailInv'
<1>1. /\ dispatcher' \in [Dispatchers -> DispatcherType] /\ HasWork'
      /\ dispatcher'[d].at = "record" /\ dispatcher'[d].answer = answer
      /\ dispatcher'[d].due = dispatcher[d].due
      /\ \A e \in Dispatchers \ {d} : dispatcher'[e] = dispatcher[e]
  <2> DEFINE after == [dispatcher[d] EXCEPT !.at = "record", !.answer = answer]
  <2>1. dispatcher \in [Dispatchers -> DispatcherType] /\ HasWork
    BY DEF MailInv, MailTypeOK
  <2>2. dispatcher[d] \in DispatcherType /\ dispatcher[d].due # {}
    BY <2>1 DEF HasWork, Holding
  <2>3. /\ after \in DispatcherType
        /\ after.at = "record" /\ after.answer = answer
        /\ after.due = dispatcher[d].due
    BY <2>2 DEF DispatcherType
  <2>4. dispatcher' = [dispatcher EXCEPT ![d] = after]
    BY <2>1
  <2> HIDE DEF after
  <2>5. dispatcher'[d] = after /\ \A e \in Dispatchers \ {d} : dispatcher'[e] = dispatcher[e]
    BY <2>1, <2>4
  <2>6. dispatcher' \in [Dispatchers -> DispatcherType]
    BY <2>1, <2>3, <2>4
  <2>7. HasWork'
    BY <2>1, <2>2, <2>3, <2>5 DEF HasWork
  <2> QED  BY <2>3, <2>5, <2>6, <2>7
<1>2. Item(d)' = Item(d) /\ Item(d) \in Facts
  BY <1>1, ItemIsDue DEF Item, Holding, MailInv
<1>3. ClaimStands(d)
  BY DEF MailInv
<1>4. ClaimStands(d)'
  BY <1>1, <1>2, <1>3 DEF ClaimStands
<1>5. LedgerTrue'
  BY <1>2, <1>3 DEF MailInv, LedgerTrue, ClaimStands
<1>6. MailTypeOK'
  BY <1>1 DEF MailInv, MailTypeOK
<1>7. \A e \in Dispatchers \ {d} : Holding(e) =>
         /\ Item(e) \in DOMAIN ledger'
         /\ ledger'[Item(e)] = ledger[Item(e)]
         /\ mails'[Item(e)] = mails[Item(e)]
         /\ Item(e) # Item(d)
  <2> SUFFICES ASSUME NEW e \in Dispatchers \ {d}, Holding(e)
               PROVE  /\ Item(e) \in DOMAIN ledger'
                      /\ ledger'[Item(e)] = ledger[Item(e)]
                      /\ mails'[Item(e)] = mails[Item(e)]
                      /\ Item(e) # Item(d)
    OBVIOUS
  <2>1. Item(e) # Item(d)
    BY OthersElsewhere
  <2>2. ClaimStands(e) /\ Item(e) \in Facts
    BY ItemIsDue DEF MailInv, Holding
  <2> QED  BY <2>1, <2>2 DEF ClaimStands
<1>8. (\A e \in Dispatchers : Holding(e)' => ClaimStands(e)') /\ OneHolder'
  BY <1>1, <1>2, <1>4, <1>7, OthersKeepTheirs
<1> QED  BY <1>1, <1>5, <1>6, <1>8 DEF MailInv

LEMMA SkipKeeps ==
    ASSUME MailInv, NEW d \in Dispatchers, Skip(d)
    PROVE  MailInv'
<1>1. Holding(d) /\ dispatcher[d].at = "skip" /\ ClaimStands(d)
  BY DEF Skip, At, Holding, MailInv
<1>2. mails[Item(d)] = 0
  BY <1>1 DEF ClaimStands
<1>3. mails' = mails /\ mails \in [Facts -> Nat]
  BY DEF Skip, MailInv, MailTypeOK
<1>4. /\ dispatcher' = [dispatcher EXCEPT ![d].at = "record", ![d].answer = "skipped"]
      /\ UNCHANGED <<facts, ledger, suppressed, dispatches>>
  BY DEF Skip
<1>5. /\ mails'[Item(d)] <= 1 /\ mails'[Item(d)] = 0
      /\ mails' \in [Facts -> Nat]
      /\ \A f \in Facts \ {Item(d)} : mails'[f] = mails[f]
  BY <1>2, <1>3
<1>6. "skipped" \in Recordable /\ "skipped" # "sent"
  BY DEF Recordable
<1> QED  BY <1>1, <1>4, <1>5, <1>6, ToRecord

LEMMA SendKeeps ==
    ASSUME MailInv, NEW d \in Dispatchers, Send(d)
    PROVE  MailInv'
<1>1. Holding(d) /\ dispatcher[d].at = "send" /\ ClaimStands(d) /\ Item(d) \in Facts
  BY ItemIsDue DEF Send, At, Holding, MailInv
<1>2. mails[Item(d)] = 0 /\ mails \in [Facts -> Nat]
  BY <1>1 DEF ClaimStands, MailInv, MailTypeOK
<1>3. PICK accepted \in BOOLEAN :
         /\ mails' = [mails EXCEPT ![Item(d)] = @ + (IF accepted THEN 1 ELSE 0)]
         /\ \E answer \in {IF accepted THEN "sent" ELSE "failed", "unknown"} :
              dispatcher' = [dispatcher EXCEPT ![d].at = "record", ![d].answer = answer]
  BY DEF Send
<1>4. PICK answer \in {IF accepted THEN "sent" ELSE "failed", "unknown"} :
         dispatcher' = [dispatcher EXCEPT ![d].at = "record", ![d].answer = answer]
  BY <1>3
<1>5. /\ mails' \in [Facts -> Nat]
      /\ \A f \in Facts \ {Item(d)} : mails'[f] = mails[f]
      /\ mails'[Item(d)] = IF accepted THEN 1 ELSE 0
  BY <1>1, <1>2, <1>3
<1>6. /\ answer \in Recordable
      /\ answer = "sent" => accepted
      /\ answer \in {"skipped", "failed"} => ~accepted
  BY <1>4 DEF Recordable
<1>7. UNCHANGED <<facts, ledger, suppressed, dispatches>>
  BY DEF Send
<1>8. /\ mails'[Item(d)] <= 1
      /\ answer = "sent" => mails'[Item(d)] = 1
      /\ answer \in {"skipped", "failed"} => mails'[Item(d)] = 0
  BY <1>5, <1>6
<1> QED  BY <1>1, <1>4, <1>5, <1>6, <1>7, <1>8, ToRecord

\* The row says what became of the mail, and nobody holds it any more.
LEMMA AnswerRecorded ==
    ASSUME MailInv, NEW d \in Dispatchers, Record(d)
    PROVE  MailInv'
<1>1. /\ Holding(d) /\ dispatcher[d].at = "record" /\ ClaimStands(d)
      /\ Item(d) \in Facts /\ dispatcher[d].answer \in Recordable
  BY ItemIsDue DEF Record, At, Holding, MailInv, MailTypeOK, DispatcherType
<1>2. /\ Row(Item(d), dispatcher[d].answer) /\ Past(d)
      /\ UNCHANGED <<facts, suppressed, mails, dispatches>>
  BY <1>1 DEF Record, ClaimStands
<1>3. /\ dispatcher' \in [Dispatchers -> DispatcherType] /\ HasWork' /\ ~Holding(d)'
      /\ \A e \in Dispatchers \ {d} : dispatcher'[e] = dispatcher[e]
  BY <1>1, <1>2, PastHolds
<1>4. /\ DOMAIN ledger' = DOMAIN ledger
      /\ ledger'[Item(d)] = dispatcher[d].answer
      /\ \A f \in DOMAIN ledger \ {Item(d)} : ledger'[f] = ledger[f]
  BY <1>1, <1>2 DEF Row, ClaimStands
<1>5. LedgerTrue'
  BY <1>1, <1>2, <1>4 DEF MailInv, LedgerTrue, ClaimStands, Recordable
<1>6. MailTypeOK'
  BY <1>1, <1>2, <1>3, <1>4 DEF MailInv, MailTypeOK, MailStatuses
<1>7. \A e \in Dispatchers \ {d} : Holding(e) =>
         /\ Item(e) \in DOMAIN ledger'
         /\ ledger'[Item(e)] = ledger[Item(e)]
         /\ mails'[Item(e)] = mails[Item(e)]
  BY <1>1, <1>2, <1>4, OthersElsewhere DEF MailInv, ClaimStands
<1>8. (\A e \in Dispatchers : Holding(e)' => ClaimStands(e)') /\ OneHolder'
  BY <1>3, <1>7, OthersKeepTheirs
<1> QED  BY <1>3, <1>5, <1>6, <1>8 DEF MailInv

LEMMA DieKeeps ==
    ASSUME MailInv, NEW d \in Dispatchers, Die(d)
    PROVE  MailInv'
<1>1. /\ dispatcher'[d] = Idle
      /\ \A e \in Dispatchers \ {d} : dispatcher'[e] = dispatcher[e]
      /\ dispatcher' \in [Dispatchers -> DispatcherType]
  BY DEF Die, Idle, MailInv, MailTypeOK, DispatcherType, Recordable
<1>2. HasWork' /\ ~Holding(d)'
  BY <1>1 DEF MailInv, HasWork, Idle, Holding
<1>3. MailTypeOK' /\ LedgerTrue'
  BY <1>1 DEF Die, MailInv, MailTypeOK, LedgerTrue
<1>4. (\A e \in Dispatchers : Holding(e)' => ClaimStands(e)') /\ OneHolder'
  <2>1. \A e \in Dispatchers \ {d} : Holding(e) =>
           /\ Item(e) \in DOMAIN ledger'
           /\ ledger'[Item(e)] = ledger[Item(e)]
           /\ mails'[Item(e)] = mails[Item(e)]
    BY DEF MailInv, ClaimStands, Die
  <2> QED  BY <1>1, <1>2, <2>1, OthersKeepTheirs
<1> QED  BY <1>2, <1>3, <1>4 DEF MailInv

\* A step that leaves the ledger, the mails and the dispatchers alone.
LEMMA ElsewhereKeeps ==
    ASSUME MailInv, UNCHANGED <<ledger, mails, dispatcher, dispatches>>,
           facts' \subseteq Facts, suppressed' \in BOOLEAN
    PROVE  MailInv'
<1>1. MailTypeOK' /\ HasWork' /\ LedgerTrue'
  BY DEF MailInv, MailTypeOK, HasWork, LedgerTrue
<1>2. OneHolder' /\ \A d \in Dispatchers : Holding(d)' => ClaimStands(d)'
  BY DEF MailInv, OneHolder, Holding, ClaimStands, Item
<1> QED  BY <1>1, <1>2 DEF MailInv

-------------------------------------------------------------------------------

LEMMA MailStepKeeps == MailInv /\ [MailNext]_mailVars => MailInv'
<1> SUFFICES ASSUME MailInv, [MailNext]_mailVars  PROVE MailInv'
  OBVIOUS
<1>1. ASSUME NEW f \in Facts, RecordFact(f)  PROVE MailInv'
  BY <1>1, ElsewhereKeeps DEF RecordFact, MailInv, MailTypeOK
<1>2. CASE Suppress
  BY <1>2, ElsewhereKeeps DEF Suppress, MailInv, MailTypeOK
<1>3. ASSUME NEW d \in Dispatchers, MailStep(d)  PROVE MailInv'
  BY <1>3, DispatchKeeps, ClaimSuppressedKeeps, ClaimCleanKeeps, InsertKeeps, SkipKeeps,
     SendKeeps, AnswerRecorded, DieKeeps DEF MailStep
<1>4. CASE UNCHANGED mailVars
  BY <1>4, ElsewhereKeeps DEF mailVars, MailInv, MailTypeOK
<1> QED  BY <1>1, <1>2, <1>3, <1>4 DEF MailNext

\* The facts, the ledger and the dispatchers keep their types.
THEOREM MailTypeCorrect == MailSpec => []MailTypeOK
<1>1. MailInv => MailTypeOK
  BY DEF MailInv
<1> QED  BY <1>1, MailInit_MailInv, MailStepKeeps, PTL DEF MailSpec

\* However many dispatchers overlap and die, no fact is mailed twice and no row
\* of the ledger lies about its mail.
THEOREM LedgerNeverLies == MailSpec => []LedgerTrue
<1>1. MailInv => LedgerTrue
  BY DEF MailInv
<1> QED  BY <1>1, MailInit_MailInv, MailStepKeeps, PTL DEF MailSpec

-------------------------------------------------------------------------------
(* The Outbox of pushes (core/outbox).                                         *)

Pushed == heard \cup unread

\* What a sweep is about to stamp is backed, and what a flush is about to mark as
\* sent was sent.
SweepIsBacked == sweep.at = "stamp" => sweep.news \subseteq Pushed \cup Named
FlushIsBacked ==
    flush.at = "mark" /\ flush.sent => outbox[flush.row].news \subseteq Pushed

PushInv == PushTypeOK /\ StampIsBacked /\ SweepIsBacked /\ FlushIsBacked

-------------------------------------------------------------------------------
(* The outbox tab: rows are added and their news never changes.                *)

LEMMA RowSet ==
    ASSUME outbox \in Seq(OutboxRow), NEW i \in DOMAIN outbox, NEW row \in OutboxRow,
           row.news = outbox[i].news, SetRow(i, row)
    PROVE  /\ outbox' \in Seq(OutboxRow)
           /\ DOMAIN outbox' = DOMAIN outbox
           /\ outbox'[i] = row
           /\ \A j \in DOMAIN outbox : j # i => outbox'[j] = outbox[j]
           /\ \A j \in DOMAIN outbox : outbox'[j].news = outbox[j].news
           /\ Named' = Named
<1>1. outbox' = [outbox EXCEPT ![i] = row]
  BY DEF SetRow
<1>2. /\ DOMAIN outbox' = DOMAIN outbox
      /\ outbox'[i] = row
      /\ \A j \in DOMAIN outbox : j # i => outbox'[j] = outbox[j]
  BY <1>1
<1>3. outbox' \in Seq(OutboxRow)
  BY <1>1
<1>4. \A j \in DOMAIN outbox : outbox'[j].news = outbox[j].news
  BY <1>2
<1> QED  BY <1>2, <1>3, <1>4 DEF Named

LEMMA RowIsARow ==
    ASSUME outbox \in Seq(OutboxRow), NEW i \in DOMAIN outbox
    PROVE  outbox[i] \in OutboxRow
  OBVIOUS

LEMMA EnqueuedGrows ==
    ASSUME outbox \in Seq(OutboxRow), NEW news \in SUBSET Roles, outbox' = Enqueued(news)
    PROVE  /\ outbox' \in Seq(OutboxRow)
           /\ DOMAIN outbox \subseteq DOMAIN outbox'
           /\ \A i \in DOMAIN outbox : outbox'[i] = outbox[i]
           /\ \A i \in DOMAIN outbox' \ DOMAIN outbox : outbox'[i].outcome = "open"
           /\ Named' = Named \cup news
<1> DEFINE row == [news |-> news, wake |-> TRUE, tonight |-> TRUE,
                   attempts |-> 0, outcome |-> "open"]
<1>1. CASE \E i \in DOMAIN outbox :
              outbox[i].outcome = "open" /\ outbox[i].tonight /\ outbox[i].news = news
  <2>1. outbox' = outbox
    BY <1>1 DEF Enqueued
  <2> QED  BY <1>1, <2>1 DEF Named
<1>2. CASE ~\E i \in DOMAIN outbox :
              outbox[i].outcome = "open" /\ outbox[i].tonight /\ outbox[i].news = news
  <2>1. outbox' = Append(outbox, row)
    BY <1>2 DEF Enqueued
  <2>2. row \in OutboxRow
    BY DEF OutboxRow, Outcomes
  <2>3. row.news = news /\ row.outcome = "open"
    OBVIOUS
  <2> HIDE DEF row
  <2>4. /\ outbox' \in Seq(OutboxRow)
        /\ DOMAIN outbox' = DOMAIN outbox \cup {Len(outbox) + 1}
        /\ \A i \in DOMAIN outbox : outbox'[i] = outbox[i]
        /\ outbox'[Len(outbox) + 1] = row
    BY <2>1, <2>2
  <2> QED  BY <2>3, <2>4 DEF Named
<1> QED  BY <1>1, <1>2

\* One more attempt leaves a row of the same news, sent only if it was.
LEMMA TriedIsARow ==
    ASSUME NEW row \in OutboxRow, NEW again \in BOOLEAN
    PROVE  /\ Tried(row, again) \in OutboxRow
           /\ Tried(row, again).news = row.news
           /\ Tried(row, again).outcome = "sent" => row.outcome = "sent"
<1> DEFINE attempts == row.attempts + 1
<1>1. attempts \in Nat /\ "abandoned" \in Outcomes
  BY DEF OutboxRow, Outcomes
<1> HIDE DEF attempts
<1>2. CASE Tried(row, again) = [row EXCEPT !.attempts = attempts, !.outcome = "abandoned"]
  BY <1>1, <1>2 DEF OutboxRow
<1>3. CASE Tried(row, again) = [row EXCEPT !.attempts = attempts, !.wake = again]
  BY <1>1, <1>3 DEF OutboxRow
<1> QED  BY <1>2, <1>3 DEF Tried, attempts

-------------------------------------------------------------------------------
(* Steps that change one part only.                                            *)

LEMMA PushInit_PushInv == PushInit => PushInv
<1> SUFFICES ASSUME PushInit PROVE PushInv
  OBVIOUS
<1>1. feed \in Histories /\ <<>> \in Histories
  <2>1. feed \in [{} -> FeedStatuses] /\ <<>> \in [{} -> FeedStatuses]
    BY DEF PushInit
  <2> QED  BY <2>1 DEF Histories
<1>2. sweep \in SweepRecord
  BY <1>1 DEF PushInit, IdleSweep, SweepRecord
<1>3. flush \in FlushRecord /\ flush.todo = {} /\ flush.at = "idle"
  BY DEF PushInit, IdleFlush, FlushRecord
<1>4. outbox = <<>> /\ sweep.at = "idle" /\ outbox \in Seq(OutboxRow)
  BY DEF PushInit, IdleSweep
<1>5. PushTypeOK
  BY <1>1, <1>2, <1>3, <1>4 DEF PushInit, PushTypeOK, AboutOneRow
<1>6. StampIsBacked
  BY <1>4 DEF PushInit, StampIsBacked
<1> QED  BY <1>3, <1>4, <1>5, <1>6 DEF PushInv, SweepIsBacked, FlushIsBacked

\* What was told stays told.
LEMMA WireTells ==
    ASSUME PushTypeOK, NEW news \in SUBSET Roles, NEW sent \in BOOLEAN, Wire(news, sent)
    PROVE  /\ heard' \subseteq Roles /\ unread' \subseteq Roles
           /\ Pushed \subseteq Pushed'
           /\ sent => news \subseteq Pushed'
  BY DEF Wire, PushTypeOK, Pushed

LEMMA IdleIsASweep == IdleSweep \in SweepRecord /\ IdleSweep.at = "idle"
<1>1. <<>> \in Histories
  <2>1. <<>> \in [{} -> FeedStatuses]
    OBVIOUS
  <2> QED  BY <2>1 DEF Histories
<1> QED  BY <1>1 DEF IdleSweep, SweepRecord

LEMMA IdleIsAFlush == IdleFlush \in FlushRecord /\ IdleFlush.at = "idle" /\ IdleFlush.todo = {}
  BY DEF IdleFlush, FlushRecord

\* A step of the sweep that adds to the feed, the stamps and the tab at most, and
\* takes nothing back.
LEMMA SweepKeeps ==
    ASSUME PushInv, sweep' \in SweepRecord, SweepIsBacked',
           UNCHANGED <<board, policy, flush, heard, unread>>,
           seeded' \subseteq Boards, feed' \in Histories,
           stamped' \subseteq Roles, stamped' \subseteq (Pushed \cup Named)',
           outbox' \in Seq(OutboxRow),
           DOMAIN outbox \subseteq DOMAIN outbox',
           \A i \in DOMAIN outbox : outbox'[i] = outbox[i],
           \A i \in DOMAIN outbox' \ DOMAIN outbox : outbox'[i].outcome = "open"
    PROVE  PushInv'
<1>1. PushTypeOK'
  BY DEF PushInv, PushTypeOK, policy
<1>2. StampIsBacked'
  BY DEF PushInv, StampIsBacked, Pushed
<1>3. FlushIsBacked'
  BY DEF PushInv, PushTypeOK, FlushIsBacked, Pushed, AboutOneRow
<1> QED  BY <1>1, <1>2, <1>3 DEF PushInv

LEMMA NothingNew ==
    ASSUME PushInv, UNCHANGED outbox
    PROVE  /\ outbox' \in Seq(OutboxRow)
           /\ DOMAIN outbox \subseteq DOMAIN outbox'
           /\ \A i \in DOMAIN outbox : outbox'[i] = outbox[i]
           /\ \A i \in DOMAIN outbox' \ DOMAIN outbox : outbox'[i].outcome = "open"
           /\ Named' = Named
  BY DEF PushInv, PushTypeOK, Named

LEMMA StampsStay ==
    ASSUME PushInv, UNCHANGED <<stamped, heard, unread>>, Named \subseteq Named'
    PROVE  stamped' \subseteq Roles /\ stamped' \subseteq (Pushed \cup Named)'
  BY DEF PushInv, PushTypeOK, StampIsBacked, Pushed

LEMMA ASweepStep ==
    ASSUME PushInv, SweepStep
    PROVE  PushInv'
<1> USE DEF PushInv
<1>0. /\ sweep \in SweepRecord /\ feed \in Histories /\ seeded \subseteq Boards
      /\ stamped \subseteq Roles /\ IdleSweep \in SweepRecord /\ IdleSweep.at = "idle"
      /\ outbox \in Seq(OutboxRow)
  BY IdleIsASweep DEF PushTypeOK
<1>1. CASE StartSweep
  <2>1. sweep' \in SweepRecord /\ sweep'.at = "boards"
    BY <1>0, <1>1 DEF StartSweep, IdleSweep, SweepRecord, PushTypeOK
  <2> QED  BY <1>0, <1>1, <2>1, NothingNew, StampsStay, SweepKeeps
           DEF StartSweep, SweepIsBacked
<1>2. ASSUME NEW b \in Boards, SweepBoard(b)  PROVE PushInv'
  <2>1. PICK closed :
          /\ feed' = Reconciled(b, {r \in board : BoardOf[r] = b}, closed).feed
          /\ sweep' = [sweep EXCEPT !.todo = @ \ {b},
                 !.new = @ \cup Reconciled(b, {r \in board : BoardOf[r] = b}, closed).new]
    BY <1>2 DEF SweepBoard
  <2>2. feed' \in Histories
    <3> DEFINE fresh == {r \in board : BoardOf[r] = b} \ DOMAIN sweep.history
    <3>1. DOMAIN feed \cup fresh \in SUBSET Roles
      BY DEF PushTypeOK, Histories
    <3>2. \A r \in DOMAIN feed : feed[r] \in FeedStatuses
      BY <1>0 DEF Histories
    <3>3. feed' \in [DOMAIN feed \cup fresh -> FeedStatuses]
      BY <2>1, <3>2 DEF Reconciled, FeedStatuses
    <3> QED  BY <3>1, <3>3 DEF Histories
  <2>3. sweep' \in SweepRecord /\ sweep'.at = "boards"
    BY <1>0, <1>2, <2>1 DEF SweepBoard, SweepAt, Reconciled, SweepRecord, PushTypeOK
  <2> QED  BY <1>0, <1>2, <2>2, <2>3, NothingNew, StampsStay, SweepKeeps
           DEF SweepBoard, SweepIsBacked
<1>3. ASSUME NEW b \in Boards, SkipBoard(b)  PROVE PushInv'
  <2>1. sweep' \in SweepRecord /\ sweep'.at = "boards"
    BY <1>0, <1>3 DEF SkipBoard, SweepAt, SweepRecord
  <2> QED  BY <1>0, <1>3, <2>1, NothingNew, StampsStay, SweepKeeps
           DEF SkipBoard, SweepIsBacked
<1>4. CASE Push
  <2>1. sweep' \in SweepRecord /\ sweep'.at # "stamp"
    BY <1>0, <1>4 DEF Push, EndSweep, SweepRecord
  <2> QED  BY <1>0, <1>4, <2>1, NothingNew, StampsStay, SweepKeeps
           DEF Push, SweepIsBacked
<1>5. CASE SendNow
  <2>1. PICK sent \in BOOLEAN : /\ Wire(sweep.news, sent)
                                /\ IF sent THEN Told ELSE EndSweep
    BY <1>5 DEF SendNow
  <2>2. sweep.news \in SUBSET Roles
    BY <1>0 DEF SweepRecord
  <2>3. /\ heard' \subseteq Roles /\ unread' \subseteq Roles
        /\ Pushed \subseteq Pushed'
        /\ sent => sweep.news \subseteq Pushed'
    BY <2>1, <2>2, WireTells
  <2>4. /\ sweep' \in SweepRecord
        /\ sweep'.at = "stamp" => sent /\ sweep'.news = sweep.news
    BY <1>0, <2>1 DEF Told, EndSweep, SweepRecord
  <2>5. UNCHANGED <<board, feed, seeded, stamped, outbox, policy, flush>> /\ Named' = Named
    BY <1>5 DEF SendNow, Named
  <2>6. PushTypeOK'
    BY <2>3, <2>4, <2>5 DEF PushTypeOK, policy
  <2>7. StampIsBacked' /\ SweepIsBacked' /\ FlushIsBacked'
    BY <2>3, <2>4, <2>5 DEF StampIsBacked, SweepIsBacked, FlushIsBacked, Pushed
  <2> QED  BY <2>6, <2>7
<1>6. CASE Hold
  <2>1. sweep.news \in SUBSET Roles /\ sweep' \in SweepRecord /\ sweep'.news = sweep.news
    BY <1>0, <1>6 DEF Hold, Told, SweepRecord
  <2>2. outbox' = Enqueued(sweep.news)
    BY <1>6 DEF Hold
  <2>3. /\ outbox' \in Seq(OutboxRow)
        /\ DOMAIN outbox \subseteq DOMAIN outbox'
        /\ \A i \in DOMAIN outbox : outbox'[i] = outbox[i]
        /\ \A i \in DOMAIN outbox' \ DOMAIN outbox : outbox'[i].outcome = "open"
        /\ Named' = Named \cup sweep.news
    BY <1>0, <2>1, <2>2, EnqueuedGrows
  <2>4. SweepIsBacked'
    BY <2>1, <2>3 DEF SweepIsBacked
  <2>5. UNCHANGED <<board, policy, flush, feed, seeded, stamped, heard, unread>>
    BY <1>6 DEF Hold
  <2> QED  BY <1>0, <2>1, <2>3, <2>4, <2>5, StampsStay, SweepKeeps
<1>7. CASE HoldFails
  BY <1>0, <1>7, NothingNew, StampsStay, SweepKeeps DEF HoldFails, EndSweep, SweepIsBacked
<1>8. ASSUME NEW r \in Roles, Stamp(r)  PROVE PushInv'
  <2>1. r \in sweep.news /\ sweep.news \subseteq Pushed \cup Named
    BY <1>8 DEF Stamp, SweepAt, SweepIsBacked
  <2>2. Pushed' = Pushed /\ Named' = Named
    BY <1>8 DEF Stamp, Pushed, Named
  <2>3. stamped' \subseteq Roles /\ stamped' \subseteq (Pushed \cup Named)'
    BY <1>0, <1>8, <2>1, <2>2 DEF Stamp, StampIsBacked, Pushed
  <2>4. sweep' \in SweepRecord /\ SweepIsBacked'
    <3>1. CASE sweep' = IdleSweep
      BY <1>0, <3>1 DEF SweepIsBacked
    <3>2. CASE sweep' = [sweep EXCEPT !.news = @ \ {r}]
      BY <1>0, <2>1, <2>2, <3>2 DEF SweepRecord, SweepIsBacked
    <3> QED  BY <1>8, <3>1, <3>2 DEF Stamp, EndSweep
  <2> QED  BY <1>0, <1>8, <2>3, <2>4, NothingNew, SweepKeeps DEF Stamp
<1>9. CASE SweepDies
  BY <1>0, <1>9, NothingNew, StampsStay, SweepKeeps DEF SweepDies, EndSweep, SweepIsBacked
<1> QED  BY <1>1, <1>2, <1>3, <1>4, <1>5, <1>6, <1>7, <1>8, <1>9 DEF SweepStep

-------------------------------------------------------------------------------

\* A step of the flush that leaves the tab alone and comes to hold no send.
LEMMA FlushKeeps ==
    ASSUME PushInv, flush' \in FlushRecord, flush'.todo \subseteq flush.todo,
           flush'.at \in AboutOneRow => flush'.row \in DOMAIN outbox,
           flush'.at # "mark",
           UNCHANGED <<board, feed, seeded, stamped, outbox, policy, sweep, heard, unread>>
    PROVE  PushInv'
<1>1. Named' = Named
  BY DEF Named
<1>2. PushTypeOK'
  BY DEF PushInv, PushTypeOK, policy
<1>3. StampIsBacked' /\ SweepIsBacked' /\ FlushIsBacked'
  BY <1>1 DEF PushInv, StampIsBacked, SweepIsBacked, FlushIsBacked, Pushed
<1> QED  BY <1>2, <1>3 DEF PushInv

LEMMA NextRowIsAFlush ==
    ASSUME flush \in FlushRecord, NextRow
    PROVE  /\ flush' \in FlushRecord /\ flush'.todo \subseteq flush.todo
           /\ flush'.at \in {"idle", "next"}
<1>1. CASE flush' = IdleFlush
  BY <1>1, IdleIsAFlush
<1>2. CASE flush' = [flush EXCEPT !.at = "next"]
  BY <1>2 DEF FlushRecord
<1> QED  BY <1>1, <1>2 DEF NextRow

\* The flush records what became of its row, which is not sent, or was, or what it
\* names has been pushed.
LEMMA RowRecorded ==
    ASSUME PushInv, flush.at \in AboutOneRow, NextRow,
           NEW row \in OutboxRow, SetRow(Current, row),
           row.news = outbox[Current].news,
           row.outcome = "sent" => row.news \subseteq Pushed,
           UNCHANGED <<board, feed, seeded, stamped, policy, sweep, heard, unread>>
    PROVE  PushInv'
<1> USE DEF PushInv
<1>1. Current \in DOMAIN outbox /\ outbox \in Seq(OutboxRow) /\ flush \in FlushRecord
  BY DEF PushTypeOK, Current
<1>2. /\ outbox' \in Seq(OutboxRow)
      /\ DOMAIN outbox' = DOMAIN outbox
      /\ outbox'[Current] = row
      /\ \A j \in DOMAIN outbox : j # Current => outbox'[j] = outbox[j]
      /\ Named' = Named
  BY <1>1, RowSet
<1>3. /\ flush' \in FlushRecord /\ flush'.todo \subseteq flush.todo
      /\ flush'.at \in {"idle", "next"}
  BY <1>1, NextRowIsAFlush
<1>4. PushTypeOK'
  BY <1>2, <1>3 DEF PushTypeOK, policy, AboutOneRow
<1>5. StampIsBacked'
  BY <1>2 DEF StampIsBacked, Pushed
<1>6. SweepIsBacked' /\ FlushIsBacked'
  BY <1>2, <1>3 DEF SweepIsBacked, FlushIsBacked, Pushed
<1> QED  BY <1>4, <1>5, <1>6

LEMMA AFlushStep ==
    ASSUME PushInv, FlushWorks \/ MarkFails \/ FlushDies
    PROVE  PushInv'
<1> USE DEF PushInv
<1>0. /\ flush \in FlushRecord /\ outbox \in Seq(OutboxRow)
      /\ flush.at \in AboutOneRow => /\ Current \in DOMAIN outbox
                                     /\ outbox[Current] \in OutboxRow
  BY RowIsARow DEF PushTypeOK, Current
<1>1. CASE StartFlush
  <2>1. flush' \in FlushRecord /\ flush'.todo \subseteq DOMAIN outbox /\ flush'.at = "next"
    <3>1. DueRows \subseteq DOMAIN outbox /\ DueRows \subseteq Nat
      BY <1>0 DEF DueRows
    <3> QED  BY <1>1, <3>1 DEF StartFlush, FlushRecord, PushTypeOK
  <2>2. UNCHANGED <<board, feed, seeded, stamped, outbox, policy, sweep, heard, unread>>
        /\ Named' = Named
    BY <1>1 DEF StartFlush, Named
  <2>3. PushTypeOK'
    BY <2>1, <2>2 DEF PushTypeOK, policy, AboutOneRow
  <2> QED  BY <2>1, <2>2, <2>3
           DEF StampIsBacked, SweepIsBacked, FlushIsBacked, Pushed
<1>2. ASSUME NEW i \in DOMAIN outbox, FlushRow(i)  PROVE PushInv'
  <2>1. /\ flush' \in FlushRecord /\ flush'.todo \subseteq flush.todo
        /\ flush'.row = i /\ flush'.at # "mark"
    <3>1. i \in Nat
      BY <1>0
    <3>2. flush' = [flush EXCEPT !.todo = @ \ {i}, !.row = i,
                      !.at = IF flush.email THEN "drop"
                             ELSE IF flush.quiet THEN "defer" ELSE "send"]
      BY <1>2 DEF FlushRow
    <3> QED  BY <1>0, <3>1, <3>2 DEF FlushRecord, AboutOneRow
  <2> QED  BY <1>2, <2>1, FlushKeeps DEF FlushRow
<1>3. CASE Drop
  <2>1. [outbox[Current] EXCEPT !.outcome = "dropped"] \in OutboxRow
    BY <1>0, <1>3 DEF Drop, FlushAt, AboutOneRow, OutboxRow, Outcomes
  <2> QED  BY <1>0, <1>3, <2>1, RowRecorded DEF Drop, FlushAt, AboutOneRow, OutboxRow
<1>4. ASSUME FlushAt("defer") \/ FlushAt("mark"), NEW again \in BOOLEAN,
             SetRow(Current, Tried(outbox[Current], again)), NextRow,
             UNCHANGED <<board, feed, seeded, stamped, policy, sweep, heard, unread>>
      PROVE  PushInv'
  <2>1. flush.at \in AboutOneRow
    BY <1>4 DEF FlushAt, AboutOneRow
  <2>2. /\ Tried(outbox[Current], again) \in OutboxRow
        /\ Tried(outbox[Current], again).news = outbox[Current].news
        /\ Tried(outbox[Current], again).outcome = "sent" => outbox[Current].outcome = "sent"
    BY <1>0, <2>1, TriedIsARow
  <2>3. outbox[Current].outcome = "sent" => outbox[Current].news \subseteq Pushed
    BY <1>0, <2>1 DEF StampIsBacked, Pushed
  <2> QED  BY <1>4, <2>1, <2>2, <2>3, RowRecorded
<1>5. CASE Defer
  BY <1>4, <1>5 DEF Defer
<1>6. CASE FlushSend
  <2>1. PICK sent \in BOOLEAN : /\ Wire(outbox[Current].news, sent)
                                /\ flush' = [flush EXCEPT !.at = "mark", !.sent = sent]
    BY <1>6 DEF FlushSend
  <2>2. Current \in DOMAIN outbox /\ outbox[Current].news \in SUBSET Roles
    BY <1>0, <1>6 DEF FlushSend, FlushAt, AboutOneRow, OutboxRow
  <2>3. /\ heard' \subseteq Roles /\ unread' \subseteq Roles
        /\ Pushed \subseteq Pushed'
        /\ sent => outbox[Current].news \subseteq Pushed'
    BY <2>1, <2>2, WireTells
  <2>4. /\ flush' \in FlushRecord /\ flush'.todo = flush.todo
        /\ flush'.row = Current /\ flush'.sent = sent
    BY <1>0, <2>1 DEF FlushRecord, AboutOneRow, Current
  <2>5. UNCHANGED <<board, feed, seeded, stamped, outbox, policy, sweep>> /\ Named' = Named
    BY <1>6 DEF FlushSend, Named
  <2>6. PushTypeOK'
    BY <2>2, <2>3, <2>4, <2>5 DEF PushTypeOK, policy
  <2>7. StampIsBacked' /\ SweepIsBacked' /\ FlushIsBacked'
    BY <2>3, <2>4, <2>5 DEF StampIsBacked, SweepIsBacked, FlushIsBacked, Pushed
  <2> QED  BY <2>6, <2>7
<1>7. CASE Mark /\ flush.sent
  <2> DEFINE row == [outbox[Current] EXCEPT !.attempts = @ + 1, !.outcome = "sent"]
  <2>1. flush.at \in AboutOneRow
    BY <1>7 DEF Mark, FlushAt, AboutOneRow
  <2>2. row \in OutboxRow /\ row.news = outbox[Current].news
    <3>1. outbox[Current].attempts + 1 \in Nat /\ "sent" \in Outcomes
      BY <1>0, <2>1 DEF OutboxRow, Outcomes
    <3> DEFINE attempts == outbox[Current].attempts + 1
    <3>2. row = [outbox[Current] EXCEPT !.attempts = attempts, !.outcome = "sent"]
      OBVIOUS
    <3> HIDE DEF attempts, row
    <3> QED  BY <1>0, <2>1, <3>1, <3>2 DEF OutboxRow, attempts
  <2>3. outbox[Current].news \subseteq Pushed
    BY <1>7 DEF Mark, FlushAt, FlushIsBacked, Current
  <2>4. SetRow(Current, row)
    BY <1>7 DEF Mark
  <2> HIDE DEF row
  <2> QED  BY <1>7, <2>1, <2>2, <2>3, <2>4, RowRecorded DEF Mark
<1>8. CASE Mark /\ ~flush.sent
  BY <1>4, <1>8 DEF Mark
<1>9. CASE MarkFails
  BY <1>0, <1>9, NextRowIsAFlush, FlushKeeps DEF MarkFails, AboutOneRow
<1>10. CASE FlushDies
  BY <1>0, <1>10, IdleIsAFlush, FlushKeeps DEF FlushDies, AboutOneRow
<1> QED  BY <1>1, <1>2, <1>3, <1>5, <1>6, <1>7, <1>8, <1>9, <1>10 DEF FlushWorks

\* The world takes no row, stamp or push back.
LEMMA AWorldStep ==
    ASSUME PushInv, World
    PROVE  PushInv'
<1> USE DEF PushInv
<1>1. /\ UNCHANGED <<feed, seeded, stamped, sweep, flush, heard, unread>>
      /\ board' \subseteq Roles /\ email' \in BOOLEAN /\ quiet' \in BOOLEAN
  BY DEF World, BoardMoves, UserMovesChannel, Wake, Nightfall, PushTypeOK, policy
<1>2. /\ outbox' \in Seq(OutboxRow)
      /\ DOMAIN outbox' = DOMAIN outbox
      /\ \A i \in DOMAIN outbox : /\ outbox'[i].news = outbox[i].news
                                /\ outbox'[i].outcome = outbox[i].outcome
  <2>1. CASE UNCHANGED outbox
    BY <2>1 DEF PushTypeOK
  <2>2. CASE Wake
    <3>1. outbox' = [i \in DOMAIN outbox |-> [outbox[i] EXCEPT !.wake = FALSE, !.tonight = FALSE]]
      BY <2>2 DEF Wake
    <3>2. \A i \in DOMAIN outbox : outbox[i] \in OutboxRow
      BY RowIsARow DEF PushTypeOK
    <3>3. \A i \in DOMAIN outbox :
             /\ [outbox[i] EXCEPT !.wake = FALSE, !.tonight = FALSE] \in OutboxRow
             /\ [outbox[i] EXCEPT !.wake = FALSE, !.tonight = FALSE].news = outbox[i].news
             /\ [outbox[i] EXCEPT !.wake = FALSE, !.tonight = FALSE].outcome = outbox[i].outcome
      BY <3>2 DEF OutboxRow
    <3>4. DOMAIN outbox = 1..Len(outbox) /\ Len(outbox) \in Nat
      BY DEF PushTypeOK
    <3>5. outbox' \in [1..Len(outbox) -> OutboxRow]
      BY <3>1, <3>3, <3>4
    <3>6. outbox' \in Seq(OutboxRow)
      BY <3>4, <3>5
    <3>7. /\ DOMAIN outbox' = DOMAIN outbox
          /\ \A i \in DOMAIN outbox : /\ outbox'[i].news = outbox[i].news
                                    /\ outbox'[i].outcome = outbox[i].outcome
      BY <3>1, <3>3
    <3> QED  BY <3>6, <3>7
  <2> QED  BY <2>1, <2>2 DEF World, BoardMoves, UserMovesChannel, Nightfall
<1>3. Named' = Named
  BY <1>2 DEF Named
<1>4. PushTypeOK'
  BY <1>1, <1>2 DEF PushTypeOK
<1> QED  BY <1>1, <1>2, <1>3, <1>4
         DEF StampIsBacked, SweepIsBacked, FlushIsBacked, PushTypeOK, AboutOneRow, Pushed

LEMMA PushStepKeeps == PushInv /\ [PushNext]_pushVars => PushInv'
<1> SUFFICES ASSUME PushInv, [PushNext]_pushVars PROVE PushInv'
  OBVIOUS
<1>1. CASE UNCHANGED pushVars
  <2>1. Named' = Named /\ Pushed' = Pushed
    BY <1>1 DEF pushVars, Named, Pushed
  <2> QED  BY <1>1, <2>1 DEF pushVars, policy, PushInv, PushTypeOK, StampIsBacked,
              SweepIsBacked, FlushIsBacked
<1>2. CASE PushNext
  BY <1>2, ASweepStep, AFlushStep, AWorldStep DEF PushNext
<1> QED  BY <1>1, <1>2

-------------------------------------------------------------------------------

\* The Feed, the Outbox tab, the sweep and the flush stay in their types.
THEOREM PushTypeCorrect == PushSpec => []PushTypeOK
<1>1. PushInv => PushTypeOK
  BY DEF PushInv
<1> QED  BY <1>1, PushInit_PushInv, PushStepKeeps, PTL DEF PushSpec

\* Whatever dies or fails between the hold, the push, the stamp and the flush: a
\* stamp in the Feed is backed by a push or by a row of the Outbox, and a row
\* closed as sent was sent (core/outbox.py, tracker/outbox.py).
THEOREM NoPushIsLost == PushSpec => []StampIsBacked
<1>1. PushInv => StampIsBacked
  BY DEF PushInv
<1> QED  BY <1>1, PushInit_PushInv, PushStepKeeps, PTL DEF PushSpec

-------------------------------------------------------------------------------
(* Applications sent for a person (autopilot).                                 *)


\* What is being handed to the provider has not been taken yet, and its stage is
\* in flight or was cancelled under the executor.
ExecutorTrue ==
    Submitting("submit") =>
        /\ ~stages[executor.stage].sent
        /\ stages[executor.stage].state \in {"submitting", "cancelled"}

AutopilotInv ==
    /\ AutopilotTypeOK
    /\ OneSlot(stages) /\ SentReached(stages)
    /\ ExecutorTrue

-------------------------------------------------------------------------------
(* What the triggers let through.                                               *)

LEMMA ArrowsAreStates == ASSUME NEW x  PROVE Arrows(x) \subseteq StageStates
  BY DEF Arrows, StageStates, Editable, Authorised, Committed, Released

\* An employer's copy stays in one of the states of Reached.
LEMMA ArrowsKeepReached ==
    ASSUME NEW x \in Reached, NEW y \in Arrows(x), x # "submitting" \/ y # "failed_retryable"
    PROVE  y \in Reached
  BY DEF Arrows, Reached, Committed

\* A stage that is written keeps its application, and holds the slot only if no
\* other one of its application does.
Fits(s, row) ==
    /\ row \in Stage
    /\ row.application = stages[s].application
    /\ row.state \in Occupying =>
          \A t \in Of(row.application) \ {s} : stages[t].state \notin Occupying
    /\ row.sent => row.state \in Reached

LEMMA Rewrite ==
    ASSUME AutopilotInv, NEW s \in StageIds, NEW row, Fits(s, row), stages' = With(s, row)
    PROVE  /\ StageIds' = StageIds /\ stages' \in [StageIds -> Stage]
           /\ stages'[s] = row /\ \A t \in StageIds \ {s} : stages'[t] = stages[t]
           /\ OneSlot(stages)' /\ SentReached(stages)'
<1>1. StageIds' = StageIds /\ stages'[s] = row
      /\ \A t \in StageIds \ {s} : stages'[t] = stages[t]
  BY DEF With, StageIds
<1>2. stages' \in [StageIds -> Stage]
  BY DEF With, StageIds, Fits, AutopilotInv, AutopilotTypeOK
<1>3. OneSlot(stages)'
  <2> SUFFICES ASSUME NEW t \in StageIds, NEW u \in StageIds, t # u,
                      stages'[t].application = stages'[u].application
               PROVE  stages'[t].state \notin Occupying \/ stages'[u].state \notin Occupying
    BY <1>1 DEF OneSlot, StageIds
  <2>1. CASE t # s /\ u # s
    BY <1>1, <2>1 DEF AutopilotInv, OneSlot, StageIds
  <2>2. CASE t = s
    <3>1. u \in Of(row.application) \ {s}
      BY <1>1, <2>2 DEF Of, StageIds
    <3> QED  BY <1>1, <2>2, <3>1 DEF Fits
  <2>3. CASE u = s
    <3>1. t \in Of(row.application) \ {s}
      BY <1>1, <2>3 DEF Of, StageIds
    <3> QED  BY <1>1, <2>3, <3>1 DEF Fits
  <2> QED  BY <2>1, <2>2, <2>3
<1>4. SentReached(stages)'
  BY <1>1 DEF SentReached, StageIds, Fits, AutopilotInv
<1> QED  BY <1>1, <1>2, <1>3, <1>4

\* The update that the triggers and the index let pass.
LEMMA PermittedFits ==
    ASSUME AutopilotInv, NEW s \in StageIds, NEW to, NEW approved \in Packages \cup {None},
           Permitted(s, to, approved),
           stages[s].sent => stages[s].state # "submitting" \/ to # "failed_retryable"
    PROVE  /\ Fits(s, MovedTo(s, to, approved))
           /\ MovedTo(s, to, approved).state = to
           /\ MovedTo(s, to, approved).sent = stages[s].sent
<1> DEFINE row == MovedTo(s, to, approved)
<1>1. stages[s] \in Stage
  BY DEF AutopilotInv, AutopilotTypeOK
<1>2. to \in StageStates
  BY ArrowsAreStates DEF Permitted
<1>3. row \in Stage /\ row.application = stages[s].application /\ row.state = to
      /\ row.sent = stages[s].sent
  <2> DEFINE then == IF to \in Editable THEN None ELSE approved
             version == stages[s].version + 1
  <2>1. then \in Packages \cup {None} /\ version \in Nat
    BY <1>1 DEF Stage
  <2>2. row = [stages[s] EXCEPT !.state = to, !.version = version, !.approved = then]
    BY DEF MovedTo
  <2> HIDE DEF then, version, row
  <2> QED  BY <1>1, <1>2, <2>1, <2>2 DEF Stage
<1>4. row.sent => row.state \in Reached
  BY <1>1, <1>3, ArrowsKeepReached DEF Permitted, AutopilotInv, SentReached, StageIds
<1> QED  BY <1>3, <1>4 DEF Fits, Permitted

-------------------------------------------------------------------------------
(* What a step does to the record, the requests and the executor.               *)

RequestsOK ==
    /\ request \in [Requests -> {None} \cup Request]
    /\ \A r \in Requests : Doing(r, "retry", "insert") => request[r].stage \in StageIds

LEMMA ARequest ==
    ASSUME AutopilotInv, NEW r \in Requests, request[r] # None
    PROVE  request[r] \in Request
  BY DEF AutopilotInv, AutopilotTypeOK

\* A request that is over leaves the others as they were.
LEMMA OverKeeps ==
    ASSUME AutopilotInv, NEW r \in Requests, Over(r), StageIds \subseteq StageIds'
    PROVE  RequestsOK'
  BY DEF AutopilotInv, AutopilotTypeOK, RequestsOK, Over, Doing

LEMMA RequestsStay ==
    ASSUME AutopilotInv, request' = request, StageIds' = StageIds
    PROVE  RequestsOK'
  BY DEF AutopilotInv, AutopilotTypeOK, RequestsOK, Doing

\* Everything the invariant says, from what a step can disturb.
LEMMA Together ==
    ASSUME RequestsOK', staged' \in 0..MaxStages, gestures' \in Nat,
           StageIds' \subseteq 1..staged', stages' \in [StageIds' -> Stage],
           executor' \in {None} \cup Execution', OneSlot(stages)', SentReached(stages)',
           ExecutorTrue'
    PROVE  AutopilotInv'
  BY DEF AutopilotInv, AutopilotTypeOK, RequestsOK

LEMMA ExecutorStays ==
    ASSUME AutopilotInv, executor' = executor, staged' \in {staged, staged + 1}
    PROVE  executor' \in {None} \cup Execution'
<1>1. staged \in Nat
  BY AutopilotAssumption DEF AutopilotInv, AutopilotTypeOK
<1>2. CASE executor = None
  BY <1>2
<1>3. CASE executor \in Execution
  <2>1. 1..staged \subseteq 1..staged'
    BY <1>1
  <2> QED  BY <1>3, <2>1 DEF Execution
<1> QED  BY <1>2, <1>3 DEF AutopilotInv, AutopilotTypeOK

\* A step that leaves the record and the executor alone.
LEMMA RecordStays ==
    ASSUME AutopilotInv, stages' = stages, staged' = staged, gestures' \in Nat,
           executor' = executor, RequestsOK'
    PROVE  AutopilotInv'
<1>1. OneSlot(stages)' /\ SentReached(stages)' /\ ExecutorTrue'
  BY DEF AutopilotInv, OneSlot, SentReached, ExecutorTrue, Submitting, StageIds
<1> QED  BY <1>1, ExecutorStays, Together DEF AutopilotInv, AutopilotTypeOK, StageIds

\* A request writes one stage. What the executor holds is at most cancelled.
LEMMA RequestWrites ==
    ASSUME AutopilotInv, NEW r \in Requests, NEW s \in StageIds, NEW row, Fits(s, row),
           stages' = With(s, row), Over(r), UNCHANGED <<executor, staged, gestures>>,
           stages[s].state \in {"submitting", "cancelled"} =>
              row.state \in {"submitting", "cancelled"} /\ row.sent = stages[s].sent
    PROVE  AutopilotInv'
<1>1. StageIds' = StageIds /\ stages' \in [StageIds -> Stage]
      /\ stages'[s] = row /\ (\A t \in StageIds \ {s} : stages'[t] = stages[t])
      /\ OneSlot(stages)' /\ SentReached(stages)'
  BY Rewrite
<1>2. ExecutorTrue'
  BY <1>1 DEF AutopilotInv, ExecutorTrue, Submitting
<1>3. RequestsOK'
  BY <1>1, OverKeeps
<1> QED
  BY <1>1, <1>2, <1>3, ExecutorStays, Together DEF AutopilotInv, AutopilotTypeOK

\* A new attempt where the slot is free.
LEMMA Inserted ==
    ASSUME AutopilotInv, NEW r \in Requests, NEW row \in Stage, ~row.sent,
           ~Holds(row.application), staged < MaxStages, staged' = staged + 1,
           stages' = With(staged + 1, row), Over(r), UNCHANGED <<executor, gestures>>
    PROVE  AutopilotInv'
<1> DEFINE s == staged + 1
<1>1. s \notin StageIds /\ s \in 1..staged' /\ staged' \in 0..MaxStages
      /\ StageIds \subseteq 1..staged'
  BY AutopilotAssumption DEF AutopilotInv, AutopilotTypeOK
<1>2. StageIds' = StageIds \cup {s} /\ stages'[s] = row
      /\ \A t \in StageIds : stages'[t] = stages[t]
  <2> HIDE DEF s
  <2> QED  BY <1>1 DEF With, StageIds, s
<1> HIDE DEF s
<1>3. stages' \in [StageIds' -> Stage]
  <2>1. stages' = [t \in StageIds' |-> IF t = s THEN row ELSE stages[t]]
    BY <1>2 DEF With, s
  <2> QED  BY <1>2, <2>1 DEF AutopilotInv, AutopilotTypeOK
<1>4. OneSlot(stages)'
  <2> SUFFICES ASSUME NEW t \in StageIds', NEW u \in StageIds', t # u,
                      stages'[t].application = stages'[u].application
               PROVE  stages'[t].state \notin Occupying \/ stages'[u].state \notin Occupying
    BY DEF OneSlot, StageIds
  <2>1. CASE t = s
    BY <1>2, <2>1 DEF Holds, Of
  <2>2. CASE u = s
    BY <1>2, <2>2 DEF Holds, Of
  <2>3. CASE t # s /\ u # s
    BY <1>2, <2>3 DEF AutopilotInv, OneSlot, StageIds
  <2> QED  BY <2>1, <2>2, <2>3
<1>5. SentReached(stages)'
  BY <1>2 DEF SentReached, StageIds, AutopilotInv
<1>6. ExecutorTrue'
  <2> SUFFICES ASSUME Submitting("submit")'
               PROVE  /\ ~stages'[executor'.stage].sent
                      /\ stages'[executor'.stage].state \in {"submitting", "cancelled"}
    BY DEF ExecutorTrue
  <2>1. executor # None /\ executor \in Execution
    BY DEF Submitting, AutopilotInv, AutopilotTypeOK
  <2>2. executor.stage \in StageIds
    BY <1>1, <1>2, <2>1, AutopilotAssumption
       DEF s, Submitting, Execution, AutopilotInv, AutopilotTypeOK
  <2> QED  BY <1>2, <2>2 DEF Submitting, ExecutorTrue, AutopilotInv
<1>7. RequestsOK'
  BY <1>2, OverKeeps
<1>8. executor' \in {None} \cup Execution'
  BY ExecutorStays
<1> QED
  BY <1>1, <1>2, <1>3, <1>4, <1>5, <1>6, <1>7, <1>8, Together
     DEF AutopilotInv, AutopilotTypeOK, s

-------------------------------------------------------------------------------
(* The steps, one by one.                                                       *)

LEMMA AGesture ==
    ASSUME NEW d \in {"stage", "review", "retry", "settle"}, NEW a \in Applications,
           NEW s \in Nat, NEW w \in Said, NEW k \in Packages \cup {None},
           NEW t \in {None} \cup (Nat \X Nat), gestures + 1 \in Nat,
           d = "stage" => w \in Words /\ k \in Packages,
           d = "review" => w \in {"approved", "changes_requested", "cancelled"}
    PROVE  Gestured(d, a, s, w, k, t) \in Request /\ Gestured(d, a, s, w, k, t).at = "sent"
  BY DEF Gestured, Request

LEMMA GestureKeeps == ASSUME AutopilotInv, Gesture  PROVE AutopilotInv'
<1> DEFINE q == CHOOSE r \in Unused : TRUE
<1>1. q \in Requests /\ StageIds' = StageIds
  BY DEF Gesture, Unused, StageIds
<1>2. PICK g \in StageGestures \cup ReviewGestures \cup RetryGestures \cup SettleGestures :
        request' = [request EXCEPT ![q] = g]
  BY DEF Gesture
<1> HIDE DEF q
<1>3. \A s \in StageIds : Token(s) \in Nat \X Nat /\ s \in Nat
                         /\ stages[s].application \in Applications
                         /\ stages[s].package \in Packages
  BY AutopilotAssumption DEF AutopilotInv, AutopilotTypeOK, Token, Stage
<1>4. gestures + 1 \in Nat
  BY DEF AutopilotInv, AutopilotTypeOK
<1>5. g \in Request /\ g.at = "sent"
  <2>1. CASE g \in StageGestures
    <3>1. PICK a \in Applications :
            g \in {Gestured("stage", a, 0, w, k, t) :
                    w \in Words, k \in Packages, t \in {None} \cup {Token(s) : s \in Of(a)}}
      BY <2>1 DEF StageGestures
    <3> DEFINE tokens == {None} \cup {Token(s) : s \in Of(a)}
    <3>2. tokens \subseteq {None} \cup (Nat \X Nat)
      BY <1>3 DEF Of
    <3> HIDE DEF tokens
    <3>3. PICK w \in Words, k \in Packages, t \in tokens : g = Gestured("stage", a, 0, w, k, t)
      BY <3>1 DEF tokens
    <3>4. w \in Said /\ t \in {None} \cup (Nat \X Nat)
      BY <3>2, AutopilotAssumption DEF Said, StageStates, Editable
    <3> QED  BY <1>4, <3>3, <3>4, AGesture
  <2>2. CASE g \in ReviewGestures
    <3>1. PICK s \in StageIds, w \in {"approved", "changes_requested", "cancelled"} :
            \E t \in {None, Token(s)} :
               g = Gestured("review", stages[s].application, s, w,
                            IF w = "approved" THEN stages[s].package ELSE None, t)
      BY <2>2 DEF ReviewGestures
    <3> DEFINE k == IF w = "approved" THEN stages[s].package ELSE None
    <3>2. PICK t \in {None, Token(s)} : g = Gestured("review", stages[s].application, s, w, k, t)
      BY <3>1
    <3>3. s \in Nat /\ stages[s].application \in Applications
          /\ k \in Packages \cup {None} /\ t \in {None} \cup (Nat \X Nat)
          /\ w \in Said
      BY <1>3 DEF Said, StageStates, Editable, Authorised, Released
    <3> HIDE DEF k
    <3> QED  BY <1>4, <3>2, <3>3, AGesture
  <2>3. CASE g \in RetryGestures
    <3>1. PICK s \in StageIds :
            g = Gestured("retry", stages[s].application, s, "preparing", stages[s].package, None)
      BY <2>3 DEF RetryGestures
    <3>2. s \in Nat /\ stages[s].application \in Applications /\ stages[s].package \in Packages
          /\ "preparing" \in Said
      BY <1>3 DEF Said, StageStates, Editable
    <3> QED  BY <1>4, <3>1, <3>2, AGesture
  <2>4. CASE g \in SettleGestures
    <3>1. PICK s \in StageIds, w \in {"submitted", "submitted_with_reason", "abandoned"} :
            \E t \in {None, Token(s)} :
               g = Gestured("settle", stages[s].application, s, w, None, t)
      BY <2>4 DEF SettleGestures
    <3>2. PICK t \in {None, Token(s)} :
            g = Gestured("settle", stages[s].application, s, w, None, t)
      BY <3>1
    <3>3. s \in Nat /\ stages[s].application \in Applications
          /\ t \in {None} \cup (Nat \X Nat) /\ w \in Said
          /\ None \in Packages \cup {None}
      BY <1>3 DEF Said, StageStates, Authorised, Committed
    <3>4. ASSUME NEW k \in Packages \cup {None}
          PROVE  LET h == Gestured("settle", stages[s].application, s, w, k, t)
                 IN  h \in Request /\ h.at = "sent"
      BY <1>4, <3>3, AGesture
    <3> QED  BY <3>2, <3>3, <3>4
  <2> QED  BY <1>2, <2>1, <2>2, <2>3, <2>4
<1>6. RequestsOK'
  <2>1. request' \in [Requests -> {None} \cup Request]
    BY <1>1, <1>2, <1>5 DEF AutopilotInv, AutopilotTypeOK
  <2>2. ASSUME NEW r \in Requests, Doing(r, "retry", "insert")'
        PROVE  request'[r].stage \in StageIds'
    BY <1>1, <1>2, <1>5, <2>2 DEF AutopilotInv, AutopilotTypeOK, Doing
  <2>3. Request' = Request
    BY DEF Request
  <2> QED  BY <2>1, <2>2, <2>3 DEF RequestsOK
<1> QED  BY <1>4, <1>6, RecordStays DEF Gesture

LEMMA DeliverTwiceKeeps ==
    ASSUME AutopilotInv, NEW r \in Requests, DeliverTwice(r)  PROVE AutopilotInv'
<1> DEFINE q == CHOOSE q \in Unused : TRUE
           again == [request[r] EXCEPT !.at = "sent"]
<1>1. q \in Requests /\ StageIds' = StageIds
      /\ request' = [request EXCEPT ![q] = again]
  BY DEF DeliverTwice, Unused, StageIds
<1>2. again \in Request /\ again.at = "sent"
  BY ARequest DEF DeliverTwice, Request
<1> HIDE DEF q, again
<1>3. RequestsOK'
  <2>1. request' \in [Requests -> {None} \cup Request]
    BY <1>1, <1>2 DEF AutopilotInv, AutopilotTypeOK
  <2>2. ASSUME NEW p \in Requests, Doing(p, "retry", "insert")'
        PROVE  request'[p].stage \in StageIds'
    BY <1>1, <1>2, <2>2 DEF AutopilotInv, AutopilotTypeOK, Doing
  <2> QED  BY <2>1, <2>2 DEF RequestsOK
<1> QED  BY <1>3, RecordStays DEF DeliverTwice, AutopilotInv, AutopilotTypeOK

\* A delivery goes on to its next statement.
LEMMA OnwardKeeps ==
    ASSUME AutopilotInv, NEW r \in Requests, request[r] # None,
           NEW at \in {"act", "insert"}, Onward(r, at), StageIds' = StageIds,
           at = "insert" => request[r].stage \in StageIds
    PROVE  RequestsOK'
<1>1. [request[r] EXCEPT !.at = at] \in Request
  BY ARequest DEF Request
<1>2. request' \in [Requests -> {None} \cup Request]
  BY <1>1 DEF AutopilotInv, AutopilotTypeOK, Onward
<1>3. ASSUME NEW p \in Requests, Doing(p, "retry", "insert")'
      PROVE  request'[p].stage \in StageIds'
  <2>1. CASE p = r
    <3>1. request'[r] = [request[r] EXCEPT !.at = at]
      BY DEF AutopilotInv, AutopilotTypeOK, Onward
    <3>2. request[r] \in Request
      BY ARequest
    <3>3. request'[r].at = at /\ request'[r].stage = request[r].stage
      BY <3>1, <3>2 DEF Request
    <3> QED  BY <1>3, <2>1, <3>3 DEF Doing
  <2>2. CASE p # r
    BY <1>3, <2>2 DEF AutopilotInv, AutopilotTypeOK, Onward, Doing
  <2> QED  BY <2>1, <2>2
<1> QED  BY <1>2, <1>3 DEF RequestsOK

LEMMA LookUpKeeps ==
    ASSUME AutopilotInv, NEW r \in Requests, LookUp(r)  PROVE AutopilotInv'
<1>1. StageIds' = StageIds /\ request[r] # None /\ (Over(r) \/ Onward(r, "act"))
  BY DEF LookUp, Untouched, StageIds
<1>2. RequestsOK'
  BY <1>1, OverKeeps, OnwardKeeps
<1> QED  BY <1>2, RecordStays DEF LookUp, Untouched, AutopilotInv, AutopilotTypeOK

\* A request that is refused writes nothing.
LEMMA RefusalKeeps ==
    ASSUME AutopilotInv, NEW r \in Requests, Over(r), Untouched, UNCHANGED <<executor, gestures>>
    PROVE  AutopilotInv'
<1>1. StageIds' = StageIds
  BY DEF Untouched, StageIds
<1>2. RequestsOK'
  BY <1>1, OverKeeps
<1> QED  BY <1>2, RecordStays DEF Untouched, AutopilotInv, AutopilotTypeOK

\* The slot of an application is held by one stage only.
LEMMA Alone ==
    ASSUME AutopilotInv, NEW s \in StageIds, stages[s].state \in Occupying
    PROVE  \A t \in Of(stages[s].application) \ {s} : stages[t].state \notin Occupying
  BY DEF AutopilotInv, OneSlot, Of, StageIds

\* The answer is stored and the record is as it was.
LEMMA AnswerKeeps ==
    ASSUME AutopilotInv, NEW r \in Requests, Over(r), stages' = stages,
           UNCHANGED <<executor, staged, gestures>>
    PROVE  AutopilotInv'
<1>1. StageIds' = StageIds
  BY DEF StageIds
<1>2. RequestsOK'
  BY <1>1, OverKeeps
<1> QED  BY <1>2, RecordStays DEF AutopilotInv, AutopilotTypeOK

LEMMA StageInsertsKeeps ==
    ASSUME AutopilotInv, NEW r \in Requests, StageInserts(r)  PROVE AutopilotInv'
<1> DEFINE a == request[r].application
           born == NewStage(a, request[r].package)
           row == IF Key(r) \in recorded THEN born ELSE [born EXCEPT !.state = request[r].word]
<1>1. request[r] \in Request /\ request[r].doing = "stage"
  BY ARequest DEF StageInserts, Doing
<1>2. a \in Applications /\ request[r].package \in Packages
      /\ request[r].word \in StageStates
  BY <1>1, AutopilotAssumption DEF Request, StageStates, Editable
<1>3. row \in Stage /\ ~row.sent /\ row.application = a
  BY <1>2 DEF NewStage, Stage, StageStates, Editable
<1> HIDE DEF row
<1>4. stages' = With(staged + 1, row)
  BY DEF StageInserts, row
<1> QED  BY <1>3, <1>4, Inserted DEF StageInserts

LEMMA StageEditsKeeps ==
    ASSUME AutopilotInv, NEW r \in Requests, StageEdits(r)  PROVE AutopilotInv'
<1>1. PICK s \in Of(request[r].application) :
        /\ stages[s].state \in Editable
        /\ stages' = IF stages[s].package = request[r].package /\ stages[s].state = request[r].word
                     THEN stages
                     ELSE With(s, [stages[s] EXCEPT !.package = request[r].package,
                                     !.state = request[r].word, !.version = @ + 1])
        /\ Over(r) /\ UNCHANGED <<executor, staged, gestures>>
  BY DEF StageEdits
<1> DEFINE version == stages[s].version + 1
           row == [stages[s] EXCEPT !.package = request[r].package,
                     !.state = request[r].word, !.version = version]
<1>2. s \in StageIds /\ stages[s] \in Stage
  BY DEF Of, AutopilotInv, AutopilotTypeOK
<1>3. request[r] \in Request /\ request[r].doing = "stage"
  BY ARequest DEF StageEdits, Doing
<1>4. request[r].package \in Packages /\ request[r].word \in Editable /\ version \in Nat
  <2>1. request[r].package \in Packages /\ request[r].word \in Words
    BY <1>3 DEF Request
  <2>2. Words \subseteq Editable
    BY AutopilotAssumption DEF Editable
  <2>3. version \in Nat
    BY <1>2 DEF Stage
  <2> QED  BY <2>1, <2>2, <2>3
<1> HIDE DEF version
<1>5. row \in Stage /\ row.application = stages[s].application /\ row.state \in Editable
      /\ row.sent = stages[s].sent
  BY <1>2, <1>4 DEF Stage, StageStates
<1> HIDE DEF row
<1>6. ~stages[s].sent
  BY <1>1, <1>2 DEF AutopilotInv, SentReached, Reached, Editable, Committed, StageIds
<1>7. Fits(s, row)
  BY <1>1, <1>2, <1>5, <1>6, Alone DEF Fits, Occupying
<1>8. stages' = stages \/ stages' = With(s, row)
  BY <1>1 DEF row, version
<1>9. stages[s].state \notin {"submitting", "cancelled"}
  <2>1. stages[s].state \in Editable
    BY <1>1
  <2> QED  BY <2>1 DEF Editable
<1>10. CASE stages' = stages
  BY <1>1, <1>10, AnswerKeeps
<1>11. CASE stages' = With(s, row)
  BY <1>1, <1>2, <1>7, <1>9, <1>11, RequestWrites
<1> QED  BY <1>8, <1>10, <1>11

LEMMA ReviewKeeps ==
    ASSUME AutopilotInv, NEW r \in Requests, Review(r)  PROVE AutopilotInv'
<1> DEFINE s == request[r].stage  word == request[r].word  approved == ApprovalAfter(s, word)
           row == MovedTo(s, word, approved)
<1>1. s \in StageIds /\ word \in {"approved", "changes_requested", "cancelled"}
  BY ARequest DEF Review, Acts, Doing, Request
<1>2. approved \in Packages \cup {None}
  BY <1>1 DEF ApprovalAfter, AutopilotInv, AutopilotTypeOK, Stage
<1>3. CASE stages' = stages
  BY <1>3, AnswerKeeps DEF Review
<1>4. CASE stages[s].state # word
  <2>1. Permitted(s, word, approved) /\ stages' = With(s, row)
    BY <1>4 DEF Review, CanReview
  <2> HIDE DEF s, word, approved
  <2>2. Fits(s, row) /\ row.state = word /\ row.sent = stages[s].sent
    BY <1>1, <1>2, <2>1, PermittedFits
  <2>3. stages[s].state \in {"submitting", "cancelled"} => word = "cancelled"
    BY <1>1, <2>1 DEF Permitted, Arrows
  <2> HIDE DEF row
  <2> QED  BY <1>1, <2>1, <2>2, <2>3, RequestWrites DEF Review
<1> QED  BY <1>3, <1>4 DEF Review

LEMMA RetryChecksKeeps ==
    ASSUME AutopilotInv, NEW r \in Requests, RetryChecks(r)  PROVE AutopilotInv'
<1>1. StageIds' = StageIds /\ request[r] # None /\ request[r].stage \in StageIds
  BY DEF RetryChecks, Acts, Doing, Untouched, StageIds
<1>2. RequestsOK'
  BY <1>1, OnwardKeeps DEF RetryChecks
<1> QED  BY <1>2, RecordStays DEF RetryChecks, Untouched, AutopilotInv, AutopilotTypeOK

LEMMA RetryInsertsKeeps ==
    ASSUME AutopilotInv, NEW r \in Requests, RetryInserts(r)  PROVE AutopilotInv'
<1> DEFINE s == request[r].stage  a == request[r].application
           row == NewStage(a, stages[s].package)
<1>1. request[r] \in Request /\ s \in StageIds
  BY ARequest DEF RetryInserts, Doing, AutopilotInv, AutopilotTypeOK
<1>2. stages[s] \in Stage
  BY <1>1 DEF AutopilotInv, AutopilotTypeOK
<1>3. row \in Stage /\ ~row.sent /\ row.application = a
  BY <1>1, <1>2 DEF NewStage, Stage, Request, StageStates, Editable
<1>4. CASE Holds(a)
  BY <1>4, RefusalKeeps DEF RetryInserts
<1>5. CASE ~Holds(a)
  BY <1>3, <1>5, Inserted DEF RetryInserts
<1> QED  BY <1>4, <1>5

LEMMA HandOffKeeps ==
    ASSUME AutopilotInv, NEW r \in Requests, HandOff(r)  PROVE AutopilotInv'
<1> DEFINE s == request[r].stage
           moved == MovedTo(s, "handed_off", stages[s].approved)
           row == [moved EXCEPT !.sent = TRUE]
<1>1. s \in StageIds /\ stages[s].state = "approved" /\ stages[s] \in Stage
      /\ Permitted(s, "handed_off", stages[s].approved)
  BY DEF HandOff, Acts, AutopilotInv, AutopilotTypeOK
<1>2. stages[s].approved \in Packages \cup {None}
  BY <1>1 DEF Stage
<1>3. Fits(s, moved) /\ moved.state = "handed_off"
  <2> HIDE DEF s
  <2> QED  BY <1>1, <1>2, PermittedFits
<1>4. Fits(s, row)
  <2> HIDE DEF moved
  <2> QED  BY <1>3 DEF Fits, Stage, Reached
<1>5. stages' = With(s, row)
  BY DEF HandOff
<1> HIDE DEF row, s
<1> QED  BY <1>1, <1>4, <1>5, RequestWrites DEF HandOff

LEMMA AbandonKeeps ==
    ASSUME AutopilotInv, NEW r \in Requests, Abandon(r)  PROVE AutopilotInv'
<1> DEFINE s == request[r].stage  row == MovedTo(s, "cancelled", stages[s].approved)
<1>1. s \in StageIds /\ stages[s].state = "approved" /\ stages[s] \in Stage
      /\ Permitted(s, "cancelled", stages[s].approved) /\ stages' = With(s, row)
  BY DEF Abandon, Acts, AutopilotInv, AutopilotTypeOK
<1>2. stages[s].approved \in Packages \cup {None}
  BY <1>1 DEF Stage
<1> HIDE DEF s
<1>3. Fits(s, row)
  BY <1>1, <1>2, PermittedFits
<1> HIDE DEF row
<1> QED  BY <1>1, <1>3, RequestWrites DEF Abandon

LEMMA DeliveryKeeps ==
    ASSUME AutopilotInv, NEW r \in Requests, Delivery(r)  PROVE AutopilotInv'
<1>1. CASE StageEnds(r)
  BY <1>1, RefusalKeeps DEF StageEnds
<1>2. CASE Refused(r)
  BY <1>2, RefusalKeeps DEF Refused
<1> QED
  BY <1>1, <1>2, DeliverTwiceKeeps, LookUpKeeps, StageInsertsKeeps, StageEditsKeeps, ReviewKeeps,
     RetryChecksKeeps, RetryInsertsKeeps, HandOffKeeps, AbandonKeeps DEF Delivery

-------------------------------------------------------------------------------
(* The application row.                                                         *)

LEMMA RejectKeeps ==
    ASSUME AutopilotInv, NEW a \in Applications, Reject(a)  PROVE AutopilotInv'
<1>1. RequestsOK'
  BY RequestsStay DEF Reject, StageIds
<1> QED  BY <1>1, RecordStays DEF Reject, AutopilotInv, AutopilotTypeOK

LEMMA WithdrawKeeps ==
    ASSUME AutopilotInv, NEW a \in Applications, Withdraw(a)  PROVE AutopilotInv'
<1>1. StageIds' = StageIds \ Of(a) /\ \A s \in StageIds' : stages'[s] = stages[s]
  BY DEF Withdraw, StageIds
<1>2. stages' \in [StageIds' -> Stage]
  BY <1>1 DEF Withdraw, AutopilotInv, AutopilotTypeOK
<1>3. OneSlot(stages)' /\ SentReached(stages)'
  BY <1>1 DEF OneSlot, SentReached, StageIds, AutopilotInv
<1>4. ExecutorTrue'
  BY <1>1 DEF Withdraw, ExecutorTrue, Submitting, AutopilotInv
<1>5. RequestsOK'
  <2>1. ASSUME NEW r \in Requests, Doing(r, "retry", "insert")
        PROVE  request[r].stage \in StageIds /\ request[r].stage \notin Of(a)
    BY <2>1 DEF Withdraw, Locked, AutopilotInv, AutopilotTypeOK
  <2> QED  BY <1>1, <2>1 DEF Withdraw, RequestsOK, Doing, AutopilotInv, AutopilotTypeOK
<1>6. executor' \in {None} \cup Execution'
  BY ExecutorStays DEF Withdraw
<1> QED
  BY <1>1, <1>2, <1>3, <1>4, <1>5, <1>6, Together DEF Withdraw, AutopilotInv, AutopilotTypeOK

-------------------------------------------------------------------------------
(* The executor.                                                                *)

LEMMA ExecutorWrites ==
    ASSUME AutopilotInv, NEW s \in StageIds, NEW row, Fits(s, row), stages' = With(s, row),
           Browser, executor' \in {None} \cup Execution,
           Submitting("submit")' =>
              IF executor'.stage = s
              THEN ~row.sent /\ row.state \in {"submitting", "cancelled"}
              ELSE executor' = executor
    PROVE  AutopilotInv'
<1>1. StageIds' = StageIds /\ stages' \in [StageIds -> Stage]
      /\ stages'[s] = row /\ (\A t \in StageIds \ {s} : stages'[t] = stages[t])
      /\ OneSlot(stages)' /\ SentReached(stages)'
  BY Rewrite
<1>2. ExecutorTrue'
  BY <1>1 DEF AutopilotInv, ExecutorTrue, Submitting
<1>3. RequestsOK'
  BY <1>1, RequestsStay DEF Browser
<1>4. Execution' = Execution
  BY DEF Execution, Browser
<1> QED  BY <1>1, <1>2, <1>3, <1>4, Together DEF Browser, AutopilotInv, AutopilotTypeOK

\* The executor goes on, the record stays.
LEMMA ExecutorMoves ==
    ASSUME AutopilotInv, Browser, stages' = stages, executor' \in {None} \cup Execution,
           ~Submitting("submit")'
    PROVE  AutopilotInv'
<1>1. StageIds' = StageIds /\ Execution' = Execution
  BY DEF StageIds, Execution, Browser
<1>2. RequestsOK'
  BY <1>1, RequestsStay DEF Browser
<1>3. OneSlot(stages)' /\ SentReached(stages)' /\ ExecutorTrue'
  BY DEF AutopilotInv, OneSlot, SentReached, ExecutorTrue
<1> QED
  BY <1>1, <1>2, <1>3, Together DEF Browser, AutopilotInv, AutopilotTypeOK, StageIds

LEMMA AWork ==
    ASSUME AutopilotInv, NEW s \in StageIds,
           NEW at \in {"submit", "confirmed", "file", "close"}, Work(s, at)
    PROVE  executor' \in Execution /\ executor'.stage = s /\ executor'.at = at
  BY DEF Work, Execution, AutopilotInv, AutopilotTypeOK

LEMMA ExecutesKeeps ==
    ASSUME AutopilotInv, Executes  PROVE AutopilotInv'
<1>0. \A s \in StageIds : stages[s] \in Stage /\ stages[s].approved \in Packages \cup {None}
  BY DEF AutopilotInv, AutopilotTypeOK, Stage
<1>1. ASSUME NEW s \in 1..MaxStages, Begin(s)  PROVE AutopilotInv'
  <2> DEFINE row == MovedTo(s, "submitting", stages[s].approved)
  <2>1. s \in StageIds /\ Permitted(s, "submitting", stages[s].approved)
    BY <1>1 DEF Begin
  <2>2. Fits(s, row) /\ row.state = "submitting" /\ row.sent = stages[s].sent
    BY <1>0, <2>1, PermittedFits
  <2>3. ~stages[s].sent
    BY <2>1 DEF Permitted, Arrows, AutopilotInv, SentReached, Reached, Committed, StageIds
  <2>4. executor' \in Execution /\ executor'.stage = s
    BY <1>1, <2>1, AWork DEF Begin
  <2> HIDE DEF row
  <2>5. stages' = With(s, row) /\ Browser
    BY <1>1 DEF Begin, row
  <2> QED  BY <2>1, <2>2, <2>3, <2>4, <2>5, ExecutorWrites
<1>2. CASE Accepted
  <2> DEFINE s == executor.stage  row == [stages[s] EXCEPT !.sent = TRUE]
  <2>1. s \in StageIds /\ stages[s].state \in {"submitting", "cancelled"}
    BY <1>2 DEF Accepted, Submitting, AutopilotInv, ExecutorTrue
  <2>2. Fits(s, row)
    BY <1>0, <2>1, Alone DEF Fits, Stage, Reached, Committed
  <2>3. executor' \in Execution /\ executor'.at = "confirmed"
    BY <1>2, <2>1, AWork DEF Accepted
  <2>4. stages' = With(s, row) /\ Browser
    BY <1>2 DEF Accepted
  <2> HIDE DEF row, s
  <2> QED  BY <2>1, <2>2, <2>3, <2>4, ExecutorWrites DEF Submitting
<1>3. CASE Failed
  <2> DEFINE s == executor.stage
  <2>1. PICK to \in {"failed_retryable", "failed_terminal"} :
          /\ Permitted(s, to, stages[s].approved)
          /\ stages' = With(s, MovedTo(s, to, stages[s].approved))
    BY <1>3 DEF Failed
  <2>2. s \in StageIds /\ ~stages[s].sent /\ executor' = None /\ Browser
    BY <1>3 DEF Failed, Submitting, AutopilotInv, ExecutorTrue
  <2> HIDE DEF s
  <2>3. Fits(s, MovedTo(s, to, stages[s].approved))
    BY <1>0, <2>1, <2>2, PermittedFits
  <2> QED  BY <2>1, <2>2, <2>3, ExecutorWrites DEF Submitting
<1>4. CASE ReceiptGuard
  <2>1. executor' \in Execution /\ executor'.at = "file"
    BY <1>4, AWork DEF ReceiptGuard, Submitting
  <2> QED  BY <1>4, <2>1, ExecutorMoves DEF ReceiptGuard, Submitting
<1>5. CASE ReceiptFiled
  <2> DEFINE s == executor.stage  row == [stages[s] EXCEPT !.receipt = TRUE]
  <2>1. s \in StageIds
    BY <1>5 DEF ReceiptFiled, Submitting
  <2>2. Fits(s, row)
    <3>1. row \in Stage /\ row.application = stages[s].application
          /\ row.state = stages[s].state /\ row.sent = stages[s].sent
      BY <1>0, <2>1 DEF Stage
    <3> HIDE DEF row, s
    <3> QED  BY <2>1, <3>1, Alone DEF Fits, AutopilotInv, SentReached, StageIds
  <2>3. executor' \in Execution /\ executor'.at = "close"
    BY <1>5, <2>1, AWork DEF ReceiptFiled
  <2>4. stages' = With(s, row) /\ Browser
    BY <1>5 DEF ReceiptFiled
  <2> HIDE DEF row, s
  <2> QED  BY <2>1, <2>2, <2>3, <2>4, ExecutorWrites DEF Submitting
<1>6. CASE Confirmed
  <2> DEFINE s == executor.stage
  <2>1. /\ s \in StageIds /\ Permitted(s, "submitted", stages[s].approved)
        /\ stages' = With(s, MovedTo(s, "submitted", stages[s].approved))
        /\ executor' = None /\ Browser
    BY <1>6 DEF Confirmed, Submitting
  <2> HIDE DEF s
  <2>2. Fits(s, MovedTo(s, "submitted", stages[s].approved))
    BY <1>0, <2>1, PermittedFits
  <2> QED  BY <2>1, <2>2, ExecutorWrites DEF Submitting
<1>7. CASE Dies
  BY <1>7, ExecutorMoves DEF Dies, Submitting
<1>8. ASSUME NEW s \in 1..MaxStages, Doubt(s)  PROVE AutopilotInv'
  <2>1. /\ s \in StageIds /\ Permitted(s, "outcome_unknown", stages[s].approved)
        /\ stages' = With(s, MovedTo(s, "outcome_unknown", stages[s].approved))
        /\ executor' = executor /\ Browser /\ (executor # None => executor.stage # s)
    BY <1>8 DEF Doubt, WorksOn
  <2>2. Fits(s, MovedTo(s, "outcome_unknown", stages[s].approved))
    BY <1>0, <2>1, PermittedFits
  <2>3. executor \in {None} \cup Execution
    BY DEF AutopilotInv, AutopilotTypeOK
  <2> QED  BY <2>1, <2>2, <2>3, ExecutorWrites DEF Submitting
<1>9. ASSUME NEW s \in 1..MaxStages, WriteOff(s)  PROVE AutopilotInv'
  <2>1. /\ s \in StageIds /\ Permitted(s, "failed_terminal", stages[s].approved)
        /\ stages' = With(s, MovedTo(s, "failed_terminal", stages[s].approved))
        /\ executor' = executor /\ Browser /\ stages[s].state = "outcome_unknown"
    BY <1>9 DEF WriteOff
  <2>2. Fits(s, MovedTo(s, "failed_terminal", stages[s].approved))
    BY <1>0, <2>1, PermittedFits
  <2>3. executor \in {None} \cup Execution
    BY DEF AutopilotInv, AutopilotTypeOK
  <2>4. Submitting("submit") => executor.stage # s
    BY <2>1 DEF AutopilotInv, ExecutorTrue
  <2>5. StageIds' = StageIds
    BY <2>1, <2>2, Rewrite
  <2> QED  BY <2>1, <2>2, <2>3, <2>4, <2>5, ExecutorWrites DEF Submitting
<1>10. ASSUME NEW s \in 1..MaxStages, Found(s)  PROVE AutopilotInv'
  <2>1. executor' \in Execution /\ executor'.at \in {"close", "confirmed"}
    BY <1>10, AWork DEF Found
  <2> QED  BY <1>10, <2>1, ExecutorMoves DEF Found, Submitting
<1> QED
  BY <1>1, <1>2, <1>3, <1>4, <1>5, <1>6, <1>7, <1>8, <1>9, <1>10 DEF Executes

-------------------------------------------------------------------------------

LEMMA AutopilotStarts == AutopilotInit => AutopilotInv
<1> SUFFICES ASSUME AutopilotInit PROVE AutopilotInv
  OBVIOUS
<1>1. PICK n \in 0..MaxStages : stages \in [1..n -> Stage]
  BY AutopilotAssumption DEF AutopilotInit
<1>2. stages \in [StageIds -> Stage]
  BY <1>1 DEF StageIds
<1>3. OneSlot(stages) /\ SentReached(stages)
  BY AutopilotAssumption DEF AutopilotInit
<1> QED
  BY <1>2, <1>3
     DEF AutopilotInit, AutopilotInv, AutopilotTypeOK, ExecutorTrue, Submitting, Doing

LEMMA AutopilotSteps == AutopilotInv /\ [AutopilotNext]_autopilotVars => AutopilotInv'
<1> SUFFICES ASSUME AutopilotInv, [AutopilotNext]_autopilotVars PROVE AutopilotInv'
  OBVIOUS
<1>1. CASE UNCHANGED autopilotVars
  <2>1. RequestsOK'
    BY <1>1, RequestsStay DEF autopilotVars, StageIds
  <2> QED  BY <1>1, <2>1, RecordStays DEF autopilotVars, AutopilotInv, AutopilotTypeOK
<1> QED
  BY <1>1, GestureKeeps, DeliveryKeeps, RejectKeeps, WithdrawKeeps, ExecutesKeeps DEF AutopilotNext

LEMMA AutopilotAlways == AutopilotSpec => []AutopilotInv
  BY AutopilotStarts, AutopilotSteps, PTL DEF AutopilotSpec

\* The staging record, the deliveries under way and the executor keep their types.
THEOREM AutopilotTypeCorrect == AutopilotSpec => []AutopilotTypeOK
<1>1. AutopilotInv => AutopilotTypeOK
  BY DEF AutopilotInv
<1> QED  BY <1>1, AutopilotAlways, PTL

\* One slot per application, and what an employer may have received is in a state
\* that holds it or was written off: no command of the browser, no delivery of it
\* that comes twice and no step of the executor starts a second attempt.
THEOREM NeverRetriedBlindly == AutopilotSpec => []NeverBlindlyRetried
<1>1. AutopilotInv => NeverBlindlyRetried
  <2> SUFFICES ASSUME AutopilotInv, NEW s \in StageIds, NEW t \in StageIds, s # t,
                      stages[s].application = stages[t].application, stages[s].sent,
                      stages[s].state \notin {"cancelled", "failed_terminal"}
               PROVE  stages[t].state \in Released
    BY DEF NeverBlindlyRetried
  <2>1. stages[s].state \in Occupying
    BY DEF AutopilotInv, SentReached, Reached, Occupying, StageIds
  <2>2. stages[t].state \notin Occupying /\ stages[t] \in Stage
    BY <2>1 DEF AutopilotInv, OneSlot, AutopilotTypeOK, StageIds
  <2> QED  BY <2>2 DEF Stage, StageStates, Occupying, Editable, Authorised, Committed, Released
<1> QED  BY <1>1, AutopilotAlways, PTL

-------------------------------------------------------------------------------
(* What an approval is of, and what a receipt outlives.                         *)

SealedInv == AutopilotInv /\ ApprovalBinds(stages)

\* A write of one stage that drops no receipt and authorises only the package as
\* it is.
Seals(s, row) ==
    /\ stages[s].receipt => row.receipt
    /\ row.state \in Authorised => row.approved = row.package

\* What a step may do to the stages it leaves in the record.
Honest ==
    \A s \in StageIds \cap DOMAIN stages' :
        /\ stages'[s].state = "approved" /\ stages[s].state # "approved" =>
             \E r \in Requests :
                request[r] # None /\ request'[r] = None /\ request[r].stage = s
                /\ request[r].package = stages'[s].package
        /\ stages'[s].state \in Authorised => stages'[s].approved = stages'[s].package
Evident == \A s \in StageIds : stages[s].receipt => s \in DOMAIN stages' /\ stages'[s].receipt
Sealed == ApprovalBinds(stages)' /\ Honest /\ Evident

LEMMA SealedWhereItStays == ASSUME SealedInv, stages' = stages  PROVE Sealed
  BY DEF SealedInv, ApprovalBinds, Sealed, Honest, Evident, StageIds

\* One stage is written, and it is not the approving of it.
LEMMA SealedWhereOneIsWritten ==
    ASSUME SealedInv, NEW s \in StageIds, NEW row, Seals(s, row), stages' = With(s, row),
           row.state = "approved" => stages[s].state = "approved"
    PROVE  Sealed
<1>1. StageIds' = StageIds /\ stages'[s] = row
      /\ \A t \in StageIds \ {s} : stages'[t] = stages[t]
  BY DEF With, StageIds
<1> QED
  BY <1>1 DEF SealedInv, ApprovalBinds, Seals, Sealed, Honest, Evident, StageIds

\* A stage is born with no approval.
LEMMA SealedWhereOneIsBorn ==
    ASSUME SealedInv, NEW row, row.state \notin Authorised, stages' = With(staged + 1, row)
    PROVE  Sealed
<1>1. staged + 1 \notin StageIds
  BY AutopilotAssumption DEF SealedInv, AutopilotInv, AutopilotTypeOK
<1>2. DOMAIN stages' = StageIds \cup {staged + 1} /\ stages'[staged + 1] = row
      /\ \A t \in StageIds : stages'[t] = stages[t]
  BY <1>1 DEF With, StageIds
<1> QED
  BY <1>1, <1>2 DEF SealedInv, ApprovalBinds, Sealed, Honest, Evident, StageIds

LEMMA MovedSeals ==
    ASSUME SealedInv, NEW s \in StageIds, NEW to, NEW approved \in Packages \cup {None},
           Permitted(s, to, approved),
           to \in {"submitted", "outcome_unknown"} => approved = stages[s].approved
    PROVE  /\ Seals(s, MovedTo(s, to, approved))
           /\ MovedTo(s, to, approved).state = to
           /\ MovedTo(s, to, approved).package = stages[s].package
<1> DEFINE then == IF to \in Editable THEN None ELSE approved
           version == stages[s].version + 1
           row == [stages[s] EXCEPT !.state = to, !.version = version, !.approved = then]
<1>1. stages[s] \in Stage /\ row = MovedTo(s, to, approved)
  BY DEF SealedInv, AutopilotInv, AutopilotTypeOK, MovedTo
<1>2. to \notin Editable => then = approved
  OBVIOUS
<1> HIDE DEF then, version
<1>3. row.state = to /\ row.approved = then /\ row.package = stages[s].package
      /\ row.receipt = stages[s].receipt
  BY <1>1 DEF Stage
<1> HIDE DEF row
<1>4. ASSUME to \in Authorised  PROVE approved = stages[s].package
  <2>1. CASE to \in {"approved", "submitting", "handed_off"}
    BY <2>1 DEF Permitted
  <2>2. CASE to \in {"submitted", "outcome_unknown"}
    <3>1. stages[s].state \in Authorised
      BY <2>2 DEF Permitted, Arrows, Authorised, Committed
    <3> QED  BY <2>2, <3>1 DEF SealedInv, ApprovalBinds, StageIds
  <2> QED  BY <1>4, <2>1, <2>2 DEF Authorised, Committed
<1>5. to \in Authorised => to \notin Editable
  BY DEF Authorised, Committed, Editable
<1> QED  BY <1>1, <1>2, <1>3, <1>4, <1>5 DEF Seals

\* A move of a stage that is not the approving of it.
LEMMA SealedWhereOneMoves ==
    ASSUME SealedInv, NEW s \in StageIds, NEW to, to # "approved",
           Permitted(s, to, stages[s].approved),
           stages' = With(s, MovedTo(s, to, stages[s].approved))
    PROVE  Sealed
<1>1. stages[s].approved \in Packages \cup {None}
  BY DEF SealedInv, AutopilotInv, AutopilotTypeOK, Stage
<1>2. Seals(s, MovedTo(s, to, stages[s].approved))
      /\ MovedTo(s, to, stages[s].approved).state = to
  BY <1>1, MovedSeals
<1> QED  BY <1>2, SealedWhereOneIsWritten

LEMMA StageInsertsSealed ==
    ASSUME SealedInv, NEW r \in Requests, StageInserts(r)  PROVE Sealed
<1> DEFINE born == NewStage(request[r].application, request[r].package)
           row == IF Key(r) \in recorded THEN born ELSE [born EXCEPT !.state = request[r].word]
<1>1. request[r].word \in Words
  BY ARequest DEF SealedInv, StageInserts, Doing, Request
<1>2. row.state \notin Authorised
  BY <1>1, AutopilotAssumption DEF NewStage, Authorised, Committed
<1> HIDE DEF row
<1>3. stages' = With(staged + 1, row)
  BY DEF StageInserts, row
<1> QED  BY <1>2, <1>3, SealedWhereOneIsBorn

LEMMA RetryInsertsSealed ==
    ASSUME SealedInv, NEW r \in Requests, RetryInserts(r)  PROVE Sealed
<1> DEFINE row == NewStage(request[r].application, stages[request[r].stage].package)
<1>1. row.state \notin Authorised
  BY DEF NewStage, Authorised, Committed
<1>2. stages' = stages \/ stages' = With(staged + 1, row)
  BY DEF RetryInserts, Untouched
<1> HIDE DEF row
<1> QED  BY <1>1, <1>2, SealedWhereItStays, SealedWhereOneIsBorn

LEMMA StageEditsSealed ==
    ASSUME SealedInv, NEW r \in Requests, StageEdits(r)  PROVE Sealed
<1>1. PICK s \in Of(request[r].application) :
        stages' = IF stages[s].package = request[r].package /\ stages[s].state = request[r].word
                  THEN stages
                  ELSE With(s, [stages[s] EXCEPT !.package = request[r].package,
                                  !.state = request[r].word, !.version = @ + 1])
  BY DEF StageEdits
<1> DEFINE version == stages[s].version + 1
           row == [stages[s] EXCEPT !.package = request[r].package,
                     !.state = request[r].word, !.version = version]
<1>2. s \in StageIds /\ stages[s] \in Stage
  BY DEF Of, SealedInv, AutopilotInv, AutopilotTypeOK
<1>3. request[r].word \in Words
  BY ARequest DEF SealedInv, StageEdits, Doing, Request
<1>4. request[r].word \notin Authorised
  BY <1>3, AutopilotAssumption DEF Authorised, Committed
<1>5. stages' = stages \/ stages' = With(s, row)
  BY <1>1
<1> HIDE DEF version
<1>6. row.state = request[r].word /\ row.receipt = stages[s].receipt
  BY <1>2 DEF Stage
<1> HIDE DEF row
<1>7. Seals(s, row) /\ row.state # "approved"
  BY <1>4, <1>6 DEF Seals, Authorised
<1> QED  BY <1>2, <1>5, <1>7, SealedWhereItStays, SealedWhereOneIsWritten

\* The one step that approves: the hash that came along is of the package the
\* lock finds.
LEMMA ReviewSealed ==
    ASSUME SealedInv, NEW r \in Requests, Review(r)  PROVE Sealed
<1> DEFINE s == request[r].stage  word == request[r].word  approved == ApprovalAfter(s, word)
           row == MovedTo(s, word, approved)
<1>1. s \in StageIds /\ word \in {"approved", "changes_requested", "cancelled"}
  BY ARequest DEF SealedInv, Review, Acts, Doing, Request
<1>2. approved \in Packages \cup {None}
  BY <1>1 DEF ApprovalAfter, SealedInv, AutopilotInv, AutopilotTypeOK, Stage
<1>3. request[r] # None /\ request'[r] = None
  BY DEF Review, Acts, Doing, Over, SealedInv, AutopilotInv, AutopilotTypeOK
<1>4. word = "approved" => request[r].package = stages[s].package
  BY DEF Review, CanReview, SawThePackage
<1>5. CASE stages[s].state = word
  BY <1>5, SealedWhereItStays DEF Review
<1>6. CASE stages[s].state # word
  <2>1. Permitted(s, word, approved) /\ stages' = With(s, row)
    BY <1>6 DEF Review, CanReview
  <2> HIDE DEF approved
  <2>2. Seals(s, row) /\ row.state = word /\ row.package = stages[s].package
    <3> HIDE DEF s, word
    <3> QED  BY <1>1, <1>2, <2>1, MovedSeals
  <2> HIDE DEF row
  <2>3. CASE word # "approved"
    <3> HIDE DEF s, word
    <3> QED  BY <1>1, <2>1, <2>2, <2>3, SealedWhereOneIsWritten
  <2>4. CASE word = "approved"
    <3>1. StageIds' = StageIds /\ stages'[s] = row
          /\ \A t \in StageIds \ {s} : stages'[t] = stages[t]
      <4> HIDE DEF s
      <4> QED  BY <1>1, <2>1 DEF With, StageIds
    <3>2. request[r].package = stages'[s].package
      BY <1>4, <2>2, <2>4, <3>1
    <3>3. \E q \in Requests :
             request[q] # None /\ request'[q] = None /\ request[q].stage = s
             /\ request[q].package = stages'[s].package
      BY <1>3, <3>2
    <3> HIDE DEF s, word
    <3>4. stages[s].receipt => stages'[s].receipt
      BY <2>2, <3>1 DEF Seals
    <3>5. stages'[s].state \in Authorised => stages'[s].approved = stages'[s].package
      BY <2>2, <3>1 DEF Seals
    <3>6. ApprovalBinds(stages)'
      BY <3>1, <3>5 DEF SealedInv, ApprovalBinds, StageIds
    <3>7. Honest
      BY <3>1, <3>3, <3>5 DEF SealedInv, ApprovalBinds, Honest, StageIds
    <3>8. Evident
      BY <3>1, <3>4 DEF Evident, StageIds
    <3> QED  BY <3>6, <3>7, <3>8 DEF Sealed
  <2> QED  BY <2>3, <2>4
<1> QED  BY <1>5, <1>6

LEMMA HandOffSealed ==
    ASSUME SealedInv, NEW r \in Requests, HandOff(r)  PROVE Sealed
<1> DEFINE s == request[r].stage
           moved == MovedTo(s, "handed_off", stages[s].approved)
           row == [moved EXCEPT !.sent = TRUE]
<1>1. s \in StageIds /\ stages[s] \in Stage
      /\ Permitted(s, "handed_off", stages[s].approved) /\ stages' = With(s, row)
  BY DEF HandOff, Acts, SealedInv, AutopilotInv, AutopilotTypeOK
<1>2. stages[s].approved \in Packages \cup {None}
  BY <1>1 DEF Stage
<1> HIDE DEF s
<1>3. Seals(s, moved) /\ moved.state = "handed_off"
  BY <1>1, <1>2, MovedSeals
<1>4. moved \in Stage
  BY <1>1, <1>2, PermittedFits DEF SealedInv, Fits
<1> HIDE DEF moved
<1>5. row.state = moved.state /\ row.receipt = moved.receipt
      /\ row.approved = moved.approved /\ row.package = moved.package
  BY <1>4 DEF Stage
<1> HIDE DEF row
<1>6. Seals(s, row)
  BY <1>3, <1>5 DEF Seals
<1> QED  BY <1>1, <1>3, <1>5, <1>6, SealedWhereOneIsWritten

LEMMA DeliverySealed ==
    ASSUME SealedInv, NEW r \in Requests, Delivery(r)  PROVE Sealed
<1>1. CASE stages' = stages
  BY <1>1, SealedWhereItStays
<1>2. CASE Abandon(r)
  <2>1. request[r].stage \in StageIds
    BY <1>2 DEF Abandon, Acts
  <2> QED  BY <1>2, <2>1, SealedWhereOneMoves DEF Abandon
<1>3. DeliverTwice(r) \/ LookUp(r) \/ StageEnds(r) \/ RetryChecks(r) \/ Refused(r)
        => stages' = stages
  BY DEF DeliverTwice, LookUp, StageEnds, RetryChecks, Refused, Untouched
<1> QED
  BY <1>1, <1>2, <1>3, StageInsertsSealed, StageEditsSealed, ReviewSealed, RetryInsertsSealed,
     HandOffSealed DEF Delivery

\* The stages that a delete takes along hold no receipt.
LEMMA WithdrawSealed ==
    ASSUME SealedInv, NEW a \in Applications, Withdraw(a)  PROVE Sealed
<1>1. DOMAIN stages' = StageIds \ Of(a) /\ \A s \in DOMAIN stages' : stages'[s] = stages[s]
  BY DEF Withdraw
<1>2. \A s \in Of(a) : ~stages[s].receipt
  BY DEF Withdraw, MayGo
<1> QED
  BY <1>1, <1>2 DEF SealedInv, ApprovalBinds, Sealed, Honest, Evident, StageIds

LEMMA ExecutesSealed == ASSUME SealedInv, Executes  PROVE Sealed
<1>1. CASE stages' = stages
  BY <1>1, SealedWhereItStays
<1>2. ASSUME NEW s \in 1..MaxStages, Begin(s)  PROVE Sealed
  BY <1>2, SealedWhereOneMoves DEF Begin
<1>3. ASSUME NEW s \in 1..MaxStages, Doubt(s)  PROVE Sealed
  BY <1>3, SealedWhereOneMoves DEF Doubt
<1>4. ASSUME NEW s \in 1..MaxStages, WriteOff(s)  PROVE Sealed
  BY <1>4, SealedWhereOneMoves DEF WriteOff
<1>5. CASE Confirmed
  BY <1>5, SealedWhereOneMoves DEF Confirmed, Submitting
<1>6. CASE Failed
  <2>1. PICK to \in {"failed_retryable", "failed_terminal"} :
          /\ Permitted(executor.stage, to, stages[executor.stage].approved)
          /\ stages' = With(executor.stage,
                            MovedTo(executor.stage, to, stages[executor.stage].approved))
    BY <1>6 DEF Failed
  <2>2. executor.stage \in StageIds
    BY <1>6 DEF Failed, Submitting
  <2> QED  BY <2>1, <2>2, SealedWhereOneMoves
<1>7. ASSUME NEW s \in StageIds, NEW row, stages' = With(s, row),
             row \in {[stages[s] EXCEPT !.sent = TRUE], [stages[s] EXCEPT !.receipt = TRUE]}
      PROVE  Sealed
  <2>1. stages[s] \in Stage
    BY DEF SealedInv, AutopilotInv, AutopilotTypeOK
  <2>2. row.state = stages[s].state /\ row.approved = stages[s].approved
        /\ row.package = stages[s].package /\ (stages[s].receipt => row.receipt)
    BY <1>7, <2>1 DEF Stage
  <2>3. Seals(s, row)
    BY <2>2 DEF Seals, SealedInv, ApprovalBinds, StageIds
  <2> QED  BY <1>7, <2>2, <2>3, SealedWhereOneIsWritten
<1>8. CASE Accepted
  <2>1. executor.stage \in StageIds
    BY <1>8 DEF Accepted, Submitting
  <2> QED  BY <1>7, <1>8, <2>1 DEF Accepted
<1>9. CASE ReceiptFiled
  <2>1. executor.stage \in StageIds
    BY <1>9 DEF ReceiptFiled, Submitting
  <2> QED  BY <1>7, <1>9, <2>1 DEF ReceiptFiled
<1>10. ReceiptGuard \/ Dies => stages' = stages
  BY DEF ReceiptGuard, Dies
<1>11. ASSUME NEW s \in 1..MaxStages, Found(s)  PROVE Sealed
  BY <1>1, <1>11 DEF Found
<1> QED
  BY <1>1, <1>2, <1>3, <1>4, <1>5, <1>6, <1>8, <1>9, <1>10, <1>11 DEF Executes

LEMMA SealedSteps == SealedInv /\ [AutopilotNext]_autopilotVars => Sealed
<1> SUFFICES ASSUME SealedInv, [AutopilotNext]_autopilotVars  PROVE Sealed
  OBVIOUS
<1>1. CASE stages' = stages
  BY <1>1, SealedWhereItStays
<1>2. CASE Gesture
  BY <1>1, <1>2 DEF Gesture
<1>3. ASSUME NEW a \in Applications, Reject(a)  PROVE Sealed
  BY <1>1, <1>3 DEF Reject
<1>4. CASE UNCHANGED autopilotVars
  BY <1>1, <1>4 DEF autopilotVars
<1> QED
  BY <1>2, <1>3, <1>4, DeliverySealed, WithdrawSealed, ExecutesSealed DEF AutopilotNext

LEMMA SealedAlways == AutopilotSpec => [](SealedInv /\ AutopilotInv)
<1>1. AutopilotInit => SealedInv
  BY AutopilotStarts, AutopilotAssumption DEF SealedInv, AutopilotInit
<1>2. SealedInv /\ [AutopilotNext]_autopilotVars => SealedInv'
  BY AutopilotSteps, SealedSteps DEF SealedInv, Sealed
<1> QED  BY <1>1, <1>2, AutopilotAlways, PTL DEF AutopilotSpec

\* An approval is of the package the person read, and stays of it: a re-stage, by
\* another tab or by a delivery that comes twice, is never what gets approved or
\* submitted.
THEOREM ApprovesWhatWasRead == AutopilotSpec => ApprovedAsRead
<1>1. SealedInv /\ [AutopilotNext]_autopilotVars => [Honest]_autopilotVars
  BY SealedSteps DEF Sealed
<1>2. [Honest]_autopilotVars =>
      [\A s \in StageIds \cap DOMAIN stages' :
         /\ stages'[s].state = "approved" /\ stages[s].state # "approved" =>
              \E r \in Requests :
                 request[r] # None /\ request'[r] = None /\ request[r].stage = s
                 /\ request[r].package = stages'[s].package
         /\ stages'[s].state \in Authorised => stages'[s].approved = stages'[s].package
      ]_autopilotVars
  BY DEF Honest
<1> QED  BY <1>1, <1>2, SealedAlways, PTL DEF AutopilotSpec, ApprovedAsRead

\* No step of the executor, no command and no delete of an application loses the
\* receipt of a submission, whatever reached the stage between the receipt's
\* guard and its insert.
THEOREM ReceiptsOutlive == AutopilotSpec => EvidenceKept
<1>1. SealedInv /\ [AutopilotNext]_autopilotVars =>
      [\A s \in StageIds : stages[s].receipt =>
         s \in DOMAIN stages' /\ stages'[s].receipt]_autopilotVars
  BY SealedSteps DEF Sealed, Evident
<1> QED  BY <1>1, SealedAlways, PTL DEF AutopilotSpec, EvidenceKept
===============================================================================
