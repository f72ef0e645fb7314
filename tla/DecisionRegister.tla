-------------------------- MODULE DecisionRegister --------------------------
(***************************************************************************)
(* What triage promises, with no transactions, locks or deliveries: per    *)
(* posting a versioned register that holds the user's decision, and per    *)
(* idempotency key at most one answer.  A decision takes effect in one     *)
(* step, only on the version its caller read, and puts an answer under its *)
(* key in that same step; asking again changes nothing.                    *)
(***************************************************************************)
CONSTANTS Keys, Postings, NoDate, Nil

VARIABLES
  row,      \* posting -> [choice, ver]
  live,     \* the postings that have an application
  answer,   \* key -> what the key's caller is told, or Nil
  ask       \* key -> the gesture minted under it, or Nil

vars == <<row, live, answer, ask>>

Deciding == {"app_set_triage", "hq_digest_set_triage"}

Ask(k) ==
  /\ ask[k] = Nil /\ ask'[k] # Nil
  /\ \A j \in Keys \ {k} : ask'[j] = ask[j]
  /\ UNCHANGED <<row, live, answer>>

Open(k) == answer[k] = Nil /\ ask[k] # Nil /\ ask[k].cmd \in Deciding

Expected(k) == ask[k].expect = Nil \/ row[ask[k].posting].ver = ask[k].expect

(* A digest link says nothing about the reason. *)
Agrees(k) ==
  LET now == row[ask[k].posting].choice
  IN IF ask[k].cmd = "app_set_triage" THEN now = ask[k].arg
     ELSE now.triage = ask[k].arg.triage /\ now.wake = NoDate

Answered(k, r) == answer' = [answer EXCEPT ![k] = r]

(* The decision is made: a new version, the answer, and the application:   *)
(* interested postings have one, others may lose theirs.                   *)
Decide(k) ==
  LET p == ask[k].posting
  IN /\ Open(k) /\ Expected(k) /\ ~Agrees(k)
     /\ row' = [row EXCEPT ![p] = [choice |-> ask[k].arg, ver |-> row'[p].ver]]
     /\ row'[p].ver # row[p].ver
     /\ live' \in IF ask[k].arg.triage = "interested" THEN {live \cup {p}}
                  ELSE {live, live \ {p}}
     /\ Answered(k, row'[p])
     /\ UNCHANGED ask

(* The decision is already what the row says. *)
Keep(k) ==
  /\ Open(k) /\ Agrees(k)
  /\ Answered(k, row[ask[k].posting])
  /\ UNCHANGED <<row, live, ask>>

(* Commands about the application answer their own keys; they touch no     *)
(* decision and take no application away.                                  *)
Elsewhere ==
  /\ UNCHANGED <<row, ask>>
  /\ live \subseteq live'
  /\ \A k \in Keys : answer'[k] # answer[k] =>
       answer[k] = Nil /\ ask[k] # Nil /\ ask[k].cmd \notin Deciding

Init ==
  /\ \A p \in Postings : row[p].choice.triage = "" /\ row[p].ver = 0
  /\ answer = [k \in Keys |-> Nil]
  /\ ask = [k \in Keys |-> Nil]
  /\ live \subseteq Postings

Next ==
  \/ \E k \in Keys : Ask(k) \/ Decide(k) \/ Keep(k)
  \/ Elsewhere

Spec == Init /\ [][Next]_vars
=============================================================================
