---------------------------- MODULE BatchRegister ----------------------------
(***************************************************************************)
(* What a bulk triage promises, with no loop, locks, buffers or            *)
(* deliveries: the batch takes effect in one step, on every posting it     *)
(* lists or on none, and puts one answer under its key.                    *)
(***************************************************************************)
CONSTANTS Keys, Postings, Nil

VARIABLES
  row,      \* posting -> [choice, ver]
  status,   \* of the posting's application: "none", "Queued" or "moved"
  answer,   \* key -> the rows its caller is told, or Nil
  ask       \* key -> [batch, choice, expect], or Nil

vars == <<row, status, answer, ask>>

Ask(k) ==
  /\ ask[k] = Nil /\ ask'[k] # Nil
  /\ \A j \in Keys \ {k} : ask'[j] = ask[j]
  /\ UNCHANGED <<row, status, answer>>

Places(k)  == DOMAIN ask[k].batch
Guarded(k) == {ask[k].batch[i] : i \in {j \in Places(k) : ask[k].expect[j] # Nil}}

Expected(k) ==
  \A i \in Places(k) : ask[k].expect[i] # Nil => row[ask[k].batch[i]].ver = ask[k].expect[i]

(* The postings that do not have the decision yet.                         *)
Moving(k) == {p \in {ask[k].batch[i] : i \in Places(k)} : row[p].choice # ask[k].choice}

(* An application appears with interest, and goes with it while untouched. *)
Follows(p, choice) ==
  IF choice = "interested" /\ status[p] = "none" THEN "Queued"
  ELSE IF choice # "interested" /\ status[p] = "Queued" THEN "none"
  ELSE status[p]

(* All of them get the decision and one version, which no posting had;     *)
(* nothing else moves.                                                     *)
Decided(k) ==
  /\ ask[k] # Nil /\ Expected(k)
  /\ row' = [p \in Postings |->
       IF p \in Moving(k) THEN [choice |-> ask[k].choice, ver |-> row'[p].ver] ELSE row[p]]
  /\ \A p \in Moving(k) : \A q \in Moving(k) : row'[p].ver = row'[q].ver
  /\ \A p \in Moving(k) : \A q \in Postings : row'[p].ver # row[q].ver
  /\ status' = [p \in Postings |->
       IF p \in Moving(k) THEN Follows(p, ask[k].choice) ELSE status[p]]
  /\ UNCHANGED ask

(* The first delivery to take effect; its caller is told every row.        *)
Decide(k) ==
  /\ answer[k] = Nil /\ Decided(k)
  /\ answer' = [answer EXCEPT ![k] = [i \in Places(k) |-> row'[ask[k].batch[i]]]]

(* The key may take effect again, but on no posting whose version its      *)
(* caller named, and the first answer stands.                              *)
DecideAgain(k) ==
  /\ answer[k] # Nil /\ Decided(k)
  /\ Moving(k) \cap Guarded(k) = {}
  /\ UNCHANGED answer

(* Another lane moves an application on.                                   *)
Elsewhere ==
  /\ \E p \in Postings : status' = [status EXCEPT ![p] = "moved"]
  /\ UNCHANGED <<row, answer, ask>>

Init ==
  /\ row = [p \in Postings |-> [choice |-> "", ver |-> 0]]
  /\ status = [p \in Postings |-> "none"]
  /\ answer = [k \in Keys |-> Nil]
  /\ ask = [k \in Keys |-> Nil]

Next ==
  \/ \E k \in Keys : Ask(k) \/ Decide(k) \/ DecideAgain(k)
  \/ Elsewhere

Spec == Init /\ [][Next]_vars
=============================================================================
