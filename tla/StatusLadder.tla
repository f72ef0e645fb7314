---------------------------- MODULE StatusLadder ----------------------------
(***************************************************************************)
(* The status vocabulary of an application and the one comparison the      *)
(* engine makes on it: is a move forward?  The ladder itself is ordered,   *)
(* a finished application ranks above every rung of it, an ending only a   *)
(* person may write ranks above that, and a status nobody catalogued is    *)
(* out of every bot's reach.                                               *)
(***************************************************************************)
EXTENDS Integers, Sequences

StatusOrder == <<"Inbox", "Queued", "Applied", "OA",
                 "Screen", "Interview", "Final", "Offer">>

OnLadder == {StatusOrder[i] : i \in 1 .. 8}
Terminal == {"Rejected", "Withdrawn", "Closed"}
Resolved == {"Offer-Accepted", "Offer-Declined"}
Finished == Terminal \cup Resolved

(* array_position is 1-based in SQL; 8 is left unused on purpose. *)
Rung(s) == CHOOSE i \in 1 .. 8 : StatusOrder[i] = s

Rank(s) ==
  IF s = "" THEN -1
  ELSE IF s \in OnLadder THEN Rung(s) - 1
  ELSE IF s \in Terminal THEN 9
  ELSE IF s \in Resolved THEN 10
  ELSE 11

(* greatest(...) of the two stores' ranks. *)
FurthestRank(a, b) == IF Rank(a) >= Rank(b) THEN Rank(a) ELSE Rank(b)

(***************************************************************************)
(* What one classified email concludes about one application row, from     *)
(* the row's status and actor, the second store's pair, the status the     *)
(* email names and whether the classifier was sure (hard).  The order of   *)
(* the tests is the code's: a human claim is asked about before the rank.  *)
(***************************************************************************)
EmailOutcome(status, actor, signal) ==
  IF signal.status = "" THEN "matched"
  ELSE IF ~signal.hard THEN "suggested"
  ELSE IF actor = "user" \/ signal.sheetActor \notin {"", "system"} THEN "locked"
  ELSE IF Rank(signal.status) <= FurthestRank(status, signal.sheetStatus) THEN "kept"
  ELSE "advanced"

EmailOutcomes == {"matched", "suggested", "locked", "kept", "advanced"}
=============================================================================
