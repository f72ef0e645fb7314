------------------------------- MODULE Claims -------------------------------
(***************************************************************************)
(* What comments and documents of the repository say of the commands and   *)
(* the commands do not do.  Each property is the sentence quoted above it, *)
(* stated over Lifecycle; a run of its own shows how it fails.             *)
(***************************************************************************)
EXTENDS Lifecycle

(* "only while it is still bot-untouched ... once a bot has advanced it or *)
(* a human moved it, the application is evidence of something that really  *)
(* happened, and it must survive": triage never buries an application      *)
(* whose status a person has set.                                          *)
OnlyUntouchedBuried ==
  [][\A p \in Postings :
       app[p] # Nil /\ app'[p] = Nil => app[p].actor = "system"]_vars

(* "The winner's row is the row; take the lock on it and carry on as if it *)
(* had been there all along": an email recorded as applied names a row.    *)
EmailFindsItsRow ==
  \A k \in Keys :
    idem[k] # Nil /\ idem[k].cmd = EmailCommand => idem[k].res.id # Nil
=============================================================================
