------------------------------ MODULE Pipeline ------------------------------
(***************************************************************************)
(* The application row: the four gestures of the pipeline page, and the    *)
(* engine lane that applies a classified email.                            *)
(***************************************************************************)
EXTENDS Commands

StatusGesture(p, id, s, note, expect) ==
  [cmd |-> "app_set_status", posting |-> p, id |-> id, expect |-> expect,
   arg |-> [status |-> s, note |-> note]]
ResolveGesture(p, id, decision, expect) ==
  [cmd |-> "app_resolve_suggestion", posting |-> p, id |-> id, expect |-> expect,
   arg |-> [decision |-> decision]]
NoteGesture(p, id) ==
  [cmd |-> "app_add_note", posting |-> p, id |-> id, expect |-> Nil, arg |-> [note |-> TRUE]]
NextGesture(p, id, n, expect) ==
  [cmd |-> "app_set_next_action", posting |-> p, id |-> id, expect |-> expect,
   arg |-> [next |-> n]]
EmailGesture(p, signal) ==
  [cmd |-> EmailCommand, posting |-> p, id |-> 0, expect |-> Nil, arg |-> signal]

Event(t, kind, appId, to) ==
  [key |-> key[t], kind |-> kind, posting |-> P(t), id |-> appId, to |-> to]

(* select ... for update on the caller's application, by its id *)
LockApplication(t) ==
  /\ pc[t] = "lock" /\ Cmd(t) \in RowCommands
  /\ \/ app[P(t)] = Nil /\ Fail(t, "gone")
     \/ app[P(t)] # Nil /\ app[P(t)].id # G(t).id /\ Fail(t, "gone")
     \/ /\ app[P(t)] # Nil /\ app[P(t)].id = G(t).id
        /\ appLock[P(t)] = NoTx
        /\ appLock' = [appLock EXCEPT ![P(t)] = t]
        /\ Goto(t, "check")
        /\ UNCHANGED <<tables, gest, clock, session, res, reply, writes, upLock>>

(* Update the locked row, append the event, answer with the row. *)
WriteApplication(t, row, kind, to) ==
  /\ wApp' = [wApp EXCEPT ![t] = row]
  /\ wEv'  = [wEv EXCEPT ![t] = Event(t, kind, row.id, to)]
  /\ res'  = [res EXCEPT ![t] = row]
  /\ Goto(t, "commit")
  /\ UNCHANGED <<tables, gest, clock, session, reply, wUp, locks>>

(* Reopening a finished application needs a note.  Saying again what the   *)
(* row says is a no-op only when a person had said it.                     *)
AppSetStatus(t) ==
  LET row == app[P(t)]
      g == G(t).arg
      reopening == row.status \in Finished /\ g.status \notin Finished
      same == row.status = g.status /\ row.actor = "user" /\ ~g.note
  IN /\ pc[t] = "check" /\ Cmd(t) = "app_set_status"
     /\ \/ AnswerStored(t)
        \/ ~Hit(t) /\ reopening /\ ~g.note /\ Fail(t, "reopen")
        \/ ~Hit(t) /\ same /\ AnswerUnchanged(t, row)
        \/ ~Hit(t) /\ ~(reopening /\ ~g.note) /\ ~same /\ Stale(t, row) /\ Fail(t, "conflict")
        \/ /\ ~Hit(t) /\ ~(reopening /\ ~g.note) /\ ~same /\ ~Stale(t, row)
           /\ WriteApplication(t,
                [row EXCEPT !.status = g.status, !.actor = "user", !.sugg = "", !.ver = now[t],
                            !.notes = IF g.note THEN @ \cup {key[t]} ELSE @],
                "status", g.status)

(* Confirming a suggestion is a human decision about the status; rejecting *)
(* it only clears the suggestion.  Neither asks whether this reopens.      *)
AppResolveSuggestion(t) ==
  LET row == app[P(t)]
  IN /\ pc[t] = "check" /\ Cmd(t) = "app_resolve_suggestion"
     /\ \/ AnswerStored(t)
        \/ ~Hit(t) /\ row.sugg = "" /\ AnswerUnchanged(t, row)
        \/ ~Hit(t) /\ row.sugg # "" /\ Stale(t, row) /\ Fail(t, "conflict")
        \/ /\ ~Hit(t) /\ row.sugg # "" /\ ~Stale(t, row) /\ G(t).arg.decision = "confirm"
           /\ WriteApplication(t,
                [row EXCEPT !.status = row.sugg, !.actor = "user", !.sugg = "", !.ver = now[t]],
                "confirmed", row.sugg)
        \/ /\ ~Hit(t) /\ row.sugg # "" /\ ~Stale(t, row) /\ G(t).arg.decision = "reject"
           /\ WriteApplication(t, [row EXCEPT !.sugg = "", !.ver = now[t]],
                "rejected", row.sugg)

(* Mutant of AppAddNote: no second lookup. *)
AppAddNoteAskedOnce(t) ==
  LET row == app[P(t)]
  IN /\ pc[t] = "check" /\ Cmd(t) = "app_add_note"
     /\ WriteApplication(t, [row EXCEPT !.notes = @ \cup {key[t]}], "note", "")

(* A note is a row of its own: the application's version does not move. *)
AppAddNote(t) ==
  LET row == app[P(t)]
  IN /\ pc[t] = "check" /\ Cmd(t) = "app_add_note"
     /\ \/ AnswerStored(t)
        \/ ~Hit(t) /\ WriteApplication(t, [row EXCEPT !.notes = @ \cup {key[t]}], "note", "")

(* Mutant of AppSetNextAction: the version is kept. *)
AppSetNextActionUnversioned(t) ==
  LET row == app[P(t)]
      n == G(t).arg.next
  IN /\ pc[t] = "check" /\ Cmd(t) = "app_set_next_action"
     /\ \/ AnswerStored(t)
        \/ ~Hit(t) /\ row.next = n /\ AnswerUnchanged(t, row)
        \/ ~Hit(t) /\ row.next # n /\ Stale(t, row) /\ Fail(t, "conflict")
        \/ ~Hit(t) /\ row.next # n /\ ~Stale(t, row)
           /\ WriteApplication(t, [row EXCEPT !.next = n], "next", n)

AppSetNextAction(t) ==
  LET row == app[P(t)]
      n == G(t).arg.next
  IN /\ pc[t] = "check" /\ Cmd(t) = "app_set_next_action"
     /\ \/ AnswerStored(t)
        \/ ~Hit(t) /\ row.next = n /\ AnswerUnchanged(t, row)
        \/ ~Hit(t) /\ row.next # n /\ Stale(t, row) /\ Fail(t, "conflict")
        \/ ~Hit(t) /\ row.next # n /\ ~Stale(t, row)
           /\ WriteApplication(t, [row EXCEPT !.next = n, !.ver = now[t]], "next", n)

-----------------------------------------------------------------------------
(***************************************************************************)
(* hq_apply_email_event.  A signal is what the classifier concluded:       *)
(*   status       the status named ("" when none)                          *)
(*   hard         the classifier is sure                                   *)
(*   create       the caller allows a new application                      *)
(*   stamp        the evidence link and activity date it carries           *)
(*   sheetStatus, sheetActor   the second store's pair ("" when none)      *)
(* The key is built from the event and the conclusion, so one key is one   *)
(* signal about one posting.                                               *)
(***************************************************************************)

(* "Unapplied" is noted once per conclusion: an existence check on the     *)
(* trail as of this statement, without a lock and without a stored result. *)
NoteUnapplied(t) ==
  /\ wEv' = [wEv EXCEPT ![t] =
       IF \E i \in 1 .. Len(events) : events[i].kind = "unapplied" /\ events[i].key = key[t]
         THEN Nil ELSE Event(t, "unapplied", Nil, "")]
  /\ Goto(t, "noted")
  /\ UNCHANGED <<tables, gest, clock, session, res, reply, wUp, wApp, locks>>

(* Neither no_posting nor no_application is stored, so that a later run tries again. *)
CommitUnapplied(t) ==
  /\ pc[t] = "noted"
  /\ events' = IF wEv[t] = Nil THEN events ELSE Append(events, wEv[t])
  /\ Goto(t, "done")
  /\ reply' = [reply EXCEPT ![t] = "unapplied"]
  /\ DropWrites(t)
  /\ UNCHANGED <<up, app, idem, board, gest, clock, session, res, locks>>

LockFound(t) ==
  /\ app[P(t)] # Nil /\ appLock[P(t)] = NoTx
  /\ appLock' = [appLock EXCEPT ![P(t)] = t]
  /\ Goto(t, "check")
  /\ UNCHANGED <<tables, gest, clock, session, res, reply, writes, upLock>>

(* A posting the sweep has not mirrored, and a missing application the     *)
(* caller does not want created, are answered, not raised.                 *)
EmailFind(t) ==
  /\ pc[t] = "lock" /\ Cmd(t) = EmailCommand
  /\ \/ board[P(t)] = "absent" /\ NoteUnapplied(t)
     \/ board[P(t)] # "absent" /\ LockFound(t)
     \/ board[P(t)] # "absent" /\ app[P(t)] = Nil /\ ~G(t).arg.create /\ NoteUnapplied(t)
     \/ /\ board[P(t)] # "absent" /\ app[P(t)] = Nil /\ G(t).arg.create
        /\ Goto(t, "insert")
        /\ UNCHANGED <<tables, gest, clock, session, res, reply, writes, locks>>

(* Some transaction has written the application and not committed yet. *)
BeingWritten(p) == appLock[p] # NoTx /\ wApp[appLock[p]] # Nil

(* insert ... on conflict do nothing: an uncommitted insert, update or     *)
(* delete of the conflicting row is waited for, a mere row lock is not.    *)
EmailInsert(t) ==
  /\ pc[t] = "insert" /\ Cmd(t) = EmailCommand
  /\ \/ /\ app[P(t)] = Nil /\ appLock[P(t)] = NoTx
        /\ appLock' = [appLock EXCEPT ![P(t)] = t]
        /\ wApp' = [wApp EXCEPT ![t] =
             [id |-> now[t], status |-> "Inbox", actor |-> "system", sugg |-> "",
              next |-> "", seen |-> G(t).arg.stamp,
              notes |-> {}, ver |-> now[t]]]
        /\ Goto(t, "check")
        /\ UNCHANGED <<tables, gest, clock, session, res, reply, wUp, wEv, upLock>>
     \/ /\ app[P(t)] # Nil /\ ~BeingWritten(P(t))
        /\ Goto(t, "again")
        /\ UNCHANGED <<tables, gest, clock, session, res, reply, writes, locks>>

(* Lost the insert race: select the winner's row.  Nothing asks whether    *)
(* the select found one.                                                   *)
EmailFindAgain(t) ==
  /\ pc[t] = "again"
  /\ \/ LockFound(t)
     \/ /\ app[P(t)] = Nil
        /\ Goto(t, "check")
        /\ UNCHANGED <<tables, gest, clock, session, res, reply, writes, locks>>

(* v_row: the row just inserted, the row locked, or all nulls *)
EmailRow(t) ==
  IF wApp[t] # Nil THEN wApp[t] ELSE IF appLock[P(t)] = t THEN app[P(t)] ELSE Nil

EmailResult(outcome, row) ==
  IF row = Nil THEN [outcome |-> outcome, id |-> Nil, status |-> "", sugg |-> ""]
  ELSE [outcome |-> outcome, id |-> row.id, status |-> row.status, sugg |-> row.sugg]

(* Mutants of EmailWrite: an advance is suggested instead of written; an   *)
(* email with nothing to suggest clears the suggestion.                    *)
EmailWriteTimidly(t, row, outcome) ==
  LET s == G(t).arg
      new == [row EXCEPT !.sugg = IF outcome \in {"locked", "suggested", "advanced"}
                                    THEN s.status ELSE @,
                         !.seen = s.stamp]
  IN IF new = row THEN row ELSE [new EXCEPT !.ver = now[t]]

EmailWriteForgetful(t, row, outcome) ==
  LET s == G(t).arg
      new == [row EXCEPT !.status = IF outcome = "advanced" THEN s.status ELSE @,
                         !.sugg = IF outcome \in {"locked", "suggested"} THEN s.status ELSE "",
                         !.seen = s.stamp]
  IN IF new = row THEN row ELSE [new EXCEPT !.ver = now[t]]

(* The row after the email.  A bot writes neither status_actor nor, unless *)
(* something changes, the version.                                         *)
EmailWrite(t, row, outcome) ==
  LET s == G(t).arg
      new == [row EXCEPT !.status = IF outcome = "advanced" THEN s.status ELSE @,
                         !.sugg = IF outcome \in {"locked", "suggested"} THEN s.status ELSE @,
                         !.seen = s.stamp]
  IN IF new = row THEN row ELSE [new EXCEPT !.ver = now[t]]

(* The trigger applications_human_status_lock, which raises on any update  *)
(* of a claimed row's status that is not declared human.                   *)
Overrules(old, new) ==
  old # Nil /\ old.actor = "user" /\ (new.status # old.status \/ new.actor # old.actor)

HqApplyEmailEvent(t) ==
  LET row == EmailRow(t)
      outcome == IF row = Nil THEN EmailOutcome("", "", G(t).arg)
                 ELSE EmailOutcome(row.status, row.actor, G(t).arg)
      after == IF row = Nil THEN Nil ELSE EmailWrite(t, row, outcome)
  IN /\ pc[t] = "check" /\ Cmd(t) = EmailCommand
     /\ \/ AnswerStored(t)
        \/ /\ ~Hit(t)
           /\ IF Overrules(row, after) THEN Fail(t, "claimed")
              ELSE /\ wApp' = [wApp EXCEPT ![t] = after]
                   /\ wEv' = [wEv EXCEPT ![t] =
                        Event(t, outcome, IF row = Nil THEN Nil ELSE row.id, G(t).arg.status)]
                   /\ res' = [res EXCEPT ![t] = EmailResult(outcome, after)]
                   /\ Goto(t, "commit")
                   /\ UNCHANGED <<tables, gest, clock, session, reply, wUp, locks>>

PipelineStep(t) ==
  \/ LockApplication(t)
  \/ AppSetStatus(t)
  \/ AppResolveSuggestion(t)
  \/ AppAddNote(t)
  \/ AppSetNextAction(t)
  \/ EmailFind(t)
  \/ EmailInsert(t)
  \/ EmailFindAgain(t)
  \/ HqApplyEmailEvent(t)
  \/ CommitUnapplied(t)
=============================================================================
