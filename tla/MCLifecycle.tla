---------------------------- MODULE MCLifecycle -----------------------------
(***************************************************************************)
(* Small instances of Lifecycle, its claims and its refinement for TLC:    *)
(* the decisions, signals and rows the configurations choose from.         *)
(***************************************************************************)
EXTENDS Claims, LifecycleRefinement, LifecycleInvariants, TLC

Choice(triage, reason, wake) == [triage |-> triage, reason |-> reason, wake |-> wake]

Undecided  == Choice("", "", NoDate)
Interested == Choice("interested", "", NoDate)
Dismissed  == Choice("dismissed", "", NoDate)
Because    == Choice("dismissed", "too far", NoDate)
Snoozed    == Choice("snoozed", "", "friday")

mcThreeChoices == {Undecided, Interested, Dismissed}
mcTwoChoices   == {Undecided, Interested}
mcAllChoices   == {Undecided, Interested, Because, Snoozed}

Signal(status, hard, create) ==
  [status |-> status, hard |-> hard, create |-> create, stamp |-> "mail",
   sheetStatus |-> "", sheetActor |-> ""]

mcNoSignals     == {}
mcConfirmation  == {Signal("Applied", TRUE, TRUE)}
mcMixedSignals  ==
  {Signal("Applied", TRUE, TRUE), Signal("Rejected", TRUE, FALSE), Signal("", FALSE, FALSE),
   [Signal("Rejected", TRUE, FALSE) EXCEPT !.sheetStatus = "Offer", !.sheetActor = "user"]}

Application(status, actor, sugg) ==
  [id |-> 0, status |-> status, actor |-> actor, sugg |-> sugg, next |-> "",
   seen |-> "", notes |-> {}, ver |-> 0]

mcUnborn == {Nil}
mcBorn   == {Application("Queued", "system", "Applied"), Application("Applied", "user", "Rejected")}
mcMaybeBorn == {Nil, Application("Queued", "system", "Applied")}
mcApplied == {Application("Applied", "system", "")}

mcSymmetry == Permutations(Txns) \cup Permutations(Keys)
=============================================================================
