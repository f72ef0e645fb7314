-------------------------------- MODULE MCApart --------------------------------
(* Instances of Apart for TLC. *)
EXTENDS Apart, MCImport, TLC

CONSTANTS r1, r2, b1, keyed, p, q

\* One board carries both roles.
MCBoardOf == (r1 :> b1) @@ (r2 :> b1)
MCBoards == {b1}
MCFacts == 1..2

\* The keyed application has a package that waits for its review.
MCRecords == {<<[NewStage(keyed, p) EXCEPT !.state = "ready_for_review"]>>}

\* Two boards of one employer.
MCEmployerOf == [c \in {1, 2} |-> "employer"]

================================================================================
