------------------------------- MODULE MCTab ---------------------------------
EXTENDS Tab, TLC
CONSTANTS p1, p2, open, yes, no, applied, phone, ping

MCPostings ==
    {(p1 :> [triage |-> a, at |-> 0]) @@ (p2 :> [triage |-> b, at |-> 0]) :
        a \in {open}, b \in {open, no}}
MCApplications ==
    {[i \in {p1, p2} |-> [status |-> applied, actor |-> "bot", suggested |-> phone, next |-> None,
                      notes |-> 0, at |-> 0]]}
MCChanges == {[kind |-> "confirm"], [kind |-> "note"], [kind |-> "next", to |-> ping]}
MCTexts == {None, "user", "bot", applied, phone, ping, open, yes, no}
MCForeign ==
    [page \in {"jobs", "queue", "pipeline"} |->
        IF page = "pipeline" THEN {[kind |-> "status", to |-> phone]}
        ELSE {[kind |-> "triage", to |-> no]}]
=============================================================================
