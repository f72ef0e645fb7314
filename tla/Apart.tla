--------------------------------- MODULE Apart ---------------------------------
(* Parts of the system that share no state with one another and whose steps can *)
(* be cut short, repeated or overlapped: lifecycle mail, the discovery push, an  *)
(* import, the autopilot's staging record, the order in which the sweep walks    *)
(* its boards, the wide sweep's cursor, the LinkedIn ids and the capture of      *)
(* mail. A behaviour works one of them and leaves the others where they began.   *)
EXTENDS EmailSends, PushOutbox, ImportBatch, Autopilot,
        BoardRotation, WideSweep, LinkedInFill, Capture

VARIABLE working   \* the part that works

parts == <<mailVars, pushVars, importVars, autopilotVars,
           rotationVars, wideVars, fillVars, captureVars>>
vars == <<working, parts>>

Init ==
    /\ working \in {"mail", "push", "import", "autopilot",
                     "rotation", "wide", "linkedin", "capture"}
    /\ MailInit /\ PushInit /\ ImportInit /\ AutopilotInit
    /\ RotationInit /\ WideInit /\ FillInit /\ CaptureInit
    \* What a part begins with matters only when it is the one that works.
    /\ working # "push" => board = {} /\ ~quiet
    /\ working # "import" => file = CHOOSE f \in Files : TRUE
    /\ working # "autopilot" => stages = CHOOSE r \in Records : TRUE
    /\ working # "rotation" => listedBoards = {}
    /\ working # "linkedin" => \A b \in CompanyRows : companies[b].born

Mail ==
    /\ working = "mail" /\ MailNext
    /\ UNCHANGED <<working, pushVars, importVars, autopilotVars,
                   rotationVars, wideVars, fillVars, captureVars>>
Pushing(A) ==
    /\ working = "push" /\ A
    /\ UNCHANGED <<working, mailVars, importVars, autopilotVars,
                   rotationVars, wideVars, fillVars, captureVars>>
Imports ==
    /\ working = "import" /\ ImportNext
    /\ UNCHANGED <<working, mailVars, pushVars, autopilotVars,
                   rotationVars, wideVars, fillVars, captureVars>>
Staging ==
    /\ working = "autopilot" /\ AutopilotNext
    /\ UNCHANGED <<working, mailVars, pushVars, importVars,
                   rotationVars, wideVars, fillVars, captureVars>>
Walking ==
    /\ working = "rotation" /\ RotationNext
    /\ UNCHANGED <<working, mailVars, pushVars, importVars, autopilotVars,
                   wideVars, fillVars, captureVars>>
Buying ==
    /\ working = "wide" /\ WideNext
    /\ UNCHANGED <<working, mailVars, pushVars, importVars, autopilotVars,
                   rotationVars, fillVars, captureVars>>
Filling ==
    /\ working = "linkedin" /\ FillNext
    /\ UNCHANGED <<working, mailVars, pushVars, importVars, autopilotVars,
                   rotationVars, wideVars, captureVars>>
Capturing ==
    /\ working = "capture" /\ CaptureNext
    /\ UNCHANGED <<working, mailVars, pushVars, importVars, autopilotVars,
                   rotationVars, wideVars, fillVars>>

Next ==
    \/ Mail \/ Pushing(PushNext) \/ Imports \/ Staging
    \/ Walking \/ Buying \/ Filling \/ Capturing

\* PushFairness, of the steps as they are taken here. Nothing is assumed of the
\* other parts.
FairSpec ==
    Init /\ [][Next]_vars /\ WF_vars(Pushing(FlushWorks)) /\ WF_vars(Pushing(Wake))
===============================================================================
