------------------------------- MODULE MCImport -------------------------------
(* Instances of ImportBatch for TLC. *)
EXTENDS ImportBatch

\* A posting's application a person has decided on, and one with no posting.
MCExisting == <<
    [key |-> "k1", name |-> "n1", status |-> "Applied", actor |-> "user",
     next |-> "mail", version |-> 2],
    [key |-> "", name |-> "n2", status |-> "Inbox", actor |-> "system",
     next |-> "", version |-> 2]>>

FileRow(hqId, token, key, strength, name, status, next) ==
    [hqId |-> hqId, token |-> token, key |-> key, strength |-> strength,
     name |-> name, status |-> status, next |-> next]

\* A fresh round trip that clears a cell, and a marker where none may be.
RoundTripFile == <<
    FileRow(1, 2, "k1", "strong", "n1", "Interview", Unset),
    FileRow(0, 0, "k9", "strong", "n3", Unset, "call")>>

\* A round trip of an older export, whose status still agrees and whose next action
\* does not, and a lookalike.
OldFile == <<
    FileRow(1, 1, "k1", "strong", "n1", "Applied", "call"),
    FileRow(0, 0, "w2", "weak", "n2", "Applied", "")>>

\* Two rows that are one application, and more rows than a chunk takes.
DoubleFile == <<
    FileRow(0, 0, "k8", "strong", "n2", "Applied", ""),
    FileRow(0, 0, "k7", "strong", "n2", "", "call"),
    FileRow(0, 0, "k9", "strong", "n3", "", "call")>>

\* A status under a person's lock, and that row once more.
LockedFile == <<
    FileRow(0, 0, "k1", "strong", "n1", "Interview", ""),
    FileRow(7, 2, "k1", "strong", "n5", "Offer", "")>>

\* A row without a key, and one without a name.
PlainFile == <<
    FileRow(0, 0, "", "none", "n3", "", ""),
    FileRow(0, 0, "k7", "strong", "", "Applied", "")>>

MCEntries == {"", Unset, "user", "system", "Inbox", "Applied", "Interview", "Offer", "mail",
              "call", "k1", "k7", "k8", "k9", "w2", "n1", "n2", "n3", "n5"}

MCFiles == {RoundTripFile, OldFile, DoubleFile, LockedFile, PlainFile}

\* A round trip with more rows than a chunk takes.
MCStaleFiles == {RoundTripFile \o <<FileRow(0, 0, "k8", "strong", "n2", "Applied", "")>>}
===============================================================================
