CONSTANTS
  Txns = {t1, t2}
  Keys = {k1, k2}
  Postings = {p1}
  NoDate = NoDate  NoTx = NoTx  Nil = Nil  Gone = Gone
  Choices <- mcThreeChoices
  Statuses = {"Inbox", "Queued", "Applied"}
  Nexts = {""}
  Stamps = {"", "mail"}
  Signals <- mcNoSignals
  Births <- mcApplied
  Offered = {"app_set_triage", "app_set_status"}
  Swept = {}
  Arriving = {}
SPECIFICATION Spec
SYMMETRY mcSymmetry
PROPERTIES OnlyUntouchedBuried
