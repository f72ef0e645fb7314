CONSTANTS
  Txns = {t1, t2, t3}
  Keys = {k1, k2, k3}
  Postings = {p1}
  NoDate = NoDate  NoTx = NoTx  Nil = Nil  Gone = Gone
  Choices <- mcThreeChoices
  Statuses = {"Inbox", "Queued", "Applied"}
  Nexts = {""}
  Stamps = {"", "mail"}
  Signals <- mcConfirmation
  Births <- mcUnborn
  Offered = {"app_set_triage", "hq_apply_email_event"}
  Swept = {}
  Arriving = {}
SPECIFICATION Spec
SYMMETRY mcSymmetry
INVARIANTS EmailFindsItsRow
