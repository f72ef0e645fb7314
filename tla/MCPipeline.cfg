CONSTANTS
  Txns = {t1, t2, t3}
  Keys = {k1, k2}
  Postings = {p1}
  NoDate = NoDate  NoTx = NoTx  Nil = Nil  Gone = Gone
  Choices <- mcTwoChoices
  Statuses = {"Inbox", "Queued", "Applied", "Rejected"}
  Nexts = {"", "call"}
  Stamps = {"", "mail"}
  Signals <- mcMixedSignals
  Births <- mcBorn
  Offered = {"app_set_status", "app_resolve_suggestion", "app_add_note", "app_set_next_action", "hq_apply_email_event"}
  Swept = {}
  Arriving = {}
SPECIFICATION Spec
SYMMETRY mcSymmetry
INVARIANTS Idempotent
PROPERTIES CompareAndSet BotsDefer
