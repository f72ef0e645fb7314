CONSTANTS
  Txns = {t1, t2}
  Keys = {k1, k2}
  Postings = {p1}
  NoDate = NoDate  NoTx = NoTx  Nil = Nil  Gone = Gone
  Choices <- mcTwoChoices
  Statuses = {"Inbox", "Queued", "Applied"}
  Nexts = {""}
  Stamps = {"", "mail"}
  Signals <- mcConfirmation
  Births <- mcMaybeBorn
  Offered = {"app_set_triage", "hq_digest_set_triage", "app_set_status", "app_add_note", "hq_apply_email_event"}
  Swept = {}
  Arriving = {}
SPECIFICATION FairSpec
PROPERTIES EveryCallEnds
