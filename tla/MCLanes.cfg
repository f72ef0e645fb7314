CONSTANTS
  Txns = {t1, t2, t3}
  Keys = {k1, k2}
  Postings = {p1}
  NoDate = NoDate  NoTx = NoTx  Nil = Nil  Gone = Gone
  Choices <- mcAllChoices
  Statuses = {"Inbox", "Queued", "Applied"}
  Nexts = {""}
  Stamps = {"", "mail"}
  Signals <- mcConfirmation
  Births <- mcUnborn
  Offered = {"app_set_triage", "hq_digest_set_triage", "app_set_status", "hq_apply_email_event"}
  Swept = {p1}
  Arriving = {p1}
SPECIFICATION Spec
SYMMETRY mcSymmetry
INVARIANTS TypeOK TrailAgrees InterestedHasApplication Idempotent
PROPERTIES MovedOnSurvives RefusedMeansUnapplied RegisterSpec
