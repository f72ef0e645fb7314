CONSTANTS
  Txns = {t1, t2}
  Keys = {k1}
  Postings = {p1, p2}
  p1 = p1  p2 = p2
  NoTx = NoTx  Nil = Nil
  Choices = {"interested", "dismissed"}
  Batches <- mcBatches
  Expecting = {TRUE}
SPECIFICATION Spec
SYMMETRY mcSymmetry
PROPERTIES BatchReplayAnswered
