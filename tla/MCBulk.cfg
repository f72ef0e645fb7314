CONSTANTS
  Txns = {t1, t2, t3}
  Keys = {k1, k2}
  Postings = {p1, p2}
  p1 = p1  p2 = p2
  NoTx = NoTx  Nil = Nil
  Choices = {"interested", "dismissed"}
  Batches <- mcBatches
  Expecting = {TRUE, FALSE}
SPECIFICATION Spec
SYMMETRY mcSymmetry
INVARIANTS Consistent VersionedBatchOnce
PROPERTIES BatchWhole BatchSeesItsVersions BatchRegisterSpec
