SPECIFICATION Spec
CONSTANTS
  Requests = {r1, r2, r3}
  Contents = {k1, k2, k3}
  Size <- OneByte
  OldContents <- AtMostOne
  Quotas <- MCQuotas
  Batches <- MCBatches
  MaxFaults = 1
  Nil = Nil
SYMMETRY Symmetry
INVARIANTS
  BlobsFollowArtifacts
  LedgerFollowsArtifacts
  TotalsMatchLedger
  QuotaRespected
CHECK_DEADLOCK FALSE
