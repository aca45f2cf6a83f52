SPECIFICATION FairSpec
CONSTANTS
  Key = {k1, k2}
  Tx = {t1, t2, t3}
  RootFile = {queue}
  ExtraFile = {source}
  NoKey = NoKey
  NoTx = NoTx
INVARIANTS
  Recoverable
  AcknowledgedIsDurable
PROPERTIES
  ImplementsAtomicStore
  InterruptedIsResolved
