SPECIFICATION Spec
CONSTANTS
  Key = {k1}
  Tx = {t1, t2}
  RootFile = {queue, worker}
  ExtraFile = {source}
  NoKey = NoKey
  NoTx = NoTx
INVARIANT RecoverableAlways
