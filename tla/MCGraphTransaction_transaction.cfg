SPECIFICATION Spec
CONSTANTS
  t1 = t1
  t2 = t2
  a = a
  Txs = {t1, t2}
  Keys = {a}
  Seeded = {a}
  Absent = Absent
  Seed = Seed
  Peer = Peer
  Draft = Draft
  None = None
  MaxChanges = 3
  MaxEvents = 1
INVARIANTS AckedIsPushed NoOverwrite StoreIsMain
PROPERTIES RecoveryKeepsChanges ImplementsSerialHistory
SYMMETRY TxSymmetry
CONSTRAINT ShortLogs
