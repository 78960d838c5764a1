CONSTANTS
  HidCmdMaxLen = 64
  Lens <- MCLens
  SeqNos <- MCSeqNos
SPECIFICATION Spec
INVARIANTS TypeOK WrapHeaderBigEndian
