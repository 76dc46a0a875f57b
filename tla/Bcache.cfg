CONSTANTS
  Proc = {p1, p2}
  Killable = {p1}
  Buf = {x1, x2}
  Block = {k1, k2, k3}
  NoBlock = NoBlock
  Nobody = Nobody
  MaxPins = 1
  MaxWrites = 2
SPECIFICATION FairSpec
INVARIANTS TypeOK OneBufferPerBlock BufferIsMine RefcntExact Coherent
PROPERTY BreadReturns
CHECK_DEADLOCK FALSE
