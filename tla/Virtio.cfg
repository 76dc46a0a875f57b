CONSTANTS
  Proc = {p1, p2, p3}
  Nobody = Nobody
  Killable = {p1}
  Faulty = {p1}
  Intr = Intr
  NUM = 7
  UINT16 = 14
SPECIFICATION FairSpec
INVARIANTS DescriptorsAccounted TransferBeforeReturn RequestsAccounted
PROPERTIES RequestReturns LastWaiterServed
CHECK_DEADLOCK FALSE
