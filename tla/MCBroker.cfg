SPECIFICATION FairSpec
CONSTANTS
  Requests = {r1, r2}
  Conns = {c1, c2}
  Capacity = 1
  NoConn = NoConn
INVARIANTS
  TypeOK
  NoSendOnClosed
  OfferAccounting
  DeliveryOrder
PROPERTIES
  ImplementsFeed
  CallsReturn
