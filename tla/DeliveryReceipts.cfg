CONSTANTS
  t1 = t1
  t2 = t2
  t3 = t3
  p1 = p1
  h1 = h1
  h2 = h2
  Times = {t1, t2, t3}
  Texts = {t1}
  Groups = {t3}
  Linked = {t2, t3}
  Retimed = {t2}
  Members = {p1}
  Handlers = {h1, h2}
  CacheSize = 1
  Repeated = {t2}
  MaxDeliveries = 2
  MaxCrashes = 1
SYMMETRY Symmetry
SPECIFICATION Spec
INVARIANTS TypeOK CountedOnce DeliveryShown
CHECK_DEADLOCK FALSE
