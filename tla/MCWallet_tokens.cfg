SPECIFICATION Spec
CONSTANTS
  basic = basic
  top = top
  Package = {basic, top}
  Price <- MCPrice
  Days <- MCDays
  Slots <- MCSlots
  Bonus <- MCBonus
  Discount <- MCDiscount
  User = {u1}
  Task = {t1, t2}
  Fresh = {t1}
  Card = {c1}
  MaxHash = 2
  MaxActs = 2
  FreeLimit = 1
  CardUnits = 2
  BaseCost = 2
  VideoCost = 1
  Amount = {1}
  Limits = {2}
INVARIANTS WalletKept ChargesMatch CardOnce TimeKept SlotsAgree
CHECK_DEADLOCK FALSE
