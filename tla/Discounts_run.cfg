SPECIFICATION Spec
CONSTANTS
  tuition = tuition
  books = books
  None = None
  Rule = {u, v}
  Discount = {d, e}
  Student = {ann}
  Item = {tuition, books}
  Price <- MCPrice
  Basket <- MCBasket
  Terms <- MCTerms
  MaxPercent = 60
  MaxInvoices = 2
  MaxEdits = 2
  Request = {r1, r2}
SYMMETRY Symmetry
INVARIANTS
  TypeOK
  QuotaIsBounded
  StackingIsSound
  UsedRuleIsKept
