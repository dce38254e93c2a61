SPECIFICATION FairSpec
CONSTANTS
  f1 = f1
  f2 = f2
  u1 = u1
  u2 = u2
  c1 = c1
  c2 = c2
  p1 = p1
  p2 = p2
  d1 = d1
  d2 = d2
  Follows = {f1, f2}
  Undos = {u1, u2}
  Creates = {c1, c2}
  Updates = {p1, p2}
  Deletes = {d1, d2}
  Undoes <- UndoesMap
  Embedded = {u2}
  Marked = {p1}
  Named = {c1, p2, d2}
  Plans <- PlanSets
  Receipts = {r1, r2}
  Owners = {o1}
  Slow = {c1}
  MaxFaults = 1
INVARIANTS TypeOK HandledByOne AckedIsHandled TakenBackStaysSo FollowerWasTold
PROPERTIES ProcessedIsFinal EveryActivityAnswered EveryRowSettles
