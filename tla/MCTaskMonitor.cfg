SPECIFICATION FairSpec
CONSTANTS
  a = a  b = b  r1 = r1  r12 = r12
  Task = {a, b}  Wanted = {a, b}
  Matched <- MCMatched
  Text = {1, 2, 3}  None = None
  NameOf <- MCNameOf  IdRead <- MCIdRead  Grepped <- MCGrepped
  Initial <- MCInitial
  MaxTroubles = 2
INVARIANTS RecordedIsGenerated IdOfItsTask
 
CHECK_DEADLOCK FALSE
