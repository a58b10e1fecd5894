SPECIFICATION Spec
CONSTANTS
  Agent = {a}
  Client = {c1}
  Other = {o1}
  INBOX_BOUND = 2
  MaxEvents = 4
  MaxGen = 2
  MaxSubs = 2
  None = None
INVARIANTS ClientSees BooksExact
PROPERTY ClosingEnds
