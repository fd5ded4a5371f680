\* Every order of rows the database may choose, for a list and for each id, and the numbers of
\* any call that one of the stored orders may come from.
SPECIFICATION MCSpec
CONSTANTS
  Ids <- MCIds
  Items <- MCItems
  Stored <- MCStored
  ItemsOf <- MCItemsOf
  CreatedAt <- MCCreatedAt
  All = All
  NoItem = NoItem
  Base = 14
  Max32 = 31
  Max64 = 511
  Carts <- MCCarts
  MaxItems = 3
  NewId = NewId
  NoRow = NoRow
  NoEvent = NoEvent
  Products <- MCProducts
  Names <- MCNames
  TooLong <- MCTooLong
  Currencies <- MCCurrencies
  Idr = "IDR"
  Prices <- MCPrices
  NoPrice = NoPrice
  Empty = Empty
  Absent = Absent
  NotFound = NotFound
  MaxMishaps = 2
  p1 = p1
  p2 = p2
  good = good
  long = long
  amount = amount
INVARIANTS
  AnswerIsComplete
  ValuesTypeOK
  TotalIsExact
  EventNamesTheRow
  ReadsBack
  ProductReadsBack
  ProductIsFound
\* A query that has returned is over.
CHECK_DEADLOCK FALSE
