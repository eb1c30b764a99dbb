CONSTANTS
  r1 = r1
  r2 = r2
  t1 = t1
  t2 = t2
  u1 = u1
  u2 = u2
  w1 = w1
  w2 = w2
  Rows = {"i"}
  Keepers = {k1, k2}
  Stock = 1
  Amounts = {1}
  MaxStock = 2
  NoKeeper = NoKeeper
  NoStockRow = NoStockRow
SPECIFICATION Spec
SYMMETRY Symmetry
CHECK_DEADLOCK FALSE
INVARIANTS
  TypesOK
  StockLedgered
  StockFollowsDispatches
  DispatchedIsShipped
  SlotsAreDisjoint
  OneStory
  DealIsTheLastOffer
  FulfilmentIsDelivered
  StatusesAgree
  PageAgreesWithCheckout
  CreditCheckCoversOrder
  SettledOnce
  OneTimeline
  TimesAgree
  OneProviderCall
  KycTellsOneStory
  SubmitsOnce
PROPERTIES
  BargainsKept
  LedgerMovesLeaveExactBalances
  QuotesBuyLiveOffers
