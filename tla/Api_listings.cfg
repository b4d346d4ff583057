CONSTANTS
  Sales = {1, 2, 3, 4}
  Assets = {1, 2, 3, 4, 5}
  Accounts = {"ann", "bob", "cay"}
  Templates <- TheTemplates
  Auctions = {1, 2}
  Buyoffers = {1, 2}
  TemplateBuyoffers = {1, 2}
  SaleInfo <- TheSales
  AuctionInfo <- TheAuctions
  BuyofferInfo <- TheBuyoffers
  TemplateBuyofferInfo <- TheTemplateBuyoffers
  AssetInfo <- TheAssets
  Null = Null
  NoRow = NoRow
  InitialSales = {1, 2, 4}
  InitialAuctions = {1}
  LateAssets = {5}
  LateNumbers = {2}
  Kinds = {"sales", "auctions", "buyoffers", "events"}
  MaxChanges <- Bounds
  MaxTime = 4
  Contracts = {"bob"}
  Precision = 10
  Tokens = {"WAX", "EOS"}
  SaleRequests <- TheSaleRequests
  StateRequests <- TheStateRequests
  TemplateRequests <- TheTemplateRequests
  OtherRequests <- TheOtherRequests
  Listened = {"auctions"}
  Logged <- TheTraces
  ChunkSize = 2
  MaxBlocks = 3
  MaxTraces = 2
SPECIFICATION ApiSpec
INVARIANTS
  StaleIsDue
  VersionsAgree
  StatesAgree
  ClientsFollow
  EventsShowRows
PROPERTIES
  FiltersCatchUp
\* The numbers of transactions and hours are bounded.
CHECK_DEADLOCK FALSE
