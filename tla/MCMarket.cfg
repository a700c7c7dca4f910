CONSTANTS
  Focus = {"hub", "pool", "backtest", "chart"}
  FailureThreshold = 2
  Symbols = {"s1", "s2"}
  Callers = {c1, c2}
  EastMoney = "eastmoney"
  CacheSize = 1
  Offers <- HubOffers
  Ranking <- TwoServers
  PoolSize = 2
  Clients = {"p"}
  Heartbeat = "heartbeat"
  MaxLate = 1
  MaxOutages = 2
  Series <- SomeSeries
  Policies <- SomePolicies
  OrderLists <- SomeLists
  InitialCash = 1010
  MinLot = 2
  LotStep = 2
  LimitPercent = 10
  MinFee = 5
  FeePer = 40
  TaxPer = 200
  SlippageBps = 100
  AtrPeriod = 2
  Tapes <- SomeTapes
  Arrivals <- SomeArrivals
  Macds <- SomeMacds
  Seeds = 20
SPECIFICATION MarketSpec
INVARIANTS MarketTypeOK OneLeader QueueDegrades SlotsAreExclusive BooksBalance BuyIsLargest ExitsAreSound ChartIsSound
PROPERTIES RequestsServed NothingRepainted
