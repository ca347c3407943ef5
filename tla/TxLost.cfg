SPECIFICATION Spec
CONSTANTS
  MaxRetries = 2
  GasBuffer = 2
  Amount = 3
  Balances <- SomeBalances
  Prices <- SomePrices
  Networks <- NeverReverting
INVARIANTS
  PaidOnce
