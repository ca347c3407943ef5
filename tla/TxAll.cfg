SPECIFICATION FairSpec
CONSTANTS
  MaxRetries = 2
  GasBuffer = 2
  Amount = 3
  Balances <- SomeBalances
  Prices <- SomePrices
  Networks <- AllNetworks
INVARIANTS
  TypeOK
  AttemptsBounded
  SweepEmptiesWallet
PROPERTIES
  ImplementsTransfer
  ReturnsOrWaits
