\* A network of each kind; sessions of two units; a wallet of up to four sats.
CONSTANTS
  home = home
  venue = venue
  rival = rival
  broken = broken
  bare = bare
  plain = plain
  foreign = foreign
  gratis = gratis
  Nets = {home, venue, plain, rival, broken, bare, foreign, gratis}
  Ad <- MCAd
  Price = 1
  DefaultPrice = 2
  Steps = 2
  Threshold = 1
  Renewals = 2
  MaxPolls = 2
  MaxBalance = 4
  None = None
SPECIFICATION TollgateSpec
CHECK_DEADLOCK FALSE
INVARIANTS
  OutcomeIsTrue
  ComposesForPayable
PROPERTIES
  PayReturns
  KioskKeepsOffering
