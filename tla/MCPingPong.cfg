\* 88 thousand states: every method, every size, eager and synchronous sends.
CONSTANTS
  MaxBlock = 2
  LIMIT = 3
  Transfers <- MCTransfers
  Eagers = {TRUE, FALSE}
  MaxResent = 1
SPECIFICATION FairSpec
INVARIANT TypeOK
INVARIANT RolesInStep
INVARIANT DamageIsNotPassedOn
INVARIANT HopelessNeverPasses
PROPERTY EndsWhenRepairable
PROPERTY ImplementsAlternation
