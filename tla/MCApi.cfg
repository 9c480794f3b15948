SPECIFICATION MCSpec
CONSTANTS
  Requests = {r1, r2, r3}
  MaxBreaks = 1
  Nothing = nothing
  Users = {ana, eva}
  Learner = eva
  Old = old
  MaxStudied = 2
  First = first
  Dids = {ana}
  Member = member
  Waiting = waiting
  MaxAttempts = 2
  People = {ana, eva}
  Phones = {phone}
  PageSize = 2
  ListItems = {i1, i2}
SYMMETRY Symmetry
INVARIANTS
  ApiTypeOK
  ShopIsConsistent
  AccountIsConsistent
  SecretsAreSpent
  NoticesReach
  ListIsCurrent
PROPERTY UnconfirmedSavesSpareProgress
