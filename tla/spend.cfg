SPECIFICATION Spec
CONSTANTS
  Cards = {c1}
  MaxFixRounds = 1
  DailyBudget = 1
  CardBudget = 2
  Prices <- PriceOrNone
  Faults = {"LEASE_CONFLICT"}
  Tagged = {FALSE}
  Metered = TRUE
  MaxAttempts = 2
  MaxHappens = 3
INVARIANTS
  SpendIsCounted
  TodayIsCounted
  OutcomeIsTold
PROPERTIES
  CapsHold
CHECK_DEADLOCK FALSE
