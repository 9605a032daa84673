\* One application from its draft to the end of its vault, with payments and a clock.
CONSTANTS
  a1 = a1  v1 = v1  v2 = v2  compute = compute  k1 = k1
  Agents = {a1}
  Vaults = {v1}
  Vendors = {compute}
  Purposes = {"COMPUTE"}
  VendorPurposes <- MCVendorPurposes
  Keys = {k1}
  Tasks = {t1}
  Events = {e1}
  AllowLists <- MCAllowLists
  Limits <- MCLimits
  PerTxnLimits = {20}
  SpendAmounts = {20}
  RevenueAmounts = {30, 70}
  ReserveCaps = {20}
  Durations = {2}
  PassportTtls = {1}
  FeeRatePpm = 50000
  MaxTransactions = 100
  DayLength = 2
  MaxTime = 1
  VelocityWindow = 1
  VelocityMax = 5
  Requests = {40, 60}
  ExpectedRevenues = {60}
  ExpectedCosts = {60}
  ExposureCaps = {50}
  Authorities = {50}
  Reductions = {30, 55}
  AgeAtStart <- MCAgeAtStart
SPECIFICATION CreditSpec
PROPERTIES Spec
