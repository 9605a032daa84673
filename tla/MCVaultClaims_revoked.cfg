\* Refutes: a revoked agent is never ACTIVE again.
CONSTANTS
  k1 = k1  k2 = k2  k3 = k3  k4 = k4
  compute = compute  image = image
  Agents = {a1}
  Vaults = {v1}
  Vendors = {compute, image}
  Purposes = {"COMPUTE", "IMAGE"}
  VendorPurposes <- MCVendorPurposes
  Keys = {k1, k2}
  Tasks = {t1}
  Events = {e1, e2}
  AllowLists <- OneVendor
  Limits = {40}
  PerTxnLimits = {20}
  SpendAmounts = {15, 20}
  RevenueAmounts = {30, 41, 50}
  ReserveCaps = {20}
  Durations = {1}
  PassportTtls = {1}
  FeeRatePpm = 50000
  MaxTransactions = 100
  DayLength = 24
  MaxTime = 1
  VelocityWindow = 1
  VelocityMax = 5
SPECIFICATION Spec
INVARIANTS RevokedNeverActive
