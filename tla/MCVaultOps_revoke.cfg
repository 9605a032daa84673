\* Two vaults of one agent: the kill switch against
\* approved proposals, new vaults and new passports.
CONSTANTS
  k1 = k1  k2 = k2  k3 = k3  k4 = k4
  compute = compute  image = image
  Agents = {a1}
  Vaults = {v1, v2}
  Vendors = {compute, image}
  Purposes = {"COMPUTE", "IMAGE"}
  VendorPurposes <- MCVendorPurposes
  Keys = {k1, k2}
  Tasks = {t1}
  Events = {e1}
  AllowLists <- OneVendor
  Limits = {40}
  PerTxnLimits = {40}
  SpendAmounts = {20}
  RevenueAmounts = {50}
  ReserveCaps = {}
  Durations = {2}
  PassportTtls = {1}
  FeeRatePpm = 50000
  MaxTransactions = 100
  DayLength = 24
  MaxTime = 1
  VelocityWindow = 1
  VelocityMax = 5
SYMMETRY KeySymmetry
SPECIFICATION Spec
 
PROPERTIES RevocationIsFinal NoReopening
