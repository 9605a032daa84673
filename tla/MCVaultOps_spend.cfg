\* One vault, four proposals, a clock: limits, velocity, splitting, expiry.
CONSTANTS
  k1 = k1  k2 = k2  k3 = k3  k4 = k4
  compute = compute  image = image
  Agents = {a1}
  Vaults = {v1}
  Vendors = {compute, image}
  Purposes = {"COMPUTE", "IMAGE"}
  VendorPurposes <- MCVendorPurposes
  Keys = {k1, k2, k3, k4}
  Tasks = {t1}
  Events = {}
  AllowLists <- OneVendor
  Limits = {25}
  PerTxnLimits = {20}
  SpendAmounts = {5, 15}
  RevenueAmounts = {50}
  ReserveCaps = {}
  Durations = {2}
  PassportTtls = {1}
  FeeRatePpm = 50000
  MaxTransactions = 4
  DayLength = 2
  MaxTime = 2
  VelocityWindow = 1
  VelocityMax = 3
SYMMETRY KeySymmetry
SPECIFICATION Spec
INVARIANTS PaymentsReconcile PaceHolds
