CONSTANTS
  Users = {u1, u2}
  Organizations = {o1}
  Rfps = {r1, r2, r3}
  Handlers = {h1, h2}
  Modes = {"marketplace", "community"}
  QuotaLimit = 1
  MaxMemberships = 2
  MaxFailures = 1
SPECIFICATION Spec
SYMMETRY Symmetry
CHECK_DEADLOCK FALSE
INVARIANTS OrganizationHasAdmin OneTrueBillingEvent NobodyBilledEarly DuplicatesBounded
