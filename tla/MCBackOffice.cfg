SPECIFICATION MCSpec
SYMMETRY Alike
CONSTANTS
  a1 = a1
  a2 = a2
  r1 = r1
  r2 = r2
  h1 = h1
  h2 = h2
  b1 = b1
  b2 = b2
  b3 = b3
  Nobody = Nobody
  Admins = {a1, a2}
  Calls = {r1, r2}
  Grace = 1
  Ttl = 1
  Requests = {1, 2}
  MaxDay = 3
  MaxErasures = 2
  MaxFaults = 1
  FreePlan = "FREE"
  Paid = {"PLUS"}
  Ceiling <- Ceilings
  Subscribed <- ForPlus
  Handlers = {h1, h2}
  Clerks = {r1, r2}
  Bookings = {b1, b2, b3, b4}
  b4 = b4
  Payments = {1, 2}
  MaxCrashes = 1
CHECK_DEADLOCK FALSE
INVARIANTS
  PurgeIsApproved
  AppliedOnce
  PlacesWithinPlan
