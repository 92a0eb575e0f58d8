CONSTANTS
  ann = ann
  bob = bob
  cyd = cyd
  pm = pm
  pmo = pmo
  Subs = {ann, bob, cyd}
  Roles = {pm, pmo}
  RolesOf <- MCRolesOf
  AiSubs = {}
  Proposals = {p1}
  RunProposals = {p1}
  Proposers = {ann, cyd}
  Requests = {r1}
  Defs <- SerialDefs
  Redirects <- MCRedirects
  PmoRole = pmo
  StageIds = {0, 1, 2}
  MaxChallenges = 4
  MayCrash = TRUE
  Unraised = Unraised
  Expired = Expired
SPECIFICATION Spec
INVARIANTS ApprovedChainsStand
PROPERTIES KeepsPromise
CHECK_DEADLOCK FALSE
