CONSTANTS
  ann = ann
  bob = bob
  cyd = cyd
  pm = pm
  pmo = pmo
  Subs = {ann, bob, cyd}
  Roles = {pm, pmo}
  RolesOf <- MCRolesOf
  AiSubs = {bob}
  Proposals = {p1}
  RunProposals = {p1}
  Proposers = {ann}
  Requests = {r1, r2}
  Defs <- MCDefs
  Redirects <- MCRedirects
  PmoRole = pmo
  StageIds = {0, 1, 2}
  MaxChallenges = 3
  MayCrash = TRUE
  Unraised = Unraised
  Expired = Expired
SPECIFICATION Spec
SYMMETRY RequestSymmetry
INVARIANTS TypeOK ApprovedChainsStand DistinctHands
PROPERTIES EffectOnlyWhenApproved
CHECK_DEADLOCK FALSE
