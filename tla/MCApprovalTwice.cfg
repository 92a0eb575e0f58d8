CONSTANTS
  ann = ann
  bob = bob
  cyd = cyd
  pm = pm
  pmo = pmo
  Subs = {ann, bob, cyd}
  Roles = {pm, pmo}
  RolesOf <- NoPmo
  AiSubs = {}
  Proposals = {p1}
  RunProposals = {p1}
  Proposers = {ann}
  Requests = {r1, r2}
  Defs <- OneStageDefs
  Redirects <- MCRedirects
  PmoRole = pmo
  StageIds = {0, 1, 2}
  MaxChallenges = 2
  MayCrash = FALSE
  Unraised = Unraised
  Expired = Expired
SPECIFICATION Spec
INVARIANTS ExecutesAtMostOnce
CHECK_DEADLOCK FALSE
