SPECIFICATION Spec
CONSTANTS
  a1 = a1
  a2 = a2
  a3 = a3
  acme = acme
  globex = globex
  k1 = k1
  k2 = k2
  k3 = k3
  owner = owner
  viewer = viewer
  newcomer = newcomer
  stranger = stranger
  Null = Null
  Forged = Forged
  Requests = {a1, a2}
  Keys = {k1, k2, k3}
  Tenants = {acme, globex}
  Users = {owner, viewer, newcomer, stranger}
  Asks <- KeyAsks
  KeyTenant <- TenantOf
  Prefix <- OnePrefix
  InitialKeys = {k1, k3}
  Expiring = {k2}
  UserOrgs <- Orgs
  UserPerms <- Claims
  Production = TRUE
  Limit = 1
INVARIANT TenantLimited
CHECK_DEADLOCK FALSE
