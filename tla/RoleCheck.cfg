CONSTANTS
  Clients = {c1, c2}
  Callers = {boot, u1, u2}
  Boot = boot
  Pool = Pool
  Nobody = Nobody
  Max = 1
  Zones = {"UTC", "Europe/Rome"}
  Options <- MCOptions
  Roles <- MCRoles
  RoleNames <- MCRoleNames
  Catalogs <- MCCatalogs
  KindOf <- MCKindOf
  IsQualified <- MCIsQualified
  Overloads <- MCOverloads
  ColumnsOf <- MCColumnsOf
  NoColumns = NoColumns
  Urls <- MCUrls
  NoUrl = NoUrl
  PoolOptions <- MCPoolOptions
  Identifiers <- MCIdentifiers
  Hosts <- MCHosts
  Segments <- MCSegments
  MaxChanges = 2
SPECIFICATION FairSpec
INVARIANTS IInv VerdictsAreGrounded
PROPERTY BootSettles
CHECK_DEADLOCK FALSE
