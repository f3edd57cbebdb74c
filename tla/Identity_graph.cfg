SPECIFICATION IdentitySpec
CONSTANTS
  None = None
  p1 = p1
  tool1 = tool1
  tool2 = tool2
  ToolhubIds <- MCToolhubIds
  UidNumbers <- MCUidNumbers
  GlobalIds <- MCGlobals
  Names <- MCNames
  PageSize = 1
  HubRows <- MCHubRows
  LdapRows <- MCLdapRows
  HubStart <- MCHubStart
  LdapStart <- MCLdapStart
  Visitors = {1}
  Ops = 2
  Tools = {tool1, tool2}
  Projects = {p1}
  ProjectOf <- MCProjectOf
  Verifies <- MCVerifies
  UserSpace <- MCUserSpace
  GlobalName <- MCGlobalName
  Vouched <- MCVouched
  Refreshes = 1
INVARIANTS GraphAgrees NamesFollow
PROPERTIES NothingLost
