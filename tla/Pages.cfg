CONSTANTS
  MaxWrites = 2
  People = {p1, p2}
  RoleIds = {r1, r2}
  InviteIds = {v1, v2}
  NoRole = NoRole
  Rows = {k1, k2}
  NewRow = NewRow
  Orgs = {o1, o2}
  FeedbackIds = {f1, f2}
  CodeIds = {c1}
  Nobody = Nobody
  LeadSets <- MCLeadSets
  Clock = 74
  UtcOffset = 3
  EmailIds = {e1, e2}
  NoOne = NoOne
  Tabs = {t1, t2}
  NoTab = NoTab
  Cities <- MCCities
  Pop <- MCPop
  UfFleet <- MCUfFleet
  Frota <- MCFrota
  Eletropostos <- MCEletropostos
  OcmCount <- MCOcm
  NoUF = NoUF
  Users <- MCUsers
  PlanSets <- MCPlans
  NoUser = NoUser
  NoFlags = NoFlags
  LEADS_PER_PAGE = 2
  InviteOf <- MCInviteOf
  OrgCodes = {"c"}
  NoCode = "no code"
  Types = {dc}
  dc = dc
  NoList = NoList
  MaxQuantity = 2
  Library <- MCLibrary
  MaxPosts = 2
  Amounts = {3000}
  PriceLists <- MCPriceLists
  TermSets <- MCTermSets
  DefaultTerms <- Base
  CapexRows = {x1, x2}
  NoRecord = NoRecord
  Investments <- MCInvestments
  FileIds = {g1, g2}
  PlanIds = {starter, pro}
  NoPlan = trial
  Drivers = {d1, d2}
  NoDriver = NoDriver
  LeadIds = {h1, h2}
  NoLead = NoLead
  BrStates = {SP, RJ}
  NoState = NoState
  MaxPoints = 2
  SimConfigs <- MCSimConfigs
SPECIFICATION Spec
CHECK_DEADLOCK FALSE
INVARIANTS
  
  BusyFlagsReturn
  FormsShowTheirRow
  ViewsAgree
  AccessIsConsistent
  PanelSuggestion
  PanelProjection
