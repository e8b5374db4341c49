SPECIFICATION Spec
CONSTANTS
    s1 = s1  s2 = s2  c1 = c1  u1 = u1  nobody = nobody
    k1 = k1  k2 = k2  r1 = r1  r2 = r2
    None = None  Null = Null  Day = 2
    Users <- TheUsers
    Role <- TheRoles
    Campaigns <- TheCampaigns
    Requests <- TheRequests
    FetchCases <- TheFetches
    RowCases <- TheRows
    WriteCases <- TheWrites
    DeleteCases <- TheDeletes
    InsightCases <- TheInsights
    PageCases <- ThePages
    SearchCases <- TheSearches
    KeyCases <- TheKeys
    StatsCases <- TheStats
    p1 = p1  p2 = p2  h1 = h1  h2 = h2
    People <- ThePeople
    Slugify <- TheSlugs
    Forms <- TheForms
    Handlers <- TheHandlers
INVARIANTS
    OnlyCreatorsOffered FetchesAgree RowsAgree FiguresAgree UpsertsAreSafe
    DeletionsAreClean SearchesAgree KeysTellRequestsApart
    TenantsApart
CHECK_DEADLOCK FALSE
