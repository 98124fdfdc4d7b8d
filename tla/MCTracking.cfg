SPECIFICATION Spec
CONSTANTS
  Tabs = {t1, t2}
  Visitors = {v1, v2, v3}
  Paths = {home, shop}
  Traits = {plan}
  Metas = {"absent", "null", free, paid}
  Agents = {None, {"chrome", "safari", "windows"}, {"bot"}}
  Limit = 1
  Day = 2
  Week = 2
  None = None
  MaxErrors = 1
  MaxSends = 3
  MaxEras = 1
SYMMETRY Symmetry
INVARIANTS TypeOK OnePageviewPerPath NothingGivenIsLost BrowserIsOneVisitor
  OwnerIsExcluded NumbersAgree PanelCountsEveryValue DrilldownFollowsPage
