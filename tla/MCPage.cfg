CONSTANTS
  Undefined = Undefined
  STANDALONE_STACK = STANDALONE_STACK
  UNMANAGED_GROUP_ID = UNMANAGED_GROUP_ID
  ANIMATION_NODE_LIMIT = 4
  UTURN_THRESHOLD = 2
  NameOrder <- TheNameOrder
  Spelling <- TheSpelling
  MAX_WORKERS_PER_ROW = 1
  MAX_OVERLAY_LINKS = 3
  CPU_ALERT = 80
  DOT_SPACING = 4
  MIN_DOTS = 1
  MAX_DOTS = 3
  CANVAS_EDGE_HIT_WIDTH = 2
  CULL_PAD = 1
  EdgeSets <- TheEdgeSets
  Transforms <- TheTransforms
  ViewSizes <- TheViewSizes
  ROW = 2
  NoRow = NoRow
  BANNER = 3
  BOX = 5
  BOTTOM_SLACK_PX = 2
  TOP_EDGE = 3
  PaneBuffer = 4
  MaxPaneLine = 5
  Searches <- TheSearches
  LowerCase <- TheLowerCase
  MAX_CONSUMERS = 5
  net1 = net1
  net2 = net2
  gone = gone
  c1 = c1
  c2 = c2
  v1 = v1
  s1 = s1
  s2 = s2
  p1 = p1
  p2 = p2
  m1 = m1
  w1 = w1
  w2 = w2
  web = web
  db = db
  NoQuery = NoQuery
  NotMounted = NotMounted
  TypeOfId <- TheTypes
  Refs <- TheRefs
  Given <- TheGraphs
  Scopes <- TheScopes
  Queries <- TheQueries
  STATUS_OPTIONS = {"running"}
  TYPE_OPTIONS = {"container"}
  WorkloadStatuses = {"running", "not_running"}
  SwarmMode = TRUE
  LocalNode = m1
  Topology = {"empty", "one", "two"}
  Empty = "empty"
  NoKey = "none"
  MaxData = 4
  Workload = {"a", "b", "c"}
  Texts = {"", "x"}
  NoText = ""
  WINDOW_MIN = 1
  HEADER_HEIGHT = 1
  DockMargin = 1
  Frames <- TheFrames
  Shifts <- TheShifts
  Handles <- TheHandles
  MaxWindow = 3
  NoUrl = NoUrl
  PollStacks = {AllStacks, OutsideStacks}
  AllStacks = AllStacks
  OutsideStacks = OutsideStacks
  Ranges = {"1h"}
  MaxVersion = 2
SPECIFICATION Spec
INVARIANTS ScopesSound GraphDrawn DashboardAgrees EdgesCurrent
INVARIANTS PaneHolds MarksSound LitSound PanelTellsItsOwn DrillDownShowsCounted CanvasShowsTopology
INVARIANTS OneStreamEach PollsInOrder
PROPERTY LayoutEnds
CHECK_DEADLOCK FALSE
