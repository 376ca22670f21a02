CONSTANTS
  Nodes = {0, 1}
  Sinks = {0}
  None = None
  Rand <- MCRand
  Visible <- VisibleAll
  Lossy = TRUE
  TIME_ON_AIR = 80
  STARTUP_DELAY_RANGE_MS = 300000
  BEACON_INTERVAL_MS = 30000
  CHILD_DATA_INTERVAL_MIN = 5
  NUM_CHANNELS = 8
  MAX_CHILDREN = 6
  MAX_DESCENDANTS = 16
  MAX_BEACONS_TO_COLLECT = 16
  RESPONSE_LISTEN_DURATION_MS = 200
  MIN_WINDOW_CLEARANCE = 300
  DATA_RECEIVE_WINDOW = 350
  RANDOM_CONNECT_RANGE_MS = 400
  CONNECT_RESPONSE_DELAY_MS = 100
  CLOCK_DRIFT_PPM = 30
  SEND_DELAY = 5
  MS_PER_MIN = 60000
  MAX_HOPS = 255
  Deadline = 600000
  Horizon = 600000
SPECIFICATION Spec
CONSTRAINT TimeBound
CHECK_DEADLOCK FALSE
INVARIANT NoPanic OneEventPerNode ReceptionsTargetListeners
