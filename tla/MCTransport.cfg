SPECIFICATION TransportSpec
CONSTANTS
  p1 = p1
  p2 = p2
  Ports <- MCPorts
  NoPort = none
  Tries = 5
  ResetAfter = 4
  Interval = 2
  MaxFailures = 3
INVARIANT SinkHasItAlone
PROPERTIES PanelComesBack LastNoticeIsRight
