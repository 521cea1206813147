SPECIFICATION GatewaySpec
CONSTANTS
  Tabs = {"tab"}
  Clis = {}
  MaxConnects = 2
  MaxViews = 1
INVARIANT ReconnectResubscribes
CHECK_DEADLOCK FALSE
