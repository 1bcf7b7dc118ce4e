SPECIFICATION RoutingSpec
CONSTANTS
  Types = {"power", "installed_apps", "virus_scan", "download_file", "process", "stop_performance", "none"}
  Actions = {"shutdown", "get", "start", "kill", "kill_process", "none"}
  Commands = {"start_screen", "none"}
  Workers = {w1, w2}
  MaxMessages = 2
INVARIANT HandlersAccounted
PROPERTY RequestsIsolated
