SPECIFICATION PingSpec
CONSTANTS
  Tabs = {b1}
  Ips = {ip1}
  MaxLoops = 2
INVARIANT OneLoopPerIp
