SPECIFICATION FairSpec
CONSTANTS
  Tabs = {b1, b2}
  Ips = {ip1}
  MaxLoops = 3
INVARIANT BoxesAlive
PROPERTY StopIsObeyed

