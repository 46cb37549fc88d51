\* The tcpip thread's wait with three timers and a flood of messages.
SPECIFICATION Spec
CONSTANTS
  arp = arp
  ip = ip
  tcp = tcp
  M = 128
  Hz = 2
  Milli = 10
  Boot <- MCBoot
  OnDemand = {tcp}
  Period <- MCPeriod
  MaxMsgs = 2
INVARIANTS
  TimersKept
  ListSound
PROPERTIES
  NotStarved
