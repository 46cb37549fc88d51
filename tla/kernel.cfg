SPECIFICATION Spec
CONSTANTS
  Tasks = {t1, t2}
  Idle = idle
  NoTask = none
  Prios = {1, 2, 3}
  IdlePrio = 4
  Events = {e1}
  NoEvent = noevent
  Types = {"mbox", "q", "sem"}
  Msgs = {m1, m2}
  Unit = unit
  NoMsg = null
  QSize = 2
  SemMax = 1
  MaxDly = 1
  MaxNest = 2
SYMMETRY Symmetry
VIEW View
INVARIANTS KernelSound ReadyIffRunnable NoneWaitsInVain HighestRuns
PROPERTIES ImplementsChannel
