CONSTANTS
  AlarmIds = {a1, a2}
  AlarmList = list
  TickMod = 4
  Irqs <- MCIrqs
  Timer = 1
  Routines = {r1, r2}
  CallbackAlarms = {a2}
  None = none
SPECIFICATION FairSpec
INVARIANTS Punctual ListIntact DispatchSound
PROPERTIES Served
