SPECIFICATION Spec
CONSTANTS
  a = a
  b = b
  c = c
  r1 = r1
  r2 = r2
  Sender = {a, b}
  Receiver = {r1, r2}
  NoThread = NoThread
  Port = {p}
  Set = {s}
  NoSet = NoSet
  NoPort = NoPort
  SendSize <- MCSendSize
  ReceiveSize <- MCReceiveSize
  ReceiveOptions <- MCReceiveOptions
  SendOptions <- MCSendOptions
  MaxBacklog = 2
  MaxSent = 2
  WWA = FALSE
  MP = TRUE
CHECK_DEADLOCK FALSE
INVARIANTS QueueInv SleepersInv NotifyAgrees DeathInv
