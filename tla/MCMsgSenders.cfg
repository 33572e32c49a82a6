SPECIFICATION Spec
CONSTANTS
  a = a
  b = b
  c = c
  r1 = r1
  r2 = r2
  Sender = {a, b, c}
  Receiver = {r1}
  NoThread = NoThread
  Port = {p}
  Set = {}
  NoSet = NoSet
  NoPort = NoPort
  SendSize <- MCSameSize
  ReceiveSize <- MCOneReceiver
  ReceiveOptions <- MCPolling
  SendOptions <- MCWaiting
  MaxBacklog = 2
  MaxSent = 4
  WWA = FALSE
  MP = FALSE
INVARIANTS SendersHaveHope SenderFindsItself
CHECK_DEADLOCK FALSE
SYMMETRY SenderSymmetry
