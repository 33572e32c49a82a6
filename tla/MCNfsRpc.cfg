SPECIFICATION FairSpec
CONSTANTS
  Client = {c1, c2}
  Nfsd = {n1, n2}
  MaxDupReqs = 3
  Workload <- MCWorkload
CHECK_DEADLOCK FALSE
INVARIANTS RpcInv ReplyIsTrue RetransmissionRecognised NoLateCreate
PROPERTIES CallsReturn
