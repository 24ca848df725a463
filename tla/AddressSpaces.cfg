\* Two user address spaces, one section each, two frames.
SPECIFICATION Spec
CONSTANTS
  Tables <- MCTables
  kern = kern
  one = one
  two = two
  Null = Null
  Kern = kern
  KSecs = {"code"}
  USecs = {"data"}
  Frames = {"f1", "f2"}
  AsidOf <- MCAsidOf
  BootTlb <- MCBootTlb
  TlbSize = 1
INVARIANTS
  TypeOK
  KernelReachable
  LoadsFollowTable
  CallsTakeEffect
