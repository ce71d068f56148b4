SPECIFICATION Spec
CONSTANTS
  CPU = cpu
  Gpu0 = gpu0
  gpu1 = gpu1
  Devices = {cpu, gpu0, gpu1}
  Null = Null
  Addrs = {1, 2, 3}
  BufDevices = {cpu, gpu0}
  BufAddrs = {1, 2}
  Sizes = {1, 2}
  BufSlots = {b1, b2}
  TenSlots = {x1, x2}
  MaxLent = 1
  b1 = b1
  b2 = b2
  x1 = x1
  x2 = x2
  cpu = cpu
  gpu0 = gpu0
  AllocThreads = {t1, t2}
  t1 = t1
  t2 = t2
  AllocAddrs = {1, 2, 3}
  AllocSizes = {0, 1, 3}
  MaxDrift = 4
  GAddrs = {1, 2}
  GSizes = {1, 2}
  Scalar = 1
  GSlots = {g1, g2, g3}
  g1 = g1
  g2 = g2
  g3 = g3
  ProcA = {p1, p2}
  ProcB = {q1}
  p1 = p1
  p2 = p2
  q1 = q1
  ShmObjects = {1, 2}
  ShmSizes = {1, 2}
  Hardware = {0, 1}
  MaxDeviceIds = 4
  MaxCallbacks = 3
  StreamSlots = {s1, s2}
  s1 = s1
  s2 = s2
  StreamHandles = {h1, h2}
  h1 = h1
  h2 = h2
  NoStream = NoStream
  PoolSize = 2
INVARIANTS OwnedOnce ValuesKept AccountingExact DescriptorsKept NameKept ManagerKept
CHECK_DEADLOCK FALSE
