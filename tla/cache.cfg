SPECIFICATION FairCacheSpec
CONSTANTS
  None = None
  Keys = {k1, k2}
  Entries = {e1, e2, e3}
  Stems = {s1}
  Readers = {r1}
  Large = {e3}
  SizeOf <- MCSizeOf
  MaxBytes = 4
  Faults = {"fails", "wipe", "stays"}
INVARIANTS
  DiskIsBounded
  IndexIsOnDisk
PROPERTIES
  StoreService
  WantedIsKept
  AbandonedIsCollected
CHECK_DEADLOCK FALSE
