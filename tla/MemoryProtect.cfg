SPECIFICATION Spec
CONSTANTS
  rw = rw
  rx = rx
  NumFrames = 9
  Fanout = 2
  Regions <- MemoryMap
  Root = 1
  Boot <- BootFrames
  Address <- Asked
  Protection = {rw, rx}
  Unmapped = Unmapped
CONSTRAINT OnTrack
PROPERTIES ProtectionChanged
