SPECIFICATION Spec
CONSTANTS
  \* three pending migrations, three power cuts, a failing command
  Shipped = {"002_install_samba_config", "005_pibuddycam_priv_no_block",
             "007_pibuddycam_priv_system_verbs"}
  Hosts = {"attic", "cellar"}
  FrameSizes = {1, 2}
  Space = 4
  FreeFloor = 2
  MaxFrames = 3
  MaxPairs = 4
  TornEdits = TRUE
  BootCuts = 3
  BootFaults = 1
  \* three changes, two failing writes, two power cuts
  DocsChanges = 3
  DocsFaults = 2
  DocsCuts = 2
  \* four changes, two refusing calls, two power cuts and restarts of the runtime
  Pins = {17, 22}
  Nothing = Nothing
  Refusing = {"denied", "webrtc"}
  LiveOnly = FALSE
  Crashes = TRUE
  CameraChanges = 4
  CameraCuts = 2
  \* one client that comes and goes, two chunks per queue, a restart of the source
  Clients = {"recorder"}
  Patched = {"recorder"}
  MaxChunks = 4
  MaxQueue = 2
  SourceRestarts = 1
  Keep = 1
CHECK_DEADLOCK FALSE
INVARIANT ServedPairIsWhole
INVARIANT StoredIsAcked
 
INVARIANT AcceptedSurvives
 
 
 
