SPECIFICATION Spec
SYMMETRY Threads
CHECK_DEADLOCK FALSE
CONSTANTS
  Clients = {c1, c2}
  UserBase = 16
  MaxHandle = 18
  Targets = {17, 18}
  BlobSizes = {16}
  Buffers = {8, 32}
  Provisioned = TRUE
  MaxItems = 2
  Objects = {1, 2, 3}
  KeyNames = {9}
  Keys = {"k1"}
  MaxKeys = 5
  MaxProxies = 3
  MaxLocal = 2
  Codecs = {0, 1, 2, 51}
  Lengths = {0, 1, 2, 50, 51}
  MaxBlocks = 2
  Vics = {1, 192, 193}
  Topics = {
    {"serial_number", "model_name"}, {"sku", "host_edid"}, {"make", "id"},
    {"device_type", "architecture"}, {"model_year", "chipset"},
    {"system_integrator_name", "firmware_version"}, {"friendly_name", "id_str"},
    {"platform_name"}, {"audio"}, {"video"}, {"hdr", "atmos", "cec"}}
  StringSizes = {4, 254, 255}
  Arrays = {1, 4, 255}
  Outputs = {{0, 5, 9}}
  Queried = {0}
  DisplayNames = {"n"}
  Devices = {"keyboard"}
  MaxDisplays = 2
  MaxSurfaces = 2
  RpiDisplays = {"d1", "d2"}
  RpiSurfaces = {"s1"}
  Width = 2
  MaxQueued = 1
  Wrappers = {"o1", "o2"}
  Ids = {1}
  KeyMaps = {"m1"}
INVARIANTS
  TypeOK
  SealedIsNotExported
  ObjectsKeepTheirKey
  OrphansWereRefused
  ReferencesBalance
  InterfacesAreAlive
  CallbacksAreRegistered
  FramesOnlyWhilePlaying
  RegistriesAreSound
  AnswersMatch
