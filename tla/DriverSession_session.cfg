SPECIFICATION FairSpec
CONSTANTS
  Protocols = {"modbus", "s7", "opcua", "mc", "bacnet"}
  Libraries = {{"timeout"}, {"timeout", "own"}, {"connection", "os"}}
  SessionTags = {t1, t2}
  MaxFaults = 3
INVARIANTS SessionInv
PROPERTY GroupRecovers
