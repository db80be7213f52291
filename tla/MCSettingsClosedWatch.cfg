CONSTANTS
  SettingIds = {"low_power", "max_streams"}
  SettingValues = {0, 1}
  InitSettings <- MCInitSettings
  InboundFrames <- MCInboundFrames
  Malformed = Malformed
  Peers = {p1, p2}
  PeerCap = 1
  CmdCap = 2
  MaxVersion = 2
  None = None


SPECIFICATION Spec
PROPERTY NoPeerDroppedWithoutChange
