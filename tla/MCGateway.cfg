SPECIFICATION FairSpec
CONSTANTS
  s1 = s1
  s2 = s2
  s3 = s3
  g1 = g1
  g2 = g2
  Sockets <- GatewaySockets
  IpOf <- GatewayIpOf
  NoIp = NoIp
  MaxSockets = 2
  MaxPerIp = 1
  MaxSent <- GatewayMaxSent
  Ips = {"ip"}
  Guests = {g1, g2}
  RoomActions = {"join"}
  MaxOf <- GatewayMaxOf
  Window = 4
  Bucket = 2
  NoAlarm = NoAlarm
INVARIANTS
  GatewayInv
PROPERTIES
  SocketsAreServed
  ExpiredRecordsGo
CHECK_DEADLOCK FALSE
