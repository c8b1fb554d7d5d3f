SPECIFICATION Spec
CONSTANTS
  Width = 3
  LinkLocal = {0, 1}
  Mdns <- MCMdns
  Upnp <- MCUpnp
  Config = {1}
  content <- MCTopContent
  Packet <- MCPacket
  Burst = 2
INVARIANTS SetsComplete
