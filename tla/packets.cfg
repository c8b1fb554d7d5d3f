SPECIFICATION Spec
CONSTANTS
  Width = 3
  LinkLocal = {0, 1}
  Mdns <- MCMdns
  Upnp <- MCUpnp
  Config <- MCConfig
  content <- MCContent
  Packet <- MCPacket
  Burst = 2
INVARIANTS TypeOK BannedNeverAccepted LimitHeld SetsInsertable
PROPERTIES FirewallSpec
