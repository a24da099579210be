\* Liveness: two browsers, one answer, no trips to the tray.
CONSTANTS
  c1 = c1
  c2 = c2
  c3 = c3
  UI = UI
  NoConn = NoConn
  chrome = chrome
  edge = edge
  relay = relay
  ext1 = ext1
  ext2 = ext2
  NoKey = NoKey
  p1 = p1
  p2 = p2
  w1 = w1
  w2 = w2
  sBoth = sBoth
  sOne = sOne
  sRelay = sRelay
  NoSnapshot = NoSnapshot
  Conn = {c1, c3}
  Browser = {chrome, edge}
  Key = {relay}
  Profile = {p1, p2}
  Window = {w1, w2}
  Snapshot = {sRelay}
  Ticks <- MCTicks
  MaxEvents = 0
  DbMayFail = FALSE
  browserOf <- MCBrowserOfTwo
  profileOf <- MCProfileOf
  relayKey <- MCRelayKey
  helloIds <- MCHelloIdsNone
  stored <- MCStored
  privateIn <- MCPrivateIn
SPECIFICATION FairSpec
PROPERTIES
  WaitingIsServed
  ClaimsSettle
CHECK_DEADLOCK FALSE
