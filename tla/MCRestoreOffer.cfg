\* Two profiles of one browser, each with its own stored session.
CONSTANTS
  c1 = c1
  c2 = c2
  c3 = c3
  UI = UI
  NoConn = NoConn
  chrome = chrome
  edge = edge
  relay = relay
  ext1 = ext1
  ext2 = ext2
  NoKey = NoKey
  p1 = p1
  p2 = p2
  w1 = w1
  w2 = w2
  sBoth = sBoth
  sOne = sOne
  sRelay = sRelay
  NoSnapshot = NoSnapshot
  Conn = {c1, c3}
  Browser = {chrome}
  Key = {relay, ext1, ext2}
  Profile = {p1, p2}
  Window = {w1, w2}
  Snapshot = {sBoth}
  Ticks <- MCTicks
  MaxEvents = 1
  DbMayFail = TRUE
  browserOf <- MCBrowserOf
  profileOf <- MCProfileOf
  relayKey <- MCRelayKey
  helloIds <- MCHelloIds
  stored <- MCStored
  privateIn <- MCPrivateIn
SPECIFICATION Spec
INVARIANTS
  TypeOK
  NoOfferWhileAsking
  ConsentBacked
  OneOfferPerKey
  ClaimsAccountedFor
  NoForgottenConnection
PROPERTIES
  PolicySpec
CHECK_DEADLOCK FALSE
