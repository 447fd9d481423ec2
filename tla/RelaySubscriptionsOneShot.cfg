CONSTANTS
  c1 = c1
  c2 = c2
  c3 = c3
  k1 = k1
  k2 = k2
  notes = notes
  fetch = fetch
  tl = tl
  f1 = f1
  e1 = e1
  e2 = e2
  h1 = h1
  h2 = h2
  None = None
  Scenes <- OneScene
  Client = {k1}
  ClientOf <- Owner
  Stamp <- StampOf
  Matches <- Matching
  Conn = {c1}
  Anonymous = {}
  Sub = {fetch}
  Filter = {f1}
  ReqFilters <- OneFilter
  Event = {}
  Ephemeral = {fetch}
  FetchEvents = {fetch}
  Timeline = {}
  MaxTimelines = 1
  Handler = {h1, h2}
SPECIFICATION MCSpec
INVARIANTS OneShotsRemoved
