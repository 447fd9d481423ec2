CONSTANTS
  c1 = c1
  c2 = c2
  c3 = c3
  k1 = k1
  k2 = k2
  notes = notes
  fetch = fetch
  tl = tl
  f1 = f1
  e1 = e1
  e2 = e2
  h1 = h1
  h2 = h2
  None = None
  Scenes <- AllScenes
  Client = {k1, k2}
  ClientOf <- Owner
  Stamp <- StampOf
  Matches <- Matching
  Conn = {c1, c2, c3}
  Anonymous = {k2}
  Sub = {notes, fetch, tl}
  Filter = {f1}
  ReqFilters <- OneFilter
  Event = {e1, e2}
  Ephemeral = {fetch}
  FetchEvents = {fetch}
  Timeline = {tl}
  MaxTimelines = 1
  Handler = {h1, h2}
SPECIFICATION MCSpec
INVARIANTS TypeOK  NoLostSubscription NeverStuck
PROPERTIES CursorMonotone
SYMMETRY Interchangeable
