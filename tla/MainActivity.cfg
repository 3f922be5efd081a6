SPECIFICATION Spec
CONSTANTS
  Addresses = {a1, a2}
  Openings = {o1, o2, o3}
  NoOpening = NoOpening
  NoAddress = NoAddress
  Activities = {m1, m2, m3}
  None = None
  App = App
  Losses = 2
  Names = {n1, n2}
  NoName = NoName
  MaxDownloads = 4
INVARIANTS
  OnlyOpenVideoPlays
  LatestAddressPlays
  CreatedIsSubscribed
  CallbacksFindTheActivity
  ShowsTheLastSnapshot
PROPERTIES
  ResumedEndsSomewhere
\* When every opening has been used, an activity with a link stays as it is.
CHECK_DEADLOCK FALSE
