SPECIFICATION Spec
CONSTANTS
  Clients = {c1}
  Handlers = {h1}
  Daemon = d1
  Datasets = {"alerts", "accuracy"}
  Servers = {w1, w2}
  Keys = {"gfs.enabled", "ensemble.seed", "dem.path"}
  WizardKeys = {"gfs.enabled"}
  RestartKeys = {"gfs.enabled", "dem.path"}
  EnvKeys = {"dem.path"}
  OptKeys = {"ensemble.seed"}
  Values = {"on", "off"}
  Default = "off"
  Overridden = "on"
  Accounts = {"n1", "n2"}
  Locations = {"l1", "l2"}
  Tiles = {"t1", "t2", "sea"}
  Upstream = {"t1", "t2"}
  Cover <- Coast
  Period = 1
  Early = 0
  Late = 0
  Latency = 0
  Cadence = 2
  Keep = 2
  MaxFxx = 4
  CacheMax = 2
  Cap = 5
INVARIANTS TypeOK SavedIsLiveOrAnnounced AccountImpliesConfigured NoMissedKick TilesAreSeen TightPair WindsComeBack
PROPERTY EveryChangeIsTold
