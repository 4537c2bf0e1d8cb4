SPECIFICATION Spec
CONSTANTS
  seeders = seeders
  hd = hd
  connections = connections
  trackers = trackers
  users = users
  monitorMenu = monitorMenu
  savedMenu = savedMenu
  Filter <- MCFilter
  Panel <- MCPanel
  FirstPanel = connections
  OtherHash = OtherHash
  BodyMenu <- MCBodyMenu
  SiteMenu = SiteMenu
  None = None
INVARIANTS TypeOK TabHonest HashNamesPanel ChipsHeard
