SPECIFICATION Spec
CONSTANTS
  a1 = a1
  a2 = a2
  file = file
  web = web
  small = small
  large = large
  Apps <- MCApps
  PagesOf <- MCPagesOf
  NameOf <- MCNameOf
  WebPages = {web}
  LocalPages = {file}
  Meta = meta
  Intent = intent
  Models <- MCModels
  Home = small
  NoModel = NoModel
  ModelLists <- MCLists
  Targets = {"all", "apps", "local", "intents"}
  Runs = {r1}
  Env = {"page", "reload", "update", "tests"}
INVARIANT TypeOK
INVARIANT SyncCompletes
INVARIANT ConfigRestored
PROPERTY VectorsOfTheModel
CONSTRAINT Bound
