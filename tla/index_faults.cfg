SPECIFICATION Spec
CONSTANTS
  a1 = a1
  a2 = a2
  file = file
  web = web
  small = small
  large = large
  Apps <- MCApp
  PagesOf <- MCFiles
  NameOf <- MCNameOf
  WebPages = {web}
  LocalPages = {file}
  Meta = meta
  Intent = intent
  Models <- MCModels
  Home = small
  NoModel = NoModel
  ModelLists <- MCLists
  Targets = {"all", "web_documents", "lancedb", "intents"}
  Runs = {r1}
  Env = {"crash", "kill", "llm", "page", "toc"}
PROPERTY RepairsAreSound
