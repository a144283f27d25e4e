SPECIFICATION FairSpec
CONSTANTS
  Providers = {rd}
  Torrents = {t1}
  Procs = {loop, web}
  Loop = loop
  Requests = {"sync", "page", "add", "remove", "wipe"}
  Permanent = {t1}
  Partial = FALSE
  Faults = TRUE
  NoItem = NoItem
  NoProvider = NoProvider
INVARIANTS
  TypeOK
PROPERTIES
  LibraryFollows
  ReadyItemsStay
