SPECIFICATION Spec
CONSTANTS
  Providers = {rd}
  Torrents = {t1}
  Procs = {loop, web}
  Loop = loop
  Requests = {"sync"}
  Permanent = {t1}
  Partial = TRUE
  Faults = TRUE
  NoItem = NoItem
  NoProvider = NoProvider
PROPERTY ReadyItemsStay
