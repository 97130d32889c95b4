SPECIFICATION SliceSpec
PROPERTIES
  SlashLands
  KeepsPromise
  WatchdogKeepsLive
  PriceRefreshed
  RosterSettles
CHECK_DEADLOCK FALSE
