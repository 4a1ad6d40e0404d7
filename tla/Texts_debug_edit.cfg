\* Two runs, DEBUG_MODE edited while one is in progress, and two clicks on the texts that arrive.
SPECIFICATION TSpec
CONSTANTS
  Run = {r1, r2}
  NoRun = NoRun
  Webhook = Webhook
  Ticker = {t1}
  MaxTickers = 0
  FirstNumber = 1
  MaxEdits = 1
  DebugEditsMidRun = TRUE
  Click = {c1, c2}
  Null = Null
  MaxNumber = 3
  MaxInbox = 2
INVARIANT ReplayIsReplay
CHECK_DEADLOCK FALSE
