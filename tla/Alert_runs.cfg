\* Two runs that overlap, a list of up to two tickers, one edit by the owner; each run ends.
SPECIFICATION Spec
CONSTANTS
  Run = {r1, r2}
  NoRun = NoRun
  Webhook = Webhook
  Ticker = {t1, t2}
  MaxTickers = 2
  FirstNumber = 3
  MaxEdits = 1
  DebugEditsMidRun = FALSE
INVARIANTS TypeOK UniqueNumbers AtMostOneText SlotsMatchList GapsHaveCauses
PROPERTIES NoCallAfterLimit RunsEnd
CHECK_DEADLOCK FALSE
