\* The four functions without state, each on all of its bounded inputs.
SPECIFICATION FSpec
CONSTANTS
  Char = {"x", "y", "z"}
  MaxLength = 3
  String <- MCString
  NotString = NotString
  Word <- MCWord
  Blank <- MCBlank
  Lower <- MCLower
  Upper <- MCUpper
  NoBody = NoBody
  MaxBody = 6
  Symbols = {"SPY", "TSLA"}
  Rules <- MCRules
  Prices <- MCPrices
  Unset = Unset
  Corrupt = Corrupt
  t1 = t1
  t2 = t2
  t3 = t3
  lower1 = lower1
  junk = junk
  Ticker <- MCTicker
  Entry <- MCEntry
  Canon <- MCCanon
  DefaultTickers <- OneDefault
  MaxTickers = 2
  MaxSlots = 5
INVARIANTS EqualsIsEquality
INVARIANTS UnlockVerbatim ReadsAsThePrice GroupedByThousands HealedIsTheLoop
PROPERTY StoreTouchesOne
CHECK_DEADLOCK FALSE
