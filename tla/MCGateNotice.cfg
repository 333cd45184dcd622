SPECIFICATION Spec
CONSTANTS
  sonnet = sonnet
  claudeSonnet = claudeSonnet
  opus = opus
  codexAstra = codexAstra
  captainAstra = captainAstra
  fable = fable
  dsflash = dsflash
  terra = terra
  oldTerra = oldTerra
  terra56 = terra56
  fresh = fresh
  unlisted = unlisted
  noEffort = noEffort
  low = low
  high = high
  max = max
  Names = {sonnet, claudeSonnet, opus, codexAstra, captainAstra, fable, dsflash, terra, oldTerra, terra56, fresh, unlisted}
  Alias <- MCAlias
  BarredNames = {terra56}
  Astra = {codexAstra, captainAstra}
  AstraSeats = {captainAstra}
  Fable = {fable}
  CreditProfiles = {dsflash}
  BuilderAstra = {codexAstra, fable}
  BundledConsult = {codexAstra, fable}
  Trials = {}
  Arms <- MCArms
  Carrier <- MCCarrier
  Lowest = 3
  Ladder <- MCLadder
  Preferred <- MCPreferred
  NoEffort = noEffort
  Poolless = {fresh}
  RepMeasured <- MCRepMeasured
  Sol = {opus}
  Grok = {terra}
  GrokFloor = 2
  Borrowed <- MCBorrowed
  Subjects = {sonnet, opus, codexAstra, fable, dsflash, terra, oldTerra, fresh}
  Bundle <- MCBundle
  MaxPushes = 2
  Pushable <- MCPushable
  Requests <- MCRequests
  Pools = {claude, commandcode}
  ManualOnly = {commandcode}
  Rolling = {w5h}
  Credit = credit
  Required <- MCRequired
  Legacy <- MCLegacy
  AutoCases <- MCAutoCases
  Values = {u1, u2}
  Ttls = {2}
  Resets = {}
  Days = {1, 2}
  None = None
  Skew = 1
  DefaultTtl = 1
  MaxTtl = 2
  CreditV1MaxTtl = 3
  Wait = 1
  Horizon = 2
  MaxEvents = 3
  GatePool = codex
  Asks <- MCAsks
  Measures <- MCMeasures
  Remeasured <- MCRemeasured
  Worlds <- MCWorlds
  MaxChanges = 1
SYMMETRY MCSymmetry
INVARIANT GateNotifiesOnce
CHECK_DEADLOCK FALSE
