\* A trace, a span of any of 13 kinds and another publisher; messages lost and repeated.
SPECIFICATION Spec
CONSTANTS
  None = None
  Blank = Blank
  t1 = t1
  s1 = s1
  s2 = s2
  t1Short = t1Short
  s1Short = s1Short
  s2Short = s2Short
  agentA = agentA
  agentB = agentB
  lookup = lookup
  files = files
  web = web
  gpt = gpt
  rule = rule
  main = main
  talk = talk
  text = text
  ShortOf <- MCShortOf
  Traces = {t1}
  Spans = {s1}
  TraceData <- MCTraceData
  Fillings <- MCFillings
  Errors = {text}
  Foreign <- MCForeign
  Time = {0, 1}
  MaxCopies = 2
INVARIANTS
  TypeOK
  OutcomeIsNewest
  DurationIsTheGap
  OneCardPerSpan
  RolesDrawTheSame
CHECK_DEADLOCK FALSE
