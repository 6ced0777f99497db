SPECIFICATION Spec
CONSTANTS
  Open = Open
  Quote = Quote
  Http = Http
  Colon = Colon
  Slash = Slash
  Hash = Hash
  Question = Question
  Raw = Raw
  Esc = Esc
  a = a
  b = b
  one = one
  dot = dot
  low = low
  Letter = {a, b}
  Digit = {one}
  Dot = {dot}
  Symbol = {low}
  Starts <- MCStarts
  Pages <- MCPages
  Depth = 2
INVARIANTS
  TypeOK
  EveryLinkOnce
  StaysOnHost
  ResultsLeadThere
  EndsForAReason
CHECK_DEADLOCK FALSE
