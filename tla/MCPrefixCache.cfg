\* Four prefixes, six ROAs, five updates, three announcements.
SPECIFICATION Spec
CONSTANTS
  Prefix <- MCPrefix
  Length <- MCLength
  Above <- MCAbove
  AS = {1, 2, 3}
  Reserved = {3}
  Roa = {1, 2, 3, 4, 5, 6}
  Entry <- MCEntry
  Update = {1, 2, 3, 4, 5}
  Route <- MCRoute
  CounterRange = 16
  MaxAdds = 3
INVARIANTS ResultIsRFC6811 CountersAreExact
CHECK_DEADLOCK FALSE
