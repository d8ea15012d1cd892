SPECIFICATION Spec
CONSTANTS
  d1 = d1
  d2 = d2
  t1 = t1
  t2 = t2
  Callers = {ip}
  PerMinute = 30
  Burst = 1
  Indicators = {d1, d2}
  Contents <- MCContents
  NoCert = NoCert
  Exporters = {x1}
  Queries <- MCQueries
  DayLength = 2
  MaxTime = 2
  MaxWrites = 2
  MaxExports = 2
  MaxFaults = 1
INVARIANTS TypeOK PartnerConsistent EventNamesBase SharingAudited BudgetKept
