SPECIFICATION Spec
CONSTANTS
  Date <- MCDate
  Nobody = Nobody
  MaxRuns = 4
INVARIANTS WeekHasBags OncePerWeek
