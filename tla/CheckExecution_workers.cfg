\* Two workers, one client, thresholds of one: completions out of order,
\* pauses and resumes with checks in flight, crashes at every step.
CONSTANTS
    Intervals = {1}
    Thresholds = {1}
    NULL = NULL
    Requests = {r1}
    MaxTime = 3
    Workers = {w1, w2}
SPECIFICATION Spec
SYMMETRY ExecSymmetry
INVARIANTS
    ExecTypeOK
    OneActiveIncident
    DownHasIncident
    OneCheckPerRun
    IncidentHistory
    PublishedAreStored
PROPERTIES
    PausedIncidentsFrozen
    RecoveryClosesIncident
    ApiSpec
