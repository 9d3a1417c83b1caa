\* Two launchers, three builds, one installation of another build, one failure
\* or kill.  The system may stop: a launcher that is killed leaves the unit
\* stopped.
CONSTANTS
  NoProcess = NoProcess
  Headless = headless
  Launcher = {1, 2}
  Key = {k1}
  MaxInstalls = 1
  MaxFaults = 1
  Builds <- MCBuilds
  Process <- MCProcess

SPECIFICATION Spec
INVARIANTS TypeOK OneOwner RunsOnItsSchema RowsSurvive
PROPERTIES ForeignUntouched ImplementsSchemaHistory TrackingResumes
CHECK_DEADLOCK FALSE
