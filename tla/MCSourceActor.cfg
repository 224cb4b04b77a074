\* Sources that emit up to ten times (then only a kill ends them); the ActorExitStatus values a source
\* call may return besides Killed.
CONSTANTS
    MaxIterations = 10
    ExitStatuses = {Success, Quit, DownstreamClosed, Failure}
    Killed = Killed
    NoStatus = NoStatus

SPECIFICATION Spec

INVARIANT TypeOK
INVARIANT OneLoopInFlight

\* A finalized actor does nothing more.
CHECK_DEADLOCK FALSE
