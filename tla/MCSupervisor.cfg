\* Two cameras; the delay is capped from the second failure on.
CONSTANTS
    Cameras = 2
    FirstBackoff = 1
    MaxBackoff = 2
    HealthyAfter = 2
    FloatDoublings = 1024
    MaxFailures = 3
SPECIFICATION Spec
CHECK_DEADLOCK FALSE
INVARIANTS StopsEverything
PROPERTIES RetriesBackOff EveryCameraIsTried SignalStops NeverTorn LoginsAreNeeded
