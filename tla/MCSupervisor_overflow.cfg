\* One camera that fails until its delay's power no longer converts to a float.
CONSTANTS
    Cameras = 1
    FirstBackoff = 1
    MaxBackoff = 2
    HealthyAfter = 2
    FloatDoublings = 1024
    MaxFailures = 1025
SPECIFICATION Spec
CHECK_DEADLOCK FALSE
INVARIANT SurvivesFailures
