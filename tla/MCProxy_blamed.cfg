\* Two GETs at a time, one of a consumer that may send something, and a cooldown of one tick.
CONSTANTS
    Handlers = {h1, h2}
    Talkers = {h2}
    Cooldown = 1
SPECIFICATION Spec
CHECK_DEADLOCK FALSE
PROPERTY CooldownMeansTimeout
