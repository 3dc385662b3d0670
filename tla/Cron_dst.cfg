\* The zone changes its offset while the server runs.
SPECIFICATION CronSpec
CONSTANTS
    Day = 12
    Minute = 2
    Guard = 3
    Window = 3
    Target = 5
    Shift = {0, 1}
    Late = 1
    Busy = 3
    Days = 3
    MaxReboots = 0
PROPERTY FiresOnTime
CHECK_DEADLOCK FALSE
