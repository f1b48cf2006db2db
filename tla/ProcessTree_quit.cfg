SPECIFICATION Spec
CONSTANTS
    MaxMishaps = 0
    MayFinish = TRUE

PROPERTIES QuitsWhenAllHaveQuit
CHECK_DEADLOCK FALSE
