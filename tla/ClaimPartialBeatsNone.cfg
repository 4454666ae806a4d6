SPECIFICATION Spec
CONSTANTS
    PipeSize = 2
    Scripts <- ShortScripts
    MaxEntries = 2
INVARIANTS
    PartialBeatsNone
CHECK_DEADLOCK FALSE
