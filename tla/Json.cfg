CONSTANTS
    MaxLength <- MCMaxLength
    Targets <- MCTargets
SPECIFICATION ConfigSpec
INVARIANTS
    AcceptsJson
    
    DecoderInSync
    
    CaretMarksByte
    ConfigUsable

    
CHECK_DEADLOCK FALSE
