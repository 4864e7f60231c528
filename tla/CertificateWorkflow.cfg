\* The hostname and its wildcard, all three attempts, and a restart of the engine.
SPECIFICATION FairSpec
CHECK_DEADLOCK FALSE
CONSTANTS
    Identifiers = 2
    MaxAttempts = 3
    MaxPolls = 1
    MaxRestarts = 1
INVARIANTS
    ValidatesWhatIsThere
    CleansUp
PROPERTIES
    IssuanceSpec
    Terminates
