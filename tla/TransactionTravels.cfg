SPECIFICATION Spec
CONSTANTS
    PageSize = 4
    MaxTrips = 2
    Signers = {"wallet", "cosigner"}
    Payloads <- MCPayloads
    Arguments <- MCArguments
    ArgBytes <- ToBytesWithNamedArg
    ArgsJSON <- ArgsToJSON
    ArgsOfJSON <- ArgsFromJSON
INVARIANTS
    TypeOK
    ArrivesAsSigned
    RefusedOnlyForCause
    SaysWhatIsSigned
    DurationsAgree
CHECK_DEADLOCK FALSE
