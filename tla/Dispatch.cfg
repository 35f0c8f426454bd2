\* Two kinds of message, without a bound on their number; the button may be deaf, the lamp may return.
CONSTANTS
    config = config
    lamp = lamp
    button = button
    Models = {config, lamp, button}
    Composition <- Two
    Messages <- Kinds
    DeafChoices <- ButtonIsDeafOrNot
    Marked <- Singled
    MayReturn = {lamp}
SPECIFICATION Spec
INVARIANTS TypeOK StuckHasCause
PROPERTIES Delivers DispatchEnds QuietDrains
CHECK_DEADLOCK FALSE
