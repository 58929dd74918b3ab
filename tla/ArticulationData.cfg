SPECIFICATION Spec
CONSTANT MaxCalls = 5
INVARIANTS
    HeldCurrent
    ConfigurationCurrent
    StatesAreTheirParts
