SPECIFICATION Spec
CONSTANT MaxCalls = 3
INVARIANT RootVelocityHeld
