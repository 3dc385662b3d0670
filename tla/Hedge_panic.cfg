\* An attempt is refused at once.
SPECIFICATION HedgeSpec
INVARIANT NeverPanics
