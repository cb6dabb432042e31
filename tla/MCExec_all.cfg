SPECIFICATION Spec
CONSTANTS
    Targets = 2
    MaxAsked = 1
INVARIANT ChildWatched
PROPERTY WaitEnds
