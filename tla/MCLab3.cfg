CONSTANTS
    N = 2
    WIDTH = 4
    X = X
SPECIFICATION Spec
INVARIANTS
    Trained
    ParityOfInputs
PROPERTIES
    CounterSpec
    FramesSpec
