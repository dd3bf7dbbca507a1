\* The control contract for every program: all lines at all times.
CONSTANT MaxBusy = 7
SPECIFICATION TimedSpec
INVARIANTS
    TypeOK
    HaltedOneWay
    ResponseBounded
PROPERTIES
    WakeUpCauses
    NmiLatched
    NmiServed
    IrqServed
    WaitEnds
    ResetServed
