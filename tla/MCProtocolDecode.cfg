\* Every profile, every frame: the state is the input and what is made of it.
SPECIFICATION Spec
CONSTANTS
    Width = 2
    Header = 1
    Version = 1
    NoValue = none
    Profile <- MCProfile
    Message <- MCMessage
    Frame <- MCFrame
    Datagram <- MCDatagram
INVARIANTS
    TypeOK
    FieldsTellTheFrame
    RefusedForAReason
CHECK_DEADLOCK FALSE
