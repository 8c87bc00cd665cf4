SPECIFICATION Spec
CONSTANTS
    Nil = Nil
    Error = Error
    Messages <- MCMessages
    Extras <- MCExtras
    Damages = {0, 15, 255}
INVARIANTS
    RoundTrip
    ForwardCompatible
    ReencodeStable
