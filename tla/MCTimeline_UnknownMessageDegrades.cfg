CONSTANTS
    Hosts = {h1, h2}
    NoHost = NoHost
    OtherMessage = OtherMessage
    TypeError = TypeError
    MaxEvents = 3
SPECIFICATION Spec
INVARIANT UnknownMessageDegrades
