CONSTANTS
    c1 = c1
    c2 = c2
    c3 = c3
    Clients <- ThreeClients
    MaxVersion = 1
    MaxLoads = 2
    MaxEvictions = 1

SPECIFICATION Spec


INVARIANT TypeOK
INVARIANT GetNotStale
INVARIANT SideLoadWins
INVARIANT NoSpuriousPanic
INVARIANT RunningQueryIsLive
PROPERTY WaitersReturn
