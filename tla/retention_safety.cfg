CONSTANTS
    Source = Source
    Target = Target
    Small = Small
    Big = Big
    Conversations = {Source, Target}
    Events = {Small, Big}
    Large = {Big}
    EventsOf <- Sessions
    Hosts = {h1}
    Compactors = {k1}
    Carriers = {r1}
    Pruners = {p1, p2}
    MaxStarts = 5
SPECIFICATION Spec
SYMMETRY PrunersAlike
INVARIANTS TypeOK NothingDangles
PROPERTIES PinHolds RollbackCoversPlan
CHECK_DEADLOCK FALSE
