CONSTANTS
    Source = Source
    Target = Target
    Small = Small
    Big = Big
    Conversations = {Source, Target}
    Events = {Small, Big}
    Large = {Big}
    EventsOf <- Sessions
    Hosts = {h1}
    Compactors = {k1}
    Carriers = {r1}
    Pruners = {p1}
    MaxStarts = 4
SPECIFICATION Spec
PROPERTIES PinsAlwaysWin
CHECK_DEADLOCK FALSE
