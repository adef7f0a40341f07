SPECIFICATION FairSpec
CONSTANTS
    Users = {host}
    Host = host
    MaxParticipants = 1
    Handlers = {h1, h2}
    MaxFaults = 1
    MaxHooks = 1
PROPERTIES
    MeetingEnds
    EndIsTold
