\* Everything that must happen does, under a changing configuration.
SPECIFICATION AnsweringSpec
CONSTANTS
    Servers = {a}
    Configs = {cfg1, cfg2}
    SoftLimited = {cfg1}
    HardLimited = {cfg1}
    Slots = {s1, s2}
    Conns = {k1, k2}
    Callers = {c1}
    Reloads = {r1}
    MaxEdits = 1
    Absent = Absent
    NoServer = NoServer
    NoConfig = NoConfig
    NoSlot = NoSlot
    NoConn = NoConn
PROPERTY CallsEnd
PROPERTY DrainingEnds
PROPERTY LostIsRecovered
PROPERTY ConfigConverges
PROPERTY ShutdownEnds
