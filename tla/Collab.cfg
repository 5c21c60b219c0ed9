SPECIFICATION CollabSpec
CONSTANTS
    Key = {"k"}
    Str = {E, a, b}
    Empty = E
    RawText <- Texts
    EmptyRaw <- TheNoText
    Uuid = {1, 2, 3}
    MaxUuid = 3
    Nil = Nil
    KeyOrder <- Keys
    ColorKey = "kS38"
    Channel = {}
    ChannelsOf <- NoChannels
    Malformed = Malformed
    Path = {h, d}
    Package <- Packages
    NoFile = NoFile
    NoExport = NoExport
    MaxFaults = 2
    Version <- Versions
    Compress = {TRUE, FALSE}
    Founder = {h}
    MaxCommits = 3
    MaxExports = 3
SYMMETRY Values
INVARIANTS
    EverybodysWorkIsThere
PROPERTIES
    LeftoversRefuseOnce
    ExportsAreAtomic
CHECK_DEADLOCK FALSE
