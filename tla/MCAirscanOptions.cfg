CONSTANTS
    NUM_OPT_SOURCE = 3
    cm1 = cm1
    cm2 = cm2
    NoSrc = NoSrc
    UNKNOWN = UNKNOWN
    ColorModes <- MCColorModes
    SourceCaps <- MCSourceCaps
    ParsedCaps <- MCParsedCaps
INIT Init
NEXT Next
INVARIANTS
    TypeOK
    OptionsInDescriptors
