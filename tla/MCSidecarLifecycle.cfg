CONSTANTS
    d0 = d0
    d1 = d1
    d2 = d2
    lib = lib
    tool = tool
    empty = empty
    none = none
    Plugins = {lib, d1, d2}
    Tools = {tool}
    Vias = {0, 1, 2, 3}
    Short = none
    Dirs <- MCDirs
    Runtime <- MCRuntime
    Libs <- MCLibs
    Providers = {lib}
    Tool = tool
    NoDir = empty
    MaxAttempts = 2
    RestartOnCrash = TRUE
    MaxSessions = 3
    MaxFaults = 1
SPECIFICATION Spec
INVARIANTS TypeOK ToolsHaveOwners RegisteredIsLoaded OneSidecarPerDir ShutdownLeavesNone
PROPERTIES StartEnds
CHECK_DEADLOCK FALSE
