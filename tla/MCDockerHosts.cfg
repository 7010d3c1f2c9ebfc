CONSTANTS
    Hosts = {"a", "b"}
    Ports = {1, 2, 3, 4}
    Runs <- MCRuns
    Asked = {{1, 2}, {1, 3}}
    Plan <- MCPlan
    DIST_PORT_BASE = 2
    NodePorts = {3}
    Tries = 3
    MaxFaults = 1
    MaxReaps = 2
SPECIFICATION Spec
PROPERTIES
    
    ServesItself
    LaunchEnds
CHECK_DEADLOCK FALSE
