CONSTANTS
    Commands = {"test web host"}
    Base = {"corepack", "pnpm", "paru", "xvfb", "workflows", "nodeDeps", "webDeps", "models"}
    Optional = {}
    WebPorts = {2}
    ApiPort = 1
    Ephemeral = {3}
    LateBind = TRUE
    MaxRuns = 2
SPECIFICATION Spec
INVARIANTS OwnServers
