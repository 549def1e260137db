CONSTANTS
    Commands = {"test web host"}
    Base = {"corepack", "pnpm", "paru", "xvfb", "workflows", "nodeDeps", "webDeps", "models"}
    Optional = {}
    WebPorts = {2}
    ApiPort = 1
    Ephemeral = {3}
    LateBind = FALSE
    MaxRuns = 1
SPECIFICATION Spec
INVARIANTS ExtraArgsForwarded
