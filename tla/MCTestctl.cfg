CONSTANTS
    Commands = {"install all", "install host:all", "install verify host:all", "install llama",
                "test all auto", "test web haiku", "test ci all", "test ci installers all", "test", ""}
    Base = {"corepack", "paru", "xvfb", "workflows", "nodeDeps"}
    Optional = {"pnpm", "yay", "act", "models", "webDeps"}
    WebPorts = {2}
    ApiPort = 1
    Ephemeral = {3}
    LateBind = FALSE
    MaxRuns = 2
SPECIFICATION FairSpec
INVARIANTS TypeOK ExitZeroMeansDone SuiteCleansUp OwnServers
PROPERTIES InstallRepairs InvocationEnds
