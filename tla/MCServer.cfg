CONSTANTS
    Given = {"default_model", "llama_url", "llama_bin", "spawn_llama"}
    IdSeq <- IdsOne
    Faults = {}
    Handlers = {h1, h2}
    h1 = h1
    h2 = h2
    Nobody = Nobody
    MaxRequests = 2
SPECIFICATION FairSpec
INVARIANTS TypeOK FlagsWin
PROPERTIES ShutdownEnds
