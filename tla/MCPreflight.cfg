CONSTANTS
    Given = {"llama_url", "llama_bin", "spawn_llama"}
    IdSeq <- IdsTwo
    Faults = {"bin"}
    Handlers = {h1}
    h1 = h1
    Nobody = Nobody
    MaxRequests = 1
SPECIFICATION Spec
INVARIANTS PreflightSound
