CONSTANTS
    Given = {"default_model", "llama_url", "llama_bin", "spawn_llama"}
    IdSeq <- IdsOne
    Faults = {}
    Handlers = {h1}
    h1 = h1
    Nobody = Nobody
    MaxRequests = 0
SPECIFICATION Spec
INVARIANTS FileIsApplied
