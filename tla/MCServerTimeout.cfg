CONSTANTS
    Given = {"llama_url", "infer_timeout"}
    IdSeq <- IdsOne
    Faults = {}
    Handlers = {h1}
    h1 = h1
    Nobody = Nobody
    MaxRequests = 0
SPECIFICATION Spec
INVARIANTS InferTimeoutKept
