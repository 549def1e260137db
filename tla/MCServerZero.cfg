CONSTANTS
    Given = {"llama_url", "llama_use_openai"}
    IdSeq <- IdsOne
    Faults = {}
    Handlers = {h1}
    h1 = h1
    Nobody = Nobody
    MaxRequests = 0
SPECIFICATION Spec
INVARIANTS ZeroIsUnspecified
