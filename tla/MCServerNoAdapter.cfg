CONSTANTS
    Given = {"default_model", "llama_bin"}
    IdSeq <- IdsOne
    Faults = {}
    Handlers = {h1}
    h1 = h1
    Nobody = Nobody
    MaxRequests = 0
SPECIFICATION Spec
PROPERTIES NoAdapterServes
