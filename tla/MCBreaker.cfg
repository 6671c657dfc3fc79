SPECIFICATION Spec
CONSTANTS
    Call = {c1, c2, c3}
    None = None
    Past = Past
    Threshold = 1
SYMMETRY Symmetry
INVARIANT ProbesGoOn
