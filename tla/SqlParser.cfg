CONSTANTS
    Names = {"a"}
    Unwritten = {"1.0"}
    Roots = {"statement", "expr"}
    Budget = 2
SPECIFICATION Spec
INVARIANTS ReadsWhatItWrites CaptureRereads
