CONSTANTS
    XLEN = 4
    WIDE = 12
SPECIFICATION Spec
INVARIANTS
    VMsAgree
    MatchesManual

