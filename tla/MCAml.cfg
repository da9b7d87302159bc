\* Every DSDT of up to MaxTerms terms, and every opcode on every kind of operand.
CONSTANTS
    WordBytes = 2
    LoopBound = 12
    MaxTerms = 2
    Firmwares <- MCFirmwares
    Apics = {0, 1, 2, 3}
    Stacks = 2
SPECIFICATION Spec
INVARIANTS ContextRestored TermsAdvance ApsStartApart
PROPERTY ImplementsMeaning
