CONSTANTS
    Chars <- MCChars
    Refs <- MCRefs
    None = None
INIT Init
NEXT Next
\* parse_image_ref returns after its last block.
CHECK_DEADLOCK FALSE
INVARIANTS
    ParseMatchesGrammar
