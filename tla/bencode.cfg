\* Every text of up to four characters, and longer ones with a fault.  A text
\* is read once.
SPECIFICATION Spec
CONSTANTS
    DIGITS_IN_LONG = 2
    MaxLength = 4
    Texts <- BencodeTexts
CHECK_DEADLOCK FALSE
INVARIANTS
    ExactlyTheGrammar
    OnlyWholeItems
    HashedIsTheInfo
