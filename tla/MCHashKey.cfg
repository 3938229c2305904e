SPECIFICATION Spec
CONSTANTS
    CharBits = 2
    WordBits = 4
    MaxLen = 3
INVARIANT TypeOK
INVARIANT HashOfSuffix
INVARIANT ShortKeysDoNotCollide
