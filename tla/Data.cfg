SPECIFICATION Spec
CONSTANTS
    W32 = 8
    W64 = 20
    MaxDouble = 1797693139
    MaxFloat = 34028234
    MantissaBits = 13
    SignificandDigits = 4
    MaxExp10 = 9
    MinExp10 = 10
    MaxExp = 40
    DefaultCapacity = 4
    IntRoom = 4
    UintRoom = 3
    Int64Room = 7
    Uint64Room = 7
    DoubleRoom = 15
    PlainDigits = 8
    SmallZeros = 3
    BufferSize = 4
    ChunkSize = 5
    TokenSet <- SomeTokens
    TokenLists <- SomeLists
    Numerals <- SomeNumerals
    Fractions <- SomeFractions
    Exponents <- SomeExponents
    Codes <- SomeCodes
    Values <- SomeValues
    Numbers <- SomeNumbers
    PointerChars <- SomePointerChars
    PointerNames <- SomePointerNames
    Roots <- SomeRoots
    Names <- SomeNames
    ScenesReplies <- SomeReplies
    ControlUpdates <- SomeUpdates
    Bodies <- SomeBodies
    Sizes <- SomeSizes
INVARIANTS
    ParsersAgree
    TextsRead
    RoundTrip
    PointersFaithful
    CopiesWhole
    CacheKept
    BodyWhole
CHECK_DEADLOCK FALSE
