SPECIFICATION AlgorithmsSpec
CONSTANTS
    Owners = {w1, w2}
    NumBuckets = 14
    Modulus = 65536
    Values = {0, 3, 4, 113, 300}
    MaxAdds = 2
    MaxChar = 3
    MaxShort = 7
    MaxInt = 15
    MaxLong = 31
    WordBits = 16
    MaxPacked = 3
    Arguments <- MCArguments
    MaxArgs = 5
    inline_buffer_size = 6
    line_size = 11
    M = 127
    A = 43
    PieceSize = 6
    LeastData = 20
    Printable = 5
    Radix = 4
    IntBytes = 3
    Seeds = {0, 1, 127, 255, 301, 1000}
    Ratios = {0, 50, 100}
    ValueSizes = {1, 3, 7, 20, 25}
    KeyPairs <- MCKeyPairs
    KeySizes <- MCKeySizes
    QueueSlots = 3
    StoreSize = 2
    MsgStoreSize = 3
    Blocks = {1, 2, 3, 4, 5, 6, 7, 8}
    Pieces = {1, 3}
    MaxPieces = 2
    MaxPosts = 4
INVARIANTS
    StatisticsFaithful
    StringsMatchTheirGrammar
    WrittenAsSpecified
    ArgsKeepTheirTypes
    TestDataIsSound
    BuffersKeepTheirText
CHECK_DEADLOCK FALSE
