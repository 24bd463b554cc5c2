SPECIFICATION MCSpec
CONSTANTS
    MaxClicks = 3
    Timeout = 2
    BitsOfByte = {1}
    KeyParts <- Key
    Texts <- MCTextsKept
    Compress <- MCCompress
    Uncompress <- MCUncompress
    Checksum <- MCChecksum
    Hash <- MCHash
    Compression = "auto"
    Protection = "checksum"
    Files <- MCFiles
    Names <- MCNames
    FileOf <- MCFileOf
    Drafts <- MCDrafts
    Randoms <- MCRandoms
CHECK_DEADLOCK FALSE
INVARIANTS FormWaitsForTimer PromptAnswersAgree
           StoredAsSaved ShownIsStored StoredIsListed
PROPERTIES FormComesBack ConnectsAsShown
