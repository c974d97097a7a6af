\* Two windows of eight milliseconds, with up to two words each.
SPECIFICATION TranscribeSpec
CONSTANTS
    Overlap = 4
    Margin = 1
    Silent = "-"
    Rate = 2
    Size = 8
    MaxAudio = 11
    WordLimit = 3
    Samples = {0, 1, 21, 23}
    Text = {"a", "b"}
    Extent = {1, 4}
    Spoken = 2
    Chars <- MCChars
    MaxWordChars = 4
    MaxTextChars = 12
    Bytes <- MCBytes
    CharBytes = 2
    WordBytes = 2
    Envelope = 1
    BodyLimit = 41
    MaxChars = 3
    MaxSegment = 5
    MaxGap = 2
INVARIANTS
    NeverInvalid
    RefusedForSizeOnly
    CaptionsFaithful
    CaptionsTimed
PROPERTIES
    WindowsCover
    OverlapOnly
    RecoveryGains
CHECK_DEADLOCK FALSE
