SPECIFICATION Spec
CONSTANTS
    Limit <- MCLimit
    Arithmetic <- NumbersAreExact
    Encoding <- ListsAreReadBack
    KeyPair <- KeyUndoesKey
    Signing <- SignatureIsOf
INVARIANT TokensAreReference
INVARIANT NewestIsChosen
INVARIANT ManifestLinesAreEntries
INVARIANT UrlsAreTakenApart
INVARIANT InfoIsAMap
INVARIANT TextsFit
INVARIANT ComparisonsOrder
INVARIANT Exact
INVARIANT EncodingsDecode
INVARIANT ChunksHashTheSame
INVARIANT SignaturesAreChecked
