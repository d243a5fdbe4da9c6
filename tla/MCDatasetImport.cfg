SPECIFICATION FairImportSpec
CONSTANTS
    a = a  b = b  old = old
    v1 = v1  v2 = v2
    c1 = c1  c2 = c2  c3 = c3  c4 = c4  other = other
    kold = kold  pold = pold
    w1 = w1
    None = None
    Source = {a, b, old}
    Version = {v1, v2}
    Chunk = {c1, c2, c3, c4, other}
    Worker = {w1}
    SourceOrder <- MCSourceOrder
    Key <- MCKey
    Payload <- MCPayload
    Content <- MCContent
    Links <- MCLinks
    Command <- MCCommand
    Dataset <- MCDataset
    Preloaded <- Both
INVARIANTS
    RelationshipsAfterSources
    CompletedIsConsistent
    VerifiedIsExact
    ImportLossIsExplicit
PROPERTIES
    CoherentImportCompletes
