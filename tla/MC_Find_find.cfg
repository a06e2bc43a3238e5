\* Two panes, two searches, every key, the two walkers interleaved.
SPECIFICATION FairSpec

CONSTANTS
    local = local
    remote = remote
    Side <- Panes
    Remote = {remote}
    Plain = {"n"}
    Find = {"/", "/n/"}
    Empty = Empty
    Edit <- BothWays
    Slashed = {"/n/"}
    Depth <- OneLevel
    None = None
    MaxSearches = 2
    MaxHits = 1

INVARIANTS TypeOK ResultsOfOneSearch SpinsForAReason SettledAnswersQuery
INVARIANT OneSearchRuns
PROPERTY SpinnerStops
