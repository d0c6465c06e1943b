SPECIFICATION BoundedSpec
CONSTANTS
    MaxSeq = 3
    MaxNotified = 2
    Moment <- TwoMoments
INVARIANTS TypeOK StoreFaithful RepoNotAhead AckMeansStored
PROPERTIES StoreIsWriteOnce RepoRecovers
CHECK_DEADLOCK FALSE
