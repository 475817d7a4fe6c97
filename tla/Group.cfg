SPECIFICATION Spec
CONSTANTS
    None = None
    a = a
    b = b
    c = c
    usd = usd
    inr = inr
    Profiles = {p1, p2, p3}
    Members = {a, b, c}
    Entries = {e1, e2}
    Tokens = {t1, t2}
    Labels = {n1}
    Looks = {k1, k2}
    EntryInputs <- MCInputs
    MaxSeq = 5
SYMMETRY Interchangeable
INVARIANTS
    TypeOK
    OnePlacePerAccount
    Owned
    LiveXorGone
    StagedMirrorsRoster
    RecordMatchesRoster
    OneOpenInvite
    DepartedSettled
    SnapshotCurrent
PROPERTIES
    FeedSeesEveryChange
    SignInKeepsAccess
    ImplementsParticipation
    DetailsAreTheirOwn
    EndsSettled
\* A collected group and a spent bound both stop.
CHECK_DEADLOCK FALSE
