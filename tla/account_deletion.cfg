\* Two requests of two people, two logins, one meeting, one display credential, two
\* deletion workers.
CONSTANTS
    Subjects = {s1, s2}
    Newcomers = {s1}
    Requests = {r1, r2}
    Meetings = {m1}
    Workers = {w1, w2}
    None = None
    MaxUsers = 2
    MaxLogins = 2
    MaxViews = 1
    Capacity = 1
SPECIFICATION AccessSpec
INVARIANT AccessInv
PROPERTY OwnerAnswersAdvance
PROPERTY FencedIsPurged
CHECK_DEADLOCK FALSE
