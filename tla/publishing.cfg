SPECIFICATION FairSpec
CONSTANTS
    s1 = s1
    s2 = s2
    d1 = d1
    m1 = m1
    m2 = m2
    Scheduled = {s1, s2}
    Direct = {d1}
    Media = {m1, m2}
    Plans <- PlanChoices
    Edited = {s1}
    Workers = {w1, w2}
    Ttl = 1
    Offset = 1
    MaxAge = 1
    MaxFaults = 1
INVARIANTS TypeOK PublishedOnce KeyedOnce MediaWhole NoSilentStatus AuthorHasLastWord NothingScheduledIsLost
PROPERTIES EveryDueRowLeaves
