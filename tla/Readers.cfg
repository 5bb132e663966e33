CONSTANTS
    t1 = t1  t2 = t2  t3 = t3  j1 = j1  j2 = j2
    Tables = {t1, t2, t3}
    NoTable = none
    Jobs = {j1, j2}
    Series <- MCSeries

    day = day  price = price  size = size  loss = loss  boroughs = boroughs
    y1 = y1  y2 = y2  v1 = v1  v2 = v2
    Cols <- MCCols
    Dated = {day}
    Varied = {day, price, size, loss}
    Negative = {loss}
    Long = TRUE
    Years = {y1, y2}
    Mixed = {y1}
    Boroughs = boroughs
    Blank = blank
    Viewers = {v1, v2}
    Unlucky = {v1}
    Wanted <- MCWanted
    Spoils = 1

    u1 = u1  u2 = u2  s1 = s1  s2 = s2
    People = {u1, u2}
    Patterns = {c1}
    Nobody = nobody
    Newest = 2
    Acts = 4

    Shelves = {s1, s2}
    NoShelf = closed
    Lengths = {0, 2, 5}
    Most = 4
    Step = 3
    Additions = 1
    Openings = 3

    Urls = 5
    Size = 2
    Targets <- MCTargets
    Attempts = 5
    Misses = 1

    Old <- MCOld
    Months = 58
    Latest <- MCLatest
    Limit = 2
    Lapses = 1

    w1 = w1  w2 = w2  q1 = q1  q2 = q2  q3 = q3
    SearchTerms = {w1, w2}
    Titles <- MCTitles
    Columns <- MCColumns
    Searches = {q1, q2, q3}
    Shaky = {q3}
    NoTerm = noterm
    Retries = 5
    Listed = 2

    health = health  school = school  tax = tax  crime = crime  tory = tory
    Keywords <- MCKeywords
    Entities <- MCEntities
    Dictionaries <- MCDictionaries
    Regions <- MCRegions
    Days = 2
    Scanned = 7
    Ranked = 2

    Entries = 3
    PerPage = 2
    Clicks = 2
    AtOnce = 2
    Mishaps = 1
SPECIFICATION Spec
SYMMETRY Symmetry
CHECK_DEADLOCK FALSE
INVARIANTS CorrelationsAreWhole DatesAreCounted StreamIsNewest PagesAreTrue NewsArrives
           SearchesAreCounted ActivityIsRanked
PROPERTY ChartsAreShown
