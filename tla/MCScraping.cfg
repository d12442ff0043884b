SPECIFICATION ScrapeSpec
CONSTANTS
    w1 = w1
    w2 = w2
    Scrapers = {w1, w2}
    Settings <- OneTier
    Adaptive = {"playwright"}
    Stealth = {}
    Pilot = 1
    Pages = 3
    Threshold = 2
    MaxSame = 2
    Answers <- MCAnswers
INVARIANT WindowsWithinBudget
CHECK_DEADLOCK FALSE
