SPECIFICATION Spec
CONSTANTS
    home = home
    news = news
    shop = shop
    robots = robots
    foreign = foreign
    Nowhere = Nowhere
    Urls <- MCUrls
    InScope <- MCInScope
    RobotsTxt = robots
    Sites <- MCSites
    Starts <- MCStarts
    LimitSets <- MCLimits
INVARIANTS
    TypeOK
    StaysInBounds
    WithinBudget
    LinksFollowed
PROPERTIES
    CrawlEnds
CHECK_DEADLOCK FALSE
