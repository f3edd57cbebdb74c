SPECIFICATION MCSpec
CONSTANTS
    Wikis = {1, 2}
    Section <- MCSection
    Closed = {}
    Initial = 2
    Fastest = 1
    Slowest = 2
    SlowestClosed = 2
    BackoffBase = 1
    BackoffMax = 1
    Selection = 2
    Behind = 1
    Gadgets = {1, 2, 3}
    Key <- MCKey
    Spelling <- MCKey
    Home <- MCHome
    Files = {1, 2}
    Born <- MCBorn
    Author <- MCAuthor
    Declarations <- MCDeclarations
    Taken = {}
    Fallback <- MCFallback
    SourceLimit = 2
    Steady = {3}
    Ops = 1
    Troubles = 1
    None = None
    Scripts <- MCScripts
    Versions = {1, 2}
    Fields = {"d"}
    WindowLimit = 2
    Slack = 2
INVARIANTS Truthful
PROPERTIES AnswersStand EveryTextAsked FollowsWikis
CHECK_DEADLOCK FALSE
