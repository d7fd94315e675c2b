SPECIFICATION FairSpec
CONSTANTS
    b1 = b1
    b2 = b2
    w1 = w1
    w2 = w2
    alice = alice
    Users = {alice}
    NoUser = NoUser
    Browsers = {b1, b2}
    Tabs = {w1, w2}
    Requests = {1, 2, 3}
    UserOf <- OneUser
    BrowserOf <- TwoBrowsers
    TabOf <- ThreeCalls
    MaxTokens = 3
    MaxFaults = 1
    LogoutAnytime = FALSE
INVARIANT UsedTokenIsRevoked
INVARIANT OneLiveToken
INVARIANT NoFalseReuse
INVARIANT CookieIsLive
INVARIANT NoForgottenToken
PROPERTY RefreshEnds
