SPECIFICATION Spec
CONSTANTS
    b1 = b1
    b2 = b2
    w1 = w1
    w2 = w2
    alice = alice
    Users = {alice}
    NoUser = NoUser
    Browsers = {b1}
    Tabs = {w1, w2}
    Requests = {1, 2}
    UserOf <- OneUser
    BrowserOf <- TwoTabs
    TabOf <- CallEach
    MaxTokens = 3
    MaxFaults = 0
    LogoutAnytime = FALSE
INVARIANT ReuseEndsSessions
