SPECIFICATION Spec
CONSTANTS
    Runs = {"x", "v", "y", "u", "z", "t", "q", "p"}
    Together <- MCTogether
    Domains = {"a", "b"}
    Provider <- MCProvider
    DnsType <- MCDnsType
    Servers <- MCServers
    CacheDisabled <- MCCacheDisabled
    CacheTtl <- MCCacheTtl
    Concurrency <- MCConcurrency
    DnsConcurrency <- MCDnsConcurrency
    Filter <- MCFilter
    Nodes <- MCNodes
    DefaultTtl = 1
    MaxAnswers = 2
    MaxTime = 2
INVARIANTS
    OwnFreshAddress
    FirstSuccessWins
    AnswersAreUsed
PROPERTIES
    EverythingEnds
CHECK_DEADLOCK FALSE
