SPECIFICATION Spec
CONSTANTS
    Confs <- ManConfs
    Commands <- ManRequests
    MaxRequests = 3
    MaxServers = 2
    MaxRestarts = 1
    Configs <- UdpConfigs
    MaxDiff = 1
    Ttl = 2
    QueueMax = 1
    ChanMax = 1
    KeepMax = 1
    MaxPid = 1
    MaxSent = 2
    MaxReceived = 2
    MaxAnswers = 2
    MaxTime = 3
    Setups <- DnsCases
    Zone <- DnsZone
    LowerCase <- DnsLowerCase
    Digit <- DnsDigits
    Hex <- DnsHex
    MaxLosses = 1
    Cases <- SocksCases
    Datagrams <- SocksDatagrams
    Answers <- SocksAnswers
    BindAddr <- V4
INVARIANTS
    PacketsServedOnce
    AnswersAreRight
    ServedRightly
    MessagesUnderstood
    HeldWhole
    RemovedIsGone
    ServersInv
    AnswersTheQuestion
    ListsDecide
    ListsAsWritten
    RunsWhole
    ReadsBack
CHECK_DEADLOCK FALSE
