\* Reputation and blocklist of the dashboard.
CONSTANTS
    a = a
    b = b
    Ips = {a, b}
    Feeds <- MCFeeds
    Batches <- MCBatches
    NoRow = NoRow
    Clients = {web}
    Scheduler = Scheduler
    UserIps = {a}
    MaxDamage = 110
SPECIFICATION Spec
INVARIANTS AgentsFollowBlocklist ScoreHasEvents
PROPERTY LowIsBlocked
