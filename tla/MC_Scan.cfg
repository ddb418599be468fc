SPECIFICATION FairSpec
CONSTANTS
    session = session
    database = database
    agent = agent
    Sources = {session, database}
    Agents = {agent}
    Lane <- Lanes
    AgentOf <- Owners
    None = None
    SessionFloor = 1
    TitleFloor = 1
    AgentFloor = 1
    DbFloor = 1
    TickInterval = 2
    MaxChanges = 2
    MaxEvents = 1
INVARIANTS NoSilentLoss NeverSleepsOnScan CoverHonest HistoryKept
PROPERTIES EventuallyDescribed
