CONSTANTS
    remote = remote
    payload = payload
    agent = agent
    rogue = rogue
    manager = manager
    Domains = {remote}
    Payloads = {payload}
    Accounts = {agent, rogue}
    Managers = {manager}
    Forged = {}
    MaxLeaves = 2
    NonceSpace = 3
    Agent = agent
    Successors = {agent, rogue}
    None = None
    MaxStops = 3
SPECIFICATION FairSpec
INVARIANT TypeOK
PROPERTIES
    ImplementsHome
    SubmitterNotAhead
    MessagesAreNotarized
