SPECIFICATION MCSpec
CONSTANTS
    file1 = file1
    main = main
    side = side
    hub1 = hub1
    process1 = process1
    process2 = process2
    query1 = query1
    query2 = query2
    query3 = query3
    provider1 = provider1
    provider2 = provider2
    admin1 = admin1
    admin2 = admin2
    call1 = call1
    upsert1 = upsert1
    upsert2 = upsert2
    session1 = session1
    tab1 = tab1
    tab2 = tab2
    File = {file1}
    Branch = {main, side}
    Initial = main
    Repo = {hub1}
    MaxVersions = 2
    MaxCommits = 4
    MaxGitEdits = 2
    MaxGitFaults = 1
    Cron = {"even", "third"}
    FireTimes <- MCFireTimes
    Process = {process1, process2}
    Reconcile = 2
    Lag = 0
    MaxTime = 5
    MaxUpdates = 1
    MaxCrashes = 1
    Emitters = 2
    Buffer = 2
    MaxRows = 3
    MaxDrops = 1
    MaxDeaths = 1
    Query = {query1, query2, query3}
    Threads = 2
    MaxCells = 3
    MaxLines = 2
    Provider = {provider1, provider2}
    AdminRequest = {admin1, admin2}
    Call = {call1}
    Admin = {upsert1, upsert2}
    EnvSession = {session1}
    MaxVariables = 1
    MaxRestarts = 1
    MaxMishaps = 1
    Tab = {tab1, tab2}
    MaxTexts = 3
    MaxEvents = 1
    MaxTable = 5
    PageRows = 2
    MaxPage = 3
    CellSizes = {1, 3}
    CellTrim = 2
    TailTrim = 1
    NearCells = {1, 2}
    CharBudgets = {4}
    MinImports = 1
    MinNames = 1
    MaxNamed = 1
    MaxNotebook = 3
    MaxBreaks = 1
INVARIANTS ServicesTypeOK  NoRunMissed  PositionsAgree ProvidersAgree EnvsSettle PagesTile  
PROPERTIES  ListsInOrder NothingUnseenReplaced
CHECK_DEADLOCK FALSE
