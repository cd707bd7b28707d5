SPECIFICATION FairSpec
CONSTANTS
    N = 2
    c1 = c1
    t1 = t1
    t2 = t2
    t3 = t3
    t4 = t4
    t5 = t5
    NoTask = NoTask
    Clients <- MCClients
    Tasks <- MCTasks
    Script <- MCScript
    Spawns <- MCSpawns
    Detached <- MCDetached
PROPERTY StopWakesAll
CHECK_DEADLOCK FALSE
