\* A container that moves, comes and goes, one request, ticks that fail, restarts.
SPECIFICATION FairSpec
CONSTANTS
    container = container
    env = env
    docker = docker
    here = here
    there = there
    a1 = a1
    a2 = a2
    i1 = i1
    i2 = i2
    q1 = q1
    None = None
    Sources = {docker, env}
    Changing = {docker}
    Keys = {container}
    SourceOf <- OneContainer
    Data = {here, there}
    DataOf <- ContainerData
    Aliases = {a1, a2}
    AliasOf <- ContainerAlias
    Production = {here, there}
    Ids = {i1, i2}
    Requests = {q1}
INVARIANT LinkIsOwn
PROPERTIES SettledStaysSettled VanishedIsMarked FoundIsListed
CHECK_DEADLOCK FALSE
