SPECIFICATION FairSpec
CONSTANTS
    chat = chat
    login = login
    n1 = n1
    n2 = n2
    Nil = Nil
    Dep = {chat, login}
    Node = {n1, n2}
    Serves <- MCServes
    Faults = {}
PROPERTY
    DependenciesConnected
CHECK_DEADLOCK FALSE
