SPECIFICATION Spec
CONSTANTS
    ann = ann
    bob = bob
    create = create
    join = join
    quit = quit
    hollow = hollow
    hello = hello
    Nil = Nil
    Account = {ann, bob}
    Creating = {create}
    Joining = {join}
    Quitting = {quit}
    Who <- MCWho
    Members <- MCMembers
    Tries = 2
    Sends = {hello}
    Sender <- MCSender
    Faults = {}
INVARIANT
    RowsNameContent
CHECK_DEADLOCK FALSE
