\* Locks shared with the keyboard handler, which may interrupt a user task too.
CONSTANTS
    Tcb = {main, t1, t2, u1}
    Main = main
    UserTask = {u1}
    Exiters = {}
    TIME_CONT = 0
    PlainSem = {sem}
    Lock = {printk_lock, link_lock}
    PrintkLock = printk_lock
    NoSem = NoSem
    NoTcb = NoTcb
    InitVal = 0
    MaxVal = 1
    main = main
    t1 = t1
    t2 = t2
    u1 = u1
    sem = sem
    printk_lock = printk_lock
    link_lock = link_lock
SPECIFICATION IrqSpec
SYMMETRY Symmetry
INVARIANTS SyncTypeOK LockConsistent BlockedIsQueued AddressSpaceActive
PROPERTY BlockedStaysOff
