\* Semaphores and two locks, without the keyboard.
CONSTANTS
    Tcb = {main, t1, t2, t3}
    Main = main
    UserTask = {}
    Exiters = {}
    TIME_CONT = 0
    PlainSem = {sem}
    Lock = {printk_lock, link_lock}
    PrintkLock = printk_lock
    NoSem = NoSem
    NoTcb = NoTcb
    InitVal = 1
    MaxVal = 2
    main = main
    t1 = t1
    t2 = t2
    t3 = t3
    sem = sem
    printk_lock = printk_lock
    link_lock = link_lock
SPECIFICATION SyncSpec
SYMMETRY Symmetry
INVARIANTS MutualExclusion NoLostWakeup
PROPERTY FirstComeFirstServed
