\* The printk lock and the keyboard, whose handler prints.
CONSTANTS
    Tcb = {main, t1, t2}
    Main = main
    UserTask = {}
    Exiters = {}
    TIME_CONT = 0
    PlainSem = {}
    Lock = {printk_lock}
    PrintkLock = printk_lock
    NoSem = NoSem
    NoTcb = NoTcb
    InitVal = 0
    MaxVal = 1
    main = main
    t1 = t1
    t2 = t2
    printk_lock = printk_lock
SPECIFICATION IrqSpec
INVARIANT MutualExclusion
