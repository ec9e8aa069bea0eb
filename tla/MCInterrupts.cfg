\* The timer and a device on the slave controller, two kernel threads and a user task, the printk lock.
CONSTANTS
    Tcb = {main, t1, u1}
    Main = main
    UserTask = {u1}
    Exiters = {}
    TIME_CONT = 0
    PlainSem = {}
    Lock = {printk_lock}
    PrintkLock = printk_lock
    NoSem = NoSem
    NoTcb = NoTcb
    InitVal = 0
    MaxVal = 1
    Irq = {0, 8}
    main = main
    t1 = t1
    u1 = u1
    printk_lock = printk_lock
SPECIFICATION FairIntSpec
INVARIANTS OneHandlerPerStack PreemptionOn
PROPERTIES AtomicView EveryLineEnded PrintkWaiterWoken
