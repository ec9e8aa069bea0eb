\* Threads are created, block, are woken and exit; a user task shares the ring.
CONSTANTS
    Tcb = {main, t1, t2, u1}
    Main = main
    UserTask = {u1}
    Exiters = {t1, t2}
    TIME_CONT = 1
    main = main
    t1 = t1
    t2 = t2
    u1 = u1
SPECIFICATION FairThreadsSpec
INVARIANTS ThreadsTypeOK SingleRing NoThreadLost
PROPERTY ReadyRuns
