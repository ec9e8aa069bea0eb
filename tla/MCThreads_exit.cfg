\* Threads block and exit.
CONSTANTS
    Tcb = {main, t1, t2}
    Main = main
    UserTask = {}
    Exiters = {t1, t2}
    TIME_CONT = 1
    main = main
    t1 = t1
    t2 = t2
SPECIFICATION ThreadsSpec
SYMMETRY Symmetry
PROPERTY BlockedStaysOff
