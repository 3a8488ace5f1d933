\* Every thread registers once: the service implements ThreadStacks.
SPECIFICATION Spec
CONSTANTS
    PSEUDO_THREAD_NUM = 2
    PSEUDO_THREAD_SS_SIZE = 3
    Tid = {1, 2, 3}
    Addr = {1, 2}
    Reinit = FALSE
PROPERTIES
    PrivateStacks
