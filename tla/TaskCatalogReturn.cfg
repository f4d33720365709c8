SPECIFICATION Spec
CONSTANTS
    c1 = c1
    c2 = c2
    t1 = t1
    t2 = t2
    home = home
    work = work
    chat = chat
    Clients = {c1, c2}
    Tasks = {t1, t2}
    Old = {t1}
    Projects = {home, work, chat}
    Home = home
    Scratch = {chat}
    None = None
    Plays <- ReturnPlay
INVARIANTS
    WatchersAgree
CHECK_DEADLOCK FALSE
