SPECIFICATION Spec
CONSTANTS
    Login = login
    Other = other
    Cleaner = cleaner
    Alice = alice
    Staff = staff
    RootUser = root
    P1 = p1
    P2 = p2
    Root = rootdir
    Gone = gone
    Keep = keep
    NoPid = nopid
    Callers = {login}
    Owners = {root, alice, staff}
    Pids = {p1, p2}
    Paths <- MCPaths
    Parent <- MCParent
    Walk <- MCWalk
    Umask = {"write"}
    Scripts <- LoginScripts
    Home = {rootdir}
    Mortal = {}
INVARIANT
    LoginPlaced
CHECK_DEADLOCK FALSE
