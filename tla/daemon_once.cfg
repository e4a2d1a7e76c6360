SPECIFICATION FairSpec
CONSTANTS
    alice = alice bob = bob students = students cp = cp sh = sh
    perUser = perUser webDir = webDir byName = byName
    pStudents = pStudents pAlice = pAlice pBob = pBob pWeb = pWeb
    p1 = p1 p2 = p2
    rootUser = rootUser root = root absent = absent
    any = any noProcess = noProcess unsafe = unsafe noPlan = noPlan
    Users = {alice, bob}
    Groups = {students}
    Names = {cp, sh}
    Raws = {perUser, webDir, byName}
    Paths = {pStudents, pAlice, pBob, pWeb}
    MemberOf <- MCMemberOf
    Expand <- MCExpand
    Above <- MCAbove
    Wildcard = any NoProcess = noProcess Unsafe = unsafe NoPlan = noPlan
    Root = root RootUser = rootUser Absent = absent
    Invalid = Invalid None = None
    Pids = {p1, p2}
    Once = TRUE
    Events = {"process","sched","mkdir","move","chown","enable","config","mount","crash"}
    MaxEvents = 1
    Home = {}
    Delegating = {}
    Configs <- MCConfigs
PROPERTY OnceExits OnceNeverReaps
