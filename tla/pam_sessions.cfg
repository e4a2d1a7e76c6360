SPECIFICATION FairSpec
CONSTANTS
    alice = alice
    staff = staff
    sshd = sshd
    jobs = jobs
    own = own
    escape = escape
    pUsers = pUsers
    pAlice = pAlice
    pSession = pSession
    pJobs = pJobs
    home = home
    session = session
    outside = outside
    s1 = s1
    s2 = s2
    root = root
    rootUser = rootUser
    absent = absent
    any = any
    noProcess = noProcess
    unsafe = unsafe
    noPlan = noPlan
    Users = {alice}
    Groups = {staff}
    Names = {sshd}
    Raws = {jobs, own, escape}
    Paths = {pUsers, pAlice, pSession, pJobs}
    MemberOf <- MCMemberOf
    Expand <- MCExpand
    Wildcard = any
    NoProcess = noProcess
    Unsafe = unsafe
    NoPlan = noPlan
    Configs <- MCConfigs
    Pids = {s1, s2}
    Root = root
    RootUser = rootUser
    Absent = absent
    Above <- MCAbove
    Sessions = {s1, s2}
    UserOf <- MCUserOf
    ByRules = {s1}
    NssFails = TRUE
    Places = {home, session, outside}
    ExpandPlace <- MCExpandPlace
    Layouts <- MCLayouts
    Invalid = invalid
    Missing = missing
    NoLayout = noLayout
    None = none
    Keep = keep
    Home = {pUsers}
    Delegating = {pUsers}
    Events = {"layout", "rules", "mount", "rmdir", "move", "exit"}
    MaxEvents = 1
INVARIANTS
    TypeOK
    AdmittedPlaced
    PlacesDelivered
    BadLayoutMovesNobody
PROPERTIES
    NeverLockedOut
