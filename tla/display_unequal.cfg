SPECIFICATION Spec
CONSTANTS
    alice = alice bob = bob students = students
    cp = cp sh = sh odd = odd any = any noProcess = noProcess ditto = ditto
    Users = {alice, bob}
    Groups = {students}
    Names = {cp, sh, odd}
    Raws <- MCRaws
    Paths <- MCPaths
    MemberOf <- MCMemberOf
    Expand <- MCExpand
    Wildcard = any NoProcess = noProcess
    Unsafe = Unsafe NoPlan = NoPlan
    Configs <- MCConfigs
    Main = "main"
    DropIns <- MCDropIns
    Hidden = {".x"}
    Gone = Gone Folder = Folder Ditto = ditto
    Texts <- MCTexts
    Starts <- MCStarts
    Dirs = {"there", "missing", "file", "none"}
    MaxEdits = 2
    Placeholders <- MCPlaceholders
    Special <- MCSpecial
    Hashed = {"c#u"}
    Unwritable <- MCUnwritable
    Octal <- MCOctal
    Digits <- MCDigits
    NoVal = NoVal
    Tree <- MCTree
    NameOf <- MCNameOf
    PathOf <- MCPathOf
    Accounts = {0, 1}
    LoginOf <- MCLoginOf
    Numeral <- MCNumeral
    RootUid = 0
    ControllerNames = {"cpu", "memory", "io"}
    Domain = {"memory"}
    Legal <- MCLegal
    Low <- MCLow
    AncestorMode <- MCAncestorMode
    ControlFiles <- MCControlFiles
    CtlOf <- MCCtlOf
    Skipped = {"memory.current"}
    Tables = {"table"}
    Fresh <- MCFresh
    Absent = Absent
    Trees <- MCTrees
    Others <- MCOthers
    Scripts <- MCScripts
    Bases <- MCBases
    MaxChanges = 0
INVARIANT DisplayedIsEqual
CHECK_DEADLOCK FALSE
