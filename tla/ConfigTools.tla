---------------------------- MODULE ConfigTools ----------------------------
(***************************************************************************)
(* The tools that read configuration files, one at a time: either the      *)
(* daemon or pam_cgroup loads cgrules.conf and its drop-ins, or an         *)
(* administrator runs cgctl snapshot, ls or config.  They share no state.  *)
(***************************************************************************)
EXTENDS RuleFilesProperties, SnapshotProperties

VARIABLE job    \* "load" or "cgctl"

vars == <<job, loadVars, snapVars>>

(* The side that does not run rests in one state.                          *)
LoadRests ==
    /\ etc = <<>> /\ dir = "none" /\ load = "idle"
    /\ due = {} /\ returned = {} /\ files = {}
    /\ rules = <<>> /\ held = <<>> /\ edits = 0

CgctlRests ==
    /\ tree = <<>> /\ accounts = {} /\ seen = <<>> /\ lost = {} /\ changes = 0
    /\ tool = "none" /\ step = "idle" /\ base = Root /\ here = Root
    /\ todo = <<>> /\ part = <<>> /\ unread = <<>> /\ groups = <<>>
    /\ text = <<>> /\ conf = Unreadable /\ queue = <<>>

Init ==
    \/ job = "load"  /\ LoadInit  /\ CgctlRests
    \/ job = "cgctl" /\ LoadRests /\ SnapInit

Next ==
    \/ job = "load"  /\ LoadNext /\ UNCHANGED <<job, snapVars>>
    \/ job = "cgctl" /\ SnapNext /\ UNCHANGED <<job, loadVars>>

Spec == Init /\ [][Next]_vars
=============================================================================
