----------------------------- MODULE PamSession -----------------------------
(***************************************************************************)
(* pam_cgroup: logins opening their session at the same time.  Each reads  *)
(* the layout (pam_cgroup.toml), applies its places in order, classifies   *)
(* itself by cgrules.conf, and is admitted or refused.  A cgfs call is     *)
(* four steps here, the grain at which a failure shows; Cgfs has it in     *)
(* full.                                                                   *)
(***************************************************************************)
EXTENDS CgroupKernel

CONSTANTS
    Sessions,       \* the pids of the logins
    UserOf,         \* session -> PAM_USER
    ByRules,        \* the sessions whose PAM line has a cgrules= argument
    NssFails,       \* a lookup in the passwd database may fail
    Places,         \* raw place paths, placeholders intact
    ExpandPlace,    \* <<raw, user>> to the cgroup, or Unsafe
    Layouts,        \* the layouts that parse
    Invalid,        \* a file that does not parse
    Missing,        \* a file that is not there
    NoLayout,       \* no layout loaded
    None,           \* no cgfs call in hand
    Keep,           \* a call that changes no owner
    Home,           \* the directories that exist beforehand
    Delegating,     \* those that offer their children the controllers
    Events,         \* which kinds of environment event a run admits
    MaxEvents       \* bound: environment events in one behaviour

(* A [[place]] entry.                                                      *)
Place == [raw : Places, owner : {"root", "user", "unknown"},
          controllers : BOOLEAN, attach : BOOLEAN]

(* A cgfs call in hand: of which place, 0 for the one of cgrules.          *)
Target == [place : Nat, path : Paths, owner : Users \cup {RootUser, Keep},
           controllers : BOOLEAN, attach : BOOLEAN]

ASSUME PamAssumption ==
    /\ Sessions \subseteq Pids
    /\ UserOf \in [Sessions -> Users]
    /\ ByRules \subseteq Sessions
    /\ ExpandPlace \in [Places \X Users -> Paths \cup {Unsafe}]
    /\ \A l \in Layouts : /\ DOMAIN l = {"fail_closed", "place"}
                          /\ l.fail_closed \in BOOLEAN
                          /\ l.place \in Seq(Place) \ {<<>>}
    /\ {Invalid, Missing, NoLayout} \cap Layouts = {} /\ Missing # Invalid
    /\ Invalid \notin Configs
    /\ None \notin Target /\ Keep \notin Users \cup {RootUser}
    /\ Delegating \subseteq Home /\ Home \subseteq Paths
    /\ \A d \in Home : Above[d] \subseteq Home
    /\ Events \subseteq {"layout", "rules", "mount", "rmdir", "move", "exit"}
    /\ NssFails \in BOOLEAN /\ MaxEvents \in Nat

VARIABLES
    toml,       \* what is in pam_cgroup.toml
    rules,      \* what is in cgrules.conf and cgconfig.conf
    mounted,    \* the hierarchy can be opened
    pc,         \* session -> where in open_session
    layout,     \* session -> the layout it loaded
    target,     \* session -> the cgfs call in hand, or the last one
    budget,     \* environment events left
    moved,      \* history: the sessions moved by somebody else
    touched     \* history: session -> paths others removed or re-owned since
                \* it has its plan

sessionVars == <<pc, layout, target>>
diskVars == <<toml, rules, mounted>>
vars == <<procVars, treeVars, diskVars, sessionVars, budget, moved, touched>>

Locations == {"load", "reread", "open", "lookup", "walk", "own", "enable",
              "attach", "classify", "admitted", "refused", "gone"}

Ended == {"admitted", "refused", "gone"}

Init ==
    /\ proc \in [Pids -> {[user |-> u, comm |-> n, exe |-> n, start |-> 0] :
                            u \in Users, n \in Names}]
    /\ \A s \in Sessions : proc[s].user = UserOf[s]
    /\ cg = [p \in Pids |-> Root]
    /\ rt \in SUBSET ByRules /\ clock = 1       \* nobody asks of the others
    /\ dirs = Home
    /\ owner = [d \in Paths |-> RootUser]
    /\ subtree = Delegating
    /\ toml \in Layouts \cup {Invalid, Missing}
    /\ rules \in Configs \cup {Invalid}
    /\ mounted = TRUE
    /\ pc = [s \in Sessions |-> "load"]
    /\ layout = [s \in Sessions |-> NoLayout]
    /\ target = [s \in Sessions |-> None]
    /\ budget = MaxEvents
    /\ moved = {}
    /\ touched = [s \in Sessions |-> {}]

-----------------------------------------------------------------------------
(* open_session.                                                           *)

At(s, l) == pc[s] = l

Goto(s, l) == pc' = [pc EXCEPT ![s] = l]

Closed(l) == l # NoLayout /\ l.fail_closed

(* Mutant: a session with no layout fails closed.                          *)
VerdictClosed(l) ==
    IF l = NoLayout \/ l.fail_closed THEN "refused" ELSE "admitted"

(* What an error makes of the session.                                     *)
Verdict(l) == IF Closed(l) THEN "refused" ELSE "admitted"

NoHistory == UNCHANGED <<moved, touched>>

(* A step of the session that acts on nothing but itself.                  *)
Inside == UNCHANGED <<procVars, treeVars, diskVars, budget>>

LoadLayout(s) ==
    /\ At(s, "load")
    /\ \/ /\ toml \in Layouts
          /\ layout' = [layout EXCEPT ![s] = toml]
          /\ Goto(s, "open")
       \/ /\ toml = Missing /\ s \in ByRules
          /\ Goto(s, "open") /\ UNCHANGED layout
       \/ /\ toml = Invalid \/ (toml = Missing /\ s \notin ByRules)
          /\ Goto(s, "reread") /\ UNCHANGED layout
    /\ Inside /\ NoHistory /\ UNCHANGED target

(* cfg_fail_closed: the file that did not load is read and parsed again.   *)
RereadLayout(s) ==
    /\ At(s, "reread")
    /\ Goto(s, Verdict(IF toml \in Layouts THEN toml ELSE NoLayout))
    /\ Inside /\ NoHistory /\ UNCHANGED <<layout, target>>

OpenHierarchy(s) ==
    /\ At(s, "open")
    /\ Goto(s, IF mounted THEN "lookup" ELSE Verdict(layout[s]))
    /\ Inside /\ NoHistory /\ UNCHANGED <<layout, target>>

-----------------------------------------------------------------------------
(* place::apply.                                                           *)

PathOf(s, i) == ExpandPlace[layout[s].place[i].raw, UserOf[s]]

(* Mutant: an owner is resolved when the turn of its place comes.          *)
PathsResolvable(s) ==
    \A i \in DOMAIN layout[s].place : PathOf(s, i) # Unsafe

(* Config::plan: every place resolves.                                     *)
Resolvable(s) ==
    \A i \in DOMAIN layout[s].place :
        PathOf(s, i) # Unsafe /\ layout[s].place[i].owner # "unknown"

PlaceTarget(s, i) ==
    LET place == layout[s].place[i]
    IN  [place |-> i, path |-> PathOf(s, i),
         owner |-> IF place.owner = "user" THEN UserOf[s] ELSE RootUser,
         controllers |-> place.controllers, attach |-> place.attach]

AfterPlaces(s) == IF s \in ByRules THEN "classify" ELSE "admitted"

PlacesFail(s) ==
    Goto(s, IF Closed(layout[s]) THEN "refused" ELSE AfterPlaces(s))

(* The user is looked up and, with a layout, the places are planned.       *)
Lookup(s) ==
    /\ At(s, "lookup")
    /\ \/ /\ NssFails
          /\ Goto(s, Verdict(layout[s]))
          /\ UNCHANGED <<target, touched>>
       \/ /\ layout[s] = NoLayout
          /\ Goto(s, AfterPlaces(s))
          /\ UNCHANGED <<target, touched>>
       \/ /\ layout[s] # NoLayout /\ ~ Resolvable(s)
          /\ PlacesFail(s)
          /\ UNCHANGED <<target, touched>>
       \/ /\ layout[s] # NoLayout /\ Resolvable(s)
          /\ target' = [target EXCEPT ![s] = PlaceTarget(s, 1)]
          /\ touched' = [touched EXCEPT ![s] = {}]
          /\ Goto(s, "walk")
    /\ Inside /\ UNCHANGED <<layout, moved>>

(* Mutant: a place that fails is skipped.                                  *)
StepFailsSkipping(s) ==
    /\ Goto(s, IF target[s].place = 0 THEN Verdict(layout[s])
               ELSE AfterPlaces(s))
    /\ UNCHANGED target

(* The cgfs call in hand returned an error, or success.                    *)
StepFails(s) ==
    /\ IF target[s].place = 0 THEN Goto(s, Verdict(layout[s]))
                              ELSE PlacesFail(s)
    /\ UNCHANGED target

StepDone(s) ==
    LET i == target[s].place IN
    IF i # 0 /\ i < Len(layout[s].place)
    THEN /\ target' = [target EXCEPT ![s] = PlaceTarget(s, i + 1)]
         /\ Goto(s, "walk")
    ELSE /\ UNCHANGED target
         /\ Goto(s, IF i = 0 THEN "admitted" ELSE AfterPlaces(s))

(* Cgroup::apply goes on from l.                                           *)
Onward(s, l) ==
    LET t == target[s] IN
    IF l = "own" /\ t.controllers THEN Goto(s, "enable") /\ UNCHANGED target
    ELSE IF t.attach THEN Goto(s, "attach") /\ UNCHANGED target
    ELSE StepDone(s)

(* History: what this step gave to another owner.                          *)
Touching(s) ==
    touched' = [b \in Sessions |->
        IF b = s THEN touched[b]
        ELSE touched[b] \cup {d \in Paths : owner'[d] # owner[d]}]

(* open_dir_for_apply.                                                     *)
Walk(s) ==
    /\ At(s, "walk")
    /\ MakeDirs(target[s].path, RootUser)
    /\ Goto(s, "own")
    /\ NoHistory
    /\ UNCHANGED <<procVars, diskVars, layout, target, budget>>

(* Mutant: like libcgroup, what exists keeps its owner.                    *)
OwnOfRoot(s) ==
    /\ At(s, "own")
    /\ IF target[s].path \notin dirs
       THEN StepFails(s) /\ UNCHANGED owner
       ELSE /\ owner' = IF \/ owner[target[s].path] # RootUser
                           \/ target[s].owner = Keep
                        THEN owner
                        ELSE [owner EXCEPT ![target[s].path] = target[s].owner]
            /\ Onward(s, "own")
    /\ UNCHANGED <<dirs, subtree>>
    /\ Touching(s)
    /\ UNCHANGED <<procVars, diskVars, layout, budget, moved>>

(* The owner of the leaf and of its control files.                         *)
Own(s) ==
    /\ At(s, "own")
    /\ IF target[s].path \notin dirs
       THEN StepFails(s) /\ UNCHANGED owner
       ELSE /\ owner' = IF target[s].owner = Keep THEN owner
                        ELSE [owner EXCEPT ![target[s].path] = target[s].owner]
            /\ Onward(s, "own")
    /\ UNCHANGED <<dirs, subtree>>
    /\ Touching(s)
    /\ UNCHANGED <<procVars, diskVars, layout, budget, moved>>

Enable(s) ==
    /\ At(s, "enable")
    /\ IF CanEnable(target[s].path)
       THEN subtree' = subtree \cup {target[s].path} /\ Onward(s, "enable")
       ELSE StepFails(s) /\ UNCHANGED subtree
    /\ NoHistory
    /\ UNCHANGED <<procVars, dirs, owner, diskVars, layout, budget>>

AttachSelf(s) ==
    /\ At(s, "attach")
    /\ IF target[s].path \in dirs /\ AcceptsMembers(target[s].path)
       THEN /\ cg' = [cg EXCEPT ![s] = target[s].path]
            /\ moved' = moved \ {s}
            /\ StepDone(s)
       ELSE StepFails(s) /\ UNCHANGED <<cg, moved>>
    /\ UNCHANGED <<proc, rt, clock, treeVars, diskVars, layout, budget,
                   touched>>

-----------------------------------------------------------------------------
(* classify::classify.                                                     *)

Identity(s) == [user |-> UserOf[s], comm |-> proc[s].comm, exe |-> proc[s].exe]

(* No rule, or one that leaves the process alone: the places stand.        *)
LeftAlone(s) ==
    \/ ~ HasRule(rules, Identity(s))
    \/ "ignore" \in FirstRule(rules, Identity(s)).options
    \/ /\ "ignore_rt" \in FirstRule(rules, Identity(s)).options
       /\ s \in rt

(* Mutant: the expanded destination is not validated.                      *)
HasLeafUnchecked(s) ==
    LET d == Dest(rules, Identity(s))
        plan == Plan(rules, Identity(s))
    IN  IF plan = NoPlan THEN d \in dirs /\ owner[d] = UserOf[s]
                         ELSE plan.task # "unknown"

(* leaf_spec: a plan whose owners resolve or, without one, a directory     *)
(* that is the user's.                                                     *)
HasLeaf(s) ==
    LET d == Dest(rules, Identity(s))
        plan == Plan(rules, Identity(s))
    IN  /\ d # Unsafe
        /\ IF plan = NoPlan THEN d \in dirs /\ owner[d] = UserOf[s]
                            ELSE plan.task # "unknown"

RuleTarget(s) ==
    LET plan == Plan(rules, Identity(s))
    IN  [place |-> 0, path |-> Dest(rules, Identity(s)),
         owner |-> IF plan # NoPlan /\ plan.task = "user" THEN UserOf[s]
                                                          ELSE Keep,
         controllers |-> plan # NoPlan /\ plan.controllers,
         attach |-> TRUE]

Classify(s) ==
    /\ At(s, "classify")
    /\ \/ /\ rules = Invalid
          /\ Goto(s, Verdict(layout[s])) /\ UNCHANGED target
       \/ /\ rules # Invalid /\ LeftAlone(s)
          /\ Goto(s, "admitted") /\ UNCHANGED target
       \/ /\ rules # Invalid /\ ~ LeftAlone(s) /\ ~ HasLeaf(s)
          /\ Goto(s, Verdict(layout[s])) /\ UNCHANGED target
       \/ /\ rules # Invalid /\ ~ LeftAlone(s) /\ HasLeaf(s)
          /\ target' = [target EXCEPT ![s] = RuleTarget(s)]
          /\ Goto(s, "walk")
    /\ Inside /\ NoHistory /\ UNCHANGED layout

Step(s) ==
    \/ LoadLayout(s) \/ RereadLayout(s) \/ OpenHierarchy(s) \/ Lookup(s)
    \/ Walk(s) \/ Own(s) \/ Enable(s) \/ AttachSelf(s) \/ Classify(s)

-----------------------------------------------------------------------------
(* The environment, bounded by MaxEvents.                                  *)

Event(kind) == kind \in Events /\ budget > 0 /\ budget' = budget - 1

EditLayout(l) ==
    /\ Event("layout")
    /\ toml' = l /\ l # toml
    /\ NoHistory
    /\ UNCHANGED <<procVars, treeVars, rules, mounted, sessionVars>>

EditRules(c) ==
    /\ Event("rules")
    /\ rules' = c /\ c # rules
    /\ NoHistory
    /\ UNCHANGED <<procVars, treeVars, toml, mounted, sessionVars>>

Unmount ==
    /\ Event("mount")
    /\ mounted /\ mounted' = FALSE
    /\ NoHistory
    /\ UNCHANGED <<procVars, treeVars, toml, rules, sessionVars>>

RmdirEvent(d) ==
    /\ Event("rmdir")
    /\ OtherRmdir(d)
    /\ touched' = [s \in Sessions |-> touched[s] \cup {d}]
    /\ UNCHANGED <<diskVars, sessionVars, moved>>

MoveEvent(s, d) ==
    /\ Event("move")
    /\ OtherMove(s, d)
    /\ moved' = moved \cup {s}
    /\ UNCHANGED <<diskVars, sessionVars, touched>>

(* The login dies, halfway or after its session was opened.                *)
ExitEvent(s) ==
    /\ Event("exit")
    /\ Exit(s)
    /\ Goto(s, "gone")
    /\ NoHistory
    /\ UNCHANGED <<treeVars, diskVars, layout, target>>

Environment ==
    \/ \E l \in Layouts \cup {Invalid, Missing} : EditLayout(l)
    \/ \E c \in Configs \cup {Invalid} : EditRules(c)
    \/ Unmount
    \/ \E d \in Paths : RmdirEvent(d)
    \/ \E s \in Sessions : ExitEvent(s)
    \/ \E s \in Sessions, d \in Paths \cup {Root} : MoveEvent(s, d)

Done ==
    /\ \A s \in Sessions : pc[s] \in Ended
    /\ UNCHANGED vars

Next == (\E s \in Sessions : Step(s)) \/ Environment \/ Done

Spec == Init /\ [][Next]_vars

(* Every call a login makes returns.                                       *)
FairSpec == Spec /\ \A s \in Sessions : WF_vars(Step(s))
=============================================================================
