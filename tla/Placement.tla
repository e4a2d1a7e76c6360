----------------------------- MODULE Placement -----------------------------
(***************************************************************************)
(* What the enforcement daemon promises, without its passes, its scans and *)
(* its loop: an authority over the cgroup tree that acts one step at a     *)
(* time, each step allowed by the configuration it has adopted, between    *)
(* whatever processes and other cgroup users do.                           *)
(***************************************************************************)
EXTENDS CgroupKernel

CONSTANTS
    Invalid,    \* the configuration on disk cannot be adopted
    None,       \* no configuration has been adopted
    Home,       \* the directories there before
    Delegating  \* those of them that offer their children the controllers

VARIABLES
    disk,       \* the configuration on disk
    config,     \* the adopted configuration
    kept        \* the template destinations answered for

placeVars == <<procVars, treeVars, disk, config, kept>>

Identity == [user : Users, comm : Names, exe : Names]

(* The adopted configuration sends id to d.                                *)
Sends(id, d) ==
    /\ config # None
    /\ HasRule(config, id)
    /\ Dest(config, id) = d

(* ... by way of a group or template.                                      *)
SentBy(id, d) == Sends(id, d) /\ Plan(config, id) # NoPlan

PlaceInit ==
    /\ proc \in [Pids -> {Absent} \cup
            {[user |-> u, comm |-> n, exe |-> n, start |-> 0] :
                u \in Users, n \in Names}]
    /\ cg = [p \in Pids |-> Root]
    /\ rt = {}
    /\ clock = 1
    /\ dirs = Home
    /\ owner = [d \in Paths |-> RootUser]
    /\ subtree = Delegating
    /\ disk \in Configs
    /\ config = None
    /\ kept = {}

-----------------------------------------------------------------------------
(* A changed configuration is adopted whole; what was made under the old   *)
(* one is no longer answered for.                                          *)
Adopt ==
    /\ disk # Invalid
    /\ config' = disk
    /\ kept' = IF config' = config THEN kept ELSE {}
    /\ UNCHANGED <<procVars, treeVars, disk>>

Claim(d) ==
    /\ kept' = kept \cup {d}
    /\ UNCHANGED <<procVars, treeVars, disk, config>>
    /\ \E id \in Identity : SentBy(id, d) /\ Plan(config, id).tmpl

Make(d) ==
    /\ MakeDirs(d, RootUser)
    /\ UNCHANGED <<procVars, disk, config, kept>>
    /\ \E id \in Identity : Sends(id, d)

Delegate(d) ==
    /\ d \in dirs
    /\ UNCHANGED <<procVars, dirs, subtree, disk, config, kept>>
    /\ \E id \in Identity :
          /\ owner' = [owner EXCEPT ![d] = id.user]
          /\ SentBy(id, d)
          /\ Plan(config, id).task = "user"

Distribute(d) ==
    /\ CanEnable(d)
    /\ subtree' = subtree \cup {d}
    /\ UNCHANGED <<procVars, dirs, owner, disk, config, kept>>
    /\ \E id \in Identity : SentBy(id, d) /\ Plan(config, id).controllers

Place(p, d) ==
    /\ Alive(p) /\ d \in dirs /\ AcceptsMembers(d)
    /\ cg' = [cg EXCEPT ![p] = d]
    /\ UNCHANGED <<proc, rt, clock, treeVars, disk, config, kept>>
    /\ \E id \in Identity : Sends(id, d)

Reap(d) ==
    /\ d \in kept /\ d \in dirs /\ ~ Occupied(d)
    /\ d \notin DOMAIN config.groups
    /\ RemoveDir(d)
    /\ kept' = kept \ {d}
    /\ UNCHANGED <<procVars, disk, config>>

Forget(d) ==
    /\ d \in kept /\ d \notin dirs
    /\ kept' = kept \ {d}
    /\ UNCHANGED <<procVars, treeVars, disk, config>>

(* The authority starts again with nothing in memory.                      *)
Die ==
    /\ config' = None /\ kept' = {}
    /\ UNCHANGED <<procVars, treeVars, disk>>

Authority ==
    \/ Adopt \/ Die
    \/ \E d \in Paths : \/ Claim(d) \/ Make(d) \/ Delegate(d) \/ Distribute(d)
                        \/ Reap(d) \/ Forget(d)
                        \/ \E p \in Pids : Place(p, d)

-----------------------------------------------------------------------------
ProcessStep(p) ==
    \/ \E u \in Users, n \in Names : Spawn(p, u, n)
    \/ \E q \in Pids : Fork(q, p)
    \/ Exit(p)
    \/ \E u \in Users, c, e \in Names : Reidentify(p, u, c, e)
    \/ Chrt(p)

TreeStep ==
    \/ \E d \in Paths, u \in Users \cup {RootUser} : OtherMkdir(d, u)
    \/ \E d \in Paths : OtherRmdir(d)
    \/ \E p \in Pids, d \in Paths \cup {Root} : OtherMove(p, d)
    \/ \E d \in Paths, u \in Users \cup {RootUser} : OtherChown(d, u)
    \/ \E d \in Paths : OtherEnable(d)

World ==
    \/ /\ UNCHANGED <<treeVars, disk, config, kept>>
       /\ \E p \in Pids : ProcessStep(p)
    \/ UNCHANGED <<disk, config, kept>> /\ TreeStep
    \/ /\ UNCHANGED <<procVars, treeVars, config, kept>>
       /\ disk' \in Configs \cup {Invalid}

PlaceNext == Authority \/ World

PlaceSpec == PlaceInit /\ [][PlaceNext]_placeVars
=============================================================================
