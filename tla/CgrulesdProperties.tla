------------------------- MODULE CgrulesdProperties -------------------------
(***************************************************************************)
(* What the enforcement daemon must get right, stated over Cgrulesd.       *)
(***************************************************************************)
EXTENDS Cgrulesd

(* d is where some identity's rule sends it by way of a template.          *)
IsTemplateDest(c, d) ==
    \E u \in Users, n, e \in Names :
        LET id == [user |-> u, comm |-> n, exe |-> e]
        IN  /\ HasRule(c, id)
            /\ Dest(c, id) = d
            /\ Plan(c, id) # NoPlan
            /\ Plan(c, id).tmpl

(* ReapsOnlyTemplates: a directory the daemon removes is a template        *)
(* destination of the configuration the pass runs under and not one of its *)
(* groups, however the configuration changed since the directory was       *)
(* tracked (the clear on reload, main.rs; "A group persists by design").   *)
ReapsOnlyTemplates ==
    [][pc = "rmdir" /\ victim \in dirs /\ pc' = "reap" /\ victim \notin dirs'
         => /\ victim \notin DOMAIN loaded.groups
            /\ IsTemplateDest(loaded, victim)]_vars

(* OnlyReloadForgets: a directory made for a template match is in          *)
(* tracked_templates until it is gone.  Only a changed configuration or    *)
(* the death of the daemon takes one out of the reaper's sight.            *)
OnlyReloadForgets ==
    [][(made' \ tracked') \subseteq (made \ tracked)
         \/ loaded' # loaded]_vars

(* The pid of a scanned row is still the process of the scan, with the     *)
(* identity it then had.                                                   *)
AsScanned(row) ==
    /\ Alive(row.pid)
    /\ proc[row.pid].start = row.start
    /\ proc[row.pid].user = row.user
    /\ proc[row.pid].comm = row.comm

(* MovesVerified: the process an attach moves is the one the row was       *)
(* scanned from, same incarnation, user and comm, unless it changed after  *)
(* still_same_process looked, that is inside Cgroup::apply itself.         *)
MovesVerified ==
    [][\A p \in Pids :
         pc = "attach" /\ pc' = "match" /\ cg'[p] # cg[p]
           => /\ p = cur.row.pid
              /\ AsScanned(cur.row) \/ "identity" \in drift]_vars

(* RealtimeLeftAlone: an attach moves a real-time process whose rule says  *)
(* ignore_rt only when it became real-time (or another process) after      *)
(* is_rt_task asked, in the same row's handling; nothing else excuses it.  *)
RealtimeLeftAlone ==
    [][\A p \in Pids :
         pc = "attach" /\ pc' = "match" /\ cg'[p] # cg[p] /\ p \in rt
           => \/ "ignore_rt" \notin FirstRule(loaded, cur.row).options
              \/ drift \cap {"identity", "sched"} # {}]_vars

(* FallbackReachesOwn: without a group or template, a process only ever    *)
(* reaches a cgroup that was already its user's (leaf_spec's comment).     *)
FallbackReachesOwn ==
    [][\A p \in Pids :
         pc = "attach" /\ pc' = "match" /\ cg'[p] # cg[p] /\ ~ cur.planned
           => owner[cur.path] = cur.row.user]_vars

(* FallbackOwnUnlessChanged: the same, but for a directory removed or      *)
(* given to another account (as Cgroup::apply of cgctl and pam_cgroup does *)
(* with an existing leaf) between the ownership check of leaf_spec and the *)
(* attach of Cgroup::apply; a change before the check or by the daemon     *)
(* itself is no excuse.                                                    *)
FallbackOwnUnlessChanged ==
    [][\A p \in Pids :
         pc = "attach" /\ pc' = "match" /\ cg'[p] # cg[p] /\ ~ cur.planned
           => owner[cur.path] = cur.row.user \/ "target" \in drift]_vars

-----------------------------------------------------------------------------
(* What the configuration on disk wants for the process that has pid p.    *)

WantsIn(p, c, plans) ==
    /\ Alive(p)
    /\ HasRule(c, proc[p])
    /\ FirstRule(c, proc[p]).options = {}
    /\ Dest(c, proc[p]) # Unsafe
    /\ Plan(c, proc[p]) \in plans

PlainPlans == [task : {"keep", "user"}, controllers : {FALSE}, tmpl : BOOLEAN]

AllPlans == [task : {"keep", "user"}, controllers : BOOLEAN, tmpl : BOOLEAN]

(* Placed: once the world stands still and the configuration is valid,     *)
(* every process with a rule whose destination has a group or template     *)
(* without controllers gets there and stays there, whatever went wrong     *)
(* before: stale rows, a failed load, a lost mount, a crash, a destination *)
(* removed under the daemon.                                               *)
Placed ==
    <>[](\A p \in Pids :
           disk # Invalid /\ WantsIn(p, disk, PlainPlans)
             => LET d == Dest(disk, proc[p])
                IN  AcceptsMembers(d) => cg[p] = d)

(* ControllersPlaced: the same for every plan, the ones whose node lists   *)
(* controllers included ("A matching group or template ... supplies        *)
(* ownership, modes, and controllers", cgrulesd/README.md).                *)
ControllersPlaced ==
    <>[](\A p \in Pids :
           disk # Invalid /\ WantsIn(p, disk, AllPlans)
             => cg[p] = Dest(disk, proc[p]))

TemplatePlans == {plan \in AllPlans : plan.tmpl}

(* AnsweredFor: once the world stands still, a directory that a process    *)
(* was sent to by a template is in tracked_templates as long as the        *)
(* process is there, whoever made it and whatever cleared the set before:  *)
(* a reload or a restart must find it again although its process needs no  *)
(* move.                                                                   *)
AnsweredFor ==
    <>[](\A p \in Pids :
           disk # Invalid /\ WantsIn(p, disk, TemplatePlans)
             /\ cg[p] = Dest(disk, proc[p])
             => cg[p] \in tracked)

(* TrackedReaped: whatever else goes on, a directory the daemon answers    *)
(* for does not stay idle for ever while the configuration loads: a row    *)
(* that failed after mkdir, a refused rmdir, a lost mount and an edit that *)
(* clears the set only put it off.                                         *)
TrackedReaped ==
    \A d \in Paths :
        []<>(disk # Invalid /\ d \in tracked \cap dirs => Occupied(d))

(* IdleReaped: while the configuration loads, no directory made for a      *)
(* template match stays idle for ever ("Template-created destinations are  *)
(* reaped when idle in continuous mode", cgrulesd/README.md).              *)
IdleReaped ==
    \A d \in Paths : []<>(disk # Invalid /\ d \in made => Occupied(d))

(* OnceExits: --once ends after a single pass, whatever it finds.          *)
OnceExits == <>(pc \in {"exit", "down"})

(* OnceNeverReaps: --once leaves every directory it made in place.         *)
OnceNeverReaps == [][pc # "exit" /\ pc' # pc => dirs \subseteq dirs']_vars

-----------------------------------------------------------------------------
(* The daemon as the authority of Placement.                               *)

Placing == INSTANCE Placement WITH config <- loaded, kept <- tracked

(* PlacementImplemented: whatever a pass remembers from its scan and       *)
(* whatever changes between two of its calls, every call the daemon makes  *)
(* is one the configuration it runs under allows at that moment: it makes, *)
(* hands over, distributes and fills destinations of that configuration    *)
(* only, and removes only idle ones it answers for (cgrulesd/README.md).   *)
PlacementImplemented == Placing!PlaceSpec

-----------------------------------------------------------------------------
(* What makes the safety properties inductive.                             *)

(* A row is in hand from its match to its attach, a victim from the read   *)
(* of its cgroup.procs to its rmdir, and a pass has a configuration.       *)
Hands ==
    /\ cur # None <=> pc \in InHand
    /\ victim # None <=> pc = "rmdir"
    /\ pc \notin {"load", "sleep", "exit", "down"} => loaded # None
    /\ tracked # {} => loaded # None
    /\ reapq # {} => pc \in {"reap", "rmdir"}

(* The tracked set holds template destinations of the loaded configuration *)
(* only, and everything the reaper works on comes from it.                 *)
Bookkeeping ==
    /\ \A d \in tracked : /\ d \notin DOMAIN loaded.groups
                          /\ IsTemplateDest(loaded, d)
    /\ reapq \subseteq tracked
    /\ victim # None => victim \in tracked \ reapq
    /\ cur # None => (cur.tmpl => cur.path \in tracked)

(* From the re-validation on, the process in hand is the scanned one or    *)
(* its change is on record.                                                *)
InHandVerified ==
    pc \in Applying => AsScanned(cur.row) \/ "identity" \in drift

(* Starttimes are handed out in order, so a later incarnation of a pid is  *)
(* told from the scanned one.                                              *)
Clocked ==
    /\ \A p \in Pids : Alive(p) => proc[p].start < clock
    /\ \A row \in rows : row.start < clock
    /\ cur # None => cur.row.start < clock

(* A recycled pid, which still_same_process will refuse.                   *)
Recycled(row) == Alive(row.pid) /\ proc[row.pid].start # row.start

(* The scheduling of the process in hand, under an ignore_rt rule.         *)
InHandRealtime ==
    /\ pc \in InHand
    /\ "ignore_rt" \in FirstRule(loaded, cur.row).options
    /\ cur.row.pid \in rt
    => drift \cap {"identity", "sched"} # {} \/ (pc = "check" /\ Recycled(cur.row))

(* The destination in hand, when it is there only because it exists.       *)
InHandOwned ==
    pc \in InHand /\ ~ cur.planned
      => /\ cur.task = "keep"
         /\ OwnedBy(cur.path, cur.row.user) \/ "target" \in drift

(* What is in hand is what the loaded configuration says of its row, and   *)
(* controllers are enabled only where it asks for them.                    *)
InHandPlanned ==
    /\ cur # None => /\ HasRule(loaded, cur.row)
                     /\ Dest(loaded, cur.row) # Unsafe
                     /\ cur = LeafSpec(cur.row)
    /\ pc = "enable" => cur.controllers
=============================================================================
