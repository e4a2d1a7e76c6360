--------------------------- MODULE CgrulesdProofs ---------------------------
(***************************************************************************)
(* Type correctness and safety of the enforcement daemon, and that it      *)
(* implements the authority of Placement, for any number of processes,     *)
(* users, paths and configurations, any mix of events and any bound on     *)
(* them.                                                                   *)
(***************************************************************************)
EXTENDS CgrulesdProperties, KernelProofs

USE PolicyAssumption, KernelAssumption, CgrulesdAssumption

-----------------------------------------------------------------------------
(* Type correctness, together with which location holds what.              *)

TypeInv == TypeOK /\ Hands

LEMMA LeafSpecType ==
    ASSUME TypeOK, loaded \in Configs, NEW row \in Row, Placeable(row)
    PROVE  LeafSpec(row) \in Target
<1>1. HasRule(loaded, row) /\ Resolves(row)
  BY DEF Placeable
<1>2. Dest(loaded, row) \in Paths
  BY <1>1, DestType DEF Resolves, Row
<1>3. Plan(loaded, row) \in PlanRecords \cup {NoPlan}
  BY PlanType
<1>4. CASE Plan(loaded, row) = NoPlan
  BY <1>2, <1>4 DEF LeafSpec, Target
<1>5. CASE Plan(loaded, row) # NoPlan
  <2>1. Plan(loaded, row).task \in {"keep", "user"}
    BY <1>1, <1>3, <1>5 DEF Resolves, PlanRecords
  <2>2. /\ Plan(loaded, row).controllers \in BOOLEAN
        /\ Plan(loaded, row).tmpl \in BOOLEAN
    BY <1>3, <1>5 DEF PlanRecords
  <2>3. QED  BY <1>2, <1>5, <2>1, <2>2, Zenon DEF LeafSpec, Target
<1>6. QED  BY <1>4, <1>5

LEMMA TypeInit == Init => TypeInv
<1> SUFFICES ASSUME Init PROVE TypeInv
  OBVIOUS
<1> USE DEF Init
<1>1. KernelTypeOK
  BY DEF KernelTypeOK, Process
<1>2. TypeOK
  BY <1>1 DEF TypeOK, Locations
<1>3. Hands
  BY DEF Hands, InHand, Applying
<1>4. QED  BY <1>2, <1>3 DEF TypeInv

(* One step per part of the loop.                                          *)
LEMMA LoadType == TypeInv /\ (LoadOk \/ LoadFail \/ DiscoverOk \/ DiscoverFail)
                    => TypeInv'
<1> SUFFICES ASSUME TypeInv, LoadOk \/ LoadFail \/ DiscoverOk \/ DiscoverFail
             PROVE  TypeInv'
  OBVIOUS
<1> USE DEF TypeInv, TypeOK, KernelTypeOK, Hands, InHand, Applying, Locations,
            AfterPass, procVars, treeVars, daemonVars, history
<1>1. CASE LoadOk  BY <1>1 DEF LoadOk
<1>2. CASE LoadFail  BY <1>2 DEF LoadFail
<1>3. CASE DiscoverOk  BY <1>3 DEF DiscoverOk
<1>4. CASE DiscoverFail  BY <1>4 DEF DiscoverFail
<1>5. QED  BY <1>1, <1>2, <1>3, <1>4

LEMMA GatherType == ASSUME TypeInv, NEW p \in Pids, Gather(p) PROVE TypeInv'
<1> USE DEF TypeInv, TypeOK, KernelTypeOK, Hands, InHand, Applying, Locations,
            procVars, treeVars, history
<1>1. Alive(p) => RowOf(p) \in Row
  BY DEF RowOf, Row, Alive, Process
<1>2. rows' \subseteq Row
  BY <1>1 DEF Gather
<1>3. QED  BY <1>2 DEF Gather

LEMMA RowType ==
    ASSUME TypeInv, NEW row \in rows, SkipRow(row) \/ MatchRow(row)
    PROVE  TypeInv'
<1> USE DEF TypeInv, TypeOK, KernelTypeOK, Hands, InHand, Applying, Locations,
            procVars, treeVars, history
<1>1. CASE SkipRow(row)  BY <1>1 DEF SkipRow
<1>2. CASE MatchRow(row)
  <2>1. row \in Row /\ loaded \in Configs
    BY <1>2 DEF MatchRow
  <2>2. LeafSpec(row) \in Target /\ LeafSpec(row).path \in Paths
    BY <1>2, <2>1, LeafSpecType DEF MatchRow, Target
  <2>3. LeafSpec(row) # None
    BY <2>2
  <2>4. tracked' \subseteq Paths
    BY <1>2, <2>2 DEF MatchRow, Track
  <2>5. QED  BY <1>2, <2>1, <2>2, <2>3, <2>4 DEF MatchRow
<1>3. QED  BY <1>1, <1>2

LEMMA ApplyType ==
    TypeInv /\ (Revalidate \/ Open \/ SetOwner \/ Enable \/ Attach \/ EndPass)
      => TypeInv'
<1> SUFFICES ASSUME TypeInv, Revalidate \/ Open \/ SetOwner \/ Enable
                               \/ Attach \/ EndPass
             PROVE  TypeInv'
  OBVIOUS
<1> USE DEF TypeInv, TypeOK, Hands, InHand, Applying, Locations, NextRow
<1>0. pc \in InHand => /\ cur \in Target /\ cur.path \in Paths
                       /\ cur.row \in Row
                       /\ cur.row.user \in Users /\ cur.row.pid \in Pids
  BY DEF Target, Row
<1>1. CASE Revalidate
  <2>1. KernelTypeOK'
    BY <1>1 DEF Revalidate, KernelTypeOK, procVars, treeVars
  <2>2. /\ UNCHANGED <<disk, mounted, loaded, tracked, unread, rows, reapq,
                       victim, budget, made, dirs>>
        /\ pc = "check"
        /\ \/ pc' = "open" /\ UNCHANGED <<cur, drift>>
           \/ NextRow
    BY <1>1 DEF Revalidate, treeVars
  <2>3. CASE pc' = "open" /\ UNCHANGED <<cur, drift>>
    BY <2>1, <2>2, <2>3, SMTT(20)
  <2>4. CASE NextRow
    BY <2>1, <2>2, <2>4, SMTT(20)
  <2>5. QED  BY <2>2, <2>3, <2>4
<1>2. CASE Open
  <2>1. KernelTypeOK' /\ dirs \subseteq dirs' /\ cur.path \in dirs'
    BY <1>0, <1>2, MakeDirsType DEF Open
  <2>2. QED  BY <1>2, <2>1 DEF Open
<1>3. CASE SetOwner
  <2>1. KernelTypeOK'
    BY <1>0, <1>3 DEF SetOwner, KernelTypeOK, procVars
  <2>2. \/ pc' \in {"enable", "attach"} /\ UNCHANGED <<cur, drift>>
        \/ NextRow
    BY <1>3, Zenon DEF SetOwner
  <2>3. UNCHANGED <<dirs, disk, mounted, loaded, tracked, unread, rows, reapq,
                    victim, budget, made>>
    BY <1>3 DEF SetOwner
  <2>4. pc = "perm"
    BY <1>3 DEF SetOwner
  <2> HIDE DEF SetOwner
  <2>5. CASE pc' \in {"enable", "attach"} /\ UNCHANGED <<cur, drift>>
    BY <2>1, <2>3, <2>4, <2>5
  <2>6. CASE NextRow
    BY <2>1, <2>3, <2>4, <2>6
  <2>7. QED  BY <2>2, <2>5, <2>6
<1>4. CASE Enable
  <2>1. KernelTypeOK'
    BY <1>0, <1>4 DEF Enable, CanEnable, KernelTypeOK, procVars
  <2>2. /\ UNCHANGED <<dirs, disk, mounted, loaded, tracked, unread, rows, reapq,
                       victim, budget, made>>
        /\ pc = "enable"
        /\ \/ pc' = "attach" /\ UNCHANGED <<cur, drift>>
           \/ NextRow
    BY <1>4, Zenon DEF Enable
  <2>3. CASE pc' = "attach" /\ UNCHANGED <<cur, drift>>
    BY <2>1, <2>2, <2>3, SMTT(20)
  <2>4. CASE NextRow
    BY <2>1, <2>2, <2>4, SMTT(20)
  <2>5. QED  BY <2>2, <2>3, <2>4
<1>5. CASE Attach
  <2>1. KernelTypeOK'
    BY <1>0, <1>5 DEF Attach, KernelTypeOK, treeVars
  <2>2. QED  BY <1>5, <2>1 DEF Attach, treeVars
<1>6. CASE EndPass
  BY <1>6 DEF EndPass, KernelTypeOK, procVars, treeVars, history
<1>7. QED  BY <1>1, <1>2, <1>3, <1>4, <1>5, <1>6

LEMMA ReapType ==
    TypeInv /\ ((\E d \in reapq : ReapRead(d)) \/ ReapRmdir \/ EndReap \/ Wake)
      => TypeInv'
<1> SUFFICES ASSUME TypeInv,
                    (\E d \in reapq : ReapRead(d)) \/ ReapRmdir \/ EndReap
                      \/ Wake
             PROVE  TypeInv'
  OBVIOUS
<1> USE DEF TypeInv, TypeOK, Hands, InHand, Applying, Locations
<1>1. CASE \E d \in reapq : ReapRead(d)
  BY <1>1 DEF ReapRead, KernelTypeOK, procVars, treeVars, history
<1>2. CASE ReapRmdir
  <2>1. KernelTypeOK' /\ made' \subseteq dirs'
    <3>1. CASE victim \in dirs /\ ~ Occupied(victim)
      <4>1. RemoveDir(victim) /\ UNCHANGED procVars /\ made' = made \ {victim}
        BY <1>2, <3>1 DEF ReapRmdir
      <4>2. QED  BY <3>1, <4>1, RemoveDirType
    <3>2. CASE ~ (victim \in dirs /\ ~ Occupied(victim))
      <4>1. UNCHANGED <<treeVars, procVars, made>>
        BY <1>2, <3>2 DEF ReapRmdir
      <4>2. QED  BY <4>1 DEF KernelTypeOK, treeVars, procVars
    <3>3. QED  BY <3>1, <3>2
  <2>2. tracked' \subseteq tracked
    BY <1>2 DEF ReapRmdir
  <2>3. QED  BY <1>2, <2>1, <2>2 DEF ReapRmdir
<1>3. CASE EndReap
  BY <1>3 DEF EndReap, KernelTypeOK, procVars, treeVars, daemonVars, history
<1>4. CASE Wake
  BY <1>4 DEF Wake, KernelTypeOK, procVars, treeVars, daemonVars, history
<1>5. QED  BY <1>1, <1>2, <1>3, <1>4

LEMMA EventType == TypeInv /\ Environment => TypeInv'
<1> SUFFICES ASSUME TypeInv, Environment PROVE TypeInv'
  OBVIOUS
<1> USE DEF TypeInv, TypeOK, Hands, InHand, Applying, Locations, Event,
            NoDaemonStep, daemonVars
<1>1. CASE \E p \in Pids : ProcessEvent(p) \/ SchedEvent(p)
  <2>1. PICK p \in Pids : ProcessEvent(p) \/ SchedEvent(p)
    BY <1>1
  <2>2. KernelTypeOK' /\ dirs' = dirs
    <3>1. UNCHANGED treeVars /\ dirs' = dirs
      BY <2>1 DEF ProcessEvent, SchedEvent, treeVars
    <3>2. \/ \E u \in Users, n \in Names : Spawn(p, u, n)
          \/ \E q \in Pids : Fork(q, p)
          \/ Exit(p)
          \/ \E u \in Users, c, e \in Names : Reidentify(p, u, c, e)
          \/ Chrt(p)
      BY <2>1 DEF ProcessEvent, SchedEvent
    <3>3. QED  BY <3>1, <3>2, ProcessType
  <2>3. drift' \subseteq {"identity", "sched", "target"}
    <3>1. \/ drift' = drift \cup {"identity"}
          \/ drift' = drift \cup {"sched"}
          \/ drift' = drift
      BY <2>1, Zenon DEF ProcessEvent, SchedEvent, Drifts
    <3>2. drift \subseteq {"identity", "sched", "target"}
      OBVIOUS
    <3>3. QED  BY ONLY <3>1, <3>2
  <2>4. /\ UNCHANGED <<disk, mounted, pc, loaded, tracked, unread, rows, cur,
                       reapq, victim, made>>
        /\ budget > 0 /\ budget' = budget - 1
    BY <2>1 DEF ProcessEvent, SchedEvent
  <2>5. QED  BY <2>2, <2>3, <2>4
<1>2. CASE \E d \in Paths, u \in Users \cup {RootUser} : MkdirEvent(d, u)
  <2>1. PICK d \in Paths, u \in Users \cup {RootUser} : MkdirEvent(d, u)
    BY <1>2
  <2>2. KernelTypeOK' /\ dirs \subseteq dirs'
    BY <2>1, MakeDirsType DEF MkdirEvent, OtherMkdir
  <2>3. QED  BY <2>1, <2>2 DEF MkdirEvent
<1>3. CASE \E d \in Paths : RmdirEvent(d)
  <2>1. PICK d \in Paths : RmdirEvent(d)
    BY <1>3
  <2>2. KernelTypeOK' /\ dirs' = dirs \ {d}
    BY <2>1, RemoveDirType DEF RmdirEvent, OtherRmdir
  <2>3. QED  BY <2>1, <2>2 DEF RmdirEvent, Drifts
<1>4. CASE \E p \in Pids, d \in Paths \cup {Root} : MoveEvent(p, d)
  BY <1>4 DEF MoveEvent, OtherMove, KernelTypeOK
<1>5. CASE \E c \in Configs \cup {Invalid} : ConfigEvent(c)
  BY <1>5 DEF ConfigEvent, KernelTypeOK, procVars, treeVars
<1>9. CASE \E d \in Paths, u \in Users \cup {RootUser} : ChownEvent(d, u)
  <2>1. PICK d \in Paths, u \in Users \cup {RootUser} : ChownEvent(d, u)
    BY <1>9
  <2>2. KernelTypeOK' /\ dirs' = dirs
    BY <2>1 DEF ChownEvent, OtherChown, KernelTypeOK, procVars
  <2>3. QED  BY <2>1, <2>2 DEF ChownEvent, Drifts
<1>10. CASE \E d \in Paths : EnableEvent(d)
  <2>1. PICK d \in Paths : EnableEvent(d)
    BY <1>10
  <2>2. KernelTypeOK' /\ dirs' = dirs
    BY <2>1 DEF EnableEvent, OtherEnable, CanEnable, KernelTypeOK, procVars
  <2>3. QED  BY <2>1, <2>2 DEF EnableEvent
<1>6. CASE Unmount \/ Remount
  <2>1. mounted' \in BOOLEAN
    BY <1>6, Zenon DEF Unmount, Remount
  <2>2. budget' \in 0..MaxEvents
    BY <1>6 DEF Unmount, Remount
  <2>3. UNCHANGED <<proc, cg, rt, clock, dirs, owner, subtree, disk, pc, drift,
                    loaded, tracked, unread, rows, cur, reapq, victim, made>>
    BY <1>6 DEF Unmount, Remount, procVars, treeVars
  <2>4. QED  BY <2>1, <2>2, <2>3 DEF KernelTypeOK
<1>7. CASE Crash
  BY <1>7 DEF Crash, KernelTypeOK, procVars, treeVars
<1>8. CASE Restart
  BY <1>8 DEF Restart, KernelTypeOK, procVars, treeVars, history
<1>11. QED
  BY <1>1, <1>2, <1>3, <1>4, <1>5, <1>6, <1>7, <1>8, <1>9, <1>10
  DEF Environment

LEMMA TypeStutter == TypeInv /\ UNCHANGED vars => TypeInv'
BY DEF TypeInv, TypeOK, KernelTypeOK, Hands, vars

LEMMA TypeStep == TypeInv /\ [Next]_vars => TypeInv'
<1> SUFFICES ASSUME TypeInv, [Next]_vars PROVE TypeInv'
  OBVIOUS
<1>1. CASE Daemon
  BY <1>1, LoadType, GatherType, RowType, ApplyType, ReapType DEF Daemon
<1>2. CASE Environment
  BY <1>2, EventType
<1>3. CASE Exited \/ UNCHANGED vars
  BY <1>3, TypeStutter DEF Exited
<1>4. QED  BY <1>1, <1>2, <1>3 DEF Next

LEMMA TypeInvariant == Spec => []TypeInv
<1>1. QED  BY TypeInit, TypeStep, PTL DEF Spec

(* TypeCorrect: every variable of the daemon and of the tree it works on   *)
(* keeps its type, the tree stays closed under parents and no controller   *)
(* setting or record of a made directory survives the directory.           *)
THEOREM TypeCorrect == Spec => []TypeOK
<1>1. TypeInv => TypeOK
  BY DEF TypeInv
<1>2. QED  BY <1>1, TypeInvariant, PTL

-----------------------------------------------------------------------------
(* What the reaper may work on.                                            *)

(* A template match names a template destination and never a group.        *)
LEMMA MatchedTemplate ==
    ASSUME loaded \in Configs, NEW row \in Row, Placeable(row),
           LeafSpec(row).tmpl
    PROVE  /\ LeafSpec(row).path \notin DOMAIN loaded.groups
           /\ IsTemplateDest(loaded, LeafSpec(row).path)
<1> DEFINE id == [user |-> row.user, comm |-> row.comm, exe |-> row.exe]
<1>1. Plan(loaded, row) # NoPlan /\ Plan(loaded, row).tmpl
  BY DEF LeafSpec
<1>2. LeafSpec(row).path = Dest(loaded, row)
  BY DEF LeafSpec
<1>3. /\ HasRule(loaded, id) = HasRule(loaded, row)
      /\ Dest(loaded, id) = Dest(loaded, row)
      /\ Plan(loaded, id) = Plan(loaded, row)
  <2>1. id.user = row.user /\ id.comm = row.comm /\ id.exe = row.exe
    OBVIOUS
  <2> HIDE DEF id
  <2>2. QED  BY <2>1, SameIdentitySamePolicy
<1>4. HasRule(loaded, row)
  BY DEF Placeable
<1>5. row.user \in Users /\ row.comm \in Names /\ row.exe \in Names
  BY DEF Row
<1>6. IsTemplateDest(loaded, Dest(loaded, row))
  BY <1>1, <1>3, <1>4, <1>5, Zenon DEF IsTemplateDest
<1>7. QED  BY <1>1, <1>2, <1>6, GroupPlansAreNotTemplates

LEMMA BookkeepingInit == Init => Bookkeeping
BY DEF Init, Bookkeeping

(* A step that leaves the reaper's sets alone and drops or keeps the row.  *)
LEMMA BookkeepingFrame ==
    ASSUME Bookkeeping, UNCHANGED <<loaded, tracked, reapq, victim>>,
           cur' \in {cur, None}
    PROVE  Bookkeeping'
BY DEF Bookkeeping

LEMMA BookkeepingStep == TypeInv /\ Bookkeeping /\ [Next]_vars => Bookkeeping'
<1> SUFFICES ASSUME TypeInv, Bookkeeping, [Next]_vars PROVE Bookkeeping'
  OBVIOUS
<1> USE DEF procVars, treeVars, daemonVars, history
<1>1. CASE LoadOk
  <2>1. cur = None /\ reapq = {} /\ victim = None
    BY <1>1 DEF LoadOk, TypeInv, Hands, InHand, Applying
  <2>2. CASE disk # loaded
    BY <1>1, <2>1, <2>2 DEF LoadOk, Bookkeeping
  <2>3. CASE disk = loaded
    BY <1>1, <2>1, <2>3, BookkeepingFrame DEF LoadOk
  <2>4. QED  BY <2>2, <2>3
<1>2. CASE LoadFail \/ DiscoverOk \/ DiscoverFail \/ \E p \in Pids : Gather(p)
  BY <1>2, BookkeepingFrame DEF LoadFail, DiscoverOk, DiscoverFail, Gather
<1>3. ASSUME NEW row \in rows, SkipRow(row) PROVE Bookkeeping'
  BY <1>3, BookkeepingFrame DEF SkipRow
<1>4. ASSUME NEW row \in rows, MatchRow(row) PROVE Bookkeeping'
  <2>1. row \in Row /\ loaded \in Configs /\ Placeable(row)
    BY <1>4 DEF MatchRow, TypeInv, TypeOK, Hands
  <2>2. reapq = {} /\ victim = None /\ cur = None
    BY <1>4 DEF MatchRow, TypeInv, Hands, InHand, Applying
  <2>3. /\ UNCHANGED <<loaded, reapq, victim>>
        /\ cur' \in {cur, LeafSpec(row)}
        /\ tracked' = Track(LeafSpec(row))
    BY <1>4 DEF MatchRow
  <2>4. CASE LeafSpec(row).tmpl
    <3>1. tracked' = tracked \cup {LeafSpec(row).path}
      BY <2>3, <2>4 DEF Track
    <3>2. QED  BY <2>1, <2>2, <2>3, <2>4, <3>1, MatchedTemplate DEF Bookkeeping
  <2>5. CASE ~ LeafSpec(row).tmpl
    <3>1. tracked' = tracked
      BY <2>3, <2>5 DEF Track
    <3>2. QED  BY <2>2, <2>3, <2>5, <3>1 DEF Bookkeeping
  <2>6. QED  BY <2>4, <2>5
<1>5. CASE Revalidate \/ Open \/ SetOwner \/ Enable \/ Attach
  BY <1>5, BookkeepingFrame
     DEF Revalidate, Open, SetOwner, Enable, Attach, NextRow
<1>6. CASE EndPass
  <2>1. victim = None /\ cur = None
    BY <1>6 DEF EndPass, TypeInv, Hands, InHand, Applying
  <2>2. UNCHANGED <<loaded, tracked, victim, cur>> /\ reapq' \in {reapq, tracked}
    BY <1>6, Zenon DEF EndPass
  <2>3. QED  BY <2>1, <2>2 DEF Bookkeeping
<1>7. ASSUME NEW d \in reapq, ReapRead(d) PROVE Bookkeeping'
  <2>1. /\ UNCHANGED <<loaded, tracked, cur>> /\ reapq' = reapq \ {d}
        /\ victim' \in {victim, d}
    BY <1>7 DEF ReapRead
  <2>2. QED  BY <2>1 DEF Bookkeeping
<1>8. CASE ReapRmdir
  <2>1. cur = None
    BY <1>8 DEF ReapRmdir, TypeInv, Hands, InHand, Applying
  <2>2. /\ UNCHANGED <<loaded, reapq, cur>> /\ victim' = None /\ victim # None
        /\ tracked' \in {tracked, tracked \ {victim}}
    BY <1>8 DEF ReapRmdir, TypeInv, Hands
  <2>3. QED  BY <2>1, <2>2 DEF Bookkeeping
<1>9. CASE EndReap \/ Wake
  BY <1>9, BookkeepingFrame DEF EndReap, Wake
<1>10. CASE Crash
  BY <1>10 DEF Crash, Bookkeeping
<1>11. CASE Environment /\ ~ Crash
  <2>1. UNCHANGED <<loaded, tracked, reapq, victim, cur>>
    BY <1>11 DEF Environment, ProcessEvent, SchedEvent, MkdirEvent, RmdirEvent,
         MoveEvent, ChownEvent, EnableEvent, ConfigEvent, Unmount, Remount, Restart, NoDaemonStep
  <2>2. QED  BY <2>1, BookkeepingFrame
<1>12. CASE Exited \/ UNCHANGED vars
  BY <1>12, BookkeepingFrame DEF Exited, vars
<1>13. QED
  BY <1>1, <1>2, <1>3, <1>4, <1>5, <1>6, <1>7, <1>8, <1>9, <1>10, <1>11, <1>12
     DEF Next, Daemon

LEMMA BookkeepingInvariant == Spec => []Bookkeeping
<1>1. QED  BY TypeInvariant, BookkeepingInit, BookkeepingStep, PTL DEF Spec

(* ReaperSpares: for every configuration and every history of edits, the   *)
(* reaper removes template destinations of the loaded configuration and    *)
(* never one of its groups.                                                *)
THEOREM ReaperSpares == Spec => ReapsOnlyTemplates
<1>1. TypeInv /\ Bookkeeping
        => [pc = "rmdir" /\ victim \in dirs /\ pc' = "reap"
              /\ victim \notin dirs'
              => /\ victim \notin DOMAIN loaded.groups
                 /\ IsTemplateDest(loaded, victim)]_vars
  BY DEF TypeInv, Hands, Bookkeeping
<1>2. QED
  BY <1>1, TypeInvariant, BookkeepingInvariant, PTL DEF ReapsOnlyTemplates

(* NothingElseForgets: outside a reload and a crash, a directory made for  *)
(* a template match is never lost to the reaper.                           *)
THEOREM NothingElseForgets == Spec => OnlyReloadForgets
<1>1. ASSUME TypeInv, TypeInv', Bookkeeping, [Next]_vars
      PROVE  (made' \ tracked') \subseteq (made \ tracked)
               \/ loaded' # loaded \/ UNCHANGED vars
  <2> USE DEF procVars, treeVars, daemonVars, history
  <2>1. made' \subseteq dirs'
    BY <1>1 DEF TypeInv, TypeOK
  <2>2. CASE LoadOk
    BY <2>2, Zenon DEF LoadOk
  <2>3. CASE LoadFail \/ DiscoverOk \/ DiscoverFail \/ \E p \in Pids : Gather(p)
    BY <2>3 DEF LoadFail, DiscoverOk, DiscoverFail, Gather
  <2>4. ASSUME NEW row \in rows, SkipRow(row) \/ MatchRow(row)
        PROVE  made' = made /\ tracked \subseteq tracked'
    BY <2>4 DEF SkipRow, MatchRow, Track
  <2>5. CASE Open
    <3>1. cur.tmpl => cur.path \in tracked
      BY <1>1, <2>5 DEF Open, TypeInv, Hands, Bookkeeping, InHand, Applying
    <3>2. tracked' = tracked
      BY <2>5 DEF Open
    <3>3. made' = made \/ (cur.tmpl /\ made' = made \cup {cur.path})
      BY <2>5, Zenon DEF Open
    <3>4. QED  BY <3>1, <3>2, <3>3
  <2>6. CASE Revalidate \/ SetOwner \/ Enable \/ Attach \/ EndPass
    BY <2>6 DEF Revalidate, SetOwner, Enable, Attach, EndPass
  <2>7. CASE (\E d \in reapq : ReapRead(d)) \/ EndReap \/ Wake
    BY <2>7 DEF ReapRead, EndReap, Wake
  <2>8. CASE ReapRmdir
    <3>1. \/ tracked' = tracked /\ made' = made
          \/ tracked' = tracked \ {victim} /\ victim \notin dirs'
               /\ made' \subseteq made
      BY <2>8 DEF ReapRmdir, RemoveDir
    <3>2. QED  BY <2>1, <3>1
  <2>9. CASE Crash
    <3>1. tracked' = {} /\ loaded' = None /\ made' = made
      BY <2>9 DEF Crash
    <3>2. tracked # {} => loaded # None
      BY <1>1 DEF TypeInv, Hands
    <3>3. QED  BY <3>1, <3>2
  <2>10. CASE Environment /\ ~ Crash
    <3>1. tracked' = tracked /\ made' \subseteq made
      BY <2>10 DEF Environment, ProcessEvent, SchedEvent, MkdirEvent,
           RmdirEvent, MoveEvent, ChownEvent, EnableEvent, ConfigEvent, Unmount, Remount, Restart,
           NoDaemonStep
    <3>2. QED  BY <3>1
  <2>11. CASE Exited \/ UNCHANGED vars
    BY <2>11 DEF Exited
  <2>12. QED
    BY <1>1, <2>2, <2>3, <2>4, <2>5, <2>6, <2>7, <2>8, <2>9, <2>10, <2>11
       DEF Next, Daemon
<1>2. TypeInv /\ TypeInv' /\ Bookkeeping /\ [Next]_vars
        => [(made' \ tracked') \subseteq (made \ tracked)
              \/ loaded' # loaded]_vars
  BY <1>1
<1>3. QED
  BY <1>2, TypeInvariant, BookkeepingInvariant, PTL DEF Spec, OnlyReloadForgets

-----------------------------------------------------------------------------
(* The process and the destination in hand.                                *)

LEMMA ClockedInit == Init => Clocked
BY DEF Init, Clocked, Alive

(* What a process event does to the process table: other pids are left     *)
(* alone, and the pid has a new incarnation or keeps its starttime.        *)
LEMMA ProcessEffect ==
    ASSUME TypeInv, NEW p \in Pids, ProcessEvent(p)
    PROVE  /\ \A q \in Pids : q # p => proc'[q] = proc[q]
           /\ \A q \in Pids : q # p => (q \in rt' <=> q \in rt)
           /\ \/ /\ clock' = clock + 1
                 /\ Alive(p)' /\ proc'[p].start = clock
              \/ clock' = clock /\ ~ Alive(p)' /\ p \notin rt'
              \/ /\ clock' = clock /\ rt' = rt
                 /\ Alive(p) /\ Alive(p)' /\ proc'[p].start = proc[p].start
<1> USE DEF TypeInv, TypeOK, KernelTypeOK, Alive, Process
<1>1. CASE \E u \in Users, n \in Names : Spawn(p, u, n)
  BY <1>1 DEF Spawn
<1>2. CASE \E q \in Pids : Fork(q, p)
  <2>1. PICK q \in Pids : Fork(q, p)
    BY <1>2
  <2> DEFINE child == [proc[q] EXCEPT !.start = clock]
  <2>2. proc[q] \in Process
    BY <2>1 DEF Fork
  <2>3. child \in Process /\ child.start = clock
    BY <2>2
  <2>4. proc' = [proc EXCEPT ![p] = child] /\ clock' = clock + 1
    BY <2>1 DEF Fork
  <2>5. \A r \in Pids : r # p => (r \in rt' <=> r \in rt)
    BY <2>1 DEF Fork
  <2> HIDE DEF child
  <2>6. QED  BY <2>3, <2>4, <2>5
<1>3. CASE Exit(p)
  BY <1>3 DEF Exit
<1>4. CASE \E u \in Users, c, e \in Names : Reidentify(p, u, c, e)
  <2>1. PICK u \in Users, c \in Names, e \in Names : Reidentify(p, u, c, e)
    BY <1>4
  <2> DEFINE same == [user |-> u, comm |-> c, exe |-> e,
                      start |-> proc[p].start]
  <2>2. Alive(p) /\ proc[p] \in Process
    BY <2>1 DEF Reidentify
  <2>3. same \in Process /\ same.start = proc[p].start
    BY <2>2
  <2>4. proc' = [proc EXCEPT ![p] = same] /\ clock' = clock /\ rt' = rt
    BY <2>1 DEF Reidentify
  <2> HIDE DEF same
  <2>5. QED  BY <2>2, <2>3, <2>4
<1>5. QED  BY <1>1, <1>2, <1>3, <1>4 DEF ProcessEvent

LEMMA ClockedStep == TypeInv /\ Clocked /\ [Next]_vars => Clocked'
<1> SUFFICES ASSUME TypeInv, Clocked, [Next]_vars PROVE Clocked'
  OBVIOUS
<1> USE DEF procVars, treeVars, daemonVars, history
<1>0. \A row \in rows : row \in Row
  BY DEF TypeInv, TypeOK
<1>1. ASSUME NEW p \in Pids, ProcessEvent(p) PROVE Clocked'
  <2>1. rows' = rows /\ cur' = cur
    BY <1>1 DEF ProcessEvent, NoDaemonStep
  <2>2. clock \in Nat /\ (\A row \in rows : row.start \in Nat)
        /\ (cur # None => cur.row.start \in Nat)
        /\ (\A q \in Pids : Alive(q) => proc[q].start \in Nat)
    BY <1>0 DEF TypeInv, TypeOK, KernelTypeOK, Row, Target, Alive, Process
  <2>3. clock' \in {clock, clock + 1}
    BY <1>1, ProcessEffect
  <2>4. \A q \in Pids : Alive(q)' => proc'[q].start < clock'
    <3>1. ASSUME NEW q \in Pids, q # p, Alive(q)' PROVE proc'[q].start < clock'
      <4>1. proc'[q] = proc[q]
        BY <1>1, <3>1, ProcessEffect
      <4>2. QED  BY <2>2, <2>3, <3>1, <4>1 DEF Clocked, Alive
    <3>2. Alive(p)' => proc'[p].start < clock'
      BY <1>1, <2>2, ProcessEffect DEF Clocked
    <3>3. QED  BY <3>1, <3>2
  <2>5. QED  BY <2>1, <2>2, <2>3, <2>4 DEF Clocked
<1>2. ASSUME NEW p \in Pids, Gather(p) PROVE Clocked'
  <2>1. UNCHANGED <<proc, clock, cur>>
    BY <1>2 DEF Gather
  <2>2. Alive(p) => RowOf(p).start < clock
    BY DEF Clocked, RowOf
  <2>3. rows' = rows \/ (Alive(p) /\ rows' = rows \cup {RowOf(p)})
    BY <1>2 DEF Gather
  <2>4. QED  BY <2>1, <2>2, <2>3 DEF Clocked, Alive
<1>3. ASSUME NEW row \in rows, MatchRow(row) PROVE Clocked'
  <2>1. UNCHANGED <<proc, clock>> /\ rows' \subseteq rows
        /\ cur' \in {cur, LeafSpec(row)}
    BY <1>3 DEF MatchRow
  <2>2. LeafSpec(row).row = row
    BY DEF LeafSpec
  <2>3. QED  BY <2>1, <2>2 DEF Clocked, Alive
<1>4. CASE \/ LoadOk \/ LoadFail \/ DiscoverOk \/ DiscoverFail
           \/ \E row \in rows : SkipRow(row)
           \/ Revalidate \/ Open \/ SetOwner \/ Enable \/ Attach \/ EndPass
           \/ (\E d \in reapq : ReapRead(d)) \/ ReapRmdir \/ EndReap \/ Wake
           \/ Exited \/ UNCHANGED vars
  <2>1. UNCHANGED <<proc, clock>> /\ rows' \subseteq rows /\ cur' \in {cur, None}
    BY <1>4 DEF LoadOk, LoadFail, DiscoverOk, DiscoverFail, SkipRow,
         Revalidate, Open, SetOwner, Enable, Attach, NextRow, EndPass,
         ReapRead, ReapRmdir, EndReap, Wake, Exited, vars
  <2>2. QED  BY <2>1 DEF Clocked, Alive
<1>5. CASE \/ \E p \in Pids : SchedEvent(p)
           \/ \E d \in Paths, u \in Users \cup {RootUser} : MkdirEvent(d, u)
           \/ \E d \in Paths : RmdirEvent(d)
           \/ \E p \in Pids, d \in Paths \cup {Root} : MoveEvent(p, d)
           \/ \E d \in Paths, u \in Users \cup {RootUser} : ChownEvent(d, u)
           \/ \E d \in Paths : EnableEvent(d)
           \/ \E c \in Configs \cup {Invalid} : ConfigEvent(c)
           \/ Unmount \/ Remount \/ Crash \/ Restart
  <2>1. UNCHANGED <<proc, clock>> /\ rows' \subseteq rows /\ cur' \in {cur, None}
    BY <1>5 DEF SchedEvent, Chrt, MkdirEvent, OtherMkdir, RmdirEvent,
         OtherRmdir, MoveEvent, OtherMove, ChownEvent, OtherChown,
         EnableEvent, OtherEnable, ConfigEvent, Unmount, Remount, Crash, Restart, NoDaemonStep
  <2>2. QED  BY <2>1 DEF Clocked, Alive
<1>6. QED  BY <1>1, <1>2, <1>3, <1>4, <1>5 DEF Next, Daemon, Environment

HandInv == InHandVerified /\ InHandRealtime /\ InHandOwned

(* Nothing to show for a step that ends with no row in hand.               *)
LEMMA NothingInHand == ASSUME pc' \notin InHand PROVE HandInv'
BY DEF HandInv, InHandVerified, InHandRealtime, InHandOwned, InHand

LEMMA HandInit == Init => HandInv
BY DEF Init, HandInv, InHandVerified, InHandRealtime, InHandOwned, InHand,
       Applying

(* A match puts a row in hand whose checks have just been made.            *)
LEMMA HandMatch ==
    ASSUME TypeInv, HandInv, NEW row \in rows, MatchRow(row) PROVE HandInv'
<1>1. CASE pc' = "match"
  BY <1>1, NothingInHand DEF InHand, Applying
<1>2. CASE pc' # "match"
  <2>1. /\ pc' = "check" /\ cur' = LeafSpec(row) /\ Placeable(row)
        /\ UNCHANGED <<loaded, rt, dirs, owner, drift, proc>>
    BY <1>2 DEF MatchRow, procVars, treeVars, history
  <2>2. /\ LeafSpec(row).row = row
        /\ LeafSpec(row).path = Dest(loaded, row)
        /\ ~ LeafSpec(row).planned
             => Plan(loaded, row) = NoPlan /\ LeafSpec(row).task = "keep"
    BY DEF LeafSpec
  <2>3. InHandVerified'
    BY <2>1 DEF InHandVerified, Applying
  <2>4. InHandRealtime'
    BY <2>1, <2>2 DEF InHandRealtime, Placeable, Ignored
  <2>5. InHandOwned'
    BY <2>1, <2>2 DEF InHandOwned, Placeable, Resolves, OwnedBy
  <2>6. QED  BY <2>3, <2>4, <2>5 DEF HandInv
<1>3. QED  BY <1>1, <1>2

LEMMA HandApply ==
    ASSUME TypeInv, HandInv, Revalidate \/ Open \/ SetOwner \/ Enable \/ Attach
    PROVE  HandInv'
<1>1. CASE pc' = "match"
  BY <1>1, NothingInHand DEF InHand, Applying
<1>2. CASE pc' # "match"
  <2>1. /\ UNCHANGED <<cur, drift, loaded, rt, proc>>
        /\ pc \in InHand /\ pc' \in Applying
        /\ pc = "check" => SameProcess(cur.row)
        /\ pc # "check" => pc \in Applying
    BY <1>2 DEF Revalidate, Open, SetOwner, Enable, Attach, NextRow, procVars,
         history, InHand, Applying
  <2>2. InHandVerified'
    BY <2>1 DEF HandInv, InHandVerified, AsScanned, SameProcess, Alive
  <2>3. InHandRealtime'
    BY <2>1 DEF HandInv, InHandRealtime, SameProcess, Recycled, Alive
  <2>4. ASSUME ~ cur.planned, OwnedBy(cur.path, cur.row.user),
               cur.task = "keep"
        PROVE  OwnedBy(cur.path, cur.row.user)'
    <3>1. cur.path \in Paths
      BY <2>1 DEF TypeInv, TypeOK, Hands, Target
    <3>2. CASE Open
      BY <2>1, <2>4, <3>1, <3>2 DEF Open, MakeDirs, OwnedBy
    <3>3. CASE SetOwner
      BY <1>2, <2>1, <2>4, <3>3 DEF SetOwner, NextRow, OwnedBy
    <3>4. CASE Revalidate \/ Enable \/ Attach
      BY <2>1, <2>4, <3>4 DEF Revalidate, Enable, Attach, OwnedBy, treeVars
    <3>5. QED  BY <1>2, <3>2, <3>3, <3>4
  <2>5. InHandOwned'
    BY <2>1, <2>4 DEF HandInv, InHandOwned
  <2>6. QED  BY <2>2, <2>3, <2>5 DEF HandInv
<1>3. QED  BY <1>1, <1>2

(* A process event either leaves the pid in hand alone, goes on record, or *)
(* recycles it before still_same_process looks.                            *)
LEMMA HandProcess ==
    ASSUME TypeInv, Clocked, HandInv, NEW p \in Pids, ProcessEvent(p)
    PROVE  HandInv'
<1> DEFINE row == cur.row
<1>1. /\ UNCHANGED <<pc, cur, loaded, dirs, owner>>
      /\ drift \subseteq drift'
      /\ pc \in Applying /\ row.pid = p => "identity" \in drift'
  BY DEF ProcessEvent, NoDaemonStep, daemonVars, treeVars, Drifts
<1>2. InHandOwned'
  BY <1>1 DEF HandInv, InHandOwned, OwnedBy
<1>3. CASE pc \notin InHand
  BY <1>1, <1>3, NothingInHand
<1>4. CASE pc \in InHand /\ row.pid # p
  <2>1. row.pid \in Pids
    BY <1>4 DEF TypeInv, TypeOK, Hands, Target, Row
  <2>2. proc'[row.pid] = proc[row.pid] /\ (row.pid \in rt' <=> row.pid \in rt)
    BY <1>4, <2>1, ProcessEffect
  <2>3. InHandVerified'
    BY <1>1, <2>2 DEF HandInv, InHandVerified, AsScanned, Alive
  <2>4. InHandRealtime'
    BY <1>1, <2>2 DEF HandInv, InHandRealtime, Recycled, Alive
  <2>5. QED  BY <1>2, <2>3, <2>4 DEF HandInv
<1>5. CASE pc \in Applying /\ row.pid = p
  BY <1>1, <1>2, <1>5 DEF HandInv, InHandVerified, InHandRealtime
<1>6. CASE pc = "check" /\ row.pid = p
  <2>1. row.start \in Nat /\ row.start < clock /\ clock \in Nat
    BY <1>6 DEF TypeInv, TypeOK, KernelTypeOK, Hands, InHand, Target, Row,
         Clocked
  <2>2. InHandVerified'
    BY <1>1, <1>6 DEF InHandVerified, Applying
  <2>3. ASSUME "ignore_rt" \in FirstRule(loaded, row).options, p \in rt',
               drift \cap {"identity", "sched"} = {}
        PROVE  Recycled(row)'
    <3>1. CASE Alive(p)' /\ proc'[p].start = clock
      BY <1>1, <1>6, <2>1, <3>1 DEF Recycled, Alive
    <3>2. CASE rt' = rt /\ Alive(p) /\ Alive(p)'
                 /\ proc'[p].start = proc[p].start
      <4>1. Recycled(row)
        BY <1>6, <2>3, <3>2 DEF HandInv, InHandRealtime, InHand
      <4>2. QED  BY <1>1, <1>6, <3>2, <4>1 DEF Recycled, Alive
    <3>3. QED  BY <2>3, <3>1, <3>2, ProcessEffect
  <2>4. InHandRealtime'
    BY <1>1, <1>6, <2>3 DEF InHandRealtime
  <2>5. QED  BY <1>2, <2>2, <2>4 DEF HandInv
<1>7. QED  BY <1>3, <1>4, <1>5, <1>6 DEF InHand

LEMMA HandSched ==
    ASSUME TypeInv, HandInv, NEW p \in Pids, SchedEvent(p) PROVE HandInv'
<1> DEFINE row == cur.row
<1>1. /\ UNCHANGED <<pc, cur, loaded, dirs, owner, proc>>
      /\ drift \subseteq drift'
      /\ pc \in InHand /\ row.pid = p => "sched" \in drift'
  BY DEF SchedEvent, Chrt, NoDaemonStep, daemonVars, treeVars, Drifts
<1>2. \A q : q # p => (q \in rt' <=> q \in rt)
  BY DEF SchedEvent, Chrt
<1>3. InHandVerified'
  BY <1>1 DEF HandInv, InHandVerified, AsScanned, Alive
<1>4. InHandRealtime'
  BY <1>1, <1>2 DEF HandInv, InHandRealtime, Recycled, Alive
<1>5. InHandOwned'
  BY <1>1 DEF HandInv, InHandOwned, OwnedBy
<1>6. QED  BY <1>3, <1>4, <1>5 DEF HandInv

(* Somebody else's mkdir, rmdir or chown: the directory in hand keeps its  *)
(* owner, or what happened to it goes on record.                           *)
LEMMA HandTree ==
    ASSUME TypeInv, HandInv,
           \/ \E d \in Paths, u \in Users \cup {RootUser} : MkdirEvent(d, u)
           \/ \E d \in Paths : RmdirEvent(d)
           \/ \E d \in Paths, u \in Users \cup {RootUser} : ChownEvent(d, u)
    PROVE  HandInv'
<1>1. /\ UNCHANGED <<pc, cur, loaded, proc, rt>>
      /\ drift \subseteq drift'
  BY DEF MkdirEvent, OtherMkdir, RmdirEvent, OtherRmdir, ChownEvent,
     OtherChown, NoDaemonStep, daemonVars, procVars, Drifts
<1>2. InHandVerified'
  BY <1>1 DEF HandInv, InHandVerified, AsScanned, Alive
<1>3. InHandRealtime'
  BY <1>1 DEF HandInv, InHandRealtime, Recycled, Alive
<1>4. ASSUME pc \in InHand, OwnedBy(cur.path, cur.row.user),
             "target" \notin drift'
      PROVE  OwnedBy(cur.path, cur.row.user)'
  <2>1. cur.path \in Paths
    BY <1>4 DEF TypeInv, TypeOK, Hands, Target
  <2>2. ASSUME NEW d \in Paths, NEW u \in Users \cup {RootUser},
               MkdirEvent(d, u)
        PROVE  OwnedBy(cur.path, cur.row.user)'
    BY <1>1, <1>4, <2>1, <2>2 DEF MkdirEvent, OtherMkdir, MakeDirs, OwnedBy
  <2>3. ASSUME NEW d \in Paths, RmdirEvent(d)
        PROVE  OwnedBy(cur.path, cur.row.user)'
    <3>1. cur.path # d
      BY <1>4, <2>3 DEF RmdirEvent, Drifts
    <3>2. QED
      BY <1>1, <1>4, <2>1, <2>3, <3>1
      DEF RmdirEvent, OtherRmdir, RemoveDir, OwnedBy, TypeInv, TypeOK,
          KernelTypeOK
  <2>4. ASSUME NEW d \in Paths, NEW u \in Users \cup {RootUser},
               ChownEvent(d, u)
        PROVE  OwnedBy(cur.path, cur.row.user)'
    <3>1. cur.path # d
      BY <1>4, <2>4 DEF ChownEvent, Drifts
    <3>2. QED
      BY <1>1, <1>4, <2>1, <2>4, <3>1
      DEF ChownEvent, OtherChown, OwnedBy, TypeInv, TypeOK, KernelTypeOK
  <2>5. QED  BY <2>2, <2>3, <2>4
<1>5. InHandOwned'
  BY <1>1, <1>4 DEF HandInv, InHandOwned
<1>6. QED  BY <1>2, <1>3, <1>5 DEF HandInv

LEMMA HandStep == TypeInv /\ Clocked /\ HandInv /\ [Next]_vars => HandInv'
<1> SUFFICES ASSUME TypeInv, Clocked, HandInv, [Next]_vars PROVE HandInv'
  OBVIOUS
<1> USE DEF procVars, treeVars, daemonVars, history
<1>1. CASE \E row \in rows : MatchRow(row)
  BY <1>1, HandMatch
<1>2. CASE Revalidate \/ Open \/ SetOwner \/ Enable \/ Attach
  BY <1>2, HandApply
<1>3. CASE \E p \in Pids : ProcessEvent(p) \/ SchedEvent(p)
  BY <1>3, HandProcess, HandSched
<1>4. CASE \/ \E d \in Paths, u \in Users \cup {RootUser} : MkdirEvent(d, u)
           \/ \E d \in Paths : RmdirEvent(d)
           \/ \E d \in Paths, u \in Users \cup {RootUser} : ChownEvent(d, u)
  BY <1>4, HandTree
<1>5. CASE \/ \E p \in Pids, d \in Paths \cup {Root} : MoveEvent(p, d)
           \/ \E d \in Paths : EnableEvent(d)
           \/ \E c \in Configs \cup {Invalid} : ConfigEvent(c)
           \/ Unmount \/ Remount \/ UNCHANGED vars
  <2>1. UNCHANGED <<pc, cur, loaded, proc, rt, dirs, owner, drift>>
    BY <1>5 DEF MoveEvent, OtherMove, EnableEvent, OtherEnable, ConfigEvent,
         Unmount, Remount, NoDaemonStep, vars
  <2>2. QED
    BY <2>1 DEF HandInv, InHandVerified, InHandRealtime, InHandOwned,
       AsScanned, Recycled, OwnedBy, Alive
<1>6. CASE \/ LoadOk \/ LoadFail \/ DiscoverOk \/ DiscoverFail
           \/ (\E p \in Pids : Gather(p))
           \/ (\E row \in rows : SkipRow(row)) \/ EndPass
           \/ (\E d \in reapq : ReapRead(d)) \/ ReapRmdir \/ EndReap \/ Wake
           \/ Exited \/ Crash \/ Restart
  <2>1. pc' \notin InHand
    BY <1>6 DEF InHand, Applying, LoadOk, LoadFail, AfterPass, DiscoverOk,
         DiscoverFail, Gather, SkipRow, EndPass, ReapRead, ReapRmdir, EndReap,
         Wake, Exited, Crash, Restart, vars
  <2>2. QED  BY <2>1, NothingInHand
<1>7. QED
  BY <1>1, <1>2, <1>3, <1>4, <1>5, <1>6 DEF Next, Daemon, Environment

LEMMA ClockedInvariant == Spec => []Clocked
<1>1. QED  BY TypeInvariant, ClockedInit, ClockedStep, PTL DEF Spec

LEMMA HandInvariant == Spec => []HandInv
<1>1. QED
  BY TypeInvariant, ClockedInvariant, HandInit, HandStep, PTL DEF Spec

-----------------------------------------------------------------------------
(* What an attach does.                                                    *)

(* Only Cgroup::attach leaves the attach location for the next row, and it *)
(* moves nothing but the pid in hand, into an existing directory.          *)
LEMMA AttachMoves ==
    ASSUME TypeInv, [Next]_vars, NEW p \in Pids,
           pc = "attach", pc' = "match", cg'[p] # cg[p]
    PROVE  p = cur.row.pid /\ Attaches /\ cg'[p] = cur.path
<1> USE DEF procVars, treeVars, daemonVars, history
<1>1. Attach
  <2>1. CASE Daemon
    BY <2>1 DEF Daemon, LoadOk, LoadFail, DiscoverOk, DiscoverFail, Gather,
         SkipRow, MatchRow, Revalidate, Open, SetOwner, Enable, EndPass,
         ReapRead, ReapRmdir, EndReap, Wake
  <2>2. CASE Environment
    BY <2>2 DEF Environment, ProcessEvent, SchedEvent, MkdirEvent, RmdirEvent,
         MoveEvent, ChownEvent, EnableEvent, ConfigEvent, Unmount, Remount,
         Crash, Restart, NoDaemonStep
  <2>3. CASE Exited \/ UNCHANGED vars
    BY <2>3 DEF Exited, vars
  <2>4. QED  BY <2>1, <2>2, <2>3 DEF Next
<1>2. Attaches /\ cg' = [cg EXCEPT ![cur.row.pid] = cur.path]
  BY <1>1 DEF Attach
<1>3. QED  BY <1>2 DEF TypeInv, TypeOK, KernelTypeOK

(* AttachIsVerified: for every number of processes and every reuse of a    *)
(* pid, the daemon moves the process it scanned, or one that changed after *)
(* still_same_process looked.                                              *)
THEOREM AttachIsVerified == Spec => MovesVerified
<1>1. ASSUME TypeInv, HandInv, [Next]_vars
      PROVE  \A p \in Pids :
               pc = "attach" /\ pc' = "match" /\ cg'[p] # cg[p]
                 => /\ p = cur.row.pid
                    /\ AsScanned(cur.row) \/ "identity" \in drift
  BY <1>1, AttachMoves DEF HandInv, InHandVerified, Applying
<1>2. QED  BY <1>1, TypeInvariant, HandInvariant, PTL DEF Spec, MovesVerified

(* AttachSparesRealtime: an ignore_rt rule keeps the daemon off real-time  *)
(* tasks, but for one that becomes real-time, or another process, while    *)
(* its row is handled.                                                     *)
THEOREM AttachSparesRealtime == Spec => RealtimeLeftAlone
<1>1. ASSUME TypeInv, HandInv, [Next]_vars
      PROVE  \A p \in Pids :
               pc = "attach" /\ pc' = "match" /\ cg'[p] # cg[p] /\ p \in rt
                 => \/ "ignore_rt" \notin FirstRule(loaded, cur.row).options
                    \/ drift \cap {"identity", "sched"} # {}
  BY <1>1, AttachMoves DEF HandInv, InHandRealtime, InHand, Applying
<1>2. QED
  BY <1>1, TypeInvariant, HandInvariant, PTL DEF Spec, RealtimeLeftAlone

(* AttachReachesOwn: without a group or template, the daemon moves a       *)
(* process only into a cgroup that is its user's, unless the cgroup was    *)
(* removed, and made anew by Cgroup::apply, or given to another account    *)
(* after leaf_spec looked at its owner.                                    *)
THEOREM AttachReachesOwn == Spec => FallbackOwnUnlessChanged
<1>1. ASSUME TypeInv, HandInv, [Next]_vars
      PROVE  \A p \in Pids :
               pc = "attach" /\ pc' = "match" /\ cg'[p] # cg[p] /\ ~ cur.planned
                 => owner[cur.path] = cur.row.user \/ "target" \in drift
  BY <1>1, AttachMoves DEF HandInv, InHandOwned, InHand, Applying, OwnedBy
<1>2. QED
  BY <1>1, TypeInvariant, HandInvariant, PTL
  DEF Spec, FallbackOwnUnlessChanged

-----------------------------------------------------------------------------
(* A single pass.                                                          *)

(* Under --once the reaper's part of the loop is never reached.            *)
NotReaping == pc \notin {"reap", "rmdir"}

LEMMA OnceStep ==
    ASSUME Once, NotReaping, [Next]_vars
    PROVE  NotReaping' /\ (pc' # pc => dirs \subseteq dirs')
<1> USE DEF NotReaping, treeVars, daemonVars, history
<1>1. CASE LoadOk \/ LoadFail \/ DiscoverOk \/ DiscoverFail \/ Wake
  BY <1>1 DEF LoadOk, LoadFail, DiscoverOk, DiscoverFail, Wake, AfterPass
<1>2. CASE (\E p \in Pids : Gather(p)) \/ Revalidate \/ EndPass
  BY <1>2 DEF Gather, Revalidate, NextRow, EndPass
<1>3. CASE \E row \in rows : SkipRow(row) \/ MatchRow(row)
  BY <1>3 DEF SkipRow, MatchRow
<1>4. CASE Open
  BY <1>4 DEF Open, MakeDirs
<1>5. CASE SetOwner \/ Enable
  BY <1>5 DEF SetOwner, Enable, NextRow
<1>6. CASE Attach
  BY <1>6 DEF Attach, NextRow
<1>7. CASE (\E d \in reapq : ReapRead(d)) \/ ReapRmdir \/ EndReap
  BY <1>7 DEF ReapRead, ReapRmdir, EndReap
<1>8. CASE Environment
  <2>1. CASE Crash \/ Restart
    BY <2>1 DEF Crash, Restart
  <2>2. CASE ~ Crash /\ ~ Restart
    <3>1. pc' = pc
      BY <1>8, <2>2
         DEF Environment, ProcessEvent, SchedEvent, MkdirEvent, RmdirEvent,
             MoveEvent, ChownEvent, EnableEvent, ConfigEvent, Unmount, Remount, NoDaemonStep
    <3>2. QED  BY <3>1
  <2>3. QED  BY <2>1, <2>2
<1>9. CASE Exited \/ UNCHANGED vars
  BY <1>9 DEF Exited, vars
<1>10. QED
  BY <1>1, <1>2, <1>3, <1>4, <1>5, <1>6, <1>7, <1>8, <1>9 DEF Next, Daemon

(* OnceReapsNothing: with --once no step of the daemon removes a directory *)
(* from the tree, whatever it placed and however its single pass ended.    *)
THEOREM OnceReapsNothing ==
    ASSUME Once PROVE Spec => OnceNeverReaps
<1>1. Init => NotReaping
  BY DEF Init, NotReaping
<1>2. NotReaping /\ [Next]_vars => NotReaping'
  BY OnceStep
<1>3. NotReaping /\ [Next]_vars
        => [pc # "exit" /\ pc' # pc => dirs \subseteq dirs']_vars
  BY OnceStep
<1>4. QED  BY <1>1, <1>2, <1>3, PTL DEF Spec, OnceNeverReaps

-----------------------------------------------------------------------------
(* The row in hand keeps its plan: the configuration changes only when     *)
(* nothing is in hand.                                                     *)

LEMMA PlannedInit == Init => InHandPlanned
BY DEF Init, InHandPlanned

LEMMA PlannedFrame ==
    ASSUME InHandPlanned, cur' = None \/ UNCHANGED <<cur, loaded>>,
           pc' = "enable" => UNCHANGED cur /\ (pc = "enable" \/ cur.controllers)
    PROVE  InHandPlanned'
<1>1. CASE cur' = None
  BY <1>1 DEF InHandPlanned
<1>2. CASE UNCHANGED <<cur, loaded>>
  BY <1>2 DEF InHandPlanned, LeafSpec
<1>3. QED  BY <1>1, <1>2

LEMMA PlannedStep ==
    TypeInv /\ InHandPlanned /\ [Next]_vars => InHandPlanned'
<1> SUFFICES ASSUME TypeInv, InHandPlanned, [Next]_vars PROVE InHandPlanned'
  OBVIOUS
<1> USE DEF daemonVars
<1>1. ASSUME NEW row \in rows, MatchRow(row) PROVE InHandPlanned'
  <2>1. CASE UNCHANGED cur
    BY <1>1, <2>1, PlannedFrame DEF MatchRow
  <2>2. CASE cur' = LeafSpec(row)
    <3>1. /\ loaded' = loaded
          /\ HasRule(loaded, row) /\ Dest(loaded, row) # Unsafe
      BY <1>1 DEF MatchRow, Placeable, Resolves
    <3>2. LeafSpec(row).row = row
      BY DEF LeafSpec
    <3>3. (cur = LeafSpec(cur.row))'
      BY <2>2, <3>1, <3>2 DEF LeafSpec
    <3>4. pc' # "enable"
      BY <1>1 DEF MatchRow
    <3>5. QED  BY <2>2, <3>1, <3>2, <3>3, <3>4 DEF InHandPlanned
  <2>3. QED  BY <1>1, <2>1, <2>2 DEF MatchRow
<1>2. CASE LoadOk
  <2>1. cur' = None /\ pc' # "enable"
    BY <1>2 DEF LoadOk, TypeInv, Hands, InHand, Applying
  <2>2. QED  BY <2>1, PlannedFrame
<1>3. CASE \/ LoadFail \/ DiscoverOk \/ DiscoverFail
           \/ (\E p \in Pids : Gather(p))
           \/ (\E row \in rows : SkipRow(row))
           \/ Revalidate \/ Open \/ SetOwner \/ Enable \/ Attach \/ EndPass
           \/ (\E d \in reapq : ReapRead(d)) \/ ReapRmdir \/ EndReap \/ Wake
  <2>1. /\ cur' = None \/ UNCHANGED <<cur, loaded>>
        /\ pc' = "enable" => UNCHANGED cur /\ cur.controllers
    BY <1>3 DEF LoadFail, AfterPass, DiscoverOk, DiscoverFail, Gather,
         SkipRow, Revalidate, Open, SetOwner, Enable, Attach, NextRow,
         EndPass, ReapRead, ReapRmdir, EndReap, Wake
  <2>2. QED  BY <2>1, PlannedFrame
<1>4. CASE Environment \/ Exited \/ UNCHANGED vars
  <2>1. /\ cur' = None \/ UNCHANGED <<cur, loaded>>
        /\ pc' = "enable" => UNCHANGED <<cur, pc>>
    BY <1>4 DEF Environment, ProcessEvent, SchedEvent, MkdirEvent, RmdirEvent,
         MoveEvent, ChownEvent, EnableEvent, ConfigEvent, Unmount, Remount, Crash, Restart,
         NoDaemonStep, Exited, vars
  <2>2. QED  BY <2>1, PlannedFrame
<1>5. QED  BY <1>1, <1>2, <1>3, <1>4 DEF Next, Daemon

LEMMA PlannedInvariant == Spec => []InHandPlanned
<1>1. QED  BY TypeInvariant, PlannedInit, PlannedStep, PTL DEF Spec

-----------------------------------------------------------------------------
(* The authority's view of a row: the identity it was scanned with is sent *)
(* where the row is sent.                                                  *)

IdOf(row) == [user |-> row.user, comm |-> row.comm, exe |-> row.exe]

LEMMA IdentityOf ==
    ASSUME NEW row \in Row, NEW c
    PROVE  /\ IdOf(row) \in Placing!Identity
           /\ IdOf(row).user = row.user
           /\ HasRule(c, IdOf(row)) = HasRule(c, row)
           /\ Dest(c, IdOf(row)) = Dest(c, row)
           /\ Plan(c, IdOf(row)) = Plan(c, row)
<1>1. IdOf(row) \in Placing!Identity
  BY DEF Row, IdOf, Placing!Identity
<1>2. /\ IdOf(row).user = row.user
      /\ IdOf(row).comm = row.comm
      /\ IdOf(row).exe = row.exe
  BY DEF IdOf
<1>3. QED  BY <1>1, <1>2, SameIdentitySamePolicy

(* Both read the rules the same way.                                       *)
LEMMA SamePolicy ==
    ASSUME NEW c, NEW id
    PROVE  /\ Placing!HasRule(c, id) = HasRule(c, id)
           /\ Placing!Dest(c, id) = Dest(c, id)
           /\ Placing!Plan(c, id) = Plan(c, id)
<1>1. \A r : Placing!IsProcessSpecific(r) <=> IsProcessSpecific(r)
  BY DEF Placing!IsProcessSpecific, IsProcessSpecific
<1>2. \A r : Placing!Matches(r, id) <=> Matches(r, id)
  BY <1>1 DEF Placing!Matches, Placing!SubjectMatches, Placing!ProcessNames,
     Matches, SubjectMatches, ProcessNames
<1>3. Placing!Candidates(c.rules, id) = Candidates(c.rules, id)
  <2> DEFINE hits == {i \in DOMAIN c.rules : Matches(c.rules[i], id)}
  <2>1. hits = {i \in DOMAIN c.rules : Placing!Matches(c.rules[i], id)}
    BY <1>2
  <2>2. {i \in hits : IsProcessSpecific(c.rules[i])}
          = {i \in hits : Placing!IsProcessSpecific(c.rules[i])}
    BY <1>1
  <2>3. QED  BY <2>1, <2>2, Zenon DEF Placing!Candidates, Candidates
<1>4. Placing!FirstRule(c, id) = FirstRule(c, id)
  BY <1>3 DEF Placing!FirstRule, FirstRule
<1>5. Placing!Dest(c, id) = Dest(c, id)
  BY <1>4 DEF Placing!Dest, Dest
<1>6. \A d, raw : Placing!PlanDestination(c, d, raw) = PlanDestination(c, d, raw)
  BY DEF Placing!PlanDestination, PlanDestination
<1>7. Placing!Plan(c, id) = Plan(c, id)
  BY <1>4, <1>5, <1>6 DEF Placing!Plan, Plan
<1>8. QED
  BY <1>3, <1>5, <1>7 DEF Placing!HasRule, HasRule

LEMMA SentRow ==
    ASSUME NEW row \in Row, loaded # None, HasRule(loaded, row)
    PROVE  /\ Placing!Sends(IdOf(row), Dest(loaded, row))
           /\ Plan(loaded, row) # NoPlan
                => Placing!SentBy(IdOf(row), Dest(loaded, row))
<1>1. Placing!Sends(IdOf(row), Dest(loaded, row))
  BY IdentityOf, SamePolicy DEF Placing!Sends
<1>2. QED  BY <1>1, IdentityOf, SamePolicy DEF Placing!SentBy

(* What is in hand is sent where it is about to go, with its options.      *)
LEMMA HandSent ==
    ASSUME TypeInv, InHandPlanned, cur # None
    PROVE  /\ cur.path \in Paths /\ cur.row.pid \in Pids
           /\ IdOf(cur.row) \in Placing!Identity
           /\ Placing!Sends(IdOf(cur.row), cur.path)
           /\ cur.task = "user" \/ cur.controllers
                => Placing!SentBy(IdOf(cur.row), cur.path)
           /\ cur.task = "user"
                => Placing!Plan(loaded, IdOf(cur.row)).task = "user"
           /\ cur.controllers
                => Placing!Plan(loaded, IdOf(cur.row)).controllers
<1> DEFINE row == cur.row
<1>1. /\ cur \in Target /\ row \in Row /\ loaded # None
      /\ cur.path \in Paths /\ row.pid \in Pids
  BY DEF TypeInv, TypeOK, Hands, InHand, Applying, Target, Row
<1>2. HasRule(loaded, row) /\ cur = LeafSpec(row)
  BY DEF InHandPlanned
<1>3. /\ LeafSpec(row).path = Dest(loaded, row)
      /\ LeafSpec(row).task = "user"
           => Plan(loaded, row) # NoPlan /\ Plan(loaded, row).task = "user"
      /\ LeafSpec(row).controllers
           => Plan(loaded, row) # NoPlan /\ Plan(loaded, row).controllers
  BY DEF LeafSpec
<1>4. /\ IdOf(row) \in Placing!Identity
      /\ Placing!Plan(loaded, IdOf(row)) = Plan(loaded, row)
  BY <1>1, IdentityOf, SamePolicy
<1> HIDE DEF row
<1>5. /\ Placing!Sends(IdOf(row), Dest(loaded, row))
      /\ Plan(loaded, row) # NoPlan
           => Placing!SentBy(IdOf(row), Dest(loaded, row))
  BY <1>1, <1>2, SentRow
<1>6. /\ cur.path = Dest(loaded, row)
      /\ cur.task = "user"
           => Plan(loaded, row) # NoPlan /\ Plan(loaded, row).task = "user"
      /\ cur.controllers
           => Plan(loaded, row) # NoPlan /\ Plan(loaded, row).controllers
  BY <1>2, <1>3, Zenon
<1>7. QED  BY <1>1, <1>4, <1>5, <1>6, Zenon DEF row

-----------------------------------------------------------------------------
(* Each call of the daemon is a step of the authority, or none.            *)

View == Placing!placeVars

LEMMA ViewUnchanged ==
    ASSUME UNCHANGED <<procVars, treeVars, disk, loaded, tracked>>
    PROVE  UNCHANGED View
BY DEF procVars, treeVars, View, Placing!placeVars, Placing!procVars,
       Placing!treeVars

LEMMA InitPlaced == Init => Placing!PlaceInit
BY DEF Init, Placing!PlaceInit

LEMMA LoadPlaced == LoadOk => Placing!Adopt
BY DEF LoadOk, Placing!Adopt, procVars, treeVars, Placing!procVars,
       Placing!treeVars

LEMMA MatchPlaced ==
    ASSUME TypeInv, NEW row \in rows, MatchRow(row)
    PROVE  (\E d \in Paths : Placing!Claim(d)) \/ UNCHANGED View
<1>1. row \in Row /\ loaded \in Configs /\ loaded # None
  BY DEF MatchRow, TypeInv, TypeOK, Hands
<1>2. /\ UNCHANGED <<procVars, treeVars, disk, loaded>>
      /\ tracked' = Track(LeafSpec(row))
      /\ HasRule(loaded, row) /\ Placeable(row)
  BY DEF MatchRow, Placeable
<1>3. LeafSpec(row) \in Target /\ LeafSpec(row).path = Dest(loaded, row)
  BY <1>1, <1>2, LeafSpecType DEF LeafSpec, TypeInv
<1>4. CASE LeafSpec(row).tmpl
  <2>1. Plan(loaded, row) # NoPlan /\ Plan(loaded, row).tmpl
    BY <1>4 DEF LeafSpec
  <2>2. /\ Dest(loaded, row) \in Paths
        /\ tracked' = tracked \cup {Dest(loaded, row)}
    BY <1>2, <1>3, <1>4 DEF Track, Target
  <2>3. /\ Placing!SentBy(IdOf(row), Dest(loaded, row))
        /\ IdOf(row) \in Placing!Identity
    BY <1>1, <1>2, <2>1, SentRow, IdentityOf
  <2>4. Placing!Plan(loaded, IdOf(row)).tmpl
    <3>1. Placing!Plan(loaded, IdOf(row)) = Plan(loaded, row)
      BY <1>1, IdentityOf, SamePolicy
    <3>2. QED  BY <2>1, <3>1, Zenon
  <2>5. Placing!Claim(Dest(loaded, row))
    BY <1>2, <2>2, <2>3, <2>4
    DEF Placing!Claim, procVars, treeVars, Placing!procVars, Placing!treeVars
  <2>6. QED  BY <2>2, <2>5
<1>5. CASE ~ LeafSpec(row).tmpl
  BY <1>2, <1>5, ViewUnchanged DEF Track
<1>6. QED  BY <1>4, <1>5

LEMMA OpenPlaced ==
    ASSUME TypeInv, InHandPlanned, Open
    PROVE  \E d \in Paths : Placing!Make(d)
<1>1. /\ MakeDirs(cur.path, RootUser) /\ cur # None
      /\ UNCHANGED <<procVars, disk, loaded, tracked>>
  BY DEF Open, TypeInv, Hands, InHand, Applying
<1>2. Placing!MakeDirs(cur.path, RootUser)
  BY <1>1 DEF MakeDirs, Placing!MakeDirs
<1>3. Placing!Make(cur.path)
  BY <1>1, <1>2, HandSent DEF Placing!Make, procVars, Placing!procVars
<1>4. QED  BY <1>1, <1>3, HandSent

LEMMA OwnerPlaced ==
    ASSUME TypeInv, InHandPlanned, SetOwner
    PROVE  (\E d \in Paths : Placing!Delegate(d)) \/ UNCHANGED View
<1>1. /\ UNCHANGED <<procVars, dirs, subtree, disk, loaded, tracked>>
      /\ cur # None
  BY DEF SetOwner, TypeInv, Hands, InHand, Applying
<1>2. CASE cur.path \in dirs /\ cur.task = "user"
  <2>1. owner' = [owner EXCEPT ![cur.path] = IdOf(cur.row).user]
    BY <1>2 DEF SetOwner, IdOf
  <2>2. Placing!Delegate(cur.path)
    BY <1>1, <1>2, <2>1, HandSent
    DEF Placing!Delegate, procVars, Placing!procVars
  <2>3. QED  BY <1>1, <2>2, HandSent
<1>3. CASE ~ (cur.path \in dirs /\ cur.task = "user")
  <2>1. owner' = owner
    BY <1>3 DEF SetOwner
  <2>2. QED  BY <1>1, <2>1, ViewUnchanged DEF treeVars
<1>4. QED  BY <1>2, <1>3

LEMMA EnablePlaced ==
    ASSUME TypeInv, InHandPlanned, Enable
    PROVE  (\E d \in Paths : Placing!Distribute(d)) \/ UNCHANGED View
<1>1. /\ UNCHANGED <<procVars, dirs, owner, disk, loaded, tracked>>
      /\ cur # None /\ cur.controllers
  BY DEF Enable, TypeInv, Hands, InHand, Applying, InHandPlanned
<1>2. CASE CanEnable(cur.path)
  <2>1. subtree' = subtree \cup {cur.path}
    BY <1>2 DEF Enable
  <2>2. Placing!CanEnable(cur.path)
    BY <1>2 DEF CanEnable, Members, Alive, Placing!CanEnable, Placing!Members,
         Placing!Alive
  <2>3. Placing!Distribute(cur.path)
    BY <1>1, <1>2, <2>1, <2>2, HandSent
    DEF Placing!Distribute, procVars, Placing!procVars
  <2>4. QED  BY <1>1, <2>3, HandSent
<1>3. CASE ~ CanEnable(cur.path)
  <2>1. subtree' = subtree
    BY <1>3 DEF Enable
  <2>2. QED  BY <1>1, <2>1, ViewUnchanged DEF treeVars
<1>4. QED  BY <1>2, <1>3

LEMMA AttachPlaced ==
    ASSUME TypeInv, InHandPlanned, Attach
    PROVE  (\E p \in Pids, d \in Paths : Placing!Place(p, d))
             \/ UNCHANGED View
<1>1. /\ UNCHANGED <<proc, rt, clock, treeVars, disk, loaded, tracked>>
      /\ cur # None
  BY DEF Attach, TypeInv, Hands, InHand, Applying
<1>2. CASE Attaches
  <2>1. cg' = [cg EXCEPT ![cur.row.pid] = cur.path]
    BY <1>2 DEF Attach
  <2>2. Placing!Place(cur.row.pid, cur.path)
    BY <1>1, <1>2, <2>1, HandSent
    DEF Attaches, AcceptsMembers, Alive, Placing!Place, Placing!Alive,
        Placing!AcceptsMembers, treeVars, Placing!treeVars
  <2>3. QED  BY <1>1, <2>2, HandSent
<1>3. CASE ~ Attaches
  <2>1. cg' = cg
    BY <1>3 DEF Attach
  <2>2. QED  BY <1>1, <2>1, ViewUnchanged DEF procVars
<1>4. QED  BY <1>2, <1>3

LEMMA ReapPlaced ==
    ASSUME TypeInv, Bookkeeping, ReapRmdir
    PROVE  (\E d \in Paths : Placing!Reap(d) \/ Placing!Forget(d))
             \/ UNCHANGED View
<1>1. /\ victim \in Paths /\ victim \in tracked
      /\ victim \notin DOMAIN loaded.groups
      /\ UNCHANGED <<procVars, disk, loaded>>
  BY DEF ReapRmdir, TypeInv, TypeOK, Hands, Bookkeeping
<1>2. CASE victim \in dirs /\ ~ Occupied(victim)
  <2>1. ~ Placing!Occupied(victim)
    BY <1>2 DEF Occupied, Members, Alive, HasChild, Placing!Occupied,
         Placing!Members, Placing!Alive, Placing!HasChild
  <2>2. RemoveDir(victim) /\ tracked' = tracked \ {victim}
    BY <1>2 DEF ReapRmdir
  <2>3. Placing!RemoveDir(victim)
    BY <2>2 DEF RemoveDir, Placing!RemoveDir
  <2>4. Placing!Reap(victim)
    BY <1>1, <1>2, <2>1, <2>2, <2>3
    DEF Placing!Reap, procVars, Placing!procVars
  <2>5. QED  BY <1>1, <2>4
<1>3. CASE victim \notin dirs
  <2>1. UNCHANGED treeVars /\ tracked' = tracked \ {victim}
    BY <1>3 DEF ReapRmdir
  <2>2. Placing!Forget(victim)
    BY <1>1, <1>3, <2>1
    DEF Placing!Forget, procVars, treeVars, Placing!procVars, Placing!treeVars
  <2>3. QED  BY <1>1, <2>2
<1>4. CASE victim \in dirs /\ Occupied(victim)
  <2>1. UNCHANGED <<treeVars, tracked>>
    BY <1>4 DEF ReapRmdir
  <2>2. QED  BY <1>1, <2>1, ViewUnchanged
<1>5. QED  BY <1>2, <1>3, <1>4

(* Every other call leaves the authority where it was.                     *)
LEMMA QuietPlaced ==
    \/ LoadFail \/ DiscoverOk \/ DiscoverFail
    \/ (\E p \in Pids : Gather(p))
    \/ (\E row \in rows : SkipRow(row))
    \/ Revalidate \/ EndPass
    \/ (\E d \in reapq : ReapRead(d)) \/ EndReap \/ Wake
    \/ Unmount \/ Remount \/ Restart \/ Exited \/ UNCHANGED vars
    => UNCHANGED View
BY ViewUnchanged
   DEF LoadFail, DiscoverOk, DiscoverFail, Gather, SkipRow, Revalidate,
       NextRow, EndPass, ReapRead, EndReap, Wake, Unmount, Remount, Restart,
       Exited, vars, NoDaemonStep, daemonVars, procVars, treeVars

LEMMA CrashPlaced == Crash => Placing!Die
BY DEF Crash, Placing!Die, procVars, treeVars, Placing!procVars,
       Placing!treeVars

(* What the processes, other cgroup users and editors do is the same world *)
(* for both.                                                               *)
LEMMA ProcessPlaced ==
    ASSUME NEW p \in Pids, ProcessEvent(p) \/ SchedEvent(p)
    PROVE  Placing!World
<1>1. UNCHANGED <<treeVars, disk, loaded, tracked>>
  BY DEF ProcessEvent, SchedEvent, NoDaemonStep, daemonVars
<1>2. Placing!ProcessStep(p)
  BY DEF ProcessEvent, SchedEvent, Placing!ProcessStep, Spawn, Fork, Exit,
     Reidentify, Chrt, Alive, Placing!Spawn, Placing!Fork, Placing!Exit,
     Placing!Reidentify, Placing!Chrt, Placing!Alive
<1>3. QED  BY <1>1, <1>2 DEF Placing!World, treeVars, Placing!treeVars

LEMMA TreePlaced ==
    ASSUME \/ \E d \in Paths, u \in Users \cup {RootUser} : MkdirEvent(d, u)
           \/ \E d \in Paths : RmdirEvent(d)
           \/ \E p \in Pids, d \in Paths \cup {Root} : MoveEvent(p, d)
           \/ \E d \in Paths, u \in Users \cup {RootUser} : ChownEvent(d, u)
           \/ \E d \in Paths : EnableEvent(d)
    PROVE  Placing!World
<1>1. UNCHANGED <<disk, loaded, tracked>>
  BY DEF MkdirEvent, RmdirEvent, MoveEvent, ChownEvent, EnableEvent,
     NoDaemonStep, daemonVars
<1>2. Placing!TreeStep
  BY DEF MkdirEvent, RmdirEvent, MoveEvent, ChownEvent, EnableEvent,
     OtherMkdir, OtherRmdir, OtherMove, OtherChown, OtherEnable, CanEnable,
     MakeDirs, RemoveDir, Occupied, Members, HasChild, Alive, AcceptsMembers,
     procVars, Placing!TreeStep, Placing!OtherMkdir, Placing!OtherRmdir,
     Placing!OtherMove, Placing!OtherChown, Placing!OtherEnable,
     Placing!CanEnable, Placing!MakeDirs, Placing!RemoveDir,
     Placing!Occupied, Placing!Members, Placing!HasChild, Placing!Alive,
     Placing!AcceptsMembers, Placing!procVars
<1>3. QED  BY <1>1, <1>2 DEF Placing!World

LEMMA ConfigPlaced ==
    ASSUME NEW c \in Configs \cup {Invalid}, ConfigEvent(c)
    PROVE  Placing!World
BY DEF ConfigEvent, NoDaemonStep, daemonVars, procVars, treeVars,
       Placing!World, Placing!procVars, Placing!treeVars

-----------------------------------------------------------------------------
LEMMA DaemonPlaced ==
    ASSUME TypeInv, Bookkeeping, InHandPlanned, Daemon
    PROVE  Placing!Authority \/ UNCHANGED View
<1>1. CASE LoadOk
  BY <1>1, LoadPlaced DEF Placing!Authority
<1>2. CASE \E row \in rows : MatchRow(row)
  BY <1>2, MatchPlaced DEF Placing!Authority
<1>3. CASE Open
  BY <1>3, OpenPlaced DEF Placing!Authority
<1>4. CASE SetOwner
  BY <1>4, OwnerPlaced DEF Placing!Authority
<1>5. CASE Enable
  BY <1>5, EnablePlaced DEF Placing!Authority
<1>6. CASE Attach
  BY <1>6, AttachPlaced DEF Placing!Authority
<1>7. CASE ReapRmdir
  BY <1>7, ReapPlaced DEF Placing!Authority
<1>8. QED
  BY <1>1, <1>2, <1>3, <1>4, <1>5, <1>6, <1>7, QuietPlaced DEF Daemon

LEMMA EnvironmentPlaced ==
    ASSUME Environment
    PROVE  Placing!World \/ Placing!Die \/ UNCHANGED View
BY ProcessPlaced, TreePlaced, ConfigPlaced, CrashPlaced, QuietPlaced
   DEF Environment

LEMMA StepPlaced ==
    ASSUME TypeInv, Bookkeeping, InHandPlanned, [Next]_vars
    PROVE  [Placing!PlaceNext]_(Placing!placeVars)
<1>1. CASE Daemon
  BY <1>1, DaemonPlaced DEF View, Placing!PlaceNext
<1>2. CASE Environment
  BY <1>2, EnvironmentPlaced DEF View, Placing!PlaceNext, Placing!Authority
<1>3. CASE Exited \/ UNCHANGED vars
  BY <1>3, QuietPlaced DEF View
<1>4. QED  BY <1>1, <1>2, <1>3 DEF Next

(* DaemonImplementsPlacement: the daemon, with its passes, its stale rows  *)
(* and its half-done applications, does nothing an authority bound by the  *)
(* adopted configuration could not do, for any configurations, processes,  *)
(* paths and events.                                                       *)
THEOREM DaemonImplementsPlacement == Spec => PlacementImplemented
<1>1. Init => Placing!PlaceInit
  BY InitPlaced
<1>2. TypeInv /\ Bookkeeping /\ InHandPlanned /\ [Next]_vars
        => [Placing!PlaceNext]_(Placing!placeVars)
  BY StepPlaced
<1>3. QED
  BY <1>1, <1>2, TypeInvariant, BookkeepingInvariant, PlannedInvariant, PTL
  DEF Spec, PlacementImplemented, Placing!PlaceSpec
=============================================================================
