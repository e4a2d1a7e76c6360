-------------------------- MODULE PamSessionProofs --------------------------
(***************************************************************************)
(* Type correctness and safety of pam_cgroup, for any number of logins,    *)
(* any layouts and rules, any mix of events and any bound on them.         *)
(***************************************************************************)
EXTENDS PamSessionProperties, KernelProofs

USE PolicyAssumption, KernelAssumption, PamAssumption

PamInv == TypeOK /\ Courses

-----------------------------------------------------------------------------
(* What a place or a rule puts in hand.                                    *)

LEMMA PlacePathType ==
    ASSUME NEW raw \in Places, NEW u \in Users
    PROVE  ExpandPlace[raw, u] \in Paths \cup {Unsafe}
<1>1. ExpandPlace \in [Places \X Users -> Paths \cup {Unsafe}]
  BY DEF PamAssumption
<1>2. QED  BY ONLY <1>1

LEMMA PlaceTargetType ==
    ASSUME NEW s \in Sessions, layout[s] \in Layouts, Resolvable(s),
           NEW i \in DOMAIN layout[s].place
    PROVE  /\ PlaceTarget(s, i) \in Target
           /\ PlaceTarget(s, i).place = i /\ i # 0
           /\ PlaceTarget(s, i).path = PathOf(s, i)
           /\ PlaceTarget(s, i).owner \in Users \cup {RootUser}
           /\ PlaceTarget(s, i).controllers = layout[s].place[i].controllers
           /\ PlaceTarget(s, i).attach = layout[s].place[i].attach
           /\ PlaceTarget(s, i) # None
<1>1. layout[s].place \in Seq(Place) /\ i \in Nat /\ i # 0
  OBVIOUS
<1>2. layout[s].place[i] \in Place
  BY <1>1
<1>3. PathOf(s, i) \in Paths
  <2>1. layout[s].place[i].raw \in Places /\ PathOf(s, i) # Unsafe
    BY <1>2 DEF Resolvable, Place
  <2>2. ExpandPlace[layout[s].place[i].raw, UserOf[s]] \in Paths \cup {Unsafe}
    <3>1. UserOf[s] \in Users
      OBVIOUS
    <3>2. QED  BY <2>1, <3>1, PlacePathType
  <2>3. QED  BY <2>1, <2>2, Zenon DEF PathOf
<1>4. UserOf[s] \in Users
  OBVIOUS
<1>5. PlaceTarget(s, i) \in Target
  <2>1. layout[s].place[i].controllers \in BOOLEAN
        /\ layout[s].place[i].attach \in BOOLEAN
    BY <1>2 DEF Place
  <2>2. (IF layout[s].place[i].owner = "user" THEN UserOf[s] ELSE RootUser)
          \in Users \cup {RootUser, Keep}
    BY <1>4
  <2>3. QED  BY <1>1, <1>3, <2>1, <2>2, Zenon DEF PlaceTarget, Target
<1>6. /\ PlaceTarget(s, i).place = i
      /\ PlaceTarget(s, i).path = PathOf(s, i)
      /\ PlaceTarget(s, i).controllers = layout[s].place[i].controllers
      /\ PlaceTarget(s, i).attach = layout[s].place[i].attach
  BY DEF PlaceTarget
<1>7. PlaceTarget(s, i).owner \in Users \cup {RootUser}
  BY <1>4 DEF PlaceTarget
<1>8. QED  BY <1>1, <1>5, <1>6, <1>7

LEMMA RuleTargetType ==
    ASSUME KernelTypeOK, NEW s \in Sessions, Alive(s), rules \in Configs,
           ~ LeftAlone(s), HasLeaf(s)
    PROVE  /\ RuleTarget(s) \in Target
           /\ RuleTarget(s).place = 0 /\ RuleTarget(s).attach
           /\ RuleTarget(s) # None
<1> DEFINE id == Identity(s)
           plan == Plan(rules, id)
<1>1. HasRule(rules, id)
  BY DEF LeftAlone
<1>2. id.user \in Users /\ id.comm \in Names
  BY DEF Identity, Alive, KernelTypeOK, Process
<1> HIDE DEF id
<1>3. Dest(rules, id) \in Paths
  BY <1>1, <1>2, DestType DEF HasLeaf, id
<1>4. plan \in PlanRecords \cup {NoPlan}
  BY PlanType
<1>5. (plan # NoPlan /\ plan.controllers) \in BOOLEAN
  OBVIOUS
<1>6. RuleTarget(s) \in Target
  BY <1>3, <1>5 DEF RuleTarget, Target, id
<1>7. RuleTarget(s).place = 0 /\ RuleTarget(s).attach
  BY DEF RuleTarget
<1>8. QED  BY <1>6, <1>7

-----------------------------------------------------------------------------
(* A step that goes on to another place, or somewhere in open_session.     *)

LEMMA PamInit == Init => PamInv
<1> SUFFICES ASSUME Init PROVE PamInv
  OBVIOUS
<1> USE DEF Init
<1>1. KernelTypeOK
  BY DEF KernelTypeOK, Process
<1>2. TypeOK
  BY <1>1 DEF TypeOK, Locations
<1>3. Courses
  BY DEF Courses, Course, Alive
<1>4. QED  BY <1>2, <1>3 DEF PamInv

Stays(s, l) == UNCHANGED target /\ Goto(s, l)

(* The call failed: a closed session is refused.                           *)
GivesUp(s) ==
    \E l \in {"refused", "classify", "admitted"} :
        /\ Stays(s, l)
        /\ l # "refused" => ~ Closed(layout[s])
        /\ l = "classify" => target[s].place # 0

(* The call succeeded: on to the next place or, after the last, past them. *)
Proceeds(s) ==
    \/ Stays(s, "admitted") /\ target[s].place = 0
    \/ /\ Stays(s, "classify") \/ Stays(s, "admitted")
       /\ target[s].place # 0
       /\ target[s].place = Len(layout[s].place)
    \/ /\ target[s].place # 0
       /\ target[s].place + 1 \in DOMAIN layout[s].place
       /\ target' = [target EXCEPT
                       ![s] = PlaceTarget(s, target[s].place + 1)]
       /\ Goto(s, "walk")

LEMMA FailsShape ==
    ASSUME PamInv, NEW s \in Sessions, pc[s] \in InCall, StepFails(s)
    PROVE  GivesUp(s)
<1>1. target'= target
  BY DEF StepFails
<1>2. CASE target[s].place = 0
  <2>1. Goto(s, Verdict(layout[s]))
    BY <1>2 DEF StepFails
  <2>2. \/ Verdict(layout[s]) = "refused"
        \/ Verdict(layout[s]) = "admitted" /\ ~ Closed(layout[s])
    BY DEF Verdict
  <2>3. QED  BY <1>1, <2>1, <2>2 DEF GivesUp, Stays
<1>3. CASE target[s].place # 0
  <2>1. PlacesFail(s)
    BY <1>3 DEF StepFails
  <2>2. CASE Closed(layout[s])
    BY <1>1, <2>1, <2>2 DEF PlacesFail, GivesUp, Stays
  <2>3. CASE ~ Closed(layout[s])
    <3>1. Goto(s, "classify") \/ Goto(s, "admitted")
      BY <2>1, <2>3 DEF PlacesFail, AfterPlaces
    <3>2. QED  BY <1>1, <1>3, <2>3, <3>1 DEF GivesUp, Stays
  <2>4. QED  BY <2>2, <2>3
<1>4. QED  BY <1>2, <1>3

LEMMA InCallFacts ==
    ASSUME PamInv, NEW s \in Sessions, pc[s] \in InCall
    PROVE  /\ target[s] \in Target /\ target[s] # None
           /\ target[s].place \in Nat /\ target[s].path \in Paths
           /\ target[s].place # 0
                => /\ layout[s] \in Layouts
                   /\ target[s].place \in DOMAIN layout[s].place
                   /\ layout[s].place \in Seq(Place)
<1>1. target[s] \in Target /\ target[s] # None
  BY DEF PamInv, TypeOK, InCall
<1>2. target[s].place \in Nat /\ target[s].path \in Paths
  BY <1>1 DEF Target
<1>3. target[s].place # 0 => /\ layout[s] \in Layouts
                             /\ target[s].place \in DOMAIN layout[s].place
  BY <1>1 DEF PamInv, TypeOK
<1>4. QED  BY <1>1, <1>2, <1>3

LEMMA DoneShape ==
    ASSUME PamInv, NEW s \in Sessions, pc[s] \in InCall, StepDone(s)
    PROVE  Proceeds(s)
<1> DEFINE i == target[s].place
<1>1. i \in Nat
      /\ (i # 0 => layout[s].place \in Seq(Place)
                   /\ i \in DOMAIN layout[s].place)
  BY InCallFacts
<1>2. CASE i # 0 /\ i < Len(layout[s].place)
  <2>1. i + 1 \in DOMAIN layout[s].place
    BY <1>1, <1>2
  <2>2. QED  BY <1>2, <2>1 DEF StepDone, Proceeds
<1>3. CASE i = 0
  BY <1>3 DEF StepDone, Proceeds, Stays
<1>4. CASE i # 0 /\ ~ (i < Len(layout[s].place))
  <2>1. i = Len(layout[s].place)
    BY <1>1, <1>4
  <2>2. UNCHANGED target /\ Goto(s, AfterPlaces(s))
    BY <1>4 DEF StepDone
  <2>3. QED  BY <1>4, <2>1, <2>2 DEF AfterPlaces, Proceeds, Stays
<1>5. QED  BY <1>2, <1>3, <1>4

(* Where Cgroup::apply goes after one of its steps.                        *)
LEMMA OnwardShape ==
    ASSUME PamInv, NEW s \in Sessions, pc[s] \in InCall,
           NEW l \in {"own", "enable"}, Onward(s, l)
    PROVE  \/ l = "own" /\ target[s].controllers /\ Stays(s, "enable")
           \/ /\ l = "own" => ~ target[s].controllers
              /\ target[s].attach /\ Stays(s, "attach")
           \/ /\ l = "own" => ~ target[s].controllers
              /\ ~ target[s].attach /\ Proceeds(s)
BY DoneShape DEF Onward, Stays

-----------------------------------------------------------------------------
(* What another session's step leaves alone.                               *)

LEMMA PlacesKept ==
    ASSUME NEW b, layout'[b] = layout[b]
    PROVE  /\ Resolvable(b)' <=> Resolvable(b)
           /\ \A i : PathOf(b, i)' = PathOf(b, i)
           /\ \A i : PlaceTarget(b, i)' = PlaceTarget(b, i)
<1>1. \A i : PathOf(b, i)' = PathOf(b, i)
  BY Zenon DEF PathOf
<1>2. \A i : PlaceTarget(b, i)' = PlaceTarget(b, i)
  BY <1>1, Zenon DEF PlaceTarget
<1>3. Resolvable(b)' <=> Resolvable(b)
  BY <1>1, Zenon DEF Resolvable
<1>4. QED  BY <1>1, <1>2, <1>3

StillHeld(b) ==
    /\ pc'[b] = pc[b] /\ layout'[b] = layout[b] /\ target'[b] = target[b]
    /\ b \notin moved' => b \notin moved /\ cg'[b] = cg[b]

(* What TypeOK says of one session.                                        *)
HandTyped(b) ==
    /\ pc[b] \in InCall => target[b] # None
    /\ target[b] # None /\ target[b].place # 0
         => layout[b] # NoLayout /\ target[b].place \in DOMAIN layout[b].place

LEMMA KeptCourse ==
    ASSUME NEW b \in Sessions, Course(b), HandTyped(b), StillHeld(b),
           Alive(b) => Alive(b)'
    PROVE  Course(b)' /\ HandTyped(b)'
<1>1. /\ Resolvable(b)' <=> Resolvable(b)
      /\ \A i : PlaceTarget(b, i)' = PlaceTarget(b, i)
  BY PlacesKept DEF StillHeld
<1>2. HandTyped(b)'
  BY DEF HandTyped, StillHeld
<1>3. (target[b] # None /\ target[b].place # 0
         => Resolvable(b) /\ target[b] = PlaceTarget(b, target[b].place))'
  BY <1>1, Zenon DEF Course, StillHeld
<1>4. QED  BY <1>2, <1>3 DEF Course, StillHeld

(* The effect of a step of session s on everything but the tree's content. *)
Outcome(s) ==
    /\ KernelTypeOK'
    /\ proc' = proc
    /\ UNCHANGED <<diskVars, budget>>
    /\ moved' \in {moved, moved \ {s}}
    /\ \A b \in Sessions : b # s => cg'[b] = cg[b]
    /\ \E l \in Locations : Goto(s, l)
    /\ \E t \in Target \cup {None} : target' = [target EXCEPT ![s] = t]
    /\ \E y \in Layouts \cup {NoLayout} : layout' = [layout EXCEPT ![s] = y]
    /\ touched' \in [Sessions -> SUBSET Paths]
    /\ Course(s)' /\ HandTyped(s)'

LEMMA PamTyped ==
    ASSUME TypeOK, NEW b \in Sessions
    PROVE  HandTyped(b)
BY DEF TypeOK, HandTyped, InCall

LEMMA OutcomeKeeps ==
    ASSUME PamInv, NEW s \in Sessions, Outcome(s),
           NEW b \in Sessions, b # s
    PROVE  StillHeld(b)
BY DEF PamInv, TypeOK, Outcome, StillHeld, Goto

LEMMA OutcomeInv ==
    ASSUME PamInv, NEW s \in Sessions, Outcome(s)
    PROVE  PamInv'
<1>1. \A b \in Sessions : Course(b)' /\ HandTyped(b)'
  <2>1. ASSUME NEW b \in Sessions, b # s PROVE Course(b)' /\ HandTyped(b)'
    <3>1. StillHeld(b) /\ (Alive(b) => Alive(b)')
      BY <2>1, OutcomeKeeps DEF Outcome, Alive
    <3>2. Course(b) /\ HandTyped(b)
      BY PamTyped DEF PamInv, Courses
    <3>3. QED  BY <3>1, <3>2, KeptCourse
  <2>2. QED  BY <2>1 DEF Outcome
<1>2. /\ pc' \in [Sessions -> Locations]
      /\ layout' \in [Sessions -> Layouts \cup {NoLayout}]
      /\ target' \in [Sessions -> Target \cup {None}]
      /\ moved' \subseteq Sessions
  BY DEF PamInv, TypeOK, Outcome, Goto
<1>3. TypeOK'
  BY <1>1, <1>2 DEF PamInv, TypeOK, Outcome, diskVars, HandTyped, InCall
<1>4. QED  BY <1>1, <1>3 DEF PamInv, Courses

-----------------------------------------------------------------------------
(* The course of the session that steps.                                   *)

(* With nothing in hand, before and after.                                 *)
LEMMA IdleCourse ==
    ASSUME PamInv, NEW s \in Sessions, pc[s] # "gone",
           target[s] = None, target'[s] = None,
           UNCHANGED <<proc, cg, moved>>, pc'[s] \notin InCall,
           pc'[s] \in {"load", "reread"} => layout'[s] = NoLayout
    PROVE  Course(s)' /\ HandTyped(s)'
BY DEF PamInv, Courses, Course, HandTyped, InCall, Alive

(* With the same call in hand, before and after.                           *)
LEMMA SameHandCourse ==
    ASSUME PamInv, NEW s \in Sessions, pc[s] # "gone", target[s] # None,
           layout'[s] = layout[s], target'[s] = target[s], proc' = proc,
           pc'[s] \in InCall \cup {"classify", "admitted", "refused"},
           pc'[s] = "classify" => target[s].place # 0,
           pc'[s] = "enable" => target[s].controllers,
           pc'[s] = "attach" => target[s].attach
    PROVE  Course(s)' /\ HandTyped(s)'
<1>1. Course(s) /\ HandTyped(s)
  BY PamTyped DEF PamInv, Courses
<1>2. (target[s] # None /\ target[s].place # 0
         => Resolvable(s) /\ target[s] = PlaceTarget(s, target[s].place))'
  <2>1. /\ Resolvable(s)' <=> Resolvable(s)
        /\ \A i : PlaceTarget(s, i)' = PlaceTarget(s, i)
    BY PlacesKept
  <2>2. QED  BY <1>1, <2>1, Zenon DEF Course
<1>3. HandTyped(s)'
  BY <1>1 DEF HandTyped, InCall
<1>4. Alive(s)'
  BY <1>1 DEF Course, Alive
<1>5. QED  BY <1>1, <1>2, <1>3, <1>4 DEF Course, InCall

(* With a place taken in hand.                                             *)
LEMMA PlaceCourse ==
    ASSUME PamInv, NEW s \in Sessions, pc[s] # "gone",
           layout[s] \in Layouts, Resolvable(s),
           NEW i \in DOMAIN layout[s].place,
           layout'[s] = layout[s], target'[s] = PlaceTarget(s, i),
           proc' = proc, pc'[s] = "walk"
    PROVE  Course(s)' /\ HandTyped(s)'
<1>1. target'[s].place = i /\ i # 0 /\ target'[s] # None
  BY PlaceTargetType
<1>2. Alive(s)'
  BY DEF PamInv, Courses, Course, Alive
<1>3. Resolvable(s)' /\ PlaceTarget(s, i)' = PlaceTarget(s, i)
  BY PlacesKept
<1>4. HandTyped(s)'
  BY <1>1 DEF HandTyped, InCall
<1>5. (target[s] # None /\ target[s].place # 0
         => Resolvable(s) /\ target[s] = PlaceTarget(s, target[s].place))'
  <2>1. target'[s] = PlaceTarget(s, i)'
    BY <1>3
  <2>2. QED  BY <1>1, <1>3, <2>1, Zenon
<1>6. QED  BY <1>1, <1>2, <1>4, <1>5 DEF Course

LEMMA KernelKept ==
    ASSUME KernelTypeOK, UNCHANGED <<procVars, treeVars>>
    PROVE  KernelTypeOK'
BY DEF KernelTypeOK, procVars, treeVars

LEMMA LoadOutcome ==
    ASSUME PamInv, NEW s \in Sessions,
           LoadLayout(s) \/ RereadLayout(s) \/ OpenHierarchy(s)
    PROVE  Outcome(s)
<1>1. /\ UNCHANGED <<procVars, treeVars, diskVars, budget, moved, touched>>
      /\ UNCHANGED target
      /\ pc[s] \in {"load", "reread", "open"}
  BY DEF LoadLayout, RereadLayout, OpenHierarchy, Inside, NoHistory, At
<1>2. target[s] = None
  BY <1>1 DEF PamInv, Courses, Course
<1>3. \E l \in {"open", "reread", "lookup", "admitted", "refused"} :
          Goto(s, l)
  BY DEF LoadLayout, RereadLayout, OpenHierarchy, Verdict
<1>4. \E y \in Layouts \cup {NoLayout} : layout' = [layout EXCEPT ![s] = y]
  <2>1. layout = [layout EXCEPT ![s] = layout[s]]
        /\ layout[s] \in Layouts \cup {NoLayout}
    BY DEF PamInv, TypeOK
  <2>2. QED  BY <2>1 DEF LoadLayout, RereadLayout, OpenHierarchy
<1>5. target' = [target EXCEPT ![s] = None]
  BY <1>1, <1>2 DEF PamInv, TypeOK
<1>6. pc'[s] \notin InCall
  BY <1>3 DEF Goto, InCall, PamInv, TypeOK
<1>7. Course(s)' /\ HandTyped(s)'
  <2>1. pc'[s] # "load" /\ (pc'[s] = "reread" => layout'[s] = NoLayout)
    BY DEF LoadLayout, RereadLayout, OpenHierarchy, Goto, At, Verdict, PamInv,
       TypeOK, Courses, Course
  <2>2. QED  BY <1>1, <1>2, <1>6, <2>1, IdleCourse DEF procVars
<1>8. KernelTypeOK'
  BY <1>1, KernelKept DEF PamInv, TypeOK
<1>9. touched' \in [Sessions -> SUBSET Paths]
  BY <1>1 DEF PamInv, TypeOK
<1>10. \E l \in Locations : Goto(s, l)
  BY <1>3 DEF Locations
<1>11. \E t \in Target \cup {None} : target' = [target EXCEPT ![s] = t]
  BY <1>5
<1>12. /\ proc' = proc /\ cg' = cg
       /\ UNCHANGED <<diskVars, budget>> /\ moved' = moved
  BY <1>1 DEF procVars
<1>13. QED
  BY <1>4, <1>7, <1>8, <1>9, <1>10, <1>11, <1>12 DEF Outcome

(* Where Lookup goes without a place in hand.                              *)
LEMMA LookupMoves ==
    ASSUME PamInv, NEW s \in Sessions, Lookup(s), target[s] = None,
           UNCHANGED target
    PROVE  \E l \in {"refused", "classify", "admitted"} :
               Goto(s, l) /\ (l # "refused" => ~ Closed(layout[s]))
<1>1. ~ (layout[s] # NoLayout /\ Resolvable(s)
           /\ target' = [target EXCEPT ![s] = PlaceTarget(s, 1)])
  <2>1. ASSUME layout[s] # NoLayout, Resolvable(s),
               target' = [target EXCEPT ![s] = PlaceTarget(s, 1)]
        PROVE  FALSE
    <3>1. layout[s] \in Layouts /\ 1 \in DOMAIN layout[s].place
      BY <2>1 DEF PamInv, TypeOK
    <3>2. target'[s] = PlaceTarget(s, 1)
      BY <2>1 DEF PamInv, TypeOK
    <3>3. QED  BY <2>1, <3>1, <3>2, PlaceTargetType
  <2>2. QED  BY <2>1
<1>2. CASE Goto(s, Verdict(layout[s]))
  BY <1>2 DEF Verdict
<1>3. CASE layout[s] = NoLayout /\ Goto(s, AfterPlaces(s))
  BY <1>3 DEF AfterPlaces, Closed
<1>4. CASE PlacesFail(s)
  BY <1>4 DEF PlacesFail, AfterPlaces
<1>5. QED  BY <1>1, <1>2, <1>3, <1>4 DEF Lookup

LEMMA LookupOutcome ==
    ASSUME PamInv, NEW s \in Sessions, Lookup(s)
    PROVE  Outcome(s)
<1>1. /\ UNCHANGED <<procVars, treeVars, diskVars, budget, moved, layout>>
      /\ pc[s] = "lookup" /\ target[s] = None
  BY DEF Lookup, Inside, At, PamInv, Courses, Course
<1>2. KernelTypeOK'
  BY <1>1, KernelKept DEF PamInv, TypeOK
<1>3. layout[s] \in Layouts \cup {NoLayout}
      /\ layout' = [layout EXCEPT ![s] = layout[s]]
  BY <1>1 DEF PamInv, TypeOK
<1>4. touched' \in [Sessions -> SUBSET Paths]
  BY DEF Lookup, PamInv, TypeOK
<1>5. CASE UNCHANGED target
  <2>1. \E l \in {"refused", "classify", "admitted"} : Goto(s, l)
    BY <1>1, <1>5, LookupMoves
  <2>2. pc'[s] \notin InCall \cup {"load", "reread"}
    BY <2>1 DEF Goto, InCall, PamInv, TypeOK
  <2>3. target' = [target EXCEPT ![s] = None] /\ target'[s] = None
    BY <1>1, <1>5 DEF PamInv, TypeOK
  <2>4. Course(s)' /\ HandTyped(s)'
    BY <1>1, <2>2, <2>3, IdleCourse DEF procVars
  <2>5. QED
    BY <1>1, <1>2, <1>3, <1>4, <2>1, <2>3, <2>4, ZenonT(25)
    DEF Outcome, Locations, procVars
<1>6. CASE ~ UNCHANGED target
  <2>1. /\ layout[s] # NoLayout /\ Resolvable(s) /\ Goto(s, "walk")
        /\ target' = [target EXCEPT ![s] = PlaceTarget(s, 1)]
    BY <1>6 DEF Lookup
  <2>2. layout[s] \in Layouts /\ layout[s].place \in Seq(Place) \ {<<>>}
    BY <1>3, <2>1
  <2>3. 1 \in DOMAIN layout[s].place
    BY <2>2
  <2>4. PlaceTarget(s, 1) \in Target
    BY <2>1, <2>2, <2>3, PlaceTargetType
  <2>5. target'[s] = PlaceTarget(s, 1) /\ pc'[s] = "walk"
    BY <2>1 DEF PamInv, TypeOK, Goto
  <2>6. Course(s)' /\ HandTyped(s)'
    BY <1>1, <2>1, <2>2, <2>3, <2>5, PlaceCourse DEF procVars
  <2>7. QED
    BY <1>1, <1>2, <1>3, <1>4, <2>1, <2>4, <2>6
    DEF Outcome, Locations, procVars
<1>7. QED  BY <1>5, <1>6

LEMMA ClassifyOutcome ==
    ASSUME PamInv, NEW s \in Sessions, Classify(s)
    PROVE  Outcome(s)
<1>1. /\ UNCHANGED <<procVars, treeVars, diskVars, budget, moved, touched,
                     layout>>
      /\ pc[s] = "classify"
  BY DEF Classify, Inside, NoHistory, At
<1>2. KernelTypeOK'
  BY <1>1, KernelKept DEF PamInv, TypeOK
<1>3. layout[s] \in Layouts \cup {NoLayout}
      /\ layout' = [layout EXCEPT ![s] = layout[s]]
  BY <1>1 DEF PamInv, TypeOK
<1>4. touched' \in [Sessions -> SUBSET Paths]
  BY <1>1 DEF PamInv, TypeOK
<1>5. ASSUME UNCHANGED target, NEW l \in {"refused", "admitted"}, Goto(s, l)
      PROVE  Outcome(s)
  <2>1. pc'[s] = l
    BY <1>5 DEF Goto, PamInv, TypeOK
  <2>2. target[s] \in Target \cup {None}
        /\ target' = [target EXCEPT ![s] = target[s]]
    BY <1>5 DEF PamInv, TypeOK
  <2>3. Course(s)' /\ HandTyped(s)'
    <3>1. CASE target[s] = None
      BY <1>1, <1>5, <2>1, <3>1, IdleCourse DEF procVars, InCall
    <3>2. CASE target[s] # None
      BY <1>1, <1>5, <2>1, <3>2, SameHandCourse DEF procVars
    <3>3. QED  BY <3>1, <3>2
  <2>4. l \in Locations
    BY DEF Locations
  <2>5. QED
    BY <1>1, <1>2, <1>3, <1>4, <1>5, <2>2, <2>3, <2>4 DEF Outcome, procVars
<1>6. CASE /\ rules # Invalid /\ ~ LeftAlone(s) /\ HasLeaf(s)
           /\ target' = [target EXCEPT ![s] = RuleTarget(s)]
           /\ Goto(s, "walk")
  <2>1. rules \in Configs /\ Alive(s) /\ KernelTypeOK
    BY <1>1, <1>6 DEF PamInv, TypeOK, Courses, Course
  <2>2. /\ RuleTarget(s) \in Target /\ RuleTarget(s).place = 0
        /\ RuleTarget(s).attach /\ RuleTarget(s) # None
    BY <1>6, <2>1, RuleTargetType
  <2>3. target'[s] = RuleTarget(s) /\ pc'[s] = "walk" /\ Alive(s)'
    BY <1>1, <1>6, <2>1 DEF PamInv, TypeOK, Goto, Alive, procVars
  <2>4. Course(s)' /\ HandTyped(s)'
    BY <2>2, <2>3 DEF Course, HandTyped, InCall
  <2>5. "walk" \in Locations
    BY DEF Locations
  <2>6. QED
    BY <1>1, <1>2, <1>3, <1>4, <1>6, <2>2, <2>4, <2>5 DEF Outcome, procVars
<1>7. CASE UNCHANGED target
           /\ (Goto(s, Verdict(layout[s])) \/ Goto(s, "admitted"))
  BY <1>5, <1>7 DEF Verdict
<1>8. QED  BY <1>6, <1>7 DEF Classify

(* How a cgfs call goes on.                                                *)
Calls(s) ==
    \/ pc[s] = "walk" /\ Stays(s, "own")
    \/ pc[s] = "own" /\ target[s].controllers /\ Stays(s, "enable")
    \/ target[s].attach /\ Stays(s, "attach")
    \/ GivesUp(s)
    \/ Proceeds(s)

LEMMA CallOutcome ==
    ASSUME PamInv, NEW s \in Sessions, pc[s] \in InCall, Calls(s),
           UNCHANGED <<proc, layout, diskVars, budget>>, KernelTypeOK',
           moved' \in {moved, moved \ {s}},
           \A b \in Sessions : b # s => cg'[b] = cg[b],
           touched' \in [Sessions -> SUBSET Paths]
    PROVE  Outcome(s)
<1>1. /\ target[s] \in Target /\ target[s] # None /\ pc[s] # "gone"
      /\ target[s].place # 0
           => layout[s] \in Layouts /\ layout[s].place \in Seq(Place)
  BY InCallFacts DEF InCall
<1>2. layout[s] \in Layouts \cup {NoLayout}
      /\ layout' = [layout EXCEPT ![s] = layout[s]]
  BY DEF PamInv, TypeOK
<1>3. ASSUME NEW l \in {"own", "enable", "attach", "classify", "admitted",
                        "refused"},
             Stays(s, l), l = "classify" => target[s].place # 0,
             l = "enable" => target[s].controllers,
             l = "attach" => target[s].attach
      PROVE  Outcome(s)
  <2>1. target' = [target EXCEPT ![s] = target[s]] /\ target' = target
        /\ Goto(s, l) /\ pc'[s] = l
    BY <1>3 DEF Stays, Goto, PamInv, TypeOK
  <2>2. Course(s)' /\ HandTyped(s)'
    BY <1>1, <1>3, <2>1, SameHandCourse DEF InCall
  <2>3. l \in Locations
    BY DEF Locations
  <2>4. QED  BY <1>1, <1>2, <2>1, <2>2, <2>3 DEF Outcome
<1>4. CASE /\ target[s].place # 0
           /\ target[s].place + 1 \in DOMAIN layout[s].place
           /\ target' = [target EXCEPT
                           ![s] = PlaceTarget(s, target[s].place + 1)]
           /\ Goto(s, "walk")
  <2> DEFINE i == target[s].place + 1
  <2>1. layout[s] \in Layouts /\ Resolvable(s) /\ i \in DOMAIN layout[s].place
    BY <1>1, <1>4 DEF PamInv, Courses, Course
  <2>2. PlaceTarget(s, i) \in Target
    BY <2>1, PlaceTargetType
  <2>3. target'[s] = PlaceTarget(s, i) /\ pc'[s] = "walk"
    BY <1>4 DEF PamInv, TypeOK, Goto
  <2>4. Course(s)' /\ HandTyped(s)'
    <3> HIDE DEF i
    <3>1. QED  BY <1>1, <2>1, <2>3, PlaceCourse
  <2>5. "walk" \in Locations
    BY DEF Locations
  <2>6. QED  BY <1>2, <1>4, <2>2, <2>4, <2>5 DEF Outcome
<1>5. QED  BY <1>3, <1>4 DEF Calls, GivesUp, Proceeds

LEMMA WalkOutcome ==
    ASSUME PamInv, NEW s \in Sessions, Walk(s)
    PROVE  Calls(s) /\ Outcome(s)
<1>1. /\ pc[s] = "walk" /\ pc[s] \in InCall
      /\ MakeDirs(target[s].path, RootUser) /\ Stays(s, "own")
      /\ UNCHANGED <<procVars, layout, diskVars, budget, moved, touched>>
  BY DEF Walk, At, InCall, MakeDirs, NoHistory, Stays
<1>2. target[s].path \in Paths
  BY <1>1, InCallFacts
<1>3. KernelTypeOK'
  BY <1>1, <1>2, MakeDirsType DEF PamInv, TypeOK
<1>4. touched' \in [Sessions -> SUBSET Paths]
  BY <1>1 DEF PamInv, TypeOK
<1>5. Calls(s)
  BY <1>1 DEF Calls
<1>6. QED  BY <1>1, <1>3, <1>4, <1>5, CallOutcome DEF procVars

LEMMA OwnOutcome ==
    ASSUME PamInv, NEW s \in Sessions, Own(s)
    PROVE  Calls(s) /\ Outcome(s)
<1>1. /\ pc[s] = "own" /\ pc[s] \in InCall
      /\ UNCHANGED <<procVars, dirs, subtree, layout, diskVars, budget, moved>>
  BY DEF Own, At, InCall
<1>2. target[s] \in Target /\ target[s].path \in Paths
      /\ target[s].owner \in Users \cup {RootUser, Keep}
  BY <1>1, InCallFacts DEF Target
<1>3. owner' \in [Paths -> Users \cup {RootUser}]
  <2>1. \/ owner' = owner
        \/ /\ target[s].owner # Keep
           /\ owner' = [owner EXCEPT ![target[s].path] = target[s].owner]
    BY DEF Own
  <2>2. owner \in [Paths -> Users \cup {RootUser}]
    BY DEF PamInv, TypeOK, KernelTypeOK
  <2>3. QED  BY <1>2, <2>1, <2>2
<1>4. KernelTypeOK'
  BY <1>1, <1>3 DEF PamInv, TypeOK, KernelTypeOK, procVars
<1>5. touched' \in [Sessions -> SUBSET Paths]
  BY DEF Own, Touching, PamInv, TypeOK
<1>6. Calls(s)
  <2>1. CASE StepFails(s)
    BY <1>1, <2>1, FailsShape DEF Calls
  <2>2. CASE Onward(s, "own")
    BY <1>1, <2>2, OnwardShape DEF Calls
  <2>3. QED  BY <2>1, <2>2 DEF Own
<1>7. QED  BY <1>1, <1>4, <1>5, <1>6, CallOutcome DEF procVars

LEMMA EnableOutcome ==
    ASSUME PamInv, NEW s \in Sessions, Enable(s)
    PROVE  Calls(s) /\ Outcome(s)
<1>1. /\ pc[s] = "enable" /\ pc[s] \in InCall
      /\ UNCHANGED <<procVars, dirs, owner, layout, diskVars, budget, moved,
                     touched>>
  BY DEF Enable, At, InCall, NoHistory
<1>2. \/ subtree' = subtree
      \/ subtree' = subtree \cup {target[s].path} /\ target[s].path \in dirs
  BY DEF Enable, CanEnable
<1>3. KernelTypeOK'
  BY <1>1, <1>2 DEF PamInv, TypeOK, KernelTypeOK, procVars
<1>4. touched' \in [Sessions -> SUBSET Paths]
  BY <1>1 DEF PamInv, TypeOK
<1>5. Calls(s)
  <2>1. CASE StepFails(s)
    BY <1>1, <2>1, FailsShape DEF Calls
  <2>2. CASE Onward(s, "enable")
    BY <1>1, <2>2, OnwardShape DEF Calls
  <2>3. QED  BY <2>1, <2>2 DEF Enable
<1>6. QED  BY <1>1, <1>3, <1>4, <1>5, CallOutcome DEF procVars

LEMMA AttachOutcome ==
    ASSUME PamInv, NEW s \in Sessions, AttachSelf(s)
    PROVE  Calls(s) /\ Outcome(s)
<1>1. /\ pc[s] = "attach" /\ pc[s] \in InCall
      /\ UNCHANGED <<proc, rt, clock, treeVars, layout, diskVars, budget,
                     touched>>
      /\ moved' \in {moved, moved \ {s}}
      /\ cg' \in {cg, [cg EXCEPT ![s] = target[s].path]}
  BY DEF AttachSelf, At, InCall
<1>2. target[s].path \in Paths /\ s \in Pids
  BY <1>1, InCallFacts
<1>3. KernelTypeOK'
  BY <1>1, <1>2 DEF PamInv, TypeOK, KernelTypeOK, treeVars
<1>4. touched' \in [Sessions -> SUBSET Paths]
  BY <1>1 DEF PamInv, TypeOK
<1>5. Calls(s)
  <2>1. CASE StepFails(s)
    BY <1>1, <2>1, FailsShape DEF Calls
  <2>2. CASE StepDone(s)
    BY <1>1, <2>2, DoneShape DEF Calls
  <2>3. QED  BY <2>1, <2>2 DEF AttachSelf
<1>6. \A b \in Sessions : b # s => cg'[b] = cg[b]
  BY <1>1 DEF PamInv, TypeOK, KernelTypeOK
<1>7. QED  BY <1>1, <1>3, <1>4, <1>5, <1>6, CallOutcome

LEMMA StepOutcome ==
    ASSUME PamInv, NEW s \in Sessions, Step(s)
    PROVE  Outcome(s)
BY LoadOutcome, LookupOutcome, ClassifyOutcome, WalkOutcome, OwnOutcome,
   EnableOutcome, AttachOutcome DEF Step

-----------------------------------------------------------------------------
(* What happens around the logins.                                         *)

LEMMA KeptInv ==
    ASSUME PamInv, KernelTypeOK', \A b \in Sessions : StillHeld(b), proc' = proc,
           UNCHANGED sessionVars,
           toml' \in Layouts \cup {Invalid, Missing},
           rules' \in Configs \cup {Invalid}, mounted' \in BOOLEAN,
           budget' \in 0..MaxEvents, moved' \subseteq Sessions,
           touched' \in [Sessions -> SUBSET Paths]
    PROVE  PamInv'
<1>1. \A b \in Sessions : Course(b)' /\ HandTyped(b)'
  BY PamTyped, KeptCourse DEF PamInv, Courses, Alive
<1>2. TypeOK'
  BY <1>1 DEF PamInv, TypeOK, HandTyped, InCall, sessionVars
<1>3. QED  BY <1>1, <1>2 DEF PamInv, Courses

LEMMA ExitInv ==
    ASSUME PamInv, NEW s \in Sessions, ExitEvent(s)
    PROVE  PamInv'
<1>1. /\ UNCHANGED <<treeVars, diskVars, layout, target, moved, touched>>
      /\ Exit(s) /\ pc' = [pc EXCEPT ![s] = "gone"]
      /\ budget > 0 /\ budget' = budget - 1
  BY DEF ExitEvent, Event, NoHistory, Goto
<1>2. KernelTypeOK'
  BY <1>1, ProcessType DEF PamInv, TypeOK
<1>3. cg'[s] = Root /\ pc'[s] = "gone"
  BY <1>1 DEF Exit, PamInv, TypeOK, KernelTypeOK
<1>4. \A b \in Sessions : Course(b)' /\ HandTyped(b)'
  <2>1. ASSUME NEW b \in Sessions, b # s PROVE Course(b)' /\ HandTyped(b)'
    <3>1. StillHeld(b) /\ (Alive(b) => Alive(b)')
      BY <1>1, <2>1 DEF StillHeld, Exit, Alive, PamInv, TypeOK, KernelTypeOK
    <3>2. QED  BY <3>1, PamTyped, KeptCourse DEF PamInv, Courses
  <2>2. Course(s)' /\ HandTyped(s)'
    <3>1. Course(s) /\ HandTyped(s)
      BY PamTyped DEF PamInv, Courses
    <3>2. /\ Resolvable(s)' <=> Resolvable(s)
          /\ \A i : PlaceTarget(s, i)' = PlaceTarget(s, i)
      BY <1>1, PlacesKept
    <3>3. (target[s] # None /\ target[s].place # 0
             => Resolvable(s) /\ target[s] = PlaceTarget(s, target[s].place))'
      BY <1>1, <3>1, <3>2, Zenon DEF Course
    <3>4. HandTyped(s)'
      BY <1>1, <1>3, <3>1 DEF HandTyped, InCall
    <3>5. QED  BY <1>1, <1>3, <3>1, <3>3, <3>4 DEF Course
  <2>3. QED  BY <2>1, <2>2
<1>5. TypeOK'
  <2>1. pc' \in [Sessions -> Locations] /\ budget' \in 0..MaxEvents
    BY <1>1 DEF PamInv, TypeOK, Locations
  <2>2. QED  BY <1>1, <1>2, <1>4, <2>1 DEF PamInv, TypeOK, HandTyped, InCall,
                diskVars
<1>6. QED  BY <1>4, <1>5 DEF PamInv, Courses

LEMMA EnvironmentInv ==
    ASSUME PamInv, Environment PROVE PamInv'
<1>1. CASE \/ \E l \in Layouts \cup {Invalid, Missing} : EditLayout(l)
           \/ \E c \in Configs \cup {Invalid} : EditRules(c)
           \/ Unmount
  <2>1. /\ UNCHANGED <<procVars, treeVars, sessionVars, moved, touched>>
        /\ budget' \in 0..MaxEvents
        /\ toml' \in Layouts \cup {Invalid, Missing}
        /\ rules' \in Configs \cup {Invalid} /\ mounted' \in BOOLEAN
    <3>1. mounted' \in BOOLEAN
      BY <1>1, Zenon DEF EditLayout, EditRules, Unmount, PamInv, TypeOK
    <3>2. budget' \in 0..MaxEvents
      BY <1>1 DEF EditLayout, EditRules, Unmount, Event, PamInv, TypeOK
    <3>3. QED
      BY <1>1, <3>1, <3>2
      DEF EditLayout, EditRules, Unmount, NoHistory, PamInv, TypeOK
  <2>2. KernelTypeOK'
    BY <2>1, KernelKept DEF PamInv, TypeOK
  <2>3. \A b \in Sessions : StillHeld(b)
    BY <2>1 DEF StillHeld, procVars, sessionVars
  <2>4. QED  BY <2>1, <2>2, <2>3, KeptInv DEF PamInv, TypeOK, procVars
<1>2. CASE \E d \in Paths : RmdirEvent(d)
  <2>1. PICK d \in Paths : RmdirEvent(d)
    BY <1>2
  <2>2. /\ UNCHANGED <<procVars, diskVars, sessionVars, moved>>
        /\ budget' \in 0..MaxEvents
        /\ touched' \in [Sessions -> SUBSET Paths]
        /\ OtherRmdir(d)
    BY <2>1 DEF RmdirEvent, OtherRmdir, Event, PamInv, TypeOK
  <2>3. KernelTypeOK'
    BY <2>2, RemoveDirType DEF OtherRmdir, PamInv, TypeOK
  <2>4. \A b \in Sessions : StillHeld(b)
    BY <2>2 DEF StillHeld, procVars, sessionVars
  <2>5. QED
    BY <2>2, <2>3, <2>4, KeptInv DEF PamInv, TypeOK, procVars, diskVars
<1>3. CASE \E s \in Sessions, d \in Paths \cup {Root} : MoveEvent(s, d)
  <2>1. PICK s \in Sessions, d \in Paths \cup {Root} : MoveEvent(s, d)
    BY <1>3
  <2>2. /\ UNCHANGED <<proc, rt, clock, treeVars, diskVars, sessionVars,
                       touched>>
        /\ budget' \in 0..MaxEvents
        /\ moved' = moved \cup {s}
        /\ cg' = [cg EXCEPT ![s] = d]
    BY <2>1 DEF MoveEvent, OtherMove, Event, PamInv, TypeOK, treeVars
  <2>3. KernelTypeOK'
    BY <2>2 DEF PamInv, TypeOK, KernelTypeOK, treeVars
  <2>4. \A b \in Sessions : StillHeld(b)
    BY <2>2 DEF StillHeld, sessionVars, PamInv, TypeOK, KernelTypeOK
  <2>5. QED  BY <2>2, <2>3, <2>4, KeptInv DEF PamInv, TypeOK, diskVars
<1>4. QED  BY <1>1, <1>2, <1>3, ExitInv DEF Environment

LEMMA PamStep == PamInv /\ [Next]_vars => PamInv'
<1> SUFFICES ASSUME PamInv, [Next]_vars PROVE PamInv'
  OBVIOUS
<1>1. CASE \E s \in Sessions : Step(s)
  BY <1>1, StepOutcome, OutcomeInv
<1>2. CASE Environment
  BY <1>2, EnvironmentInv
<1>3. CASE Done \/ UNCHANGED vars
  <2>1. UNCHANGED <<procVars, treeVars, diskVars, sessionVars, budget, moved,
                    touched>>
    BY <1>3 DEF Done, vars
  <2>2. KernelTypeOK'
    BY <2>1, KernelKept DEF PamInv, TypeOK
  <2>3. \A b \in Sessions : StillHeld(b)
    BY <2>1 DEF StillHeld, procVars, sessionVars
  <2>4. QED
    BY <2>1, <2>2, <2>3, KeptInv DEF PamInv, TypeOK, procVars, diskVars
<1>4. QED  BY <1>1, <1>2, <1>3 DEF Next

LEMMA PamInvariant == Spec => []PamInv
<1>1. QED  BY PamInit, PamStep, PTL DEF Spec

(* SessionsTyped: every variable keeps its type, and no session has a cgfs *)
(* call in hand without the target and the layout it belongs to.           *)
THEOREM SessionsTyped == Spec => []TypeOK
<1>1. PamInv => TypeOK
  BY DEF PamInv
<1>2. QED  BY <1>1, PamInvariant, PTL

(* BadLayoutHarmless: for any layouts and any number of logins at once, a  *)
(* place that does not resolve keeps every place of its layout from moving *)
(* the login, the ones before it included.                                 *)
THEOREM BadLayoutHarmless == Spec => []BadLayoutMovesNobody
<1>1. ASSUME PamInv, NEW s \in Sessions \ moved,
             layout[s] # NoLayout, Unusable(s),
             target[s] = None \/ target[s].place # 0
      PROVE  cg[s] = Root
  <2>1. ~ Resolvable(s)
    BY <1>1, Zenon DEF Unusable, Resolvable
  <2>2. QED  BY <1>1, <2>1 DEF PamInv, Courses, Course
<1>2. PamInv => BadLayoutMovesNobody
  BY <1>1 DEF BadLayoutMovesNobody
<1>3. QED  BY <1>2, PamInvariant, PTL

-----------------------------------------------------------------------------
(* The places of a closed session are delivered in turn.  First, what      *)
(* somebody else's step leaves standing.                                   *)

TreeKept(b) ==
    /\ touched[b] \subseteq touched'[b]
    /\ \A d \in dirs : d \notin touched'[b]
         => /\ d \in dirs' /\ owner'[d] = owner[d]
            /\ d \in subtree => d \in subtree'

LEMMA DeliveredKept ==
    ASSUME NEW b \in Sessions, layout'[b] = layout[b], TreeKept(b), NEW i,
           Delivered(b, i), PlaceTarget(b, i).path \notin touched'[b]
    PROVE  Delivered(b, i)'
<1>1. PlaceTarget(b, i)' = PlaceTarget(b, i)
  BY PlacesKept
<1> DEFINE t == PlaceTarget(b, i)
<1>3. t.path \in dirs /\ owner[t.path] = t.owner
      /\ (t.controllers => t.path \in subtree)
  BY DEF Delivered
<1> HIDE DEF t
<1>4. t.path \in dirs' /\ owner'[t.path] = t.owner
      /\ (t.controllers => t.path \in subtree')
  BY <1>3 DEF TreeKept, t
<1>5. QED  BY <1>1, <1>4, Zenon DEF Delivered, t

LEMMA SettlesKept ==
    ASSUME NEW b, layout'[b] = layout[b], target'[b] = target[b], NEW i
    PROVE  Settles(b, i)' <=> Settles(b, i)
<1>1. \A j : PathOf(b, j)' = PathOf(b, j)
  BY PlacesKept
<1>2. QED  BY <1>1 DEF Settles

LEMMA TurnKept ==
    ASSUME PamInv, NEW b \in Sessions, Turn(b), StillHeld(b), TreeKept(b)
    PROVE  Turn(b)'
<1> SUFFICES ASSUME UnderClosed(b)'
             PROVE  InTurn(b)' /\ StandsInTurn(b)' /\ DeliversInTurn(b)'
  BY DEF Turn
<1>1. UnderClosed(b)
  BY DEF UnderClosed, StillHeld
<1>2. InTurn(b) /\ StandsInTurn(b) /\ DeliversInTurn(b)
  BY <1>1 DEF Turn
<1>3. layout'[b] = layout[b] /\ target'[b] = target[b] /\ pc'[b] = pc[b]
  BY DEF StillHeld
<1>4. /\ \A i : PathOf(b, i)' = PathOf(b, i)
      /\ \A i : PlaceTarget(b, i)' = PlaceTarget(b, i)
      /\ \A i : Settles(b, i)' <=> Settles(b, i)
  BY <1>3, PlacesKept, SettlesKept
<1>5. Reached(b)' = Reached(b)
  BY <1>3 DEF Reached
<1>6. InTurn(b)'
  BY <1>2, <1>3 DEF InTurn
<1>7. StandsInTurn(b)'
  <2>1. CASE b \in moved'
    BY <2>1 DEF StandsInTurn
  <2>2. CASE b \notin moved'
    <3>1. b \notin moved /\ cg'[b] = cg[b]
      BY <2>2 DEF StillHeld
    <3>2. QED
      BY <1>2, <1>3, <1>4, <1>5, <3>1 DEF StandsInTurn, StandsAt
  <2>3. QED  BY <2>1, <2>2
<1>8. ASSUME NEW i \in Reached(b), PathOf(b, i) \notin touched'[b],
             Settles(b, i)
      PROVE  Delivered(b, i)'
  <2>1. PathOf(b, i) \notin touched[b]
    BY <1>8 DEF TreeKept
  <2>2. Delivered(b, i)
    BY <1>2, <1>8, <2>1 DEF DeliversInTurn
  <2>3. PlaceTarget(b, i).path = PathOf(b, i)
    BY Zenon DEF PlaceTarget
  <2>4. QED  BY <1>3, <1>8, <2>2, <2>3, DeliveredKept
<1>9. (LET t == target[b]
       IN  pc[b] \in {"enable", "attach"} /\ t.place # 0
             /\ t.path \notin touched[b]
           => /\ t.path \in dirs /\ owner[t.path] = t.owner
              /\ pc[b] = "attach" /\ t.controllers => t.path \in subtree)'
  BY <1>2, <1>3 DEF DeliversInTurn, TreeKept
<1>10. DeliversInTurn(b)'
  BY <1>4, <1>5, <1>8, <1>9 DEF DeliversInTurn
<1>11. QED  BY <1>6, <1>7, <1>10

-----------------------------------------------------------------------------
(* The turn of the session that steps.                                     *)

(* The step undoes nothing of what the session is through with.            *)
OwnKept(s) ==
    /\ touched'[s] = touched[s]
    /\ \A i \in Reached(s) :
          PathOf(s, i) \notin touched[s] /\ Settles(s, i) /\ Delivered(s, i)
            => Delivered(s, i)'

NotMoved(s) == s \notin moved' => s \notin moved /\ cg'[s] = cg[s]

LEMMA GiveUpTurn ==
    ASSUME PamInv, NEW s \in Sessions, GivesUp(s), layout' = layout
    PROVE  Turn(s)'
<1>1. PICK l \in {"refused", "classify", "admitted"} :
          Stays(s, l) /\ (l # "refused" => ~ Closed(layout[s]))
  BY DEF GivesUp
<1>2. pc'[s] = l
  BY <1>1 DEF Stays, Goto, PamInv, TypeOK
<1>3. ~ UnderClosed(s)'
  BY <1>1, <1>2 DEF UnderClosed, InCall
<1>4. QED  BY <1>3 DEF Turn

LEMMA StayTurn ==
    ASSUME PamInv, NEW s \in Sessions, pc[s] \in InCall, Turn(s),
           NEW l \in {"own", "enable", "attach"}, Stays(s, l),
           layout' = layout, NotMoved(s), OwnKept(s),
           /\ l \in {"enable", "attach"} /\ UnderClosed(s)
           /\ target[s].place # 0 /\ target[s].path \notin touched[s]
           => /\ target[s].path \in dirs'
              /\ owner'[target[s].path] = target[s].owner
              /\ l = "attach" /\ target[s].controllers
                   => target[s].path \in subtree'
    PROVE  Turn(s)'
<1> SUFFICES ASSUME UnderClosed(s)'
             PROVE  InTurn(s)' /\ StandsInTurn(s)' /\ DeliversInTurn(s)'
  BY DEF Turn
<1>1. target' = target /\ pc'[s] = l
  BY DEF Stays, Goto, PamInv, TypeOK
<1>2. UnderClosed(s)
  BY DEF UnderClosed
<1>3. InTurn(s) /\ StandsInTurn(s) /\ DeliversInTurn(s)
  BY <1>2 DEF Turn
<1>4. /\ \A i : PathOf(s, i)' = PathOf(s, i)
      /\ \A i : PlaceTarget(s, i)' = PlaceTarget(s, i)
      /\ \A i : Settles(s, i)' <=> Settles(s, i)
  BY <1>1, PlacesKept, SettlesKept
<1>5. Reached(s)' = Reached(s)
  BY <1>1 DEF Reached, InCall
<1>6. InTurn(s)'
  BY <1>1 DEF InTurn
<1>7. StandsInTurn(s)'
  BY <1>1, <1>3, <1>4, <1>5 DEF StandsInTurn, StandsAt, NotMoved
<1>8. \A i \in Reached(s) :
          PathOf(s, i) \notin touched[s] /\ Settles(s, i) => Delivered(s, i)'
  BY <1>3 DEF DeliversInTurn, OwnKept
<1>9. (LET t == target[s]
       IN  pc[s] \in {"enable", "attach"} /\ t.place # 0
             /\ t.path \notin touched[s]
           => /\ t.path \in dirs /\ owner[t.path] = t.owner
              /\ pc[s] = "attach" /\ t.controllers => t.path \in subtree)'
  BY <1>1, <1>2 DEF OwnKept
<1>10. DeliversInTurn(s)'
  BY <1>1, <1>4, <1>5, <1>8, <1>9 DEF DeliversInTurn, OwnKept
<1>11. QED  BY <1>6, <1>7, <1>10

(* One more place: where the login stands after it.                        *)
LEMMA StandsOneMore ==
    ASSUME NEW s \in Sessions, layout' = layout, NEW i \in Nat, i # 0,
           target[s] = PlaceTarget(s, i),
           s \notin moved => StandsAt(s, 1..(i - 1)),
           IF target[s].attach THEN s \notin moved' => cg'[s] = target[s].path
                               ELSE NotMoved(s)
    PROVE  s \notin moved' => StandsAt(s, 1..i)'
<1>1. /\ target[s].attach = layout[s].place[i].attach
      /\ target[s].path = PathOf(s, i)
  BY DEF PlaceTarget
<1>2. \A j : PathOf(s, j)' = PathOf(s, j)
  BY PlacesKept
<1>3. \A j \in 1..i : j = i \/ j \in 1..(i - 1)
  OBVIOUS
<1>4. i \in 1..i /\ 1..(i - 1) \subseteq 1..i /\ ~ (\E j \in 1..i : j > i)
      /\ \A j \in 1..(i - 1) : i > j
  OBVIOUS
<1>5. CASE target[s].attach
  BY <1>1, <1>2, <1>4, <1>5 DEF StandsAt
<1>6. CASE ~ target[s].attach
  <2> SUFFICES ASSUME s \notin moved' PROVE StandsAt(s, 1..i)'
    OBVIOUS
  <2>1. StandsAt(s, 1..(i - 1)) /\ cg'[s] = cg[s]
    BY <1>6 DEF NotMoved
  <2>2. CASE cg[s] = Root /\ \A j \in 1..(i - 1) : ~ layout[s].place[j].attach
    BY <1>1, <1>3, <1>6, <2>1, <2>2 DEF StandsAt
  <2>3. CASE \E k \in 1..(i - 1) :
                /\ layout[s].place[k].attach /\ cg[s] = PathOf(s, k)
                /\ \A j \in 1..(i - 1) : j > k => ~ layout[s].place[j].attach
    BY <1>1, <1>2, <1>3, <1>4, <1>6, <2>1, <2>3 DEF StandsAt
  <2>4. QED  BY <2>1, <2>2, <2>3 DEF StandsAt
<1>7. QED  BY <1>5, <1>6

LEMMA ProceedTurn ==
    ASSUME PamInv, NEW s \in Sessions, pc[s] \in InCall, Turn(s),
           Proceeds(s), layout' = layout, OwnKept(s),
           IF target[s].attach THEN s \notin moved' => cg'[s] = target[s].path
                               ELSE NotMoved(s),
           \A i \in Nat \ {0} :
               /\ UnderClosed(s)
               /\ i = target[s].place /\ target[s].path \notin touched[s]
               => Delivered(s, i)'
    PROVE  Turn(s)'
<1> SUFFICES ASSUME UnderClosed(s)'
             PROVE  InTurn(s)' /\ StandsInTurn(s)' /\ DeliversInTurn(s)'
  BY DEF Turn
<1>1. UnderClosed(s)
  BY DEF UnderClosed
<1>2. InTurn(s) /\ StandsInTurn(s) /\ DeliversInTurn(s)
  BY <1>1 DEF Turn
<1>3. /\ target[s] \in Target /\ target[s] # None
      /\ target[s].place \in Nat
      /\ target[s].place # 0
           => /\ layout[s] \in Layouts /\ layout[s].place \in Seq(Place)
              /\ target[s].place \in DOMAIN layout[s].place
  BY InCallFacts
<1>4. PICK i \in Nat : i = target[s].place
  BY <1>3
<1>5. /\ \A j : PathOf(s, j)' = PathOf(s, j)
      /\ \A j : PlaceTarget(s, j)' = PlaceTarget(s, j)
  BY PlacesKept
<1>6. \A j \in Reached(s) :
          PathOf(s, j) \notin touched[s] /\ Settles(s, j) => Delivered(s, j)'
  BY <1>2 DEF DeliversInTurn, OwnKept
<1>7. CASE i = 0
  <2>1. Stays(s, "admitted") /\ target[s].attach
    BY <1>3, <1>4, <1>7 DEF Proceeds, PamInv, Courses, Course
  <2>2. target' = target /\ pc'[s] = "admitted"
    BY <2>1 DEF Stays, Goto, PamInv, TypeOK
  <2>3. Reached(s)' = Reached(s)
    BY <1>4, <1>7, <2>2 DEF Reached, InCall
  <2>4. \A j : Settles(s, j)' <=> Settles(s, j)
    BY <2>2, SettlesKept
  <2>5. InTurn(s)'
    BY <1>3, <1>4, <1>7, <2>2 DEF InTurn
  <2>6. StandsInTurn(s)'
    BY <1>4, <1>7, <2>1, <2>2 DEF StandsInTurn
  <2>7. DeliversInTurn(s)'
    BY <1>5, <1>6, <2>2, <2>3, <2>4 DEF DeliversInTurn, OwnKept
  <2>8. QED  BY <2>5, <2>6, <2>7
<1>8. CASE i # 0
  <2>1. /\ target[s] = PlaceTarget(s, i) /\ Resolvable(s)
        /\ Reached(s) = 1..(i - 1)
    BY <1>3, <1>4, <1>8 DEF PamInv, Courses, Course, Reached
  <2>2. target[s].path = PathOf(s, i)
    BY <2>1 DEF PlaceTarget
  <2>3. s \notin moved => StandsAt(s, 1..(i - 1))
    <3>1. s \notin moved => StandsAt(s, Reached(s))
      BY <1>2, <1>4, <1>8, Zenon DEF StandsInTurn
    <3>2. QED  BY <2>1, <3>1, Zenon
  <2>4. s \notin moved' => StandsAt(s, 1..i)'
    BY <1>8, <2>1, <2>3, StandsOneMore
  <2>5. \A j \in 1..i :
            PathOf(s, j) \notin touched[s] /\ Settles(s, j) => Delivered(s, j)'
    <3>1. \A j \in 1..i : j = i \/ j \in 1..(i - 1)
      OBVIOUS
    <3>2. PathOf(s, i) \notin touched[s] => Delivered(s, i)'
      BY <1>1, <1>4, <1>8, <2>2
    <3>3. QED  BY <1>6, <2>1, <3>1, <3>2
  <2>6. ASSUME target'[s].place # 0, Reached(s)' = 1..i, InTurn(s)',
               pc'[s] \notin {"enable", "attach"}
        PROVE  InTurn(s)' /\ StandsInTurn(s)' /\ DeliversInTurn(s)'
    <3>1. \A j : Settles(s, j)' => Settles(s, j)
      BY <1>4, <1>5, <1>8, <2>6 DEF Settles
    <3>2. StandsInTurn(s)'
      BY <1>5, <2>4, <2>6 DEF StandsInTurn, StandsAt
    <3>3. DeliversInTurn(s)'
      BY <1>5, <2>5, <2>6, <3>1 DEF DeliversInTurn, OwnKept
    <3>4. QED  BY <2>6, <3>2, <3>3
  <2>7. CASE /\ Stays(s, "classify") \/ Stays(s, "admitted")
             /\ target[s].place = Len(layout[s].place)
    <3>1. target' = target /\ pc'[s] \in {"classify", "admitted"}
      BY <2>7 DEF Stays, Goto, PamInv, TypeOK
    <3>2. Reached(s)' = 1..i
      <4>1. DOMAIN layout[s].place = 1..i
        BY <1>3, <1>4, <1>8, <2>7
      <4>2. Reached(s)' = DOMAIN layout[s].place
        BY <3>1 DEF Reached, InCall
      <4>3. QED  BY <4>1, <4>2
    <3>3. InTurn(s)'
      BY <1>3, <2>7, <3>1 DEF InTurn
    <3>4. QED  BY <1>4, <1>8, <2>6, <3>1, <3>2, <3>3
  <2>8. CASE /\ target[s].place + 1 \in DOMAIN layout[s].place
             /\ target' = [target EXCEPT
                             ![s] = PlaceTarget(s, target[s].place + 1)]
             /\ Goto(s, "walk")
    <3>1. target'[s] = PlaceTarget(s, i + 1) /\ pc'[s] = "walk"
      BY <1>4, <2>8 DEF Goto, PamInv, TypeOK
    <3>2. target'[s].place = i + 1 /\ i + 1 # 0
      BY <3>1 DEF PlaceTarget
    <3>3. Reached(s)' = 1..i
      BY <3>1, <3>2 DEF Reached, InCall
    <3>4. InTurn(s)'
      BY <3>1 DEF InTurn
    <3>5. QED  BY <2>6, <3>1, <3>2, <3>3, <3>4
  <2>9. QED  BY <1>4, <1>8, <2>7, <2>8 DEF Proceeds
<1>9. QED  BY <1>7, <1>8

LEMMA KeptOwn ==
    ASSUME NEW s \in Sessions, TreeKept(s), touched'[s] = touched[s],
           layout' = layout
    PROVE  OwnKept(s)
<1>1. ASSUME NEW i \in Reached(s), PathOf(s, i) \notin touched[s],
             Delivered(s, i)
      PROVE  Delivered(s, i)'
  <2>1. PlaceTarget(s, i).path = PathOf(s, i)
    BY Zenon DEF PlaceTarget
  <2>2. QED  BY <1>1, <2>1, DeliveredKept
<1>2. QED  BY <1>1 DEF OwnKept

LEMMA CurrentDelivered ==
    ASSUME NEW s \in Sessions, layout' = layout, NEW i,
           target[s] = PlaceTarget(s, i), target[s].path \in dirs',
           owner'[target[s].path] = target[s].owner,
           target[s].controllers => target[s].path \in subtree'
    PROVE  Delivered(s, i)'
<1>1. PlaceTarget(s, i)' = target[s]
  BY PlacesKept
<1>2. QED  BY <1>1, Zenon DEF Delivered

(* A place in hand is the one of its layout, of a definite owner.          *)
LEMMA PlaceInHand ==
    ASSUME PamInv, NEW s \in Sessions, pc[s] \in InCall, NEW i \in Nat \ {0},
           i = target[s].place
    PROVE  /\ target[s] = PlaceTarget(s, i) /\ target[s].path = PathOf(s, i)
           /\ target[s].owner # Keep /\ i \in DOMAIN layout[s].place
           /\ Reached(s) = 1..(i - 1)
<1>1. target[s] = PlaceTarget(s, i) /\ Resolvable(s)
      /\ layout[s] \in Layouts /\ i \in DOMAIN layout[s].place
  BY InCallFacts DEF PamInv, Courses, Course
<1>2. QED  BY <1>1, PlaceTargetType DEF Reached

LEMMA WalkTurn ==
    ASSUME PamInv, NEW s \in Sessions, Turn(s), Walk(s) PROVE Turn(s)'
<1>1. /\ pc[s] = "walk" /\ pc[s] \in InCall /\ Stays(s, "own")
      /\ UNCHANGED <<cg, layout, moved, touched>>
      /\ MakeDirs(target[s].path, RootUser)
  BY DEF Walk, At, InCall, MakeDirs, NoHistory, Stays, procVars
<1>2. TreeKept(s)
  BY <1>1 DEF TreeKept, MakeDirs, PamInv, TypeOK, KernelTypeOK
<1>3. OwnKept(s) /\ NotMoved(s)
  BY <1>1, <1>2, KeptOwn DEF NotMoved
<1>4. QED  BY <1>1, <1>3, StayTurn

LEMMA OwnTurn ==
    ASSUME PamInv, NEW s \in Sessions, Turn(s), Own(s) PROVE Turn(s)'
<1> DEFINE d == target[s].path
<1>1. /\ pc[s] = "own" /\ pc[s] \in InCall
      /\ UNCHANGED <<cg, dirs, subtree, layout, moved>>
      /\ touched'[s] = touched[s]
  BY DEF Own, At, InCall, Touching, procVars
<1>2. d \in Paths /\ owner \in [Paths -> Users \cup {RootUser}]
  BY <1>1, InCallFacts DEF PamInv, TypeOK, KernelTypeOK
<1>3. \A e \in Paths : e # d => owner'[e] = owner[e]
  <2>1. owner' \in {owner, [owner EXCEPT ![d] = target[s].owner]}
    BY DEF Own
  <2>2. QED  BY <1>2, <2>1
<1>4. OwnKept(s)
  <2>1. ASSUME NEW i \in Reached(s), Settles(s, i), Delivered(s, i)
        PROVE  Delivered(s, i)'
    <3>1. PlaceTarget(s, i).path # d
      <4>1. PlaceTarget(s, i).path = PathOf(s, i)
        BY Zenon DEF PlaceTarget
      <4>2. CASE target[s].place = 0
        BY <2>1, <4>1, <4>2 DEF Settles
      <4>3. CASE target[s].place # 0
        <5>1. PICK k \in Nat \ {0} : k = target[s].place
          BY <1>1, <4>3, InCallFacts
        <5>2. d = PathOf(s, k) /\ k \in DOMAIN layout[s].place /\ k > i
          BY <1>1, <2>1, <5>1, PlaceInHand
        <5>3. QED  BY <2>1, <4>1, <5>2 DEF Settles
      <4>4. QED  BY <4>2, <4>3
    <3>2. PlaceTarget(s, i)' = PlaceTarget(s, i)
      BY <1>1, PlacesKept
    <3>3. PlaceTarget(s, i).path \in dirs
          /\ owner[PlaceTarget(s, i).path] = PlaceTarget(s, i).owner
          /\ (PlaceTarget(s, i).controllers
                => PlaceTarget(s, i).path \in subtree)
      BY <2>1 DEF Delivered
    <3>4. owner'[PlaceTarget(s, i).path] = owner[PlaceTarget(s, i).path]
      BY <1>3, <3>1, <3>3 DEF PamInv, TypeOK, KernelTypeOK
    <3>5. QED  BY <1>1, <3>2, <3>3, <3>4, Zenon DEF Delivered
  <2>2. QED  BY <1>1, <2>1 DEF OwnKept
<1>5. NotMoved(s)
  BY <1>1 DEF NotMoved
<1>6. CASE StepFails(s)
  BY <1>1, <1>6, FailsShape, GiveUpTurn
<1>7. CASE d \in dirs /\ Onward(s, "own")
           /\ owner' = (IF target[s].owner = Keep THEN owner
                        ELSE [owner EXCEPT ![d] = target[s].owner])
  <2>1. target[s].place # 0 => d \in dirs' /\ owner'[d] = target[s].owner
    <3>1. ASSUME target[s].place # 0 PROVE target[s].owner # Keep
      BY <1>1, <3>1, InCallFacts, PlaceInHand
    <3>2. QED  BY <1>1, <1>2, <1>7, <3>1
  <2>2. \/ target[s].controllers /\ Stays(s, "enable")
        \/ ~ target[s].controllers /\ target[s].attach /\ Stays(s, "attach")
        \/ ~ target[s].controllers /\ ~ target[s].attach /\ Proceeds(s)
    BY <1>1, <1>7, OnwardShape
  <2>3. CASE Stays(s, "enable")
    BY <1>1, <1>4, <1>5, <2>1, <2>3, StayTurn
  <2>4. CASE ~ target[s].controllers /\ Stays(s, "attach")
    BY <1>1, <1>4, <1>5, <2>1, <2>4, StayTurn
  <2>5. CASE ~ target[s].controllers /\ ~ target[s].attach /\ Proceeds(s)
    <3>1. ASSUME NEW i \in Nat \ {0}, i = target[s].place
          PROVE  Delivered(s, i)'
      BY <1>1, <2>1, <2>5, <3>1, PlaceInHand, CurrentDelivered
    <3>2. QED  BY <1>1, <1>4, <1>5, <2>5, <3>1, ProceedTurn
  <2>6. QED  BY <2>2, <2>3, <2>4, <2>5
<1>8. QED  BY <1>6, <1>7 DEF Own

LEMMA EnableTurn ==
    ASSUME PamInv, NEW s \in Sessions, Turn(s), Enable(s) PROVE Turn(s)'
<1>1. /\ pc[s] = "enable" /\ pc[s] \in InCall
      /\ UNCHANGED <<cg, dirs, owner, layout, moved, touched>>
  BY DEF Enable, At, InCall, NoHistory, procVars
<1>2. TreeKept(s)
  BY <1>1 DEF TreeKept, Enable
<1>3. OwnKept(s) /\ NotMoved(s)
  BY <1>1, <1>2, KeptOwn DEF NotMoved
<1>4. CASE StepFails(s)
  BY <1>1, <1>4, FailsShape, GiveUpTurn
<1>5. CASE /\ Onward(s, "enable")
           /\ subtree' = subtree \cup {target[s].path}
  <2>1. UnderClosed(s) /\ target[s].place # 0
          /\ target[s].path \notin touched[s]
        => /\ target[s].path \in dirs'
           /\ owner'[target[s].path] = target[s].owner
           /\ target[s].path \in subtree'
    BY <1>1, <1>5 DEF Turn, DeliversInTurn
  <2>2. \/ target[s].attach /\ Stays(s, "attach")
        \/ ~ target[s].attach /\ Proceeds(s)
    BY <1>1, <1>5, OnwardShape
  <2>3. CASE Stays(s, "attach")
    BY <1>1, <1>3, <2>1, <2>3, StayTurn
  <2>4. CASE ~ target[s].attach /\ Proceeds(s)
    <3>1. ASSUME NEW i \in Nat \ {0}, i = target[s].place, UnderClosed(s),
                 target[s].path \notin touched[s]
          PROVE  Delivered(s, i)'
      BY <1>1, <2>1, <3>1, PlaceInHand, CurrentDelivered
    <3>2. QED  BY <1>1, <1>3, <2>4, <3>1, ProceedTurn
  <2>5. QED  BY <2>2, <2>3, <2>4
<1>6. QED  BY <1>4, <1>5 DEF Enable

LEMMA AttachTurn ==
    ASSUME PamInv, NEW s \in Sessions, Turn(s), AttachSelf(s) PROVE Turn(s)'
<1>1. /\ pc[s] = "attach" /\ pc[s] \in InCall
      /\ UNCHANGED <<dirs, owner, subtree, layout, touched>>
  BY DEF AttachSelf, At, InCall, treeVars
<1>2. TreeKept(s)
  BY <1>1 DEF TreeKept
<1>3. OwnKept(s)
  BY <1>1, <1>2, KeptOwn
<1>4. target[s].attach
  BY <1>1 DEF PamInv, Courses, Course
<1>5. CASE StepFails(s)
  BY <1>1, <1>5, FailsShape, GiveUpTurn
<1>6. CASE StepDone(s) /\ cg' = [cg EXCEPT ![s] = target[s].path]
  <2>1. cg'[s] = target[s].path
    BY <1>6 DEF PamInv, TypeOK, KernelTypeOK
  <2>2. ASSUME NEW i \in Nat \ {0}, i = target[s].place, UnderClosed(s),
               target[s].path \notin touched[s]
        PROVE  Delivered(s, i)'
    <3>1. /\ target[s].path \in dirs'
          /\ owner'[target[s].path] = target[s].owner
          /\ target[s].controllers => target[s].path \in subtree'
      BY <1>1, <2>2 DEF Turn, DeliversInTurn
    <3>2. QED  BY <1>1, <2>2, <3>1, PlaceInHand, CurrentDelivered
  <2>3. Proceeds(s)
    BY <1>1, <1>6, DoneShape
  <2>4. QED  BY <1>1, <1>3, <1>4, <2>1, <2>2, <2>3, ProceedTurn
<1>7. QED  BY <1>5, <1>6 DEF AttachSelf

LEMMA LoadTurn ==
    ASSUME PamInv, NEW s \in Sessions,
           LoadLayout(s) \/ RereadLayout(s) \/ OpenHierarchy(s)
    PROVE  Turn(s)'
<1>1. ~ UnderClosed(s)'
  <2>1. CASE LoadLayout(s)
    <3>1. pc'[s] \in {"open", "reread"}
      BY <2>1 DEF LoadLayout, Goto, PamInv, TypeOK
    <3>2. QED  BY <3>1 DEF UnderClosed, InCall
  <2>2. CASE RereadLayout(s)
    <3>1. layout'[s] = NoLayout
      BY <2>2 DEF RereadLayout, At, PamInv, Courses, Course
    <3>2. QED  BY <3>1 DEF UnderClosed, Closed
  <2>3. CASE OpenHierarchy(s)
    <3>1. layout' = layout
          /\ \/ pc'[s] \in {"lookup", "refused"}
             \/ pc'[s] = "admitted" /\ ~ Closed(layout[s])
      BY <2>3 DEF OpenHierarchy, Goto, Verdict, PamInv, TypeOK
    <3>2. QED  BY <3>1 DEF UnderClosed, InCall
  <2>4. QED  BY <2>1, <2>2, <2>3
<1>2. QED  BY <1>1 DEF Turn

LEMMA LookupTurn ==
    ASSUME PamInv, NEW s \in Sessions, Lookup(s)
    PROVE  Turn(s)'
<1>1. /\ UNCHANGED <<cg, layout, moved>> /\ pc[s] = "lookup"
      /\ target[s] = None
  BY DEF Lookup, Inside, At, PamInv, Courses, Course, procVars
<1>2. CASE UNCHANGED target
  <2>1. PICK l \in {"refused", "classify", "admitted"} :
            Goto(s, l) /\ (l # "refused" => ~ Closed(layout[s]))
    BY <1>1, <1>2, LookupMoves
  <2>2. pc'[s] = l
    BY <2>1 DEF Goto, PamInv, TypeOK
  <2>3. ~ UnderClosed(s)'
    BY <1>1, <2>1, <2>2 DEF UnderClosed, InCall
  <2>4. QED  BY <2>3 DEF Turn
<1>3. CASE ~ UNCHANGED target
  <2>1. /\ target' = [target EXCEPT ![s] = PlaceTarget(s, 1)]
        /\ Goto(s, "walk")
    BY <1>3 DEF Lookup
  <2>2. target'[s] = PlaceTarget(s, 1) /\ pc'[s] = "walk"
    BY <2>1 DEF Goto, PamInv, TypeOK
  <2>3. target'[s].place = 1
    BY <2>2 DEF PlaceTarget
  <2>4. Reached(s)' = 1..0 /\ 1..0 = {}
    BY <2>2, <2>3 DEF Reached, InCall
  <2>5. s \notin moved' => cg'[s] = Root
    BY <1>1 DEF PamInv, Courses, Course
  <2>6. StandsInTurn(s)'
    BY <2>3, <2>4, <2>5 DEF StandsInTurn, StandsAt
  <2>7. InTurn(s)' /\ DeliversInTurn(s)'
    BY <2>2, <2>4 DEF InTurn, DeliversInTurn
  <2>8. QED  BY <2>6, <2>7 DEF Turn
<1>4. QED  BY <1>2, <1>3

LEMMA ClassifyTurn ==
    ASSUME PamInv, NEW s \in Sessions, Turn(s), Classify(s)
    PROVE  Turn(s)'
<1> SUFFICES ASSUME UnderClosed(s)'
             PROVE  InTurn(s)' /\ StandsInTurn(s)' /\ DeliversInTurn(s)'
  BY DEF Turn
<1>1. /\ UNCHANGED <<cg, dirs, owner, subtree, layout, moved, touched>>
      /\ pc[s] = "classify" /\ Closed(layout[s])
  BY DEF Classify, Inside, NoHistory, At, procVars, treeVars, UnderClosed
<1>2. UnderClosed(s)
  BY <1>1 DEF UnderClosed
<1>3. InTurn(s) /\ StandsInTurn(s) /\ DeliversInTurn(s)
  BY <1>2 DEF Turn
<1>4. target[s] # None /\ target[s].place # 0
      /\ target[s].place = Len(layout[s].place)
  BY <1>1, <1>3 DEF InTurn, PamInv, Courses, Course
<1>5. /\ \A i : PathOf(s, i)' = PathOf(s, i)
      /\ \A i : PlaceTarget(s, i)' = PlaceTarget(s, i)
  BY <1>1, PlacesKept
<1>6. Reached(s) = DOMAIN layout[s].place
  BY <1>1 DEF Reached, InCall
<1>7. ASSUME NEW i, Delivered(s, i) PROVE Delivered(s, i)'
  BY <1>1, <1>5, <1>7, Zenon DEF Delivered
<1>8. CASE UNCHANGED target
  <2>1. pc'[s] = "admitted"
    <3>1. Goto(s, "refused") \/ Goto(s, "admitted") \/ Goto(s, "walk")
      BY DEF Classify, Verdict
    <3>2. CASE Goto(s, "walk")
      <4>1. rules \in Configs /\ ~ LeftAlone(s) /\ HasLeaf(s) /\ Alive(s)
            /\ target' = [target EXCEPT ![s] = RuleTarget(s)]
        BY <1>1, <3>2 DEF Classify, Goto, Verdict, PamInv, TypeOK, Courses,
             Course
      <4>2. target'[s] = RuleTarget(s)
        BY <4>1 DEF PamInv, TypeOK
      <4>3. RuleTarget(s).place = 0
        BY DEF RuleTarget
      <4>4. QED  BY <1>4, <1>8, <4>2, <4>3
    <3>3. CASE Goto(s, "refused") \/ Goto(s, "admitted")
      BY <3>3 DEF Goto, UnderClosed, InCall, PamInv, TypeOK
    <3>4. QED  BY <3>1, <3>2, <3>3
  <2>2. Reached(s)' = Reached(s)
    BY <1>1, <1>6, <2>1 DEF Reached, InCall
  <2>3. \A i : Settles(s, i)' <=> Settles(s, i)
    BY <1>1, <1>8, SettlesKept
  <2>4. InTurn(s)'
    BY <1>1, <1>4, <1>8 DEF InTurn
  <2>5. StandsInTurn(s)'
    BY <1>1, <1>3, <1>4, <1>5, <1>8, <2>2 DEF StandsInTurn, StandsAt
  <2>6. DeliversInTurn(s)'
    BY <1>1, <1>3, <1>5, <1>7, <2>1, <2>2, <2>3 DEF DeliversInTurn
  <2>7. QED  BY <2>4, <2>5, <2>6
<1>9. CASE ~ UNCHANGED target
  <2>1. /\ target' = [target EXCEPT ![s] = RuleTarget(s)]
        /\ Goto(s, "walk")
    BY <1>9 DEF Classify
  <2>2. target'[s] = RuleTarget(s) /\ pc'[s] = "walk"
    BY <2>1 DEF Goto, PamInv, TypeOK
  <2>3. target'[s].place = 0
    BY <2>2 DEF RuleTarget
  <2>4. Reached(s)' = Reached(s)
    BY <1>1, <1>6, <2>2, <2>3 DEF Reached
  <2>5. \A i : Settles(s, i)' => Settles(s, i)
    BY <1>1, <1>4, <1>5 DEF Settles
  <2>6. InTurn(s)' /\ StandsInTurn(s)'
    BY <2>2, <2>3 DEF InTurn, StandsInTurn
  <2>7. DeliversInTurn(s)'
    BY <1>1, <1>3, <1>5, <1>7, <2>2, <2>4, <2>5 DEF DeliversInTurn
  <2>8. QED  BY <2>6, <2>7
<1>10. QED  BY <1>8, <1>9

LEMMA SelfTurn ==
    ASSUME PamInv, NEW s \in Sessions, Turn(s), Step(s) PROVE Turn(s)'
BY LoadTurn, LookupTurn, ClassifyTurn, WalkTurn, OwnTurn, EnableTurn,
   AttachTurn DEF Step

(* A login's step takes from the others only what goes on record.          *)
LEMMA OtherTree ==
    ASSUME PamInv, NEW s \in Sessions, Step(s), NEW b \in Sessions, b # s
    PROVE  TreeKept(b)
<1> USE DEF TreeKept
<1>0. dirs \subseteq Paths
  BY DEF PamInv, TypeOK, KernelTypeOK
<1>1. CASE LoadLayout(s) \/ RereadLayout(s) \/ OpenHierarchy(s) \/ Classify(s)
  BY <1>1 DEF LoadLayout, RereadLayout, OpenHierarchy, Classify, Inside,
     NoHistory, treeVars
<1>2. CASE Lookup(s)
  <2>1. UNCHANGED <<dirs, owner, subtree>>
    BY <1>2 DEF Lookup, Inside, treeVars
  <2>2. touched'[b] = touched[b]
    BY <1>2 DEF Lookup, PamInv, TypeOK
  <2>3. QED  BY <2>1, <2>2
<1>3. CASE Walk(s)
  BY <1>0, <1>3 DEF Walk, MakeDirs, NoHistory
<1>4. CASE Own(s)
  <2>1. /\ UNCHANGED <<dirs, subtree>>
        /\ touched'[b] = touched[b] \cup {d \in Paths : owner'[d] # owner[d]}
    BY <1>4 DEF Own, Touching
  <2>2. QED  BY <1>0, <2>1
<1>5. CASE Enable(s)
  BY <1>5 DEF Enable, NoHistory
<1>6. CASE AttachSelf(s)
  BY <1>6 DEF AttachSelf, treeVars
<1>7. QED  BY <1>1, <1>2, <1>3, <1>4, <1>5, <1>6 DEF Step

LEMMA EnvironmentTurn ==
    ASSUME PamInv, Environment, NEW b \in Sessions, Turn(b)
    PROVE  Turn(b)'
<1>1. CASE \/ \E l \in Layouts \cup {Invalid, Missing} : EditLayout(l)
           \/ \E c \in Configs \cup {Invalid} : EditRules(c)
           \/ Unmount
  <2>1. UNCHANGED <<cg, dirs, owner, subtree, pc, layout, target, moved,
                    touched>>
    BY <1>1 DEF EditLayout, EditRules, Unmount, NoHistory, procVars, treeVars,
         sessionVars
  <2>2. StillHeld(b) /\ TreeKept(b)
    BY <2>1 DEF StillHeld, TreeKept
  <2>3. QED  BY <2>2, TurnKept
<1>2. CASE \E d \in Paths : RmdirEvent(d)
  <2>1. PICK d \in Paths : RmdirEvent(d)
    BY <1>2
  <2>2. /\ UNCHANGED <<cg, pc, layout, target, moved>>
        /\ touched'[b] = touched[b] \cup {d}
        /\ RemoveDir(d)
    BY <2>1 DEF RmdirEvent, OtherRmdir, procVars, sessionVars
  <2>3. TreeKept(b)
    BY <2>2 DEF TreeKept, RemoveDir, PamInv, TypeOK, KernelTypeOK
  <2>4. StillHeld(b)
    BY <2>2 DEF StillHeld
  <2>5. QED  BY <2>3, <2>4, TurnKept
<1>3. CASE \E s \in Sessions, d \in Paths \cup {Root} : MoveEvent(s, d)
  <2>1. PICK s \in Sessions, d \in Paths \cup {Root} : MoveEvent(s, d)
    BY <1>3
  <2>2. /\ UNCHANGED <<dirs, owner, subtree, pc, layout, target, touched>>
        /\ moved' = moved \cup {s} /\ cg' = [cg EXCEPT ![s] = d]
    BY <2>1 DEF MoveEvent, OtherMove, sessionVars
  <2>3. StillHeld(b) /\ TreeKept(b)
    BY <2>2 DEF StillHeld, TreeKept, PamInv, TypeOK, KernelTypeOK
  <2>4. QED  BY <2>3, TurnKept
<1>4. CASE \E s \in Sessions : ExitEvent(s)
  <2>1. PICK s \in Sessions : ExitEvent(s)
    BY <1>4
  <2>2. /\ UNCHANGED <<dirs, owner, subtree, layout, target, moved, touched>>
        /\ pc' = [pc EXCEPT ![s] = "gone"]
        /\ cg' = [cg EXCEPT ![s] = Root]
    BY <2>1 DEF ExitEvent, Exit, Goto, NoHistory, treeVars
  <2>3. CASE b = s
    <3>1. pc'[b] = "gone"
      BY <2>2, <2>3 DEF PamInv, TypeOK
    <3>2. QED  BY <3>1 DEF Turn, UnderClosed, InCall
  <2>4. CASE b # s
    <3>1. StillHeld(b) /\ TreeKept(b)
      BY <2>2, <2>4 DEF StillHeld, TreeKept, PamInv, TypeOK, KernelTypeOK
    <3>2. QED  BY <3>1, TurnKept
  <2>5. QED  BY <2>3, <2>4
<1>5. QED  BY <1>1, <1>2, <1>3, <1>4 DEF Environment

LEMMA TurnsInit == Init => Turns
<1> SUFFICES ASSUME Init, NEW s \in Sessions PROVE ~ UnderClosed(s)
  BY DEF Turns, Turn
<1>1. QED  BY DEF Init, UnderClosed, InCall

LEMMA TurnsStep == PamInv /\ Turns /\ [Next]_vars => Turns'
<1> SUFFICES ASSUME PamInv, Turns, [Next]_vars, NEW b \in Sessions
             PROVE  Turn(b)'
  BY DEF Turns
<1>0. Turn(b)
  BY DEF Turns
<1>1. ASSUME NEW s \in Sessions, Step(s) PROVE Turn(b)'
  <2>1. CASE b = s
    BY <1>0, <1>1, <2>1, SelfTurn
  <2>2. CASE b # s
    <3>1. StillHeld(b) /\ TreeKept(b)
      BY <1>1, <2>2, StepOutcome, OutcomeKeeps, OtherTree
    <3>2. QED  BY <1>0, <3>1, TurnKept
  <2>3. QED  BY <2>1, <2>2
<1>2. CASE Environment
  BY <1>0, <1>2, EnvironmentTurn
<1>3. CASE Done \/ UNCHANGED vars
  <2>1. StillHeld(b) /\ TreeKept(b)
    BY <1>3 DEF Done, vars, StillHeld, TreeKept, procVars, treeVars, sessionVars
  <2>2. QED  BY <1>0, <2>1, TurnKept
<1>4. QED  BY <1>1, <1>2, <1>3 DEF Next

LEMMA TurnsInvariant == Spec => []Turns
<1>1. QED  BY PamInvariant, TurnsInit, TurnsStep, PTL DEF Spec

-----------------------------------------------------------------------------
(* What fail_closed guarantees.                                            *)

LEMMA AdmittedTurn ==
    ASSUME PamInv, Turns, NEW s \in Sessions, AdmittedClosed(s)
    PROVE  /\ InTurn(s) /\ StandsInTurn(s) /\ DeliversInTurn(s)
           /\ pc[s] = "admitted" /\ target[s] # None
           /\ Reached(s) = DOMAIN layout[s].place
           /\ layout[s].place \in Seq(Place)
<1>1. pc[s] = "admitted" /\ UnderClosed(s) /\ layout[s] \in Layouts
  BY DEF AdmittedClosed, UnderClosed, Closed, PamInv, TypeOK
<1>2. InTurn(s) /\ StandsInTurn(s) /\ DeliversInTurn(s)
  BY <1>1 DEF Turns, Turn
<1>3. QED  BY <1>1, <1>2 DEF InTurn, Reached, InCall

(* ClosedIsPlaced: with fail_closed PAM admits a login only where its rule *)
(* or its last attaching place puts it, for any layouts, any rules and any *)
(* number of logins at once.                                               *)
THEOREM ClosedIsPlaced == Spec => []AdmittedPlaced
<1>1. ASSUME PamInv, Turns, NEW s \in Sessions \ moved, AdmittedClosed(s)
      PROVE  cg[s] = Destination(s)
  <2>1. /\ StandsInTurn(s) /\ pc[s] = "admitted"
        /\ Reached(s) = DOMAIN layout[s].place
        /\ layout[s].place \in Seq(Place)
    BY <1>1, AdmittedTurn
  <2>2. CASE target[s].place = 0
    BY <1>1, <2>1, <2>2 DEF StandsInTurn, Destination
  <2>3. CASE target[s].place # 0
    <3>1. StandsAt(s, DOMAIN layout[s].place)
      <4>1. StandsAt(s, Reached(s))
        BY <1>1, <2>1, <2>3, Zenon DEF StandsInTurn
      <4>2. QED  BY <2>1, <4>1, Zenon
    <3>2. CASE Attaching(s) = {}
      BY <2>3, <3>1, <3>2 DEF StandsAt, Attaching, Destination
    <3>3. CASE Attaching(s) # {}
      <4>1. PICK i \in Attaching(s) :
                cg[s] = PathOf(s, i) /\ \A j \in Attaching(s) : ~ (j > i)
        BY <3>1, <3>3 DEF StandsAt, Attaching
      <4>2. Attaching(s) \subseteq Nat
        BY <2>1 DEF Attaching
      <4>3. \A k \in Attaching(s) :
                (\A j \in Attaching(s) : j <= k) <=> k = i
        BY <4>1, <4>2
      <4>4. (CHOOSE k \in Attaching(s) : \A j \in Attaching(s) : j <= k) = i
        BY <4>3
      <4>5. QED  BY <2>3, <3>3, <4>1, <4>4, Zenon DEF Destination
    <3>4. QED  BY <3>2, <3>3
  <2>4. QED  BY <2>2, <2>3
<1>2. PamInv /\ Turns => AdmittedPlaced
  BY <1>1 DEF AdmittedPlaced
<1>3. QED  BY <1>2, PamInvariant, TurnsInvariant, PTL

(* ClosedIsDelivered: and it finds every place of its layout made, owned   *)
(* and enabled as the layout says, but for what others removed or re-owned *)
(* meanwhile.                                                              *)
THEOREM ClosedIsDelivered == Spec => []PlacesDelivered
<1>1. ASSUME PamInv, Turns, NEW s \in Sessions, AdmittedClosed(s),
             NEW i \in DOMAIN layout[s].place,
             PlaceTarget(s, i).path \notin touched[s], Settles(s, i)
      PROVE  Delivered(s, i)
  <2>1. PlaceTarget(s, i).path = PathOf(s, i)
    BY Zenon DEF PlaceTarget
  <2>2. QED  BY <1>1, <2>1, AdmittedTurn DEF DeliversInTurn
<1>2. PamInv /\ Turns => PlacesDelivered
  BY <1>1 DEF PlacesDelivered, Delivered
<1>3. QED  BY <1>2, PamInvariant, TurnsInvariant, PTL
=============================================================================
