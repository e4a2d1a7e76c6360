---------------------------- MODULE KernelProofs ----------------------------
(***************************************************************************)
(* Facts about rule matching and destination resolution, for every rule    *)
(* file and every identity, and what the kernel's operations preserve, for *)
(* the proofs about the programs that match rules and call the kernel.     *)
(***************************************************************************)
EXTENDS CgroupKernel, SequenceLemmas

-----------------------------------------------------------------------------
(* first_rule_names.                                                       *)

LEMMA CandidatesArePositions ==
    ASSUME NEW c \in Configs, NEW id
    PROVE  /\ Candidates(c.rules, id) \subseteq DOMAIN c.rules
           /\ DOMAIN c.rules \subseteq Nat
           /\ \A i \in DOMAIN c.rules : c.rules[i] \in Rule
<1>1. c.rules \in Seq(Rule)
  BY PolicyAssumption DEF IsConfig
<1>2. QED  BY <1>1 DEF Candidates

(* FirstRuleIsFirst: the rule used is a matching one, no eligible position *)
(* precedes it, and a process-specific match beats every other rule.       *)
THEOREM FirstRuleIsFirst ==
    ASSUME NEW c \in Configs, NEW id, HasRule(c, id)
    PROVE  \E i \in DOMAIN c.rules :
             /\ FirstRule(c, id) = c.rules[i]
             /\ Matches(c.rules[i], id)
             /\ \A j \in Candidates(c.rules, id) : i <= j
             /\ (\E j \in DOMAIN c.rules : Matches(c.rules[j], id)
                                         /\ IsProcessSpecific(c.rules[j]))
                  => IsProcessSpecific(c.rules[i])
<1> DEFINE hits == Candidates(c.rules, id)
           first == CHOOSE i \in hits : \A j \in hits : i <= j
<1>1. hits \subseteq DOMAIN c.rules /\ hits \subseteq Nat /\ hits # {}
  BY CandidatesArePositions DEF HasRule
<1>2. \E i \in hits : \A j \in hits : i <= j
  <2> HIDE DEF hits
  <2>1. QED  BY <1>1, FirstPosition
<1>3. first \in hits /\ \A j \in hits : first <= j
  BY <1>2
<1>4. FirstRule(c, id) = c.rules[first]
  BY DEF FirstRule
<1>5. Matches(c.rules[first], id)
  BY <1>3 DEF Candidates
<1>6. ASSUME NEW j \in DOMAIN c.rules, Matches(c.rules[j], id),
             IsProcessSpecific(c.rules[j])
      PROVE  IsProcessSpecific(c.rules[first])
  BY <1>3, <1>6 DEF Candidates
<1> HIDE DEF first, hits
<1>7. first \in DOMAIN c.rules
  BY <1>1, <1>3
<1>8. QED  BY <1>3, <1>4, <1>5, <1>6, <1>7 DEF hits

LEMMA FirstRuleType ==
    ASSUME NEW c \in Configs, NEW id, HasRule(c, id)
    PROVE  FirstRule(c, id) \in Rule
<1>1. PICK i \in DOMAIN c.rules : FirstRule(c, id) = c.rules[i]
  BY FirstRuleIsFirst
<1>2. QED  BY <1>1, CandidatesArePositions

-----------------------------------------------------------------------------
(* Destinations and plans.                                                 *)

LEMMA DestType ==
    ASSUME NEW c \in Configs, NEW id, HasRule(c, id),
           id.user \in Users, id.comm \in Names
    PROVE  Dest(c, id) \in Paths \cup {Unsafe}
<1>1. FirstRule(c, id).dest \in Raws
  BY FirstRuleType DEF Rule
<1>2. QED  BY <1>1, PolicyAssumption DEF Dest

PlanRecords == [task : {"keep", "user", "unknown"}, controllers : BOOLEAN,
                tmpl : BOOLEAN]

LEMMA PlanType ==
    ASSUME NEW c \in Configs, NEW id
    PROVE  Plan(c, id) \in PlanRecords \cup {NoPlan}
<1>1. IsConfig(c)
  BY PolicyAssumption
<1>2. QED  BY <1>1 DEF IsConfig, Node, Plan, PlanDestination, PlanRecords

(* A destination the configuration declares as a group has no template's   *)
(* plan.                                                                   *)
LEMMA GroupPlansAreNotTemplates ==
    ASSUME NEW c \in Configs, NEW id, Plan(c, id) # NoPlan, Plan(c, id).tmpl
    PROVE  Dest(c, id) \notin DOMAIN c.groups
BY DEF Plan, PlanDestination

(* SameIdentitySamePolicy: user, comm and executable decide everything.    *)
LEMMA SameIdentitySamePolicy ==
    ASSUME NEW c, NEW a, NEW b,
           a.user = b.user, a.comm = b.comm, a.exe = b.exe
    PROVE  /\ HasRule(c, a) = HasRule(c, b)
           /\ FirstRule(c, a) = FirstRule(c, b)
           /\ Dest(c, a) = Dest(c, b)
           /\ Plan(c, a) = Plan(c, b)
<1>1. \A r : Matches(r, a) <=> Matches(r, b)
  BY DEF Matches, SubjectMatches, ProcessNames
<1>2. Candidates(c.rules, a) = Candidates(c.rules, b)
  BY <1>1 DEF Candidates
<1>3. FirstRule(c, a) = FirstRule(c, b)
  BY <1>2 DEF FirstRule
<1>4. Dest(c, a) = Dest(c, b)
  BY <1>3 DEF Dest
<1>5. Plan(c, a) = Plan(c, b)
  BY <1>3, <1>4 DEF Plan
<1>6. QED  BY <1>2, <1>3, <1>4, <1>5 DEF HasRule

-----------------------------------------------------------------------------
USE KernelAssumption

(* The kernel's operations keep the tree and the process table well typed. *)

LEMMA MakeDirsType ==
    ASSUME KernelTypeOK, NEW d \in Paths, NEW u \in Users \cup {RootUser},
           MakeDirs(d, u), UNCHANGED procVars
    PROVE  KernelTypeOK' /\ dirs \subseteq dirs' /\ d \in dirs'
BY DEF KernelTypeOK, MakeDirs, procVars, Process

LEMMA RemoveDirType ==
    ASSUME KernelTypeOK, NEW d \in dirs, ~ Occupied(d), RemoveDir(d),
           UNCHANGED procVars
    PROVE  KernelTypeOK' /\ dirs' = dirs \ {d}
BY DEF KernelTypeOK, RemoveDir, Occupied, HasChild, procVars, Process

LEMMA ProcessType ==
    ASSUME KernelTypeOK, NEW p \in Pids, UNCHANGED treeVars,
           \/ \E u \in Users, n \in Names : Spawn(p, u, n)
           \/ \E q \in Pids : Fork(q, p)
           \/ Exit(p)
           \/ \E u \in Users, c, e \in Names : Reidentify(p, u, c, e)
           \/ Chrt(p)
    PROVE  KernelTypeOK'
<1> USE DEF KernelTypeOK, treeVars, Process, Alive
<1>1. CASE \E u \in Users, n \in Names : Spawn(p, u, n)
  BY <1>1 DEF Spawn
<1>2. CASE \E q \in Pids : Fork(q, p)
  <2>1. PICK q \in Pids : Fork(q, p)
    BY <1>2
  <2>2. proc[q] \in Process
    BY <2>1 DEF Fork
  <2>3. [proc[q] EXCEPT !.start = clock] \in Process
    BY <2>2
  <2>4. QED  BY <2>1, <2>3 DEF Fork
<1>3. CASE Exit(p)
  BY <1>3 DEF Exit
<1>4. CASE \E u \in Users, c, e \in Names : Reidentify(p, u, c, e)
  BY <1>4 DEF Reidentify
<1>5. CASE Chrt(p)
  BY <1>5 DEF Chrt
<1>6. QED  BY <1>1, <1>2, <1>3, <1>4, <1>5
=============================================================================
