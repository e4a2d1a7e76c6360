------------------------------- MODULE Policy -------------------------------
(***************************************************************************)
(* What the configuration says about one process: the cgrules.conf rule    *)
(* that matches it (cgconfig::model) and the plan cgconfig.conf gives for  *)
(* that rule's destination (cgconfig::v2, cgcore).  Pure: no variables.    *)
(*                                                                         *)
(* Names are abstract.  A process pattern is the set of process names it   *)
(* accepts, a raw destination is a model value, and Expand tells which     *)
(* cgroup a raw destination becomes for an identity (Unsafe when the       *)
(* expansion is refused by is_safe_relative_path).                         *)
(***************************************************************************)
EXTENDS Naturals, Sequences

CONSTANTS
    Users,      \* account names
    Groups,     \* group names, the ones an @group subject names
    Names,      \* process names: comm values and executable base names
    Raws,       \* raw rule destinations, placeholders intact
    Paths,      \* cgroup paths below the hierarchy root
    MemberOf,   \* the groups getgrouplist(3) reports for a user
    Expand,     \* <<raw, user, comm>> to the expanded, trimmed destination
    Wildcard,   \* the * subject and the * process pattern
    NoProcess,  \* a rule without a :process part
    Unsafe,     \* an expansion with an empty, . or .. component
    NoPlan,     \* neither a group nor a template is declared
    Configs     \* the valid (cgrules.conf, cgconfig.conf) pairs considered

(* A node of cgconfig.conf: whose cgroup.procs file it asks for ("keep"    *)
(* when no task uid is given, "user" for %u, "unknown" for a name no       *)
(* passwd entry has) and whether it lists controllers.                     *)
Node == [task : {"keep", "user", "unknown"}, controllers : BOOLEAN]

Rule == [subject : Users \cup Groups \cup {Wildcard},
         process : (SUBSET Names) \cup {NoProcess, Wildcard},
         dest : Raws,
         options : SUBSET {"ignore", "ignore_rt"}]

IsConfig(c) ==
    /\ DOMAIN c = {"rules", "groups", "templates"}
    /\ c.rules \in Seq(Rule)
    /\ DOMAIN c.groups \subseteq Paths
    /\ \A d \in DOMAIN c.groups : c.groups[d] \in Node
    /\ DOMAIN c.templates \subseteq Raws
    /\ \A t \in DOMAIN c.templates : c.templates[t] \in Node

ASSUME PolicyAssumption ==
    /\ Users \cap Groups = {}
    /\ Wildcard \notin Users \cup Groups
    /\ MemberOf \in [Users -> SUBSET Groups]
    /\ Unsafe \notin Paths
    /\ Expand \in [Raws \X Users \X Names -> Paths \cup {Unsafe}]
    /\ NoPlan \notin [task : {"keep", "user", "unknown"},
                      controllers : BOOLEAN, tmpl : BOOLEAN]
    /\ \A c \in Configs : IsConfig(c)

-----------------------------------------------------------------------------
(* Rule matching.  `id` is any record with fields user, comm and exe.      *)

ProcessNames(id) == {id.comm, id.exe}

IsProcessSpecific(r) == r.process \notin {NoProcess, Wildcard}

SubjectMatches(r, user) ==
    \/ r.subject = Wildcard
    \/ r.subject = user
    \/ r.subject \in MemberOf[user]

(* Rule::matches for some one of the names.                                *)
Matches(r, id) ==
    /\ SubjectMatches(r, id.user)
    /\ IsProcessSpecific(r) => ProcessNames(id) \cap r.process # {}

(* Mutant: libcgroup's first match, in the order of the file.              *)
CandidatesInOrder(rules, id) == {i \in DOMAIN rules : Matches(rules[i], id)}

(* The positions first_rule_names searches: process-specific rules win     *)
(* over user-only ones wherever they stand in the file.                    *)
Candidates(rules, id) ==
    LET hits     == {i \in DOMAIN rules : Matches(rules[i], id)}
        specific == {i \in hits : IsProcessSpecific(rules[i])}
    IN  IF specific # {} THEN specific ELSE hits

HasRule(c, id) == Candidates(c.rules, id) # {}

FirstRule(c, id) ==
    LET hits == Candidates(c.rules, id)
    IN  c.rules[CHOOSE i \in hits : \A j \in hits : i <= j]

-----------------------------------------------------------------------------
(* Destinations.                                                           *)

Dest(c, id) == Expand[FirstRule(c, id).dest, id.user, id.comm]

(* plan_destination: a group named by the expanded path wins; otherwise    *)
(* the template named by the raw rule destination.  tmpl tells which.      *)
PlanDestination(c, d, raw) ==
    IF d \in DOMAIN c.groups
    THEN [task |-> c.groups[d].task,
          controllers |-> c.groups[d].controllers, tmpl |-> FALSE]
    ELSE IF raw \in DOMAIN c.templates
    THEN [task |-> c.templates[raw].task,
          controllers |-> c.templates[raw].controllers, tmpl |-> TRUE]
    ELSE NoPlan

Plan(c, id) == PlanDestination(c, Dest(c, id), FirstRule(c, id).dest)
=============================================================================
