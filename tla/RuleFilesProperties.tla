------------------------- MODULE RuleFilesProperties -------------------------
(***************************************************************************)
(* What a load must deliver whatever happens to the files meanwhile, and   *)
(* what the rules then say about a process.                                *)
(***************************************************************************)
EXTENDS RuleFiles

Identities == [user : Users, comm : Names, exe : Names]

RulesIfReadable(content) == IF Readable(content) THEN RulesOf(content) ELSE <<>>

(* The rules of the main file and of the drop-ins in `taken`, in order,    *)
(* each at the version `v` gives.                                          *)
InOrder(taken, v) ==
    FlattenSeq(<<RulesIfReadable(v[Main])>> \o
               [i \in DOMAIN DropIns |->
                   IF DropIns[i] \in taken
                   THEN RulesIfReadable(v[DropIns[i]]) ELSE <<>>])

(* A regular file from the beginning of the load to now.                   *)
StoodAsFile(n) == \A content \in held[n] : IsText(content)

(* LoadIsOrdered: a load that succeeds delivers whole versions of files    *)
(* there during the load, main first and the drop-ins by name whatever     *)
(* order readdir has; none that stood throughout is missed, none is read   *)
(* twice, hidden names are left alone (load.rs, "the sort makes            *)
(* first-match deterministic").                                            *)
LoadIsOrdered ==
    load = "ready" =>
        \E taken \in SUBSET ToSet(DropIns) :
            /\ \A n \in ToSet(DropIns) : StoodAsFile(n) => n \in taken
            /\ \E v \in [{Main} \cup taken -> Texts] :
                   /\ \A n \in DOMAIN v : v[n] \in held[n] /\ Readable(v[n])
                   /\ rules = InOrder(taken, v)

(* LoadFailsForCause: a load fails only for something its caller can be    *)
(* told of: the main file or a drop-in that at some time was unreadable or *)
(* did not parse, a drop-in that went away, a directory that is none.      *)
(* "A missing directory is empty, not an error" (load.rs).                 *)
LoadFailsForCause ==
    load = "failed" =>
        \/ dir = "file"
        \/ \E content \in held[Main] : ~ Readable(content)
        \/ \E n \in ToSet(DropIns) :
              /\ \E content \in held[n] : IsText(content)
              /\ \E content \in held[n] : ~ Readable(content)

(* The one rule of a list for a process, if any.                           *)
Verdict(rs, id) == [found |-> Candidates(rs, id) # {},
                    rule  |-> IF Candidates(rs, id) = {} THEN NoPlan
                              ELSE FirstRule([rules |-> rs], id)]

Narrow(verdict) == verdict.found /\ IsProcessSpecific(verdict.rule)

(* What a file `later` in the order makes of the verdict of those before.  *)
Overrule(earlier, later) ==
    IF Narrow(earlier) \/ (earlier.found /\ ~ Narrow(later))
    THEN earlier
    ELSE later

(* DropInDecides: a drop-in changes the rule of a process only where it    *)
(* names the process and no file before it does, or where no file before   *)
(* it matches at all; there it always does.  Process-specific rules win    *)
(* "regardless of document order" (model.rs), files included.              *)
DropInDecides ==
    [][rules' # rules =>
         \A id \in Identities :
             LET new == SubSeq(rules', Len(rules) + 1, Len(rules'))
             IN  Verdict(rules', id) =
                     Overrule(Verdict(rules, id), Verdict(new, id))]_rules

(* AppliedWhereCompared: the cgroup a process is moved to (the expanded    *)
(* name of the group or template) is the one enforce_once compared with    *)
(* the cgroup it is in (the expanded destination), so a placed process is  *)
(* left alone on the next pass, unless a percent sign is left in the       *)
(* destination and is expanded once more.                                  *)
AppliedWhereCompared ==
    load = "ready" =>
        \A k \in Configs, id \in Identities :
            LET c    == [k EXCEPT !.rules = rules]
                path == PlanPath(FirstRule(c, id).dest,
                                 Placeholders[id.user, id.comm],
                                 DOMAIN c.groups, DOMAIN c.templates)
            IN  /\ HasRule(c, id)
                /\ Dest(c, id) # Unsafe
                /\ ParsesAsPath(path)
                => path = Dest(c, id) \/ "%" \in ToSet(Dest(c, id))
=============================================================================
