----------------------------- MODULE MCCgrulesd -----------------------------
(***************************************************************************)
(* A small instance of Cgrulesd: two pids, two users, two process names;   *)
(* one rule set that sends the daemon "web" to a group or to a per-user    *)
(* directory and everything else of a student to students/<user>.          *)
(***************************************************************************)
EXTENDS CgrulesdProperties, TLC

CONSTANTS alice, bob, students, cp, sh, perUser, webDir, byName,
          pStudents, pAlice, pBob, pWeb, p1, p2, rootUser, root, absent,
          any, noProcess, unsafe, noPlan

MCMemberOf == (alice :> {students}) @@ (bob :> {})

(* %u below students/, a fixed directory, and %p, which for the process    *)
(* name sh is not a legal component.                                       *)
MCExpand ==
    [x \in {perUser, webDir, byName} \X {alice, bob} \X {cp, sh} |->
        CASE x[1] = perUser -> IF x[2] = alice THEN pAlice ELSE pBob
          [] x[1] = webDir  -> pWeb
          [] x[1] = byName  -> IF x[3] = cp THEN pWeb ELSE unsafe]

MCAbove == [d \in {pStudents, pAlice, pBob, pWeb} |->
              IF d \in {pAlice, pBob} THEN {pStudents} ELSE {}]

R(s, pr, d, o) == [subject |-> s, process |-> pr, dest |-> d, options |-> o]
N(t, c) == [task |-> t, controllers |-> c]
NoGroups == [d \in {} |-> N("keep", FALSE)]

(* The man-page shape: the user-only line first, the narrower one after.   *)
Templated ==
    [rules |-> <<R(students, noProcess, perUser, {}),
                 R(any, {cp}, webDir, {"ignore_rt"})>>,
     groups |-> (pWeb :> N("keep", FALSE)),
     templates |-> (perUser :> N("user", FALSE))]

(* The administrator has since declared students/alice and web groups      *)
(* themselves; bob has no plan of his own and lives on the fallback.       *)
Declared ==
    [rules |-> <<R(any, any, perUser, {})>>,
     groups |-> (pAlice :> N("user", FALSE)),
     templates |-> NoGroups]

(* Destinations that cannot be used: an unsafe expansion, an owner nobody  *)
(* has, an ignored process.                                                *)
Awkward ==
    [rules |-> <<R(alice, {sh}, byName, {}), R(alice, {cp}, webDir, {}),
                 R(bob, {sh}, perUser, {"ignore"}), R(bob, any, perUser, {})>>,
     groups |-> (pWeb :> N("unknown", FALSE)),
     templates |-> (perUser :> N("keep", FALSE)) @@ (byName :> N("keep", FALSE))]

(* A template with a controller block.                                     *)
Controlled ==
    [rules |-> <<R(any, {cp}, perUser, {}), R(bob, noProcess, webDir, {})>>,
     groups |-> (pWeb :> N("keep", FALSE)),
     templates |-> (perUser :> N("user", TRUE))]

(* Templated after an edit that leaves the template as it was.             *)
Retouched == [Templated EXCEPT !.rules = <<@[1]>>]

MCConfigs == {Templated, Declared, Awkward, Controlled}
PidSymmetry == Permutations({p1, p2})
OneConfig == {Templated}
EditedConfigs == {Templated, Retouched}
DeclaredOnly == {Declared}
ControlledOnly == {Controlled}
=============================================================================
