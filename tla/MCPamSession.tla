---------------------------- MODULE MCPamSession ----------------------------
(***************************************************************************)
(* Two logins of one user, the first with a cgrules= argument, below the   *)
(* delegating directory users.                                             *)
(***************************************************************************)
EXTENDS PamSessionProperties, TLC

CONSTANTS alice, staff, sshd, jobs, own, escape, pUsers, pAlice, pSession,
          pJobs, home, session, outside, s1, s2, rootUser, root, absent, any,
          noProcess, unsafe, noPlan

MCMemberOf == alice :> {staff}

MCExpand == [x \in {jobs, own, escape} \X {alice} \X {sshd} |->
               CASE x[1] = jobs   -> pJobs
                 [] x[1] = own    -> pAlice
                 [] x[1] = escape -> unsafe]

MCAbove == [d \in {pUsers, pAlice, pSession, pJobs} |->
              CASE d = pSession -> {pUsers, pAlice}
                [] d = pAlice   -> {pUsers}
                [] OTHER        -> {}]

MCUserOf == [s \in {s1, s2} |-> alice]

(* home is users/{user}, session the directory below it, outside escapes.  *)
MCExpandPlace == [x \in {home, session, outside} \X {alice} |->
                    CASE x[1] = home    -> pAlice
                      [] x[1] = session -> pSession
                      [] x[1] = outside -> unsafe]

P(r, o, c, a) == [raw |-> r, owner |-> o, controllers |-> c, attach |-> a]

(* The places of examples/pam_cgroup.toml, closed.                         *)
Delegated == [fail_closed |-> TRUE,
              place |-> <<P(home, "user", TRUE, FALSE),
                          P(session, "user", FALSE, TRUE)>>]

(* The same optional; the same as root's; a second place that is of nobody *)
(* or outside the hierarchy.                                               *)
Optional == [Delegated EXCEPT !.fail_closed = FALSE]
Plain == [fail_closed |-> TRUE,
          place |-> <<P(home, "root", FALSE, FALSE),
                      P(session, "root", FALSE, TRUE)>>]
Nobody == [fail_closed |-> TRUE,
           place |-> <<P(session, "user", FALSE, TRUE),
                       P(home, "unknown", FALSE, FALSE)>>]
Outside == [fail_closed |-> FALSE,
            place |-> <<P(session, "user", FALSE, TRUE),
                        P(outside, "user", FALSE, FALSE)>>]

MCLayouts == {Delegated, Optional, Plain, Nobody, Outside}

R(d, o) == [subject |-> staff, process |-> {sshd}, dest |-> d, options |-> o]
NoGroups == [d \in {} |-> [task |-> "keep", controllers |-> FALSE]]

(* A template for the rule's destination, realtime logins left alone; the  *)
(* user's own directory without a plan; a destination that escapes.        *)
Templated == [rules |-> <<R(jobs, {"ignore_rt"})>>, groups |-> NoGroups,
              templates |-> (jobs :> [task |-> "user", controllers |-> FALSE])]
Fallback == [rules |-> <<R(own, {})>>, groups |-> NoGroups,
             templates |-> NoGroups]
Escaping == [rules |-> <<R(escape, {})>>, groups |-> NoGroups,
             templates |-> (escape :> [task |-> "keep",
                                       controllers |-> FALSE])]

MCConfigs == {Templated, Fallback, Escaping}
=============================================================================
