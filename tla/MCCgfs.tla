------------------------------- MODULE MCCgfs -------------------------------
(***************************************************************************)
(* Instances of Cgfs: the directory users, one login's directory in it and *)
(* the session below that, with PAM sessions and cgctl commands at work.   *)
(***************************************************************************)
EXTENDS CgfsProperties, TLC

CONSTANTS
    Login,      \* the PAM session
    Other,      \* a second session, cgctl config or exec
    Cleaner,    \* cgctl delete or classify
    Alice, Staff, P1, P2

users   == <<"users">>
alice   == <<"users", "alice">>
session == <<"users", "alice", "session">>

MCPaths == {users, alice, session}

MCParent == (users :> Root) @@ (alice :> users) @@ (session :> alice)

MCWalk == [p \in MCPaths |-> SubSeq(<<users, alice, session>>, 1, Len(p))]

Apply(p, owner, mode, enable, q) ==
    [kind |-> "apply", path |-> p, uid |-> owner, task_uid |-> Keep,
     dperm |-> mode, controllers |-> enable, pid |-> q]

Plain(k, p, q) ==
    [kind |-> k, path |-> p, uid |-> Keep, task_uid |-> Keep,
     dperm |-> NoMode, controllers |-> FALSE, pid |-> q]

Shared == {"write", "search"}

(* The two places of examples/pam_cgroup.toml.                             *)
LoginScript(owner, q) ==
    <<Apply(alice, owner, Shared, TRUE, NoPid),
      Apply(session, owner, Shared, FALSE, q)>>

(* A single place, without controllers.                                    *)
ShortLogin(owner, q) == <<Apply(session, owner, Shared, FALSE, q)>>

(* cgctl config of a file that declares users, with controllers.           *)
ConfigUsers == <<Apply(users, Staff, Shared, TRUE, NoPid)>>

(* A group under another's task owner, without a directory mode.           *)
ConfigAlice ==
    <<[Apply(alice, Staff, NoMode, FALSE, NoPid) EXCEPT !.task_uid = Alice]>>

(* A login beside cgctl config or exec, and a cleanup or a classify.       *)
SafetyScripts ==
    (Login :> {LoginScript(Alice, P1), ShortLogin(Alice, P1)})
    @@ (Other :> {ConfigUsers, ConfigAlice, <<Plain("exec", alice, P2)>>})
    @@ (Cleaner :> {<<Plain("delete_tree", users, NoPid)>>,
                    <<Plain("delete_tree", alice, NoPid)>>,
                    <<Plain("delete_leaf", alice, NoPid)>>,
                    <<Plain("attach", alice, P2)>>})

(* A login walks through the directory that cgctl config configures.       *)
RaceScripts ==
    (Login :> {ShortLogin(Alice, P1)}) @@ (Other :> {ConfigUsers})

(* One login by the example configuration, alone on a fresh tree.          *)
LoginScripts == Login :> {LoginScript(Alice, P1)}
=============================================================================
