------------------------ MODULE PamSessionProperties ------------------------
(***************************************************************************)
(* What pam_cgroup owes the login and the administrator.                   *)
(***************************************************************************)
EXTENDS PamSession

(* Everything stays within its type; a session with a cgfs call in hand    *)
(* has a target and one that is in a place has the layout it is of.        *)
TypeOK ==
    /\ KernelTypeOK
    /\ toml \in Layouts \cup {Invalid, Missing}
    /\ rules \in Configs \cup {Invalid}
    /\ mounted \in BOOLEAN
    /\ pc \in [Sessions -> Locations]
    /\ layout \in [Sessions -> Layouts \cup {NoLayout}]
    /\ target \in [Sessions -> Target \cup {None}]
    /\ \A s \in Sessions :
        /\ pc[s] \in {"walk", "own", "enable", "attach"} => target[s] # None
        /\ target[s] # None /\ target[s].place # 0
           => layout[s] # NoLayout /\ target[s].place \in DOMAIN layout[s].place
    /\ budget \in 0..MaxEvents
    /\ moved \subseteq Sessions
    /\ touched \in [Sessions -> SUBSET Paths]

(* The session runs under a layout with fail_closed and PAM said yes.      *)
AdmittedClosed(s) == pc[s] = "admitted" /\ Closed(layout[s])

Attaching(s) == {i \in DOMAIN layout[s].place : layout[s].place[i].attach}

(* Where an admitted session was told to be: where its rule sends it, or   *)
(* else where its last attaching place is.                                 *)
Destination(s) ==
    IF target[s].place = 0 THEN target[s].path
    ELSE IF Attaching(s) = {} THEN Root
    ELSE PathOf(s, CHOOSE i \in Attaching(s) :
                     \A j \in Attaching(s) : j <= i)

(* With fail_closed a login PAM admits is where the layout and the rules   *)
(* put it, unless somebody moved it afterwards; when no rule applies, "the *)
(* TOML [[place]] attach still stands" (classify.rs:126).                  *)
AdmittedPlaced ==
    \A s \in Sessions \ moved :
        AdmittedClosed(s) => cg[s] = Destination(s)

(* The last cgfs call of the session that speaks of the path of place i.   *)
Settles(s, i) ==
    /\ \A j \in DOMAIN layout[s].place : j > i => PathOf(s, j) # PathOf(s, i)
    /\ target[s].place = 0 => target[s].path # PathOf(s, i)

(* With fail_closed an admitted login finds every place of the layout made,*)
(* owned as the layout says although it may have existed as another's, and *)
(* with its controllers enabled, unless others removed or re-owned it.     *)
PlacesDelivered ==
    \A s \in Sessions : AdmittedClosed(s) =>
        \A i \in DOMAIN layout[s].place :
            LET t == PlaceTarget(s, i)
            IN  t.path \notin touched[s] /\ Settles(s, i)
                => /\ t.path \in dirs
                   /\ owner[t.path] = t.owner
                   /\ t.controllers => t.path \in subtree

(* The layout has a place outside the hierarchy or of an unknown owner.    *)
Unusable(s) ==
    \E i \in DOMAIN layout[s].place :
        PathOf(s, i) = Unsafe \/ layout[s].place[i].owner = "unknown"

(* No place of a layout with an unusable one moves the login, however late *)
(* the bad one stands: all are planned before any is applied (place.rs:22  *)
(* and 70).  Only its rule may move it.                                    *)
BadLayoutMovesNobody ==
    \A s \in Sessions \ moved :
        /\ layout[s] # NoLayout /\ Unusable(s)
        /\ target[s] = None \/ target[s].place # 0
        => cg[s] = Root

(* No layout on disk says fail_closed: then every login that does not die  *)
(* is admitted, whatever fails and whoever interferes: "an optional stack  *)
(* cannot lock you out" (pam_cgroup/README.md:62).                         *)
NeverLockedOut ==
    [](toml \notin {l \in Layouts : l.fail_closed})
    => \A s \in Sessions : <>(pc[s] \in {"admitted", "gone"})

-----------------------------------------------------------------------------
(* What makes the safety properties inductive.                             *)

InCall == {"walk", "own", "enable", "attach"}

(* Where a session may be with what in hand.  No place is in hand before   *)
(* all of them resolve, and until one is nothing has moved the login.      *)
Course(s) ==
    /\ pc[s] # "gone" => Alive(s)
    /\ pc[s] \in {"load", "reread"} => layout[s] = NoLayout
    /\ pc[s] \in {"load", "reread", "open", "lookup"} => target[s] = None
    /\ target[s] # None /\ target[s].place # 0
         => Resolvable(s) /\ target[s] = PlaceTarget(s, target[s].place)
    /\ target[s] # None /\ target[s].place = 0
         => target[s].attach /\ pc[s] # "classify"
    /\ pc[s] = "enable" => target[s].controllers
    /\ pc[s] = "attach" => target[s].attach
    /\ target[s] = None /\ s \notin moved => cg[s] = Root

Courses == \A s \in Sessions : Course(s)

(* The session is at work, or done, under a layout with fail_closed.       *)
UnderClosed(s) ==
    Closed(layout[s]) /\ pc[s] \in InCall \cup {"classify", "admitted"}

(* The places such a session is through with.                              *)
Reached(s) ==
    IF pc[s] \in InCall /\ target[s].place # 0
    THEN 1..(target[s].place - 1) ELSE DOMAIN layout[s].place

(* The login is at the last attaching one of its first places, or in the   *)
(* root cgroup when none of them attaches.                                 *)
StandsAt(s, places) ==
    \/ cg[s] = Root /\ \A j \in places : ~ layout[s].place[j].attach
    \/ \E i \in places :
          /\ layout[s].place[i].attach /\ cg[s] = PathOf(s, i)
          /\ \A j \in places : j > i => ~ layout[s].place[j].attach

Delivered(s, i) ==
    LET t == PlaceTarget(s, i)
    IN  /\ t.path \in dirs
        /\ owner[t.path] = t.owner
        /\ t.controllers => t.path \in subtree

(* No place is passed over.                                                *)
InTurn(s) ==
    pc[s] \in {"classify", "admitted"}
      => /\ target[s] # None
         /\ target[s].place # 0 => target[s].place = Len(layout[s].place)

StandsInTurn(s) ==
    s \notin moved =>
        IF target[s].place # 0 THEN StandsAt(s, Reached(s))
        ELSE pc[s] = "admitted" => cg[s] = target[s].path

DeliversInTurn(s) ==
    /\ \A i \in Reached(s) :
          PathOf(s, i) \notin touched[s] /\ Settles(s, i) => Delivered(s, i)
    /\ LET t == target[s]
       IN  pc[s] \in {"enable", "attach"} /\ t.place # 0
             /\ t.path \notin touched[s]
           => /\ t.path \in dirs /\ owner[t.path] = t.owner
              /\ pc[s] = "attach" /\ t.controllers => t.path \in subtree

Turn(s) == UnderClosed(s) => InTurn(s) /\ StandsInTurn(s) /\ DeliversInTurn(s)

Turns == \A s \in Sessions : Turn(s)
=============================================================================
