------------------------ MODULE ConfigTextProperties ------------------------
(***************************************************************************)
(* What a file that was written and read again ought to be.  Pure.         *)
(***************************************************************************)
EXTENDS ConfigText

(* The parameters of a node, grouped by controller.                        *)
Regrouped(n) ==
    LET cs == ParamControllers(n.params)
    IN  [n EXCEPT !.params =
            FlattenSeq([i \in DOMAIN cs |-> Under(n.params, cs[i])])]

Normal(cfg) ==
    [cfg EXCEPT !.groups = [i \in DOMAIN @ |-> Regrouped(@[i])],
                !.templates = [i \in DOMAIN @ |-> Regrouped(@[i])]]

BlockHeads(cfg) ==
    UNION {ToSet(n.controllers) \cup ToSet(ParamControllers(n.params)) :
              n \in ToSet(cfg.groups) \cup ToSet(cfg.templates)}

(* A controller named perm whose first parameter is called task or admin:  *)
(* the name was quoted when it was read, and Display writes it bare.       *)
LooksLikeOwners(n) ==
    LET rows == Under(n.params, "perm")
    IN  rows # <<>> /\ rows[1][2] \in Roles
=============================================================================
