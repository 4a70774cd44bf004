--------------------------- MODULE MCAdminAccess ---------------------------
(***************************************************************************)
(* AdminAccess on small sets, and the environments instances are started   *)
(* with: the two shapes of deployment as they should be, each with what is *)
(* easily wrong, and local development.                                    *)
(***************************************************************************)
EXTENDS AdminAccess, TLC

Netlify == [target |-> "netlify", insecure |-> FALSE, adminEmail |-> Null,
            given |-> Required.netlify \cup {"AUTH0_ISSUER", "AUTH0_CLIENT_ID"}]

Vm == [Netlify EXCEPT !.target = "vm", !.given = Required.vm]

Dev == [Netlify EXCEPT !.target = "unset", !.insecure = TRUE, !.given = {}]

SomeEnvironments ==
    {Netlify, Vm, [Vm EXCEPT !.given = @ \ {"HOSTNAME"}]}
        \cup {[Netlify EXCEPT !.given = @ \ {s}] : s \in {"SESSION_SECRET", "AUTH0_ISSUER"}}
        \cup {[Netlify EXCEPT !.given = (@ \ {"AUTH0_CLIENT_ID"}) \cup {"AUTH0_AUDIENCE"}]}
        \cup {[e EXCEPT !.adminEmail = p] : e \in {Netlify, Vm, Dev}, p \in People}

Symmetry == Permutations(Browsers) \cup Permutations(Requests) \cup Permutations(People \ Verified)
                \cup Permutations(Verified)

============================================================================
