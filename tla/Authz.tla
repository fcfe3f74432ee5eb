-------------------------------- MODULE Authz --------------------------------
(***************************************************************************)
(* Roles and what they permit.  A role is held in one organisation; an API *)
(* key holds scopes instead and stands as an admin where a role is asked   *)
(* for, so it never passes a check that is for owners only.                *)
(***************************************************************************)

Viewer == {"org:view", "member:view", "service:view", "incident:view",
           "oncall:view", "metrics:view"}
Responder == Viewer \union {"incident:create", "incident:update",
                            "comment:create", "attachment:upload"}
Admin == Responder \union {"member:manage", "service:manage", "oncall:manage",
                           "comment:moderate", "audit:view", "apikey:manage"}
Owner == Admin \union {"org:manage"}

Role == {"owner", "admin", "responder", "viewer"}

ROLE_PERMISSIONS ==
  [owner |-> Owner, admin |-> Admin, responder |-> Responder, viewer |-> Viewer]

\* The role AuthContext.role gives to an API key.
KeyRole == "admin"
==============================================================================
