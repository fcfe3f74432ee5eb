------------------------------ MODULE Membership ------------------------------
(***************************************************************************)
(* The members of one organisation, its invitations and one API key, as    *)
(* overlapping transactions at READ COMMITTED leave them.  A slot is a     *)
(* connection of the API: it runs one request after the other, each        *)
(* authorised by a role that is read once, then checked on unlocked reads, *)
(* written under row locks and committed.                                  *)
(***************************************************************************)
EXTENDS Naturals, FiniteSets, Authz

CONSTANTS
  People,        \* accounts; a person stands for their address too
  Founder,       \* who created the organisation
  ApiKey,        \* the principal of a request made with the key
  KeyScopes,     \* the scopes the key is minted with
  Invitations,   \* ids; how many are ever sent is bounded by their number
  Slots,         \* requests that can be under way at a time
  Asks,          \* what requests may ask for
  None

Ops == {"change", "remove", "invite", "revoke", "accept", "mint", "unmint"}
Ask == [op : Ops, by : People \union {ApiKey}, who : People \union {None},
        role : Role \union {None}, inv : Invitations \union {None}]

ASSUME MembershipAssumption ==
  /\ Founder \in People
  /\ ApiKey \notin People
  /\ None \notin People \union {ApiKey} \union Role \union Invitations
  /\ \A group \in SUBSET People : group # None
  /\ Asks \subseteq Ask
  /\ \A ask \in Asks : /\ ask.op \in {"change", "remove", "invite"} => ask.who \in People
                       /\ ask.op \in {"revoke", "accept"} => ask.inv \in Invitations
                       /\ ask.op = "accept" => ask.by \in People
                       /\ ask.op = "remove" => ask.role = None
  /\ KeyScopes \subseteq Owner

VARIABLES
  members,       \* the role of each person, None for those who are not members
  invitations,   \* [for, role, state, expired, mailed, byOwner]; the last is
                 \* history: the inviter held the owner role when authorised
  apiKey,        \* the key as committed: "none", "live", "revoked", "expired"
  txn            \* the request of each slot

vars == <<members, invitations, apiKey, txn>>

Idle == [pc |-> "idle", ask |-> None, role |-> None, seen |-> None,
         counted |-> None, joins |-> FALSE, holds |-> {}]

\* Rows and index entries a transaction may hold.
MemberRow(p) == <<"member", p>>
InvitationRow(i) == <<"invitation", i>>
Address(p) == <<"address", p>>
KeyRow == <<"key">>

Free(r, rows) == \A q \in Slots \ {r} : txn[q].holds \intersect rows = {}
Owners == {p \in People : members[p] = "owner"}
Pending(i) == invitations[i].state = "pending"
PendingFor(p) == \E i \in Invitations : Pending(i) /\ invitations[i].for = p

\* The address entry is in the partial index only while the invitation pends.
RowsOf(i) == {InvitationRow(i)} \union
             (IF Pending(i) THEN {Address(invitations[i].for)} ELSE {})

End(r) == txn' = [txn EXCEPT ![r] = Idle]
Goto(r, step) == txn' = [txn EXCEPT ![r].pc = step]
Hold(r, rows) ==
  txn' = [txn EXCEPT ![r].pc = "commit", ![r].holds = rows]
dbVars == <<members, invitations, apiKey>>

At(r, ops, step) == txn[r].pc = step /\ txn[r].ask.op \in ops

Init ==
  /\ members = [p \in People |-> IF p = Founder THEN "owner" ELSE None]
  /\ invitations = [i \in Invitations |->
       [for |-> None, role |-> None, state |-> "unsent", expired |-> FALSE,
        mailed |-> FALSE, byOwner |-> FALSE]]
  /\ apiKey = "none"
  /\ txn = [r \in Slots |-> Idle]

-----------------------------------------------------------------------------
(* Bugs the handlers could have had; no run uses them as they stand.       *)

\* The guard looks at the role that is given and not at the one that is taken.
MayTouchNewOnly(actorRole, targetRole, newRole) ==
  newRole = "owner" => actorRole = "owner"

\* The last owner is let go.
CountOwnersOffByOne(r) ==
  /\ At(r, {"change", "remove"}, "count")
  /\ IF Cardinality(Owners) = 0
       THEN End(r)
       ELSE txn' = [txn EXCEPT ![r].counted = Owners, ![r].pc = "write"]
  /\ UNCHANGED dbVars

\* A row count of 0 is not noticed: the membership goes in although the
\* invitation was deleted meanwhile.
AcceptWhateverIsLeft(r) ==
  LET i == txn[r].ask.inv
      p == txn[r].ask.by
      rows == RowsOf(i) \union (IF txn[r].joins THEN {MemberRow(p)} ELSE {})
  IN /\ At(r, {"accept"}, "write")
     /\ Free(r, rows)
     /\ IF txn[r].joins /\ members[p] # None THEN End(r) ELSE Hold(r, rows)
     /\ UNCHANGED dbVars


\* _guard_owner_changes
MayTouch(actorRole, targetRole, newRole) ==
  "owner" \in {targetRole, newRole} => actorRole = "owner"

-----------------------------------------------------------------------------
(* Authentication and require().                                           *)

Permission(op) == IF op \in {"mint", "unmint"} THEN "apikey:manage"
                  ELSE "member:manage"

Start(r, ask, role, step) ==
  txn' = [txn EXCEPT ![r] = [Idle EXCEPT !.pc = step, !.ask = ask, !.role = role]]

AuthorizeMember(r) ==
  /\ txn[r].pc = "idle"
  /\ \E ask \in Asks :
       /\ ask.op # "accept"
       /\ ask.by \in People
       /\ members[ask.by] # None
       /\ Permission(ask.op) \in ROLE_PERMISSIONS[members[ask.by]]
       /\ Start(r, ask, members[ask.by], "load")
  /\ UNCHANGED dbVars

\* get_current_user: an acceptance needs an account and the mailed token.
AuthorizeInvitee(r) ==
  /\ txn[r].pc = "idle"
  /\ \E ask \in Asks : /\ ask.op = "accept"
                       /\ invitations[ask.inv].mailed
                       /\ Start(r, ask, None, "load")
  /\ UNCHANGED dbVars

AuthorizeKey(r) ==
  /\ txn[r].pc = "idle"
  /\ apiKey = "live"
  /\ \E ask \in Asks : /\ ask.by = ApiKey
                       /\ Permission(ask.op) \in KeyScopes
                       /\ Start(r, ask, KeyRole, "touch")
  /\ UNCHANGED dbVars

\* last_used_at is written and committed before the request goes on; the UPDATE
\* waits for a revocation under way and does not look at it again.
TouchKey(r) ==
  /\ txn[r].pc = "touch"
  /\ Free(r, {KeyRow})
  /\ Goto(r, "load")
  /\ UNCHANGED dbVars

-----------------------------------------------------------------------------
(* change_role and remove_member.                                          *)

\* The identity map gives an actor who is the target the row require() read.
LoadTarget(r) ==
  LET ask == txn[r].ask
      target == IF ask.who = ask.by THEN txn[r].role ELSE members[ask.who]
  IN /\ At(r, {"change", "remove"}, "load")
     /\ IF target = None \/ ~MayTouch(txn[r].role, target, ask.role)
          THEN End(r)
          ELSE txn' = [txn EXCEPT
                 ![r].seen = target,
                 ![r].pc = IF target = "owner" /\ ask.role # "owner"
                             THEN "count" ELSE "write"]
     /\ UNCHANGED dbVars

CountOwners(r) ==
  /\ At(r, {"change", "remove"}, "count")
  /\ IF Cardinality(Owners) = 1
       THEN End(r)
       ELSE txn' = [txn EXCEPT ![r].counted = Owners, ![r].pc = "write"]
  /\ UNCHANGED dbVars

\* A role that does not change is not written.  The UPDATE of a row that is gone
\* raises StaleDataError; the DELETE of one does nothing.
WriteTarget(r) ==
  LET ask == txn[r].ask
      row == MemberRow(ask.who)
  IN /\ At(r, {"change", "remove"}, "write")
     /\ \/ /\ ask.role = txn[r].seen
           /\ Hold(r, {})
        \/ /\ ask.role # txn[r].seen
           /\ Free(r, {row})
           /\ IF members[ask.who] # None THEN Hold(r, {row})
              ELSE IF ask.op = "remove" THEN Hold(r, {})
              ELSE End(r)
     /\ UNCHANGED dbVars

-----------------------------------------------------------------------------
(* create_invitation, revoke_invitation, accept_invitation.                *)

\* require_user, the guard, and whether the address is a member's.
LoadInvitee(r) ==
  LET ask == txn[r].ask
  IN /\ At(r, {"invite"}, "load")
     /\ IF \/ ask.by = ApiKey
           \/ ~MayTouch(txn[r].role, "viewer", ask.role)
           \/ ask.who = ask.by
           \/ members[ask.who] # None
          THEN End(r)
          ELSE Goto(r, "pending")
     /\ UNCHANGED dbVars

\* Expired invitations count as pending.
CheckPending(r) ==
  /\ At(r, {"invite"}, "pending")
  /\ IF PendingFor(txn[r].ask.who) THEN End(r) ELSE Goto(r, "write")
  /\ UNCHANGED dbVars

\* uq_org_invitations_pending: the INSERT waits for whoever holds the address,
\* and fails if an invitation for it pends by then.
InsertInvitation(r) ==
  LET p == txn[r].ask.who
  IN /\ At(r, {"invite"}, "write")
     /\ Free(r, {Address(p)})
     /\ \/ PendingFor(p) /\ End(r)
        \/ /\ ~PendingFor(p)
           /\ \E i \in Invitations :
                /\ invitations[i].state = "unsent"
                /\ Free(r, {InvitationRow(i)})
                /\ txn' = [txn EXCEPT
                     ![r].pc = "commit", ![r].ask.inv = i,
                     ![r].holds = {InvitationRow(i), Address(p)}]
     /\ UNCHANGED dbVars

LoadRevoked(r) ==
  /\ At(r, {"revoke"}, "load")
  /\ IF Pending(txn[r].ask.inv) THEN Goto(r, "write") ELSE End(r)
  /\ UNCHANGED dbVars

\* The DELETE is by id alone: an invitation accepted meanwhile goes too.
DeleteInvitation(r) ==
  LET i == txn[r].ask.inv
  IN /\ At(r, {"revoke"}, "write")
     /\ Free(r, RowsOf(i))
     /\ Hold(r, IF invitations[i].state = "revoked" THEN {} ELSE RowsOf(i))
     /\ UNCHANGED dbVars

LoadInvitation(r) ==
  LET i == txn[r].ask.inv
  IN /\ At(r, {"accept"}, "load")
     /\ IF /\ Pending(i)
           /\ ~invitations[i].expired
           /\ invitations[i].for = txn[r].ask.by
          THEN Goto(r, "member")
          ELSE End(r)
     /\ UNCHANGED dbVars

CheckMember(r) ==
  /\ At(r, {"accept"}, "member")
  /\ txn' = [txn EXCEPT ![r].joins = members[txn[r].ask.by] = None,
                        ![r].pc = "write"]
  /\ UNCHANGED dbVars

\* One flush: INSERT of the membership, whose primary key another acceptance may
\* have taken, and UPDATE of the invitation, which may have been deleted.
WriteAcceptance(r) ==
  LET i == txn[r].ask.inv
      p == txn[r].ask.by
      rows == RowsOf(i) \union (IF txn[r].joins THEN {MemberRow(p)} ELSE {})
  IN /\ At(r, {"accept"}, "write")
     /\ Free(r, rows)
     /\ IF \/ invitations[i].state = "revoked"
           \/ txn[r].joins /\ members[p] # None
          THEN End(r)
          ELSE Hold(r, rows)
     /\ UNCHANGED dbVars

-----------------------------------------------------------------------------
(* create_api_key and revoke_api_key.                                      *)

InsertKey(r) ==
  /\ At(r, {"mint"}, "load")
  /\ apiKey = "none"
  /\ Free(r, {KeyRow})
  /\ Hold(r, {KeyRow})
  /\ UNCHANGED dbVars

\* A key that is revoked already is left as it is, and its revocation recorded
\* again.
LoadKey(r) ==
  /\ At(r, {"unmint"}, "load")
  /\ CASE apiKey = "none" -> End(r)
       [] apiKey = "revoked" -> Hold(r, {})
       [] OTHER -> Free(r, {KeyRow}) /\ Hold(r, {KeyRow})
  /\ UNCHANGED dbVars

-----------------------------------------------------------------------------
\* A bug the handlers could have had: a removed member keeps a row.
NewRoleSoftDelete(r) == CASE txn[r].ask.op = "change" -> txn[r].ask.role
                          [] txn[r].ask.op = "remove" -> "former"
                          [] txn[r].ask.op = "accept" ->
                               invitations[txn[r].ask.inv].role

\* What the committed rows become.
NewRole(r) == CASE txn[r].ask.op = "change" -> txn[r].ask.role
                [] txn[r].ask.op = "remove" -> None
                [] txn[r].ask.op = "accept" -> invitations[txn[r].ask.inv].role

NewInvitation(r) ==
  LET ask == txn[r].ask
      old == invitations[ask.inv]
  IN CASE ask.op = "accept" -> [old EXCEPT !.state = "accepted"]
       [] ask.op = "revoke" -> [old EXCEPT !.state = "revoked"]
       [] ask.op = "invite" -> [old EXCEPT !.state = "pending", !.for = ask.who,
                                  !.role = ask.role, !.byOwner = txn[r].role = "owner"]

NewKey(r) == IF txn[r].ask.op = "mint" THEN "live" ELSE "revoked"

\* The audit row goes with the rest; the invitation is mailed afterwards.
Commit(r) ==
  /\ txn[r].pc = "commit"
  /\ members' = [p \in People |-> IF MemberRow(p) \in txn[r].holds
                                    THEN NewRole(r) ELSE members[p]]
  /\ invitations' = [i \in Invitations |-> IF InvitationRow(i) \in txn[r].holds
                                    THEN NewInvitation(r) ELSE invitations[i]]
  /\ apiKey' = IF KeyRow \in txn[r].holds THEN NewKey(r) ELSE apiKey
  /\ IF txn[r].ask.op = "invite"
       THEN txn' = [txn EXCEPT ![r].pc = "mail", ![r].holds = {}]
       ELSE End(r)

MailInvitation(r) ==
  /\ txn[r].pc = "mail"
  /\ invitations' = [invitations EXCEPT ![txn[r].ask.inv].mailed = TRUE]
  /\ End(r)
  /\ UNCHANGED <<members, apiKey>>

\* An exception, a cancelled request, a crash.
Fail(r) ==
  /\ txn[r].pc # "idle"
  /\ End(r)
  /\ UNCHANGED dbVars

ExpireInvitation(i) ==
  /\ Pending(i)
  /\ ~invitations[i].expired
  /\ invitations' = [invitations EXCEPT ![i].expired = TRUE]
  /\ UNCHANGED <<members, apiKey, txn>>

ExpireKey ==
  /\ apiKey = "live"
  /\ apiKey' = "expired"
  /\ UNCHANGED <<members, invitations, txn>>

Next ==
  \/ \E r \in Slots :
       \/ AuthorizeMember(r) \/ AuthorizeInvitee(r) \/ AuthorizeKey(r) \/ TouchKey(r)
       \/ LoadTarget(r) \/ CountOwners(r) \/ WriteTarget(r)
       \/ LoadInvitee(r) \/ CheckPending(r) \/ InsertInvitation(r)
       \/ LoadRevoked(r) \/ DeleteInvitation(r)
       \/ LoadInvitation(r) \/ CheckMember(r) \/ WriteAcceptance(r)
       \/ InsertKey(r) \/ LoadKey(r)
       \/ Commit(r) \/ MailInvitation(r) \/ Fail(r)
  \/ \E i \in Invitations : ExpireInvitation(i)
  \/ ExpireKey

Spec == Init /\ [][Next]_vars

-----------------------------------------------------------------------------
\* Two transactions never hold the same row.
TypeOK ==
  /\ members \in [People -> Role \union {None}]
  /\ DOMAIN invitations = Invitations
  /\ \A i \in Invitations :
       /\ invitations[i].for \in People \union {None}
       /\ invitations[i].role \in Role \union {None}
       /\ invitations[i].state \in {"unsent", "pending", "accepted", "revoked"}
  /\ apiKey \in {"none", "live", "revoked", "expired"}
  /\ DOMAIN txn = Slots
  /\ \A r \in Slots : /\ txn[r].role \in Role \union {None}
                      /\ txn[r].counted \in (SUBSET People) \union {None}
                      /\ Free(r, txn[r].holds)

\* r commits, and something it based its write on is no longer so: the role of
\* its target, or the set of owners it counted.
Overtaken(r) == \/ txn[r].seen # members[txn[r].ask.who]
                \/ txn[r].counted \notin {None, Owners}

Commits(r) == txn[r].pc = "commit" /\ txn[r].holds # {} /\ txn'[r].pc # "commit"

(* "The last owner can never be demoted" and "cannot be removed"            *)
(* (api/v1/members.py): only a transaction that was overtaken between its  *)
(* reads and its commit ever leaves the organisation without an owner.     *)
LastOwnerKept ==
  [][Owners # {} /\ Owners' = {} =>
       \E r \in Slots : Commits(r) /\ txn[r].ask.op \in {"change", "remove"}
                        /\ Overtaken(r)]_vars

(* "Only owners may touch the owner role, in either direction"             *)
(* (_guard_owner_changes), over every path: somebody becomes or ceases to  *)
(* be an owner by the commit of a request that was authorised as an        *)
(* owner's, by accepting what such a request offered, or by a transaction  *)
(* whose target was made an owner after it looked.  An API key never does. *)
OnlyOwnersTouchOwners ==
  [][\A p \in People :
       (members[p] = "owner") # (members'[p] = "owner") =>
         \E r \in Slots :
           /\ Commits(r)
           /\ \/ txn[r].role = "owner"
              \/ /\ txn[r].ask.op = "accept"
                 /\ invitations[txn[r].ask.inv].byOwner
              \/ /\ txn[r].ask.op \in {"change", "remove"}
                 /\ txn[r].seen # members[p]]_vars

(* Nobody joins but by an invitation for their address, with its role, that *)
(* exists at the commit and is used up by it: a revocation that committed   *)
(* first wins over an acceptance that had read the invitation before.       *)
JoinersAreInvited ==
  [][\A p \in People :
       members[p] = None /\ members'[p] # None =>
         \E i \in Invitations :
           /\ invitations[i].state \in {"pending", "accepted"}
           /\ invitations[i].for = p
           /\ invitations[i].role = members'[p]
           /\ invitations'[i].state = "accepted"]_vars

(* The statement as the endpoint's description makes it: there is always an *)
(* owner.                                                                   *)
AnOwnerRemains == Owners # {}
===============================================================================
