--------------------------- MODULE MembershipProofs ---------------------------
(***************************************************************************)
(* Roles and invitations, for any people, invitations and requests: what   *)
(* overlapping transactions can and cannot do to the owners.               *)
(***************************************************************************)
EXTENDS Membership, FiniteSetTheorems, TLAPS

PCs == {"idle", "touch", "load", "count", "pending", "member", "write", "commit", "mail"}
Rows == {MemberRow(p) : p \in People} \union {InvitationRow(i) : i \in Invitations}
        \union {Address(p) : p \in People \union {None}} \union {KeyRow}

Txn == [pc : PCs, ask : Ask \union {None}, role : Role \union {None},
        seen : Role \union {None}, counted : (SUBSET People) \union {None},
        joins : BOOLEAN, holds : SUBSET Rows]

InvitationStates == {"unsent", "pending", "accepted", "revoked"}
Invitation == [for : People \union {None}, role : Role \union {None},
               state : InvitationStates, expired : BOOLEAN, mailed : BOOLEAN,
               byOwner : BOOLEAN]

MembershipType ==
  /\ members \in [People -> Role \union {None}]
  /\ invitations \in [Invitations -> Invitation]
  /\ apiKey \in {"none", "live", "revoked", "expired"}
  /\ txn \in [Slots -> Txn]

WellFormed(ask) ==
  /\ ask \in Ask
  /\ ask.op \in {"change", "remove", "invite"} => ask.who \in People
  /\ ask.op \in {"revoke", "accept"} => ask.inv \in Invitations
  /\ ask.op = "accept" => ask.by \in People
  /\ ask.op = "remove" => ask.role = None

Sent(i) == i \in Invitations /\ invitations[i].state # "unsent"

\* A change or removal has passed the guard, and counted if it takes an owner away.
TouchOK(t) ==
  t.ask.op \in {"change", "remove"} /\ t.pc \in {"count", "write", "commit"} =>
    /\ MayTouch(t.role, t.seen, t.ask.role)
    /\ t.pc # "count" /\ t.seen = "owner" /\ t.ask.role # "owner" =>
         t.counted \in SUBSET People /\ Cardinality(t.counted) # 1

\* Only an owner's invitation offers ownership, and it has a number to be mailed by.
InviteOK(t) ==
  t.ask.op = "invite" =>
    /\ t.pc \in {"pending", "write", "commit"} /\ t.ask.role = "owner" => t.role = "owner"
    /\ t.pc \in {"commit", "mail"} => t.ask.inv \in Invitations
    /\ t.pc = "commit" => ~Sent(t.ask.inv) /\ InvitationRow(t.ask.inv) \in t.holds

\* What is revoked was sent, and what is accepted was sent to who accepts.
RevokeOK(t) ==
  t.ask.op = "revoke" /\ t.pc \in {"write", "commit"} => Sent(t.ask.inv)
AcceptOK(t) ==
  t.ask.op = "accept" /\ t.pc \in {"member", "write", "commit"} =>
    /\ Sent(t.ask.inv) /\ invitations[t.ask.inv].for = t.ask.by
    /\ t.pc = "commit" => /\ InvitationRow(t.ask.inv) \in t.holds
                          /\ invitations[t.ask.inv].state # "revoked"

\* What a transaction that is about to commit holds is what it will write.
HoldsOK(t) ==
  /\ t.pc # "commit" => t.holds = {}
  /\ \A p \in People : MemberRow(p) \in t.holds =>
       \/ t.ask.op \in {"change", "remove"} /\ p = t.ask.who /\ members[p] # None
       \/ t.ask.op = "accept" /\ p = t.ask.by /\ members[p] = None
  /\ \A i \in Invitations : InvitationRow(i) \in t.holds =>
       t.ask.op \in {"invite", "revoke", "accept"} /\ i = t.ask.inv
  /\ KeyRow \in t.holds => t.ask.op \in {"mint", "unmint"}

TxnOK(t) ==
  /\ t.pc = "idle" => t = Idle
  /\ t.pc # "idle" =>
       WellFormed(t.ask) /\ TouchOK(t) /\ InviteOK(t) /\ RevokeOK(t) /\ AcceptOK(t)
  /\ t.pc = "mail" => t.ask.op = "invite"
  /\ HoldsOK(t)

OffersOK == \A i \in Invitations :
              Sent(i) /\ invitations[i].role = "owner" => invitations[i].byOwner

LocksOK == \A r, q \in Slots : r # q => txn[r].holds \intersect txn[q].holds = {}

MembershipInv ==
  /\ MembershipType
  /\ \A r \in Slots : TxnOK(txn[r])
  /\ OffersOK
  /\ LocksOK

-----------------------------------------------------------------------------
\* The rows are told apart by what they are rows of.
LEMMA RowsDiffer ==
  /\ \A p, q : MemberRow(p) = MemberRow(q) => p = q
  /\ \A i, k : InvitationRow(i) = InvitationRow(k) => i = k
  /\ \A p, i : /\ MemberRow(p) # InvitationRow(i) /\ MemberRow(p) # Address(i)
               /\ InvitationRow(p) # Address(i)
  /\ \A p : MemberRow(p) # KeyRow /\ InvitationRow(p) # KeyRow /\ Address(p) # KeyRow
BY DEF MemberRow, InvitationRow, Address, KeyRow

LEMMA IdleOK ==
  /\ Idle \in Txn
  /\ Idle.pc = "idle" /\ Idle.holds = {}
  /\ TxnOK(Idle)
<1>1. /\ Idle.pc = "idle" /\ Idle.holds = {} /\ Idle = Idle
  BY DEF Idle
<1>2. Idle \in Txn
  BY DEF Idle, Txn, PCs
<1>3. HoldsOK(Idle)
  BY <1>1 DEF HoldsOK
<1> QED
  BY <1>1, <1>2, <1>3 DEF TxnOK

LEMMA MembershipInit == Init => MembershipInv
<1> SUFFICES ASSUME Init PROVE MembershipInv
  OBVIOUS
<1>1. MembershipType
  BY IdleOK, MembershipAssumption
     DEF Init, MembershipType, Invitation, InvitationStates, Role
<1>2. \A r \in Slots : TxnOK(txn[r])
  BY IdleOK DEF Init
<1>3. OffersOK
  BY DEF Init, OffersOK, Sent
<1>4. LocksOK
  BY DEF Init, LocksOK, Idle
<1> QED
  BY <1>1, <1>2, <1>3, <1>4 DEF MembershipInv

\* A step that changes one transaction and no committed row.
LEMMA OneMoves ==
  ASSUME MembershipInv, NEW r \in Slots, NEW t \in Txn, TxnOK(t), Free(r, t.holds),
         txn' = [txn EXCEPT ![r] = t], UNCHANGED dbVars
  PROVE  MembershipInv'
<1>1. MembershipType'
  BY DEF MembershipInv, MembershipType, dbVars
<1>2. \A q \in Slots : txn'[q] = IF q = r THEN t ELSE txn[q]
  BY DEF MembershipInv, MembershipType
<1>3. \A u : TxnOK(u)' <=> TxnOK(u)
  BY DEF dbVars, TxnOK, TouchOK, InviteOK, RevokeOK, AcceptOK, HoldsOK, Sent, WellFormed
<1>4. \A q \in Slots : TxnOK(txn[q])'
  <2> SUFFICES ASSUME NEW q \in Slots PROVE TxnOK(txn[q])'
    OBVIOUS
  <2> QED
    BY <1>2 DEF MembershipInv, dbVars, TxnOK, TouchOK, InviteOK, RevokeOK, AcceptOK, HoldsOK, Sent, WellFormed
<1>5. OffersOK'
  BY DEF MembershipInv, OffersOK, Sent, dbVars
<1>6. LocksOK'
  BY <1>2 DEF MembershipInv, LocksOK, Free
<1> QED
  BY <1>1, <1>4, <1>5, <1>6 DEF MembershipInv

\* Giving up releases what was held.
LEMMA Ends ==
  ASSUME MembershipInv, NEW r \in Slots, End(r), UNCHANGED dbVars
  PROVE  MembershipInv'
<1>1. Free(r, Idle.holds)
  BY IdleOK DEF Free
<1> QED
  BY <1>1, IdleOK, OneMoves DEF End

\* A step that goes on to another statement than the commit, and holds nothing.
LEMMA GoesOn ==
  ASSUME MembershipInv, NEW r \in Slots, NEW t \in Txn,
         t.pc \notin {"idle", "commit", "mail"}, t.holds = {},
         WellFormed(t.ask), TouchOK(t), InviteOK(t), RevokeOK(t), AcceptOK(t),
         txn' = [txn EXCEPT ![r] = t], UNCHANGED dbVars
  PROVE  MembershipInv'
<1>1. HoldsOK(t)
  BY DEF HoldsOK
<1>2. TxnOK(t) /\ Free(r, t.holds)
  BY <1>1 DEF TxnOK, Free
<1> QED
  BY <1>2, OneMoves

\* Authentication leaves nothing that any condition speaks of.
LEMMA Starts ==
  ASSUME MembershipInv, NEW r \in Slots, NEW ask \in Asks, NEW role \in Role \union {None},
         NEW step \in {"touch", "load"}, Start(r, ask, role, step), UNCHANGED dbVars
  PROVE  MembershipInv'
<1> DEFINE t == [Idle EXCEPT !.pc = step, !.ask = ask, !.role = role]
<1>1. /\ t \in Txn /\ t.pc = step /\ t.ask = ask /\ t.holds = {} /\ t.seen = None
  <2>1. ask \in Ask
    BY MembershipAssumption
  <2> QED
    BY <2>1, IdleOK DEF Idle, Txn, PCs
<1>2. WellFormed(ask)
  BY MembershipAssumption DEF WellFormed
<1>3. TouchOK(t) /\ InviteOK(t) /\ RevokeOK(t) /\ AcceptOK(t)
  BY <1>1 DEF TouchOK, InviteOK, RevokeOK, AcceptOK
<1> QED
  BY <1>1, <1>2, <1>3, GoesOn DEF Start

LEMMA AuthorizeStep ==
  ASSUME MembershipInv, NEW r \in Slots,
         AuthorizeMember(r) \/ AuthorizeInvitee(r) \/ AuthorizeKey(r) \/ TouchKey(r)
  PROVE  MembershipInv'
<1>1. CASE AuthorizeMember(r)
  <2>1. PICK ask \in Asks : ask.by \in People /\ Start(r, ask, members[ask.by], "load")
    BY <1>1 DEF AuthorizeMember
  <2>2. members[ask.by] \in Role \union {None}
    BY <2>1 DEF MembershipInv, MembershipType
  <2> QED
    BY <1>1, <2>1, <2>2, Starts DEF AuthorizeMember
<1>2. CASE AuthorizeInvitee(r)
  BY <1>2, Starts DEF AuthorizeInvitee
<1>3. CASE AuthorizeKey(r)
  BY <1>3, Starts DEF AuthorizeKey, KeyRole, Role
<1>4. CASE TouchKey(r)
  <2> DEFINE t == [txn[r] EXCEPT !.pc = "load"]
  <2>1. txn[r] \in Txn /\ TxnOK(txn[r]) /\ txn[r].pc = "touch"
    BY <1>4 DEF MembershipInv, MembershipType, TouchKey
  <2>2. /\ t \in Txn /\ t.pc = "load" /\ t.ask = txn[r].ask /\ t.holds = {}
    BY <2>1 DEF Txn, PCs, TxnOK, HoldsOK
  <2>3. WellFormed(t.ask) /\ TouchOK(t) /\ InviteOK(t) /\ RevokeOK(t) /\ AcceptOK(t)
    BY <2>1, <2>2 DEF TxnOK, TouchOK, InviteOK, RevokeOK, AcceptOK
  <2> QED
    BY <1>4, <2>2, <2>3, GoesOn DEF TouchKey, Goto
<1> QED
  BY <1>1, <1>2, <1>3, <1>4

-----------------------------------------------------------------------------
\* What is known of a transaction under way.
LEMMA UnderWay ==
  ASSUME MembershipInv, NEW r \in Slots, txn[r].pc # "idle"
  PROVE  /\ txn[r] \in Txn /\ txn[r].ask \in Ask
         /\ WellFormed(txn[r].ask) /\ TouchOK(txn[r]) /\ InviteOK(txn[r])
         /\ RevokeOK(txn[r]) /\ AcceptOK(txn[r]) /\ HoldsOK(txn[r])
BY DEF MembershipInv, MembershipType, TxnOK, WellFormed

\* Roles are changed and members removed.
LEMMA TouchStep ==
  ASSUME MembershipInv, NEW r \in Slots,
         LoadTarget(r) \/ CountOwners(r) \/ WriteTarget(r)
  PROVE  MembershipInv'
<1> DEFINE ask == txn[r].ask
<1>1. /\ txn[r].pc \in {"load", "count", "write"}
      /\ ask.op \in {"change", "remove"} /\ UNCHANGED dbVars
  BY DEF LoadTarget, CountOwners, WriteTarget, At
<1>2. /\ txn[r] \in Txn /\ ask \in Ask
      /\ WellFormed(ask) /\ TouchOK(txn[r]) /\ HoldsOK(txn[r])
      /\ txn[r].holds = {} /\ ask.who \in People
  BY <1>1, UnderWay DEF HoldsOK, WellFormed
<1>3. CASE LoadTarget(r)
  <2> DEFINE target == IF ask.who = ask.by THEN txn[r].role ELSE members[ask.who]
             t == [txn[r] EXCEPT !.seen = target,
                                 !.pc = IF target = "owner" /\ ask.role # "owner"
                                          THEN "count" ELSE "write"]
  <2>1. CASE End(r)
    BY <1>1, <2>1, Ends
  <2>2. CASE ~End(r)
    <3>1. MayTouch(txn[r].role, target, ask.role) /\ txn' = [txn EXCEPT ![r] = t]
      BY <1>3, <2>2 DEF LoadTarget
    <3>2. target \in Role \union {None}
      BY <1>2 DEF MembershipInv, MembershipType, Txn
    <3>3. /\ t \in Txn /\ t.pc \in {"count", "write"} /\ t.ask = ask /\ t.holds = {}
          /\ t.seen = target /\ t.role = txn[r].role
          /\ t.pc # "count" => ~(target = "owner" /\ ask.role # "owner")
      BY <1>2, <3>2 DEF Txn, PCs
    <3>4. TouchOK(t) /\ InviteOK(t) /\ RevokeOK(t) /\ AcceptOK(t)
      BY <1>1, <3>1, <3>3 DEF TouchOK, InviteOK, RevokeOK, AcceptOK
    <3> QED
      BY <1>1, <1>2, <3>1, <3>3, <3>4, GoesOn
  <2> QED
    BY <2>1, <2>2
<1>4. CASE CountOwners(r)
  <2> DEFINE t == [txn[r] EXCEPT !.counted = Owners, !.pc = "write"]
  <2>1. CASE Cardinality(Owners) = 1
    BY <1>1, <1>4, <2>1, Ends DEF CountOwners
  <2>2. CASE Cardinality(Owners) # 1
    <3>1. txn' = [txn EXCEPT ![r] = t] /\ txn[r].pc = "count"
      BY <1>4, <2>2 DEF CountOwners, At
    <3>2. /\ t \in Txn /\ t.pc = "write" /\ t.ask = ask /\ t.holds = {}
          /\ t.seen = txn[r].seen /\ t.role = txn[r].role /\ t.counted = Owners
      BY <1>2 DEF Txn, PCs, Owners
    <3>3. TouchOK(t) /\ InviteOK(t) /\ RevokeOK(t) /\ AcceptOK(t)
      BY <1>1, <1>2, <2>2, <3>1, <3>2 DEF TouchOK, InviteOK, RevokeOK, AcceptOK, Owners
    <3> QED
      BY <1>1, <1>2, <3>1, <3>2, <3>3, GoesOn
  <2> QED
    BY <2>1, <2>2
<1>5. CASE WriteTarget(r)
  <2>1. CASE End(r)
    BY <1>1, <2>1, Ends
  <2>2. ASSUME NEW rows \in SUBSET {MemberRow(ask.who)}, Hold(r, rows), Free(r, rows),
               rows # {} => members[ask.who] # None
        PROVE  MembershipInv'
    <3> DEFINE t == [txn[r] EXCEPT !.pc = "commit", !.holds = rows]
    <3>1. txn' = [txn EXCEPT ![r] = t] /\ txn[r].pc = "write"
      BY <1>5, <2>2 DEF Hold, WriteTarget, At
    <3>2. /\ t \in Txn /\ t.pc = "commit" /\ t.ask = ask /\ t.holds = rows
          /\ t.seen = txn[r].seen /\ t.role = txn[r].role /\ t.counted = txn[r].counted
      <4>1. rows \in SUBSET Rows
        BY <1>2, <2>2 DEF Rows
      <4> QED
        BY <1>2, <4>1 DEF Txn, PCs
    <3>3. TouchOK(t) /\ InviteOK(t) /\ RevokeOK(t) /\ AcceptOK(t)
      BY <1>1, <1>2, <3>1, <3>2 DEF TouchOK, InviteOK, RevokeOK, AcceptOK
    <3>4. HoldsOK(t)
      BY <1>1, <2>2, <3>2, RowsDiffer DEF HoldsOK
    <3>5. TxnOK(t) /\ Free(r, t.holds)
      BY <1>2, <2>2, <3>2, <3>3, <3>4 DEF TxnOK
    <3> QED
      BY <1>1, <3>1, <3>2, <3>5, OneMoves
  <2>3. Free(r, {})
    BY DEF Free
  <2> QED
    BY <1>5, <2>1, <2>2, <2>3 DEF WriteTarget
<1> QED
  BY <1>3, <1>4, <1>5

\* Goto keeps everything but the program counter.
LEMMA GotoStep ==
  ASSUME MembershipInv, NEW r \in Slots, txn[r].pc # "idle", txn[r].holds = {},
         NEW step \in {"load", "pending", "member", "write"}, Goto(r, step),
         UNCHANGED dbVars,
         LET t == [txn[r] EXCEPT !.pc = step]
         IN  TouchOK(t) /\ InviteOK(t) /\ RevokeOK(t) /\ AcceptOK(t)
  PROVE  MembershipInv'
<1> DEFINE t == [txn[r] EXCEPT !.pc = step]
<1>1. /\ t \in Txn /\ t.pc = step /\ t.ask = txn[r].ask /\ t.holds = {}
      /\ WellFormed(t.ask)
  BY UnderWay DEF Txn, PCs
<1> QED
  BY <1>1, GoesOn DEF Goto

\* Hold takes rows that are free, and commits next.
LEMMA HoldStep ==
  ASSUME MembershipInv, NEW r \in Slots, txn[r].pc # "idle",
         NEW rows \in SUBSET Rows, Hold(r, rows), Free(r, rows), UNCHANGED dbVars,
         LET t == [txn[r] EXCEPT !.pc = "commit", !.holds = rows]
         IN  TouchOK(t) /\ InviteOK(t) /\ RevokeOK(t) /\ AcceptOK(t) /\ HoldsOK(t)
  PROVE  MembershipInv'
<1> DEFINE t == [txn[r] EXCEPT !.pc = "commit", !.holds = rows]
<1>1. /\ t \in Txn /\ t.pc = "commit" /\ t.ask = txn[r].ask /\ t.holds = rows
      /\ WellFormed(t.ask)
  BY UnderWay DEF Txn, PCs
<1>2. TxnOK(t)
  BY <1>1 DEF TxnOK
<1> QED
  BY <1>1, <1>2, OneMoves DEF Hold

LEMMA FreeOfNothing == ASSUME NEW r \in Slots PROVE Free(r, {})
BY DEF Free

LEMMA InviteStep ==
  ASSUME MembershipInv, NEW r \in Slots,
         LoadInvitee(r) \/ CheckPending(r) \/ InsertInvitation(r)
  PROVE  MembershipInv'
<1> DEFINE ask == txn[r].ask
<1>1. /\ txn[r].pc \in {"load", "pending", "write"}
      /\ ask.op = "invite" /\ UNCHANGED dbVars
  BY DEF LoadInvitee, CheckPending, InsertInvitation, At
<1>2. /\ txn[r] \in Txn /\ ask \in Ask /\ WellFormed(ask) /\ InviteOK(txn[r])
      /\ txn[r].holds = {} /\ ask.who \in People
  BY <1>1, UnderWay DEF HoldsOK, WellFormed
<1>3. CASE End(r)
  BY <1>1, <1>3, Ends
<1>4. CASE LoadInvitee(r) /\ ~End(r)
  <2>1. MayTouch(txn[r].role, "viewer", ask.role) /\ Goto(r, "pending")
    BY <1>4 DEF LoadInvitee
  <2> DEFINE t == [txn[r] EXCEPT !.pc = "pending"]
  <2>2. t.pc = "pending" /\ t.ask = ask /\ t.role = txn[r].role
    BY <1>2 DEF Txn
  <2>3. TouchOK(t) /\ InviteOK(t) /\ RevokeOK(t) /\ AcceptOK(t)
    BY <1>1, <2>1, <2>2 DEF TouchOK, InviteOK, RevokeOK, AcceptOK, MayTouch
  <2> QED
    BY <1>1, <1>2, <2>1, <2>3, GotoStep
<1>5. CASE CheckPending(r) /\ ~End(r)
  <2>1. Goto(r, "write") /\ txn[r].pc = "pending"
    BY <1>5 DEF CheckPending, At
  <2> DEFINE t == [txn[r] EXCEPT !.pc = "write"]
  <2>2. t.pc = "write" /\ t.ask = ask /\ t.role = txn[r].role
    BY <1>2 DEF Txn
  <2>3. TouchOK(t) /\ InviteOK(t) /\ RevokeOK(t) /\ AcceptOK(t)
    BY <1>1, <1>2, <2>1, <2>2 DEF TouchOK, InviteOK, RevokeOK, AcceptOK
  <2> QED
    BY <1>1, <1>2, <2>1, <2>3, GotoStep
<1>6. CASE InsertInvitation(r) /\ ~End(r)
  <2>1. PICK i \in Invitations :
          /\ invitations[i].state = "unsent"
          /\ Free(r, {InvitationRow(i)}) /\ Free(r, {Address(ask.who)})
          /\ txn' = [txn EXCEPT
               ![r].pc = "commit", ![r].ask.inv = i,
               ![r].holds = {InvitationRow(i), Address(ask.who)}]
    BY <1>6 DEF InsertInvitation
  <2> DEFINE rows == {InvitationRow(i), Address(ask.who)}
             t == [txn[r] EXCEPT !.pc = "commit", !.ask.inv = i, !.holds = rows]
  <2>2. rows \in SUBSET Rows
    BY <1>2 DEF Rows
  <2>3. /\ t.ask = [ask EXCEPT !.inv = i] /\ t.pc = "commit" /\ t.holds = rows
        /\ t.role = txn[r].role
    BY <1>2 DEF Txn
  <2>4. /\ t.ask \in Ask /\ t.ask.op = "invite" /\ t.ask.inv = i
        /\ t.ask.role = ask.role /\ WellFormed(t.ask)
    BY <1>1, <1>2, <2>3 DEF Ask, WellFormed
  <2>5. t \in Txn
    BY <1>2, <2>2, <2>3, <2>4 DEF Txn, PCs
  <2>6. txn' = [txn EXCEPT ![r] = t]
    BY <2>1
  <2>7. TouchOK(t) /\ InviteOK(t) /\ RevokeOK(t) /\ AcceptOK(t)
    <3>1. txn[r].pc = "write"
      BY <1>6 DEF InsertInvitation, At
    <3> QED
      BY <1>1, <1>2, <2>1, <2>3, <2>4, <3>1 DEF TouchOK, InviteOK, RevokeOK, AcceptOK, Sent
  <2>8. HoldsOK(t)
    BY <2>3, <2>4, RowsDiffer DEF HoldsOK
  <2>9. TxnOK(t) /\ Free(r, t.holds)
    BY <2>1, <2>3, <2>4, <2>7, <2>8 DEF TxnOK, Free
  <2> QED
    BY <1>1, <2>5, <2>6, <2>9, OneMoves
<1> QED
  BY <1>3, <1>4, <1>5, <1>6

LEMMA RowsOfIsRows ==
  ASSUME MembershipType, NEW i \in Invitations
  PROVE  /\ RowsOf(i) \in SUBSET Rows
         /\ InvitationRow(i) \in RowsOf(i)
         /\ \A k : InvitationRow(k) \in RowsOf(i) => k = i
         /\ \A p : MemberRow(p) \notin RowsOf(i)
         /\ KeyRow \notin RowsOf(i)
<1>1. invitations[i].for \in People \union {None}
  BY DEF MembershipType, Invitation
<1> QED
  BY <1>1, RowsDiffer DEF RowsOf, Rows

LEMMA RevokeStep ==
  ASSUME MembershipInv, NEW r \in Slots, LoadRevoked(r) \/ DeleteInvitation(r)
  PROVE  MembershipInv'
<1> DEFINE ask == txn[r].ask
           i == ask.inv
<1>1. txn[r].pc \in {"load", "write"} /\ ask.op = "revoke" /\ UNCHANGED dbVars
  BY DEF LoadRevoked, DeleteInvitation, At
<1>2. /\ txn[r] \in Txn /\ ask \in Ask /\ WellFormed(ask) /\ RevokeOK(txn[r])
      /\ txn[r].holds = {} /\ i \in Invitations
  BY <1>1, UnderWay DEF HoldsOK, WellFormed
<1>3. CASE LoadRevoked(r)
  <2>1. CASE End(r)
    BY <1>1, <2>1, Ends
  <2>2. CASE ~End(r)
    <3>1. Pending(i) /\ Goto(r, "write")
      BY <1>3, <2>2 DEF LoadRevoked
    <3> DEFINE t == [txn[r] EXCEPT !.pc = "write"]
    <3>2. t.pc = "write" /\ t.ask = ask
      BY <1>2 DEF Txn
    <3>3. TouchOK(t) /\ InviteOK(t) /\ RevokeOK(t) /\ AcceptOK(t)
      BY <1>1, <1>2, <3>1, <3>2 DEF TouchOK, InviteOK, RevokeOK, AcceptOK, Sent, Pending
    <3> QED
      BY <1>1, <1>2, <3>1, <3>3, GotoStep
  <2> QED
    BY <2>1, <2>2
<1>4. CASE DeleteInvitation(r)
  <2> DEFINE rows == IF invitations[i].state = "revoked" THEN {} ELSE RowsOf(i)
             t == [txn[r] EXCEPT !.pc = "commit", !.holds = rows]
  <2>1. Hold(r, rows) /\ Free(r, rows) /\ txn[r].pc = "write"
    BY <1>4, FreeOfNothing DEF DeleteInvitation, At
  <2>2. /\ rows \in SUBSET Rows
        /\ \A k : InvitationRow(k) \in rows => k = i
        /\ \A p : MemberRow(p) \notin rows
        /\ KeyRow \notin rows
    BY <1>2, RowsOfIsRows DEF MembershipInv
  <2>3. t.pc = "commit" /\ t.ask = ask /\ t.holds = rows
    BY <1>2 DEF Txn
  <2>4. TouchOK(t) /\ InviteOK(t) /\ RevokeOK(t) /\ AcceptOK(t)
    BY <1>1, <1>2, <2>1, <2>3 DEF TouchOK, InviteOK, RevokeOK, AcceptOK
  <2>5. HoldsOK(t)
    BY <1>1, <2>2, <2>3 DEF HoldsOK
  <2> QED
    BY <1>1, <2>1, <2>2, <2>4, <2>5, HoldStep
<1> QED
  BY <1>3, <1>4

LEMMA AcceptStep ==
  ASSUME MembershipInv, NEW r \in Slots,
         LoadInvitation(r) \/ CheckMember(r) \/ WriteAcceptance(r)
  PROVE  MembershipInv'
<1> DEFINE ask == txn[r].ask
           i == ask.inv
           p == ask.by
<1>1. txn[r].pc \in {"load", "member", "write"} /\ ask.op = "accept" /\ UNCHANGED dbVars
  BY DEF LoadInvitation, CheckMember, WriteAcceptance, At
<1>2. /\ txn[r] \in Txn /\ ask \in Ask /\ WellFormed(ask) /\ AcceptOK(txn[r])
      /\ txn[r].holds = {} /\ i \in Invitations /\ p \in People
  BY <1>1, UnderWay DEF HoldsOK, WellFormed
<1>3. CASE LoadInvitation(r)
  <2>1. CASE End(r)
    BY <1>1, <2>1, Ends
  <2>2. CASE ~End(r)
    <3>1. Pending(i) /\ invitations[i].for = p /\ Goto(r, "member")
      BY <1>3, <2>2 DEF LoadInvitation
    <3> DEFINE t == [txn[r] EXCEPT !.pc = "member"]
    <3>2. t.pc = "member" /\ t.ask = ask
      BY <1>2 DEF Txn
    <3>3. TouchOK(t) /\ InviteOK(t) /\ RevokeOK(t) /\ AcceptOK(t)
      BY <1>1, <1>2, <3>1, <3>2 DEF TouchOK, InviteOK, RevokeOK, AcceptOK, Sent, Pending
    <3> QED
      BY <1>1, <1>2, <3>1, <3>3, GotoStep
  <2> QED
    BY <2>1, <2>2
<1>4. CASE CheckMember(r)
  <2> DEFINE t == [txn[r] EXCEPT !.joins = members[p] = None, !.pc = "write"]
  <2>1. txn' = [txn EXCEPT ![r] = t] /\ txn[r].pc = "member"
    BY <1>4 DEF CheckMember, At
  <2>2. t \in Txn /\ t.pc = "write" /\ t.ask = ask /\ t.holds = {}
    BY <1>2 DEF Txn, PCs
  <2>3. TouchOK(t) /\ InviteOK(t) /\ RevokeOK(t) /\ AcceptOK(t)
    BY <1>1, <1>2, <2>1, <2>2 DEF TouchOK, InviteOK, RevokeOK, AcceptOK
  <2> QED
    BY <1>1, <1>2, <2>1, <2>2, <2>3, GoesOn
<1>5. CASE WriteAcceptance(r)
  <2>1. CASE End(r)
    BY <1>1, <2>1, Ends
  <2>2. CASE ~End(r)
    <3> DEFINE rows == RowsOf(i) \union (IF txn[r].joins THEN {MemberRow(p)} ELSE {})
               t == [txn[r] EXCEPT !.pc = "commit", !.holds = rows]
    <3>1. /\ Hold(r, rows) /\ Free(r, rows) /\ txn[r].pc = "write"
          /\ invitations[i].state # "revoked"
          /\ txn[r].joins => members[p] = None
      BY <1>5, <2>2 DEF WriteAcceptance, At
    <3>2. /\ rows \in SUBSET Rows
          /\ InvitationRow(i) \in rows
          /\ \A k : InvitationRow(k) \in rows => k = i
          /\ \A q : MemberRow(q) \in rows => q = p /\ txn[r].joins
          /\ KeyRow \notin rows
      <4>1. {MemberRow(p)} \in SUBSET Rows
        BY <1>2 DEF Rows
      <4> QED
        BY <1>2, <4>1, RowsOfIsRows, RowsDiffer DEF MembershipInv
    <3>3. t.pc = "commit" /\ t.ask = ask /\ t.holds = rows
      BY <1>2 DEF Txn
    <3>4. TouchOK(t) /\ InviteOK(t) /\ RevokeOK(t) /\ AcceptOK(t)
      BY <1>1, <1>2, <3>1, <3>2, <3>3 DEF TouchOK, InviteOK, RevokeOK, AcceptOK
    <3>5. HoldsOK(t)
      BY <1>1, <3>1, <3>2, <3>3 DEF HoldsOK
    <3> QED
      BY <1>1, <3>1, <3>2, <3>4, <3>5, HoldStep
  <2> QED
    BY <2>1, <2>2
<1> QED
  BY <1>3, <1>4, <1>5

LEMMA KeyStep ==
  ASSUME MembershipInv, NEW r \in Slots, InsertKey(r) \/ LoadKey(r)
  PROVE  MembershipInv'
<1>1. /\ txn[r].pc = "load" /\ txn[r].ask.op \in {"mint", "unmint"} /\ UNCHANGED dbVars
  BY DEF InsertKey, LoadKey, At
<1>2. /\ txn[r] \in Txn /\ txn[r].holds = {}
  BY <1>1, UnderWay DEF HoldsOK
<1>3. CASE End(r)
  BY <1>1, <1>3, Ends
<1>4. ASSUME NEW rows \in SUBSET {KeyRow}, Hold(r, rows), Free(r, rows)
      PROVE  MembershipInv'
  <2> DEFINE t == [txn[r] EXCEPT !.pc = "commit", !.holds = rows]
  <2>1. t.pc = "commit" /\ t.ask = txn[r].ask /\ t.holds = rows
    BY <1>2 DEF Txn
  <2>2. TouchOK(t) /\ InviteOK(t) /\ RevokeOK(t) /\ AcceptOK(t) /\ HoldsOK(t)
    BY <1>1, <1>4, <2>1, RowsDiffer DEF TouchOK, InviteOK, RevokeOK, AcceptOK, HoldsOK
  <2>3. rows \in SUBSET Rows
    BY <1>4 DEF Rows
  <2> QED
    BY <1>1, <1>4, <2>2, <2>3, HoldStep
<1> QED
  BY <1>3, <1>4, FreeOfNothing DEF InsertKey, LoadKey

-----------------------------------------------------------------------------
\* A transaction does not notice what is done to rows it does not hold: an
\* invitation that was sent stays one, for the same address.
LEMMA OthersStay ==
  ASSUME MembershipInv, NEW q \in Slots, txn'[q] = txn[q],
         \A p \in People : MemberRow(p) \in txn[q].holds => members'[p] = members[p],
         \A i \in Invitations :
           /\ Sent(i) => invitations'[i].state # "unsent" /\ invitations'[i].for = invitations[i].for
           /\ InvitationRow(i) \in txn[q].holds => invitations'[i].state = invitations[i].state
  PROVE  TxnOK(txn[q])'
<1>1. TxnOK(txn[q])
  BY DEF MembershipInv
<1>2. CASE txn[q].pc = "idle"
  BY <1>1, <1>2, RowsDiffer DEF TxnOK, HoldsOK, Idle
<1>3. CASE txn[q].pc # "idle"
  <2> DEFINE ask == txn[q].ask
  <2>1. /\ WellFormed(ask) /\ TouchOK(txn[q]) /\ InviteOK(txn[q]) /\ RevokeOK(txn[q])
        /\ AcceptOK(txn[q]) /\ HoldsOK(txn[q])
    BY <1>1, <1>3 DEF TxnOK
  <2>2. WellFormed(txn[q].ask)' /\ TouchOK(txn[q])'
    BY <2>1 DEF WellFormed, TouchOK
  <2>3. InviteOK(txn[q])'
    BY <2>1 DEF InviteOK, Sent
  <2>4. RevokeOK(txn[q])'
    BY <2>1 DEF RevokeOK, Sent
  <2>5. AcceptOK(txn[q])'
    BY <2>1 DEF AcceptOK, Sent
  <2>6. HoldsOK(txn[q])'
    BY <2>1 DEF HoldsOK
  <2> QED
    BY <1>1, <1>3, <2>2, <2>3, <2>4, <2>5, <2>6 DEF TxnOK
<1> QED
  BY <1>2, <1>3

\* What a commit makes of the invitation it holds.
LEMMA CommitInvitation ==
  ASSUME MembershipInv, NEW r \in Slots, Commit(r), NEW i \in Invitations
  PROVE  /\ InvitationRow(i) \notin txn[r].holds => invitations'[i] = invitations[i]
         /\ invitations'[i] \in Invitation
         /\ Sent(i) => /\ invitations'[i].state # "unsent"
                       /\ invitations'[i].for = invitations[i].for
                       /\ invitations'[i].role = invitations[i].role
                       /\ invitations'[i].byOwner = invitations[i].byOwner
         /\ invitations'[i].state # "unsent" /\ invitations'[i].role = "owner" =>
              invitations'[i].byOwner
         /\ txn[r].ask.op = "accept" /\ i = txn[r].ask.inv =>
              invitations'[i].state = "accepted"
<1> DEFINE ask == txn[r].ask
<1>1. /\ txn[r] \in Txn /\ ask \in Ask /\ txn[r].pc = "commit" /\ WellFormed(ask)
      /\ InviteOK(txn[r]) /\ RevokeOK(txn[r]) /\ AcceptOK(txn[r]) /\ HoldsOK(txn[r])
  BY UnderWay DEF Commit
<1>2. invitations' = [k \in Invitations |-> IF InvitationRow(k) \in txn[r].holds
                                            THEN NewInvitation(r) ELSE invitations[k]]
  BY DEF Commit
<1>3. /\ invitations[i] \in Invitation
      /\ Sent(i) /\ invitations[i].role = "owner" => invitations[i].byOwner
      /\ Sent(i) <=> invitations[i].state # "unsent"
  BY DEF MembershipInv, MembershipType, OffersOK, Sent
<1>4. CASE InvitationRow(i) \notin txn[r].holds
  <2>1. invitations'[i] = invitations[i]
    BY <1>2, <1>4
  <2>2. ~(ask.op = "accept" /\ i = ask.inv)
    BY <1>1, <1>4 DEF AcceptOK
  <2> QED
    BY <1>3, <2>1, <2>2
<1>5. CASE InvitationRow(i) \in txn[r].holds
  <2>1. ask.op \in {"invite", "revoke", "accept"} /\ i = ask.inv
    BY <1>1, <1>5 DEF HoldsOK
  <2>2. invitations'[i] = NewInvitation(r)
    BY <1>2, <1>5
  <2>3. CASE ask.op = "accept"
    <3>1. invitations'[i] = [invitations[i] EXCEPT !.state = "accepted"]
      BY <2>1, <2>2, <2>3 DEF NewInvitation
    <3>2. Sent(i)
      BY <1>1, <2>1, <2>3 DEF AcceptOK
    <3> QED
      BY <1>3, <1>5, <2>3, <3>1, <3>2 DEF Invitation, InvitationStates
  <2>4. CASE ask.op = "revoke"
    <3>1. invitations'[i] = [invitations[i] EXCEPT !.state = "revoked"]
      BY <2>1, <2>2, <2>4 DEF NewInvitation
    <3>2. Sent(i)
      BY <1>1, <2>1, <2>4 DEF RevokeOK
    <3> QED
      BY <1>3, <1>5, <2>4, <3>1, <3>2 DEF Invitation, InvitationStates
  <2>5. CASE ask.op = "invite"
    <3>1. invitations'[i] = [invitations[i] EXCEPT !.state = "pending", !.for = ask.who,
                               !.role = ask.role, !.byOwner = txn[r].role = "owner"]
      BY <2>1, <2>2, <2>5 DEF NewInvitation
    <3>2. ~Sent(i) /\ ask.who \in People /\ ask.role \in Role \union {None}
      BY <1>1, <2>1, <2>5 DEF InviteOK, WellFormed, Ask
    <3>3. ask.role = "owner" => txn[r].role = "owner"
      BY <1>1, <2>5 DEF InviteOK
    <3>4. /\ invitations'[i].role = ask.role
          /\ invitations'[i].byOwner = (txn[r].role = "owner")
          /\ invitations'[i] \in Invitation
      <4> DEFINE b == txn[r].role = "owner"
      <4> HIDE DEF b
      <4>1. invitations'[i] = [invitations[i] EXCEPT !.state = "pending", !.for = ask.who,
                                 !.role = ask.role, !.byOwner = b]
        BY <3>1 DEF b
      <4>2. b \in BOOLEAN
        BY DEF b
      <4>3. invitations'[i].role = ask.role /\ invitations'[i].byOwner = b
        BY <1>3, <4>1 DEF Invitation
      <4>4. invitations'[i] \in Invitation
        BY <1>3, <3>2, <4>1, <4>2 DEF Invitation, InvitationStates
      <4> QED
        BY <4>3, <4>4 DEF b
    <3> QED
      BY <1>5, <2>5, <3>2, <3>3, <3>4
  <2> QED
    BY <2>1, <2>3, <2>4, <2>5
<1> QED
  BY <1>4, <1>5

\* What a commit makes of the membership it holds.
LEMMA CommitMember ==
  ASSUME MembershipInv, NEW r \in Slots, Commit(r), NEW p \in People
  PROVE  /\ MemberRow(p) \notin txn[r].holds => members'[p] = members[p]
         /\ MemberRow(p) \in txn[r].holds /\ txn[r].ask.op = "accept" =>
              /\ p = txn[r].ask.by /\ members[p] = None
              /\ members'[p] = invitations[txn[r].ask.inv].role
         /\ MemberRow(p) \in txn[r].holds /\ txn[r].ask.op # "accept" =>
              /\ txn[r].ask.op \in {"change", "remove"}
              /\ p = txn[r].ask.who /\ members[p] # None
              /\ members'[p] = IF txn[r].ask.op = "change" THEN txn[r].ask.role ELSE None
         /\ members'[p] \in Role \union {None}
<1> DEFINE ask == txn[r].ask
<1>1. txn[r].pc = "commit" /\ WellFormed(ask) /\ HoldsOK(txn[r])
  BY UnderWay DEF Commit
<1>2. members' = [q \in People |-> IF MemberRow(q) \in txn[r].holds
                                     THEN NewRole(r) ELSE members[q]]
  BY DEF Commit
<1>3. members[p] \in Role \union {None}
  BY DEF MembershipInv, MembershipType
<1>4. CASE MemberRow(p) \notin txn[r].holds
  BY <1>2, <1>3, <1>4
<1>5. CASE MemberRow(p) \in txn[r].holds /\ ask.op = "accept"
  <2>1. p = ask.by /\ members[p] = None /\ ask.inv \in Invitations
    BY <1>1, <1>5 DEF HoldsOK, WellFormed
  <2>2. members'[p] = invitations[ask.inv].role
    BY <1>2, <1>5 DEF NewRole
  <2>3. invitations[ask.inv].role \in Role \union {None}
    BY <2>1 DEF MembershipInv, MembershipType, Invitation
  <2> QED
    BY <1>5, <2>1, <2>2, <2>3
<1>6. CASE MemberRow(p) \in txn[r].holds /\ ask.op # "accept"
  <2>1. ask.op \in {"change", "remove"} /\ p = ask.who /\ members[p] # None
    BY <1>1, <1>6 DEF HoldsOK
  <2>2. members'[p] = IF ask.op = "change" THEN ask.role ELSE None
    BY <1>2, <1>6, <2>1 DEF NewRole
  <2>3. ask.role \in Role \union {None}
    BY <1>1 DEF WellFormed, Ask
  <2> QED
    BY <1>6, <2>1, <2>2, <2>3
<1> QED
  BY <1>4, <1>5, <1>6

LEMMA CommitStep ==
  ASSUME MembershipInv, NEW r \in Slots, Commit(r)
  PROVE  MembershipInv'
<1> DEFINE t == IF txn[r].ask.op = "invite"
                  THEN [txn[r] EXCEPT !.pc = "mail", !.holds = {}] ELSE Idle
<1>1. /\ txn[r] \in Txn /\ txn[r].pc = "commit" /\ WellFormed(txn[r].ask)
      /\ InviteOK(txn[r])
  BY UnderWay DEF Commit
<1>2. txn' = [txn EXCEPT ![r] = t]
  BY DEF Commit, End
<1>3. t \in Txn /\ t.holds = {} /\ (t.pc = "mail" => txn[r].ask.op = "invite" /\ t.ask = txn[r].ask)
      /\ t.pc \in {"idle", "mail"} /\ (t.pc = "idle" => t = Idle)
  BY <1>1, IdleOK DEF Txn, PCs
<1>4. \A q \in Slots : txn'[q] = IF q = r THEN t ELSE txn[q]
  BY <1>2 DEF MembershipInv, MembershipType
<1>5. MembershipType'
  <2>1. members' \in [People -> Role \union {None}]
    BY CommitMember DEF Commit
  <2>2. invitations' \in [Invitations -> Invitation]
    BY CommitInvitation DEF Commit
  <2>3. apiKey' \in {"none", "live", "revoked", "expired"}
    BY DEF Commit, NewKey, MembershipInv, MembershipType
  <2>4. txn' \in [Slots -> Txn]
    BY <1>2, <1>3 DEF MembershipInv, MembershipType
  <2> QED
    BY <2>1, <2>2, <2>3, <2>4 DEF MembershipType
<1>6. ASSUME NEW q \in Slots PROVE TxnOK(txn[q])'
  <2>1. CASE q = r
    <3>1. txn'[q] = t
      BY <1>4, <2>1
    <3>2. HoldsOK(txn[q])'
      BY <1>3, <3>1 DEF HoldsOK
    <3>3. ASSUME t.pc # "idle"
          PROVE  (/\ WellFormed(txn[q].ask) /\ TouchOK(txn[q]) /\ InviteOK(txn[q])
                  /\ RevokeOK(txn[q]) /\ AcceptOK(txn[q]))'
      BY <1>1, <1>3, <3>1, <3>3 DEF WellFormed, TouchOK, InviteOK, RevokeOK, AcceptOK
    <3> QED
      BY <1>3, <3>1, <3>2, <3>3 DEF TxnOK
  <2>2. CASE q # r
    <3>1. txn'[q] = txn[q] /\ txn[q].holds \intersect txn[r].holds = {}
      BY <1>4, <2>2 DEF MembershipInv, LocksOK
    <3>2. \A p \in People : MemberRow(p) \in txn[q].holds => members'[p] = members[p]
      BY <3>1, CommitMember
    <3>3. \A i \in Invitations :
            /\ Sent(i) => /\ invitations'[i].state # "unsent"
                          /\ invitations'[i].for = invitations[i].for
            /\ InvitationRow(i) \in txn[q].holds =>
                 invitations'[i].state = invitations[i].state
      BY <3>1, CommitInvitation
    <3> QED
      BY <3>1, <3>2, <3>3, OthersStay
  <2> QED
    BY <2>1, <2>2
<1>7. OffersOK'
  BY CommitInvitation DEF OffersOK, Sent
<1>8. LocksOK'
  BY <1>3, <1>4 DEF MembershipInv, LocksOK
<1> QED
  BY <1>5, <1>6, <1>7, <1>8 DEF MembershipInv

\* The mail goes out, or time passes: an invitation is mailed or expires.
LEMMA InvitationStep ==
  ASSUME MembershipInv, NEW i \in Invitations, NEW v \in Invitation,
         invitations' = [invitations EXCEPT ![i] = v],
         v.state = invitations[i].state, v.for = invitations[i].for,
         v.role = invitations[i].role, v.byOwner = invitations[i].byOwner,
         members' = members, apiKey' = apiKey,
         \/ txn' = txn
         \/ \E r \in Slots : End(r)
  PROVE  MembershipInv'
<1>1. MembershipType' /\ \A q \in Slots : txn'[q] = txn[q] \/ txn'[q] = Idle
  BY IdleOK DEF MembershipInv, MembershipType, End
<1>2. \A k \in Invitations : /\ invitations'[k].state = invitations[k].state
                             /\ invitations'[k].for = invitations[k].for
                             /\ invitations'[k].role = invitations[k].role
                             /\ invitations'[k].byOwner = invitations[k].byOwner
  BY DEF MembershipInv, MembershipType
<1>3. ASSUME NEW q \in Slots PROVE TxnOK(txn[q])'
  <2>1. CASE txn'[q] = txn[q]
    BY <1>2, <2>1, OthersStay DEF Sent
  <2>2. CASE txn'[q] = Idle
    <3>1. HoldsOK(txn[q])'
      BY <2>2, IdleOK DEF HoldsOK
    <3> QED
      BY <2>2, <3>1, IdleOK DEF TxnOK
  <2> QED
    BY <1>1, <2>1, <2>2
<1>4. OffersOK'
  BY <1>2 DEF MembershipInv, OffersOK, Sent
<1>5. LocksOK'
  BY <1>1, IdleOK DEF MembershipInv, LocksOK
<1> QED
  BY <1>1, <1>3, <1>4, <1>5 DEF MembershipInv

LEMMA MembershipStep == MembershipInv /\ [Next]_vars => MembershipInv'
<1> SUFFICES ASSUME MembershipInv, [Next]_vars PROVE MembershipInv'
  OBVIOUS
<1>1. ASSUME NEW r \in Slots, Fail(r) PROVE MembershipInv'
  BY <1>1, Ends DEF Fail
<1>2. ASSUME NEW r \in Slots, MailInvitation(r) PROVE MembershipInv'
  <2> DEFINE i == txn[r].ask.inv
             v == [invitations[i] EXCEPT !.mailed = TRUE]
  <2>1. i \in Invitations
    <3>1. /\ TxnOK(txn[r]) /\ txn[r].pc = "mail" /\ txn[r] \in Txn
      BY <1>2 DEF MailInvitation, MembershipInv, MembershipType
    <3>2. txn[r].ask.op = "invite"
      BY <3>1 DEF TxnOK
    <3> QED
      BY <3>1, <3>2 DEF TxnOK, InviteOK
  <2>2. /\ v \in Invitation
        /\ v.state = invitations[i].state /\ v.for = invitations[i].for
        /\ v.role = invitations[i].role /\ v.byOwner = invitations[i].byOwner
    BY <2>1 DEF MembershipInv, MembershipType, Invitation
  <2>3. invitations' = [invitations EXCEPT ![i] = v]
    BY <1>2 DEF MailInvitation
  <2> QED
    BY <1>2, <2>1, <2>2, <2>3, InvitationStep DEF MailInvitation
<1>3. ASSUME NEW i \in Invitations, ExpireInvitation(i) PROVE MembershipInv'
  <2> DEFINE v == [invitations[i] EXCEPT !.expired = TRUE]
  <2>1. /\ v \in Invitation
        /\ v.state = invitations[i].state /\ v.for = invitations[i].for
        /\ v.role = invitations[i].role /\ v.byOwner = invitations[i].byOwner
    BY DEF MembershipInv, MembershipType, Invitation
  <2>2. invitations' = [invitations EXCEPT ![i] = v]
    BY <1>3 DEF ExpireInvitation
  <2> QED
    BY <1>3, <2>1, <2>2, InvitationStep DEF ExpireInvitation
<1>4. CASE ExpireKey \/ UNCHANGED vars
  <2>1. /\ members' = members /\ invitations' = invitations /\ txn' = txn
        /\ apiKey' \in {"none", "live", "revoked", "expired"}
    BY <1>4 DEF ExpireKey, vars, MembershipInv, MembershipType
  <2>2. MembershipType' /\ OffersOK' /\ LocksOK'
    BY <2>1 DEF MembershipInv, MembershipType, OffersOK, LocksOK, Sent
  <2>3. \A q \in Slots : TxnOK(txn[q])'
    BY <2>1, OthersStay DEF Sent
  <2> QED
    BY <2>2, <2>3 DEF MembershipInv
<1> QED
  BY <1>1, <1>2, <1>3, <1>4, AuthorizeStep, TouchStep, InviteStep, RevokeStep, AcceptStep,
     KeyStep, CommitStep DEF Next

LEMMA MembershipAlways == Spec => []MembershipInv
<1>1. Init => MembershipInv
  BY MembershipInit
<1>2. MembershipInv /\ [Next]_vars => MembershipInv'
  BY MembershipStep
<1> QED
  BY <1>1, <1>2, PTL DEF Spec

-----------------------------------------------------------------------------
\* Roles, invitations and the key keep their types, and no row is ever held by two
\* transactions.
THEOREM TypeCorrect == Spec => []TypeOK
<1>1. MembershipInv => TypeOK
  <2> SUFFICES ASSUME MembershipInv PROVE TypeOK
    OBVIOUS
  <2>1. \A i \in Invitations : invitations[i] \in Invitation
    BY DEF MembershipInv, MembershipType
  <2>2. \A i \in Invitations :
          /\ invitations[i].for \in People \union {None}
          /\ invitations[i].role \in Role \union {None}
          /\ invitations[i].state \in {"unsent", "pending", "accepted", "revoked"}
    BY <2>1 DEF Invitation, InvitationStates
  <2>3. \A r \in Slots : Free(r, txn[r].holds)
    BY DEF MembershipInv, LocksOK, Free
  <2>4. \A r \in Slots : /\ txn[r].role \in Role \union {None}
                         /\ txn[r].counted \in (SUBSET People) \union {None}
    BY DEF MembershipInv, MembershipType, Txn
  <2> QED
    BY <2>2, <2>3, <2>4 DEF MembershipInv, MembershipType, TypeOK
<1> QED
  BY <1>1, MembershipAlways, PTL

\* Only a commit changes the members.
LEMMA OnlyCommitsChange ==
  ASSUME MembershipInv, [Next]_vars, members' # members
  PROVE  \E r \in Slots : Commit(r)
<1>1. ASSUME NEW r \in Slots, members' # members,
             \/ AuthorizeMember(r) \/ AuthorizeInvitee(r) \/ AuthorizeKey(r) \/ TouchKey(r)
             \/ LoadTarget(r) \/ CountOwners(r) \/ WriteTarget(r)
             \/ LoadInvitee(r) \/ CheckPending(r) \/ InsertInvitation(r)
             \/ LoadRevoked(r) \/ DeleteInvitation(r)
             \/ LoadInvitation(r) \/ CheckMember(r) \/ WriteAcceptance(r)
             \/ InsertKey(r) \/ LoadKey(r) \/ MailInvitation(r) \/ Fail(r)
      PROVE  FALSE
  BY <1>1 DEF AuthorizeMember, AuthorizeInvitee, AuthorizeKey, TouchKey, LoadTarget,
    CountOwners, WriteTarget, LoadInvitee, CheckPending, InsertInvitation, LoadRevoked,
    DeleteInvitation, LoadInvitation, CheckMember, WriteAcceptance, InsertKey, LoadKey,
    MailInvitation, Fail, dbVars
<1>2. ~ExpireKey /\ ~UNCHANGED vars /\ ~\E i \in Invitations : ExpireInvitation(i)
  BY DEF ExpireKey, vars, ExpireInvitation
<1> QED
  BY <1>1, <1>2 DEF Next

\* A commit that changes somebody's membership is a commit that holds its row.
LEMMA CommitsChange ==
  ASSUME MembershipInv, NEW r \in Slots, Commit(r), NEW p \in People, members'[p] # members[p]
  PROVE  /\ Commits(r) /\ MemberRow(p) \in txn[r].holds
         /\ TouchOK(txn[r]) /\ AcceptOK(txn[r]) /\ WellFormed(txn[r].ask)
         /\ \A q \in People \ {p} : members'[q] = members[q]
<1>1. MemberRow(p) \in txn[r].holds
  BY CommitMember
<1>2. /\ txn[r].pc = "commit" /\ TouchOK(txn[r]) /\ AcceptOK(txn[r]) /\ HoldsOK(txn[r])
      /\ WellFormed(txn[r].ask) /\ txn[r] \in Txn
  BY UnderWay DEF Commit
<1>3. txn'[r].pc # "commit"
  BY <1>2, IdleOK DEF Commit, End, MembershipInv, MembershipType, Txn
<1>4. \A q \in People \ {p} : MemberRow(q) \notin txn[r].holds
  BY <1>1, <1>2 DEF HoldsOK
<1> QED
  BY <1>1, <1>2, <1>3, <1>4, CommitMember DEF Commits

\* "Only owners may touch the owner role" (_guard_owner_changes), over every path
\* and every interleaving: an owner's request, an owner's invitation, or a request
\* whose target had changed behind it.
THEOREM OwnersTouchOwners == Spec => OnlyOwnersTouchOwners
<1>1. ASSUME MembershipInv, [Next]_vars, NEW p \in People,
             (members[p] = "owner") # (members'[p] = "owner")
      PROVE  \E r \in Slots :
               /\ Commits(r)
               /\ \/ txn[r].role = "owner"
                  \/ /\ txn[r].ask.op = "accept"
                     /\ invitations[txn[r].ask.inv].byOwner
                  \/ /\ txn[r].ask.op \in {"change", "remove"}
                     /\ txn[r].seen # members[p]
  <2>1. PICK r \in Slots : Commit(r)
    BY <1>1, OnlyCommitsChange
  <2>2. members'[p] # members[p]
    BY <1>1
  <2>3. /\ Commits(r) /\ MemberRow(p) \in txn[r].holds /\ txn[r].pc = "commit"
        /\ TouchOK(txn[r]) /\ AcceptOK(txn[r]) /\ WellFormed(txn[r].ask)
    BY <1>1, <2>1, <2>2, CommitsChange DEF Commits
  <2>4. CASE txn[r].ask.op = "accept"
    <3>1. /\ members[p] = None
          /\ members'[p] = invitations[txn[r].ask.inv].role
      BY <1>1, <2>1, <2>3, <2>4, CommitMember
    <3>2. members'[p] = "owner"
      BY <1>1, <3>1, MembershipAssumption DEF Role
    <3>3. Sent(txn[r].ask.inv)
      BY <2>3, <2>4 DEF AcceptOK
    <3>4. invitations[txn[r].ask.inv].byOwner
      BY <1>1, <3>1, <3>2, <3>3 DEF MembershipInv, OffersOK, Sent
    <3> QED
      BY <2>3, <2>4, <3>4
  <2>5. CASE txn[r].ask.op # "accept"
    <3>1. /\ txn[r].ask.op \in {"change", "remove"}
          /\ members'[p] = IF txn[r].ask.op = "change" THEN txn[r].ask.role ELSE None
      BY <1>1, <2>1, <2>3, <2>5, CommitMember
    <3>2. MayTouch(txn[r].role, txn[r].seen, txn[r].ask.role)
      BY <2>3, <3>1 DEF TouchOK
    <3>3. CASE members[p] = "owner"
      BY <2>3, <3>1, <3>2, <3>3 DEF MayTouch
    <3>4. CASE members'[p] = "owner"
      <4>1. txn[r].ask.role = "owner"
        BY <3>1, <3>4, MembershipAssumption DEF Role
      <4> QED
        BY <2>3, <3>2, <4>1 DEF MayTouch
    <3> QED
      BY <1>1, <3>3, <3>4
  <2> QED
    BY <2>4, <2>5
<1>2. MembershipInv /\ [Next]_vars =>
        [\A p \in People :
           (members[p] = "owner") # (members'[p] = "owner") =>
             \E r \in Slots :
               /\ Commits(r)
               /\ \/ txn[r].role = "owner"
                  \/ /\ txn[r].ask.op = "accept"
                     /\ invitations[txn[r].ask.inv].byOwner
                  \/ /\ txn[r].ask.op \in {"change", "remove"}
                     /\ txn[r].seen # members[p]]_vars
  BY <1>1
<1> QED
  BY <1>2, MembershipAlways, PTL DEF Spec, OnlyOwnersTouchOwners

\* Whoever joins has an invitation for their address, with the role they get, that
\* nobody revoked before.
THEOREM JoinersHaveInvitations == Spec => JoinersAreInvited
<1>1. ASSUME MembershipInv, [Next]_vars, NEW p \in People,
             members[p] = None, members'[p] # None
      PROVE  \E i \in Invitations :
               /\ invitations[i].state \in {"pending", "accepted"}
               /\ invitations[i].for = p
               /\ invitations[i].role = members'[p]
               /\ invitations'[i].state = "accepted"
  <2>1. PICK r \in Slots : Commit(r)
    BY <1>1, OnlyCommitsChange
  <2>2. /\ MemberRow(p) \in txn[r].holds /\ txn[r].pc = "commit"
        /\ AcceptOK(txn[r]) /\ WellFormed(txn[r].ask)
    BY <1>1, <2>1, CommitsChange DEF Commits
  <2>3. txn[r].ask.op = "accept"
    BY <1>1, <2>1, <2>2, CommitMember
  <2> DEFINE i == txn[r].ask.inv
  <2>4. /\ i \in Invitations /\ invitations[i].for = p
        /\ invitations[i].role = members'[p]
        /\ invitations[i].state \notin {"unsent", "revoked"}
    BY <1>1, <2>1, <2>2, <2>3, CommitMember DEF AcceptOK, Sent
  <2>5. invitations[i].state \in {"pending", "accepted"}
    <3>1. invitations[i].state \in InvitationStates
      BY <1>1, <2>4 DEF MembershipInv, MembershipType, Invitation
    <3> QED
      BY <2>4, <3>1 DEF InvitationStates
  <2>6. invitations'[i].state = "accepted"
    BY <1>1, <2>1, <2>3, <2>4, CommitInvitation
  <2> QED
    BY <2>4, <2>5, <2>6
<1>2. MembershipInv /\ [Next]_vars =>
        [\A p \in People :
           members[p] = None /\ members'[p] # None =>
             \E i \in Invitations :
               /\ invitations[i].state \in {"pending", "accepted"}
               /\ invitations[i].for = p
               /\ invitations[i].role = members'[p]
               /\ invitations'[i].state = "accepted"]_vars
  BY <1>1
<1> QED
  BY <1>2, MembershipAlways, PTL DEF Spec, JoinersAreInvited

\* "The last owner can never be demoted" or removed (api/v1/members.py) but by a
\* transaction that was overtaken between its reads and its commit.
THEOREM LastOwnerStays == Spec => LastOwnerKept
<1>1. ASSUME MembershipInv, [Next]_vars, Owners # {}, Owners' = {}
      PROVE  \E r \in Slots : Commits(r) /\ txn[r].ask.op \in {"change", "remove"}
                              /\ Overtaken(r)
  <2>1. PICK p \in People : members[p] = "owner"
    BY <1>1 DEF Owners
  <2>2. members'[p] # "owner"
    BY <1>1 DEF Owners
  <2>3. PICK r \in Slots : Commit(r)
    BY <1>1, <2>1, <2>2, OnlyCommitsChange
  <2>4. /\ Commits(r) /\ MemberRow(p) \in txn[r].holds /\ txn[r].pc = "commit"
        /\ TouchOK(txn[r]) /\ \A q \in People \ {p} : members'[q] = members[q]
    BY <1>1, <2>1, <2>2, <2>3, CommitsChange DEF Commits
  <2>5. txn[r].ask.op # "accept"
    BY <1>1, <2>1, <2>3, <2>4, CommitMember, MembershipAssumption DEF Role
  <2>6. /\ txn[r].ask.op \in {"change", "remove"} /\ p = txn[r].ask.who
        /\ members'[p] = IF txn[r].ask.op = "change" THEN txn[r].ask.role ELSE None
    BY <1>1, <2>3, <2>4, <2>5, CommitMember
  <2>7. WellFormed(txn[r].ask)
    BY <1>1, <2>1, <2>2, <2>3, CommitsChange
  <2>8. CASE txn[r].seen # members[txn[r].ask.who]
    BY <2>4, <2>6, <2>8 DEF Overtaken
  <2>9. CASE txn[r].seen = members[txn[r].ask.who]
    <3>1. txn[r].seen = "owner"
      BY <2>1, <2>6, <2>9
    <3>2. CASE txn[r].ask.role = "owner"
      \* A removal gives no role, and a change to owner takes nothing away.
      BY <2>2, <2>6, <2>7, <3>2, MembershipAssumption DEF WellFormed, Role
    <3>3. CASE txn[r].ask.role # "owner"
      <4>1. txn[r].counted \in SUBSET People /\ Cardinality(txn[r].counted) # 1
        BY <2>4, <2>6, <3>1, <3>3 DEF TouchOK
      <4>2. Owners = {p}
        BY <1>1, <2>1, <2>4 DEF Owners
      <4>3. Cardinality(Owners) = 1
        BY <4>2, FS_Singleton
      <4>4. txn[r].counted \notin {None, Owners}
        BY <4>1, <4>3, MembershipAssumption
      <4> QED
        BY <2>4, <2>6, <4>4 DEF Overtaken
    <3> QED
      BY <3>2, <3>3
  <2> QED
    BY <2>8, <2>9
<1>2. MembershipInv /\ [Next]_vars =>
        [Owners # {} /\ Owners' = {} =>
           \E r \in Slots : Commits(r) /\ txn[r].ask.op \in {"change", "remove"}
                            /\ Overtaken(r)]_vars
  BY <1>1
<1> QED
  BY <1>2, MembershipAlways, PTL DEF Spec, LastOwnerKept
===============================================================================
