------------------------------- MODULE Accounts -------------------------------
(***************************************************************************)
(* One account: registration, the mailed links that verify its address and *)
(* reset its password, TOTP enrolment and challenge, and the families of   *)
(* rotating refresh tokens its logins start.  Requests overlap.  Each      *)
(* reads rows without a lock, decides, locks what it writes and commits;   *)
(* an UPDATE sets the columns the request changed, to values computed from *)
(* the row it had read.                                                    *)
(*                                                                         *)
(* Expiry is left out: an expired link or token is refused like an unknown *)
(* one, so what is checked here holds with expiry as well.                 *)
(***************************************************************************)
EXTENDS Naturals, FiniteSets

CONSTANTS
  Slots,          \* requests that can be under way at a time
  Links,          \* mailed links; how many are ever sent is bounded by them
  RecoveryCodes,  \* bound on the enrolments that are confirmed
  MaxTokens,      \* bound on the refresh tokens that are ever minted
  MaxStep,        \* bound on the TOTP time steps of codes
  MaxSecret,      \* bound on enrolments
  Offers,         \* which operations the clients of a behaviour use
  None

Ops == {"register", "resend", "verify", "forgot", "reset", "login",
        "challenge", "enrol", "confirm", "rotate", "logout"}
Tokens == 1 .. MaxTokens
Codes == {<<"recovery", c>> : c \in RecoveryCodes}

ASSUME AccountsAssumption ==
  /\ MaxTokens \in Nat /\ MaxStep \in Nat /\ MaxSecret \in Nat
  /\ Offers \subseteq SUBSET Ops
  /\ None \notin Links \union Codes \union ({"totp"} \X Nat \X Nat)

VARIABLES
  user,       \* the row of users; pw numbers the passwords it has had
  links,      \* [kind, state]: verification and reset links
  refresh,    \* refresh_tokens; pw is history: the password behind the family
  access,     \* access tokens that clients were given, with what they carry
  mfaTokens,  \* the same for the tokens between password and challenge
  recovery,   \* mfa_recovery_codes: "none", "fresh" or "used"
  txn,        \* the request of each slot
  offer,      \* member of Offers; never changes
  killed,     \* history: families that a committed revocation was about
  spent,      \* history: links and codes that were accepted
  respent,    \* history: those that were accepted again
  raced       \* history: what requests touched that committed although a
              \* request they interfere with had committed while they ran

rows == <<user, links, refresh, recovery>>
handed == <<access, mfaTokens>>
history == <<killed, spent, respent, raced>>
vars == <<rows, handed, history, txn, offer>>

Nobody == [exists |-> FALSE, pw |-> 0, verified |-> FALSE, version |-> 0,
           secret |-> 0, mfa |-> FALSE, last |-> 0]
NoToken == [family |-> 0, pw |-> 0, consumed |-> FALSE, revoked |-> FALSE]

\* arg is the link, token or password presented; row the user as it was read; kills
\* the refresh tokens its UPDATE revokes; mint the token it inserts.
Idle == [pc |-> "idle", op |-> None, arg |-> None, row |-> None, code |-> None,
         kills |-> {}, mint |-> 0, holds |-> {}, overlapped |-> FALSE]

UserRow == <<"user">>
Family(f) == <<"family", f>>
Link(l) == <<"link", l>>
Token(t) == <<"token", t>>
Totp == <<"totp">>
Version(v) == <<"version", v>>

Free(r, S) == \A q \in Slots \ {r} : txn[q].holds \intersect S = {}
End(r) == txn' = [txn EXCEPT ![r] = Idle]
At(r, ops, step) == txn[r].pc = step /\ txn[r].op \in ops

\* Requests whose reads the other's writes put out of date.
Interfering ==
  {{"rotate"}, {"rotate", "logout"}, {"rotate", "reset"}, {"reset"}, {"verify"},
   {"reset", "login"}, {"reset", "challenge"}, {"challenge"},
   {"enrol"}, {"enrol", "confirm"}, {"confirm"}, {"confirm", "challenge"}}

Init ==
  /\ user = Nobody
  /\ links = [l \in Links |-> [kind |-> "none", state |-> "unsent"]]
  /\ refresh = [t \in Tokens |-> NoToken]
  /\ access = {} /\ mfaTokens = {}
  /\ recovery = [c \in Codes |-> "none"]
  /\ txn = [r \in Slots |-> Idle]
  /\ offer \in Offers
  /\ killed = {} /\ spent = {} /\ respent = {} /\ raced = {}

-----------------------------------------------------------------------------
(* What the handlers ask of the rows they read.  The variants are bugs they *)
(* could have had; no run uses them as they stand.                          *)

LinkKnown(l, kind) ==
  links[l].kind = kind /\ links[l].state \in {"mailed", "consumed"}

\* Both kinds are refused alike when they are unknown, consumed or expired.
LinkUsable(l, kind) == links[l].kind = kind /\ links[l].state = "mailed"

MayResolve(row, token) == row.exists /\ token.version = row.version

MayChallengeAnyVersion(row, token) == row.mfa

MayChallenge(row, token) == row.mfa /\ token.version = row.version

MayEnrolAgain(row) == TRUE

MayEnrol(row) == ~row.mfa

MayConfirm(row) == ~row.mfa /\ row.secret # 0

-----------------------------------------------------------------------------
(* The first read of each request; a request that is refused here leaves no *)
(* trace and is not modelled.                                               *)

Begin(r, op, arg, row, step) ==
  /\ txn[r].pc = "idle"
  /\ op \in offer
  /\ txn' = [txn EXCEPT ![r] =
       [Idle EXCEPT !.pc = step, !.op = op, !.arg = arg, !.row = row]]
  /\ UNCHANGED <<rows, handed, history, offer>>

Register(r) == ~user.exists /\ Begin(r, "register", None, user, "flush")

Resend(r) == /\ user.exists /\ ~user.verified
             /\ Begin(r, "resend", None, user, "flush")

Forgot(r) == user.exists /\ Begin(r, "forgot", None, user, "flush")

PresentVerification(r) ==
  \E l \in Links : LinkUsable(l, "verify") /\ Begin(r, "verify", l, None, "user")

PresentReset(r) ==
  \E l \in Links : LinkUsable(l, "reset") /\ Begin(r, "reset", l, None, "user")

\* authenticate; with MFA the answer is a token for the challenge and nothing
\* is written.
Login(r) ==
  /\ user.exists /\ user.verified
  /\ ~user.mfa
  /\ Begin(r, "login", user.pw, user, "flush")

LoginWithMfa(r) ==
  /\ txn[r].pc = "idle"
  /\ "login" \in offer
  /\ user.exists /\ user.verified
  /\ user.mfa
  /\ mfaTokens' = mfaTokens \union {[version |-> user.version, pw |-> user.pw]}
  /\ UNCHANGED <<rows, access, history, txn, offer>>

Challenge(r) ==
  \E token \in mfaTokens :
    MayChallenge(user, token) /\ Begin(r, "challenge", token, user, "code")

\* get_current_user, then start_enrollment or confirm_enrollment.
Enrol(r) ==
  /\ MayEnrol(user)
  /\ \E token \in access :
       MayResolve(user, token) /\ Begin(r, "enrol", None, user, "flush")

Confirm(r) ==
  /\ MayConfirm(user)
  /\ \E token \in access :
       MayResolve(user, token) /\ Begin(r, "confirm", None, user, "code")

\* rotate_refresh and revoke_session find the token.  Reuse of a consumed token
\* is answered by revoking its family.
PresentToken(r) ==
  \E t \in Tokens :
    /\ refresh[t].family # 0
    /\ \/ /\ ~refresh[t].revoked
          /\ Begin(r, "rotate", t, None,
                   IF refresh[t].consumed THEN "revoke" ELSE "user")
       \/ Begin(r, "logout", t, None, "revoke")

-----------------------------------------------------------------------------
(* Further reads.                                                          *)

Step(r) == UNCHANGED <<rows, handed, history, offer>>

\* session.get(User) of verify_email, reset_password and rotate_refresh.
ReadUser(r) ==
  /\ At(r, {"verify", "reset", "rotate"}, "user")
  /\ txn' = [txn EXCEPT ![r].row = user, ![r].pc = "flush"]
  /\ Step(r)

\* match_code gives the time step of the code, which is at most one off the clock;
\* the clock is left open.  A step is accepted if it is later than the last one.
TryTotp(r) ==
  /\ At(r, {"confirm", "challenge"}, "code")
  /\ \E c \in 1 .. MaxStep :
       /\ txn[r].op = "challenge" => c > txn[r].row.last
       /\ txn' = [txn EXCEPT ![r].code = <<"totp", txn[r].row.secret, c>>,
                             ![r].pc = "flush"]
  /\ Step(r)

TryRecoveryCode(r) ==
  /\ At(r, {"challenge"}, "code")
  /\ \E c \in Codes :
       /\ recovery[c] = "fresh"
       /\ txn' = [txn EXCEPT ![r].code = c, ![r].pc = "flush"]
  /\ Step(r)

-----------------------------------------------------------------------------
(* Writes, which wait for the rows they lock.                              *)

FamilyOf(t) == {u \in Tokens : refresh[t].family # 0
                               /\ refresh[u].family = refresh[t].family}
Unrevoked == {t \in Tokens : refresh[t].family # 0 /\ ~refresh[t].revoked}

\* Does the request change columns of users?
Sets(r) == \/ txn[r].op \in {"register", "reset", "enrol", "confirm"}
           \/ txn[r].op = "verify" /\ ~txn[r].row.verified

\* A login writes last_login_at, which nothing reads, so it locks the row too.
Locks(r) ==
  (IF Sets(r) \/ txn[r].op \in {"login", "challenge"} THEN {UserRow} ELSE {})
  \union (IF txn[r].op \in {"verify", "reset"} THEN {Link(txn[r].arg)} ELSE {})
  \union (IF txn[r].op = "rotate" THEN {Token(txn[r].arg)} ELSE {})
  \union ({txn[r].code} \intersect Codes)

Inserts(r) == txn[r].op \in {"login", "challenge", "rotate"}
Unused(r) == {t \in Tokens : refresh[t].family = 0 /\ Free(r, {Token(t)})}
NextToken(r) == CHOOSE t \in Unused(r) : TRUE

\* The flush of every request but those that revoke first, and _mint.
Flush(r) ==
  /\ txn[r].pc = "flush"
  /\ Free(r, Locks(r))
  /\ Inserts(r) => Unused(r) # {}
  /\ txn[r].op = "enrol" => txn[r].row.secret < MaxSecret
  /\ IF txn[r].op = "register" /\ user.exists   \* the unique index on email
       THEN End(r)
       ELSE LET t == IF Inserts(r) THEN NextToken(r) ELSE 0
            IN txn' = [txn EXCEPT
                 ![r].mint = t,
                 ![r].holds = Locks(r) \union (IF t = 0 THEN {} ELSE {Token(t)}),
                 ![r].pc = IF txn[r].op = "reset" THEN "revoke" ELSE "commit"]
  /\ Step(r)

\* The UPDATE that revokes sees the tokens committed when it starts,
Revoke(r) ==
  /\ txn[r].pc = "revoke"
  /\ txn' = [txn EXCEPT
       ![r].kills = Unrevoked \intersect
                    (IF txn[r].op = "reset" THEN Tokens ELSE FamilyOf(txn[r].arg)),
       ![r].pc = "wait"]
  /\ Step(r)

\* and waits for those that another request has locked.
Revoked(r) ==
  LET S == {Token(t) : t \in txn[r].kills}
  IN /\ txn[r].pc = "wait"
     /\ Free(r, S)
     /\ txn' = [txn EXCEPT ![r].holds = @ \union S, ![r].pc = "commit"]
     /\ Step(r)

-----------------------------------------------------------------------------
Mints(r) == txn[r].mint # 0
Password(r) == CASE txn[r].op = "login" -> txn[r].row.pw
                 [] txn[r].op = "challenge" -> txn[r].arg.pw
                 [] txn[r].op = "rotate" -> refresh[txn[r].arg].pw
NewFamily(r) == IF txn[r].op = "rotate" THEN refresh[txn[r].arg].family
                ELSE txn[r].mint

\* A bug the handler could have had: the presented token is left as it is.
ConsumesNothing(r) == {}

Consumes(r) == IF txn[r].op = "rotate" /\ Mints(r) THEN {txn[r].arg} ELSE {}

\* What the commit uses up: links and codes.
Uses(r) == IF txn[r].op \in {"verify", "reset"} THEN {Link(txn[r].arg)}
           ELSE IF txn[r].code # None THEN {txn[r].code} ELSE {}
Thing(use) == IF use[1] = "totp" THEN Totp ELSE use

Revokes(r) == {Family(refresh[t].family) : t \in
                 CASE txn[r].op = "reset" -> {t \in Tokens : refresh[t].family # 0}
                   [] txn[r].op \in {"logout", "rotate"} /\ ~Mints(r) -> {txn[r].arg}
                   [] OTHER -> {}}
Touches(r) == {Thing(u) : u \in Uses(r)} \union Revokes(r)
              \union (IF Mints(r) THEN {Family(NewFamily(r))} ELSE {})
              \union (IF txn[r].op = "enrol" THEN {Totp} ELSE {})
              \union (IF txn[r].op = "reset"
                       THEN {Version(token.version) : token \in mfaTokens} ELSE {})

\* Overlapping resets raise the version once, and one that was overtaken may set it
\* back: a token between password and challenge may then carry a version that is,
\* or later comes to be, the current one again.
Overtaken(r) == \/ txn[r].overlapped
                \/ txn[r].op = "challenge" /\ Version(txn[r].arg.version) \in raced

\* Every enrolment that is confirmed makes codes of its own; one stands for all.
Ungiven == {c \in Codes : recovery[c] = "none"}
NewCode(r) == IF txn[r].op = "confirm" THEN CHOOSE c \in Ungiven : TRUE ELSE None

\* What the UPDATE makes of the user: the columns that the request changes, computed
\* from the row it had read.  It has had the row locked since its flush.
Changed(r) ==
  LET row == txn[r].row
      code == txn[r].code
  IN CASE txn[r].op = "register" -> [user EXCEPT !.exists = TRUE, !.pw = 1]
       [] txn[r].op = "verify"   -> [user EXCEPT !.verified = TRUE]
       [] txn[r].op = "reset"    -> [user EXCEPT !.pw = @ + 1, !.verified = TRUE,
                                                 !.version = row.version + 1]
       [] txn[r].op = "enrol"    -> [user EXCEPT !.secret = row.secret + 1]
       [] txn[r].op = "confirm"  -> [user EXCEPT !.mfa = TRUE, !.last = code[3]]
       [] txn[r].op = "challenge" /\ code \notin Codes -> [user EXCEPT !.last = code[3]]
       [] OTHER -> user

\* A link that register, resend or forgot inserts.
Sends(r) == IF txn[r].op \in {"register", "resend"} THEN "verify"
            ELSE IF txn[r].op = "forgot" THEN "reset" ELSE "none"

Commit(r) ==
  /\ txn[r].pc = "commit"
  /\ txn[r].op = "confirm" => Ungiven # {}
  /\ user' = Changed(r)
  /\ refresh' = [t \in Tokens |->
       IF t = txn[r].mint
         THEN [NoToken EXCEPT !.family = NewFamily(r), !.pw = Password(r)]
         ELSE [refresh[t] EXCEPT !.consumed = @ \/ t \in Consumes(r),
                                 !.revoked = @ \/ t \in txn[r].kills]]
  /\ recovery' = [c \in Codes |->
       IF c = NewCode(r) THEN "fresh"
       ELSE IF c = txn[r].code THEN "used" ELSE recovery[c]]
  /\ access' = access \union
       (IF Mints(r) THEN {[version |-> txn[r].row.version, pw |-> Password(r),
                           family |-> NewFamily(r)]} ELSE {})
  /\ killed' = killed \union Revokes(r)
  /\ spent' = spent \union Uses(r)
  /\ respent' = respent \union {Thing(u) : u \in Uses(r) \intersect spent}
  /\ raced' = IF Overtaken(r) THEN raced \union Touches(r) ELSE raced
  /\ \E l \in Links \union {None} :
       /\ IF Sends(r) = "none" THEN l = None
          ELSE l # None /\ links[l].state = "unsent"
       /\ links' = [k \in Links |->
            IF k = l THEN [kind |-> Sends(r), state |-> "unmailed"]
            ELSE IF Link(k) \in Uses(r) THEN [links[k] EXCEPT !.state = "consumed"]
            ELSE links[k]]
       /\ txn' = [q \in Slots |->
            IF q = r
              THEN IF l = None THEN Idle
                   ELSE [Idle EXCEPT !.pc = "mail", !.arg = l]
              ELSE [txn[q] EXCEPT
                     !.overlapped = @ \/ {txn[q].op, txn[r].op} \in Interfering]]
  /\ UNCHANGED <<mfaTokens, offer>>

\* The link is mailed after the commit; nobody has it before.
Mail(r) ==
  /\ txn[r].pc = "mail"
  /\ links' = [links EXCEPT ![txn[r].arg].state = "mailed"]
  /\ End(r)
  /\ UNCHANGED <<user, refresh, recovery, handed, history, offer>>

Fail(r) ==
  /\ txn[r].pc # "idle"
  /\ End(r)
  /\ Step(r)

Next ==
  \E r \in Slots :
       \/ Register(r) \/ Resend(r) \/ Forgot(r) \/ PresentVerification(r) \/ PresentReset(r)
       \/ Login(r) \/ LoginWithMfa(r) \/ Challenge(r)
       \/ Enrol(r) \/ Confirm(r) \/ PresentToken(r)
       \/ ReadUser(r) \/ TryTotp(r) \/ TryRecoveryCode(r)
       \/ Flush(r) \/ Revoke(r) \/ Revoked(r)
       \/ Commit(r) \/ Mail(r) \/ Fail(r)

Spec == Init /\ [][Next]_vars

-----------------------------------------------------------------------------
Live(f) == {t \in Unrevoked : ~refresh[t].consumed /\ refresh[t].family = f}

(* "Refresh tokens rotate on every use" and a reuse or a logout revokes     *)
(* "the entire family" (services/sessions.py): a family has one token that  *)
(* works, and none once it was revoked, unless a rotation of it ran while   *)
(* another rotation or the revocation did.                                  *)
OneLiveToken ==
  \A f \in Tokens :
    Family(f) \in raced \/
    Cardinality(Live(f)) <= IF Family(f) \in killed THEN 0 ELSE 1

(* A reset "logs the account out everywhere" (api/v1/auth.py): whatever     *)
(* still works, a refresh token or an access token of the current version,  *)
(* goes back to a login with the current password.  An MFA login that was   *)
(* half done when the password changed does not survive it either.  Only a  *)
(* login, a rotation or a second reset that overlapped the reset escapes.   *)
ResetLogsOutEverywhere ==
  /\ \A f \in Tokens : \A t \in Live(f) :
       Family(f) \in raced \/ refresh[t].pw = user.pw
  /\ \A token \in access :
       token.version = user.version =>
         Family(token.family) \in raced \/ token.pw = user.pw

(* Verification links, reset links, recovery codes and TOTP time steps are  *)
(* single-use: one is accepted again only after requests that used it       *)
(* overlapped.                                                              *)
SingleUse == respent \subseteq raced

(* "MFA is enforced only after the user proves the authenticator works"     *)
(* (services/mfa.py): the secret in force is one a code was accepted for,   *)
(* unless enrolments overlapped.                                            *)
EnforcedSecretIsProven ==
  user.mfa => \/ Totp \in raced
              \/ \E c \in 1 .. MaxStep : <<"totp", user.secret, c>> \in spent
===============================================================================
