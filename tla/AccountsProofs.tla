---------------------------- MODULE AccountsProofs ----------------------------
(***************************************************************************)
(* Proofs about Accounts, for any number of requests, links, codes and     *)
(* tokens and whatever the clients ask for.  The invariant is AccountsInv. *)
(* A request that is under way either still sees the rows as they are or   *)
(* is marked as overlapped (RequestOK), because every commit marks those   *)
(* that interfere with it (Meets); and what it touches is then raced.  The *)
(* rows keep to RowsInv as long as what they are about is not raced.       *)
(***************************************************************************)
EXTENDS Accounts, FiniteSetTheorems, TLAPS

UserRecord == [exists : BOOLEAN, pw : Nat, verified : BOOLEAN, version : Nat,
               secret : Nat, mfa : BOOLEAN, last : Nat]
LinkRecord == [kind : {"none", "verify", "reset"},
               state : {"unsent", "unmailed", "mailed", "consumed"}]
TokenRecord == [family : Tokens \union {0}, pw : Nat, consumed : BOOLEAN, revoked : BOOLEAN]
Carried == [version : Nat, pw : Nat, family : Tokens]
Challenged == [version : Nat, pw : Nat]
TotpCode(s, c) == <<"totp", s, c>>

Steps == {"idle", "user", "code", "flush", "revoke", "wait", "commit", "mail"}

AccountsType ==
  /\ user \in UserRecord
  /\ links \in [Links -> LinkRecord]
  /\ refresh \in [Tokens -> TokenRecord]
  /\ access \subseteq Carried
  /\ mfaTokens \subseteq Challenged
  /\ recovery \in [Codes -> {"none", "fresh", "used"}]
  /\ DOMAIN txn = Slots

(* What a request q keeps to, whatever the others do.                      *)

Running(q) == q.pc \notin {"idle", "mail"}

\* It has read the user: neither a logout nor the reuse of a token does.
HasRow(q) == \/ q.pc \in {"code", "flush"}
             \/ /\ q.pc \in {"revoke", "wait", "commit"}
                /\ \/ q.op \notin {"logout", "rotate"}
                   \/ q.mint # 0

HasCode(q) == q.op \in {"confirm", "challenge"} /\ q.pc \in {"flush", "commit"}

\* A rotation that is not the reuse of a consumed token.
Rotating(q) == q.op = "rotate" /\ (q.pc \in {"user", "flush"} \/ q.mint # 0)

\* Its revoking UPDATE has started.
Killing(q) == /\ q.op \in {"reset", "logout", "rotate"} /\ q.mint = 0
              /\ q.pc \in {"wait", "commit"}

\* A slot's record has the fields of Idle.
IsRequest(q) ==
  /\ q = [pc |-> q.pc, op |-> q.op, arg |-> q.arg, row |-> q.row, code |-> q.code,
           kills |-> q.kills, mint |-> q.mint, holds |-> q.holds,
           overlapped |-> q.overlapped]
  /\ q.pc \in Steps
  /\ q.kills \subseteq Tokens
  /\ q.mint \in Tokens \union {0}
  /\ q.overlapped \in BOOLEAN

Shape(q) ==
  /\ IsRequest(q)
  /\ Running(q) => q.op \in Ops
  /\ q.pc = "user" => q.op \in {"verify", "reset", "rotate"}
  /\ q.pc = "code" => q.op \in {"confirm", "challenge"}
  /\ q.pc \in {"revoke", "wait"} => q.op \in {"reset", "logout", "rotate"}
  /\ q.pc = "flush" => q.op # "logout"
  /\ HasRow(q) => q.row \in UserRecord
  /\ q.mint # 0 => /\ q.pc = "commit" /\ q.op \in {"login", "challenge", "rotate"}
                   /\ Token(q.mint) \in q.holds
  /\ q.pc = "commit" /\ q.op \in {"login", "challenge"} => q.mint # 0
  /\ q.kills # {} => Killing(q)
  /\ Running(q) /\ ~HasCode(q) => q.code = None
  /\ Running(q) /\ q.op \in {"verify", "reset"} => q.arg \in Links
  /\ q.pc = "mail" => q.arg \in Links
  /\ Running(q) /\ q.op \in {"rotate", "logout"} => q.arg \in Tokens
  /\ Running(q) /\ q.op = "challenge" => /\ q.arg \in Challenged
                                         /\ q.arg.version = q.row.version

\* A link or code is not spent when a request is about to use it up, unless one that
\* interferes with it was committed meanwhile.
LinkOK(q, its, used) ==
  /\ Running(q) /\ q.op \in {"verify", "reset"} =>
       /\ its[q.arg].kind = q.op
       /\ its[q.arg].state \in {"mailed", "consumed"}
       /\ q.overlapped \/ Link(q.arg) \notin used
  /\ q.pc = "mail" => its[q.arg].state = "unmailed"

CodeOK(q, its, used, stale) ==
  /\ Running(q) /\ q.op \in {"enrol", "confirm"} =>
       q.overlapped \/ (~its.mfa /\ q.row.secret = its.secret)
  /\ Running(q) /\ q.op = "challenge" =>
       /\ its.mfa
       /\ \/ q.overlapped \/ Totp \in stale
          \/ q.row.secret = its.secret /\ q.row.last = its.last
  /\ HasCode(q) =>
       \/ /\ q.op = "challenge" /\ q.code \in Codes
          /\ q.overlapped \/ q.code \notin used
       \/ \E c \in 1 .. MaxStep : /\ q.code = TotpCode(q.row.secret, c)
                                  /\ q.op = "challenge" => c > q.row.last

TokenOK(q, its) ==
  /\ Running(q) /\ q.op \in {"rotate", "logout"} => its[q.arg].family # 0
  /\ q.mint # 0 => its[q.mint].family = 0
  /\ Rotating(q) => q.overlapped \/ (~its[q.arg].consumed /\ ~its[q.arg].revoked)
  /\ Killing(q) =>
       \/ q.overlapped
       \/ \A t \in Tokens :
            its[t].family # 0 /\ ~its[t].revoked
            /\ (q.op = "reset" \/ its[t].family = its[q.arg].family) => t \in q.kills

UserOK(q, its, given) ==
  /\ Running(q) /\ q.op # "register" => its.exists
  /\ q.pc = "commit" /\ q.op = "register" => ~its.exists /\ UserRow \in q.holds
  /\ HasRow(q) /\ q.op \in {"login", "challenge", "reset", "rotate"} =>
       q.overlapped \/ (q.row.version = its.version /\ q.row.pw = its.pw)
  /\ Running(q) /\ q.op = "challenge" => q.arg \in given

RequestOK(q, users, mails, tokens, given, used, stale) ==
  /\ Shape(q)
  /\ LinkOK(q, mails, used)
  /\ CodeOK(q, users, used, stale)
  /\ TokenOK(q, tokens)
  /\ UserOK(q, users, given)

\* Locks are kept to, and no two requests are about to mail one link.
Apart(p, q) == /\ p.holds \intersect q.holds = {}
               /\ p.pc = "mail" /\ q.pc = "mail" => p.arg # q.arg

(* What the rows and the history keep to.                                  *)

Unborn == ~user.exists => /\ \A t \in Tokens : refresh[t].family = 0
                          /\ access = {} /\ mfaTokens = {} /\ ~user.mfa
                          /\ \A l \in Links : links[l].state = "unsent"

SpentInv ==
  /\ spent \subseteq {Link(l) : l \in Links} \union Codes
                     \union {TotpCode(s, c) : s \in Nat, c \in 1 .. MaxStep}
  /\ \A l \in Links : Link(l) \in spent => links[l].state = "consumed"
  /\ \A c \in Codes : c \in spent => recovery[c] = "used"
  /\ \/ Totp \in raced
     \/ \A s \in Nat, c \in 1 .. MaxStep :
          TotpCode(s, c) \in spent => user.mfa /\ s = user.secret /\ c <= user.last

FamilyInv ==
  /\ \A t \in Tokens : LET f == refresh[t].family IN f # 0 => refresh[f].family = f
  /\ \A token \in access : refresh[token.family].family = token.family
  /\ \A f \in Tokens : Family(f) \in killed => refresh[f].family = f

LiveInv ==
  \A f \in Tokens :
    \/ Family(f) \in raced
    \/ /\ \A t, u \in Live(f) : t = u
       /\ Family(f) \in killed => Live(f) = {}

\* Versions only grow, unless resets overlap.
PasswordInv ==
  /\ \A f \in Tokens : \A t \in Live(f) : Family(f) \in raced \/ refresh[t].pw = user.pw
  /\ \A token \in access :
       \/ Family(token.family) \in raced
       \/ /\ token.version <= user.version
          /\ token.version = user.version => token.pw = user.pw
  /\ \A token \in mfaTokens :
       \/ Version(token.version) \in raced
       \/ /\ token.version <= user.version
          /\ token.version = user.version => token.pw = user.pw

RowsInv == /\ Unborn /\ SpentInv /\ FamilyInv /\ LiveInv /\ PasswordInv
           /\ SingleUse /\ EnforcedSecretIsProven

AccountsInv ==
  /\ AccountsType
  /\ RowsInv
  /\ \A r \in Slots : RequestOK(txn[r], user, links, refresh, mfaTokens, spent, raced)
  /\ \A p, q \in Slots : p # q => Apart(txn[p], txn[q])

-----------------------------------------------------------------------------
(* Names of things, and which requests interfere.                          *)

Meets(a, b) == {a, b} \in Interfering

LEMMA Interferes ==
  /\ Meets("verify", "verify") /\ Meets("reset", "reset")
  /\ Meets("challenge", "challenge") /\ Meets("enrol", "enrol")
  /\ Meets("confirm", "confirm") /\ Meets("rotate", "rotate")
  /\ Meets("enrol", "confirm") /\ Meets("confirm", "enrol")
  /\ Meets("challenge", "confirm")
  /\ Meets("rotate", "logout") /\ Meets("logout", "rotate")
  /\ Meets("rotate", "reset") /\ Meets("reset", "rotate")
  /\ Meets("reset", "login") /\ Meets("login", "reset")
  /\ Meets("reset", "challenge") /\ Meets("challenge", "reset")
BY DEF Meets, Interfering

\* Locks and what is used up have names that tell them apart.
LEMMA Names ==
  /\ \A l, k \in Links : Link(l) = Link(k) => l = k
  /\ \A t, u \in Tokens : Token(t) = Token(u) => t = u
  /\ \A f, g \in Tokens : Family(f) = Family(g) => f = g
  /\ \A l \in Links : Link(l) \notin Codes /\ Thing(Link(l)) = Link(l)
  /\ \A l \in Links : \A s \in Nat, c \in 1 .. MaxStep : Link(l) # TotpCode(s, c)
  /\ \A c \in Codes : Thing(c) = c
  /\ \A c \in Codes : \A s \in Nat, d \in 1 .. MaxStep : c # TotpCode(s, d)
  /\ \A s \in Nat, c \in 1 .. MaxStep :
       /\ Thing(TotpCode(s, c)) = Totp
       /\ TotpCode(s, c)[3] = c
       /\ TotpCode(s, c) # None
       /\ \A z \in Nat, d \in 1 .. MaxStep :
            TotpCode(s, c) = TotpCode(z, d) => s = z /\ c = d
  /\ None \notin Codes /\ None \notin Links
<1>1. /\ \A l, k \in Links : Link(l) = Link(k) => l = k
      /\ \A t, u \in Tokens : Token(t) = Token(u) => t = u
      /\ \A f, g \in Tokens : Family(f) = Family(g) => f = g
  BY DEF Link, Token, Family
<1>2. \A l \in Links : Link(l) \notin Codes /\ Thing(Link(l)) = Link(l)
  BY DEF Link, Codes, Thing
<1>3. \A l \in Links : \A s \in Nat, c \in 1 .. MaxStep : Link(l) # TotpCode(s, c)
  BY DEF Link, TotpCode
<1>4. /\ \A c \in Codes : Thing(c) = c
      /\ \A c \in Codes : \A s \in Nat, d \in 1 .. MaxStep : c # TotpCode(s, d)
  BY DEF Codes, Thing, TotpCode
<1>5. \A s \in Nat, c \in 1 .. MaxStep :
       /\ Thing(TotpCode(s, c)) = Totp
       /\ TotpCode(s, c)[3] = c
       /\ \A z \in Nat, d \in 1 .. MaxStep :
            TotpCode(s, c) = TotpCode(z, d) => s = z /\ c = d
  BY DEF Thing, TotpCode
<1>6. \A s \in Nat, c \in 1 .. MaxStep : TotpCode(s, c) # None
  <2>1. SUFFICES ASSUME NEW s \in Nat, NEW c \in 1 .. MaxStep PROVE TotpCode(s, c) # None
    OBVIOUS
  <2>2. c \in Nat
    BY AccountsAssumption
  <2>3. TotpCode(s, c) \in {"totp"} \X Nat \X Nat
    BY <2>1, <2>2 DEF TotpCode
  <2> QED BY <2>3, AccountsAssumption
<1>7. None \notin Codes /\ None \notin Links
  BY AccountsAssumption
<1> QED BY <1>1, <1>2, <1>3, <1>4, <1>5, <1>6, <1>7

-----------------------------------------------------------------------------
(* Steps that change one slot and nothing else.                            *)

LEMMA AccountsInitially == Init => AccountsInv
<1>1. SUFFICES ASSUME Init PROVE AccountsInv
  OBVIOUS
<1>2. AccountsType
  BY <1>1 DEF Init, AccountsType, UserRecord, LinkRecord, TokenRecord, Nobody, NoToken
<1>3. RowsInv
  BY <1>1, SMTT(30) DEF Init, RowsInv, Unborn, SpentInv, FamilyInv, LiveInv, PasswordInv,
     SingleUse, EnforcedSecretIsProven, Nobody, NoToken, Live, Unrevoked
<1>4. RequestOK(Idle, user, links, refresh, mfaTokens, spent, raced)
  BY DEF Idle, RequestOK, Shape, IsRequest, Steps, LinkOK, CodeOK, TokenOK, UserOK,
     Running, HasRow, HasCode, Rotating, Killing
<1>5. \A p \in Slots : txn[p] = Idle
  BY <1>1 DEF Init
<1>6. Apart(Idle, Idle)
  BY DEF Idle, Apart
<1> QED BY <1>2, <1>3, <1>4, <1>5, <1>6 DEF AccountsInv

\* A slot may take any step that leaves it in order.
LEMMA SlotMoves ==
  ASSUME AccountsInv, NEW r \in Slots, NEW to,
         txn' = [txn EXCEPT ![r] = to],
         UNCHANGED <<rows, handed, history>>,
         RequestOK(to, user, links, refresh, mfaTokens, spent, raced),
         \A q \in Slots \ {r} : Apart(to, txn[q])
  PROVE  AccountsInv'
<1>1. /\ UNCHANGED <<user, links, refresh, recovery, access, mfaTokens>>
      /\ UNCHANGED <<killed, spent, respent, raced>>
  BY DEF rows, handed, history
<1>2. DOMAIN txn = Slots
  BY DEF AccountsInv, AccountsType
<1>3. txn'[r] = to /\ \A q \in Slots \ {r} : txn'[q] = txn[q]
  BY <1>2
<1>4. AccountsType'
  BY <1>1, <1>2 DEF AccountsInv, AccountsType
<1>5. RowsInv'
  BY <1>1 DEF AccountsInv, RowsInv, Unborn, SpentInv, FamilyInv, LiveInv, PasswordInv,
     SingleUse, EnforcedSecretIsProven, Live, Unrevoked
<1>6. \A q \in Slots :
        RequestOK(txn'[q], user', links', refresh', mfaTokens', spent', raced')
  BY <1>1, <1>3 DEF AccountsInv
<1>7. \A p, q \in Slots : p # q => Apart(txn'[p], txn'[q])
  <2>1. \A p, q \in Slots : p # q => Apart(txn[p], txn[q])
    BY DEF AccountsInv
  <2>2. \A q \in Slots \ {r} : Apart(txn[q], to)
    BY DEF Apart
  <2> QED BY <1>3, <2>1, <2>2
<1> QED BY <1>4, <1>5, <1>6, <1>7 DEF AccountsInv

LEMMA FailStep == ASSUME AccountsInv, NEW r \in Slots, Fail(r) PROVE AccountsInv'
<1>1. RequestOK(Idle, user, links, refresh, mfaTokens, spent, raced)
  BY DEF Idle, RequestOK, Shape, IsRequest, Steps, LinkOK, CodeOK, TokenOK, UserOK,
     Running, HasRow, HasCode, Rotating, Killing
<1>2. \A q \in Slots \ {r} : Apart(Idle, txn[q])
  BY DEF Idle, Apart
<1>3. txn' = [txn EXCEPT ![r] = Idle] /\ UNCHANGED <<rows, handed, history>>
  BY DEF Fail, End, Step
<1> QED BY <1>1, <1>2, <1>3, SlotMoves

Begun(op, arg, row, step) ==
  [pc |-> step, op |-> op, arg |-> arg, row |-> row, code |-> None,
   kills |-> {}, mint |-> 0, holds |-> {}, overlapped |-> FALSE]

LEMMA BeginMoves ==
  ASSUME AccountsInv, NEW r \in Slots, NEW op, NEW arg, NEW row, NEW step,
         Begin(r, op, arg, row, step), step # "mail",
         RequestOK(Begun(op, arg, row, step), user, links, refresh, mfaTokens, spent, raced)
  PROVE  AccountsInv'
<1>1. \A q \in Slots \ {r} : Apart(Begun(op, arg, row, step), txn[q])
  BY DEF Begun, Apart
<1>2. /\ txn' = [txn EXCEPT ![r] = Begun(op, arg, row, step)]
      /\ UNCHANGED <<rows, handed, history>>
  <2>1. PICK q : q = [Idle EXCEPT !.pc = step, !.op = op, !.arg = arg, !.row = row]
    OBVIOUS
  <2>2. q = Begun(op, arg, row, step)
    BY <2>1 DEF Begun, Idle
  <2> QED BY <2>1, <2>2 DEF Begin
<1> QED BY <1>1, <1>2, SlotMoves

\* Requests of a client that gives no link and no token.
LEMMA PlainMoves ==
  ASSUME AccountsInv, NEW r \in Slots, NEW arg,
         NEW op \in {"register", "resend", "forgot", "login", "enrol", "confirm"},
         NEW step \in {"flush", "code"},
         Begin(r, op, arg, user, step),
         (step = "code") = (op = "confirm"),
         op # "register" => user.exists,
         op \in {"enrol", "confirm"} => ~user.mfa
  PROVE  AccountsInv'
<1> DEFINE q == Begun(op, arg, user, step)
<1>1. user \in UserRecord
  BY DEF AccountsInv, AccountsType
<1>2. step \in Steps
  BY DEF Steps
<1>3. /\ IsRequest(q)
      /\ q.pc = step /\ q.op = op /\ q.arg = arg /\ q.row = user /\ q.code = None
      /\ q.kills = {} /\ q.mint = 0 /\ q.holds = {} /\ ~q.overlapped
  BY <1>2 DEF Begun, IsRequest
<1> HIDE DEF q
<1>4. Shape(q)
  BY <1>1, <1>3 DEF Shape, Running, HasRow, HasCode, Killing, Ops
<1>5. LinkOK(q, links, spent)
  BY <1>3 DEF LinkOK, Running
<1>6. CodeOK(q, user, spent, raced)
  BY <1>3 DEF CodeOK, Running, HasCode
<1>7. TokenOK(q, refresh)
  BY <1>3 DEF TokenOK, Running, Rotating, Killing
<1>8. UserOK(q, user, mfaTokens)
  BY <1>3 DEF UserOK, Running, HasRow
<1>9. RequestOK(q, user, links, refresh, mfaTokens, spent, raced)
  BY <1>4, <1>5, <1>6, <1>7, <1>8 DEF RequestOK
<1> QED BY <1>9, BeginMoves DEF q

LEMMA PlainStep ==
  ASSUME AccountsInv, NEW r \in Slots,
         Register(r) \/ Resend(r) \/ Forgot(r) \/ Login(r) \/ Enrol(r) \/ Confirm(r)
  PROVE  AccountsInv'
<1>1. Unborn
  BY DEF AccountsInv, RowsInv
<1>2. CASE Register(r)
  BY <1>2, PlainMoves DEF Register
<1>3. CASE Resend(r)
  BY <1>3, PlainMoves DEF Resend
<1>4. CASE Forgot(r)
  BY <1>4, PlainMoves DEF Forgot
<1>5. CASE Login(r)
  BY <1>5, PlainMoves DEF Login
<1>6. CASE Enrol(r)
  <2>1. Begin(r, "enrol", None, user, "flush") /\ ~user.mfa /\ access # {}
    BY <1>6 DEF Enrol, MayEnrol
  <2>2. user.exists
    BY <1>1, <2>1 DEF Unborn
  <2> QED BY <2>1, <2>2, PlainMoves
<1>7. CASE Confirm(r)
  <2>1. Begin(r, "confirm", None, user, "code") /\ ~user.mfa /\ access # {}
    BY <1>7 DEF Confirm, MayConfirm
  <2>2. user.exists
    BY <1>1, <2>1 DEF Unborn
  <2> QED BY <2>1, <2>2, PlainMoves
<1> QED BY <1>2, <1>3, <1>4, <1>5, <1>6, <1>7

LEMMA LinkStep ==
  ASSUME AccountsInv, NEW r \in Slots, PresentVerification(r) \/ PresentReset(r)
  PROVE  AccountsInv'
<1>1. PICK l \in Links, op \in {"verify", "reset"} :
        LinkUsable(l, op) /\ Begin(r, op, l, None, "user")
  BY DEF PresentVerification, PresentReset
<1> DEFINE q == Begun(op, l, None, "user")
<1>2. "user" \in Steps
  BY DEF Steps
<1>3. /\ IsRequest(q)
      /\ q.pc = "user" /\ q.op = op /\ q.arg = l /\ q.row = None /\ q.code = None
      /\ q.kills = {} /\ q.mint = 0 /\ q.holds = {} /\ ~q.overlapped
  BY <1>2 DEF Begun, IsRequest
<1> HIDE DEF q
<1>4. links[l].kind = op /\ links[l].state = "mailed"
  BY <1>1 DEF LinkUsable
<1>5. user.exists /\ Link(l) \notin spent
  BY <1>4 DEF AccountsInv, RowsInv, Unborn, SpentInv
<1>6. Shape(q)
  BY <1>3 DEF Shape, Running, HasRow, HasCode, Killing, Ops
<1>7. LinkOK(q, links, spent)
  BY <1>3, <1>4, <1>5 DEF LinkOK, Running
<1>8. CodeOK(q, user, spent, raced) /\ TokenOK(q, refresh) /\ UserOK(q, user, mfaTokens)
  BY <1>3, <1>5 DEF CodeOK, TokenOK, UserOK, Running, HasRow, HasCode, Rotating, Killing
<1>9. RequestOK(q, user, links, refresh, mfaTokens, spent, raced)
  BY <1>6, <1>7, <1>8 DEF RequestOK
<1> QED BY <1>1, <1>9, BeginMoves DEF q

LEMMA TokenStep == ASSUME AccountsInv, NEW r \in Slots, PresentToken(r) PROVE AccountsInv'
<1>1. PICK t \in Tokens, op \in {"rotate", "logout"}, step \in {"user", "revoke"} :
        /\ refresh[t].family # 0
        /\ Begin(r, op, t, None, step)
        /\ step = "user" => op = "rotate" /\ ~refresh[t].consumed /\ ~refresh[t].revoked
  BY DEF PresentToken
<1> DEFINE q == Begun(op, t, None, step)
<1>2. step \in Steps
  BY DEF Steps
<1>3. /\ IsRequest(q)
      /\ q.pc = step /\ q.op = op /\ q.arg = t /\ q.row = None /\ q.code = None
      /\ q.kills = {} /\ q.mint = 0 /\ q.holds = {} /\ ~q.overlapped
  BY <1>2 DEF Begun, IsRequest
<1> HIDE DEF q
<1>4. user.exists
  BY <1>1 DEF AccountsInv, RowsInv, Unborn
<1>5. Shape(q)
  BY <1>1, <1>3 DEF Shape, Running, HasRow, HasCode, Killing, Ops
<1>6. LinkOK(q, links, spent) /\ CodeOK(q, user, spent, raced) /\ UserOK(q, user, mfaTokens)
  BY <1>1, <1>3, <1>4 DEF LinkOK, CodeOK, UserOK, Running, HasRow, HasCode
<1>7. TokenOK(q, refresh)
  BY <1>1, <1>3 DEF TokenOK, Running, Rotating, Killing
<1>8. RequestOK(q, user, links, refresh, mfaTokens, spent, raced)
  BY <1>5, <1>6, <1>7 DEF RequestOK
<1> QED BY <1>1, <1>8, BeginMoves DEF q

LEMMA ChallengeStep == ASSUME AccountsInv, NEW r \in Slots, Challenge(r) PROVE AccountsInv'
<1>1. PICK token \in mfaTokens :
        /\ user.mfa /\ token.version = user.version
        /\ Begin(r, "challenge", token, user, "code")
  BY DEF Challenge, MayChallenge
<1> DEFINE q == Begun("challenge", token, user, "code")
<1>2. "code" \in Steps
  BY DEF Steps
<1>3. /\ IsRequest(q)
      /\ q.pc = "code" /\ q.op = "challenge" /\ q.arg = token /\ q.row = user
      /\ q.code = None
      /\ q.kills = {} /\ q.mint = 0 /\ q.holds = {} /\ ~q.overlapped
  BY <1>2 DEF Begun, IsRequest
<1> HIDE DEF q
<1>4. user \in UserRecord /\ token \in Challenged /\ user.exists
  BY <1>1 DEF AccountsInv, AccountsType, RowsInv, Unborn
<1>5. Shape(q)
  BY <1>1, <1>3, <1>4 DEF Shape, Running, HasRow, HasCode, Killing, Ops
<1>6. LinkOK(q, links, spent) /\ TokenOK(q, refresh)
  BY <1>3 DEF LinkOK, TokenOK, Running, Rotating, Killing
<1>7. CodeOK(q, user, spent, raced) /\ UserOK(q, user, mfaTokens)
  BY <1>1, <1>3, <1>4 DEF CodeOK, UserOK, Running, HasRow, HasCode
<1>8. RequestOK(q, user, links, refresh, mfaTokens, spent, raced)
  BY <1>5, <1>6, <1>7 DEF RequestOK
<1> QED BY <1>1, <1>8, BeginMoves DEF q

LEMMA SlotFacts ==
  ASSUME AccountsInv, NEW r \in Slots
  PROVE  /\ Shape(txn[r]) /\ IsRequest(txn[r])
         /\ LinkOK(txn[r], links, spent)
         /\ CodeOK(txn[r], user, spent, raced)
         /\ TokenOK(txn[r], refresh)
         /\ UserOK(txn[r], user, mfaTokens)
         /\ \A q \in Slots \ {r} : Apart(txn[r], txn[q])
         /\ user \in UserRecord
BY DEF AccountsInv, AccountsType, RequestOK, Shape

LEMMA ReadUserStep == ASSUME AccountsInv, NEW r \in Slots, ReadUser(r) PROVE AccountsInv'
<1> DEFINE p == txn[r]
<1>1. PICK q : q = [p EXCEPT !.row = user, !.pc = "flush"]
  OBVIOUS
<1>2. /\ txn' = [txn EXCEPT ![r] = q] /\ UNCHANGED <<rows, handed, history>>
      /\ p.pc = "user" /\ p.op \in {"verify", "reset", "rotate"}
  BY <1>1 DEF ReadUser, Step, At
<1>3. /\ Shape(p) /\ IsRequest(p) /\ LinkOK(p, links, spent) /\ TokenOK(p, refresh)
      /\ UserOK(p, user, mfaTokens) /\ user \in UserRecord
      /\ \A o \in Slots \ {r} : Apart(p, txn[o])
  BY SlotFacts
<1> HIDE DEF p
<1>4. /\ q.pc = "flush" /\ q.op = p.op /\ q.arg = p.arg /\ q.row = user /\ q.code = p.code
      /\ q.kills = p.kills /\ q.mint = p.mint /\ q.holds = p.holds
      /\ q.overlapped = p.overlapped /\ IsRequest(q)
  BY <1>1, <1>3 DEF IsRequest, Steps
<1>5. Shape(q)
  BY <1>2, <1>3, <1>4 DEF Shape, Running, HasRow, HasCode, Killing
<1>6. LinkOK(q, links, spent) /\ CodeOK(q, user, spent, raced)
  BY <1>2, <1>3, <1>4 DEF LinkOK, CodeOK, Running, HasCode
<1>7. TokenOK(q, refresh) /\ UserOK(q, user, mfaTokens)
  BY <1>2, <1>3, <1>4 DEF TokenOK, UserOK, Shape, Running, HasRow, Rotating, Killing
<1>8. RequestOK(q, user, links, refresh, mfaTokens, spent, raced)
  BY <1>5, <1>6, <1>7 DEF RequestOK
<1>9. \A o \in Slots \ {r} : Apart(q, txn[o])
  BY <1>2, <1>3, <1>4 DEF Apart
<1> QED BY <1>2, <1>8, <1>9, SlotMoves

LEMMA CodeStep ==
  ASSUME AccountsInv, NEW r \in Slots, TryTotp(r) \/ TryRecoveryCode(r)
  PROVE  AccountsInv'
<1> DEFINE p == txn[r]
           Fits(code) ==
             \/ p.op = "challenge" /\ code \in Codes /\ code \notin spent
             \/ \E c \in 1 .. MaxStep : /\ code = TotpCode(p.row.secret, c)
                                        /\ p.op = "challenge" => c > p.row.last
<1>1. PICK code : /\ Fits(code)
                  /\ txn' = [txn EXCEPT ![r].code = code, ![r].pc = "flush"]
  <2>1. CASE TryTotp(r)
    BY <2>1 DEF TryTotp, TotpCode
  <2>2. CASE TryRecoveryCode(r)
    <3>1. PICK code \in Codes :
            /\ recovery[code] = "fresh"
            /\ txn' = [txn EXCEPT ![r].code = code, ![r].pc = "flush"]
      BY <2>2 DEF TryRecoveryCode
    <3>2. code \notin spent
      BY <3>1 DEF AccountsInv, RowsInv, SpentInv
    <3>3. p.op = "challenge"
      BY <2>2 DEF TryRecoveryCode, At
    <3> QED BY <3>1, <3>2, <3>3
  <2> QED BY <2>1, <2>2
<1>2. PICK q : q = [p EXCEPT !.code = code, !.pc = "flush"]
  OBVIOUS
<1>3. /\ txn' = [txn EXCEPT ![r] = q] /\ UNCHANGED <<rows, handed, history>>
      /\ p.pc = "code" /\ p.op \in {"confirm", "challenge"}
  BY <1>1, <1>2 DEF TryTotp, TryRecoveryCode, Step, At
<1>4. /\ Shape(p) /\ IsRequest(p) /\ LinkOK(p, links, spent) /\ TokenOK(p, refresh)
      /\ CodeOK(p, user, spent, raced) /\ UserOK(p, user, mfaTokens)
      /\ \A o \in Slots \ {r} : Apart(p, txn[o])
  BY SlotFacts
<1> HIDE DEF p
<1>5. /\ q.pc = "flush" /\ q.op = p.op /\ q.arg = p.arg /\ q.row = p.row /\ q.code = code
      /\ q.kills = p.kills /\ q.mint = p.mint /\ q.holds = p.holds
      /\ q.overlapped = p.overlapped /\ IsRequest(q)
  BY <1>2, <1>4 DEF IsRequest, Steps
<1>6. Shape(q)
  BY <1>3, <1>4, <1>5 DEF Shape, Running, HasRow, HasCode, Killing
<1>7. LinkOK(q, links, spent) /\ CodeOK(q, user, spent, raced)
  BY <1>1, <1>3, <1>4, <1>5 DEF LinkOK, CodeOK, Running, HasCode
<1>8. TokenOK(q, refresh) /\ UserOK(q, user, mfaTokens)
  BY <1>3, <1>4, <1>5 DEF TokenOK, UserOK, Shape, Running, HasRow, Rotating, Killing
<1>9. RequestOK(q, user, links, refresh, mfaTokens, spent, raced)
  BY <1>6, <1>7, <1>8 DEF RequestOK
<1>10. \A o \in Slots \ {r} : Apart(q, txn[o])
  BY <1>3, <1>4, <1>5 DEF Apart
<1> QED BY <1>3, <1>9, <1>10, SlotMoves

LEMMA FlushStep == ASSUME AccountsInv, NEW r \in Slots, Flush(r) PROVE AccountsInv'
<1> DEFINE p == txn[r]
           t == IF Inserts(r) THEN NextToken(r) ELSE 0
           held == Locks(r) \union (IF t = 0 THEN {} ELSE {Token(t)})
           next == IF p.op = "reset" THEN "revoke" ELSE "commit"
<1>1. CASE p.op = "register" /\ user.exists
  <2>1. Fail(r)
    BY <1>1 DEF Flush, Fail
  <2> QED BY <2>1, FailStep
<1>2. CASE ~(p.op = "register" /\ user.exists)
  <2>1. PICK q : q = [p EXCEPT !.mint = t, !.holds = held, !.pc = next]
    OBVIOUS
  <2>2. /\ txn' = [txn EXCEPT ![r] = q] /\ UNCHANGED <<rows, handed, history>>
        /\ p.pc = "flush" /\ Free(r, Locks(r))
        /\ Inserts(r) => Unused(r) # {}
    BY <1>2, <2>1 DEF Flush, Step
  <2>3. Inserts(r) => t \in Tokens /\ refresh[t].family = 0 /\ Free(r, {Token(t)})
    BY <2>2 DEF NextToken, Unused
  <2>4. p.op = "register" => UserRow \in held
    BY DEF Locks, Sets
  <2>5. t \in Tokens \union {0} /\ (t # 0) = (p.op \in {"login", "challenge", "rotate"})
    BY <2>3 DEF Inserts, Tokens
  <2>6. t # 0 => refresh[t].family = 0 /\ Token(t) \in held
    BY <2>3
  <2>7. \A o \in Slots \ {r} : held \intersect txn[o].holds = {}
    BY <2>2, <2>3 DEF Free
  <2>8. /\ Shape(p) /\ IsRequest(p) /\ LinkOK(p, links, spent) /\ TokenOK(p, refresh)
        /\ CodeOK(p, user, spent, raced) /\ UserOK(p, user, mfaTokens)
    BY SlotFacts
  <2>9. \/ next = "revoke" /\ p.op = "reset"
        \/ next = "commit" /\ p.op # "reset"
    OBVIOUS
  <2> HIDE DEF p, t, held, next
  <2>10. /\ q.pc = next /\ q.op = p.op /\ q.arg = p.arg /\ q.row = p.row
         /\ q.code = p.code /\ q.kills = p.kills /\ q.mint = t /\ q.holds = held
         /\ q.overlapped = p.overlapped /\ IsRequest(q)
    BY <2>1, <2>5, <2>8, <2>9 DEF IsRequest, Steps
  <2>11. Shape(q)
    BY <2>2, <2>5, <2>6, <2>8, <2>9, <2>10 DEF Shape, Running, HasRow, HasCode, Killing
  <2>12. LinkOK(q, links, spent) /\ CodeOK(q, user, spent, raced)
    BY <2>2, <2>8, <2>9, <2>10 DEF LinkOK, CodeOK, Running, HasCode
  <2>13. TokenOK(q, refresh)
    BY <2>2, <2>5, <2>6, <2>8, <2>9, <2>10
    DEF TokenOK, Shape, Running, HasRow, Rotating, Killing
  <2>14. UserOK(q, user, mfaTokens)
    BY <1>2, <2>2, <2>4, <2>8, <2>9, <2>10 DEF UserOK, Running, HasRow
  <2>15. RequestOK(q, user, links, refresh, mfaTokens, spent, raced)
    BY <2>11, <2>12, <2>13, <2>14 DEF RequestOK
  <2>16. \A o \in Slots \ {r} : Apart(q, txn[o])
    BY <2>7, <2>9, <2>10 DEF Apart
  <2> QED BY <2>2, <2>15, <2>16, SlotMoves
<1> QED BY <1>1, <1>2

LEMMA RevokeStep == ASSUME AccountsInv, NEW r \in Slots, Revoke(r) PROVE AccountsInv'
<1> DEFINE p == txn[r]
           kills == Unrevoked \intersect
                      (IF p.op = "reset" THEN Tokens ELSE FamilyOf(p.arg))
<1>1. PICK q : q = [p EXCEPT !.kills = kills, !.pc = "wait"]
  OBVIOUS
<1>2. /\ txn' = [txn EXCEPT ![r] = q] /\ UNCHANGED <<rows, handed, history>>
      /\ p.pc = "revoke"
  BY <1>1 DEF Revoke, Step
<1>3. /\ Shape(p) /\ IsRequest(p) /\ LinkOK(p, links, spent) /\ TokenOK(p, refresh)
      /\ CodeOK(p, user, spent, raced) /\ UserOK(p, user, mfaTokens)
      /\ \A o \in Slots \ {r} : Apart(p, txn[o])
  BY SlotFacts
<1>4. kills \subseteq Tokens
  BY DEF Unrevoked
<1>5. p.op = "reset" \/ refresh[p.arg].family # 0 =>
        \A t \in Tokens :
          refresh[t].family # 0 /\ ~refresh[t].revoked
          /\ (p.op = "reset" \/ refresh[t].family = refresh[p.arg].family) => t \in kills
  BY DEF Unrevoked, FamilyOf
<1> HIDE DEF p, kills
<1>6. /\ q.pc = "wait" /\ q.op = p.op /\ q.arg = p.arg /\ q.row = p.row /\ q.code = p.code
      /\ q.kills = kills /\ q.mint = p.mint /\ q.holds = p.holds
      /\ q.overlapped = p.overlapped /\ IsRequest(q)
  BY <1>1, <1>3, <1>4 DEF IsRequest, Steps
<1>7. Shape(q)
  BY <1>2, <1>3, <1>4, <1>6 DEF Shape, Running, HasRow, HasCode, Killing
<1>8. LinkOK(q, links, spent) /\ CodeOK(q, user, spent, raced)
  BY <1>2, <1>3, <1>6 DEF LinkOK, CodeOK, Running, HasCode
<1>9. TokenOK(q, refresh)
  BY <1>2, <1>3, <1>5, <1>6 DEF TokenOK, Shape, Running, Rotating, Killing
<1>10. UserOK(q, user, mfaTokens)
  BY <1>2, <1>3, <1>6 DEF UserOK, Shape, Running, HasRow
<1>11. RequestOK(q, user, links, refresh, mfaTokens, spent, raced)
  BY <1>7, <1>8, <1>9, <1>10 DEF RequestOK
<1>12. \A o \in Slots \ {r} : Apart(q, txn[o])
  BY <1>2, <1>3, <1>6 DEF Apart
<1> QED BY <1>2, <1>11, <1>12, SlotMoves

LEMMA RevokedStep == ASSUME AccountsInv, NEW r \in Slots, Revoked(r) PROVE AccountsInv'
<1> DEFINE p == txn[r]
           S == {Token(t) : t \in p.kills}
<1>1. PICK q : q = [p EXCEPT !.holds = @ \union S, !.pc = "commit"]
  OBVIOUS
<1>2. /\ txn' = [txn EXCEPT ![r] = q] /\ UNCHANGED <<rows, handed, history>>
      /\ p.pc = "wait" /\ Free(r, S)
  BY <1>1 DEF Revoked, Step
<1>3. /\ Shape(p) /\ IsRequest(p) /\ LinkOK(p, links, spent) /\ TokenOK(p, refresh)
      /\ CodeOK(p, user, spent, raced) /\ UserOK(p, user, mfaTokens)
      /\ \A o \in Slots \ {r} : Apart(p, txn[o])
  BY SlotFacts
<1>4. \A o \in Slots \ {r} : S \intersect txn[o].holds = {}
  BY <1>2 DEF Free
<1> HIDE DEF p, S
<1>5. /\ q.pc = "commit" /\ q.op = p.op /\ q.arg = p.arg /\ q.row = p.row
      /\ q.code = p.code /\ q.kills = p.kills /\ q.mint = p.mint
      /\ q.holds = p.holds \union S /\ q.overlapped = p.overlapped /\ IsRequest(q)
  BY <1>1, <1>3 DEF IsRequest, Steps
<1>6. Shape(q)
  BY <1>2, <1>3, <1>5 DEF Shape, Running, HasRow, HasCode, Killing
<1>7. LinkOK(q, links, spent) /\ CodeOK(q, user, spent, raced)
  BY <1>2, <1>3, <1>5 DEF LinkOK, CodeOK, Shape, Running, HasCode
<1>8. TokenOK(q, refresh)
  BY <1>2, <1>3, <1>5 DEF TokenOK, Shape, Running, Rotating, Killing
<1>9. UserOK(q, user, mfaTokens)
  BY <1>2, <1>3, <1>5 DEF UserOK, Shape, Running, HasRow
<1>10. RequestOK(q, user, links, refresh, mfaTokens, spent, raced)
  BY <1>6, <1>7, <1>8, <1>9 DEF RequestOK
<1>11. \A o \in Slots \ {r} : Apart(q, txn[o])
  BY <1>2, <1>3, <1>4, <1>5 DEF Apart
<1> QED BY <1>2, <1>10, <1>11, SlotMoves

-----------------------------------------------------------------------------
(* The answer to a password when MFA is on, and the mail.                  *)

LEMMA LoginWithMfaStep ==
  ASSUME AccountsInv, NEW r \in Slots, LoginWithMfa(r) PROVE AccountsInv'
<1> DEFINE new == [version |-> user.version, pw |-> user.pw]
<1>1. /\ user.exists /\ mfaTokens' = mfaTokens \union {new}
      /\ UNCHANGED <<user, links, refresh, recovery, access, txn>>
      /\ UNCHANGED <<killed, spent, respent, raced>>
  BY DEF LoginWithMfa, rows, history
<1>2. user \in UserRecord /\ new \in Challenged
  BY DEF AccountsInv, AccountsType, UserRecord, Challenged
<1>3. AccountsType'
  BY <1>1, <1>2 DEF AccountsInv, AccountsType
<1>4. PasswordInv'
  <2>1. user.version <= user.version
    BY <1>2 DEF UserRecord
  <2> QED BY <1>1, <2>1 DEF AccountsInv, RowsInv, PasswordInv, Live, Unrevoked
<1>5. RowsInv'
  BY <1>1, <1>4 DEF AccountsInv, RowsInv, Unborn, SpentInv, FamilyInv, LiveInv,
     SingleUse, EnforcedSecretIsProven, Live, Unrevoked
<1>6. ASSUME NEW q \in Slots
      PROVE  RequestOK(txn'[q], user', links', refresh', mfaTokens', spent', raced')
  <2>1. RequestOK(txn[q], user, links, refresh, mfaTokens, spent, raced)
    BY DEF AccountsInv
  <2>2. UserOK(txn[q], user, mfaTokens \union {new})
    BY <2>1 DEF RequestOK, UserOK
  <2> QED BY <1>1, <2>1, <2>2 DEF RequestOK
<1>7. \A p, q \in Slots : p # q => Apart(txn'[p], txn'[q])
  BY <1>1 DEF AccountsInv
<1> QED BY <1>3, <1>5, <1>6, <1>7 DEF AccountsInv

LEMMA MailStep == ASSUME AccountsInv, NEW r \in Slots, Mail(r) PROVE AccountsInv'
<1> DEFINE l == txn[r].arg
<1>1. /\ txn[r].pc = "mail" /\ txn' = [txn EXCEPT ![r] = Idle]
      /\ links' = [links EXCEPT ![l].state = "mailed"]
      /\ UNCHANGED <<user, refresh, recovery, access, mfaTokens>>
      /\ UNCHANGED <<killed, spent, respent, raced>>
  BY DEF Mail, End, handed, history
<1>2. l \in Links /\ links[l].state = "unmailed" /\ links \in [Links -> LinkRecord]
  BY <1>1, SlotFacts DEF Shape, LinkOK, AccountsInv, AccountsType
<1> HIDE DEF l
<1>3. /\ \A k \in Links \ {l} : links'[k] = links[k]
      /\ links'[l].state = "mailed" /\ links'[l].kind = links[l].kind
      /\ links' \in [Links -> LinkRecord]
  BY <1>1, <1>2 DEF LinkRecord
<1>4. AccountsType'
  BY <1>1, <1>3 DEF AccountsInv, AccountsType
<1>5. Unborn'
  BY <1>1, <1>2 DEF AccountsInv, RowsInv, Unborn
<1>6. SpentInv'
  BY <1>1, <1>2, <1>3 DEF AccountsInv, RowsInv, SpentInv
<1>7. RowsInv'
  BY <1>1, <1>5, <1>6 DEF AccountsInv, RowsInv, FamilyInv, LiveInv, PasswordInv,
     SingleUse, EnforcedSecretIsProven, Live, Unrevoked
<1>8. txn'[r] = Idle /\ \A q \in Slots \ {r} : txn'[q] = txn[q]
  BY <1>1 DEF AccountsInv, AccountsType
<1>9. RequestOK(Idle, user', links', refresh', mfaTokens', spent', raced')
  BY DEF Idle, RequestOK, Shape, IsRequest, Steps, LinkOK, CodeOK, TokenOK, UserOK,
     Running, HasRow, HasCode, Rotating, Killing
<1>10. ASSUME NEW q \in Slots \ {r}
       PROVE  RequestOK(txn[q], user', links', refresh', mfaTokens', spent', raced')
  <2>1. RequestOK(txn[q], user, links, refresh, mfaTokens, spent, raced)
    BY DEF AccountsInv
  <2>2. txn[q].pc = "mail" => txn[q].arg # l
    BY <1>1, SlotFacts DEF Apart, l
  <2>3. LinkOK(txn[q], links', spent)
    BY <1>2, <1>3, <2>1, <2>2 DEF RequestOK, Shape, LinkOK
  <2> QED BY <1>1, <2>1, <2>3 DEF RequestOK
<1>11. \A p, q \in Slots : p # q => Apart(txn'[p], txn'[q])
  <2>1. \A q \in Slots : Apart(Idle, txn[q]) /\ Apart(txn[q], Idle)
    BY DEF Apart, Idle
  <2> QED BY <1>8, <2>1 DEF AccountsInv
<1> QED BY <1>4, <1>7, <1>8, <1>9, <1>10, <1>11 DEF AccountsInv

-----------------------------------------------------------------------------
(* A commit: what it makes of the rows.                                    *)

UsedUp(p, uses) ==
  /\ p.op \in {"verify", "reset"} => uses = {Link(p.arg)} /\ p.arg \in Links
  /\ p.op \in {"confirm", "challenge"} => uses = {p.code}
  /\ p.op = "confirm" => \E c \in 1 .. MaxStep : p.code = TotpCode(p.row.secret, c)
  /\ p.op = "challenge" =>
       \/ p.code \in Codes
       \/ \E c \in 1 .. MaxStep : p.code = TotpCode(p.row.secret, c) /\ c > p.row.last
  /\ p.op \notin {"verify", "reset", "confirm", "challenge"} => uses = {}

LEMMA CommitUses ==
  ASSUME AccountsInv, NEW r \in Slots, Commit(r)
  PROVE  /\ txn[r].pc = "commit" /\ txn[r].op \in Ops /\ Running(txn[r])
         /\ UsedUp(txn[r], Uses(r))
<1> DEFINE p == txn[r]
<1>1. p.pc = "commit"
  BY DEF Commit
<1>2. Shape(p) /\ CodeOK(p, user, spent, raced)
  BY SlotFacts
<1>3. p.op \in Ops /\ Running(p)
  BY <1>1, <1>2 DEF Shape, Running
<1>4. CASE p.op \in {"verify", "reset"}
  <2>1. p.arg \in Links /\ Uses(r) = {Link(p.arg)}
    BY <1>2, <1>3, <1>4 DEF Shape, Uses
  <2> QED BY <1>1, <1>3, <1>4, <2>1 DEF UsedUp
<1>5. CASE p.op \in {"confirm", "challenge"}
  <2>1. HasCode(p)
    BY <1>1, <1>5 DEF HasCode
  <2>2. p.row \in UserRecord
    BY <1>1, <1>2, <1>5 DEF Shape, HasRow
  <2>3. p.row.secret \in Nat
    BY <2>2 DEF UserRecord
  <2>4. CASE p.op = "challenge" /\ p.code \in Codes
    <3>1. p.code # None
      BY <2>4, Names
    <3>2. Uses(r) = {p.code}
      BY <2>4, <3>1 DEF Uses
    <3> QED BY <1>1, <1>3, <2>4, <3>2 DEF UsedUp
  <2>5. CASE ~(p.op = "challenge" /\ p.code \in Codes)
    <3>1. PICK c \in 1 .. MaxStep : /\ p.code = TotpCode(p.row.secret, c)
                                    /\ p.op = "challenge" => c > p.row.last
      BY <1>2, <2>1, <2>5 DEF CodeOK
    <3>2. p.code # None
      BY <2>3, <3>1, Names
    <3>3. Uses(r) = {p.code}
      BY <1>5, <3>2 DEF Uses
    <3> QED BY <1>1, <1>3, <1>5, <3>1, <3>3 DEF UsedUp
  <2> QED BY <2>4, <2>5
<1>6. CASE p.op \notin {"verify", "reset", "confirm", "challenge"}
  <2>1. p.code = None
    BY <1>2, <1>3, <1>6 DEF Shape, HasCode
  <2>2. Uses(r) = {}
    BY <1>6, <2>1 DEF Uses
  <2> QED BY <1>1, <1>3, <1>6, <2>2 DEF UsedUp
<1> QED BY <1>1, <1>3, <1>4, <1>5, <1>6

UserAfter(p, its, new) ==
  /\ new \in UserRecord
  /\ new.exists
  /\ its.exists = (p.op # "register")
  /\ p.op = "confirm" => new.mfa
  /\ p.op # "confirm" => new.mfa = its.mfa
  /\ p.op # "enrol" => new.secret = its.secret
  /\ p.op # "reset" => new.version = its.version
  /\ p.op = "reset" => new.version = p.row.version + 1
  /\ p.op \notin {"register", "reset"} => new.pw = its.pw
  /\ p.op \notin {"confirm", "challenge"} \/ (p.op = "challenge" /\ p.code \in Codes)
       => new.last = its.last
  /\ \A c \in 1 .. MaxStep :
       p.op \in {"confirm", "challenge"} /\ p.code = TotpCode(p.row.secret, c) => new.last = c

LEMMA CommitUser ==
  ASSUME AccountsInv, NEW r \in Slots, Commit(r)
  PROVE  UserAfter(txn[r], user, user')
<1> DEFINE p == txn[r]
<1>1. /\ p.pc = "commit" /\ p.op \in Ops /\ Running(p)
      /\ UsedUp(p, Uses(r))
  BY CommitUses
<1>2. Shape(p) /\ UserOK(p, user, mfaTokens) /\ user \in UserRecord
  BY SlotFacts
<1>3. user.exists = (p.op # "register")
  BY <1>1, <1>2 DEF UserOK, UserRecord
<1>4. user' = Changed(r)
  BY DEF Commit
<1>5. p.op \notin {"rotate", "logout"} => p.row \in UserRecord
  BY <1>1, <1>2 DEF Shape, HasRow
<1>6. CASE p.op \in {"confirm", "challenge"}
  <2>1. p.row.secret \in Nat /\ MaxStep \in Nat
    BY <1>5, <1>6, AccountsAssumption DEF UserRecord
  <2>2. CASE p.op = "challenge" /\ p.code \in Codes
    <3>1. user' = user
      BY <1>4, <2>2 DEF Changed
    <3>2. \A c \in 1 .. MaxStep : p.code # TotpCode(p.row.secret, c)
      BY <2>1, <2>2, Names
    <3> QED BY <1>2, <1>3, <2>2, <3>1, <3>2 DEF UserAfter
  <2>3. CASE ~(p.op = "challenge" /\ p.code \in Codes)
    <3>1. PICK c \in 1 .. MaxStep : p.code = TotpCode(p.row.secret, c)
      BY <1>1, <1>6, <2>3 DEF UsedUp
    <3>2. p.code \notin Codes /\ p.code[3] = c
      BY <2>1, <3>1, Names
    <3>3. \A d \in 1 .. MaxStep : p.code = TotpCode(p.row.secret, d) => d = c
      BY <3>1 DEF TotpCode
    <3>4. c \in Nat
      BY <2>1
    <3>5. user' = IF p.op = "confirm" THEN [user EXCEPT !.mfa = TRUE, !.last = c]
                  ELSE [user EXCEPT !.last = c]
      BY <1>4, <1>6, <3>2 DEF Changed
    <3>6. user' \in UserRecord
      BY <1>2, <3>4, <3>5 DEF UserRecord
    <3>7. /\ user'.exists = user.exists /\ user'.secret = user.secret
          /\ user'.version = user.version /\ user'.pw = user.pw /\ user'.last = c
          /\ p.op = "confirm" => user'.mfa
          /\ p.op # "confirm" => user'.mfa = user.mfa
      BY <1>2, <3>5 DEF UserRecord
    <3> QED BY <1>3, <1>6, <2>3, <3>3, <3>6, <3>7 DEF UserAfter
  <2> QED BY <2>2, <2>3
<1>7. CASE p.op \notin {"confirm", "challenge"}
  <2>1. user' = CASE p.op = "register" -> [user EXCEPT !.exists = TRUE, !.pw = 1]
                  [] p.op = "verify"   -> [user EXCEPT !.verified = TRUE]
                  [] p.op = "reset"    -> [user EXCEPT !.pw = @ + 1, !.verified = TRUE,
                                                       !.version = p.row.version + 1]
                  [] p.op = "enrol"    -> [user EXCEPT !.secret = p.row.secret + 1]
                  [] OTHER -> user
    BY <1>4, <1>7 DEF Changed
  <2>2. p.op \in {"reset", "enrol"} => p.row.version + 1 \in Nat /\ p.row.secret + 1 \in Nat
    BY <1>5 DEF UserRecord
  <2>3. user' \in UserRecord
    <3>1. CASE p.op = "register"
      BY <1>2, <2>1, <3>1 DEF UserRecord
    <3>2. CASE p.op = "verify"
      BY <1>2, <2>1, <3>2 DEF UserRecord
    <3>3. CASE p.op = "reset"
      <4>1. PICK v, w : /\ v = p.row.version + 1 /\ w = user.pw + 1
                        /\ user' = [user EXCEPT !.pw = w, !.verified = TRUE, !.version = v]
        BY <2>1, <3>3
      <4>2. v \in Nat /\ w \in Nat
        BY <1>2, <2>2, <3>3, <4>1 DEF UserRecord
      <4> QED BY <1>2, <4>1, <4>2 DEF UserRecord
    <3>4. CASE p.op = "enrol"
      BY <1>2, <2>1, <2>2, <3>4 DEF UserRecord
    <3>5. CASE p.op \notin {"register", "verify", "reset", "enrol"}
      BY <1>2, <2>1, <3>5
    <3> QED BY <3>1, <3>2, <3>3, <3>4, <3>5
  <2>4. /\ user'.exists
        /\ user'.mfa = user.mfa /\ user'.last = user.last
        /\ p.op # "enrol" => user'.secret = user.secret
        /\ p.op # "reset" => user'.version = user.version
        /\ p.op = "reset" => user'.version = p.row.version + 1
        /\ p.op \notin {"register", "reset"} => user'.pw = user.pw
    BY <1>2, <1>3, <2>1 DEF UserRecord
  <2> QED BY <1>3, <1>7, <2>3, <2>4 DEF UserAfter
<1> QED BY <1>6, <1>7

Behind(p, its) == CASE p.op = "login" -> p.row.pw
                    [] p.op = "challenge" -> p.arg.pw
                    [] OTHER -> its[p.arg].pw

RefreshAfter(p, its, new) ==
  /\ new \in [Tokens -> TokenRecord]
  /\ \A t \in Tokens : t # p.mint =>
       /\ new[t].family = its[t].family /\ new[t].pw = its[t].pw
       /\ its[t].consumed => new[t].consumed
       /\ its[t].revoked => new[t].revoked
       /\ new[t].consumed => its[t].consumed \/ (p.op = "rotate" /\ p.mint # 0 /\ t = p.arg)
       /\ new[t].revoked => its[t].revoked \/ t \in p.kills
       /\ t \in p.kills => new[t].revoked
  /\ p.mint # 0 =>
       /\ p.mint \in Tokens /\ p.op \in {"login", "challenge", "rotate"}
       /\ its[p.mint].family = 0
       /\ new[p.mint].family = IF p.op = "rotate" THEN its[p.arg].family ELSE p.mint
       /\ new[p.mint].pw = Behind(p, its)
       /\ Behind(p, its) \in Nat
       /\ ~new[p.mint].consumed /\ ~new[p.mint].revoked
       /\ p.op = "rotate" => /\ p.arg \in Tokens /\ its[p.arg].family \in Tokens
                             /\ new[p.arg].consumed

LEMMA CommitRefresh ==
  ASSUME AccountsInv, NEW r \in Slots, Commit(r)
  PROVE  /\ RefreshAfter(txn[r], refresh, refresh')
         /\ Mints(r) => /\ Password(r) = Behind(txn[r], refresh)
                        /\ NewFamily(r) = refresh'[txn[r].mint].family
                        /\ NewFamily(r) \in Tokens
<1> DEFINE p == txn[r]
<1>1. /\ p.pc = "commit" /\ p.op \in Ops /\ Running(p)
  BY CommitUses
<1>2. /\ Shape(p) /\ TokenOK(p, refresh) /\ UserOK(p, user, mfaTokens)
      /\ refresh \in [Tokens -> TokenRecord]
  BY SlotFacts DEF AccountsInv, AccountsType
<1>3. refresh' = [t \in Tokens |->
       IF t = p.mint
         THEN [NoToken EXCEPT !.family = NewFamily(r), !.pw = Password(r)]
         ELSE [refresh[t] EXCEPT !.consumed = @ \/ t \in Consumes(r),
                                 !.revoked = @ \/ t \in p.kills]]
  BY DEF Commit
<1>4. ASSUME NEW t \in Tokens, t # p.mint
      PROVE  /\ refresh'[t] \in TokenRecord
             /\ refresh'[t].family = refresh[t].family /\ refresh'[t].pw = refresh[t].pw
             /\ refresh'[t].consumed = (refresh[t].consumed \/ t \in Consumes(r))
             /\ refresh'[t].revoked = (refresh[t].revoked \/ t \in p.kills)
  <2>1. refresh[t] \in TokenRecord
    BY <1>2
  <2>2. refresh'[t] = [refresh[t] EXCEPT !.consumed = @ \/ t \in Consumes(r),
                                         !.revoked = @ \/ t \in p.kills]
    BY <1>3, <1>4
  <2> QED BY <2>1, <2>2 DEF TokenRecord
<1>5. \A t \in Consumes(r) : p.op = "rotate" /\ p.mint # 0 /\ t = p.arg
  BY DEF Consumes, Mints
<1>6. ASSUME p.mint # 0
      PROVE  /\ p.mint \in Tokens /\ p.op \in {"login", "challenge", "rotate"}
             /\ refresh[p.mint].family = 0
             /\ NewFamily(r) \in Tokens
             /\ NewFamily(r) = IF p.op = "rotate" THEN refresh[p.arg].family ELSE p.mint
             /\ Password(r) = Behind(p, refresh)
             /\ Password(r) \in Nat
             /\ p.op = "rotate" => /\ p.arg \in Tokens /\ refresh[p.arg].family \in Tokens
                                   /\ p.arg \in Consumes(r) /\ p.arg # p.mint
  <2>1. /\ p.mint \in Tokens /\ p.op \in {"login", "challenge", "rotate"}
        /\ refresh[p.mint].family = 0
    BY <1>2, <1>6 DEF Shape, IsRequest, TokenOK
  <2>2. p.op = "rotate" => /\ p.arg \in Tokens /\ refresh[p.arg].family # 0
                           /\ refresh[p.arg] \in TokenRecord
    BY <1>1, <1>2 DEF Shape, TokenOK
  <2>3. p.op = "rotate" => refresh[p.arg].family \in Tokens /\ p.arg # p.mint
    BY <2>1, <2>2 DEF TokenRecord
  <2>4. NewFamily(r) = IF p.op = "rotate" THEN refresh[p.arg].family ELSE p.mint
    BY DEF NewFamily
  <2>5. Password(r) = Behind(p, refresh)
    BY <2>1 DEF Password, Behind
  <2>6. Behind(p, refresh) \in Nat
    <3>1. p.op = "login" => p.row.pw \in Nat
      BY <1>1, <1>2 DEF Shape, HasRow, UserRecord
    <3>2. p.op = "challenge" => p.arg.pw \in Nat
      BY <1>1, <1>2 DEF Shape, Challenged
    <3>3. p.op = "rotate" => refresh[p.arg].pw \in Nat
      BY <2>2 DEF TokenRecord
    <3> QED BY <2>1, <3>1, <3>2, <3>3 DEF Behind
  <2>7. p.op = "rotate" => p.arg \in Consumes(r)
    BY <1>6 DEF Consumes, Mints
  <2> QED BY <2>1, <2>2, <2>3, <2>4, <2>5, <2>6, <2>7
<1>7. ASSUME p.mint # 0
      PROVE  /\ refresh'[p.mint] \in TokenRecord
             /\ refresh'[p.mint].family = NewFamily(r) /\ refresh'[p.mint].pw = Password(r)
             /\ ~refresh'[p.mint].consumed /\ ~refresh'[p.mint].revoked
  <2>1. refresh'[p.mint] = [NoToken EXCEPT !.family = NewFamily(r), !.pw = Password(r)]
    BY <1>3, <1>6, <1>7
  <2> QED BY <1>6, <1>7, <2>1 DEF NoToken, TokenRecord
<1>8. refresh' \in [Tokens -> TokenRecord]
  <2>1. \A t \in Tokens : refresh'[t] \in TokenRecord
    BY <1>4, <1>7 DEF Tokens
  <2> QED BY <1>3, <2>1
<1>9. ASSUME NEW t \in Tokens, t # p.mint
      PROVE  /\ refresh'[t].family = refresh[t].family /\ refresh'[t].pw = refresh[t].pw
             /\ refresh[t].consumed => refresh'[t].consumed
             /\ refresh[t].revoked => refresh'[t].revoked
             /\ refresh'[t].consumed =>
                  refresh[t].consumed \/ (p.op = "rotate" /\ p.mint # 0 /\ t = p.arg)
             /\ refresh'[t].revoked => refresh[t].revoked \/ t \in p.kills
             /\ t \in p.kills => refresh'[t].revoked
  BY <1>4, <1>5, <1>9
<1>10. p.mint # 0 /\ p.op = "rotate" => refresh'[p.arg].consumed
  BY <1>4, <1>6
<1>11. RefreshAfter(p, refresh, refresh')
  BY <1>6, <1>7, <1>8, <1>9, <1>10 DEF RefreshAfter
<1>12. Mints(r) => /\ Password(r) = Behind(p, refresh)
                   /\ NewFamily(r) = refresh'[p.mint].family
                   /\ NewFamily(r) \in Tokens
  BY <1>6, <1>7 DEF Mints
<1> QED BY <1>11, <1>12

RevokedBy(p, its, revokes) ==
  /\ p.op = "reset" =>
       \A t \in Tokens : its[t].family # 0 => Family(its[t].family) \in revokes
  /\ \A f \in Tokens : Family(f) \in revokes =>
       /\ p.op \in {"reset", "logout", "rotate"} /\ p.mint = 0
       /\ p.op # "reset" => f = its[p.arg].family
       /\ \E t \in Tokens : its[t].family = f

LEMMA CommitRevokes ==
  ASSUME AccountsInv, NEW r \in Slots, Commit(r)
  PROVE  RevokedBy(txn[r], refresh, Revokes(r))
<1> DEFINE p == txn[r]
<1>1. /\ p.pc = "commit" /\ p.op \in Ops /\ Running(p)
  BY CommitUses
<1>2. /\ Shape(p) /\ TokenOK(p, refresh) /\ refresh \in [Tokens -> TokenRecord]
  BY SlotFacts DEF AccountsInv, AccountsType
<1>3. CASE p.op = "reset"
  <2>1. Revokes(r) = {Family(refresh[t].family) : t \in {t \in Tokens : refresh[t].family # 0}}
    BY <1>3 DEF Revokes
  <2>2. p.mint = 0
    BY <1>2, <1>3 DEF Shape
  <2>3. ASSUME NEW f \in Tokens, Family(f) \in Revokes(r)
        PROVE  \E t \in Tokens : refresh[t].family = f
    <3>1. PICK t \in Tokens : refresh[t].family # 0 /\ Family(f) = Family(refresh[t].family)
      BY <2>1, <2>3
    <3>2. refresh[t].family \in Tokens
      BY <1>2, <3>1 DEF TokenRecord
    <3> QED BY <3>1, <3>2, Names
  <2> QED BY <1>3, <2>1, <2>2, <2>3 DEF RevokedBy
<1>4. CASE p.op \in {"logout", "rotate"} /\ p.mint = 0
  <2>1. Revokes(r) = {Family(refresh[p.arg].family)}
    BY <1>4 DEF Revokes, Mints
  <2>2. p.arg \in Tokens /\ refresh[p.arg].family \in Tokens
    BY <1>1, <1>2, <1>4 DEF Shape, TokenOK, TokenRecord
  <2>3. \A f \in Tokens : Family(f) \in Revokes(r) => f = refresh[p.arg].family
    BY <2>1, <2>2, Names
  <2> QED BY <1>4, <2>2, <2>3 DEF RevokedBy
<1>5. CASE p.op # "reset" /\ ~(p.op \in {"logout", "rotate"} /\ p.mint = 0)
  <2>1. Revokes(r) = {}
    BY <1>5 DEF Revokes, Mints
  <2> QED BY <1>5, <2>1 DEF RevokedBy
<1> QED BY <1>3, <1>4, <1>5

\* What is raced after a commit: all that an overtaken request touched.
LEMMA CommitRaced ==
  ASSUME AccountsInv, NEW r \in Slots, Commit(r)
  PROVE  LET p == txn[r]
         IN /\ raced \subseteq raced'
            /\ p.overlapped =>
                 /\ \A u \in Uses(r) : Thing(u) \in raced'
                 /\ Revokes(r) \subseteq raced'
                 /\ p.mint # 0 => Family(refresh'[p.mint].family) \in raced'
                 /\ p.op = "enrol" => Totp \in raced'
                 /\ p.op = "reset" =>
                      \A token \in mfaTokens : Version(token.version) \in raced'
            /\ p.op = "challenge" /\ Version(p.arg.version) \in raced /\ p.mint # 0 =>
                 Family(refresh'[p.mint].family) \in raced'
<1>1. raced' = IF Overtaken(r) THEN raced \union Touches(r) ELSE raced
  BY DEF Commit
<1>2. Mints(r) => NewFamily(r) = refresh'[txn[r].mint].family
  BY CommitRefresh
<1>3. txn[r].mint # 0 => Family(refresh'[txn[r].mint].family) \in Touches(r)
  BY <1>2 DEF Touches, Mints
<1>4. /\ \A u \in Uses(r) : Thing(u) \in Touches(r)
      /\ Revokes(r) \subseteq Touches(r)
      /\ txn[r].op = "enrol" => Totp \in Touches(r)
      /\ txn[r].op = "reset" =>
           \A token \in mfaTokens : Version(token.version) \in Touches(r)
  BY DEF Touches
<1>5. txn[r].overlapped => Overtaken(r)
  BY DEF Overtaken
<1>6. txn[r].op = "challenge" /\ Version(txn[r].arg.version) \in raced => Overtaken(r)
  BY DEF Overtaken
<1> QED BY <1>1, <1>3, <1>4, <1>5, <1>6

LEMMA LiveIs ==
  \A f \in Tokens : \A t : t \in Live(f) <=>
    /\ t \in Tokens /\ refresh[t].family = f
    /\ ~refresh[t].revoked /\ ~refresh[t].consumed
BY DEF Live, Unrevoked, Tokens

LEMMA LiveIsNext ==
  \A f \in Tokens : \A t : t \in Live(f)' <=>
    /\ t \in Tokens /\ refresh'[t].family = f
    /\ ~refresh'[t].revoked /\ ~refresh'[t].consumed
BY DEF Live, Unrevoked, Tokens

\* A commit that nothing overtook and that revokes leaves nothing of what it is about.
LEMMA CommitKills ==
  ASSUME AccountsInv, NEW r \in Slots, Commit(r), ~txn[r].overlapped, txn[r].mint = 0,
         txn[r].op \in {"reset", "logout", "rotate"},
         NEW t \in Tokens, refresh[t].family # 0,
         txn[r].op = "reset" \/ refresh[t].family = refresh[txn[r].arg].family
  PROVE  refresh'[t].revoked
<1>1. Killing(txn[r])
  BY CommitUses DEF Killing
<1>2. ~refresh[t].revoked => t \in txn[r].kills
  BY <1>1, SlotFacts DEF TokenOK
<1>3. t # txn[r].mint
  BY DEF Tokens
<1> QED BY <1>2, <1>3, CommitRefresh DEF RefreshAfter

LEMMA CommitAccess ==
  ASSUME AccountsInv, NEW r \in Slots, Commit(r), NEW token \in access', token \notin access
  PROVE  /\ txn[r].mint # 0
         /\ token = [version |-> txn[r].row.version, pw |-> Behind(txn[r], refresh),
                     family |-> refresh'[txn[r].mint].family]
         /\ token.version = txn[r].row.version /\ token.pw = Behind(txn[r], refresh)
         /\ token.family = refresh'[txn[r].mint].family /\ token.family \in Tokens
<1>1. access' = access \union
        (IF Mints(r) THEN {[version |-> txn[r].row.version, pw |-> Password(r),
                            family |-> NewFamily(r)]} ELSE {})
  BY DEF Commit
<1>2. Mints(r) => /\ Password(r) = Behind(txn[r], refresh)
                  /\ NewFamily(r) = refresh'[txn[r].mint].family
                  /\ NewFamily(r) \in Tokens
  BY CommitRefresh
<1>3. Mints(r) /\ token = [version |-> txn[r].row.version, pw |-> Password(r),
                           family |-> NewFamily(r)]
  BY <1>1
<1> QED BY <1>2, <1>3 DEF Mints

LEMMA CommitFamilies ==
  ASSUME AccountsInv, NEW r \in Slots, Commit(r)
  PROVE  /\ FamilyInv'
         /\ \A t \in Tokens : refresh[t].family # 0 => refresh'[t].family = refresh[t].family
<1> DEFINE p == txn[r]
<1>1. RefreshAfter(p, refresh, refresh') /\ FamilyInv /\ refresh \in [Tokens -> TokenRecord]
  BY CommitRefresh DEF AccountsInv, AccountsType, RowsInv
<1>2. \A t \in Tokens : refresh[t].family # 0 => refresh'[t].family = refresh[t].family
  BY <1>1 DEF RefreshAfter, Tokens
<1>3. ASSUME NEW t \in Tokens, refresh'[t].family # 0
      PROVE  refresh'[refresh'[t].family].family = refresh'[t].family
  <2>1. CASE t # p.mint
    <3>1. refresh[t].family \in Tokens /\ refresh[refresh[t].family].family = refresh[t].family
      BY <1>1, <1>3, <2>1 DEF RefreshAfter, FamilyInv, TokenRecord
    <3>2. refresh'[t].family = refresh[t].family /\ refresh[t].family # 0
      BY <1>1, <1>3, <2>1 DEF RefreshAfter
    <3> QED BY <1>2, <3>1, <3>2
  <2>2. CASE t = p.mint
    <3>1. p.mint # 0
      BY <2>2 DEF Tokens
    <3>2. CASE p.op = "rotate"
      <4>1. /\ p.arg \in Tokens /\ refresh[p.arg].family \in Tokens
            /\ refresh'[t].family = refresh[p.arg].family
        BY <1>1, <2>2, <3>1, <3>2 DEF RefreshAfter
      <4>2. refresh[p.arg].family # 0
        BY <4>1 DEF Tokens
      <4>3. refresh[refresh[p.arg].family].family = refresh[p.arg].family
        BY <1>1, <4>1, <4>2 DEF FamilyInv
      <4> QED BY <1>2, <4>1, <4>2, <4>3
    <3>3. CASE p.op # "rotate"
      BY <1>1, <2>2, <3>1, <3>3 DEF RefreshAfter
    <3> QED BY <3>2, <3>3
  <2> QED BY <2>1, <2>2
<1>4. ASSUME NEW token \in access'
      PROVE  refresh'[token.family].family = token.family
  <2>1. CASE token \in access
    <3>1. token.family \in Tokens /\ refresh[token.family].family = token.family
      BY <1>1, <2>1 DEF FamilyInv, AccountsInv, AccountsType, Carried
    <3>2. token.family # 0
      BY <3>1 DEF Tokens
    <3> QED BY <1>2, <3>1, <3>2
  <2>2. CASE token \notin access
    <3>1. p.mint # 0 /\ token.family = refresh'[p.mint].family /\ token.family \in Tokens
      BY <2>2, CommitAccess
    <3>2. p.mint \in Tokens
      BY <1>1, <3>1 DEF RefreshAfter
    <3>3. token.family # 0
      BY <3>1 DEF Tokens
    <3> QED BY <1>3, <3>1, <3>2, <3>3
  <2> QED BY <2>1, <2>2
<1>5. ASSUME NEW f \in Tokens, Family(f) \in killed'
      PROVE  refresh'[f].family = f
  <2>1. f # 0
    BY DEF Tokens
  <2>2. refresh[f].family = f
    <3>1. CASE Family(f) \in killed
      BY <1>1, <3>1 DEF FamilyInv
    <3>2. CASE Family(f) \in Revokes(r)
      <4>1. \E t \in Tokens : refresh[t].family = f
        BY <3>2, CommitRevokes DEF RevokedBy
      <4> QED BY <1>1, <2>1, <4>1 DEF FamilyInv
    <3> QED BY <1>5, <3>1, <3>2 DEF Commit
  <2> QED BY <1>2, <2>1, <2>2
<1>6. FamilyInv'
  BY <1>3, <1>4, <1>5 DEF FamilyInv
<1> QED BY <1>2, <1>6

LEMMA CommitLive ==
  ASSUME AccountsInv, NEW r \in Slots, Commit(r), NEW f \in Tokens, Family(f) \notin raced'
  PROVE  /\ \A t, u \in Live(f)' : t = u
         /\ Family(f) \in killed' => Live(f)' = {}
<1> DEFINE p == txn[r]
<1>1. RefreshAfter(p, refresh, refresh') /\ RevokedBy(p, refresh, Revokes(r))
  BY CommitRefresh, CommitRevokes
<1>2. /\ Family(f) \notin raced /\ f # 0
      /\ p.overlapped => /\ Family(f) \notin Revokes(r)
                         /\ p.mint # 0 => refresh'[p.mint].family # f
  BY CommitRaced DEF Tokens
<1>3. /\ \A t, u \in Live(f) : t = u
      /\ Family(f) \in killed => Live(f) = {}
  BY <1>2 DEF AccountsInv, RowsInv, LiveInv
<1>4. killed' = killed \union Revokes(r)
  BY DEF Commit
<1>5. \A t \in Live(f)' : t = p.mint \/ t \in Live(f)
  BY <1>1, LiveIs, LiveIsNext DEF RefreshAfter
<1>6. CASE p.mint # 0 /\ refresh'[p.mint].family = f
  <2>1. Family(f) \notin Revokes(r) /\ ~p.overlapped
    BY <1>1, <1>2, <1>6 DEF RevokedBy
  <2>2. CASE p.op = "rotate"
    <3>1. /\ p.arg \in Tokens /\ refresh[p.arg].family = f
          /\ refresh'[p.arg].consumed
      BY <1>1, <1>6, <2>2 DEF RefreshAfter
    <3>2. p.arg \in Live(f)
      <4>1. ~refresh[p.arg].consumed /\ ~refresh[p.arg].revoked
        BY <1>6, <2>1, <2>2, SlotFacts DEF TokenOK, Rotating
      <4> QED BY <3>1, <4>1, LiveIs
    <3>3. \A t \in Live(f)' : t = p.mint
      BY <1>3, <1>5, <3>1, <3>2, LiveIsNext
    <3> QED BY <1>3, <1>4, <2>1, <3>2, <3>3
  <2>3. CASE p.op # "rotate"
    <3>1. f = p.mint /\ refresh[f].family = 0
      BY <1>1, <1>6, <2>3 DEF RefreshAfter
    <3>2. \A t \in Tokens : refresh[t].family # f
      BY <1>2, <3>1 DEF AccountsInv, RowsInv, FamilyInv
    <3>3. Live(f) = {}
      BY <3>2, LiveIs
    <3>4. Family(f) \notin killed
      BY <1>2, <3>1 DEF AccountsInv, RowsInv, FamilyInv
    <3> QED BY <1>4, <1>5, <2>1, <3>3, <3>4
  <2> QED BY <2>2, <2>3
<1>7. CASE ~(p.mint # 0 /\ refresh'[p.mint].family = f)
  <2>1. \A t \in Live(f)' : t \in Live(f)
    <3>1. ASSUME NEW t \in Live(f)', t = p.mint PROVE FALSE
      BY <1>7, <3>1, LiveIsNext DEF Tokens
    <3> QED BY <1>5, <3>1
  <2>2. ASSUME Family(f) \in Revokes(r) PROVE Live(f)' = {}
    <3>1. /\ p.op \in {"reset", "logout", "rotate"} /\ p.mint = 0 /\ ~p.overlapped
          /\ p.op # "reset" => f = refresh[p.arg].family
      BY <1>1, <1>2, <2>2 DEF RevokedBy
    <3>2. \A t \in Live(f) : refresh'[t].revoked
      BY <1>2, <3>1, CommitKills, LiveIs
    <3> QED BY <2>1, <3>2, LiveIsNext
  <2> QED BY <1>3, <1>4, <2>1, <2>2
<1> QED BY <1>6, <1>7

\* Unless it was overtaken, a request that mints does so for the password in force.
LEMMA CommitMints ==
  ASSUME AccountsInv, NEW r \in Slots, Commit(r), txn[r].mint # 0,
         Family(refresh'[txn[r].mint].family) \notin raced'
  PROVE  /\ Behind(txn[r], refresh) = user'.pw
         /\ txn[r].row.version = user'.version
<1> DEFINE p == txn[r]
<1>1. /\ p.op \in {"login", "challenge", "rotate"} /\ p.mint \in Tokens
      /\ UserAfter(p, user, user') /\ RefreshAfter(p, refresh, refresh')
      /\ p.pc = "commit" /\ Running(p)
  BY CommitRefresh, CommitUser, CommitUses DEF RefreshAfter
<1>2. user'.version = user.version /\ user'.pw = user.pw
  BY <1>1 DEF UserAfter
<1>3. ~p.overlapped /\ (p.op = "challenge" => Version(p.arg.version) \notin raced)
  BY CommitRaced
<1>4. p.row.version = user.version /\ p.row.pw = user.pw
  BY <1>1, <1>3, SlotFacts DEF UserOK, HasRow
<1>5. CASE p.op = "login"
  BY <1>2, <1>4, <1>5 DEF Behind
<1>6. CASE p.op = "challenge"
  <2>1. p.arg \in mfaTokens /\ p.arg.version = user.version
    BY <1>1, <1>4, <1>6, SlotFacts DEF UserOK, Shape
  <2>2. p.arg.pw = user.pw
    BY <1>3, <1>6, <2>1 DEF AccountsInv, RowsInv, PasswordInv
  <2> QED BY <1>2, <1>4, <1>6, <2>2 DEF Behind
<1>7. CASE p.op = "rotate"
  <2>1. /\ p.arg \in Tokens /\ refresh[p.arg].family \in Tokens
        /\ refresh'[p.mint].family = refresh[p.arg].family
    BY <1>1, <1>7 DEF RefreshAfter
  <2>2. ~refresh[p.arg].consumed /\ ~refresh[p.arg].revoked
    BY <1>3, <1>7, SlotFacts DEF TokenOK, Rotating
  <2>3. p.arg \in Live(refresh[p.arg].family)
    BY <2>1, <2>2, LiveIs
  <2>4. Family(refresh[p.arg].family) \notin raced
    BY <2>1, CommitRaced
  <2>5. refresh[p.arg].pw = user.pw
    BY <2>1, <2>3, <2>4 DEF AccountsInv, RowsInv, PasswordInv
  <2> QED BY <1>2, <1>4, <1>7, <2>5 DEF Behind
<1> QED BY <1>1, <1>5, <1>6, <1>7

LEMMA CommitPasswords ==
  ASSUME AccountsInv, NEW r \in Slots, Commit(r)
  PROVE  PasswordInv'
<1> DEFINE p == txn[r]
<1>1. /\ RefreshAfter(p, refresh, refresh') /\ UserAfter(p, user, user')
      /\ RevokedBy(p, refresh, Revokes(r)) /\ PasswordInv /\ FamilyInv /\ Unborn
      /\ raced \subseteq raced' /\ user \in UserRecord
      /\ access \subseteq Carried /\ mfaTokens \subseteq Challenged
  BY CommitRefresh, CommitUser, CommitRevokes, CommitRaced, SlotFacts
  DEF AccountsInv, RowsInv, AccountsType
<1>2. /\ p.op = "register" => access = {} /\ mfaTokens = {}
      /\ p.op = "register" => \A t \in Tokens : refresh[t].family = 0
  BY <1>1 DEF UserAfter, Unborn
<1>3. p.op = "reset" /\ ~p.overlapped => user'.version = user.version + 1
  <2>1. p.op = "reset" => HasRow(p)
    BY CommitUses DEF HasRow
  <2> QED BY <1>1, <2>1, SlotFacts DEF UserAfter, UserOK
<1>4. p.mint # 0 => p.op \in {"login", "challenge", "rotate"}
  BY <1>1 DEF RefreshAfter
<1>5. ASSUME NEW f \in Tokens, NEW t \in Live(f)', Family(f) \notin raced'
      PROVE  refresh'[t].pw = user'.pw
  <2>1. /\ t \in Tokens /\ refresh'[t].family = f
        /\ ~refresh'[t].revoked /\ ~refresh'[t].consumed /\ f # 0
    BY LiveIsNext DEF Tokens
  <2>2. CASE t = p.mint
    <3>1. p.mint # 0
      BY <2>1, <2>2 DEF Tokens
    <3> QED BY <1>1, <1>5, <2>1, <2>2, <3>1, CommitMints DEF RefreshAfter
  <2>3. CASE t # p.mint
    <3>1. t \in Live(f) /\ refresh[t].family = f /\ refresh'[t].pw = refresh[t].pw
      BY <1>1, <2>1, <2>3, LiveIs DEF RefreshAfter
    <3>2. refresh[t].pw = user.pw
      BY <1>1, <1>5, <3>1 DEF PasswordInv
    <3>3. p.op # "register"
      BY <1>2, <2>1, <3>1
    <3>4. p.op # "reset"
      <4>1. SUFFICES ASSUME p.op = "reset" PROVE FALSE
        OBVIOUS
      <4>2. Family(f) \in Revokes(r)
        BY <1>1, <2>1, <3>1, <4>1 DEF RevokedBy
      <4>3. ~p.overlapped /\ p.mint = 0
        BY <1>4, <1>5, <4>1, <4>2, CommitRaced
      <4>4. refresh'[t].revoked
        BY <2>1, <3>1, <4>1, <4>3, CommitKills
      <4> QED BY <2>1, <4>4
    <3> QED BY <1>1, <3>1, <3>2, <3>3, <3>4 DEF UserAfter
  <2> QED BY <2>2, <2>3
<1>6. ASSUME NEW token \in access', Family(token.family) \notin raced'
      PROVE  /\ token.version <= user'.version
             /\ token.version = user'.version => token.pw = user'.pw
  <2>1. CASE token \in access
    <3>1. /\ token.version <= user.version
          /\ token.version = user.version => token.pw = user.pw
          /\ token.version \in Nat /\ user.version \in Nat
      BY <1>1, <1>6, <2>1 DEF PasswordInv, Carried, UserRecord
    <3>2. CASE p.op = "reset"
      <4>1. /\ token.family \in Tokens /\ refresh[token.family].family = token.family
            /\ token.family # 0
        BY <1>1, <2>1 DEF FamilyInv, Carried, Tokens
      <4>2. Family(token.family) \in Revokes(r)
        BY <1>1, <3>2, <4>1 DEF RevokedBy
      <4>3. ~p.overlapped
        BY <1>6, <4>2, CommitRaced
      <4> QED BY <1>3, <3>1, <3>2, <4>3
    <3>3. CASE p.op # "reset"
      BY <1>1, <1>2, <2>1, <3>1, <3>3 DEF UserAfter
    <3> QED BY <3>2, <3>3
  <2>2. CASE token \notin access
    <3>1. /\ p.mint # 0 /\ token.family = refresh'[p.mint].family
          /\ token.version = p.row.version /\ token.pw = Behind(p, refresh)
      BY <1>6, <2>2, CommitAccess
    <3>2. token.pw = user'.pw /\ token.version = user'.version
      BY <1>6, <3>1, CommitMints
    <3>3. user'.version \in Nat
      BY <1>1 DEF UserAfter, UserRecord
    <3> QED BY <3>2, <3>3
  <2> QED BY <2>1, <2>2
<1>7. ASSUME NEW token \in mfaTokens, Version(token.version) \notin raced'
      PROVE  /\ token.version <= user'.version
             /\ token.version = user'.version => token.pw = user'.pw
  <2>1. /\ token.version <= user.version
        /\ token.version = user.version => token.pw = user.pw
        /\ token.version \in Nat /\ user.version \in Nat
    BY <1>1, <1>7 DEF PasswordInv, Challenged, UserRecord
  <2>2. CASE p.op = "reset"
    <3>1. ~p.overlapped
      BY <1>7, <2>2, CommitRaced
    <3> QED BY <1>3, <2>1, <2>2, <3>1
  <2>3. CASE p.op # "reset"
    BY <1>1, <1>2, <2>1, <2>3 DEF UserAfter
  <2> QED BY <2>2, <2>3
<1>8. mfaTokens' = mfaTokens
  BY DEF Commit
<1> QED BY <1>5, <1>6, <1>7, <1>8 DEF PasswordInv

\* Totp codes that were spent are of the secret in force and not after its last step,
\* and nothing was spent before enrolment was confirmed.
LEMMA CommitTotp ==
  ASSUME AccountsInv, NEW r \in Slots, Commit(r), Totp \notin raced'
  PROVE  /\ \A s \in Nat, c \in 1 .. MaxStep : TotpCode(s, c) \in spent' =>
              user'.mfa /\ s = user'.secret /\ c <= user'.last
         /\ \A s \in Nat, c \in 1 .. MaxStep : TotpCode(s, c) \in Uses(r) =>
              TotpCode(s, c) \notin spent
         /\ EnforcedSecretIsProven'
<1> DEFINE p == txn[r]
<1>1. /\ p.pc = "commit" /\ p.op \in Ops /\ Running(p) /\ UsedUp(p, Uses(r))
      /\ UserAfter(p, user, user') /\ CodeOK(p, user, spent, raced) /\ user \in UserRecord
  BY CommitUses, CommitUser, SlotFacts
<1>2. spent' = spent \union Uses(r)
  BY DEF Commit
<1>3. Totp \notin raced
  BY CommitRaced
<1>4. \A s \in Nat, c \in 1 .. MaxStep :
        TotpCode(s, c) \in spent => user.mfa /\ s = user.secret /\ c <= user.last
  BY <1>3 DEF AccountsInv, RowsInv, SpentInv
<1>5. user.mfa => \E c \in 1 .. MaxStep : TotpCode(user.secret, c) \in spent
  BY <1>3 DEF AccountsInv, RowsInv, EnforcedSecretIsProven, TotpCode
<1>6. EnforcedSecretIsProven' <=>
        (user'.mfa => \E c \in 1 .. MaxStep : TotpCode(user'.secret, c) \in spent')
  <2>1. Totp' = Totp /\ Totp \notin raced'
    BY DEF Totp
  <2> QED BY <2>1 DEF EnforcedSecretIsProven, TotpCode
<1>7. MaxStep \in Nat
  BY AccountsAssumption
<1>8. CASE p.op = "enrol"
  <2>1. Uses(r) = {} /\ ~p.overlapped
    BY <1>1, <1>8, CommitRaced DEF UsedUp
  <2>2. ~user.mfa /\ ~user'.mfa
    BY <1>1, <1>8, <2>1 DEF CodeOK, UserAfter
  <2>3. \A s \in Nat, c \in 1 .. MaxStep : TotpCode(s, c) \notin spent'
    BY <1>2, <1>4, <2>1, <2>2
  <2> QED BY <1>6, <2>1, <2>2, <2>3
<1>9. CASE \E c \in 1 .. MaxStep : /\ p.code = TotpCode(p.row.secret, c)
                                   /\ Uses(r) = {p.code}
                                   /\ \/ p.op = "confirm"
                                      \/ p.op = "challenge" /\ c > p.row.last
  <2>1. PICK c \in 1 .. MaxStep : /\ p.code = TotpCode(p.row.secret, c)
                                  /\ Uses(r) = {p.code}
                                  /\ \/ p.op = "confirm"
                                     \/ p.op = "challenge" /\ c > p.row.last
    BY <1>9
  <2>2. p.row \in UserRecord
    BY <1>1, <2>1, SlotFacts DEF Shape, HasRow
  <2>3. p.row.secret \in Nat /\ p.row.last \in Nat /\ user.last \in Nat /\ c \in Nat
    BY <1>1, <1>7, <2>2 DEF UserRecord
  <2>4. Thing(p.code) = Totp
    BY <2>1, <2>3, Names
  <2>5. ~p.overlapped
    BY <2>1, <2>4, CommitRaced
  <2>6. /\ user'.mfa /\ user'.last = c /\ user'.secret = p.row.secret
        /\ \A s \in Nat, d \in 1 .. MaxStep : TotpCode(s, d) \in spent =>
             s = p.row.secret /\ d < c
    <3>1. CASE p.op = "confirm"
      <4>1. ~user.mfa /\ p.row.secret = user.secret
        BY <1>1, <2>5, <3>1 DEF CodeOK
      <4> QED BY <1>1, <1>4, <2>1, <3>1, <4>1 DEF UserAfter
    <3>2. CASE p.op = "challenge"
      <4>1. user.mfa /\ p.row.secret = user.secret /\ p.row.last = user.last
        BY <1>1, <1>3, <2>5, <3>2 DEF CodeOK
      <4>2. user'.mfa /\ user'.last = c /\ user'.secret = p.row.secret
        BY <1>1, <2>1, <3>2, <4>1 DEF UserAfter
      <4>3. ASSUME NEW s \in Nat, NEW d \in 1 .. MaxStep, TotpCode(s, d) \in spent
            PROVE  s = p.row.secret /\ d < c
        <5>1. s = user.secret /\ d <= user.last
          BY <1>4, <4>3
        <5>2. d \in Nat
          BY <1>7
        <5> QED BY <2>1, <2>3, <3>2, <4>1, <5>1, <5>2
      <4> QED BY <4>2, <4>3
    <3> QED BY <2>1, <3>1, <3>2
  <2>7. ASSUME NEW s \in Nat, NEW d \in 1 .. MaxStep
        PROVE  /\ TotpCode(s, d) \in spent' => s = user'.secret /\ d <= user'.last
               /\ TotpCode(s, d) \in Uses(r) => TotpCode(s, d) \notin spent
    <3>1. d \in Nat
      BY <1>7
    <3>2. TotpCode(s, d) = TotpCode(p.row.secret, c) => s = p.row.secret /\ d = c
      BY DEF TotpCode
    <3> QED BY <1>2, <2>1, <2>3, <2>6, <3>1, <3>2
  <2>8. EnforcedSecretIsProven'
    BY <1>2, <1>6, <2>1, <2>6
  <2> QED BY <2>6, <2>7, <2>8
<1>10. CASE /\ p.op \notin {"enrol", "confirm"}
            /\ \A s \in Nat, c \in 1 .. MaxStep : TotpCode(s, c) \notin Uses(r)
            /\ p.op = "challenge" => p.code \in Codes
  <2>1. user'.mfa = user.mfa /\ user'.secret = user.secret /\ user'.last = user.last
    BY <1>1, <1>10 DEF UserAfter
  <2>2. EnforcedSecretIsProven'
    BY <1>2, <1>5, <1>6, <2>1
  <2> QED BY <1>2, <1>4, <1>10, <2>1, <2>2
<1>11. p.op \notin {"enrol", "confirm"} /\ (p.op = "challenge" => p.code \in Codes) =>
         \A s \in Nat, c \in 1 .. MaxStep : TotpCode(s, c) \notin Uses(r)
  BY <1>1, Names DEF UsedUp
<1>12. p.op \in {"confirm", "challenge"} =>
         \/ p.op = "challenge" /\ p.code \in Codes
         \/ \E c \in 1 .. MaxStep : /\ p.code = TotpCode(p.row.secret, c)
                                    /\ Uses(r) = {p.code}
                                    /\ \/ p.op = "confirm"
                                       \/ p.op = "challenge" /\ c > p.row.last
  BY <1>1 DEF UsedUp
<1> QED BY <1>8, <1>9, <1>10, <1>11, <1>12

LEMMA CommitSingleUse ==
  ASSUME AccountsInv, NEW r \in Slots, Commit(r)
  PROVE  SingleUse'
<1> DEFINE p == txn[r]
<1>1. /\ p.pc = "commit" /\ Running(p) /\ UsedUp(p, Uses(r))
      /\ CodeOK(p, user, spent, raced) /\ LinkOK(p, links, spent)
  BY CommitUses, SlotFacts
<1>2. respent' = respent \union {Thing(u) : u \in Uses(r) \intersect spent}
  BY DEF Commit
<1>3. respent \subseteq raced /\ raced \subseteq raced'
  BY CommitRaced DEF AccountsInv, RowsInv, SingleUse
<1>4. ASSUME NEW u \in Uses(r), u \in spent PROVE Thing(u) \in raced'
  <2>1. CASE p.overlapped
    BY <2>1, CommitRaced
  <2>2. CASE ~p.overlapped /\ p.op \in {"verify", "reset"}
    <3>1. u = Link(p.arg) /\ Link(p.arg) \notin spent
      BY <1>1, <2>2 DEF UsedUp, LinkOK
    <3> QED BY <1>4, <3>1
  <2>3. CASE ~p.overlapped /\ p.op = "challenge" /\ p.code \in Codes
    <3>1. u = p.code
      BY <1>1, <2>3 DEF UsedUp
    <3>2. HasCode(p)
      BY <1>1, <2>3 DEF HasCode
    <3>3. \A c \in 1 .. MaxStep : p.code # TotpCode(p.row.secret, c)
      <4>1. p.row \in UserRecord
        BY <1>1, <2>3, SlotFacts DEF Shape, HasRow
      <4> QED BY <2>3, <4>1, Names DEF UserRecord
    <3>4. p.code \notin spent
      BY <1>1, <2>3, <3>2, <3>3 DEF CodeOK
    <3> QED BY <1>4, <3>1, <3>4
  <2>4. CASE /\ p.op \in {"confirm", "challenge"}
             /\ \E c \in 1 .. MaxStep : p.code = TotpCode(p.row.secret, c)
    <3>1. PICK c \in 1 .. MaxStep : p.code = TotpCode(p.row.secret, c)
      BY <2>4
    <3>2. p.row.secret \in Nat
      BY <1>1, <2>4, SlotFacts DEF Shape, HasRow, UserRecord
    <3>3. u = TotpCode(p.row.secret, c) /\ Thing(u) = Totp
      BY <1>1, <2>4, <3>1, <3>2, Names DEF UsedUp
    <3> QED BY <1>4, <3>2, <3>3, CommitTotp
  <2> QED BY <1>1, <2>1, <2>2, <2>3, <2>4 DEF UsedUp
<1> QED BY <1>2, <1>3, <1>4 DEF SingleUse

LEMMA CommitLinks ==
  ASSUME AccountsInv, NEW r \in Slots, Commit(r)
  PROVE  \E l \in Links \union {None} :
           /\ l # None => l \in Links /\ links[l].state = "unsent"
                          /\ links'[l].state = "unmailed"
           /\ \A k \in Links \ {l} :
                /\ links'[k].kind = links[k].kind
                /\ Link(k) \in Uses(r) => links'[k].state = "consumed"
                /\ Link(k) \notin Uses(r) => links'[k] = links[k]
           /\ l # None => Link(l) \notin Uses(r)
           /\ links' \in [Links -> LinkRecord]
           /\ txn'[r] = IF l = None THEN Idle ELSE [Idle EXCEPT !.pc = "mail", !.arg = l]
           /\ DOMAIN txn' = Slots
<1> DEFINE p == txn[r]
<1>1. PICK l \in Links \union {None} :
        /\ IF Sends(r) = "none" THEN l = None
           ELSE l # None /\ links[l].state = "unsent"
        /\ links' = [k \in Links |->
             IF k = l THEN [kind |-> Sends(r), state |-> "unmailed"]
             ELSE IF Link(k) \in Uses(r) THEN [links[k] EXCEPT !.state = "consumed"]
             ELSE links[k]]
        /\ txn' = [q \in Slots |->
             IF q = r
               THEN IF l = None THEN Idle
                    ELSE [Idle EXCEPT !.pc = "mail", !.arg = l]
               ELSE [txn[q] EXCEPT
                      !.overlapped = @ \/ {txn[q].op, txn[r].op} \in Interfering]]
  BY DEF Commit
<1>2. Sends(r) \in {"none", "verify", "reset"} /\ links \in [Links -> LinkRecord]
  BY DEF Sends, AccountsInv, AccountsType
<1>3. l # None => l \in Links /\ links[l].state = "unsent" /\ links'[l].state = "unmailed"
  BY <1>1
<1>4. ASSUME NEW k \in Links \ {l}
      PROVE  /\ links'[k].kind = links[k].kind
             /\ Link(k) \in Uses(r) => links'[k].state = "consumed"
             /\ Link(k) \notin Uses(r) => links'[k] = links[k]
             /\ links'[k] \in LinkRecord
  <2>1. links[k] \in LinkRecord
    BY <1>2
  <2>2. links'[k] = IF Link(k) \in Uses(r) THEN [links[k] EXCEPT !.state = "consumed"]
                    ELSE links[k]
    BY <1>1
  <2> QED BY <2>1, <2>2 DEF LinkRecord
<1>5. l # None => links'[l] \in LinkRecord
  BY <1>1, <1>2 DEF LinkRecord
<1>6. links' \in [Links -> LinkRecord]
  <2>1. \A k \in Links : links'[k] \in LinkRecord
    BY <1>4, <1>5, Names
  <2> QED BY <1>1, <2>1
<1>7. l # None => Link(l) \notin Uses(r)
  <2>1. l # None => p.op \in {"register", "resend", "forgot"}
    BY <1>1 DEF Sends
  <2>2. p.op \in {"register", "resend", "forgot"} => Uses(r) = {}
    BY CommitUses DEF UsedUp
  <2> QED BY <2>1, <2>2
<1>8. /\ txn'[r] = IF l = None THEN Idle ELSE [Idle EXCEPT !.pc = "mail", !.arg = l]
      /\ DOMAIN txn' = Slots
  BY <1>1
<1> QED BY <1>1, <1>3, <1>4, <1>6, <1>7, <1>8

\* A link that was sent keeps its kind, and its state unless the request uses it up.
LEMMA CommitKeepsLinks ==
  ASSUME AccountsInv, NEW r \in Slots, Commit(r), NEW k \in Links
  PROVE  /\ Link(k) \in Uses(r) => links'[k].state = "consumed"
         /\ links[k].state # "unsent" => links'[k].kind = links[k].kind
         /\ links[k].state # "unsent" /\ Link(k) \notin Uses(r) => links'[k] = links[k]
<1>1. PICK l \in Links \union {None} :
        /\ l # None => links[l].state = "unsent" /\ Link(l) \notin Uses(r)
        /\ \A j \in Links \ {l} :
             /\ links'[j].kind = links[j].kind
             /\ Link(j) \in Uses(r) => links'[j].state = "consumed"
             /\ Link(j) \notin Uses(r) => links'[j] = links[j]
  BY CommitLinks
<1>2. CASE k = l
  BY <1>1, <1>2, Names
<1>3. CASE k # l
  BY <1>1, <1>3
<1> QED BY <1>2, <1>3

\* Slots other than r are marked if they interfere.
LEMMA CommitSlots ==
  ASSUME AccountsInv, NEW r \in Slots, Commit(r), NEW s \in Slots \ {r}
  PROVE  txn'[s] = [txn[s] EXCEPT !.overlapped = @ \/ Meets(txn[s].op, txn[r].op)]
<1>1. PICK l \in Links \union {None} :
        txn' = [q \in Slots |->
             IF q = r
               THEN IF l = None THEN Idle
                    ELSE [Idle EXCEPT !.pc = "mail", !.arg = l]
               ELSE [txn[q] EXCEPT
                      !.overlapped = @ \/ {txn[q].op, txn[r].op} \in Interfering]]
  BY DEF Commit
<1> QED BY <1>1 DEF Meets

LEMMA CommitSpent ==
  ASSUME AccountsInv, NEW r \in Slots, Commit(r)
  PROVE  SpentInv'
<1> DEFINE p == txn[r]
           Acceptable == {Link(l) : l \in Links} \union Codes
                         \union {TotpCode(s, c) : s \in Nat, c \in 1 .. MaxStep}
<1>1. /\ p.pc = "commit" /\ p.op \in Ops /\ Running(p) /\ UsedUp(p, Uses(r)) /\ SpentInv
      /\ LinkOK(p, links, spent)
  BY CommitUses, SlotFacts DEF AccountsInv, RowsInv
<1>2. /\ spent' = spent \union Uses(r)
      /\ recovery' = [c \in Codes |->
           IF c = NewCode(r) THEN "fresh"
           ELSE IF c = p.code THEN "used" ELSE recovery[c]]
      /\ p.op = "confirm" => Ungiven # {}
  BY DEF Commit
<1>3. p.op \in {"confirm", "challenge"} => p.row.secret \in Nat
  BY <1>1, SlotFacts DEF Shape, HasRow, UserRecord
<1>4. spent' \subseteq Acceptable
  <2>1. Uses(r) \subseteq Acceptable
    BY <1>1, <1>3 DEF UsedUp
  <2> QED BY <1>1, <1>2, <2>1 DEF SpentInv
<1>5. ASSUME NEW l \in Links, Link(l) \in spent'
      PROVE  links'[l].state = "consumed"
  <2>1. CASE Link(l) \in Uses(r)
    BY <2>1, CommitKeepsLinks
  <2>2. CASE Link(l) \notin Uses(r)
    <3>1. links[l].state = "consumed"
      BY <1>1, <1>2, <1>5, <2>2 DEF SpentInv
    <3> QED BY <2>2, <3>1, CommitKeepsLinks
  <2> QED BY <2>1, <2>2
<1>6. ASSUME NEW c \in Codes, c \in spent'
      PROVE  recovery'[c] = "used"
  <2>1. CASE p.op = "confirm"
    <3>1. NewCode(r) \in Ungiven
      BY <1>2, <2>1 DEF NewCode
    <3>2. c \notin Uses(r)
      BY <1>1, <1>3, <2>1, Names DEF UsedUp
    <3>3. recovery[c] = "used"
      BY <1>1, <1>2, <1>6, <3>2 DEF SpentInv
    <3>4. c # NewCode(r)
      BY <3>1, <3>3 DEF Ungiven
    <3> QED BY <1>2, <3>3, <3>4
  <2>2. CASE p.op # "confirm"
    <3>1. c # NewCode(r)
      BY <2>2, Names DEF NewCode
    <3>2. c \in Uses(r) => c = p.code
      BY <1>1, <2>2, Names DEF UsedUp
    <3> QED BY <1>1, <1>2, <1>6, <3>1, <3>2 DEF SpentInv
  <2> QED BY <2>1, <2>2
<1>7. \/ (Totp \in raced)'
      \/ \A s \in Nat, c \in 1 .. MaxStep :
           TotpCode(s, c) \in spent' => user'.mfa /\ s = user'.secret /\ c <= user'.last
  BY CommitTotp DEF Totp
<1> QED BY <1>4, <1>5, <1>6, <1>7 DEF SpentInv

LEMMA CommitRows ==
  ASSUME AccountsInv, NEW r \in Slots, Commit(r)
  PROVE  RowsInv'
<1>1. Unborn'
  BY CommitUser DEF UserAfter, Unborn
<1>2. LiveInv'
  BY CommitLive DEF LiveInv
<1>3. EnforcedSecretIsProven'
  <2>1. CASE Totp \in raced'
    BY <2>1 DEF EnforcedSecretIsProven, Totp
  <2>2. CASE Totp \notin raced'
    BY <2>2, CommitTotp
  <2> QED BY <2>1, <2>2
<1> QED BY <1>1, <1>2, <1>3, CommitSpent, CommitFamilies, CommitPasswords, CommitSingleUse
        DEF RowsInv

LEMMA CommitType ==
  ASSUME AccountsInv, NEW r \in Slots, Commit(r)
  PROVE  AccountsType'
<1> DEFINE p == txn[r]
<1>1. user' \in UserRecord /\ refresh' \in [Tokens -> TokenRecord]
  BY CommitUser, CommitRefresh DEF UserAfter, RefreshAfter
<1>2. links' \in [Links -> LinkRecord] /\ DOMAIN txn' = Slots
  BY CommitLinks
<1>3. recovery' \in [Codes -> {"none", "fresh", "used"}]
  <2>1. recovery' = [c \in Codes |->
           IF c = NewCode(r) THEN "fresh"
           ELSE IF c = p.code THEN "used" ELSE recovery[c]]
    BY DEF Commit
  <2> QED BY <2>1 DEF AccountsInv, AccountsType
<1>4. mfaTokens' \subseteq Challenged
  BY DEF Commit, AccountsInv, AccountsType
<1>5. access' \subseteq Carried
  <2>1. access \subseteq Carried
    BY DEF AccountsInv, AccountsType
  <2>2. ASSUME NEW token \in access', token \notin access PROVE token \in Carried
    <3>1. /\ p.mint # 0 /\ token.family \in Tokens
          /\ token = [version |-> p.row.version, pw |-> Behind(p, refresh),
                      family |-> refresh'[p.mint].family]
          /\ token.family = refresh'[p.mint].family
      BY <2>2, CommitAccess
    <3>2. Behind(p, refresh) \in Nat
      BY <3>1, CommitRefresh DEF RefreshAfter
    <3>3. p.row \in UserRecord
      BY <3>1, SlotFacts, CommitUses DEF Shape, HasRow
    <3>4. p.row.version \in Nat
      BY <3>3 DEF UserRecord
    <3> QED BY <3>1, <3>2, <3>4 DEF Carried
  <2> QED BY <2>1, <2>2
<1> QED BY <1>1, <1>2, <1>3, <1>4, <1>5 DEF AccountsType

-----------------------------------------------------------------------------
(* A commit: what it makes of the other requests.                          *)

\* Another slot: q is what it was, o what it is.
LEMMA CommitOther ==
  ASSUME AccountsInv, NEW r \in Slots, Commit(r), NEW s \in Slots \ {r},
         NEW q, q = txn[s], NEW o, o = txn'[s]
  PROVE  /\ o.pc = q.pc /\ o.op = q.op /\ o.arg = q.arg /\ o.row = q.row /\ o.code = q.code
         /\ o.kills = q.kills /\ o.mint = q.mint /\ o.holds = q.holds
         /\ q.overlapped \/ Meets(q.op, txn[r].op) => o.overlapped
         /\ Shape(o)
<1>1. Shape(q) /\ IsRequest(q)
  BY SlotFacts
<1>2. o = [q EXCEPT !.overlapped = @ \/ Meets(q.op, txn[r].op)]
  BY CommitSlots
<1>3. PICK late \in BOOLEAN : late = (q.overlapped \/ Meets(q.op, txn[r].op))
  OBVIOUS
<1>4. o = [q EXCEPT !.overlapped = late]
  BY <1>2, <1>3
<1>5. /\ o.pc = q.pc /\ o.op = q.op /\ o.arg = q.arg /\ o.row = q.row /\ o.code = q.code
      /\ o.kills = q.kills /\ o.mint = q.mint /\ o.holds = q.holds
      /\ o.overlapped = late /\ IsRequest(o)
  BY <1>1, <1>4 DEF IsRequest
<1>6. Shape(o)
  BY <1>1, <1>5 DEF Shape, Running, HasRow, HasCode, Killing
<1> QED BY <1>3, <1>5, <1>6

LEMMA CommitOtherLink ==
  ASSUME AccountsInv, NEW r \in Slots, Commit(r), NEW s \in Slots \ {r}
  PROVE  LinkOK(txn'[s], links', spent')
<1> DEFINE p == txn[r]
<1>1. PICK q, o : q = txn[s] /\ o = txn'[s]
  OBVIOUS
<1>2. /\ o.pc = q.pc /\ o.op = q.op /\ o.arg = q.arg
      /\ q.overlapped \/ Meets(q.op, p.op) => o.overlapped
  BY <1>1, CommitOther
<1>3. /\ LinkOK(q, links, spent) /\ Shape(q) /\ LinkOK(p, links, spent) /\ Running(p)
      /\ UsedUp(p, Uses(r)) /\ spent' = spent \union Uses(r)
  BY <1>1, CommitUses, SlotFacts DEF Commit
<1>4. ASSUME Running(q), q.op \in {"verify", "reset"}
      PROVE  /\ links'[q.arg].kind = q.op
             /\ links'[q.arg].state \in {"mailed", "consumed"}
             /\ o.overlapped \/ Link(q.arg) \notin spent'
  <2>1. /\ q.arg \in Links /\ links[q.arg].kind = q.op
        /\ links[q.arg].state \in {"mailed", "consumed"}
        /\ q.overlapped \/ Link(q.arg) \notin spent
    BY <1>3, <1>4 DEF LinkOK, Shape
  <2>2. /\ links'[q.arg].kind = q.op
        /\ links'[q.arg].state \in {"mailed", "consumed"}
    BY <2>1, CommitKeepsLinks
  <2>3. Link(q.arg) \in Uses(r) => Meets(q.op, p.op)
    <3>1. SUFFICES ASSUME Link(q.arg) \in Uses(r) PROVE Meets(q.op, p.op)
      OBVIOUS
    <3>2. p.op \in {"verify", "reset"}
      <4>1. p.op \in {"confirm", "challenge"} => p.row.secret \in Nat
        BY <1>3, CommitUses, SlotFacts DEF Shape, HasRow, UserRecord
      <4> QED BY <1>3, <2>1, <3>1, <4>1, Names DEF UsedUp
    <3>3. p.arg = q.arg
      BY <1>3, <2>1, <3>1, <3>2, Names DEF UsedUp
    <3>4. p.op = q.op
      BY <1>3, <2>1, <3>2, <3>3 DEF LinkOK
    <3> QED BY <1>4, <3>4, Interferes
  <2> QED BY <1>2, <1>3, <2>1, <2>2, <2>3
<1>5. ASSUME q.pc = "mail" PROVE links'[q.arg].state = "unmailed"
  <2>1. q.arg \in Links /\ links[q.arg].state = "unmailed"
    BY <1>3, <1>5 DEF LinkOK, Shape
  <2>2. Link(q.arg) \notin Uses(r)
    <3>1. p.op \in {"confirm", "challenge"} => p.row.secret \in Nat
      BY <1>3, CommitUses, SlotFacts DEF Shape, HasRow, UserRecord
    <3>2. p.op \in {"verify", "reset"} => p.arg # q.arg
      BY <1>3, <2>1 DEF LinkOK
    <3> QED BY <1>3, <2>1, <3>1, <3>2, Names DEF UsedUp
  <2> QED BY <2>1, <2>2, CommitKeepsLinks
<1> QED BY <1>1, <1>2, <1>4, <1>5 DEF LinkOK, Running

LEMMA CommitOtherCode ==
  ASSUME AccountsInv, NEW r \in Slots, Commit(r), NEW s \in Slots \ {r}
  PROVE  CodeOK(txn'[s], user', spent', raced')
<1> DEFINE p == txn[r]
<1>1. PICK q, o : q = txn[s] /\ o = txn'[s]
  OBVIOUS
<1>2. /\ o.pc = q.pc /\ o.op = q.op /\ o.row = q.row /\ o.code = q.code
      /\ q.overlapped \/ Meets(q.op, p.op) => o.overlapped
  BY <1>1, CommitOther
<1>3. /\ CodeOK(q, user, spent, raced) /\ Shape(q) /\ CodeOK(p, user, spent, raced)
      /\ Running(p) /\ UsedUp(p, Uses(r)) /\ UserAfter(p, user, user')
      /\ spent' = spent \union Uses(r) /\ raced \subseteq raced'
  BY <1>1, CommitUses, CommitUser, CommitRaced, SlotFacts DEF Commit
<1>4. ASSUME Running(q), q.op \in {"enrol", "confirm"}
      PROVE  o.overlapped \/ (~user'.mfa /\ q.row.secret = user'.secret)
  <2>1. p.op \in {"enrol", "confirm"} => Meets(q.op, p.op)
    BY <1>4, Interferes
  <2> QED BY <1>2, <1>3, <1>4, <2>1 DEF CodeOK, UserAfter
<1>5. ASSUME Running(q), q.op = "challenge"
      PROVE  /\ user'.mfa
             /\ \/ o.overlapped \/ Totp \in raced'
                \/ q.row.secret = user'.secret /\ q.row.last = user'.last
  <2>1. user.mfa
    BY <1>3, <1>5 DEF CodeOK
  <2>2. user'.mfa
    BY <1>3, <2>1 DEF UserAfter
  <2>3. p.op \in {"confirm", "challenge"} => Meets(q.op, p.op)
    BY <1>5, Interferes
  <2>4. p.op = "enrol" => Totp \in raced'
    <3>1. p.op = "enrol" => p.overlapped
      BY <1>3, <2>1 DEF CodeOK
    <3> QED BY <3>1, CommitRaced
  <2> QED BY <1>2, <1>3, <1>5, <2>2, <2>3, <2>4 DEF CodeOK, UserAfter
<1>6. ASSUME HasCode(q), q.op = "challenge", q.code \in Codes, q.overlapped \/ q.code \notin spent
      PROVE  o.overlapped \/ q.code \notin spent'
  <2>1. q.code \in Uses(r) => p.op = "challenge"
    <3>1. p.op = "confirm" => p.row.secret \in Nat
      BY <1>3, CommitUses, SlotFacts DEF Shape, HasRow, UserRecord
    <3> QED BY <1>3, <1>6, <3>1, Names DEF UsedUp
  <2>2. p.op = "challenge" => Meets(q.op, p.op)
    BY <1>6, Interferes
  <2> QED BY <1>2, <1>3, <1>6, <2>1, <2>2
<1>7. HasCode(q) =>
       \/ /\ q.op = "challenge" /\ q.code \in Codes
          /\ o.overlapped \/ q.code \notin spent'
       \/ \E c \in 1 .. MaxStep : /\ q.code = TotpCode(q.row.secret, c)
                                  /\ q.op = "challenge" => c > q.row.last
  BY <1>3, <1>6 DEF CodeOK
<1> QED BY <1>1, <1>2, <1>4, <1>5, <1>7 DEF CodeOK, Running, HasCode

LEMMA CommitOtherToken ==
  ASSUME AccountsInv, NEW r \in Slots, Commit(r), NEW s \in Slots \ {r}
  PROVE  TokenOK(txn'[s], refresh')
<1> DEFINE p == txn[r]
<1>1. PICK q, o : q = txn[s] /\ o = txn'[s]
  OBVIOUS
<1>2. /\ o.pc = q.pc /\ o.op = q.op /\ o.arg = q.arg /\ o.mint = q.mint /\ o.kills = q.kills
      /\ q.overlapped \/ Meets(q.op, p.op) => o.overlapped
  BY <1>1, CommitOther
<1>3. /\ TokenOK(q, refresh) /\ Shape(q) /\ IsRequest(q) /\ Shape(p)
      /\ RefreshAfter(p, refresh, refresh') /\ Apart(p, q)
  BY <1>1, CommitRefresh, SlotFacts
<1>4. \A t \in Tokens : refresh[t].family # 0 => refresh'[t].family = refresh[t].family
  BY CommitFamilies
<1>5. Running(q) /\ q.op \in {"rotate", "logout"} =>
        /\ q.arg \in Tokens /\ refresh[q.arg].family # 0
        /\ refresh'[q.arg].family = refresh[q.arg].family
        /\ q.arg # p.mint
  <2>1. p.mint # 0 => refresh[p.mint].family = 0
    BY <1>3 DEF RefreshAfter
  <2>2. 0 \notin Tokens
    BY DEF Tokens
  <2> QED BY <1>3, <1>4, <2>1, <2>2 DEF TokenOK, Shape
<1>6. ASSUME q.mint # 0 PROVE refresh'[q.mint].family = 0
  <2>1. q.mint \in Tokens /\ Token(q.mint) \in q.holds /\ refresh[q.mint].family = 0
    BY <1>3, <1>6 DEF Shape, IsRequest, TokenOK
  <2>2. q.mint # p.mint
    BY <1>3, <1>6, <2>1 DEF Shape, Apart
  <2> QED BY <1>3, <2>1, <2>2 DEF RefreshAfter
<1>7. ASSUME Rotating(q)
      PROVE  o.overlapped \/ (~refresh'[q.arg].consumed /\ ~refresh'[q.arg].revoked)
  <2>1. Running(q) /\ q.op = "rotate"
    BY <1>3, <1>7 DEF Rotating, Running, Shape
  <2>2. p.op \in {"rotate", "logout", "reset"} => Meets(q.op, p.op)
    BY <2>1, Interferes
  <2>3. p.kills # {} => p.op \in {"rotate", "logout", "reset"}
    BY <1>3 DEF Shape, Killing
  <2> QED BY <1>2, <1>3, <1>5, <1>7, <2>1, <2>2, <2>3 DEF TokenOK, RefreshAfter
<1>8. ASSUME Killing(q), ~o.overlapped, NEW t \in Tokens,
             refresh'[t].family # 0, ~refresh'[t].revoked,
             q.op = "reset" \/ refresh'[t].family = refresh'[q.arg].family
      PROVE  t \in q.kills
  <2>1. Running(q) /\ q.op \in {"reset", "logout", "rotate"} /\ ~q.overlapped
    BY <1>2, <1>8 DEF Killing, Running
  <2>2. t # p.mint
    <3>1. SUFFICES ASSUME t = p.mint PROVE FALSE
      OBVIOUS
    <3>2. p.mint # 0 /\ p.op \in {"login", "challenge", "rotate"}
      BY <1>3, <3>1 DEF Tokens, RefreshAfter
    <3>3. ~(q.op = "reset") /\ p.op # "rotate"
      BY <1>2, <1>8, <2>1, <3>2, Interferes
    <3>4. refresh'[t].family = t /\ refresh[t].family = 0
      BY <1>3, <3>1, <3>2, <3>3 DEF RefreshAfter
    <3>5. q.arg \in Tokens /\ refresh[q.arg].family = t
      BY <1>5, <1>8, <2>1, <3>3, <3>4
    <3>6. t # 0
      BY DEF Tokens
    <3> QED BY <3>4, <3>5, <3>6 DEF AccountsInv, RowsInv, FamilyInv
  <2>3. refresh[t].family = refresh'[t].family /\ ~refresh[t].revoked
    BY <1>3, <1>8, <2>2 DEF RefreshAfter
  <2>4. q.op = "reset" \/ refresh[t].family = refresh[q.arg].family
    BY <1>5, <1>8, <2>1, <2>3
  <2> QED BY <1>3, <1>8, <2>1, <2>3, <2>4 DEF TokenOK
<1> QED BY <1>1, <1>2, <1>5, <1>6, <1>7, <1>8 DEF TokenOK, Running, Rotating, Killing

LEMMA CommitOtherUser ==
  ASSUME AccountsInv, NEW r \in Slots, Commit(r), NEW s \in Slots \ {r}
  PROVE  UserOK(txn'[s], user', mfaTokens')
<1> DEFINE p == txn[r]
<1>1. PICK q, o : q = txn[s] /\ o = txn'[s]
  OBVIOUS
<1>2. /\ o.pc = q.pc /\ o.op = q.op /\ o.arg = q.arg /\ o.row = q.row /\ o.holds = q.holds
      /\ o.mint = q.mint
      /\ q.overlapped \/ Meets(q.op, p.op) => o.overlapped
  BY <1>1, CommitOther
<1>3. /\ UserOK(q, user, mfaTokens) /\ Shape(q) /\ UserOK(p, user, mfaTokens)
      /\ UserAfter(p, user, user') /\ Apart(p, q) /\ p.pc = "commit"
      /\ mfaTokens' = mfaTokens
  BY <1>1, CommitUser, CommitUses, SlotFacts DEF Commit
<1>4. ~(q.pc = "commit" /\ q.op = "register")
  <2>1. SUFFICES ASSUME q.pc = "commit", q.op = "register" PROVE FALSE
    OBVIOUS
  <2>2. ~user.exists /\ UserRow \in q.holds
    BY <1>3, <2>1 DEF UserOK
  <2>3. p.op = "register"
    BY <1>3, <2>2 DEF UserAfter
  <2>4. UserRow \in p.holds
    BY <1>3, <2>3 DEF UserOK
  <2> QED BY <1>3, <2>2, <2>4 DEF Apart
<1>5. ASSUME HasRow(q), q.op \in {"login", "challenge", "reset", "rotate"}
      PROVE  o.overlapped \/ (q.row.version = user'.version /\ q.row.pw = user'.pw)
  <2>1. p.op = "reset" => Meets(q.op, p.op)
    BY <1>5, Interferes
  <2>2. p.op # "register"
    <3>1. user.exists
      BY <1>3, <1>5 DEF UserOK, HasRow, Running
    <3> QED BY <1>3, <3>1 DEF UserAfter
  <2> QED BY <1>2, <1>3, <1>5, <2>1, <2>2 DEF UserOK, UserAfter
<1>6. user'.exists
  BY <1>3 DEF UserAfter
<1> QED BY <1>1, <1>2, <1>3, <1>4, <1>5, <1>6 DEF UserOK, Running, HasRow

LEMMA CommitStep == ASSUME AccountsInv, NEW r \in Slots, Commit(r) PROVE AccountsInv'
<1>1. PICK l \in Links \union {None} :
        /\ l # None => l \in Links /\ links[l].state = "unsent"
                       /\ links'[l].state = "unmailed"
        /\ txn'[r] = IF l = None THEN Idle ELSE [Idle EXCEPT !.pc = "mail", !.arg = l]
  BY CommitLinks
<1>2. RequestOK(txn'[r], user', links', refresh', mfaTokens', spent', raced')
  <2>1. CASE l = None
    BY <1>1, <2>1 DEF Idle, RequestOK, Shape, IsRequest, Steps, LinkOK, CodeOK, TokenOK,
       UserOK, Running, HasRow, HasCode, Rotating, Killing
  <2>2. CASE l # None
    BY <1>1, <2>2 DEF Idle, RequestOK, Shape, IsRequest, Steps, LinkOK, CodeOK, TokenOK,
       UserOK, Running, HasRow, HasCode, Rotating, Killing
  <2> QED BY <2>1, <2>2
<1>3. ASSUME NEW s \in Slots \ {r}
      PROVE  RequestOK(txn'[s], user', links', refresh', mfaTokens', spent', raced')
  BY CommitOther, CommitOtherLink, CommitOtherCode, CommitOtherToken, CommitOtherUser
  DEF RequestOK
<1>4. ASSUME NEW s \in Slots \ {r} PROVE Apart(txn'[r], txn'[s]) /\ Apart(txn'[s], txn'[r])
  <2>1. txn'[r].holds = {} /\ (txn'[r].pc = "mail" => l # None /\ txn'[r].arg = l)
    BY <1>1 DEF Idle
  <2>2. txn'[s].pc = "mail" => txn[s].pc = "mail" /\ txn'[s].arg = txn[s].arg
    BY CommitOther
  <2>3. txn[s].pc = "mail" => links[txn[s].arg].state = "unmailed"
    BY SlotFacts DEF LinkOK
  <2> QED BY <1>1, <2>1, <2>2, <2>3 DEF Apart
<1>5. ASSUME NEW s \in Slots \ {r}, NEW u \in Slots \ {r}, s # u
      PROVE  Apart(txn'[s], txn'[u])
  <2>1. Apart(txn[s], txn[u])
    BY <1>5 DEF AccountsInv
  <2>2. /\ txn'[s].holds = txn[s].holds /\ txn'[u].holds = txn[u].holds
        /\ txn'[s].pc = txn[s].pc /\ txn'[u].pc = txn[u].pc
        /\ txn'[s].arg = txn[s].arg /\ txn'[u].arg = txn[u].arg
    BY CommitOther
  <2> QED BY <2>1, <2>2 DEF Apart
<1>6. \A p \in Slots :
        RequestOK(txn'[p], user', links', refresh', mfaTokens', spent', raced')
  BY <1>2, <1>3
<1>7. \A p, q \in Slots : p # q => Apart(txn'[p], txn'[q])
  BY <1>4, <1>5
<1> QED BY <1>6, <1>7, CommitType, CommitRows DEF AccountsInv

-----------------------------------------------------------------------------
(* The invariant, and what it says.                                        *)

LEMMA AccountsStep == AccountsInv /\ [Next]_vars => AccountsInv'
<1>1. ASSUME AccountsInv, UNCHANGED vars PROVE AccountsInv'
  <2>1. /\ UNCHANGED <<user, links, refresh, recovery, access, mfaTokens, txn>>
        /\ UNCHANGED <<killed, spent, respent, raced>>
    BY <1>1 DEF vars, rows, handed, history
  <2>2. AccountsType'
    BY <1>1, <2>1 DEF AccountsInv, AccountsType
  <2>3. RowsInv'
    BY <1>1, <2>1 DEF AccountsInv, RowsInv, Unborn, SpentInv, FamilyInv, LiveInv,
       PasswordInv, SingleUse, EnforcedSecretIsProven, Live, Unrevoked
  <2>4. \A q \in Slots :
          RequestOK(txn'[q], user', links', refresh', mfaTokens', spent', raced')
    BY <1>1, <2>1 DEF AccountsInv
  <2>5. \A p, q \in Slots : p # q => Apart(txn'[p], txn'[q])
    BY <1>1, <2>1 DEF AccountsInv
  <2> QED BY <2>2, <2>3, <2>4, <2>5 DEF AccountsInv
<1>2. ASSUME AccountsInv, NEW r \in Slots,
             \/ Register(r) \/ Resend(r) \/ Forgot(r) \/ PresentVerification(r) \/ PresentReset(r)
             \/ Login(r) \/ LoginWithMfa(r) \/ Challenge(r)
             \/ Enrol(r) \/ Confirm(r) \/ PresentToken(r)
             \/ ReadUser(r) \/ TryTotp(r) \/ TryRecoveryCode(r)
             \/ Flush(r) \/ Revoke(r) \/ Revoked(r)
             \/ Commit(r) \/ Mail(r) \/ Fail(r)
      PROVE  AccountsInv'
  BY <1>2, PlainStep, LinkStep, LoginWithMfaStep, ChallengeStep, TokenStep, ReadUserStep,
     CodeStep, FlushStep, RevokeStep, RevokedStep, CommitStep, MailStep, FailStep
<1> QED BY <1>1, <1>2 DEF Next

LEMMA AccountsAlways == Spec => []AccountsInv
BY AccountsInitially, AccountsStep, PTL DEF Spec

LEMMA AtMostOne ==
  ASSUME NEW S, \A t, u \in S : t = u
  PROVE  Cardinality(S) <= 1
<1>1. CASE S = {}
  BY <1>1, FS_EmptySet
<1>2. CASE S # {}
  <2>1. PICK t : S = {t}
    BY <1>2
  <2>2. Cardinality({t}) = 1
    BY FS_Singleton
  <2> QED BY <2>1, <2>2
<1> QED BY <1>1, <1>2

\* Rows, requests and tokens keep to their types, and a request under way either still
\* sees the rows as they are or is marked as overlapped.
THEOREM AccountsAreSound == Spec => [](AccountsType /\ AccountsInv)
<1>1. AccountsInv => AccountsType
  BY DEF AccountsInv
<1> QED BY <1>1, AccountsAlways, PTL

\* "Refresh tokens rotate on every use" and a reuse or a logout revokes "the entire
\* family" (services/sessions.py): a family has at most one token that works, and none
\* after a revocation, unless a rotation overlapped another or the revocation.
THEOREM FamiliesHaveOneLiveToken == Spec => []OneLiveToken
<1>1. ASSUME AccountsInv PROVE OneLiveToken
  <2>1. ASSUME NEW f \in Tokens, Family(f) \notin raced
        PROVE  Cardinality(Live(f)) <= IF Family(f) \in killed THEN 0 ELSE 1
    <3>1. /\ \A t, u \in Live(f) : t = u
          /\ Family(f) \in killed => Live(f) = {}
      BY <1>1, <2>1 DEF AccountsInv, RowsInv, LiveInv
    <3> QED BY <3>1, AtMostOne, FS_EmptySet
  <2> QED BY <2>1 DEF OneLiveToken
<1> QED BY <1>1, AccountsAlways, PTL

\* A reset "logs the account out everywhere" (api/v1/auth.py): what still works goes
\* back to a login with the current password, whatever was half done at the reset.
THEOREM ResetsLogOutEverywhere == Spec => []ResetLogsOutEverywhere
<1>1. ASSUME AccountsInv PROVE ResetLogsOutEverywhere
  BY <1>1 DEF AccountsInv, RowsInv, PasswordInv, ResetLogsOutEverywhere
<1> QED BY <1>1, AccountsAlways, PTL

\* Links, recovery codes and TOTP steps are single-use: one is accepted again only by
\* requests that overlapped (services/auth_service.py, services/mfa.py).
THEOREM CodesAreSingleUse == Spec => []SingleUse
<1>1. AccountsInv => SingleUse
  BY DEF AccountsInv, RowsInv
<1> QED BY <1>1, AccountsAlways, PTL

\* "MFA is enforced only after the user proves the authenticator works"
\* (services/mfa.py), unless enrolments overlapped.
THEOREM EnforcedSecretsAreProven == Spec => []EnforcedSecretIsProven
<1>1. AccountsInv => EnforcedSecretIsProven
  BY DEF AccountsInv, RowsInv
<1> QED BY <1>1, AccountsAlways, PTL

-----------------------------------------------------------------------------
(* One request at a time: nothing is ever raced, and what is said above    *)
(* holds without exception.                                                *)

SerialInv == raced = {} /\ \A r \in Slots : ~txn[r].overlapped

LEMMA SerialStep ==
  ASSUME \A p, q \in Slots : p = q, AccountsInv, SerialInv, [Next]_vars
  PROVE  SerialInv'
<1>1. CASE UNCHANGED vars
  BY <1>1 DEF vars, history, SerialInv
<1>2. ASSUME NEW r \in Slots,
             raced' = raced,
             DOMAIN txn' = Slots,
             ~txn'[r].overlapped
      PROVE  SerialInv'
  BY <1>2 DEF SerialInv
<1>3. DOMAIN txn = Slots /\ \A r \in Slots : IsRequest(txn[r]) /\ ~txn[r].overlapped
  BY SlotFacts DEF AccountsInv, AccountsType, SerialInv
<1>4. ASSUME NEW r \in Slots, NEW op, NEW arg, NEW row, NEW step,
             Begin(r, op, arg, row, step)
      PROVE  SerialInv'
  <2>1. raced' = raced /\ DOMAIN txn' = Slots /\ ~txn'[r].overlapped
    BY <1>3, <1>4 DEF Begin, Idle, history
  <2> QED BY <1>2, <2>1
<1>5. ASSUME NEW r \in Slots, Register(r) \/ Resend(r) \/ Forgot(r) \/ Login(r)
      PROVE  SerialInv'
  BY <1>4, <1>5 DEF Register, Resend, Forgot, Login
<1>6. ASSUME NEW r \in Slots,
             \/ PresentVerification(r) \/ PresentReset(r) \/ PresentToken(r)
             \/ Challenge(r) \/ Enrol(r) \/ Confirm(r)
      PROVE  SerialInv'
  BY <1>4, <1>6 DEF PresentVerification, PresentReset, PresentToken, Challenge, Enrol, Confirm
<1>7. ASSUME NEW r \in Slots, LoginWithMfa(r)
      PROVE  SerialInv'
  BY <1>7 DEF LoginWithMfa, history, SerialInv
<1>8. ASSUME NEW r \in Slots, NEW step, NEW row, NEW code, NEW mint, NEW kills, NEW holds,
             UNCHANGED history,
             \/ txn' = [txn EXCEPT ![r].row = row, ![r].pc = step]
             \/ txn' = [txn EXCEPT ![r].code = code, ![r].pc = step]
             \/ txn' = [txn EXCEPT ![r].mint = mint, ![r].holds = holds, ![r].pc = step]
             \/ txn' = [txn EXCEPT ![r].kills = kills, ![r].pc = step]
             \/ txn' = [txn EXCEPT ![r].holds = holds, ![r].pc = step]
             \/ txn' = [txn EXCEPT ![r] = Idle]
      PROVE  SerialInv'
  <2>1. raced' = raced /\ DOMAIN txn' = Slots
    BY <1>3, <1>8 DEF history
  <2>2. ~txn'[r].overlapped
    BY <1>3, <1>8 DEF IsRequest, Idle
  <2> QED BY <1>2, <2>1, <2>2
<1>9. ASSUME NEW r \in Slots, ReadUser(r) PROVE SerialInv'
  BY <1>8, <1>9 DEF ReadUser, Step
<1>10. ASSUME NEW r \in Slots, TryTotp(r) \/ TryRecoveryCode(r) PROVE SerialInv'
  BY <1>8, <1>10 DEF TryTotp, TryRecoveryCode, Step
<1>11. ASSUME NEW r \in Slots, Flush(r) PROVE SerialInv'
  BY <1>8, <1>11 DEF Flush, Step, End
<1>12. ASSUME NEW r \in Slots, Revoke(r) \/ Revoked(r) PROVE SerialInv'
  <2>1. CASE Revoke(r)
    BY <1>8, <2>1 DEF Revoke, Step
  <2>2. CASE Revoked(r)
    BY <1>8, <2>2 DEF Revoked, Step
  <2> QED BY <1>12, <2>1, <2>2
<1>13. ASSUME NEW r \in Slots, Mail(r) \/ Fail(r) PROVE SerialInv'
  BY <1>8, <1>13 DEF Mail, Fail, Step, End
<1>14. ASSUME NEW r \in Slots, Commit(r) PROVE SerialInv'
  <2>1. raced' = raced
    BY <1>14 DEF Commit, Overtaken, SerialInv
  <2>2. PICK l \in Links \union {None} :
          /\ txn'[r] = IF l = None THEN Idle ELSE [Idle EXCEPT !.pc = "mail", !.arg = l]
          /\ DOMAIN txn' = Slots
    BY <1>14, CommitLinks
  <2>3. ~txn'[r].overlapped
    BY <2>2 DEF Idle
  <2> QED BY <1>2, <2>1, <2>2, <2>3
<1> QED BY <1>1, <1>5, <1>6, <1>7, <1>9, <1>10, <1>11, <1>12, <1>13, <1>14 DEF Next

\* Requests that come one after the other race nothing: no link or code is accepted
\* twice, and the exceptions the other theorems make for raced things do not arise.
THEOREM AloneNothingIsRaced ==
  (\A p, q \in Slots : p = q) /\ Spec => [](raced = {} /\ respent = {})
<1> SUFFICES ASSUME \A p, q \in Slots : p = q
             PROVE  Spec => [](raced = {} /\ respent = {})
  OBVIOUS
<1>1. Init => SerialInv
  BY DEF Init, SerialInv, Idle
<1>2. AccountsInv /\ SerialInv => raced = {} /\ respent = {}
  BY DEF AccountsInv, RowsInv, SingleUse, SerialInv
<1>3. AccountsInv /\ SerialInv /\ [Next]_vars => SerialInv'
  BY SerialStep
<1> QED BY <1>1, <1>2, <1>3, AccountsAlways, PTL DEF Spec
===============================================================================
