------------------------------- MODULE Accounts -------------------------------
(***************************************************************************)
(* Accounts with their personal organizations, sessions with their         *)
(* one-use refresh tokens, and the links sent by email (app/auth).         *)
(*                                                                         *)
(* A request is cut where it holds no transaction: between the insertion   *)
(* of an account and that of its organization, between the check of a      *)
(* password and the insertion of the session, between the read of an       *)
(* account and the token made for it.  Any call in progress may be lost.   *)
(* A refresh or a link is one transaction on rows it locks.                *)
(*                                                                         *)
(* A password is the number of times it was changed.  The k-th refresh     *)
(* token of session s is <<s, k>>: tokens are random, nobody guesses one,  *)
(* and whoever got one may present it at any time.                         *)
(***************************************************************************)
EXTENDS Naturals, FiniteSets

CONSTANTS
  AccountIds,    \* identities of accounts, each inserted once (uuid4)
  Email,         \* the address an account is registered with
  SessionIds,    \* identities of sessions
  AccountCalls,  \* slots of requests in progress (bound)
  Verification,  \* auth_require_verification
  MaxToken,      \* bound on the rotations of a session
  MaxPassword,   \* bound on the resets of an account
  MaxLinks       \* bound on the links issued

ASSUME AccountAssumption ==
  /\ AccountIds # {}
  /\ Verification \in BOOLEAN
  /\ MaxToken \in Nat
  /\ MaxPassword \in Nat
  /\ MaxLinks \in Nat

VARIABLES
  account,   \* rag_users
  home,      \* accounts whose workspace has its personal organization
  untold,    \* accounts whose organization their registration was not told of
  session,   \* rag_sessions
  history,   \* rag_refresh_history
  link,      \* rag_email_tokens
  issued,    \* number of links issued
  acall      \* requests in progress

accountVars == <<account, home, untold, session, history, link, issued, acall>>
-----------------------------------------------------------------------------
Purposes == {"verify", "reset"}
Links == [id : Nat, account : AccountIds, purpose : Purposes]

AccountType ==
  [state : {"unused", "live", "deleted"}, verified : BOOLEAN, password : Nat]
\* born: the password of the account when the session was inserted.
SessionType ==
  [state : {"unused", "open", "revoked"}, owner : AccountIds, token : Nat,
   born : Nat, lapsed : BOOLEAN]
CallType ==
  [kind : {"none", "provision", "undo", "login", "heal", "mail"}, account : AccountIds,
   purpose : Purposes]

\* Types of the rows and the calls.
AccountTypeOK ==
  /\ account \in [AccountIds -> AccountType]
  /\ home \subseteq AccountIds
  /\ untold \subseteq AccountIds
  /\ session \in [SessionIds -> SessionType]
  /\ history \subseteq SessionIds \X Nat
  /\ link \subseteq Links
  /\ issued \in Nat
  /\ acall \in [AccountCalls -> CallType]

Somebody == CHOOSE a \in AccountIds : TRUE
NoCall == [kind |-> "none", account |-> Somebody, purpose |-> "verify"]
\* Mutant: no row is a session of nobody's.
NoRow == [state |-> "unused", owner |-> "none", token |-> 0, born |-> 0, lapsed |-> FALSE]

NoSession == [state |-> "unused", owner |-> Somebody, token |-> 0, born |-> 0,
              lapsed |-> FALSE]

AccountInit ==
  /\ account = [a \in AccountIds |-> [state |-> "unused", verified |-> FALSE, password |-> 0]]
  /\ home = {}
  /\ untold = {}
  /\ session = [s \in SessionIds |-> NoSession]
  /\ history = {}
  /\ link = {}
  /\ issued = 0
  /\ acall = [c \in AccountCalls |-> NoCall]

Live(a) == account[a].state = "live"

\* users.email is unique.
Registered(e) == \E a \in AccountIds : Live(a) /\ Email[a] = e

Call(c, kind, a, purpose) ==
  acall' = [acall EXCEPT ![c] = [kind |-> kind, account |-> a, purpose |-> purpose]]
Return(c) == acall' = [acall EXCEPT ![c] = NoCall]
-----------------------------------------------------------------------------
(* POST /auth/register *)

Register(c, a) ==
  /\ acall[c].kind = "none"
  /\ account[a].state = "unused"
  /\ ~Registered(Email[a])
  /\ account' = [account EXCEPT ![a] =
       [state |-> "live", verified |-> ~Verification, password |-> 0]]
  /\ Call(c, "provision", a, "verify")
  /\ UNCHANGED <<home, untold, session, history, link, issued>>

\* The organization and its membership, unless the workspace has one (workspace_id is unique).
Provision(c) ==
  LET a == acall[c].account IN
  /\ acall[c].kind = "provision"
  /\ a \notin home
  /\ home' = home \cup {a}
  /\ IF Verification THEN Call(c, "mail", a, "verify") ELSE Return(c)
  /\ UNCHANGED <<account, untold, session, history, link, issued>>

\* Mutant: what follows, the link and its delivery, is in the try block as well.
UndoableLater(c) == acall[c].kind \in {"provision", "mail"}

Undoable(c) == acall[c].kind = "provision"

\* It has one, or the transaction fails: the account is to be removed again.
ProvisionFails(c) ==
  /\ Undoable(c)
  /\ Call(c, "undo", acall[c].account, "verify")
  /\ UNCHANGED <<account, home, untold, session, history, link, issued>>

\* The organization is there, but the acknowledgement of the commit is lost.
ProvisionUnheard(c) ==
  LET a == acall[c].account IN
  /\ acall[c].kind = "provision"
  /\ a \notin home
  /\ home' = home \cup {a}
  /\ untold' = untold \cup {a}
  /\ Call(c, "undo", a, "verify")
  /\ UNCHANGED <<account, session, history, link, issued>>

Undo(c) ==
  /\ acall[c].kind = "undo"
  /\ account' = [account EXCEPT ![acall[c].account].state = "deleted"]
  /\ Return(c)
  /\ UNCHANGED <<home, untold, session, history, link, issued>>
-----------------------------------------------------------------------------
(* POST /auth/login, and what an access token of the session gives *)

MaySignIn(a) == Live(a) /\ account[a].verified

\* The password given is that of the row that was read: the verification of its hash is the
\* slowest part of the request, and nothing looks at the row again.
LoginChecks(c, a) ==
  /\ acall[c].kind = "none"
  /\ MaySignIn(a)
  /\ Call(c, "login", a, "verify")
  /\ UNCHANGED <<account, home, untold, session, history, link, issued>>

LoginInserts(c, s) ==
  LET a == acall[c].account IN
  /\ acall[c].kind = "login"
  /\ session[s].state = "unused"
  /\ session' = [session EXCEPT ![s] =
       [state |-> "open", owner |-> a, token |-> 0,
        born |-> account[a].password, lapsed |-> FALSE]]
  /\ Return(c)
  /\ UNCHANGED <<account, home, untold, history, link, issued>>

\* The rows an access token is checked against.
Authenticated(s) ==
  /\ session[s].state = "open"
  /\ ~session[s].lapsed
  /\ MaySignIn(session[s].owner)

\* GET /auth/me finds that the account has no organization ...
Me(c, s) ==
  /\ acall[c].kind = "none"
  /\ Authenticated(s)
  /\ session[s].owner \notin home
  /\ Call(c, "heal", session[s].owner, "verify")
  /\ UNCHANGED <<account, home, untold, session, history, link, issued>>

\* ... and creates it, or is answered 409 if there is one by now.
Heal(c) ==
  LET a == acall[c].account IN
  /\ acall[c].kind = "heal"
  /\ home' = home \cup {a}
  /\ untold' = IF a \in home THEN untold ELSE untold \cup {a}
  /\ Return(c)
  /\ UNCHANGED <<account, session, history, link, issued>>
-----------------------------------------------------------------------------
(* POST /auth/refresh and /auth/logout: one transaction each *)

Current(s, k) == session[s].state # "unused" /\ k = session[s].token

\* Mutants: a revoked session goes on; the replaced token is not remembered.
UsableThoughRevoked(s) == session[s].state # "unused" /\ ~session[s].lapsed
ForgetsToken(s, k) == {}

Usable(s) == session[s].state = "open" /\ ~session[s].lapsed

Remembers(s, k) == {<<s, k>>}

\* The token is exchanged for the next one; a session without account raises and changes nothing.
Exchange(s, k) ==
  /\ Current(s, k)
  /\ Usable(s)
  /\ Live(session[s].owner)
  /\ k < MaxToken
  /\ history' = history \cup Remembers(s, k)
  /\ session' = [session EXCEPT ![s].token = k + 1]
  /\ UNCHANGED <<account, home, untold, link, issued, acall>>

\* A token that was exchanged before ends its session.
Reuse(s, k) ==
  /\ ~(Current(s, k) /\ Usable(s))
  /\ <<s, k>> \in history
  /\ session' = [session EXCEPT ![s].state = "revoked"]
  /\ UNCHANGED <<account, home, untold, history, link, issued, acall>>

\* A token that is not current by now revokes nothing.
Logout(s, k) ==
  /\ Current(s, k)
  /\ session' = [session EXCEPT ![s].state = "revoked"]
  /\ UNCHANGED <<account, home, untold, history, link, issued, acall>>

\* Thirty days pass.
Lapse(s) ==
  /\ session[s].state # "unused"
  /\ session' = [session EXCEPT ![s].lapsed = TRUE]
  /\ UNCHANGED <<account, home, untold, history, link, issued, acall>>
-----------------------------------------------------------------------------
(* POST /auth/request-link, /auth/verify and /auth/reset *)

RequestLink(c, a) ==
  /\ acall[c].kind = "none"
  /\ Live(a)
  /\ Call(c, "mail", a, IF account[a].verified THEN "reset" ELSE "verify")
  /\ UNCHANGED <<account, home, untold, session, history, link, issued>>

IssueLink(c) ==
  /\ acall[c].kind = "mail"
  /\ issued < MaxLinks
  /\ issued' = issued + 1
  /\ link' = link \cup
       {[id |-> issued, account |-> acall[c].account, purpose |-> acall[c].purpose]}
  /\ Return(c)
  /\ UNCHANGED <<account, home, untold, session, history>>

Verify(l) ==
  /\ l \in link
  /\ l.purpose = "verify"
  /\ link' = link \ {l}
  /\ account' = [account EXCEPT ![l.account].verified = TRUE]
  /\ UNCHANGED <<home, untold, session, history, issued, acall>>

\* Mutant: the sessions of the account survive.
EndsNone(s, a) == FALSE

EndedBy(s, a) == session[s].state = "open" /\ session[s].owner = a

Reset(l) ==
  /\ l \in link
  /\ l.purpose = "reset"
  /\ account[l.account].password < MaxPassword
  /\ link' = link \ {l}
  /\ account' = [account EXCEPT ![l.account].password = @ + 1]
  /\ session' = [s \in SessionIds |->
       IF EndedBy(s, l.account) THEN [session[s] EXCEPT !.state = "revoked"] ELSE session[s]]
  /\ UNCHANGED <<home, untold, history, issued, acall>>

\* An hour passes: the row stays, and is of no use.
LinkLapses(l) ==
  /\ l \in link
  /\ link' = link \ {l}
  /\ UNCHANGED <<account, home, untold, session, history, issued, acall>>

\* The process ends, the database or the mail service fails.
CallLost(c) ==
  /\ acall[c].kind # "none"
  /\ Return(c)
  /\ UNCHANGED <<account, home, untold, session, history, link, issued>>
-----------------------------------------------------------------------------
AccountNext ==
  \/ \E c \in AccountCalls :
       \/ \E a \in AccountIds : Register(c, a) \/ LoginChecks(c, a) \/ RequestLink(c, a)
       \/ Provision(c) \/ ProvisionFails(c) \/ ProvisionUnheard(c) \/ Undo(c)
       \/ Heal(c) \/ IssueLink(c) \/ CallLost(c)
       \/ \E s \in SessionIds : LoginInserts(c, s) \/ Me(c, s)
  \/ \E s \in SessionIds :
       \/ Lapse(s)
       \/ \E k \in 0 .. session[s].token : Exchange(s, k) \/ Reuse(s, k) \/ Logout(s, k)
  \/ \E l \in link : Verify(l) \/ Reset(l) \/ LinkLapses(l)

AccountSpec == AccountInit /\ [][AccountNext]_accountVars
-----------------------------------------------------------------------------
(* Properties *)

\* The tokens remembered as used are all that came before the current one: whichever requests
\* present a token of a session, it is exchanged once (refresh).
UsedTokensRemembered ==
  \A s \in SessionIds : \A k \in 0 .. MaxToken :
    (<<s, k>> \in history) = (k < session[s].token)

\* A session that was revoked, by a reused token, a log out or a reset, stays revoked and never
\* gets another token.
RevokedForGood ==
  [][\A s \in SessionIds : session[s].state = "revoked" =>
       session'[s].state = "revoked" /\ session'[s].token = session[s].token]_accountVars

\* A session that is open was inserted after the last reset of its account's password: an older
\* password lives on only in the session of a login that had checked it and was overtaken by the
\* reset before it inserted its row (login, consume_email_token).
OpenSinceReset ==
  \A s \in SessionIds : session[s].state = "open" =>
    session[s].born = account[session[s].owner].password

\* Removing an account whose registration failed leaves no organization behind, unless the
\* registration was not told of it: GET /auth/me created it for an owner who signed in so early, or
\* its own transaction committed and the acknowledgement was lost (register, me).
OrphansUntold ==
  \A a \in home : account[a].state = "deleted" => a \in untold
=============================================================================
