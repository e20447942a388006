---------------------------- MODULE AccessProofs ----------------------------
(* Theorems about who may do what: Accounts, for any number of accounts, sessions, requests in *)
(* progress, rotations and resets; Organizations, for any organizations, users, requests and   *)
(* levels; RateLimit, for any limit, window and number of requests; Queries, for any sources,   *)
(* deployments, labels, fusions, filters and scores of rules, and any number of changes of the *)
(* registry and the graph while the query runs.                                                *)
EXTENDS MCAccess, Integers, FiniteSetTheorems, TLAPS

(***************************************************************************)
(* Accounts and sessions                                                   *)
(***************************************************************************)
(* The inductive invariant *)

Unfinished == {"provision", "undo"}

\* Nothing belongs to an account or a session before it is inserted.
FreshAccounts ==
  /\ \A a \in AccountIds : account[a].state = "unused" => a \notin home
  /\ \A s \in SessionIds : session[s].state = "unused" => session[s].token = 0
  /\ \A s \in SessionIds : session[s].state = "open" =>
       account[session[s].owner].state # "unused"

\* A registration that is not finished has an account of its own, and the registration
\* was not told of the organization the account may have.
AccountCallOK(c) ==
  LET q == acall[c] IN
  /\ q.kind \in {"login", "heal"} => account[q.account].state # "unused"
  /\ q.kind \in Unfinished => Live(q.account) /\ (q.account \in home => q.account \in untold)

AccountCallsOK == \A c \in AccountCalls : AccountCallOK(c)

OneRegistration ==
  \A c, d \in AccountCalls :
    /\ acall[c].kind \in Unfinished /\ acall[d].kind \in Unfinished
    /\ acall[c].account = acall[d].account
    => c = d

AccountInv ==
  /\ AccountTypeOK
  /\ FreshAccounts
  /\ AccountCallsOK
  /\ OneRegistration
  /\ UsedTokensRemembered
  /\ OpenSinceReset
  /\ OrphansUntold
-----------------------------------------------------------------------------
LEMMA AccountValues ==
  /\ Somebody \in AccountIds
  /\ NoCall \in CallType
  /\ NoSession \in SessionType
<1>1. Somebody \in AccountIds
  BY AccountAssumption DEF Somebody
<1> QED
  BY <1>1 DEF NoCall, CallType, Purposes, NoSession, SessionType

\* A request that goes on, or ends, keeps the types.
LEMMA CallTypes ==
  ASSUME AccountTypeOK, NEW c \in AccountCalls, NEW a \in AccountIds, NEW p \in Purposes,
         NEW k \in {"provision", "undo", "login", "heal", "mail"}, Call(c, k, a, p)
  PROVE  /\ acall' \in [AccountCalls -> CallType]
         /\ acall'[c].kind = k /\ acall'[c].account = a
         /\ \A d \in AccountCalls \ {c} : acall'[d] = acall[d]
<1>1. [kind |-> k, account |-> a, purpose |-> p] \in CallType
  BY DEF CallType
<1> QED
  BY <1>1 DEF Call, AccountTypeOK

LEMMA ReturnTypes ==
  ASSUME AccountTypeOK, NEW c \in AccountCalls, Return(c)
  PROVE  /\ acall' \in [AccountCalls -> CallType]
         /\ acall'[c].kind = "none"
         /\ \A d \in AccountCalls \ {c} : acall'[d] = acall[d]
<1>1. acall' = [acall EXCEPT ![c] = NoCall] /\ NoCall \in CallType /\ NoCall.kind = "none"
  BY AccountValues DEF Return, NoCall
<1> QED
  BY <1>1 DEF AccountTypeOK

LEMMA AccountInitInv == AccountInit => AccountInv
<1> SUFFICES ASSUME AccountInit
             PROVE  AccountInv
  OBVIOUS
<1> USE DEF AccountInit
<1>1. \A c \in AccountCalls : acall[c].kind = "none"
  BY DEF NoCall
<1>2. \A s \in SessionIds : session[s].state = "unused" /\ session[s].token = 0
  BY DEF NoSession
<1>3. AccountTypeOK
  BY AccountValues DEF AccountTypeOK, AccountType
<1>4. FreshAccounts /\ OpenSinceReset /\ OrphansUntold
  BY <1>2 DEF FreshAccounts, OpenSinceReset, OrphansUntold
<1>5. UsedTokensRemembered
  BY <1>2 DEF UsedTokensRemembered
<1>6. AccountCallsOK /\ OneRegistration
  BY <1>1 DEF AccountCallsOK, AccountCallOK, OneRegistration, Unfinished
<1> QED
  BY <1>3, <1>4, <1>5, <1>6 DEF AccountInv
-----------------------------------------------------------------------------
(* Steps that change requests and links alone *)

\* One request changes and the rows stay.
LEMMA OneAccountCall ==
  ASSUME AccountInv, NEW c \in AccountCalls, acall' \in [AccountCalls -> CallType],
         \A d \in AccountCalls \ {c} : acall'[d] = acall[d],
         AccountCallOK(c)',
         acall'[c].kind \in Unfinished =>
           acall[c].kind \in Unfinished /\ acall'[c].account = acall[c].account,
         UNCHANGED <<account, home, untold, session, history>>,
         link' \subseteq Links, issued' \in Nat
  PROVE  AccountInv'
<1>1. AccountTypeOK'
  BY DEF AccountInv, AccountTypeOK
<1>2. FreshAccounts' /\ UsedTokensRemembered' /\ OpenSinceReset' /\ OrphansUntold'
  BY DEF AccountInv, FreshAccounts, UsedTokensRemembered, OpenSinceReset, OrphansUntold
<1>3. AccountCallsOK'
  <2> SUFFICES ASSUME NEW d \in AccountCalls
               PROVE  AccountCallOK(d)'
    BY DEF AccountCallsOK
  <2>1. CASE d # c
    BY <2>1 DEF AccountInv, AccountCallsOK, AccountCallOK, Live
  <2> QED
    BY <2>1
<1>4. OneRegistration'
  BY DEF AccountInv, OneRegistration
<1> QED
  BY <1>1, <1>2, <1>3, <1>4 DEF AccountInv

LEMMA CallsStep ==
  ASSUME AccountInv, NEW c \in AccountCalls,
         \/ \E a \in AccountIds : LoginChecks(c, a) \/ RequestLink(c, a)
         \/ \E s \in SessionIds : Me(c, s)
         \/ ProvisionFails(c) \/ IssueLink(c) \/ CallLost(c)
  PROVE  AccountInv'
<1>1. /\ AccountTypeOK /\ issued \in Nat /\ link \subseteq Links /\ acall[c] \in CallType
      /\ AccountCallOK(c)
  BY DEF AccountInv, AccountTypeOK, AccountCallsOK
<1>2. UNCHANGED <<account, home, untold, session, history>>
  BY DEF LoginChecks, RequestLink, Me, ProvisionFails, IssueLink, CallLost
<1>3. ASSUME NEW a \in AccountIds, LoginChecks(c, a)
      PROVE  AccountInv'
  <2>1. Call(c, "login", a, "verify") /\ Live(a) /\ UNCHANGED <<link, issued>>
    BY <1>3 DEF LoginChecks, MaySignIn
  <2>2. /\ acall' \in [AccountCalls -> CallType]
        /\ acall'[c].kind = "login" /\ acall'[c].account = a
        /\ \A d \in AccountCalls \ {c} : acall'[d] = acall[d]
    BY <1>1, <2>1, CallTypes DEF Purposes
  <2>3. AccountCallOK(c)'
    BY <1>2, <2>1, <2>2 DEF AccountCallOK, Live, Unfinished
  <2>4. link' \subseteq Links /\ issued' \in Nat
    BY <1>1, <2>1
  <2>5. acall'[c].kind \in Unfinished =>
          acall[c].kind \in Unfinished /\ acall'[c].account = acall[c].account
    BY <2>1, <2>2 DEF Unfinished
  <2> QED
    BY <1>2, <2>2, <2>3, <2>4, <2>5, OneAccountCall
<1>4. ASSUME NEW a \in AccountIds, RequestLink(c, a)
      PROVE  AccountInv'
  <2>1. PICK p \in Purposes : Call(c, "mail", a, p) /\ UNCHANGED <<link, issued>>
    BY <1>4 DEF RequestLink, Purposes
  <2>2. /\ acall' \in [AccountCalls -> CallType]
        /\ acall'[c].kind = "mail"
        /\ \A d \in AccountCalls \ {c} : acall'[d] = acall[d]
    BY <1>1, <2>1, CallTypes
  <2>3. AccountCallOK(c)'
    BY <2>2 DEF AccountCallOK, Unfinished
  <2>4. link' \subseteq Links /\ issued' \in Nat
    BY <1>1, <2>1
  <2>5. acall'[c].kind \in Unfinished =>
          acall[c].kind \in Unfinished /\ acall'[c].account = acall[c].account
    BY <2>1, <2>2 DEF Unfinished
  <2> QED
    BY <1>2, <2>2, <2>3, <2>4, <2>5, OneAccountCall
<1>5. ASSUME NEW s \in SessionIds, Me(c, s)
      PROVE  AccountInv'
  <2> DEFINE o == session[s].owner
  <2>1. Call(c, "heal", o, "verify") /\ Live(o) /\ UNCHANGED <<link, issued>> /\ o \in AccountIds
    BY <1>1, <1>5 DEF AccountInv, AccountTypeOK, Me, Authenticated, MaySignIn, SessionType
  <2> HIDE DEF o
  <2>2. /\ acall' \in [AccountCalls -> CallType]
        /\ acall'[c].kind = "heal" /\ acall'[c].account = o
        /\ \A d \in AccountCalls \ {c} : acall'[d] = acall[d]
    BY <1>1, <2>1, CallTypes DEF Purposes
  <2>3. AccountCallOK(c)'
    BY <1>2, <2>1, <2>2 DEF AccountCallOK, Live, Unfinished
  <2>4. link' \subseteq Links /\ issued' \in Nat
    BY <1>1, <2>1
  <2>5. acall'[c].kind \in Unfinished =>
          acall[c].kind \in Unfinished /\ acall'[c].account = acall[c].account
    BY <2>1, <2>2 DEF Unfinished
  <2> QED
    BY <1>2, <2>2, <2>3, <2>4, <2>5, OneAccountCall
<1>6. CASE ProvisionFails(c)
  <2> DEFINE o == acall[c].account
  <2>1. /\ Call(c, "undo", o, "verify") /\ acall[c].kind = "provision" /\ o \in AccountIds
        /\ UNCHANGED <<link, issued>>
    BY <1>1, <1>6 DEF ProvisionFails, Undoable, CallType
  <2>2. /\ acall' \in [AccountCalls -> CallType]
        /\ acall'[c].kind = "undo" /\ acall'[c].account = o
        /\ \A d \in AccountCalls \ {c} : acall'[d] = acall[d]
    BY <1>1, <2>1, CallTypes DEF Purposes
  <2>3. AccountCallOK(c)'
    BY <1>1, <1>2, <2>1, <2>2 DEF AccountCallOK, Live, Unfinished
  <2>4. link' \subseteq Links /\ issued' \in Nat
    BY <1>1, <2>1
  <2>5. acall'[c].kind \in Unfinished =>
          acall[c].kind \in Unfinished /\ acall'[c].account = acall[c].account
    BY <2>1, <2>2 DEF Unfinished
  <2> QED
    BY <1>2, <2>2, <2>3, <2>4, <2>5, OneAccountCall
<1>7. CASE IssueLink(c) \/ CallLost(c)
  <2>1. Return(c)
    BY <1>7 DEF IssueLink, CallLost
  <2>2. /\ acall' \in [AccountCalls -> CallType]
        /\ acall'[c].kind = "none"
        /\ \A d \in AccountCalls \ {c} : acall'[d] = acall[d]
    BY <1>1, <2>1, ReturnTypes
  <2>3. AccountCallOK(c)'
    BY <2>2 DEF AccountCallOK, Unfinished
  <2>4. link' \subseteq Links /\ issued' \in Nat
    <3>1. CASE IssueLink(c)
      BY <3>1, <1>1 DEF IssueLink, Links, CallType
    <3>2. CASE CallLost(c)
      BY <3>2, <1>1 DEF CallLost
    <3> QED
      BY <3>1, <3>2, <1>7
  <2> QED
    BY <1>2, <2>2, <2>3, <2>4, OneAccountCall DEF Unfinished
<1> QED
  BY <1>3, <1>4, <1>5, <1>6, <1>7

LEMMA LinkStep ==
  ASSUME AccountInv, NEW l \in link, LinkLapses(l)
  PROVE  AccountInv'
BY DEF LinkLapses, AccountInv, AccountTypeOK, FreshAccounts, AccountCallsOK, AccountCallOK, Live, OneRegistration,
       UsedTokensRemembered, OpenSinceReset, OrphansUntold
-----------------------------------------------------------------------------
(* Steps of accounts and their organizations *)

LEMMA RegisterStep ==
  ASSUME AccountInv, NEW c \in AccountCalls, NEW a \in AccountIds, Register(c, a)
  PROVE  AccountInv'
<1>1. /\ AccountTypeOK /\ account[a].state = "unused" /\ a \notin home
      /\ UNCHANGED <<home, untold, session, history, link, issued>>
  BY DEF AccountInv, Register, FreshAccounts
<1>2. /\ account' \in [AccountIds -> AccountType]
      /\ account'[a].state = "live" /\ account'[a].password = 0
      /\ \A b \in AccountIds : b # a => account'[b] = account[b]
  BY <1>1, AccountAssumption DEF Register, AccountTypeOK, AccountType
<1>3. /\ acall' \in [AccountCalls -> CallType]
      /\ acall'[c].kind = "provision" /\ acall'[c].account = a
      /\ \A d \in AccountCalls \ {c} : acall'[d] = acall[d]
  BY <1>1, CallTypes DEF Register, Purposes
<1>4. AccountTypeOK'
  BY <1>1, <1>2, <1>3 DEF AccountTypeOK
<1>5. \A s \in SessionIds : session[s].state = "open" =>
        session[s].owner # a /\ session[s].owner \in AccountIds
  BY <1>1 DEF AccountInv, FreshAccounts, AccountTypeOK, SessionType
<1>6. FreshAccounts' /\ OpenSinceReset'
  BY <1>1, <1>2, <1>5 DEF AccountInv, FreshAccounts, OpenSinceReset
<1>7. UsedTokensRemembered' /\ OrphansUntold'
  BY <1>1, <1>2 DEF AccountInv, AccountTypeOK, UsedTokensRemembered, OrphansUntold
<1>8. \A d \in AccountCalls :
        acall[d].kind \in Unfinished => acall[d].account # a /\ acall[d].account \in AccountIds
  BY <1>1 DEF AccountInv, AccountCallsOK, AccountCallOK, Live, AccountTypeOK, CallType
<1>9. AccountCallsOK'
  <2> SUFFICES ASSUME NEW d \in AccountCalls
               PROVE  AccountCallOK(d)'
    BY DEF AccountCallsOK
  <2>1. CASE d = c
    BY <2>1, <1>1, <1>2, <1>3 DEF AccountCallOK, Live, Unfinished
  <2>2. CASE d # c
    <3>1. acall'[d] = acall[d] /\ AccountCallOK(d) /\ acall[d].account \in AccountIds
      BY <2>2, <1>3 DEF AccountInv, AccountCallsOK, AccountTypeOK, CallType
    <3> QED
      BY <3>1, <1>1, <1>2, <1>8 DEF AccountCallOK, Live
  <2> QED
    BY <2>1, <2>2
<1>10. OneRegistration'
  BY <1>3, <1>8 DEF AccountInv, OneRegistration
<1> QED
  BY <1>4, <1>6, <1>7, <1>9, <1>10 DEF AccountInv

\* The account of an unfinished registration gets or has an organization, or is removed, while the
\* request c ends or goes on to send a link.
LEMMA ProvisionStep ==
  ASSUME AccountInv, NEW c \in AccountCalls, Provision(c)
  PROVE  AccountInv'
<1> DEFINE a == acall[c].account
<1>1. /\ AccountTypeOK /\ a \in AccountIds /\ Live(a) /\ a \notin home /\ home' = home \cup {a}
      /\ UNCHANGED <<account, untold, session, history, link, issued>>
  BY DEF AccountInv, Provision, AccountTypeOK, CallType, AccountCallsOK, AccountCallOK, Unfinished
<1>2. /\ acall' \in [AccountCalls -> CallType]
      /\ acall'[c].kind \in {"none", "mail"}
      /\ \A d \in AccountCalls \ {c} : acall'[d] = acall[d]
  <2>1. CASE Verification
    BY <2>1, <1>1, CallTypes DEF Provision, Purposes
  <2>2. CASE ~Verification
    BY <2>2, <1>1, ReturnTypes DEF Provision
  <2> QED
    BY <2>1, <2>2
<1>3. AccountTypeOK'
  BY <1>1, <1>2 DEF AccountTypeOK
<1>4. FreshAccounts' /\ OpenSinceReset' /\ UsedTokensRemembered' /\ OrphansUntold'
  BY <1>1 DEF AccountInv, FreshAccounts, OpenSinceReset, UsedTokensRemembered, OrphansUntold, Live
<1>5. \A d \in AccountCalls \ {c} : acall[d].kind \in Unfinished => acall[d].account # a
  BY DEF AccountInv, OneRegistration, Provision, Unfinished
<1>6. AccountCallsOK'
  <2> SUFFICES ASSUME NEW d \in AccountCalls
               PROVE  AccountCallOK(d)'
    BY DEF AccountCallsOK
  <2>1. CASE d = c
    BY <2>1, <1>2 DEF AccountCallOK, Unfinished
  <2>2. CASE d # c
    BY <2>2, <1>1, <1>2, <1>5 DEF AccountInv, AccountCallsOK, AccountCallOK, Live
  <2> QED
    BY <2>1, <2>2
<1>7. OneRegistration'
  BY <1>2 DEF AccountInv, OneRegistration, Unfinished
<1> QED
  BY <1>3, <1>4, <1>6, <1>7 DEF AccountInv

LEMMA UnheardStep ==
  ASSUME AccountInv, NEW c \in AccountCalls, ProvisionUnheard(c)
  PROVE  AccountInv'
<1> DEFINE a == acall[c].account
<1>1. /\ AccountTypeOK /\ a \in AccountIds /\ Live(a) /\ a \notin home
      /\ home' = home \cup {a} /\ untold' = untold \cup {a}
      /\ UNCHANGED <<account, session, history, link, issued>>
  BY DEF AccountInv, ProvisionUnheard, AccountTypeOK, CallType, AccountCallsOK, AccountCallOK,
         Unfinished
<1>2. /\ acall' \in [AccountCalls -> CallType]
      /\ acall'[c].kind = "undo" /\ acall'[c].account = a
      /\ \A d \in AccountCalls \ {c} : acall'[d] = acall[d]
  BY <1>1, CallTypes DEF ProvisionUnheard, Purposes
<1>3. AccountTypeOK'
  BY <1>1, <1>2 DEF AccountTypeOK
<1>4. FreshAccounts' /\ OpenSinceReset' /\ UsedTokensRemembered' /\ OrphansUntold'
  BY <1>1 DEF AccountInv, FreshAccounts, OpenSinceReset, UsedTokensRemembered, OrphansUntold, Live
<1>5. AccountCallsOK'
  <2> SUFFICES ASSUME NEW d \in AccountCalls
               PROVE  AccountCallOK(d)'
    BY DEF AccountCallsOK
  <2>1. CASE d = c
    BY <2>1, <1>1, <1>2 DEF AccountCallOK, Live
  <2>2. CASE d # c
    BY <2>2, <1>1, <1>2 DEF AccountInv, AccountCallsOK, AccountCallOK, Live
  <2> QED
    BY <2>1, <2>2
<1>6. OneRegistration'
  BY <1>1, <1>2 DEF AccountInv, OneRegistration, Unfinished, ProvisionUnheard
<1> QED
  BY <1>3, <1>4, <1>5, <1>6 DEF AccountInv

LEMMA UndoStep ==
  ASSUME AccountInv, NEW c \in AccountCalls, Undo(c)
  PROVE  AccountInv'
<1> DEFINE a == acall[c].account
<1>1. /\ AccountTypeOK /\ a \in AccountIds /\ Live(a) /\ (a \in home => a \in untold)
      /\ UNCHANGED <<home, untold, session, history, link, issued>>
  BY DEF AccountInv, Undo, AccountTypeOK, CallType, AccountCallsOK, AccountCallOK, Unfinished
<1>2. /\ account' \in [AccountIds -> AccountType]
      /\ account'[a].state = "deleted" /\ account'[a].password = account[a].password
      /\ \A b \in AccountIds : b # a => account'[b] = account[b]
  BY <1>1 DEF Undo, AccountTypeOK, AccountType
<1>3. /\ acall' \in [AccountCalls -> CallType]
      /\ acall'[c].kind = "none"
      /\ \A d \in AccountCalls \ {c} : acall'[d] = acall[d]
  BY <1>1, ReturnTypes DEF Undo
<1>4. AccountTypeOK'
  BY <1>1, <1>2, <1>3 DEF AccountTypeOK
<1>5. \A s \in SessionIds : session[s].owner \in AccountIds
  BY <1>1 DEF AccountTypeOK, SessionType
<1>6. FreshAccounts' /\ OpenSinceReset'
  BY <1>1, <1>2, <1>5 DEF AccountInv, FreshAccounts, OpenSinceReset, Live
<1>7. UsedTokensRemembered' /\ OrphansUntold'
  BY <1>1, <1>2 DEF AccountInv, AccountTypeOK, UsedTokensRemembered, OrphansUntold
<1>8. \A d \in AccountCalls \ {c} : acall[d].account \in AccountIds
        /\ (acall[d].kind \in Unfinished => acall[d].account # a)
  BY <1>1 DEF AccountInv, OneRegistration, Undo, Unfinished, AccountTypeOK, CallType
<1>9. AccountCallsOK'
  <2> SUFFICES ASSUME NEW d \in AccountCalls
               PROVE  AccountCallOK(d)'
    BY DEF AccountCallsOK
  <2>1. CASE d = c
    BY <2>1, <1>3 DEF AccountCallOK, Unfinished
  <2>2. CASE d # c
    <3>1. account'[acall[d].account].state = "unused" => account[acall[d].account].state = "unused"
      BY <2>2, <1>1, <1>2, <1>8 DEF Live
    <3> QED
      BY <2>2, <3>1, <1>1, <1>2, <1>3, <1>8 DEF AccountInv, AccountCallsOK, AccountCallOK, Live
  <2> QED
    BY <2>1, <2>2
<1>10. OneRegistration'
  BY <1>3 DEF AccountInv, OneRegistration, Unfinished
<1> QED
  BY <1>4, <1>6, <1>7, <1>9, <1>10 DEF AccountInv

LEMMA HealStep ==
  ASSUME AccountInv, NEW c \in AccountCalls, Heal(c)
  PROVE  AccountInv'
<1> DEFINE a == acall[c].account
<1>1. /\ AccountTypeOK /\ a \in AccountIds /\ account[a].state # "unused"
      /\ home' = home \cup {a} /\ (a \notin home => a \in untold')
      /\ untold \subseteq untold' /\ untold' \subseteq untold \cup {a}
      /\ UNCHANGED <<account, session, history, link, issued>>
  BY DEF AccountInv, Heal, AccountTypeOK, CallType, AccountCallsOK, AccountCallOK
<1>2. /\ acall' \in [AccountCalls -> CallType]
      /\ acall'[c].kind = "none"
      /\ \A d \in AccountCalls \ {c} : acall'[d] = acall[d]
  BY <1>1, ReturnTypes DEF Heal
<1>3. AccountTypeOK'
  BY <1>1, <1>2 DEF AccountTypeOK
<1>4. FreshAccounts' /\ OpenSinceReset' /\ UsedTokensRemembered' /\ OrphansUntold'
  BY <1>1 DEF AccountInv, FreshAccounts, OpenSinceReset, UsedTokensRemembered, OrphansUntold
<1>5. AccountCallsOK'
  <2> SUFFICES ASSUME NEW d \in AccountCalls
               PROVE  AccountCallOK(d)'
    BY DEF AccountCallsOK
  <2>1. CASE d = c
    BY <2>1, <1>2 DEF AccountCallOK, Unfinished
  <2>2. CASE d # c
    BY <2>2, <1>1, <1>2 DEF AccountInv, AccountCallsOK, AccountCallOK, Live
  <2> QED
    BY <2>1, <2>2
<1>6. OneRegistration'
  BY <1>2 DEF AccountInv, OneRegistration, Unfinished
<1> QED
  BY <1>3, <1>4, <1>5, <1>6 DEF AccountInv
-----------------------------------------------------------------------------
(* Steps of sessions *)

LEMMA LoginStep ==
  ASSUME AccountInv, NEW c \in AccountCalls, NEW s \in SessionIds, LoginInserts(c, s)
  PROVE  AccountInv'
<1> DEFINE a == acall[c].account
           w == [state |-> "open", owner |-> a, token |-> 0, born |-> account[a].password,
                 lapsed |-> FALSE]
<1>1. /\ AccountTypeOK /\ a \in AccountIds /\ account[a].state # "unused"
      /\ UNCHANGED <<account, home, untold, history, link, issued>>
      /\ session[s].token = 0
  BY DEF AccountInv, LoginInserts, AccountTypeOK, CallType, AccountCallsOK, AccountCallOK, FreshAccounts
<1>2. w \in SessionType
  BY <1>1 DEF AccountTypeOK, AccountType, SessionType
<1>3. /\ session' \in [SessionIds -> SessionType]
      /\ session'[s] = w
      /\ \A t \in SessionIds \ {s} : session'[t] = session[t]
  BY <1>1, <1>2 DEF LoginInserts, AccountTypeOK
<1>4. /\ acall' \in [AccountCalls -> CallType]
      /\ acall'[c].kind = "none"
      /\ \A d \in AccountCalls \ {c} : acall'[d] = acall[d]
  BY <1>1, ReturnTypes DEF LoginInserts
<1>5. AccountTypeOK'
  BY <1>1, <1>3, <1>4 DEF AccountTypeOK
<1>6. FreshAccounts' /\ OpenSinceReset'
  BY <1>1, <1>3 DEF AccountInv, FreshAccounts, OpenSinceReset
<1>7. \A t \in SessionIds : session'[t].token = session[t].token
  BY <1>1, <1>3
<1>8. UsedTokensRemembered' /\ OrphansUntold'
  BY <1>1, <1>7 DEF AccountInv, UsedTokensRemembered, OrphansUntold
<1>9. AccountCallsOK'
  <2> SUFFICES ASSUME NEW d \in AccountCalls
               PROVE  AccountCallOK(d)'
    BY DEF AccountCallsOK
  <2>1. CASE d = c
    BY <2>1, <1>4 DEF AccountCallOK, Unfinished
  <2>2. CASE d # c
    BY <2>2, <1>1, <1>4 DEF AccountInv, AccountCallsOK, AccountCallOK, Live
  <2> QED
    BY <2>1, <2>2
<1>10. OneRegistration'
  BY <1>4 DEF AccountInv, OneRegistration, Unfinished
<1> QED
  BY <1>5, <1>6, <1>8, <1>9, <1>10 DEF AccountInv

\* What holds of accounts and requests holds while they and the organizations stay as they are.
LEMMA SameAccounts ==
  ASSUME AccountInv, UNCHANGED <<account, home, untold, acall>>
  PROVE  AccountCallsOK' /\ OneRegistration' /\ OrphansUntold'
BY DEF AccountInv, AccountCallsOK, AccountCallOK, Live, OneRegistration, OrphansUntold

LEMMA ExchangeStep ==
  ASSUME AccountInv, NEW s \in SessionIds, NEW k \in 0 .. session[s].token, Exchange(s, k)
  PROVE  AccountInv'
<1>1. /\ AccountTypeOK /\ session[s] \in SessionType /\ session[s].state = "open"
      /\ k = session[s].token /\ k \in Nat /\ k < MaxToken /\ MaxToken \in Nat
      /\ history' = history \cup {<<s, k>>}
      /\ UNCHANGED <<account, home, untold, link, issued, acall>>
  BY AccountAssumption
  DEF AccountInv, Exchange, Current, Usable, Remembers, AccountTypeOK, SessionType
<1>2. /\ session' \in [SessionIds -> SessionType]
      /\ session'[s] = [session[s] EXCEPT !.token = k + 1]
      /\ \A t \in SessionIds \ {s} : session'[t] = session[t]
  BY <1>1 DEF Exchange, AccountTypeOK, SessionType
<1>3. AccountTypeOK'
  BY <1>1, <1>2 DEF AccountTypeOK
<1>4. /\ session'[s].token = k + 1 /\ session'[s].state = "open"
      /\ session'[s].owner = session[s].owner /\ session'[s].born = session[s].born
  BY <1>1, <1>2 DEF SessionType
<1>5. FreshAccounts'
  BY <1>1, <1>2, <1>4 DEF AccountInv, FreshAccounts
<1>6. OpenSinceReset'
  <2> SUFFICES ASSUME NEW t \in SessionIds, session'[t].state = "open"
               PROVE  session'[t].born = account[session'[t].owner].password
    BY <1>1 DEF OpenSinceReset
  <2>1. session[t].state = "open" => session[t].born = account[session[t].owner].password
    BY DEF AccountInv, OpenSinceReset
  <2>2. CASE t = s
    BY <2>1, <2>2, <1>1, <1>4
  <2>3. CASE t # s
    BY <2>1, <2>3, <1>2
  <2> QED
    BY <2>2, <2>3
<1>7. UsedTokensRemembered'
  <2> SUFFICES ASSUME NEW t \in SessionIds, NEW n \in 0 .. MaxToken
               PROVE  (<<t, n>> \in history') = (n < session'[t].token)
    BY DEF UsedTokensRemembered
  <2>1. (<<t, n>> \in history) = (n < session[t].token)
    BY DEF AccountInv, UsedTokensRemembered
  <2>2. CASE t # s
    BY <2>1, <2>2, <1>1, <1>2
  <2>3. CASE t = s
    <3>1. n \in Nat
      BY <1>1
    <3>2. (<<t, n>> \in history') = (n = k \/ n < k)
      BY <2>1, <2>3, <1>1
    <3> QED
      BY <2>3, <3>1, <3>2, <1>1, <1>4
  <2> QED
    BY <2>2, <2>3
<1> QED
  BY <1>1, <1>3, <1>5, <1>6, <1>7, SameAccounts DEF AccountInv

\* A session ends or lapses.
LEMMA EndStep ==
  ASSUME AccountInv, NEW s \in SessionIds, NEW k, Reuse(s, k) \/ Logout(s, k) \/ Lapse(s)
  PROVE  AccountInv'
<1>1. /\ AccountTypeOK /\ session[s] \in SessionType
      /\ UNCHANGED <<account, home, untold, history, link, issued, acall>>
  BY DEF AccountInv, Reuse, Logout, Lapse, AccountTypeOK
<1>2. /\ session' \in [SessionIds -> SessionType]
      /\ session'[s].token = session[s].token /\ session'[s].owner = session[s].owner
      /\ session'[s].born = session[s].born
      /\ session'[s].state = "open" => session[s].state = "open"
      /\ session'[s].state = "unused" => session[s].state = "unused"
      /\ \A t \in SessionIds \ {s} : session'[t] = session[t]
  <2>1. CASE Reuse(s, k) \/ Logout(s, k)
    BY <2>1, <1>1 DEF Reuse, Logout, AccountTypeOK, SessionType
  <2>2. CASE Lapse(s)
    BY <2>2, <1>1 DEF Lapse, AccountTypeOK, SessionType
  <2> QED
    BY <2>1, <2>2
<1>3. AccountTypeOK'
  BY <1>1, <1>2 DEF AccountTypeOK
<1>4. \A t \in SessionIds : session'[t].token = session[t].token
  BY <1>2
<1>5. FreshAccounts' /\ OpenSinceReset'
  BY <1>1, <1>2 DEF AccountInv, FreshAccounts, OpenSinceReset
<1>6. UsedTokensRemembered'
  BY <1>1, <1>4 DEF AccountInv, UsedTokensRemembered
<1> QED
  BY <1>1, <1>3, <1>5, <1>6, SameAccounts DEF AccountInv
-----------------------------------------------------------------------------
(* Steps of links *)

\* A link changes the row of an account, that stays what it is.
LEMMA VerifyStep ==
  ASSUME AccountInv, NEW l \in link, Verify(l)
  PROVE  AccountInv'
<1> DEFINE a == l.account
<1>1. /\ AccountTypeOK /\ a \in AccountIds /\ account[a] \in AccountType /\ link' \subseteq Links
      /\ UNCHANGED <<home, untold, session, history, issued, acall>>
  BY DEF AccountInv, Verify, AccountTypeOK, Links
<1>2. /\ account' \in [AccountIds -> AccountType]
      /\ \A b \in AccountIds : /\ account'[b].state = account[b].state
                               /\ account'[b].password = account[b].password
  BY <1>1 DEF Verify, AccountTypeOK, AccountType
<1>3. AccountTypeOK'
  BY <1>1, <1>2 DEF AccountTypeOK
<1>4. /\ \A s \in SessionIds : session[s].owner \in AccountIds
      /\ \A c \in AccountCalls : acall[c].account \in AccountIds
  BY <1>1 DEF AccountTypeOK, SessionType, CallType
<1>5. FreshAccounts' /\ OpenSinceReset' /\ UsedTokensRemembered' /\ OrphansUntold'
  BY <1>1, <1>2, <1>4
  DEF AccountInv, FreshAccounts, OpenSinceReset, UsedTokensRemembered, OrphansUntold, AccountTypeOK
<1>6. AccountCallsOK' /\ OneRegistration'
  BY <1>1, <1>2, <1>4 DEF AccountInv, AccountCallsOK, AccountCallOK, Live, OneRegistration
<1> QED
  BY <1>3, <1>5, <1>6 DEF AccountInv

LEMMA ResetStep ==
  ASSUME AccountInv, NEW l \in link, Reset(l)
  PROVE  AccountInv'
<1> DEFINE a == l.account
<1>1. /\ AccountTypeOK /\ a \in AccountIds /\ account[a] \in AccountType /\ link' \subseteq Links
      /\ UNCHANGED <<home, untold, history, issued, acall>>
  BY DEF AccountInv, Reset, AccountTypeOK, Links
<1>2. /\ account' \in [AccountIds -> AccountType]
      /\ \A b \in AccountIds : /\ account'[b].state = account[b].state
                               /\ b # a => account'[b] = account[b]
  BY <1>1 DEF Reset, AccountTypeOK, AccountType
<1>3. /\ \A s \in SessionIds : session[s] \in SessionType /\ session[s].owner \in AccountIds
      /\ \A c \in AccountCalls : acall[c].account \in AccountIds
  BY <1>1 DEF AccountTypeOK, SessionType, CallType
<1>4. session' = [s \in SessionIds |->
         IF session[s].state = "open" /\ session[s].owner = a
         THEN [session[s] EXCEPT !.state = "revoked"] ELSE session[s]]
  BY DEF Reset, EndedBy
<1>5. session' \in [SessionIds -> SessionType]
  BY <1>3, <1>4 DEF SessionType
<1>6. \A s \in SessionIds :
        /\ session'[s].token = session[s].token /\ session'[s].owner = session[s].owner
        /\ session'[s].born = session[s].born
        /\ session'[s].state = "unused" => session[s].state = "unused"
        /\ session'[s].state = "open" => session[s].state = "open" /\ session[s].owner # a
  BY <1>3, <1>4 DEF SessionType
<1>7. AccountTypeOK'
  BY <1>1, <1>2, <1>5 DEF AccountTypeOK
<1>8. FreshAccounts'
  BY <1>1, <1>2, <1>3, <1>6 DEF AccountInv, FreshAccounts
<1>9. OpenSinceReset'
  BY <1>2, <1>3, <1>6 DEF AccountInv, OpenSinceReset
<1>10. UsedTokensRemembered'
  BY <1>1, <1>6 DEF AccountInv, UsedTokensRemembered
<1>11. OrphansUntold'
  BY <1>1, <1>2 DEF AccountInv, OrphansUntold, AccountTypeOK
<1>12. AccountCallsOK' /\ OneRegistration'
  BY <1>1, <1>2, <1>3 DEF AccountInv, AccountCallsOK, AccountCallOK, Live, OneRegistration
<1> QED
  BY <1>7, <1>8, <1>9, <1>10, <1>11, <1>12 DEF AccountInv

LEMMA AccountStutterStep ==
  ASSUME AccountInv, UNCHANGED accountVars
  PROVE  AccountInv'
<1>1. UNCHANGED <<account, home, untold, session, history, link, issued, acall>>
  BY DEF accountVars
<1>2. AccountTypeOK' /\ FreshAccounts' /\ UsedTokensRemembered' /\ OpenSinceReset'
  BY <1>1 DEF AccountInv, AccountTypeOK, FreshAccounts, UsedTokensRemembered, OpenSinceReset
<1> QED
  BY <1>1, <1>2, SameAccounts DEF AccountInv

LEMMA AccountStep == AccountInv /\ [AccountNext]_accountVars => AccountInv'
<1> SUFFICES ASSUME AccountInv, [AccountNext]_accountVars
             PROVE  AccountInv'
  OBVIOUS
<1>1. CASE UNCHANGED accountVars
  BY <1>1, AccountStutterStep
<1>2. ASSUME NEW c \in AccountCalls, NEW a \in AccountIds,
             Register(c, a) \/ Provision(c) \/ ProvisionUnheard(c) \/ Undo(c) \/ Heal(c)
      PROVE  AccountInv'
  BY <1>2, RegisterStep, ProvisionStep, UnheardStep, UndoStep, HealStep
<1>3. ASSUME NEW c \in AccountCalls, NEW s \in SessionIds, LoginInserts(c, s)
      PROVE  AccountInv'
  BY <1>3, LoginStep
<1>4. ASSUME NEW c \in AccountCalls,
             \/ \E a \in AccountIds : LoginChecks(c, a) \/ RequestLink(c, a)
             \/ \E s \in SessionIds : Me(c, s)
             \/ ProvisionFails(c) \/ IssueLink(c) \/ CallLost(c)
      PROVE  AccountInv'
  BY <1>4, CallsStep
<1> QED
  <2>1. AccountIds # {}
    BY AccountAssumption
  <2> QED
    BY <1>1, <1>2, <1>3, <1>4, <2>1, ExchangeStep, EndStep, LinkStep, VerifyStep, ResetStep
    DEF AccountNext
-----------------------------------------------------------------------------
(* Theorems *)

\* The inductive invariant holds in every reachable state.
THEOREM AccountInvariance == AccountSpec => []AccountInv
<1>1. AccountInit => AccountInv
  BY AccountInitInv
<1>2. AccountInv /\ [AccountNext]_accountVars => AccountInv'
  BY AccountStep
<1> QED
  BY <1>1, <1>2, PTL DEF AccountSpec

\* The rows and the requests of accounts are well formed in every reachable state.
THEOREM AccountTypes == AccountSpec => []AccountTypeOK
<1>1. AccountInv => AccountTypeOK
  BY DEF AccountInv
<1> QED
  BY <1>1, AccountInvariance, PTL

\* A refresh token is exchanged once, however requests present the tokens of a session (refresh).
THEOREM TokensAreUsedOnce == AccountSpec => []UsedTokensRemembered
<1>1. AccountInv => UsedTokensRemembered
  BY DEF AccountInv
<1> QED
  BY <1>1, AccountInvariance, PTL

\* A session is inserted with the password its account has, or ended by the reset that changes it
\* (login, consume_email_token).
THEOREM SessionsAreFromLastReset == AccountSpec => []OpenSinceReset
<1>1. AccountInv => OpenSinceReset
  BY DEF AccountInv
<1> QED
  BY <1>1, AccountInvariance, PTL

\* A registration that is undone leaves an organization behind only if it was not told of it: GET
\* /auth/me created it, or an acknowledgement was lost (register, me).
THEOREM OrphansAreUntold == AccountSpec => []OrphansUntold
<1>1. AccountInv => OrphansUntold
  BY DEF AccountInv
<1> QED
  BY <1>1, AccountInvariance, PTL

\* No request brings a revoked session back or rotates its token.
THEOREM RevokedStayRevoked == AccountSpec => RevokedForGood
<1> DEFINE Kept == \A s \in SessionIds : session[s].state = "revoked" =>
                     session'[s].state = "revoked" /\ session'[s].token = session[s].token
<1>1. AccountTypeOK /\ [AccountNext]_accountVars => [Kept]_accountVars
  <2> SUFFICES ASSUME AccountTypeOK, AccountNext, NEW s \in SessionIds,
                      session[s].state = "revoked"
               PROVE  session'[s].state = "revoked" /\ session'[s].token = session[s].token
    OBVIOUS
  <2> USE DEF AccountTypeOK, SessionType
  <2>1. CASE session' = session
    BY <2>1
  <2>2. ASSUME NEW c \in AccountCalls, NEW t \in SessionIds, LoginInserts(c, t)
        PROVE  session'[s] = session[s]
    BY <2>2 DEF LoginInserts
  <2>3. ASSUME NEW t \in SessionIds, Lapse(t)
        PROVE  session'[s].state = "revoked" /\ session'[s].token = session[s].token
    BY <2>3 DEF Lapse
  <2>4. ASSUME NEW t \in SessionIds, NEW k, Exchange(t, k)
        PROVE  session'[s] = session[s]
    BY <2>4 DEF Exchange, Usable
  <2>5. ASSUME NEW t \in SessionIds, NEW k, Reuse(t, k) \/ Logout(t, k)
        PROVE  session'[s].state = "revoked" /\ session'[s].token = session[s].token
    BY <2>5 DEF Reuse, Logout
  <2>6. ASSUME NEW l \in link, Reset(l)
        PROVE  session'[s] = session[s]
    BY <2>6 DEF Reset, EndedBy
  <2>7. ASSUME NEW c \in AccountCalls,
               \/ \E a \in AccountIds : Register(c, a) \/ LoginChecks(c, a) \/ RequestLink(c, a)
               \/ \E t \in SessionIds : Me(c, t)
               \/ Provision(c) \/ ProvisionFails(c) \/ ProvisionUnheard(c) \/ Undo(c)
               \/ Heal(c) \/ IssueLink(c) \/ CallLost(c)
        PROVE  session' = session
    BY <2>7 DEF Register, LoginChecks, RequestLink, Provision, ProvisionFails,
                ProvisionUnheard, Undo, Heal, IssueLink, CallLost, Me
  <2>8. ASSUME NEW l \in link, Verify(l) \/ LinkLapses(l)
        PROVE  session' = session
    BY <2>8 DEF Verify, LinkLapses
  <2> QED
    BY <2>1, <2>2, <2>3, <2>4, <2>5, <2>6, <2>7, <2>8 DEF AccountNext
<1> QED
  BY <1>1, AccountTypes, PTL DEF AccountSpec, RevokedForGood

(***************************************************************************)
(* Organizations and invitations                                           *)
(***************************************************************************)
(* The inductive invariant *)

\* Only organizations that exist have members and invitations.
Rooted ==
  \A o \in Orgs, u \in Users :
    member[<<o, u>>] # "none" \/ invitation[<<o, u>>].state # "none" => o \in founded

OwnersRemembered == \A m \in Orgs \X Users : member[m] = "owner" => m \in owned

\* What a request has established, and what it still holds.
OrgCallOK(c) ==
  LET q == ocall[c] IN
  /\ q.kind # "none" => q.org \in founded /\ q.actor \in Users /\ q.target \in Users
  /\ q.kind = "invite" => q.role \in Roles
  /\ q.kind = "look" => (q.actorRole = "owner" => <<q.org, q.actor>> \in owned)
  /\ q.kind = "look" => q.remove = (q.role = "none" /\ q.level = "none")
  /\ q.kind = "clear" => q.level \in Clearances
  /\ q.kind \in {"change", "locked"} => q.remove = (q.role = "none")
  /\ q.kind \in {"invite", "change", "locked"} =>
       (q.role \in Privileged => <<q.org, q.actor>> \in owned)
  /\ q.kind = "locked" => member[<<q.org, q.target>>] # "none"

OrgCallsOK == \A c \in OrgCalls : OrgCallOK(c)

\* A membership is locked by one request.
LocksExclude ==
  \A c, d \in OrgCalls :
    /\ ocall[c].kind = "locked" /\ ocall[d].kind = "locked"
    /\ ocall[c].org = ocall[d].org /\ ocall[c].target = ocall[d].target
    => c = d

\* An invitation that was accepted stays so when the member is removed.
ExpelledOut == \A m \in expelled : member[m] = "none" /\ invitation[m].state = "accepted"

\* In an organization without a race, one request at most is about to take an owner away, and it
\* leaves another one.
Leaves(c) ==
  \E u \in Users : u # ocall[c].target /\ member[<<ocall[c].org, u>>] = "owner"

OneTakesOwner ==
  /\ \A c \in OrgCalls : \A o \in Orgs \ raced : ChangesOwners(c, o) => Leaves(c)
  /\ \A c, d \in OrgCalls : \A o \in Orgs \ raced :
       ChangesOwners(c, o) /\ ChangesOwners(d, o) => c = d

OrgInv ==
  /\ OrgTypeOK
  /\ Rooted
  /\ OwnersRemembered
  /\ OrgCallsOK
  /\ LocksExclude
  /\ ExpelledOut
  /\ PrivilegeFromOwner
  /\ OneTakesOwner
  /\ OwnerKept
-----------------------------------------------------------------------------
(* OrgValues *)

LEMMA OrgValues ==
  /\ AnOrg \in Orgs
  /\ NoOrgCall \in OrgCallType
  /\ NoInvitation \in InvitationType
<1>1. AnOrg \in Orgs
  BY OrgAssumption DEF AnOrg
<1> QED
  BY <1>1 DEF NoOrgCall, OrgCallType, CallKinds, Roles, NoInvitation, InvitationType

\* Only an owner may do what is asked of owners.
LEMMA OnlyOwner ==
  ASSUME NEW r \in Roles \cup {"none"}, RoleAllows(r, "owner")
  PROVE  r = "owner"
BY DEF RoleAllows, Rank, Roles

\* One who is allowed anything is a member.
LEMMA AllowedIsMember ==
  ASSUME NEW r, NEW q, RoleAllows(r, q)
  PROVE  r # "none"
BY DEF RoleAllows

LEMMA TypeStep == OrgTypeOK /\ OrgCallsOK /\ [OrgNext]_orgVars => OrgTypeOK'
<1> SUFFICES ASSUME OrgTypeOK, OrgCallsOK, [OrgNext]_orgVars
             PROVE  OrgTypeOK'
  OBVIOUS
<1> USE DEF OrgTypeOK
<1>1. CASE UNCHANGED orgVars
  BY <1>1 DEF orgVars
<1>2. ASSUME NEW o \in Orgs, NEW u \in Users, CreateOrganization(o, u)
      PROVE  OrgTypeOK'
  BY <1>2 DEF CreateOrganization, Roles
<1>3. ASSUME NEW o \in Orgs, NEW u \in Users, Accept(<<o, u>>)
      PROVE  OrgTypeOK'
  <2>1. <<o, u>> \in Orgs \X Users /\ invitation[<<o, u>>] \in InvitationType
    OBVIOUS
  <2>2. invitation' \in [Orgs \X Users -> InvitationType]
    BY <1>3, <2>1 DEF Accept, InvitationType
  <2>3. member' \in [Orgs \X Users -> Roles \cup {"none"}]
    BY <1>3, <2>1 DEF Accept, InvitationType
  <2>4. clearance' \in [Orgs \X Users -> Clearances]
    BY <1>3, <2>1, OrgAssumption DEF Accept
  <2> QED
    BY <1>3, <2>1, <2>2, <2>3, <2>4 DEF Accept, Given
<1>4. ASSUME NEW o \in Orgs, NEW u \in Users, InvitationLapses(<<o, u>>)
      PROVE  OrgTypeOK'
  BY <1>4, OrgValues DEF InvitationLapses
<1>5. ASSUME NEW c \in OrgCalls, NEW o \in Orgs, NEW u \in Users, NEW t \in Users,
             NEW r \in Invited, AskInvite(c, o, u, t, r)
      PROVE  OrgTypeOK'
  <2>1. ocall'[c] \in OrgCallType
    BY <1>5, OrgValues, OrgAssumption DEF AskInvite, OrgCallType, CallKinds, Roles
  <2> QED
    BY <1>5, <2>1 DEF AskInvite
<1>6. ASSUME NEW c \in OrgCalls, NEW o \in Orgs, NEW u \in Users, NEW t \in Users,
             NEW body \in Changes, Ask(c, o, u, t, body)
      PROVE  OrgTypeOK'
  <2>1. member[<<o, u>>] \in Roles
    BY <1>6, AllowedIsMember DEF Ask
  <2>2. /\ body.remove \in BOOLEAN
        /\ body.role \in Roles \cup {"none"}
        /\ body.level \in Clearances \cup {"none"}
    BY OrgAssumption DEF Roles
  <2>3. ocall'[c] \in OrgCallType
    BY <1>6, <2>1, <2>2 DEF Ask, OrgCallType, CallKinds
  <2> QED
    BY <1>6, <2>3 DEF Ask
<1>7. ASSUME NEW c \in OrgCalls, Invite(c)
      PROVE  OrgTypeOK'
  <2> DEFINE q == ocall[c]
             i == [state |-> "pending", role |-> q.role, by |-> q.actor]
  <2>1. q \in OrgCallType
    OBVIOUS
  <2>2. i \in InvitationType
    BY <1>7, <2>1 DEF Invite, OrgCallsOK, OrgCallOK, OrgCallType, InvitationType
  <2>3. invitation' \in [Orgs \X Users -> InvitationType]
    BY <1>7, <2>2 DEF Invite
  <2> QED
    BY <1>7, <2>3, OrgValues DEF Invite, Done
<1>8. ASSUME NEW c \in OrgCalls, Look(c)
      PROVE  OrgTypeOK'
  <2>1. \A k \in CallKinds : [ocall[c] EXCEPT !.kind = k, !.actorRole = "viewer"] \in OrgCallType
    BY DEF OrgCallType, Roles
  <2> QED
    BY <1>8, <2>1, OrgValues DEF Look, Done, CallKinds
<1>9. ASSUME NEW c \in OrgCalls, LockAndCount(c)
      PROVE  OrgTypeOK'
  <2>1. [ocall[c] EXCEPT !.kind = "locked"] \in OrgCallType
    BY DEF OrgCallType, CallKinds
  <2>2. ocall[c].org \in Orgs
    BY DEF OrgCallType
  <2> QED
    BY <1>9, <2>1, <2>2, OrgValues DEF LockAndCount, Done
<1>10. ASSUME NEW c \in OrgCalls, Commit(c)
       PROVE  OrgTypeOK'
  <2> DEFINE m == <<ocall[c].org, ocall[c].target>>
  <2>1. [ocall[c] EXCEPT !.kind = "clear"] \in OrgCallType
    BY DEF OrgCallType, CallKinds
  <2>2. m \in Orgs \X Users /\ ocall[c].role \in Roles \cup {"none"}
    BY <1>10 DEF Commit, OrgCallsOK, OrgCallOK, OrgCallType
  <2>3. ocall' \in [OrgCalls -> OrgCallType]
    BY <1>10, <2>1, OrgValues DEF Commit, Done
  <2>4. member' \in [Orgs \X Users -> Roles \cup {"none"}]
    BY <1>10, <2>2 DEF Commit
  <2>5. expelled' \subseteq Orgs \X Users
    BY <1>10, <2>2 DEF Commit
  <2>6. owned' \subseteq Orgs \X Users /\ usurped' \subseteq Orgs \X Users
    BY <1>10, <2>2 DEF Commit, Given
  <2> QED
    BY <1>10, <2>3, <2>4, <2>5, <2>6 DEF Commit
<1>11. ASSUME NEW c \in OrgCalls, SetClearance(c)
       PROVE  OrgTypeOK'
  <2> DEFINE m == <<ocall[c].org, ocall[c].target>>
  <2>1. \A l \in Clearances : [clearance EXCEPT ![m] = l] \in [Orgs \X Users -> Clearances]
    OBVIOUS
  <2>2. clearance' \in [Orgs \X Users -> Clearances]
    BY <1>11, <2>1 DEF SetClearance, OrgCallsOK, OrgCallOK
  <2> QED
    BY <1>11, <2>2, OrgValues DEF SetClearance, Done
<1>12. ASSUME NEW c \in OrgCalls, OrgCallLost(c)
       PROVE  OrgTypeOK'
  BY <1>12, OrgValues DEF OrgCallLost, Done
<1> QED
  BY <1>1, <1>2, <1>3, <1>4, <1>5, <1>6, <1>7, <1>8, <1>9, <1>10, <1>11, <1>12 DEF OrgNext
-----------------------------------------------------------------------------
(* OrgInv holds at the beginning *)

LEMMA OrgInitInv == OrgInit => OrgInv
<1> SUFFICES ASSUME OrgInit
             PROVE  OrgInv
  OBVIOUS
<1> USE DEF OrgInit
<1>1. OrgTypeOK
  BY OrgValues, OrgAssumption DEF OrgTypeOK
<1>2. \A c \in OrgCalls : ocall[c].kind = "none"
  BY DEF NoOrgCall
<1>3. \A m \in Orgs \X Users : member[m] = "none" /\ invitation[m].state = "none"
  BY DEF NoInvitation
<1>4. Rooted /\ OwnersRemembered /\ PrivilegeFromOwner /\ ExpelledOut /\ OwnerKept
  BY <1>3 DEF Rooted, OwnersRemembered, PrivilegeFromOwner, ExpelledOut, OwnerKept
<1>5. OrgCallsOK /\ LocksExclude /\ OneTakesOwner
  BY <1>2 DEF OrgCallsOK, OrgCallOK, LocksExclude, OneTakesOwner, ChangesOwners
<1> QED
  BY <1>1, <1>4, <1>5 DEF OrgInv
-----------------------------------------------------------------------------
(* Steps *)

\* A request that goes on, or ends, without a lock disturbs no other.
LEMMA OneOrgCall ==
  ASSUME OrgInv, NEW c \in OrgCalls, NEW w,
         ocall' = [ocall EXCEPT ![c] = w], w.kind # "locked", OrgCallOK(c)',
         UNCHANGED <<member, founded, owned, raced>>
  PROVE  OrgCallsOK' /\ LocksExclude' /\ OneTakesOwner'
<1>1. /\ ocall'[c] = w
      /\ \A d \in OrgCalls \ {c} : ocall'[d] = ocall[d]
      /\ \A d \in OrgCalls : ocall'[d].kind = "locked" => ocall'[d] = ocall[d]
  BY DEF OrgInv, OrgTypeOK
<1>2. OrgCallsOK'
  <2> SUFFICES ASSUME NEW d \in OrgCalls
               PROVE  OrgCallOK(d)'
    BY DEF OrgCallsOK
  <2>1. CASE d # c
    BY <2>1, <1>1 DEF OrgInv, OrgCallsOK, OrgCallOK
  <2> QED
    BY <2>1
<1>3. LocksExclude'
  BY <1>1 DEF OrgInv, LocksExclude
<1>4. \A d \in OrgCalls : \A o \in Orgs : ChangesOwners(d, o)' => ChangesOwners(d, o) /\ Leaves(d) = Leaves(d)'
  BY <1>1 DEF ChangesOwners, TakesOwner, Leaves
<1>5. OneTakesOwner'
  BY <1>4 DEF OrgInv, OneTakesOwner
<1> QED
  BY <1>2, <1>3, <1>5

\* What is said of members and invitations holds while they stay as they are.
LEMMA SameRows ==
  ASSUME OrgInv, UNCHANGED <<member, founded, invitation, owned, usurped, expelled>>,
         raced \subseteq raced'
  PROVE  Rooted' /\ OwnersRemembered' /\ ExpelledOut' /\ PrivilegeFromOwner' /\ OwnerKept'
BY DEF OrgInv, Rooted, OwnersRemembered, ExpelledOut, PrivilegeFromOwner, OwnerKept, Owners

\* A request that is done establishes nothing.
LEMMA DoneOK ==
  ASSUME NEW c \in OrgCalls, OrgTypeOK, Done(c)
  PROVE  ocall' = [ocall EXCEPT ![c] = NoOrgCall] /\ NoOrgCall.kind # "locked" /\ OrgCallOK(c)'
<1>1. ocall'[c] = NoOrgCall
  BY DEF Done, OrgTypeOK
<1> QED
  BY <1>1 DEF Done, OrgCallOK, NoOrgCall

LEMMA CreateStep ==
  ASSUME OrgInv, OrgTypeOK', NEW o \in Orgs, NEW u \in Users, CreateOrganization(o, u)
  PROVE  OrgInv'
<1> USE DEF OrgInv, OrgTypeOK, CreateOrganization
<1>1. \A m \in Orgs \X Users : m # <<o, u>> => member'[m] = member[m]
  OBVIOUS
<1>2. member'[<<o, u>>] = "owner"
  OBVIOUS
<1>3. \A v \in Users : member[<<o, v>>] = "none" /\ invitation[<<o, v>>].state = "none"
  BY DEF Rooted
<1>4. Rooted' /\ OwnersRemembered'
  BY <1>1, <1>2 DEF Rooted, OwnersRemembered
<1>5. \A c \in OrgCalls : ocall[c].kind # "none" => ocall[c].org # o
  BY DEF OrgCallsOK, OrgCallOK
<1>6. \A p \in Orgs, v \in Users : p # o => member'[<<p, v>>] = member[<<p, v>>]
  BY <1>1
<1>7. OrgCallsOK'
  <2> SUFFICES ASSUME NEW c \in OrgCalls
               PROVE  OrgCallOK(c)'
    BY DEF OrgCallsOK
  <2>1. ocall'[c] = ocall[c] /\ OrgCallOK(c) /\ founded \subseteq founded' /\ owned \subseteq owned'
    BY DEF OrgCallsOK
  <2>2. ocall[c].kind = "locked" =>
          member'[<<ocall[c].org, ocall[c].target>>] = member[<<ocall[c].org, ocall[c].target>>]
    BY <2>1, <1>5, <1>6 DEF OrgCallOK, OrgCallType
  <2> QED
    BY <2>1, <2>2 DEF OrgCallOK
<1>8. LocksExclude'
  BY DEF LocksExclude
<1>9. ExpelledOut'
  <2> SUFFICES ASSUME NEW m \in expelled
               PROVE  member'[m] = "none" /\ invitation'[m].state = "accepted"
    BY DEF ExpelledOut
  <2>1. m \in Orgs \X Users /\ member[m] = "none" /\ invitation[m].state = "accepted"
    BY DEF ExpelledOut
  <2>2. m # <<o, u>>
    BY <2>1, <1>3
  <2> QED
    BY <2>1, <2>2, <1>1
<1>10. PrivilegeFromOwner'
  BY DEF PrivilegeFromOwner
<1>11. OneTakesOwner'
  <2>1. \A c \in OrgCalls : \A p \in Orgs :
          ChangesOwners(c, p)' => ChangesOwners(c, p) /\ Leaves(c) = Leaves(c)'
    <3> SUFFICES ASSUME NEW c \in OrgCalls, NEW p \in Orgs, ChangesOwners(c, p)'
                 PROVE  ChangesOwners(c, p) /\ Leaves(c) = Leaves(c)'
      OBVIOUS
    <3>1. ocall[c].kind = "locked" /\ ocall[c].org = p /\ p # o /\ ocall[c].target \in Users
      BY <1>5 DEF ChangesOwners, OrgCallsOK, OrgCallOK
    <3> QED
      BY <3>1, <1>6 DEF ChangesOwners, TakesOwner, Leaves
  <2> QED
    BY <2>1 DEF OneTakesOwner
<1>12. OwnerKept'
  <2> SUFFICES ASSUME NEW p \in founded' \ raced'
               PROVE  \E v \in Users : member'[<<p, v>>] = "owner"
    BY DEF OwnerKept, Owners
  <2>1. CASE p = o
    BY <2>1, <1>2
  <2>2. CASE p # o
    BY <2>2, <1>6 DEF OwnerKept, Owners
  <2> QED
    BY <2>1, <2>2
<1> QED
  BY <1>4, <1>7, <1>8, <1>9, <1>10, <1>11, <1>12

LEMMA AskInviteStep ==
  ASSUME OrgInv, OrgTypeOK', NEW c \in OrgCalls, NEW o \in Orgs, NEW u \in Users, NEW t \in Users,
         NEW r \in Invited, AskInvite(c, o, u, t, r)
  PROVE  OrgInv'
<1> DEFINE w == [NoOrgCall EXCEPT !.kind = "invite", !.org = o, !.actor = u, !.target = t,
                                  !.role = r]
<1>1. member[<<o, u>>] \in Roles \cup {"none"} /\ r \in Roles
  BY OrgAssumption DEF OrgInv, OrgTypeOK, Roles
<1>2. member[<<o, u>>] # "none" /\ (r \in Privileged => member[<<o, u>>] = "owner")
  BY <1>1, OnlyOwner, AllowedIsMember DEF AskInvite, MayGrant
<1>3. o \in founded /\ (r \in Privileged => <<o, u>> \in owned)
  BY <1>2 DEF OrgInv, Rooted, OwnersRemembered
<1>4. ocall' = [ocall EXCEPT ![c] = w] /\ ocall'[c] = w
  BY DEF AskInvite, OrgInv, OrgTypeOK
<1>5. /\ w.kind = "invite" /\ w.org = o /\ w.actor = u /\ w.target = t /\ w.role = r
  BY DEF NoOrgCall
<1>6. OrgCallOK(c)'
  BY <1>1, <1>3, <1>4, <1>5 DEF OrgCallOK, AskInvite
<1>7. OrgCallsOK' /\ LocksExclude' /\ OneTakesOwner'
  BY <1>4, <1>5, <1>6, OneOrgCall DEF AskInvite
<1> QED
  BY <1>7, SameRows DEF OrgInv, AskInvite

LEMMA InviteStep ==
  ASSUME OrgInv, OrgTypeOK', NEW c \in OrgCalls, Invite(c)
  PROVE  OrgInv'
<1> DEFINE q == ocall[c]
           m == <<q.org, q.target>>
<1>1. OrgCallsOK' /\ LocksExclude' /\ OneTakesOwner'
  BY DoneOK, OneOrgCall DEF Invite, OrgInv
<1>2. m \in Orgs \X Users /\ q.org \in founded /\ q.actor \in Users
      /\ (q.role \in Privileged => <<q.org, q.actor>> \in owned)
  BY DEF Invite, OrgInv, OrgCallsOK, OrgCallOK, OrgTypeOK, OrgCallType
<1>3. \A n \in Orgs \X Users : n # m => invitation'[n] = invitation[n]
  BY DEF Invite, OrgInv, OrgTypeOK
<1>4. CASE ~Replaceable(m)
  BY <1>1, <1>4, SameRows DEF Invite, OrgInv
<1>5. CASE Replaceable(m)
  <2>1. invitation'[m] = [state |-> "pending", role |-> q.role, by |-> q.actor]
    BY <1>2, <1>5 DEF Invite, OrgInv, OrgTypeOK
  <2>2. Rooted'
    BY <1>2, <1>3 DEF Rooted, Invite, OrgInv
  <2>3. OwnersRemembered' /\ OwnerKept'
    BY DEF OwnersRemembered, OwnerKept, Owners, Invite, OrgInv
  <2>4. ExpelledOut'
    BY <1>3, <1>5 DEF ExpelledOut, Replaceable, Invite, OrgInv, OrgTypeOK
  <2>5. PrivilegeFromOwner'
    <3> SUFFICES ASSUME NEW o \in Orgs, NEW u \in Users,
                        invitation'[<<o, u>>].state = "pending",
                        invitation'[<<o, u>>].role \in Privileged
                 PROVE  <<o, invitation'[<<o, u>>].by>> \in owned
      BY DEF PrivilegeFromOwner, Invite, OrgInv
    <3>1. CASE <<o, u>> = m
      BY <3>1, <2>1, <1>2
    <3>2. CASE <<o, u>> # m
      BY <3>2, <1>3 DEF PrivilegeFromOwner, OrgInv
    <3> QED
      BY <3>1, <3>2
  <2> QED
    BY <1>1, <2>2, <2>3, <2>4, <2>5 DEF OrgInv
<1> QED
  BY <1>4, <1>5

LEMMA AcceptStep ==
  ASSUME OrgInv, OrgTypeOK', NEW o \in Orgs, NEW u \in Users, Accept(<<o, u>>)
  PROVE  OrgInv'
<1> DEFINE m == <<o, u>>
           i == invitation[m]
<1>1. m \in Orgs \X Users /\ i \in InvitationType /\ i.state = "pending" /\ member[m] = "none"
      /\ o \in founded
  BY DEF Accept, Acceptable, OrgInv, OrgTypeOK, Rooted
<1>2. /\ member'[m] = i.role /\ invitation'[m] = [i EXCEPT !.state = "accepted"]
      /\ \A n \in Orgs \X Users : n # m => member'[n] = member[n] /\ invitation'[n] = invitation[n]
  BY <1>1 DEF Accept, OrgInv, OrgTypeOK
<1>3. i.role \in Privileged => <<o, i.by>> \in owned
  BY <1>1 DEF OrgInv, PrivilegeFromOwner
<1>4. owned \subseteq owned' /\ (i.role = "owner" => m \in owned') /\ usurped' = usurped
  BY <1>3 DEF Accept, Given
<1>5. Rooted' /\ OwnersRemembered'
  BY <1>1, <1>2, <1>4 DEF OrgInv, Accept, Rooted, OwnersRemembered
<1>6. \A c \in OrgCalls : ocall[c].kind = "locked" =>
        /\ <<ocall[c].org, ocall[c].target>> # m
        /\ <<ocall[c].org, ocall[c].target>> \in Orgs \X Users
  BY <1>1 DEF OrgInv, OrgCallsOK, OrgCallOK, OrgTypeOK, OrgCallType
<1>7. OrgCallsOK'
  <2> SUFFICES ASSUME NEW c \in OrgCalls
               PROVE  OrgCallOK(c)'
    BY DEF OrgCallsOK
  <2>1. ocall'[c] = ocall[c] /\ OrgCallOK(c) /\ founded' = founded /\ owned \subseteq owned'
    BY <1>4 DEF OrgInv, OrgCallsOK, Accept
  <2>2. ocall[c].kind = "locked" =>
          member'[<<ocall[c].org, ocall[c].target>>] = member[<<ocall[c].org, ocall[c].target>>]
    BY <1>2, <1>6
  <2> QED
    BY <2>1, <2>2 DEF OrgCallOK
<1>8. LocksExclude'
  BY DEF LocksExclude, Accept, OrgInv
<1>9. ExpelledOut'
  BY <1>1, <1>2 DEF ExpelledOut, Accept, OrgInv, OrgTypeOK
<1>10. PrivilegeFromOwner'
  <2> SUFFICES ASSUME NEW p \in Orgs, NEW v \in Users,
                      invitation'[<<p, v>>].state = "pending",
                      invitation'[<<p, v>>].role \in Privileged
               PROVE  <<p, invitation'[<<p, v>>].by>> \in owned'
    BY <1>4 DEF PrivilegeFromOwner, OrgInv
  <2>1. <<p, v>> # m
    BY <1>1, <1>2 DEF InvitationType
  <2> QED
    BY <2>1, <1>2, <1>4 DEF PrivilegeFromOwner, OrgInv
<1>11. \A p \in Orgs, v \in Users : member[<<p, v>>] = "owner" => member'[<<p, v>>] = "owner"
  BY <1>1, <1>2
<1>12. OwnerKept'
  <2>1. founded' = founded /\ raced' = raced /\ founded \subseteq Orgs
    BY DEF Accept, OrgInv, OrgTypeOK
  <2> QED
    BY <1>11, <2>1 DEF OwnerKept, Owners, OrgInv
<1>13. OneTakesOwner'
  <2>1. \A c \in OrgCalls : \A p \in Orgs : ChangesOwners(c, p)' => ChangesOwners(c, p)
    BY <1>2, <1>6 DEF ChangesOwners, TakesOwner, Accept
  <2>2. \A c \in OrgCalls : Leaves(c) => Leaves(c)'
    BY <1>11 DEF Leaves, Accept, OrgInv, OrgTypeOK, OrgCallType
  <2> QED
    BY <2>1, <2>2 DEF OneTakesOwner, Accept, OrgInv
<1> QED
  BY <1>5, <1>7, <1>8, <1>9, <1>10, <1>12, <1>13 DEF OrgInv

LEMMA LapseStep ==
  ASSUME OrgInv, OrgTypeOK', NEW o \in Orgs, NEW u \in Users, InvitationLapses(<<o, u>>)
  PROVE  OrgInv'
<1> USE DEF OrgInv, InvitationLapses
<1>1. /\ invitation'[<<o, u>>] = NoInvitation
      /\ \A n \in Orgs \X Users : n # <<o, u>> => invitation'[n] = invitation[n]
  BY DEF OrgTypeOK
<1>2. Rooted' /\ OwnersRemembered' /\ OwnerKept'
  BY <1>1 DEF Rooted, OwnersRemembered, OwnerKept, Owners, NoInvitation
<1>3. \A c \in OrgCalls : OrgCallOK(c)'
  BY DEF OrgCallsOK, OrgCallOK
<1>4. OrgCallsOK' /\ LocksExclude' /\ OneTakesOwner'
  BY <1>3 DEF OrgCallsOK, LocksExclude, OneTakesOwner, ChangesOwners, TakesOwner, Leaves
<1>5. ExpelledOut'
  BY <1>1 DEF ExpelledOut, OrgTypeOK
<1>6. PrivilegeFromOwner'
  BY <1>1 DEF PrivilegeFromOwner, NoInvitation
<1> QED
  BY <1>2, <1>4, <1>5, <1>6

LEMMA AskMemberStep ==
  ASSUME OrgInv, OrgTypeOK', NEW c \in OrgCalls, NEW o \in Orgs, NEW u \in Users, NEW t \in Users,
         NEW body \in Changes, Ask(c, o, u, t, body)
  PROVE  OrgInv'
<1>1. member[<<o, u>>] # "none"
  BY AllowedIsMember DEF Ask
<1>2. o \in founded /\ (member[<<o, u>>] = "owner" => <<o, u>> \in owned)
  BY <1>1 DEF OrgInv, Rooted, OwnersRemembered
<1> DEFINE w == [kind |-> "look", org |-> o, actor |-> u, actorRole |-> member[<<o, u>>],
                 target |-> t, remove |-> body.remove, role |-> body.role, level |-> body.level]
<1>3. ocall' = [ocall EXCEPT ![c] = w] /\ ocall'[c] = w /\ w.kind # "locked"
  BY DEF Ask, OrgInv, OrgTypeOK
<1>4. body.remove = (body.role = "none" /\ body.level = "none")
  BY OrgAssumption
<1>5. OrgCallOK(c)'
  <2>1. w.kind = "look" /\ w.org = o /\ w.actor = u /\ w.target = t /\ w.remove = body.remove
        /\ w.role = body.role /\ w.level = body.level /\ w.actorRole = member[<<o, u>>]
    OBVIOUS
  <2>2. founded' = founded /\ owned' = owned /\ member' = member
    BY DEF Ask
  <2> HIDE DEF w
  <2> QED
    BY <1>2, <1>3, <1>4, <2>1, <2>2 DEF OrgCallOK
<1>6. OrgCallsOK' /\ LocksExclude' /\ OneTakesOwner'
  BY <1>3, <1>5, OneOrgCall DEF Ask
<1> QED
  BY <1>6, SameRows DEF OrgInv, Ask

LEMMA LookStep ==
  ASSUME OrgInv, OrgTypeOK', NEW c \in OrgCalls, Look(c)
  PROVE  OrgInv'
<1> DEFINE q == ocall[c]
           current == member[<<q.org, q.target>>]
           w == [q EXCEPT !.kind = IF q.remove \/ q.role # "none" THEN "change" ELSE "clear",
                          !.actorRole = "viewer"]
<1>1. q \in OrgCallType /\ OrgCallOK(c) /\ q.kind = "look"
  BY DEF Look, OrgInv, OrgCallsOK, OrgTypeOK
<1>2. CASE ~(current # "none" /\ MayChange(q, current))
  <2>1. OrgCallsOK' /\ LocksExclude' /\ OneTakesOwner'
    BY <1>2, DoneOK, OneOrgCall DEF Look, OrgInv
  <2> QED
    BY <2>1, SameRows DEF OrgInv, Look
<1>3. CASE current # "none" /\ MayChange(q, current)
  <2>1. ocall' = [ocall EXCEPT ![c] = w] /\ ocall'[c] = w
    BY <1>3 DEF Look, OrgInv, OrgTypeOK
  <2>2. /\ w.kind = IF q.remove \/ q.role # "none" THEN "change" ELSE "clear"
        /\ w.org = q.org /\ w.actor = q.actor /\ w.target = q.target
        /\ w.remove = q.remove /\ w.role = q.role /\ w.level = q.level
    BY <1>1 DEF OrgCallType
  <2>3. q.role \in Privileged => <<q.org, q.actor>> \in owned
    <3> SUFFICES ASSUME q.role \in Privileged
                 PROVE  q.actorRole = "owner"
      BY <1>1 DEF OrgCallOK
    <3>1. q.role # "none" /\ ~q.remove
      BY <1>1 DEF OrgCallOK, Privileged
    <3>2. RoleAllows(q.actorRole, "owner")
      BY <1>3, <3>1 DEF MayChange
    <3> QED
      BY <1>1, <3>2, OnlyOwner DEF OrgCallType
  <2>4. OrgCallOK(c)'
    <3>1. UNCHANGED <<founded, owned, member>>
      BY DEF Look
    <3>2. q.level \in Clearances \cup {"none"} /\ q.remove \in BOOLEAN
      BY <1>1 DEF OrgCallType
    <3> HIDE DEF w
    <3> QED
      BY <1>1, <2>1, <2>2, <2>3, <3>1, <3>2 DEF OrgCallOK
  <2>5. w.kind # "locked"
    BY <2>2
  <2> HIDE DEF w
  <2>6. OrgCallsOK' /\ LocksExclude' /\ OneTakesOwner'
    BY <2>1, <2>4, <2>5, OneOrgCall DEF Look
  <2> QED
    BY <2>6, SameRows DEF OrgInv, Look
<1> QED
  BY <1>2, <1>3

\* Who is not the only owner leaves another one.
LEMMA AnotherOwner ==
  ASSUME OrgTypeOK, NEW o \in Orgs, NEW t \in Users, member[<<o, t>>] = "owner", ~LastOwner(o)
  PROVE  \E u \in Users : u # t /\ member[<<o, u>>] = "owner"
<1> SUFFICES ASSUME \A u \in Users : u # t => member[<<o, u>>] # "owner"
             PROVE  FALSE
  OBVIOUS
<1>1. Owners(o) = {t}
  BY DEF Owners
<1>2. Cardinality(Owners(o)) = 1
  BY <1>1, FS_Singleton
<1> QED
  BY <1>2 DEF LastOwner

LEMMA LockStep ==
  ASSUME OrgInv, OrgTypeOK', NEW c \in OrgCalls, LockAndCount(c)
  PROVE  OrgInv'
<1> DEFINE q == ocall[c]
           m == <<q.org, q.target>>
           w == [q EXCEPT !.kind = "locked"]
<1>1. q \in OrgCallType /\ OrgCallOK(c) /\ q.kind = "change" /\ q.target \in Users /\ q.org \in Orgs
  BY DEF LockAndCount, OrgInv, OrgCallsOK, OrgTypeOK, OrgCallOK, OrgCallType
<1>2. CASE member[m] = "none" \/ (TakesOwner(q) /\ LastOwner(q.org))
  <2>1. OrgCallsOK' /\ LocksExclude' /\ OneTakesOwner'
    BY <1>2, DoneOK, OneOrgCall DEF LockAndCount, OrgInv
  <2> QED
    BY <1>2, <2>1, SameRows DEF OrgInv, LockAndCount
<1>3. CASE ~(member[m] = "none" \/ (TakesOwner(q) /\ LastOwner(q.org)))
  <2>1. ocall' = [ocall EXCEPT ![c] = w]
    BY <1>3 DEF LockAndCount
  <2>2. ocall'[c] = w /\ \A d \in OrgCalls \ {c} : ocall'[d] = ocall[d]
    BY <2>1 DEF OrgInv, OrgTypeOK
  <2>3. /\ w.kind = "locked"
        /\ w.org = q.org /\ w.actor = q.actor /\ w.target = q.target
        /\ w.remove = q.remove /\ w.role = q.role
    BY <1>1 DEF OrgCallType
  <2> HIDE DEF w
  <2>4. UNCHANGED <<member, clearance, founded, invitation, owned, usurped, expelled>>
    BY DEF LockAndCount
  <2>5. raced \subseteq raced'
    BY <1>3 DEF LockAndCount
  <2>6. OrgCallsOK'
    <3> SUFFICES ASSUME NEW d \in OrgCalls
                 PROVE  OrgCallOK(d)'
      BY DEF OrgCallsOK
    <3>1. CASE d = c
      BY <3>1, <1>1, <1>3, <2>2, <2>3, <2>4 DEF OrgCallOK
    <3>2. CASE d # c
      BY <3>2, <2>2, <2>4 DEF OrgCallOK, OrgInv, OrgCallsOK
    <3> QED
      BY <3>1, <3>2
  <2>7. LocksExclude'
    <3>1. \A d \in OrgCalls : ocall[d].kind = "locked" => <<ocall[d].org, ocall[d].target>> # m
      BY DEF LockAndCount, RowLocked
    <3>2. \A d \in OrgCalls \ {c} : ~(/\ ocall'[d].kind = "locked" /\ ocall'[d].org = ocall'[c].org
                                      /\ ocall'[d].target = ocall'[c].target)
      BY <3>1, <2>2, <2>3
    <3> QED
      BY <3>2, <2>2 DEF LocksExclude, OrgInv
  <2>8. OneTakesOwner'
    <3>1. \A d \in OrgCalls \ {c} : \A o \in Orgs : ChangesOwners(d, o)' = ChangesOwners(d, o)
      BY <2>2, <2>4 DEF ChangesOwners, TakesOwner
    <3>2. \A d \in OrgCalls \ {c} : Leaves(d)' = Leaves(d)
      BY <2>2, <2>4 DEF Leaves
    <3>3. \A o \in Orgs : ChangesOwners(c, o)' => o = q.org /\ TakesOwner(q)
      BY <2>2, <2>3, <2>4 DEF ChangesOwners, TakesOwner
    <3>4. TakesOwner(q) => Leaves(c)'
      <4> SUFFICES ASSUME TakesOwner(q)
                   PROVE  Leaves(c)'
        OBVIOUS
      <4>1. PICK u \in Users : u # q.target /\ member[<<q.org, u>>] = "owner"
        BY <1>1, <1>3, AnotherOwner DEF TakesOwner, OrgInv
      <4> QED
        BY <4>1, <2>2, <2>3, <2>4 DEF Leaves
    <3>5. TakesOwner(q) => q.org \in raced' \/ \A d \in OrgCalls : ~ChangesOwners(d, q.org)
      BY <1>3 DEF LockAndCount
    <3>6. \A d \in OrgCalls : \A o \in Orgs \ raced' : ChangesOwners(d, o)' => Leaves(d)'
      BY <2>5, <3>1, <3>2, <3>3, <3>4 DEF OneTakesOwner, OrgInv
    <3>7. \A d, e \in OrgCalls : \A o \in Orgs \ raced' :
            ChangesOwners(d, o)' /\ ChangesOwners(e, o)' => d = e
      BY <2>5, <3>1, <3>3, <3>5 DEF OneTakesOwner, OrgInv
    <3> QED
      BY <3>6, <3>7 DEF OneTakesOwner
  <2> QED
    BY <2>4, <2>5, <2>6, <2>7, <2>8, SameRows DEF OrgInv
<1> QED
  BY <1>2, <1>3

LEMMA CommitStep ==
  ASSUME OrgInv, OrgTypeOK', NEW c \in OrgCalls, Commit(c)
  PROVE  OrgInv'
<1> DEFINE q == ocall[c]
           m == <<q.org, q.target>>
<1>1. /\ q \in OrgCallType /\ OrgCallOK(c) /\ q.kind = "locked"
      /\ q.target \in Users /\ q.org \in Orgs /\ q.org \in founded
      /\ m \in Orgs \X Users /\ member[m] # "none"
  BY DEF Commit, OrgInv, OrgCallsOK, OrgTypeOK, OrgCallOK, OrgCallType
<1>2. /\ member'[m] = q.role
      /\ \A n \in Orgs \X Users : n # m => member'[n] = member[n]
  BY <1>1 DEF Commit, OrgInv, OrgTypeOK
<1>3. UNCHANGED <<clearance, founded, invitation, raced>>
  BY DEF Commit
<1>4. /\ owned \subseteq owned' /\ (q.role = "owner" => m \in owned') /\ usurped' = usurped
  BY <1>1 DEF Commit, Given, OrgCallOK
<1>5. /\ ocall'[c].kind # "locked"
      /\ ocall'[c].kind = "clear" => ocall'[c] = [q EXCEPT !.kind = "clear"] /\ q.level # "none"
      /\ ocall'[c].kind \in {"none", "clear"}
      /\ \A d \in OrgCalls \ {c} : ocall'[d] = ocall[d]
  BY DEF Commit, Done, NoOrgCall, OrgInv, OrgTypeOK, OrgCallType
<1>6. \A d \in OrgCalls \ {c} : ocall[d].kind = "locked" =>
        /\ <<ocall[d].org, ocall[d].target>> # m
        /\ <<ocall[d].org, ocall[d].target>> \in Orgs \X Users
        /\ member'[<<ocall[d].org, ocall[d].target>>] = member[<<ocall[d].org, ocall[d].target>>]
  <2> SUFFICES ASSUME NEW d \in OrgCalls \ {c}, ocall[d].kind = "locked"
               PROVE  /\ <<ocall[d].org, ocall[d].target>> # m
                      /\ <<ocall[d].org, ocall[d].target>> \in Orgs \X Users
    BY <1>2
  <2>1. ocall[d].org \in Orgs /\ ocall[d].target \in Users
    BY DEF OrgInv, OrgCallsOK, OrgCallOK, OrgTypeOK, OrgCallType
  <2> QED
    BY <2>1, <1>1 DEF OrgInv, LocksExclude
<1>7. Rooted' /\ OwnersRemembered'
  BY <1>1, <1>2, <1>3, <1>4 DEF OrgInv, Rooted, OwnersRemembered
<1>8. OrgCallsOK'
  <2> SUFFICES ASSUME NEW d \in OrgCalls
               PROVE  OrgCallOK(d)'
    BY DEF OrgCallsOK
  <2>1. CASE d = c
    <3>1. CASE ocall'[c].kind = "none"
      BY <2>1, <3>1 DEF OrgCallOK
    <3>2. CASE ocall'[c].kind = "clear"
      <4>1. /\ ocall'[c].org = q.org /\ ocall'[c].actor = q.actor /\ ocall'[c].target = q.target
            /\ ocall'[c].level = q.level /\ q.level \in Clearances
        BY <3>2, <1>5, <1>1 DEF OrgCallType
      <4> QED
        BY <2>1, <3>2, <4>1, <1>1, <1>3 DEF OrgCallOK
    <3> QED
      BY <3>1, <3>2, <1>5
  <2>2. CASE d # c
    BY <2>2, <1>3, <1>4, <1>5, <1>6 DEF OrgInv, OrgCallsOK, OrgCallOK
  <2> QED
    BY <2>1, <2>2
<1>9. LocksExclude'
  BY <1>5 DEF LocksExclude, OrgInv
<1>10. ExpelledOut'
  <2> SUFFICES ASSUME NEW n \in expelled'
               PROVE  member'[n] = "none" /\ invitation[n].state = "accepted"
    BY <1>3 DEF ExpelledOut
  <2>1. CASE n \in expelled
    <3>1. n # m /\ n \in Orgs \X Users
      BY <2>1, <1>1 DEF OrgInv, ExpelledOut, OrgTypeOK
    <3> QED
      BY <2>1, <3>1, <1>2 DEF OrgInv, ExpelledOut
  <2>2. CASE n \notin expelled
    <3>1. n = m /\ q.remove /\ invitation[m].state = "accepted"
      BY <2>2 DEF Commit
    <3> QED
      BY <3>1, <1>1, <1>2 DEF OrgCallOK
  <2> QED
    BY <2>1, <2>2
<1>11. PrivilegeFromOwner'
  BY <1>3, <1>4 DEF OrgInv, PrivilegeFromOwner
<1>12. \A d \in OrgCalls : \A o \in Orgs :
         ChangesOwners(d, o)' => d # c /\ ChangesOwners(d, o)
  BY <1>5, <1>6 DEF ChangesOwners, TakesOwner
<1>13. \A d \in OrgCalls \ {c} : Leaves(d)' =
         \E u \in Users : u # ocall[d].target /\ member'[<<ocall[d].org, u>>] = "owner"
  BY <1>5 DEF Leaves
<1>14. CASE ChangesOwners(c, q.org)
  <2>1. OneTakesOwner'
    <3>1. \A d \in OrgCalls : \A o \in Orgs \ raced :
            ChangesOwners(d, o)' => o # q.org
      BY <1>12, <1>14 DEF OrgInv, OneTakesOwner
    <3>2. \A d \in OrgCalls : \A o \in Orgs \ raced : ChangesOwners(d, o)' => Leaves(d)'
      <4> SUFFICES ASSUME NEW d \in OrgCalls, NEW o \in Orgs \ raced, ChangesOwners(d, o)'
                   PROVE  Leaves(d)'
        OBVIOUS
      <4>1. d # c /\ o # q.org /\ ChangesOwners(d, o) /\ ocall[d].org = o
        BY <1>12, <3>1 DEF ChangesOwners
      <4>2. PICK u \in Users : u # ocall[d].target /\ member[<<o, u>>] = "owner"
        BY <4>1 DEF OrgInv, OneTakesOwner, Leaves
      <4>3. member'[<<o, u>>] = "owner"
        BY <4>1, <4>2, <1>2
      <4> QED
        BY <4>1, <4>2, <4>3, <1>13
    <3> QED
      BY <3>2, <1>3, <1>12 DEF OrgInv, OneTakesOwner
  <2>2. OwnerKept'
    <3> SUFFICES ASSUME NEW o \in founded \ raced
                 PROVE  \E u \in Users : member'[<<o, u>>] = "owner"
      BY <1>3 DEF OwnerKept, Owners
    <3>1. o \in Orgs
      BY DEF OrgInv, OrgTypeOK
    <3>2. CASE o = q.org
      <4>1. PICK u \in Users : u # q.target /\ member[<<q.org, u>>] = "owner"
        BY <1>14, <3>1, <3>2 DEF OrgInv, OneTakesOwner, Leaves
      <4> QED
        BY <4>1, <3>2, <1>1, <1>2
    <3>3. CASE o # q.org
      <4>1. PICK u \in Users : member[<<o, u>>] = "owner"
        BY DEF OrgInv, OwnerKept, Owners
      <4> QED
        BY <4>1, <3>1, <3>3, <1>2
    <3> QED
      BY <3>2, <3>3
  <2> QED
    BY <1>7, <1>8, <1>9, <1>10, <1>11, <2>1, <2>2 DEF OrgInv
<1>15. CASE ~ChangesOwners(c, q.org)
  <2>1. \A o \in Orgs, u \in Users : member[<<o, u>>] = "owner" => member'[<<o, u>>] = "owner"
    <3> SUFFICES ASSUME NEW o \in Orgs, NEW u \in Users, member[<<o, u>>] = "owner"
                 PROVE  member'[<<o, u>>] = "owner"
      OBVIOUS
    <3>1. CASE <<o, u>> = m
      BY <3>1, <1>1, <1>2, <1>15 DEF ChangesOwners, TakesOwner
    <3>2. CASE <<o, u>> # m
      BY <3>2, <1>2
    <3> QED
      BY <3>1, <3>2
  <2>2. OwnerKept'
    <3>1. founded \subseteq Orgs
      BY DEF OrgInv, OrgTypeOK
    <3> QED
      BY <2>1, <3>1, <1>3 DEF OrgInv, OwnerKept, Owners
  <2>3. \A d \in OrgCalls \ {c} : Leaves(d) => Leaves(d)'
    BY <2>1, <1>13 DEF Leaves, OrgInv, OrgTypeOK, OrgCallType
  <2>4. OneTakesOwner'
    BY <2>3, <1>3, <1>12 DEF OrgInv, OneTakesOwner
  <2> QED
    BY <1>7, <1>8, <1>9, <1>10, <1>11, <2>2, <2>4 DEF OrgInv
<1> QED
  BY <1>14, <1>15

LEMMA ClearanceStep ==
  ASSUME OrgInv, OrgTypeOK', NEW c \in OrgCalls, SetClearance(c)
  PROVE  OrgInv'
<1>1. OrgCallsOK' /\ LocksExclude' /\ OneTakesOwner'
  BY DoneOK, OneOrgCall DEF SetClearance, OrgInv
<1> QED
  BY <1>1, SameRows DEF OrgInv, SetClearance

LEMMA LostStep ==
  ASSUME OrgInv, OrgTypeOK', NEW c \in OrgCalls, OrgCallLost(c)
  PROVE  OrgInv'
<1>1. OrgCallsOK' /\ LocksExclude' /\ OneTakesOwner'
  BY DoneOK, OneOrgCall DEF OrgCallLost, OrgInv
<1> QED
  BY <1>1, SameRows DEF OrgInv, OrgCallLost

LEMMA OrgStutterStep ==
  ASSUME OrgInv, UNCHANGED orgVars
  PROVE  OrgInv'
<1> USE DEF orgVars, OrgInv
<1>1. OrgTypeOK'
  BY DEF OrgTypeOK
<1>2. Rooted' /\ OwnersRemembered' /\ ExpelledOut' /\ PrivilegeFromOwner' /\ OwnerKept'
  BY SameRows
<1>3. OrgCallsOK' /\ LocksExclude'
  BY DEF OrgCallsOK, OrgCallOK, LocksExclude
<1>4. OneTakesOwner'
  BY DEF OneTakesOwner, ChangesOwners, TakesOwner, Leaves
<1> QED
  BY <1>1, <1>2, <1>3, <1>4

LEMMA OrgStep == OrgInv /\ [OrgNext]_orgVars => OrgInv'
<1> SUFFICES ASSUME OrgInv, [OrgNext]_orgVars
             PROVE  OrgInv'
  OBVIOUS
<1>1. OrgTypeOK'
  BY TypeStep DEF OrgInv
<1>2. CASE UNCHANGED orgVars
  BY <1>2, OrgStutterStep
<1>3. CASE OrgNext
  BY <1>1, <1>3, CreateStep, AcceptStep, LapseStep, AskInviteStep, AskMemberStep, InviteStep, LookStep,
     LockStep, CommitStep, ClearanceStep, LostStep DEF OrgNext
<1> QED
  BY <1>2, <1>3
-----------------------------------------------------------------------------
(* Theorems *)

\* The inductive invariant holds in every reachable state.
THEOREM OrgInvariance == OrgSpec => []OrgInv
<1>1. OrgInit => OrgInv
  BY OrgInitInv
<1>2. OrgInv /\ [OrgNext]_orgVars => OrgInv'
  BY OrgStep
<1> QED
  BY <1>1, <1>2, PTL DEF OrgSpec

\* The rows and the requests of organizations are well formed in every reachable state.
THEOREM OrganizationTypes == OrgSpec => []OrgTypeOK
<1>1. OrgInv => OrgTypeOK
  BY DEF OrgInv
<1> QED
  BY <1>1, OrgInvariance, PTL

\* An organization keeps an owner unless two requests that each took one away overlapped
\* (set_role, remove_member): one lost race is all it takes, and nothing else will do.
THEOREM OwnersAreKept == OrgSpec => []OwnerKept
<1>1. OrgInv => OwnerKept
  BY DEF OrgInv
<1> QED
  BY <1>1, OrgInvariance, PTL

\* However requests about members interleave, and however old the roles they were checked
\* against, a privileged role goes back to one who was an owner (create_invitation,
\* update_member, accept_invitation).
THEOREM PrivilegeComesFromOwners == OrgSpec => []PrivilegeFromOwner
<1>1. OrgInv => PrivilegeFromOwner
  BY DEF OrgInv
<1> QED
  BY <1>1, OrgInvariance, PTL

\* A member who joined by an invitation and was removed stays out (create_invitation).
THEOREM ExpelledStayOut == OrgSpec => []RemovedStayOut
<1>1. OrgInv => RemovedStayOut
  BY DEF OrgInv, ExpelledOut, RemovedStayOut
<1> QED
  BY <1>1, OrgInvariance, PTL

(***************************************************************************)
(* Rate limits                                                             *)
(***************************************************************************)
(* The inductive invariant *)

\* What a window has admitted is in its row for as long as the row may not be pruned; in memory no
\* request is in progress between two steps.
RowCounts(w) == admitted[w] <= Limit /\ (Expired(w) \/ admitted[w] <= count[w])

LimitInv ==
  /\ LimitTypeOK
  /\ \A w \in Windows : RowCounts(w)
  /\ backend = "memory" => \A c \in Limits : lcall[c].state = "none"
-----------------------------------------------------------------------------
\* A moment lies in its window, before the window ends.
LEMMA InWindow ==
  ASSUME NEW t \in 0 .. MaxTime
  PROVE  WindowOf(t) \in Windows /\ t < Expiry(WindowOf(t))
<1>1. Width \in Nat /\ Width > 0 /\ t \in Nat /\ MaxTime \in Nat /\ t <= MaxTime
  BY LimitAssumption
<1> DEFINE d == t \div Width
           m == t % Width
<1>2. d \in Int /\ m \in 0 .. (Width - 1) /\ t = Width * d + m
  BY <1>1
<1>3. Width * d + Width = (d + 1) * Width
  BY <1>1, <1>2
<1>4. t < (d + 1) * Width
  BY <1>1, <1>2, <1>3
<1>5. d \in 0 .. t
  BY <1>1
<1> QED
  BY <1>1, <1>4, <1>5 DEF WindowOf, Expiry, Windows

LEMMA ExpiryNat ==
  ASSUME NEW w \in Windows
  PROVE  Expiry(w) \in Nat
BY LimitAssumption DEF Windows, Expiry

LEMMA LimitInitInv == LimitInit => LimitInv
<1> SUFFICES ASSUME LimitInit
             PROVE  LimitInv
  OBVIOUS
<1>1. MaxTime \in Nat /\ Limit \in Nat /\ 0 \in Windows
  BY LimitAssumption DEF Windows
<1>2. LimitTypeOK
  BY <1>1 DEF LimitInit, LimitTypeOK, NoLimitCall, LimitCall
<1>3. \A w \in Windows : RowCounts(w)
  BY <1>1 DEF LimitInit, RowCounts
<1> QED
  BY <1>2, <1>3 DEF LimitInit, NoLimitCall, LimitInv

\* A request that is counted in a window keeps what holds of all windows, if the row of the window
\* is pruned no earlier than the window stops to admit.
LEMMA CountStep ==
  ASSUME LimitInv, NEW w \in Windows, CountIn(w), UNCHANGED <<backend, now>>,
         Expired(w) => now > Expiry(w)
  PROVE  /\ count' \in [Windows -> Nat]
         /\ admitted' \in [Windows -> Nat]
         /\ \A v \in Windows : RowCounts(v)'
<1>1. /\ count \in [Windows -> Nat] /\ admitted \in [Windows -> Nat] /\ now \in Nat
      /\ Limit \in Nat /\ Expiry(w) \in Nat
  BY LimitAssumption, ExpiryNat DEF LimitInv, LimitTypeOK
<1> DEFINE n == count[w] + 1
<1>2. count' = [v \in Windows |-> IF Expired(v) THEN 0 ELSE IF v = w THEN n ELSE count[v]]
  BY DEF CountIn
<1>3. count' \in [Windows -> Nat]
  BY <1>1, <1>2
<1>4. admitted' = IF n <= Limit /\ now <= Expiry(w)
                  THEN [admitted EXCEPT ![w] = @ + 1] ELSE admitted
  BY DEF CountIn, WithinLimit
<1>5. admitted' \in [Windows -> Nat]
  BY <1>1, <1>4
<1>6. \A v \in Windows : Expired(v)' = Expired(v)
  BY DEF Expired
<1>7. ASSUME NEW v \in Windows
      PROVE  RowCounts(v)'
  <2>1. admitted[v] <= Limit /\ (Expired(v) \/ admitted[v] <= count[v])
    BY DEF LimitInv, RowCounts
  <2>2. CASE v # w
    <3>1. admitted'[v] = admitted[v]
      BY <2>2, <1>1, <1>4
    <3>2. ~Expired(v) => count'[v] = count[v]
      BY <2>2, <1>2
    <3> QED
      BY <2>1, <3>1, <3>2, <1>6 DEF RowCounts
  <2>3. CASE v = w /\ Expired(w)
    <3>1. ~(now <= Expiry(w))
      BY <2>3, <1>1
    <3>2. admitted' = admitted
      BY <3>1, <1>4
    <3> QED
      BY <2>1, <2>3, <3>2, <1>6 DEF RowCounts
  <2>4. CASE v = w /\ ~Expired(w)
    <3>1. count'[w] = n
      BY <2>4, <1>2
    <3>2. admitted[w] <= count[w]
      BY <2>1, <2>4
    <3>3. CASE n <= Limit /\ now <= Expiry(w)
      <4>1. admitted'[w] = admitted[w] + 1
        BY <3>3, <1>1, <1>4
      <4> QED
        BY <1>1, <2>4, <3>1, <3>2, <3>3, <4>1 DEF RowCounts
    <3>4. CASE ~(n <= Limit /\ now <= Expiry(w))
      <4>1. admitted'[w] = admitted[w]
        BY <3>4, <1>4
      <4> QED
        BY <1>1, <2>1, <2>4, <3>1, <3>2, <4>1 DEF RowCounts
    <3> QED
      BY <3>3, <3>4
  <2> QED
    BY <2>2, <2>3, <2>4
<1> QED
  BY <1>3, <1>5, <1>7

LEMMA TickStep ==
  ASSUME LimitInv, Tick
  PROVE  LimitInv'
<1>1. now \in Nat /\ now' = now + 1 /\ MaxTime \in Nat /\ now < MaxTime
  BY LimitAssumption DEF LimitInv, LimitTypeOK, Tick
<1>2. LimitTypeOK'
  BY <1>1 DEF LimitInv, LimitTypeOK, Tick
<1>3. \A w \in Windows : Expired(w) => Expired(w)'
  BY <1>1, ExpiryNat DEF Expired, Tick
<1>4. \A w \in Windows : RowCounts(w)'
  BY <1>3 DEF LimitInv, RowCounts, Tick
<1> QED
  BY <1>2, <1>4 DEF LimitInv, Tick

LEMMA MemoryStep ==
  ASSUME LimitInv, CheckMemory
  PROVE  LimitInv'
<1> DEFINE w == WindowOf(now)
<1>1. w \in Windows /\ now < Expiry(w) /\ Expiry(w) \in Nat /\ now \in Nat
  BY InWindow, ExpiryNat, LimitAssumption DEF LimitInv, LimitTypeOK
<1>2. ~Expired(w)
  BY <1>1 DEF Expired
<1> HIDE DEF w
<1>3. /\ count' \in [Windows -> Nat]
      /\ admitted' \in [Windows -> Nat]
      /\ \A v \in Windows : RowCounts(v)'
  BY <1>1, <1>2, CountStep DEF CheckMemory, w
<1> QED
  BY <1>3 DEF LimitInv, LimitTypeOK, CheckMemory

\* The steps of a request that count.
LEMMA CountsStep ==
  ASSUME LimitInv, NEW c \in Limits, CountFirst(c) \/ CountNext(c)
  PROVE  LimitInv'
<1> DEFINE w == lcall[c].window
<1>1. /\ lcall[c] \in LimitCall /\ w \in Windows /\ backend = "postgresql"
      /\ CountIn(w) /\ Finish(c) /\ UNCHANGED <<backend, now>>
  BY DEF LimitInv, LimitTypeOK, LimitCall, CountFirst, CountNext
<1>2. Expired(w) => now > Expiry(w)
  BY <1>1, ExpiryNat DEF Expired, LimitInv, LimitTypeOK
<1>3. /\ count' \in [Windows -> Nat]
      /\ admitted' \in [Windows -> Nat]
      /\ \A v \in Windows : RowCounts(v)'
  BY <1>1, <1>2, CountStep
<1>4. NoLimitCall \in LimitCall
  BY LimitAssumption DEF NoLimitCall, LimitCall, Windows
<1>5. LimitTypeOK'
  BY <1>1, <1>3, <1>4 DEF LimitInv, LimitTypeOK, Finish
<1> QED
  BY <1>1, <1>3, <1>5 DEF LimitInv

\* The steps of a request that count nothing.
LEMMA WaitsStep ==
  ASSUME LimitInv, NEW c \in Limits, AskLimit(c) \/ FindRow(c) \/ CountGone(c)
  PROVE  LimitInv'
<1>1. UNCHANGED <<backend, now, count, admitted>> /\ backend = "postgresql"
  BY DEF LimitInv, LimitTypeOK, AskLimit, FindRow, CountGone
<1>2. WindowOf(now) \in Windows
  BY InWindow DEF LimitInv, LimitTypeOK
<1>3. lcall' \in [Limits -> LimitCall]
  <2>1. CASE AskLimit(c)
    BY <2>1, <1>2 DEF AskLimit, LimitInv, LimitTypeOK, LimitCall
  <2>2. CASE FindRow(c) \/ CountGone(c)
    BY <2>2 DEF FindRow, CountGone, LimitInv, LimitTypeOK, LimitCall
  <2> QED
    BY <2>1, <2>2
<1>4. \A w \in Windows : RowCounts(w)'
  BY <1>1 DEF LimitInv, RowCounts, Expired
<1> QED
  BY <1>1, <1>3, <1>4 DEF LimitInv, LimitTypeOK

LEMMA LimitStep == LimitInv /\ [LimitNext]_limitVars => LimitInv'
<1> SUFFICES ASSUME LimitInv, [LimitNext]_limitVars
             PROVE  LimitInv'
  OBVIOUS
<1>1. CASE UNCHANGED limitVars
  BY <1>1 DEF limitVars, LimitInv, LimitTypeOK, RowCounts, Expired
<1>2. CASE LimitNext
  BY <1>2, TickStep, MemoryStep, CountsStep, WaitsStep DEF LimitNext
<1> QED
  BY <1>1, <1>2
-----------------------------------------------------------------------------
(* Theorems *)

\* The counters are well formed, and a window that has not expired has counted what it admitted.
THEOREM LimitInvariance == LimitSpec => []LimitInv
<1>1. LimitInit => LimitInv
  BY LimitInitInv
<1>2. LimitInv /\ [LimitNext]_limitVars => LimitInv'
  BY LimitStep
<1> QED
  BY <1>1, <1>2, PTL DEF LimitSpec

\* However the requests of a caller interleave with each other and with the pruning of past
\* windows, a window admits no more than the limit (RateLimiter.check, AuthService.throttle).
THEOREM WindowsHold == LimitSpec => []WindowHolds
<1>1. LimitInv => WindowHolds
  BY DEF LimitInv, RowCounts, WindowHolds
<1> QED
  BY <1>1, LimitInvariance, PTL

(***************************************************************************)
(* Queries                                                                 *)
(***************************************************************************)
(* Types *)

QueryType ==
  [state : {"none", "check", "listed", "route", "plan", "retrieve", "answered", "refused"},
   clearance : Labels, mode : QueryModes \cup {"none"}, wanted : SUBSET Corpus,
   unchecked : SUBSET Corpus, listed : SUBSET (Corpus \X Labels), scope : SUBSET Corpus,
   ids : SUBSET Corpus, plan : SUBSET Retrievers,
   found : SUBSET [source : Corpus, by : Retrievers, gen : 0 .. 2]]
ReaderType == [Retrievers -> [at : {"off", "start", "search", "done"}, gen : 0 .. 2]]

RegistryTypeOK ==
  /\ setting \in Settings
  /\ entry \in [Corpus -> [label : 0 .. TopLabel, ready : BOOLEAN]]
  /\ shelf \in [Corpus -> 0 .. TopLabel]
  /\ changes \in 0 .. MaxChanges
  /\ fresh \subseteq Corpus /\ rightful \in [Corpus -> 0 .. TopLabel] /\ reverted \subseteq Corpus

IndexesTypeOK ==
  /\ indexed \in [1 .. 2 -> SUBSET Corpus] /\ erased \subseteq {1, 2}
  /\ activated \in [vector : {1, 2}, lexical : {1, 2}]
  /\ stage \in {"none", "built", "lexical", "moved", "done", "died"}
  /\ chart \in [there : BOOLEAN, sources : SUBSET Corpus]
  /\ charting \in [at : {"off", "listed"}, sources : SUBSET Corpus]

AnswerTypeOK ==
  /\ query \in QueryType
  /\ reader \in ReaderType
  /\ allowed \subseteq Corpus /\ since \subseteq {1, 2}

Typed == RegistryTypeOK /\ IndexesTypeOK /\ AnswerTypeOK

LEMMA TypedIs == Typed => QueryTypeOK
BY DEF Typed, QueryTypeOK, RegistryTypeOK, IndexesTypeOK, AnswerTypeOK, QueryType, ReaderType

LEMMA Constants ==
  /\ TopLabel \in Nat /\ 1 \in Labels /\ FirstLabel \in Labels
  /\ Labels \subseteq 0 .. TopLabel /\ 0 \in 0 .. TopLabel
  /\ MaxChanges \in Nat
BY QueriesAssumption DEF Labels

LEMMA NoQueryType ==
  /\ NoQuery \in QueryType
  /\ Resting.at = "off"
  /\ [m \in Retrievers |-> Resting] \in ReaderType
  /\ NoEntry \in [label : 0 .. TopLabel, ready : BOOLEAN]
  /\ [NoQuery EXCEPT !.state = "refused"] \in QueryType
BY Constants DEF NoQuery, QueryType, QueryModes, Resting, ReaderType, NoEntry

LEMMA InitTypes == QueryInit => Typed
<1> SUFFICES ASSUME QueryInit
             PROVE  Typed
  OBVIOUS
<1> USE DEF QueryInit
<1>1. \A l \in Labels : [label |-> l, ready |-> TRUE] \in [label : 0 .. TopLabel, ready : BOOLEAN]
  BY Constants
<1>2. entry \in [Corpus -> [label : 0 .. TopLabel, ready : BOOLEAN]]
  <2> DEFINE E == {NoEntry} \cup {[label |-> l, ready |-> TRUE] : l \in Labels}
  <2>1. E \subseteq [label : 0 .. TopLabel, ready : BOOLEAN]
    BY <1>1, NoQueryType
  <2>2. entry \in [Corpus -> E]
    OBVIOUS
  <2> HIDE DEF E
  <2> QED
    BY <2>1, <2>2
<1>3. RegistryTypeOK
  BY <1>2, Constants DEF RegistryTypeOK
<1>4. indexed \in [1 .. 2 -> SUBSET Corpus]
  OBVIOUS
<1>5. indexed[1] \in SUBSET Corpus
  OBVIOUS
<1>6. IndexesTypeOK
  <2>1. chart \in [there : BOOLEAN, sources : SUBSET Corpus]
    <3>1. NoGraph \in [there : BOOLEAN, sources : SUBSET Corpus]
      BY DEF NoGraph
    <3>2. chart = NoGraph \/ chart = [there |-> TRUE, sources |-> indexed[1]]
      OBVIOUS
    <3>3. \A S \in SUBSET Corpus :
            [there |-> TRUE, sources |-> S] \in [there : BOOLEAN, sources : SUBSET Corpus]
      OBVIOUS
    <3>4. [there |-> TRUE, sources |-> indexed[1]] \in [there : BOOLEAN, sources : SUBSET Corpus]
      BY <1>5, <3>3
    <3> HIDE DEF QueryInit
    <3> QED
      BY <3>1, <3>2, <3>4
  <2>2. charting \in [at : {"off", "listed"}, sources : SUBSET Corpus]
    OBVIOUS
  <2>3. activated \in [vector : {1, 2}, lexical : {1, 2}]
    OBVIOUS
  <2>4. erased = {} /\ stage = "none"
    OBVIOUS
  <2> HIDE DEF QueryInit
  <2> QED
    BY <1>4, <2>1, <2>2, <2>3, <2>4 DEF IndexesTypeOK
<1>7. AnswerTypeOK
  BY NoQueryType DEF AnswerTypeOK
<1> QED
  BY <1>3, <1>6, <1>7 DEF Typed

\* Steps of the registry.
LEMMA RegistryTypes ==
  ASSUME Typed, RegistryNext
  PROVE  Typed'
<1> USE DEF registry, indexes, answering, truth
<1>0. RegistryTypeOK /\ IndexesTypeOK /\ AnswerTypeOK
  BY DEF Typed
<1>1. IndexesTypeOK'
  <2>1. CASE Reboot
    BY <1>0, <2>1 DEF Reboot, IndexesTypeOK
  <2>2. CASE ~Reboot
    BY <1>0, <2>2 DEF RegistryNext, AddSource, FinishSource, Relabel, RemoveRow, RemoveShelf, IndexesTypeOK
  <2> QED
    BY <2>1, <2>2
<1>2. AnswerTypeOK'
  <2>1. CASE Reboot
    BY <1>0, <2>1, NoQueryType DEF Reboot, Rest, AnswerTypeOK
  <2>2. CASE ~Reboot
    BY <1>0, <2>2
    DEF RegistryNext, AddSource, FinishSource, Relabel, RemoveRow, RemoveShelf, SeenNow, AnswerTypeOK
  <2> QED
    BY <2>1, <2>2
<1>3. RegistryTypeOK'
  <2> USE <1>0, Constants, NoQueryType DEF RegistryTypeOK
  <2>1. ASSUME NEW s \in Corpus, AddSource(s)
        PROVE  RegistryTypeOK'
    <3>1. [label |-> FirstLabel, ready |-> FALSE] \in [label : 0 .. TopLabel, ready : BOOLEAN]
      OBVIOUS
    <3>2. changes' \in 0 .. MaxChanges
      BY <2>1 DEF AddSource, OneChange
    <3> QED
      BY <2>1, <3>1, <3>2 DEF AddSource
  <2>2. ASSUME NEW s \in Corpus, FinishSource(s)
        PROVE  RegistryTypeOK'
    BY <2>2 DEF FinishSource
  <2>3. ASSUME NEW s \in Corpus, NEW label \in Labels, Relabel(s, label)
        PROVE  RegistryTypeOK'
    <3>1. changes' \in 0 .. MaxChanges
      BY <2>3 DEF Relabel, OneChange
    <3>2. label \in 0 .. TopLabel
      OBVIOUS
    <3> QED
      BY <2>3, <3>1, <3>2 DEF Relabel
  <2>4. ASSUME NEW s \in Corpus, RemoveRow(s)
        PROVE  RegistryTypeOK'
    <3>1. changes' \in 0 .. MaxChanges
      BY <2>4 DEF RemoveRow, OneChange
    <3> QED
      BY <2>4, <3>1 DEF RemoveRow, Reverted
  <2>5. ASSUME NEW s \in Corpus, RemoveShelf(s)
        PROVE  RegistryTypeOK'
    BY <2>5 DEF RemoveShelf
  <2>6. CASE Reboot
    BY <2>6 DEF Reboot, Reverted
  <2> QED
    BY <2>1, <2>2, <2>3, <2>4, <2>5, <2>6 DEF RegistryNext
<1> QED
  BY <1>1, <1>2, <1>3 DEF Typed

\* Steps of the indexes.
LEMMA IndexesTypes ==
  ASSUME Typed, IndexesNext
  PROVE  Typed'
<1> USE DEF registry, indexes, answering, truth
<1>0. RegistryTypeOK /\ IndexesTypeOK /\ AnswerTypeOK
  BY DEF Typed
<1>1. RegistryTypeOK'
  <2>1. changes' \in 0 .. MaxChanges
    BY <1>0, Constants
    DEF IndexesNext, Build, MoveLexicalPointer, MoveVectorPointer, VectorsAt, RollBack, PublishBoth,
        EraseOld, ChartList, ChartFails, ChartPublish, RegistryTypeOK, OneChange
  <2> QED
    BY <1>0, <2>1
    DEF IndexesNext, Build, MoveLexicalPointer, MoveVectorPointer, VectorsAt, RollBack, PublishBoth,
        EraseOld, ChartList, ChartFails, ChartPublish, RegistryTypeOK
<1>2. AnswerTypeOK'
  BY <1>0
  DEF IndexesNext, Build, MoveLexicalPointer, MoveVectorPointer, VectorsAt, RollBack, PublishBoth,
      EraseOld, ChartList, ChartFails, ChartPublish, AnswerTypeOK
<1>3. IndexesTypeOK'
  <2> USE <1>0 DEF IndexesTypeOK
  <2>1. CASE Build
    BY <2>1 DEF Build
  <2>2. CASE MoveLexicalPointer \/ RollBack
    BY <2>2 DEF MoveLexicalPointer, RollBack
  <2>3. CASE MoveVectorPointer \/ PublishBoth
    BY <2>3 DEF MoveVectorPointer, PublishBoth, VectorsAt
  <2>4. CASE EraseOld
    BY <2>4 DEF EraseOld
  <2>5. CASE ChartList
    BY <2>5 DEF ChartList
  <2>6. CASE ChartFails \/ ChartPublish
    <3>1. /\ [at |-> "off", sources |-> {}] \in [at : {"off", "listed"}, sources : SUBSET Corpus]
          /\ [there |-> TRUE, sources |-> charting.sources] \in [there : BOOLEAN, sources : SUBSET Corpus]
      OBVIOUS
    <3> QED
      BY <2>6, <3>1 DEF ChartFails, ChartPublish
  <2> QED
    BY <2>1, <2>2, <2>3, <2>4, <2>5, <2>6 DEF IndexesNext
<1> QED
  BY <1>1, <1>2, <1>3 DEF Typed

\* Steps of the query: they leave the registry and the indexes alone.
LEMMA FixedTypes ==
  ASSUME Typed, UNCHANGED fixed
  PROVE  RegistryTypeOK' /\ IndexesTypeOK'
BY DEF Typed, fixed, registry, indexes, truth, RegistryTypeOK, IndexesTypeOK

\* The states of the readers that a plan starts with.
LEMMA StartTypes ==
  ASSUME NEW plan, Start(plan)
  PROVE  /\ reader' \in ReaderType
         /\ \A m \in Retrievers : reader'[m].at \in {"off", "start"}
BY DEF Start, ReaderType

LEMMA RefuseTypes ==
  ASSUME Refuse
  PROVE  /\ query' \in QueryType /\ reader' \in ReaderType
         /\ query'.state = "refused" /\ query'.found = {} /\ query'.scope = {}
         /\ \A m \in Retrievers : reader'[m].at = "off"
BY NoQueryType DEF Refuse, Rest, NoQuery

LEMMA FollowTypes ==
  ASSUME Typed, NEW plan \in SUBSET Retrievers, NEW ids \in SUBSET Corpus, Follow(plan, ids)
  PROVE  /\ query' \in QueryType /\ reader' \in ReaderType
         /\ query'.state = "retrieve" /\ query'.plan = plan /\ query'.ids = ids
         /\ query'.scope = query.scope /\ query'.found = query.found
         /\ query'.clearance = query.clearance
         /\ \A m \in Retrievers : reader'[m].at \in {"off", "start"}
<1>1. query \in QueryType
  BY DEF Typed, AnswerTypeOK
<1>2. query' \in QueryType
  BY <1>1 DEF Follow, QueryType
<1>3. /\ query'.state = "retrieve" /\ query'.plan = plan /\ query'.ids = ids
      /\ query'.scope = query.scope /\ query'.found = query.found
      /\ query'.clearance = query.clearance
  BY <1>1 DEF Follow, QueryType
<1> QED
  BY <1>2, <1>3, StartTypes DEF Follow

\* What a retriever finds.
LEMMA FindTypes ==
  ASSUME Typed, NEW m \in Retrievers, NEW S \in SUBSET Corpus, NEW g \in 0 .. 2, Find(m, S, g)
  PROVE  /\ query' \in QueryType
         /\ \A e \in query'.found : e \in query.found
                \/ (e.source \in S /\ Admits(e.source) /\ e.by = m /\ e.gen = g)
         /\ query'.state = query.state /\ query'.plan = query.plan /\ query'.ids = query.ids
         /\ query'.scope = query.scope /\ query'.clearance = query.clearance
<1>1. query \in QueryType
  BY DEF Typed, AnswerTypeOK
<1> DEFINE F == {[source |-> s, by |-> m, gen |-> g] : s \in {x \in S : Admits(x)}}
<1>2. F \subseteq [source : Corpus, by : Retrievers, gen : 0 .. 2]
  OBVIOUS
<1>3. \A e \in F : e.source \in S /\ Admits(e.source) /\ e.by = m /\ e.gen = g
  OBVIOUS
<1>4. query' = [query EXCEPT !.found = query.found \cup F]
  BY DEF Find
<1> HIDE DEF F
<1>5. query.found \cup F \in SUBSET [source : Corpus, by : Retrievers, gen : 0 .. 2]
  BY <1>1, <1>2 DEF QueryType
<1>6. query' \in QueryType
  <2>1. \A S2 \in SUBSET [source : Corpus, by : Retrievers, gen : 0 .. 2] :
          [query EXCEPT !.found = S2] \in QueryType
    BY <1>1 DEF QueryType
  <2> QED
    BY <1>4, <1>5, <2>1
<1>7. /\ query'.found = query.found \cup F
      /\ query'.state = query.state /\ query'.plan = query.plan /\ query'.ids = query.ids
      /\ query'.scope = query.scope /\ query'.clearance = query.clearance
  BY <1>1, <1>4 DEF QueryType
<1>8. ASSUME NEW e \in query'.found, e \notin query.found
      PROVE  e.source \in S /\ Admits(e.source) /\ e.by = m /\ e.gen = g
  <2>1. e \in F
    BY <1>7, <1>8
  <2> QED
    BY <1>3, <2>1
<1> QED
  BY <1>6, <1>7, <1>8

LEMMA GoesTypes ==
  ASSUME Typed, NEW m \in Retrievers, NEW at \in {"search", "done"}, NEW g \in 0 .. 2,
         Goes(m, at, g)
  PROVE  /\ reader' \in ReaderType
         /\ reader'[m] = [at |-> at, gen |-> g]
         /\ \A n \in Retrievers \ {m} : reader'[n] = reader[n]
BY DEF Typed, AnswerTypeOK, ReaderType, Goes
-----------------------------------------------------------------------------
(* The inductive invariant *)

\* The caller might see s while the query ran, or s was known by another label of its source.json.
OK(s) == s \in allowed \/ (~Durable /\ s \in reverted)

\* A row has the label its source should have; without a row the source.json has it, or is known
\* to have another.
LabelsOK ==
  \A s \in Corpus :
    /\ entry[s].label # 0 => rightful[s] = entry[s].label
    /\ entry[s].label = 0 /\ shelf[s] # 0 => s \in reverted \/ shelf[s] = rightful[s]

VisibleOK ==
  Running => \A s \in Corpus : ClearanceCovers(rightful[s], query.clearance) => s \in allowed

\* What was listed could be seen then, and so can what a source.json adds before it is read.
ListedOK ==
  query.state = "listed" => \A s \in Corpus :
    /\ \A l \in Labels :
         <<s, l>> \in query.listed /\ ClearanceCovers(l, query.clearance) => s \in allowed
    /\ /\ ~Durable
       /\ \A l \in Labels : <<s, l>> \notin query.listed
       /\ ClearanceCovers(shelf[s], query.clearance)
       => OK(s)

ScopeOK == \A s \in query.scope : OK(s)

\* The filter is within the scope, and empty for the retriever of databases alone.
IdsOK ==
  query.state \in {"route", "plan", "retrieve"} =>
    /\ query.ids \subseteq query.scope
    /\ query.ids = {} => query.state = "retrieve" /\ query.plan = {"sql"}

Vectorial == {"vector", "window", "lexical"}

FoundOK == \A e \in query.found : OK(e.source) /\ (e.by \in Vectorial => e.gen \in since)

ReaderOK ==
  \A m \in Retrievers :
    /\ reader[m].at # "off" => query.state = "retrieve"
    /\ reader[m].at = "search" => reader[m].gen \in since

SinceOK == Running => activated.vector \in since

QueryInv ==
  /\ Typed
  /\ LabelsOK /\ VisibleOK /\ ListedOK
  /\ ScopeOK /\ IdsOK /\ FoundOK
  /\ ReaderOK /\ SinceOK

LEMMA InitInv == QueryInit => QueryInv
<1> SUFFICES ASSUME QueryInit
             PROVE  QueryInv
  OBVIOUS
<1>1. Typed
  BY InitTypes
<1>2. query.state = "none" /\ query.scope = {} /\ query.found = {}
  BY DEF QueryInit, NoQuery
<1>3. \A m \in Retrievers : reader[m].at = "off"
  BY DEF QueryInit, Resting
<1>4. LabelsOK
  <2> SUFFICES ASSUME NEW s \in Corpus
               PROVE  /\ entry[s].label # 0 => rightful[s] = entry[s].label
                      /\ entry[s].label = 0 => shelf[s] = 0
    BY DEF LabelsOK
  <2>1. rightful[s] = entry[s].label
    BY DEF QueryInit
  <2>2. entry[s].label = 0 => entry[s] = NoEntry
    <3>1. \A l \in Labels : l # 0
      BY QueriesAssumption DEF Labels
    <3> QED
      BY <3>1 DEF QueryInit
  <2>3. entry[s].label = 0 => shelf[s] = 0
    BY <2>2 DEF QueryInit
  <2> QED
    BY <2>1, <2>3
<1>5. VisibleOK /\ ListedOK /\ ScopeOK /\ IdsOK /\ FoundOK /\ ReaderOK /\ SinceOK
  BY <1>2, <1>3 DEF VisibleOK, ListedOK, ScopeOK, IdsOK, FoundOK, ReaderOK, SinceOK, Running
<1> QED
  BY <1>1, <1>4, <1>5 DEF QueryInv
-----------------------------------------------------------------------------
(* Steps beneath the query *)

\* While a query keeps its state, and what it could see and use only grows, what it has collected
\* stays in order.
LEMMA Later ==
  ASSUME QueryInv, UNCHANGED <<setting, query, reader>>,
         allowed \subseteq allowed', reverted \subseteq reverted', since \subseteq since'
  PROVE  /\ \A s \in Corpus : OK(s) => OK(s)'
         /\ ScopeOK' /\ IdsOK' /\ FoundOK' /\ ReaderOK'
<1>1. \A s : OK(s) => OK(s)'
  BY DEF OK, Durable
<1> QED
  BY <1>1 DEF QueryInv, ScopeOK, IdsOK, FoundOK, ReaderOK

\* Sources come, change and go.
LEMMA SourceStep ==
  ASSUME QueryInv, RegistryNext, ~Reboot
  PROVE  QueryInv'
<1> USE DEF registry, indexes, answering, truth
<1>1. Typed'
  BY RegistryTypes DEF QueryInv
<1>2. /\ UNCHANGED <<setting, query, reader, since, activated>>
      /\ allowed \subseteq allowed' /\ reverted \subseteq reverted'
  BY DEF RegistryNext, AddSource, FinishSource, Relabel, RemoveRow, RemoveShelf, SeenNow, Reverted
<1>3. /\ \A s \in Corpus : OK(s) => OK(s)'
      /\ ScopeOK' /\ IdsOK' /\ FoundOK' /\ ReaderOK'
  BY <1>2, Later
<1>4. SinceOK'
  BY <1>2 DEF QueryInv, SinceOK, Running
<1>5. RegistryTypeOK /\ LabelsOK /\ AnswerTypeOK
  BY DEF QueryInv, Typed
<1>6. VisibleOK'
  <2> SUFFICES ASSUME Running, NEW s \in Corpus, ClearanceCovers(rightful'[s], query.clearance)
               PROVE  s \in allowed'
    BY <1>2 DEF VisibleOK, Running
  <2>1. CASE SeenNow
    BY <2>1 DEF SeenNow
  <2>2. CASE ~SeenNow
    <3>1. rightful'[s] = rightful[s] \/ rightful'[s] = 0
      BY <1>5, <2>2 DEF RegistryNext, AddSource, FinishSource, Relabel, RemoveRow, RemoveShelf,
                        RegistryTypeOK
    <3>2. query.clearance \in Nat
      BY <1>5, Constants DEF AnswerTypeOK, QueryType, Labels
    <3>3. rightful'[s] # 0
      BY <3>2 DEF ClearanceCovers
    <3> QED
      BY <1>2, <3>1, <3>3 DEF QueryInv, VisibleOK
  <2> QED
    BY <2>1, <2>2
<1>7. LabelsOK'
  <2> SUFFICES ASSUME NEW s \in Corpus
               PROVE  /\ entry'[s].label # 0 => rightful'[s] = entry'[s].label
                      /\ entry'[s].label = 0 /\ shelf'[s] # 0 =>
                           s \in reverted' \/ shelf'[s] = rightful'[s]
    BY DEF LabelsOK
  <2> USE <1>5 DEF RegistryTypeOK, LabelsOK
  <2>1. ASSUME NEW t \in Corpus, AddSource(t)
        PROVE  /\ entry'[s].label # 0 => rightful'[s] = entry'[s].label
               /\ entry'[s].label = 0 /\ shelf'[s] # 0 =>
                    s \in reverted' \/ shelf'[s] = rightful'[s]
    BY <2>1, QueriesAssumption DEF AddSource
  <2>2. ASSUME NEW t \in Corpus, FinishSource(t)
        PROVE  /\ entry'[s].label # 0 => rightful'[s] = entry'[s].label
               /\ entry'[s].label = 0 /\ shelf'[s] # 0 =>
                    s \in reverted' \/ shelf'[s] = rightful'[s]
    <3>1. entry'[s].label = entry[s].label /\ rightful' = rightful /\ reverted' = reverted
      BY <2>2 DEF FinishSource
    <3>2. s # t => shelf'[s] = shelf[s]
      BY <2>2 DEF FinishSource
    <3>3. s = t => entry[s].label # 0
      BY <2>2 DEF FinishSource, Known
    <3> QED
      BY <3>1, <3>2, <3>3
  <2>3. ASSUME NEW t \in Corpus, NEW label \in Labels, Relabel(t, label)
        PROVE  /\ entry'[s].label # 0 => rightful'[s] = entry'[s].label
               /\ entry'[s].label = 0 /\ shelf'[s] # 0 =>
                    s \in reverted' \/ shelf'[s] = rightful'[s]
    BY <2>3, QueriesAssumption DEF Relabel, Labels
  <2>4. ASSUME NEW t \in Corpus, RemoveRow(t)
        PROVE  /\ entry'[s].label # 0 => rightful'[s] = entry'[s].label
               /\ entry'[s].label = 0 /\ shelf'[s] # 0 =>
                    s \in reverted' \/ shelf'[s] = rightful'[s]
    BY <2>4 DEF RemoveRow, Reverted, NoEntry
  <2>5. ASSUME NEW t \in Corpus, RemoveShelf(t)
        PROVE  /\ entry'[s].label # 0 => rightful'[s] = entry'[s].label
               /\ entry'[s].label = 0 /\ shelf'[s] # 0 =>
                    s \in reverted' \/ shelf'[s] = rightful'[s]
    BY <2>5 DEF RemoveShelf
  <2> QED
    BY <2>1, <2>2, <2>3, <2>4, <2>5 DEF RegistryNext
<1>8. ListedOK'
  <2> SUFFICES ASSUME query.state = "listed", NEW s \in Corpus
               PROVE  /\ \A l \in Labels :
                           <<s, l>> \in query.listed /\ ClearanceCovers(l, query.clearance) =>
                             s \in allowed'
                      /\ /\ ~Durable'
                         /\ \A l \in Labels : <<s, l>> \notin query.listed
                         /\ ClearanceCovers(shelf'[s], query.clearance)
                         => OK(s)'
    BY <1>2 DEF ListedOK
  <2>1. \A l \in Labels :
          <<s, l>> \in query.listed /\ ClearanceCovers(l, query.clearance) => s \in allowed'
    BY <1>2 DEF QueryInv, ListedOK
  <2>2. ASSUME ~Durable', \A l \in Labels : <<s, l>> \notin query.listed,
               ClearanceCovers(shelf'[s], query.clearance)
        PROVE  OK(s)'
    <3>1. CASE shelf'[s] = shelf[s]
      <4>1. ~Durable
        BY <1>2, <2>2 DEF Durable
      <4> QED
        BY <1>3, <2>2, <3>1, <4>1 DEF QueryInv, ListedOK
    <3>2. CASE shelf'[s] # shelf[s]
      <4>1. shelf'[s] # 0
        <5>1. query.clearance \in Nat
          BY <1>5, Constants DEF AnswerTypeOK, QueryType, Labels
        <5> QED
          BY <2>2, <5>1 DEF ClearanceCovers
      <4>2. FinishSource(s)
        BY <1>5, <3>2, <4>1
        DEF RegistryNext, AddSource, FinishSource, Relabel, RemoveRow, RemoveShelf, RegistryTypeOK
      <4>3. shelf'[s] = entry[s].label /\ entry[s].label # 0 /\ rightful' = rightful
        BY <1>5, <4>1, <4>2 DEF FinishSource, Known, RegistryTypeOK
      <4>4. ClearanceCovers(rightful'[s], query.clearance)
        BY <1>5, <2>2, <4>3 DEF LabelsOK
      <4>5. Running
        BY DEF Running
      <4> QED
        BY <1>2, <1>6, <4>4, <4>5 DEF VisibleOK, OK, Running
    <3> QED
      BY <3>1, <3>2
  <2> QED
    BY <2>1, <2>2
<1> QED
  BY <1>1, <1>3, <1>4, <1>6, <1>7, <1>8 DEF QueryInv

LEMMA RebootStep ==
  ASSUME QueryInv, Reboot
  PROVE  QueryInv'
<1>1. Typed'
  BY RegistryTypes DEF QueryInv, RegistryNext
<1>2. /\ query' = NoQuery /\ query'.state = "none" /\ query'.scope = {} /\ query'.found = {}
      /\ \A m \in Retrievers : reader'[m].at = "off"
  BY NoQueryType DEF Reboot, Rest, NoQuery
<1>3. LabelsOK'
  <2>1. CASE Durable
    BY <2>1 DEF QueryInv, LabelsOK, Reboot
  <2>2. CASE ~Durable
    BY <2>2 DEF Reboot, Reverted, LabelsOK, NoEntry
  <2> QED
    BY <2>1, <2>2
<1>4. VisibleOK' /\ ListedOK' /\ ScopeOK' /\ IdsOK' /\ FoundOK' /\ ReaderOK' /\ SinceOK'
  BY <1>2 DEF VisibleOK, ListedOK, ScopeOK, IdsOK, FoundOK, ReaderOK, SinceOK, Running
<1> QED
  BY <1>1, <1>3, <1>4 DEF QueryInv

\* A generation is built and activated, the graph is rebuilt.
LEMMA IndexStep ==
  ASSUME QueryInv, IndexesNext
  PROVE  QueryInv'
<1> USE DEF registry, indexes, answering, truth
<1>1. Typed'
  BY IndexesTypes DEF QueryInv
<1>2. /\ UNCHANGED <<setting, entry, shelf, query, reader, allowed, rightful, reverted>>
      /\ since \subseteq since'
      /\ activated'.vector = activated.vector \/ (Running => activated'.vector \in since')
  <2>1. IndexesTypeOK
    BY DEF QueryInv, Typed
  <2>2. CASE MoveVectorPointer \/ PublishBoth
    BY <2>1, <2>2 DEF MoveVectorPointer, PublishBoth, VectorsAt, IndexesTypeOK
  <2>3. CASE MoveLexicalPointer \/ RollBack
    BY <2>1, <2>3 DEF MoveLexicalPointer, RollBack, IndexesTypeOK
  <2>4. CASE Build \/ EraseOld \/ ChartList \/ ChartFails \/ ChartPublish
    BY <2>4 DEF Build, EraseOld, ChartList, ChartFails, ChartPublish
  <2> QED
    BY <2>2, <2>3, <2>4 DEF IndexesNext
<1>3. /\ \A s \in Corpus : OK(s) => OK(s)'
      /\ ScopeOK' /\ IdsOK' /\ FoundOK' /\ ReaderOK'
  BY <1>2, Later
<1>4. SinceOK'
  BY <1>2 DEF QueryInv, SinceOK, Running
<1>5. LabelsOK' /\ VisibleOK'
  BY <1>2 DEF QueryInv, LabelsOK, VisibleOK, Running
<1>6. ListedOK'
  BY <1>2, <1>3 DEF QueryInv, ListedOK, Durable
<1> QED
  BY <1>1, <1>3, <1>4, <1>5, <1>6 DEF QueryInv
-----------------------------------------------------------------------------
(* Steps of the query *)

\* The query reads: what is beneath it stays.
LEMMA Beneath ==
  ASSUME QueryInv, UNCHANGED fixed
  PROVE  /\ RegistryTypeOK' /\ IndexesTypeOK' /\ LabelsOK'
         /\ UNCHANGED <<setting, entry, shelf, activated, rightful, reverted>>
<1>1. UNCHANGED <<setting, entry, shelf, activated, rightful, reverted>>
  BY DEF fixed, registry, indexes, truth
<1>2. LabelsOK'
  BY <1>1 DEF QueryInv, LabelsOK
<1> QED
  BY <1>1, <1>2, FixedTypes DEF QueryInv

LEMMA Refused ==
  ASSUME QueryInv, Refuse, UNCHANGED <<allowed, since, fixed>>
  PROVE  QueryInv'
<1>1. /\ query' \in QueryType /\ reader' \in ReaderType
      /\ query'.state = "refused" /\ query'.found = {} /\ query'.scope = {}
      /\ \A m \in Retrievers : reader'[m].at = "off"
  BY RefuseTypes
<1>2. Typed'
  BY <1>1, Beneath DEF QueryInv, Typed, AnswerTypeOK
<1>3. VisibleOK' /\ ListedOK' /\ ScopeOK' /\ IdsOK' /\ FoundOK' /\ ReaderOK' /\ SinceOK'
  BY <1>1 DEF VisibleOK, ListedOK, ScopeOK, IdsOK, FoundOK, ReaderOK, SinceOK, Running
<1> QED
  BY <1>2, <1>3, Beneath DEF QueryInv

\* A running query goes on in another state, with the same clearance and what it has found.
LEMMA GoesOn ==
  ASSUME QueryInv, UNCHANGED <<allowed, since, fixed>>, Running, query' \in QueryType,
         reader' \in ReaderType, query'.clearance = query.clearance,
         ListedOK', ScopeOK', IdsOK', FoundOK', ReaderOK'
  PROVE  QueryInv'
<1>1. Typed'
  BY Beneath DEF QueryInv, Typed, AnswerTypeOK
<1>2. VisibleOK' /\ SinceOK'
  BY Beneath DEF QueryInv, VisibleOK, SinceOK
<1> QED
  BY <1>1, <1>2, Beneath DEF QueryInv

LEMMA AskStep ==
  ASSUME QueryInv, NEW label \in Labels, NEW mode \in QueryModes, NEW wanted \in Filters,
         AskQuery(label, mode, wanted)
  PROVE  QueryInv'
<1> DEFINE q == [NoQuery EXCEPT !.state = "check", !.clearance = label, !.mode = mode,
                                !.wanted = wanted, !.unchecked = wanted]
<1>1. /\ query.state = "none" /\ query' = q /\ reader' = reader
      /\ allowed' = {s \in Corpus : ClearanceCovers(rightful[s], label)}
      /\ since' = {activated.vector}
      /\ UNCHANGED fixed
  BY DEF AskQuery
<1>2. wanted \in SUBSET Corpus
  BY QueriesAssumption
<1>3. q \in QueryType
  BY <1>2, NoQueryType DEF QueryType
<1>4. q.state = "check" /\ q.clearance = label /\ q.scope = {} /\ q.found = {}
  BY DEF NoQuery
<1> HIDE DEF q
<1>5. activated.vector \in {1, 2} /\ reader \in ReaderType
  BY DEF QueryInv, Typed, IndexesTypeOK, AnswerTypeOK
<1>6. Typed'
  BY <1>1, <1>3, <1>5, Beneath DEF Typed, AnswerTypeOK
<1>7. VisibleOK' /\ SinceOK'
  BY <1>1, <1>4, Beneath DEF VisibleOK, SinceOK
<1>8. \A m \in Retrievers : reader'[m].at = "off"
  BY <1>1 DEF QueryInv, ReaderOK
<1>9. ListedOK' /\ ScopeOK' /\ IdsOK' /\ FoundOK' /\ ReaderOK'
  BY <1>1, <1>4, <1>8 DEF ListedOK, ScopeOK, IdsOK, FoundOK, ReaderOK
<1> QED
  BY <1>1, <1>6, <1>7, <1>9, Beneath DEF QueryInv

LEMMA CheckStep ==
  ASSUME QueryInv, NEW s \in Corpus, Check(s)
  PROVE  QueryInv'
<1>1. UNCHANGED <<allowed, since, fixed>> /\ query.state = "check"
  BY DEF Check
<1>2. CASE ~ClearanceCovers(entry[s].label, query.clearance)
  BY <1>1, <1>2, Refused DEF Check
<1>3. CASE ClearanceCovers(entry[s].label, query.clearance)
  <2>1. query' = [query EXCEPT !.unchecked = @ \ {s}] /\ UNCHANGED reader
    BY <1>3 DEF Check
  <2>2. query \in QueryType /\ reader \in ReaderType
    BY DEF QueryInv, Typed, AnswerTypeOK
  <2>3. query' \in QueryType
    BY <2>1, <2>2 DEF QueryType
  <2>4. /\ query'.state = query.state /\ query'.clearance = query.clearance
        /\ query'.scope = query.scope /\ query'.found = query.found
    BY <2>1, <2>2 DEF QueryType
  <2>5. ListedOK' /\ IdsOK' /\ Running
    BY <1>1, <2>4 DEF ListedOK, IdsOK, Running
  <2>6. ScopeOK' /\ FoundOK' /\ ReaderOK'
    BY <1>1, <2>1, <2>4, Beneath DEF QueryInv, ScopeOK, FoundOK, ReaderOK, OK, Durable
  <2> QED
    BY <1>1, <2>1, <2>2, <2>3, <2>4, <2>5, <2>6, GoesOn
<1> QED
  BY <1>2, <1>3

LEMMA ListStep ==
  ASSUME QueryInv, ListRows
  PROVE  QueryInv'
<1> DEFINE rows == {<<s, entry[s].label>> : s \in {x \in Corpus : Known(x)}}
<1>1. /\ query.state = "check" /\ UNCHANGED <<reader, allowed, since, fixed>>
      /\ query' = [query EXCEPT !.state = "listed", !.listed = rows]
  BY DEF ListRows
<1>2. query \in QueryType /\ reader \in ReaderType /\ RegistryTypeOK
  BY DEF QueryInv, Typed, AnswerTypeOK
<1>3. \A s \in Corpus : entry[s].label \in 0 .. TopLabel /\ shelf[s] \in 0 .. TopLabel
  BY <1>2 DEF RegistryTypeOK
<1>4. rows \in SUBSET (Corpus \X Labels)
  BY <1>3, Constants DEF Known, Labels
<1>5. \A s \in Corpus, l \in Labels : <<s, l>> \in rows <=> entry[s].label = l /\ l # 0
  BY <1>3 DEF Known
<1> HIDE DEF rows
<1>6. query' \in QueryType
  BY <1>1, <1>2, <1>4 DEF QueryType
<1>7. /\ query'.state = "listed" /\ query'.clearance = query.clearance /\ query'.listed = rows
      /\ query'.scope = query.scope /\ query'.found = query.found
  BY <1>1, <1>2 DEF QueryType
<1>8. IdsOK' /\ ScopeOK' /\ FoundOK' /\ Running
  BY <1>1, <1>7, Beneath DEF QueryInv, IdsOK, ScopeOK, FoundOK, Running, OK, Durable
<1>9. ReaderOK'
  BY <1>1 DEF QueryInv, ReaderOK
<1>10. \A s \in Corpus : ClearanceCovers(rightful[s], query.clearance) => s \in allowed
  BY <1>8 DEF QueryInv, VisibleOK
<1>11. ListedOK'
  <2> SUFFICES ASSUME NEW s \in Corpus
               PROVE  /\ \A l \in Labels :
                           <<s, l>> \in rows /\ ClearanceCovers(l, query.clearance) => s \in allowed
                      /\ /\ ~Durable
                         /\ \A l \in Labels : <<s, l>> \notin rows
                         /\ ClearanceCovers(shelf[s], query.clearance)
                         => OK(s)
    BY <1>1, <1>7, Beneath DEF ListedOK, OK, Durable
  <2>1. ASSUME NEW l \in Labels, <<s, l>> \in rows, ClearanceCovers(l, query.clearance)
        PROVE  s \in allowed
    <3>1. rightful[s] = l
      BY <1>5, <2>1 DEF QueryInv, LabelsOK
    <3> QED
      BY <1>10, <2>1, <3>1
  <2>2. ASSUME ~Durable, \A l \in Labels : <<s, l>> \notin rows,
               ClearanceCovers(shelf[s], query.clearance)
        PROVE  OK(s)
    <3>1. entry[s].label = 0
      <4>1. entry[s].label # 0 => entry[s].label \in Labels
        BY <1>3, Constants DEF Labels
      <4>2. entry[s].label \in Labels => entry[s].label = 0
        BY <1>5, <2>2
      <4> QED
        BY <4>1, <4>2
    <3>2. shelf[s] # 0
      <4>1. query.clearance \in Nat
        BY <1>2, Constants DEF QueryType, Labels
      <4> QED
        BY <2>2, <4>1 DEF ClearanceCovers
    <3>3. s \in reverted \/ shelf[s] = rightful[s]
      BY <3>1, <3>2 DEF QueryInv, LabelsOK
    <3> QED
      BY <1>10, <2>2, <3>3 DEF OK
  <2> QED
    BY <2>1, <2>2
<1> QED
  BY <1>1, <1>2, <1>6, <1>7, <1>8, <1>9, <1>11, GoesOn

LEMMA ScopeStep ==
  ASSUME QueryInv, Scoped
  PROVE  QueryInv'
<1> DEFINE scope == {s \in Corpus : Counted(s) /\ Asked(s)}
           next == IF NothingToSearch(scope) THEN "answered"
                   ELSE IF query.mode = "auto" THEN "route" ELSE "plan"
<1>1. /\ query.state = "listed" /\ UNCHANGED <<reader, allowed, since, fixed>>
      /\ query' = [query EXCEPT !.scope = scope, !.listed = {}, !.ids = scope, !.state = next]
  BY DEF Scoped
<1>2. query \in QueryType /\ reader \in ReaderType
  BY DEF QueryInv, Typed, AnswerTypeOK
<1>3. scope \in SUBSET Corpus /\ next \in {"answered", "route", "plan"}
      /\ (next # "answered" => scope # {})
  BY DEF NothingToSearch
<1>4. \A s \in scope : OK(s)
  BY <1>1 DEF Counted, QueryInv, ListedOK, OK
<1> HIDE DEF scope, next
<1>5. query' \in QueryType
  BY <1>1, <1>2, <1>3 DEF QueryType
<1>6. /\ query'.state = next /\ query'.clearance = query.clearance /\ query'.scope = scope
      /\ query'.ids = scope /\ query'.found = query.found
  BY <1>1, <1>2 DEF QueryType
<1>7. ListedOK' /\ IdsOK' /\ Running
  BY <1>1, <1>3, <1>6 DEF ListedOK, IdsOK, Running
<1>8. ScopeOK' /\ FoundOK'
  BY <1>1, <1>4, <1>6, Beneath DEF QueryInv, ScopeOK, FoundOK, OK, Durable
<1>9. ReaderOK'
  BY <1>1 DEF QueryInv, ReaderOK
<1> QED
  BY <1>1, <1>2, <1>5, <1>6, <1>7, <1>8, <1>9, GoesOn

\* A plan is followed with a filter within the scope, empty at most for databases.
LEMMA FollowStep ==
  ASSUME QueryInv, Running, NEW plan \in SUBSET Retrievers, NEW ids \in SUBSET query.scope,
         ids = {} => plan = {"sql"},
         Follow(plan, ids), UNCHANGED <<allowed, since, fixed>>
  PROVE  QueryInv'
<1>1. ids \in SUBSET Corpus
  BY DEF QueryInv, Typed, AnswerTypeOK, QueryType
<1>2. /\ query' \in QueryType /\ reader' \in ReaderType
      /\ query'.state = "retrieve" /\ query'.plan = plan /\ query'.ids = ids
      /\ query'.scope = query.scope /\ query'.found = query.found
      /\ query'.clearance = query.clearance
      /\ \A m \in Retrievers : reader'[m].at \in {"off", "start"}
  BY <1>1, FollowTypes DEF QueryInv
<1>3. ListedOK' /\ IdsOK' /\ ReaderOK'
  BY <1>2 DEF ListedOK, IdsOK, ReaderOK
<1>4. ScopeOK' /\ FoundOK'
  BY <1>2, Beneath DEF QueryInv, ScopeOK, FoundOK, OK, Durable
<1> QED
  BY <1>2, <1>3, <1>4, GoesOn

\* What the route of a question leads to.
LEMMA Routed ==
  ASSUME QueryInv, NEW score \in Scorings, Route(score)
  PROVE  \/ Refuse
         \/ Follow({"sql"}, Databases \cap query.scope)
         \/ \E plan \in SUBSET Retrievers : Follow(plan, query.scope)
<1> DEFINE chosen == PlanOf(Winner(score))
<1>1. Configured[setting] \in SUBSET Retrievers /\ DefaultPlan \in SUBSET Retrievers
  BY QueriesAssumption DEF QueryInv, Typed, RegistryTypeOK, DefaultPlan, Retrievers
<1>2. CASE chosen = {"sql"}
  BY <1>1, <1>2 DEF Route, RouteSql
<1>3. CASE chosen # {"sql"}
  <2>1. Follow(IF chosen \subseteq Configured[setting] THEN chosen ELSE DefaultPlan, query.scope)
    BY <1>3 DEF Route
  <2> HIDE DEF chosen
  <2>2. (IF chosen \subseteq Configured[setting] THEN chosen ELSE DefaultPlan) \in SUBSET Retrievers
    BY <1>1
  <2> QED
    BY <2>1, <2>2
<1> QED
  BY <1>2, <1>3

LEMMA RouteStep ==
  ASSUME QueryInv, NEW score \in Scorings, Route(score)
  PROVE  QueryInv'
<1> DEFINE ids == Databases \cap query.scope
<1>1. query.state = "route" /\ UNCHANGED <<allowed, since, fixed>> /\ Running
  BY DEF Route, Running
<1>2. query.scope # {} /\ {"sql"} \in SUBSET Retrievers
  BY <1>1 DEF QueryInv, IdsOK, Retrievers
<1>3. CASE Refuse
  BY <1>1, <1>3, Refused
<1>4. CASE Follow({"sql"}, ids)
  <2>1. ids \in SUBSET query.scope
    OBVIOUS
  <2> HIDE DEF ids
  <2> QED
    BY <1>1, <1>2, <1>4, <2>1, FollowStep
<1>5. ASSUME NEW plan \in SUBSET Retrievers, Follow(plan, query.scope)
      PROVE  QueryInv'
  BY <1>1, <1>2, <1>5, FollowStep
<1> QED
  BY <1>3, <1>4, <1>5, Routed

LEMMA OverrideStep ==
  ASSUME QueryInv, NEW plan \in SUBSET Retrievers, Override(plan)
  PROVE  QueryInv'
<1>1. query.state = "plan" /\ UNCHANGED <<allowed, since, fixed>> /\ Running
  BY DEF Override, Running
<1>2. query.scope # {}
  BY <1>1 DEF QueryInv, IdsOK
<1>3. CASE Refuse
  BY <1>1, <1>3, Refused
<1>4. CASE Follow(plan, query.scope)
  BY <1>1, <1>2, <1>4, FollowStep
<1> QED
  BY <1>3, <1>4 DEF Override
-----------------------------------------------------------------------------
(* Retrievers *)

\* A retriever chooses a generation that is active.
LEMMA ChooseStep ==
  ASSUME QueryInv, NEW m \in Retrievers, query.state = "retrieve", NEW g \in since,
         Goes(m, "search", g), UNCHANGED <<query, allowed, since, fixed>>
  PROVE  QueryInv'
<1>1. Typed /\ g \in 0 .. 2 /\ query \in QueryType /\ Running
  BY DEF QueryInv, Typed, AnswerTypeOK, Running
<1>2. /\ reader' \in ReaderType
      /\ reader'[m] = [at |-> "search", gen |-> g]
      /\ \A n \in Retrievers \ {m} : reader'[n] = reader[n]
  BY <1>1, GoesTypes
<1>3. ReaderOK'
  BY <1>2 DEF QueryInv, ReaderOK
<1>4. ListedOK' /\ IdsOK' /\ ScopeOK' /\ FoundOK'
  BY Beneath DEF QueryInv, ListedOK, IdsOK, ScopeOK, FoundOK, OK, Durable
<1> QED
  BY <1>1, <1>2, <1>3, <1>4, GoesOn

\* A retriever finds sources that the filter admits.
LEMMA FindStep ==
  ASSUME QueryInv, NEW m \in Retrievers, query.state = "retrieve", m \in query.plan,
         NEW S \in SUBSET Corpus, NEW g \in 0 .. 2,
         m \in Vectorial => g \in since,
         m = "sql" => S \subseteq query.ids,
         Find(m, S, g), Goes(m, "done", 0), UNCHANGED <<allowed, since, fixed>>
  PROVE  QueryInv'
<1>1. Typed /\ query \in QueryType /\ Running
  BY DEF QueryInv, Typed, AnswerTypeOK, Running
<1>2. /\ query' \in QueryType
      /\ \A e \in query'.found : e \in query.found
                \/ (e.source \in S /\ Admits(e.source) /\ e.by = m /\ e.gen = g)
      /\ query'.state = query.state /\ query'.plan = query.plan /\ query'.ids = query.ids
      /\ query'.scope = query.scope /\ query'.clearance = query.clearance
  BY <1>1, FindTypes
<1>3. /\ reader' \in ReaderType
      /\ reader'[m] = [at |-> "done", gen |-> 0]
      /\ \A n \in Retrievers \ {m} : reader'[n] = reader[n]
  BY <1>1, GoesTypes
<1>4. \A s \in S : Admits(s) => s \in query.scope
  <2>1. CASE m = "sql"
    BY <2>1 DEF QueryInv, IdsOK
  <2>2. CASE m # "sql"
    <3>1. query.ids # {}
      BY <2>2 DEF QueryInv, IdsOK
    <3> QED
      BY <3>1 DEF Admits, QueryInv, IdsOK
  <2> QED
    BY <2>1, <2>2
<1>5. FoundOK'
  <2> SUFFICES ASSUME NEW e \in query'.found
               PROVE  OK(e.source) /\ (e.by \in Vectorial => e.gen \in since)
    BY Beneath DEF FoundOK, OK, Durable
  <2>1. CASE e \in query.found
    BY <2>1 DEF QueryInv, FoundOK
  <2>2. CASE e.source \in S /\ Admits(e.source) /\ e.by = m /\ e.gen = g
    BY <1>4, <2>2 DEF QueryInv, ScopeOK
  <2> QED
    BY <1>2, <2>1, <2>2
<1>6. ListedOK' /\ IdsOK' /\ ScopeOK'
  BY <1>2, Beneath DEF QueryInv, ListedOK, IdsOK, ScopeOK, OK, Durable
<1>7. ReaderOK'
  BY <1>2, <1>3 DEF QueryInv, ReaderOK
<1> QED
  BY <1>1, <1>2, <1>3, <1>5, <1>6, <1>7, GoesOn

LEMMA RetrieverStep ==
  ASSUME QueryInv, NEW m \in Retrievers,
         RetrieverFails(m) \/ ReadVectorPointer(m) \/ SearchVectors(m)
  PROVE  QueryInv'
<1>1. UNCHANGED <<allowed, since, fixed>> /\ query.state = "retrieve" /\ m \in query.plan
  BY DEF RetrieverFails, ReadVectorPointer, SearchVectors, At
<1>2. Running /\ activated.vector \in since
  BY <1>1 DEF Running, QueryInv, SinceOK
<1>3. CASE RetrieverFails(m)
  BY <1>1, <1>3, Refused DEF RetrieverFails
<1>4. CASE ReadVectorPointer(m)
  BY <1>1, <1>2, <1>4, ChooseStep DEF ReadVectorPointer
<1>5. CASE SearchVectors(m)
  <2> DEFINE g == reader[m].gen
             S == IF g \in erased THEN {} ELSE indexed[g]
  <2>1. g \in since /\ m \in {"vector", "window"}
    BY <1>5 DEF SearchVectors, At, QueryInv, ReaderOK
  <2>2. since \subseteq {1, 2} /\ indexed \in [1 .. 2 -> SUBSET Corpus]
    BY DEF QueryInv, Typed, IndexesTypeOK, AnswerTypeOK
  <2>3. g \in 1 .. 2
    <3>1. g = 1 \/ g = 2
      BY <2>1, <2>2
    <3> QED
      BY <3>1
  <2>4. S \in SUBSET Corpus
    BY <2>2, <2>3
  <2>5. Find(m, S, g) /\ Goes(m, "done", 0)
    BY <1>5 DEF SearchVectors
  <2> HIDE DEF S, g
  <2> QED
    BY <1>1, <2>1, <2>3, <2>4, <2>5, FindStep DEF Vectorial
<1> QED
  BY <1>3, <1>4, <1>5

LEMMA LexicalStep ==
  ASSUME QueryInv, ReadExpected \/ SearchLexical
  PROVE  QueryInv'
<1>1. /\ UNCHANGED <<allowed, since, fixed>> /\ query.state = "retrieve"
      /\ "lexical" \in query.plan /\ "lexical" \in Retrievers
  BY DEF ReadExpected, SearchLexical, At, Retrievers
<1>2. Running /\ activated.vector \in since
  BY <1>1 DEF Running, QueryInv, SinceOK
<1>3. CASE ReadExpected
  BY <1>1, <1>2, <1>3, ChooseStep DEF ReadExpected
<1>4. CASE SearchLexical /\ ~Agrees(reader["lexical"].gen)
  BY <1>1, <1>4, Refused DEF SearchLexical
<1>5. CASE SearchLexical /\ Agrees(reader["lexical"].gen)
  <2> DEFINE g == activated.lexical
  <2>1. g \in since
    BY <1>1, <1>5 DEF SearchLexical, At, Agrees, QueryInv, ReaderOK
  <2>2. activated \in [vector : {1, 2}, lexical : {1, 2}] /\ indexed \in [1 .. 2 -> SUBSET Corpus]
    BY DEF QueryInv, Typed, IndexesTypeOK
  <2>3. g \in 1 .. 2 /\ indexed[g] \in SUBSET Corpus
    BY <2>2
  <2>4. Find("lexical", indexed[g], g) /\ Goes("lexical", "done", 0)
    BY <1>5 DEF SearchLexical
  <2> HIDE DEF g
  <2> QED
    BY <1>1, <2>1, <2>3, <2>4, FindStep
<1> QED
  BY <1>3, <1>4, <1>5

LEMMA GraphStep ==
  ASSUME QueryInv, SearchGraph \/ GraphMissing
  PROVE  QueryInv'
<1>1. /\ UNCHANGED <<allowed, since, fixed>> /\ query.state = "retrieve"
      /\ "graph" \in query.plan /\ "graph" \in Retrievers
  BY DEF SearchGraph, GraphMissing, At, Retrievers
<1>2. CASE SearchGraph
  <2>1. Supporting \in SUBSET Corpus
    BY DEF Supporting, QueryInv, Typed, IndexesTypeOK
  <2>2. Find("graph", Supporting, 0) /\ Goes("graph", "done", 0)
    BY <1>2 DEF SearchGraph
  <2> QED
    BY <1>1, <2>1, <2>2, FindStep DEF Vectorial
<1>3. CASE GraphMissing /\ query.mode # "auto"
  BY <1>1, <1>3, Refused DEF GraphMissing
<1>4. CASE GraphMissing /\ query.mode = "auto"
  <2>1. /\ query' = [query EXCEPT !.plan = DefaultPlan, !.ids = query.scope, !.found = {}]
        /\ Start(DefaultPlan)
    BY <1>4 DEF GraphMissing
  <2>2. query \in QueryType /\ DefaultPlan \in SUBSET Retrievers /\ Running
    BY <1>1 DEF QueryInv, Typed, AnswerTypeOK, DefaultPlan, Retrievers, Running
  <2>3. query' \in QueryType
    BY <2>1, <2>2 DEF QueryType
  <2>4. /\ query'.state = "retrieve" /\ query'.plan = DefaultPlan /\ query'.ids = query.scope
        /\ query'.scope = query.scope /\ query'.found = {} /\ query'.clearance = query.clearance
    BY <1>1, <2>1, <2>2 DEF QueryType
  <2>5. reader' \in ReaderType /\ \A m \in Retrievers : reader'[m].at \in {"off", "start"}
    BY <2>1, StartTypes
  <2>6. query.scope # {}
    BY <1>1 DEF QueryInv, IdsOK
  <2>7. ListedOK' /\ IdsOK' /\ FoundOK' /\ ReaderOK'
    BY <2>4, <2>5, <2>6 DEF ListedOK, IdsOK, FoundOK, ReaderOK
  <2>8. ScopeOK'
    BY <1>1, <2>4, Beneath DEF QueryInv, ScopeOK, OK, Durable
  <2> QED
    BY <1>1, <2>2, <2>3, <2>4, <2>5, <2>7, <2>8, GoesOn
<1> QED
  BY <1>2, <1>3, <1>4

LEMMA DatabaseStep ==
  ASSUME QueryInv, SearchDatabase
  PROVE  QueryInv'
<1>1. /\ UNCHANGED <<allowed, since, fixed>> /\ query.state = "retrieve"
      /\ "sql" \in query.plan /\ "sql" \in Retrievers
  BY DEF SearchDatabase, At, Retrievers
<1>2. query.ids \in SUBSET Corpus
  BY DEF QueryInv, Typed, AnswerTypeOK, QueryType
<1>3. CASE Refuse
  BY <1>1, <1>3, Refused
<1>4. CASE Find("sql", query.ids, 0) /\ Goes("sql", "done", 0)
  BY <1>1, <1>2, <1>4, FindStep DEF Vectorial
<1> QED
  BY <1>3, <1>4 DEF SearchDatabase

LEMMA AnswerStep ==
  ASSUME QueryInv, Answer
  PROVE  QueryInv'
<1>1. /\ query.state = "retrieve" /\ UNCHANGED <<allowed, since, fixed>> /\ Running
      /\ query' = [query EXCEPT !.state = "answered"] /\ Rest
  BY DEF Answer, Running
<1>2. query \in QueryType
  BY DEF QueryInv, Typed, AnswerTypeOK
<1>3. query' \in QueryType
  BY <1>1, <1>2 DEF QueryType
<1>4. /\ query'.state = "answered" /\ query'.clearance = query.clearance
      /\ query'.scope = query.scope /\ query'.found = query.found
  BY <1>1, <1>2 DEF QueryType
<1>5. reader' \in ReaderType /\ \A m \in Retrievers : reader'[m].at = "off"
  BY <1>1, NoQueryType DEF Rest
<1>6. ListedOK' /\ IdsOK' /\ ReaderOK'
  BY <1>4, <1>5 DEF ListedOK, IdsOK, ReaderOK
<1>7. ScopeOK' /\ FoundOK'
  BY <1>1, <1>4, Beneath DEF QueryInv, ScopeOK, FoundOK, OK, Durable
<1> QED
  BY <1>1, <1>3, <1>4, <1>5, <1>6, <1>7, GoesOn

LEMMA StutterStep ==
  ASSUME QueryInv, UNCHANGED queryVars
  PROVE  QueryInv'
<1> USE DEF queryVars, registry, indexes, answering, truth
<1>1. Typed'
  BY DEF QueryInv, Typed, RegistryTypeOK, IndexesTypeOK, AnswerTypeOK
<1>2. ScopeOK' /\ IdsOK' /\ FoundOK' /\ ReaderOK' /\ \A s \in Corpus : OK(s) => OK(s)'
  BY Later
<1>3. LabelsOK' /\ VisibleOK' /\ SinceOK'
  BY DEF QueryInv, LabelsOK, VisibleOK, SinceOK, Running
<1>4. ListedOK'
  BY <1>2 DEF QueryInv, ListedOK, Durable
<1> QED
  BY <1>1, <1>2, <1>3, <1>4 DEF QueryInv

LEMMA Step == QueryInv /\ [QueryNext]_queryVars => QueryInv'
<1> SUFFICES ASSUME QueryInv, [QueryNext]_queryVars
             PROVE  QueryInv'
  OBVIOUS
<1>1. CASE UNCHANGED queryVars
  BY <1>1, StutterStep
<1>2. CASE RegistryNext
  BY <1>2, SourceStep, RebootStep
<1>3. CASE IndexesNext
  BY <1>3, IndexStep
<1>4. CASE AnswerNext
  BY <1>4, AskStep, CheckStep, ListStep, ScopeStep, RouteStep, OverrideStep, RetrieverStep,
     LexicalStep, GraphStep, DatabaseStep, AnswerStep DEF AnswerNext
<1> QED
  BY <1>1, <1>2, <1>3, <1>4 DEF QueryNext
-----------------------------------------------------------------------------
(* What was indexed all the time is found: an invariant on top of QueryInv *)

\* The second generation is not active before it is built, and the first one is deleted after.
Moved ==
  /\ stage = "none" => activated.vector = 1 /\ 2 \notin since
  /\ stage = "moved" => activated.vector = 2
  /\ 2 \notin erased
  /\ erased # {} => setting = "pinecone" /\ activated.vector = 2

\* A retriever that reads an index takes all of the scope.
FullFilter == query.state = "retrieve" => query.ids = query.scope \/ query.plan = {"sql"}

Disturbed == setting = "pinecone" /\ {1, 2} \subseteq since
Lasting(s) == \A g \in since : s \in indexed[g]
Got(s) == \E e \in query.found : e.source = s

\* Some retriever that reads an index has done its part.
Searched ==
  \/ query.state = "answered" /\ query.plan \cap Vectorial # {}
  \/ \E m \in query.plan \cap Vectorial : reader[m].at = "done"

FoundAll == Searched /\ ~Disturbed => \A s \in query.scope : Lasting(s) => Got(s)

Unplanned == query.state \notin {"retrieve", "answered"} => query.plan = {}

Finding == Moved /\ Unplanned /\ FullFilter /\ FoundAll

LEMMA FindingIs == QueryInv /\ Finding => IndexedFound
<1> SUFFICES ASSUME QueryInv, Finding, Answered, query.plan \cap Vectorial # {},
                    ~(setting = "pinecone" /\ Cardinality(since) > 1)
             PROVE  \A s \in query.scope : Lasting(s) => Got(s)
  BY DEF IndexedFound, Vectorial, Lasting, Got
<1>1. ASSUME {1, 2} \subseteq since
      PROVE  Cardinality(since) > 1
  <2>1. since = {1} \cup {2}
    BY <1>1 DEF QueryInv, Typed, AnswerTypeOK
  <2>2. IsFiniteSet({1}) /\ Cardinality({1}) = 1
    BY FS_Singleton
  <2>3. Cardinality({1} \cup {2}) = IF 2 \in {1} THEN 1 ELSE 1 + 1
    BY <2>2, FS_AddElement
  <2> QED
    BY <2>1, <2>3
<1> QED
  BY <1>1 DEF Finding, FoundAll, Searched, Disturbed, Answered

LEMMA InitFinding == QueryInit => Finding
<1> SUFFICES ASSUME QueryInit
             PROVE  Finding
  OBVIOUS
<1>1. query.state = "none" /\ query.plan = {}
  BY DEF QueryInit, NoQuery
<1>2. Moved
  BY DEF QueryInit, Moved
<1> QED
  BY <1>1, <1>2 DEF Finding, Unplanned, FullFilter, FoundAll, Searched

\* Beneath a query that does not move, more may become active, but what was active stays as it is.
LEMMA StillFound ==
  ASSUME Finding, UNCHANGED <<setting, query, reader>>, since \subseteq since',
         \A g \in since : indexed'[g] = indexed[g]
  PROVE  Unplanned' /\ FullFilter' /\ FoundAll'
<1>1. Unplanned' /\ FullFilter'
  BY DEF Finding, Unplanned, FullFilter
<1>2. ASSUME NEW s, Lasting(s)'
      PROVE  Lasting(s)
  BY <1>2 DEF Lasting
<1>3. (Searched' => Searched) /\ (Disturbed => Disturbed')
  BY DEF Searched, Disturbed
<1>4. \A s : Got(s) => Got(s)'
  BY DEF Got
<1> QED
  BY <1>1, <1>2, <1>3, <1>4 DEF Finding, FoundAll

LEMMA SourceFinding ==
  ASSUME Finding, RegistryNext, ~Reboot
  PROVE  Finding'
<1> USE DEF registry, indexes, answering, truth
<1>1. UNCHANGED <<setting, indexed, erased, activated, stage, query, reader, since>>
  BY DEF RegistryNext, AddSource, FinishSource, RemoveRow, RemoveShelf, Relabel
<1>2. Moved'
  BY <1>1 DEF Finding, Moved
<1> QED
  BY <1>1, <1>2, StillFound DEF Finding

LEMMA RebootFinding ==
  ASSUME QueryInv, Finding, Reboot
  PROVE  Finding'
<1>1. /\ query' = NoQuery /\ since' = {} /\ UNCHANGED <<setting, erased, activated>>
      /\ stage' \notin {"none", "moved"}
  BY DEF Reboot
<1>2. query'.state = "none" /\ query'.plan = {}
  BY <1>1 DEF NoQuery
<1>3. Moved'
  BY <1>1 DEF Finding, Moved
<1> QED
  BY <1>2, <1>3 DEF Finding, Unplanned, FullFilter, FoundAll, Searched

LEMMA IndexFinding ==
  ASSUME QueryInv, Finding, IndexesNext
  PROVE  Finding'
<1> USE DEF registry, indexes, answering, truth
<1>1. IndexesTypeOK /\ since \subseteq {1, 2} /\ Moved
  BY DEF QueryInv, Typed, AnswerTypeOK, Finding
<1>2. /\ UNCHANGED <<setting, query, reader>> /\ since \subseteq since'
      /\ \A g \in since : indexed'[g] = indexed[g]
  <2>1. CASE Build
    <3>1. 2 \notin since /\ since \subseteq 1 .. 2
      BY <1>1, <2>1 DEF Build, Moved
    <3> QED
      BY <1>1, <2>1, <3>1 DEF Build, IndexesTypeOK
  <2>2. CASE ~Build
    BY <2>2 DEF IndexesNext, MoveLexicalPointer, MoveVectorPointer, RollBack, PublishBoth, EraseOld,
         VectorsAt, ChartList, ChartFails, ChartPublish
  <2> QED
    BY <2>1, <2>2
<1>3. Moved'
  <2>1. CASE Build
    BY <1>1, <2>1 DEF Build, Moved
  <2>2. CASE MoveLexicalPointer \/ RollBack
    BY <1>1, <2>2 DEF MoveLexicalPointer, RollBack, Moved, IndexesTypeOK
  <2>3. CASE MoveVectorPointer \/ PublishBoth
    BY <1>1, <2>3 DEF MoveVectorPointer, PublishBoth, VectorsAt, Moved, IndexesTypeOK
  <2>4. CASE EraseOld
    BY <1>1, <2>4 DEF EraseOld, Cleaned, Moved
  <2>5. CASE ChartList \/ ChartFails \/ ChartPublish
    BY <1>1, <2>5 DEF ChartList, ChartFails, ChartPublish, Moved
  <2> QED
    BY <2>1, <2>2, <2>3, <2>4, <2>5 DEF IndexesNext
<1> QED
  BY <1>2, <1>3, StillFound DEF Finding

\* The query reads, and the indexes stay.
LEMMA StillMoved ==
  ASSUME Finding, UNCHANGED <<since, fixed>>
  PROVE  Moved'
BY DEF Finding, Moved, fixed, registry, indexes

\* A query whose retrievers have not begun has still everything to find.
LEMMA NothingYet ==
  ASSUME Moved', query'.state # "answered" \/ query'.plan = {},
         \A m \in Retrievers : reader'[m].at # "done", query'.plan \subseteq Retrievers,
         query'.state = "retrieve" => query'.ids = query'.scope \/ query'.plan = {"sql"},
         query'.state = "retrieve" \/ query'.plan = {}
  PROVE  Finding'
BY DEF Finding, Unplanned, FullFilter, FoundAll, Searched

LEMMA RefuseFinding ==
  ASSUME Finding, Refuse, UNCHANGED <<since, fixed>>
  PROVE  Finding'
<1>1. query'.state = "refused" /\ query'.plan = {} /\ \A m \in Retrievers : reader'[m].at = "off"
  BY DEF Refuse, NoQuery, Rest, Resting
<1> QED
  BY <1>1, StillMoved, NothingYet

LEMMA FollowFinding ==
  ASSUME QueryInv, Finding, NEW plan \in SUBSET Retrievers, NEW ids \in SUBSET Corpus,
         ids = query.scope \/ plan = {"sql"}, Follow(plan, ids), UNCHANGED <<since, fixed>>
  PROVE  Finding'
<1>1. /\ query'.state = "retrieve" /\ query'.plan = plan /\ query'.ids = ids
      /\ query'.scope = query.scope
  BY FollowTypes DEF QueryInv
<1>2. \A m \in Retrievers : reader'[m].at \in {"off", "start"}
  BY StartTypes DEF Follow
<1> QED
  BY <1>1, <1>2, StillMoved, NothingYet

\* Before the retrievers run, a query has nothing to find.
LEMMA EarlyFinding ==
  ASSUME QueryInv, Finding,
         \/ \E label \in Labels, mode \in QueryModes, wanted \in Filters :
              AskQuery(label, mode, wanted)
         \/ \E s \in Corpus : Check(s)
         \/ ListRows \/ Scoped
  PROVE  Finding'
<1>0. query \in QueryType /\ reader \in ReaderType /\ activated.vector \in {1, 2}
  BY DEF QueryInv, Typed, AnswerTypeOK, IndexesTypeOK
<1>1. ASSUME NEW label \in Labels, NEW mode \in QueryModes, NEW wanted \in Filters,
             AskQuery(label, mode, wanted)
      PROVE  Finding'
  <2>1. /\ query.state = "none" /\ since' = {activated.vector} /\ UNCHANGED <<reader, fixed>>
        /\ query'.state = "check" /\ query'.plan = {}
    BY <1>1 DEF AskQuery, NoQuery
  <2>2. Moved'
    BY <2>1 DEF Finding, Moved, fixed, indexes, registry
  <2>3. \A m \in Retrievers : reader'[m].at # "done"
    BY <2>1 DEF QueryInv, ReaderOK
  <2> QED
    BY <2>1, <2>2, <2>3, NothingYet
<1>2. ASSUME NEW s \in Corpus, Check(s), ~Refuse
      PROVE  query'.state = "check" /\ query'.plan = query.plan /\ query.state = "check"
             /\ UNCHANGED <<reader, since, fixed>>
  BY <1>0, <1>2 DEF Check, QueryType
<1>3. ASSUME ListRows
      PROVE  query'.state = "listed" /\ query'.plan = query.plan /\ query.state = "check"
             /\ UNCHANGED <<reader, since, fixed>>
  BY <1>0, <1>3 DEF ListRows, QueryType
<1>4. ASSUME Scoped
      PROVE  query'.state \in {"answered", "route", "plan"} /\ query'.plan = query.plan
             /\ query.state = "listed" /\ UNCHANGED <<reader, since, fixed>>
  BY <1>0, <1>4 DEF Scoped, QueryType
<1>5. query.state \notin {"retrieve", "answered"} =>
        query.plan = {} /\ \A m \in Retrievers : reader[m].at # "done"
  BY DEF Finding, Unplanned, QueryInv, ReaderOK
<1>6. ASSUME query.state \in {"check", "listed"}, query'.plan = query.plan,
             query'.state # "retrieve", UNCHANGED <<reader, since, fixed>>
      PROVE  Finding'
  BY <1>5, <1>6, StillMoved, NothingYet
<1>7. ASSUME NEW s \in Corpus, Check(s)
      PROVE  Finding'
  BY <1>2, <1>6, <1>7, RefuseFinding DEF Check
<1> QED
  BY <1>1, <1>3, <1>4, <1>6, <1>7

LEMMA RouteFinding ==
  ASSUME QueryInv, Finding, NEW score \in Scorings, Route(score)
  PROVE  Finding'
<1> DEFINE ids == Databases \cap query.scope
<1>1. UNCHANGED <<since, fixed>> /\ query.scope \in SUBSET Corpus
  BY DEF Route, QueryInv, Typed, AnswerTypeOK, QueryType
<1>2. {"sql"} \in SUBSET Retrievers /\ ids \in SUBSET Corpus
  BY <1>1 DEF Retrievers
<1> HIDE DEF ids
<1>3. Refuse \/ Follow({"sql"}, ids) \/ \E plan \in SUBSET Retrievers : Follow(plan, query.scope)
  BY Routed DEF ids
<1> QED
  BY <1>1, <1>2, <1>3, RefuseFinding, FollowFinding

LEMMA OverrideFinding ==
  ASSUME QueryInv, Finding, NEW plan \in SUBSET Retrievers, Override(plan)
  PROVE  Finding'
<1>1. UNCHANGED <<since, fixed>> /\ query.scope \in SUBSET Corpus
  BY DEF Override, QueryInv, Typed, AnswerTypeOK, QueryType
<1> QED
  BY <1>1, RefuseFinding, FollowFinding DEF Override

\* A retriever that chooses its generation has still to search it.
LEMMA ChooseFinding ==
  ASSUME QueryInv, Finding, NEW m \in Retrievers, query.state = "retrieve", NEW g \in since,
         Goes(m, "search", g), UNCHANGED <<query, since, fixed>>
  PROVE  Finding'
<1>1. g \in 0 .. 2 /\ Typed
  BY DEF QueryInv, Typed, AnswerTypeOK
<1>2. reader'[m].at = "search" /\ \A n \in Retrievers \ {m} : reader'[n] = reader[n]
  BY <1>1, GoesTypes
<1>3. query.plan \subseteq Retrievers /\ UNCHANGED <<setting, indexed>>
  BY <1>1 DEF Typed, AnswerTypeOK, QueryType, fixed, indexes, registry
<1>4. Searched' => Searched
  BY <1>2, <1>3 DEF Searched
<1>5. FoundAll'
  BY <1>3, <1>4 DEF Finding, FoundAll, Disturbed, Lasting, Got
<1> QED
  BY <1>5, StillMoved DEF Finding, Unplanned, FullFilter

\* One that has searched has found what was indexed all the time, if it reads an index.
LEMMA GetFinding ==
  ASSUME QueryInv, Finding, NEW m \in Retrievers, query.state = "retrieve", m \in query.plan,
         NEW S \in SUBSET Corpus, NEW g \in 0 .. 2,
         m \in Vectorial /\ ~Disturbed => \A s \in Corpus : Lasting(s) => s \in S,
         Find(m, S, g), Goes(m, "done", 0), UNCHANGED <<since, fixed>>
  PROVE  Finding'
<1>1. Typed /\ query \in QueryType /\ 0 \in 0 .. 2
  BY DEF QueryInv, Typed, AnswerTypeOK
<1>2. /\ query'.state = query.state /\ query'.plan = query.plan /\ query'.ids = query.ids
      /\ query'.scope = query.scope
  BY <1>1, FindTypes
<1> DEFINE F == {[source |-> s, by |-> m, gen |-> g] : s \in {x \in S : Admits(x)}}
<1>3. query'.found = query.found \cup F
  BY <1>1 DEF Find, QueryType
<1>4. ASSUME NEW s \in S, Admits(s)
      PROVE  \E e \in F : e.source = s
  <2>1. [source |-> s, by |-> m, gen |-> g] \in F
    BY <1>4
  <2> HIDE DEF F
  <2> QED
    BY <2>1
<1> HIDE DEF F
<1>5. /\ \A s : Got(s) => Got(s)'
      /\ \A s \in S : Admits(s) => Got(s)'
  BY <1>3, <1>4 DEF Got
<1>6. \A n \in Retrievers \ {m} : reader'[n] = reader[n]
  BY <1>1, GoesTypes
<1>7. query.plan \subseteq Retrievers /\ query.scope \subseteq Corpus
      /\ UNCHANGED <<setting, indexed>>
  BY <1>1 DEF QueryType, fixed, indexes, registry
<1>8. FoundAll'
  <2> SUFFICES ASSUME Searched', ~Disturbed, NEW s \in query.scope, Lasting(s)
               PROVE  Got(s)'
    BY <1>2, <1>7 DEF FoundAll, Disturbed, Lasting
  <2>1. CASE m \in Vectorial
    <3>1. query.ids = query.scope
      BY <2>1 DEF Finding, FullFilter, Vectorial
    <3> QED
      BY <1>5, <1>7, <2>1, <3>1 DEF Admits
  <2>2. CASE m \notin Vectorial
    <3>1. Searched
      BY <1>2, <1>6, <1>7, <2>2 DEF Searched
    <3> QED
      BY <1>5, <3>1 DEF Finding, FoundAll
  <2> QED
    BY <2>1, <2>2
<1> QED
  BY <1>2, <1>8, StillMoved DEF Finding, Unplanned, FullFilter

LEMMA RetrieverFinding ==
  ASSUME QueryInv, Finding, NEW m \in Retrievers,
         RetrieverFails(m) \/ ReadVectorPointer(m) \/ SearchVectors(m)
  PROVE  Finding'
<1>1. UNCHANGED <<since, fixed>> /\ query.state = "retrieve" /\ m \in query.plan
  BY DEF RetrieverFails, ReadVectorPointer, SearchVectors, At
<1>2. activated.vector \in since
  BY <1>1 DEF Running, QueryInv, SinceOK
<1>3. CASE RetrieverFails(m)
  BY <1>1, <1>3, RefuseFinding DEF RetrieverFails
<1>4. CASE ReadVectorPointer(m)
  BY <1>1, <1>2, <1>4, ChooseFinding DEF ReadVectorPointer
<1>5. CASE SearchVectors(m)
  <2> DEFINE g == reader[m].gen
             S == IF g \in erased THEN {} ELSE indexed[g]
  <2>1. g \in since
    BY <1>5 DEF SearchVectors, At, QueryInv, ReaderOK
  <2>2. since \subseteq {1, 2} /\ indexed \in [1 .. 2 -> SUBSET Corpus]
    BY DEF QueryInv, Typed, IndexesTypeOK, AnswerTypeOK
  <2>3. g \in 1 .. 2
    <3>1. g = 1 \/ g = 2
      BY <2>1, <2>2
    <3> QED
      BY <3>1
  <2>4. S \in SUBSET Corpus
    BY <2>2, <2>3
  <2>5. Find(m, S, g) /\ Goes(m, "done", 0)
    BY <1>5 DEF SearchVectors
  <2>6. ASSUME g \in erased
        PROVE  Disturbed
    \* The first generation was active when it was chosen, and the second is active by now.
    BY <1>2, <2>1, <2>2, <2>6 DEF Finding, Moved, Disturbed
  <2>7. ~Disturbed => \A s \in Corpus : Lasting(s) => s \in S
    BY <2>1, <2>6 DEF Lasting
  <2> HIDE DEF S, g
  <2> QED
    BY <1>1, <2>3, <2>4, <2>5, <2>7, GetFinding
<1> QED
  BY <1>3, <1>4, <1>5

LEMMA LexicalFinding ==
  ASSUME QueryInv, Finding, ReadExpected \/ SearchLexical
  PROVE  Finding'
<1>1. /\ UNCHANGED <<since, fixed>> /\ query.state = "retrieve"
      /\ "lexical" \in query.plan /\ "lexical" \in Retrievers
  BY DEF ReadExpected, SearchLexical, At, Retrievers
<1>2. activated.vector \in since
  BY <1>1 DEF Running, QueryInv, SinceOK
<1>3. CASE ReadExpected
  BY <1>1, <1>2, <1>3, ChooseFinding DEF ReadExpected
<1>4. CASE SearchLexical /\ ~Agrees(reader["lexical"].gen)
  BY <1>1, <1>4, RefuseFinding DEF SearchLexical
<1>5. CASE SearchLexical /\ Agrees(reader["lexical"].gen)
  <2> DEFINE g == activated.lexical
  <2>1. g \in since
    BY <1>1, <1>5 DEF SearchLexical, At, Agrees, QueryInv, ReaderOK
  <2>2. activated \in [vector : {1, 2}, lexical : {1, 2}] /\ indexed \in [1 .. 2 -> SUBSET Corpus]
    BY DEF QueryInv, Typed, IndexesTypeOK
  <2>3. g \in 1 .. 2 /\ indexed[g] \in SUBSET Corpus
    BY <2>2
  <2>4. Find("lexical", indexed[g], g) /\ Goes("lexical", "done", 0)
    BY <1>5 DEF SearchLexical
  <2> HIDE DEF g
  <2>5. \A s \in Corpus : Lasting(s) => s \in indexed[g]
    BY <2>1 DEF Lasting
  <2> QED
    BY <1>1, <2>3, <2>4, <2>5, GetFinding
<1> QED
  BY <1>3, <1>4, <1>5

LEMMA GraphFinding ==
  ASSUME QueryInv, Finding, SearchGraph \/ GraphMissing
  PROVE  Finding'
<1>1. /\ UNCHANGED <<since, fixed>> /\ query.state = "retrieve"
      /\ "graph" \in query.plan /\ "graph" \in Retrievers /\ query \in QueryType
  BY DEF SearchGraph, GraphMissing, At, Retrievers, QueryInv, Typed, AnswerTypeOK
<1>2. CASE SearchGraph
  <2>1. Supporting \in SUBSET Corpus
    BY DEF Supporting, QueryInv, Typed, IndexesTypeOK
  <2>2. Find("graph", Supporting, 0) /\ Goes("graph", "done", 0) /\ 0 \in 0 .. 2
    BY <1>2 DEF SearchGraph
  <2> QED
    BY <1>1, <2>1, <2>2, GetFinding DEF Vectorial
<1>3. CASE Refuse
  BY <1>1, <1>3, RefuseFinding
<1>4. CASE GraphMissing /\ ~Refuse
  <2>1. /\ query' = [query EXCEPT !.plan = DefaultPlan, !.ids = query.scope, !.found = {}]
        /\ Start(DefaultPlan)
    BY <1>4 DEF GraphMissing
  <2>2. /\ query'.state = "retrieve" /\ query'.plan = DefaultPlan
        /\ query'.ids = query'.scope
    BY <1>1, <2>1 DEF QueryType
  <2>3. \A m \in Retrievers : reader'[m].at \in {"off", "start"}
    BY <2>1, StartTypes
  <2>4. DefaultPlan \subseteq Retrievers
    BY DEF DefaultPlan, Retrievers
  <2> QED
    BY <1>1, <2>2, <2>3, <2>4, StillMoved, NothingYet
<1> QED
  BY <1>2, <1>3, <1>4

LEMMA DatabaseFinding ==
  ASSUME QueryInv, Finding, SearchDatabase
  PROVE  Finding'
<1>1. /\ UNCHANGED <<since, fixed>> /\ query.state = "retrieve"
      /\ "sql" \in query.plan /\ "sql" \in Retrievers /\ query.ids \in SUBSET Corpus
  BY DEF SearchDatabase, At, Retrievers, QueryInv, Typed, AnswerTypeOK, QueryType
<1>2. CASE Refuse
  BY <1>1, <1>2, RefuseFinding
<1>3. CASE Find("sql", query.ids, 0) /\ Goes("sql", "done", 0)
  BY <1>1, <1>3, GetFinding DEF Vectorial
<1> QED
  BY <1>2, <1>3 DEF SearchDatabase

LEMMA AnswerFinding ==
  ASSUME QueryInv, Finding, Answer
  PROVE  Finding'
<1>1. /\ query.state = "retrieve" /\ UNCHANGED <<since, fixed>>
      /\ query' = [query EXCEPT !.state = "answered"] /\ Rest
      /\ \A m \in query.plan : reader[m].at = "done"
  BY DEF Answer
<1>2. /\ query'.state = "answered" /\ query'.plan = query.plan
      /\ query'.scope = query.scope /\ query'.found = query.found /\ query.plan \subseteq Retrievers
  BY <1>1 DEF QueryInv, Typed, AnswerTypeOK, QueryType
<1>3. \A m \in Retrievers : reader'[m].at = "off"
  BY <1>1, NoQueryType DEF Rest
<1>4. Searched' => Searched
  BY <1>1, <1>2, <1>3 DEF Searched
<1>5. UNCHANGED <<setting, indexed>>
  BY <1>1 DEF fixed, registry, indexes
<1>6. FoundAll'
  BY <1>1, <1>2, <1>4, <1>5 DEF Finding, FoundAll, Disturbed, Lasting, Got
<1> QED
  BY <1>1, <1>2, <1>6, StillMoved DEF Finding, Unplanned, FullFilter

LEMMA FindingStep == QueryInv /\ Finding /\ [QueryNext]_queryVars => Finding'
<1> SUFFICES ASSUME QueryInv, Finding, [QueryNext]_queryVars
             PROVE  Finding'
  OBVIOUS
<1>1. CASE UNCHANGED queryVars
  <2>1. UNCHANGED <<query, reader, since, fixed, setting, indexed>>
    BY <1>1 DEF queryVars, answering, fixed, registry, indexes, truth
  <2> QED
    BY <2>1, StillMoved, StillFound DEF Finding
<1>2. CASE RegistryNext
  BY <1>2, SourceFinding, RebootFinding
<1>3. CASE IndexesNext
  BY <1>3, IndexFinding
<1>4. CASE AnswerNext
  BY <1>4, EarlyFinding, RouteFinding, OverrideFinding, RetrieverFinding, LexicalFinding,
     GraphFinding, DatabaseFinding, AnswerFinding DEF AnswerNext
<1> QED
  BY <1>1, <1>2, <1>3, <1>4 DEF QueryNext
-----------------------------------------------------------------------------
(* Theorems *)

\* The inductive invariant holds in every reachable state.
THEOREM QueryInvariance == QuerySpec => []QueryInv
<1>1. QueryInit => QueryInv
  BY InitInv
<1>2. QueryInv /\ [QueryNext]_queryVars => QueryInv'
  BY Step
<1> QED
  BY <1>1, <1>2, PTL DEF QuerySpec

\* The registry, the indexes and the query are well formed in every reachable state.
THEOREM QueryTypes == QuerySpec => []QueryTypeOK
<1>1. QueryInv => QueryTypeOK
  BY TypedIs DEF QueryInv
<1> QED
  BY <1>1, QueryInvariance, PTL

\* No interleaving of a query with changes of the registry, activations of generations, rebuilds of
\* the graph and restarts lets an answer rest on what its caller might not see (query_service.py),
\* but for what a registry in memory forgot.
THEOREM AnswersAreRightful == QuerySpec => []AnswersRightful
<1>1. QueryInv => AnswersRightful
  BY DEF QueryInv, FoundOK, OK, AnswersRightful
<1> QED
  BY <1>1, QueryInvariance, PTL

\* No retriever of documents uses a generation that was not active while the query ran, although
\* the vectors and the lexical index are activated one after the other.
THEOREM AnswersAreFromActive == QuerySpec => []AnswersFromActive
<1>1. QueryInv => AnswersFromActive
  BY DEF QueryInv, FoundOK, Vectorial, AnswersFromActive
<1> QED
  BY <1>1, QueryInvariance, PTL
\* A source that every generation active during a query holds is in its answer, if the query may
\* use it and reads an index at all (query_service.py, fusion.py): neither the pointers that move
\* one after the other nor a route that falls back nor a rebuild makes it miss such a source, but
\* for the deletion of the generation that was active before (pinecone_store.py).
THEOREM IndexedAreFound == QuerySpec => []IndexedFound
<1>1. QueryInit => QueryInv /\ Finding
  BY InitInv, InitFinding
<1>2. QueryInv /\ Finding /\ [QueryNext]_queryVars => (QueryInv /\ Finding)'
  BY Step, FindingStep
<1>3. QueryInv /\ Finding => IndexedFound
  BY FindingIs
<1> QED
  BY <1>1, <1>2, <1>3, PTL DEF QuerySpec

(***************************************************************************)
(* All of them                                                             *)
(***************************************************************************)

\* Whoever is at work, the state of every part is one that its own specification reaches: what
\* is proved of the parts holds of the composition that the runs check.
THEOREM AccessImplementsParts == AccessSpec => AccountSpec /\ OrgSpec /\ LimitSpec /\ QuerySpec
<1> DEFINE vars == <<accountVars, orgVars, limitVars, queryVars, part>>
<1>1. AccessInit => AccountInit /\ OrgInit /\ LimitInit /\ QueryInit
  BY DEF AccessInit
<1>2. [AccessNext]_vars =>
        [AccountNext]_accountVars /\ [OrgNext]_orgVars /\ [LimitNext]_limitVars /\ [QueryNext]_queryVars
  BY DEF AccessNext
<1> QED
  BY <1>1, <1>2, PTL DEF AccessSpec, AccountSpec, OrgSpec, LimitSpec, QuerySpec

\* Every variable of the accounts, the organizations, the limits and the queries keeps its type.
THEOREM AccessTypes == AccessSpec => []AccessTypeOK
<1>1. AccountTypeOK /\ OrgTypeOK /\ LimitInv /\ QueryTypeOK => AccessTypeOK
  BY DEF AccessTypeOK, LimitInv
<1> QED
  BY <1>1, AccessImplementsParts, AccountTypes, OrganizationTypes, LimitInvariance, QueryTypes, PTL
=============================================================================
