------------------------------ MODULE Sessions ------------------------------
(***************************************************************************)
(* Access tokens from login to logout (auth.service.ts, jwt.strategy.ts,   *)
(* auth-token-blacklist.service.ts) and the sockets opened with them       *)
(* (chat.gateway.ts).                                                      *)
(*                                                                         *)
(* A logout writes the hash of the token into Redis for as long as the     *)
(* token would still live.  An HTTP request is checked in the order        *)
(* signature and expiry (passport), blacklist, member; a socket in the     *)
(* order blacklist, signature and expiry, member, and only once, when it   *)
(* connects.  Every check is a call of its own, and time passes in between.*)
(* Redis keeps what it is given until it expires.                          *)
(***************************************************************************)
EXTENDS Integers

CONSTANTS
    Members, Tokens, Handlers, Sockets,
    Lifetime,    \* ACCESS_EXPIRATION
    MaxTime,     \* bound on the clock
    None

ASSUME SessionAssumption ==
    /\ Lifetime \in Nat \ {0} /\ MaxTime \in Nat
    /\ None \notin Members /\ None \notin Tokens

VARIABLES
    clock,
    active,     \* members with status ACTIVE that are not deleted
    token,      \* issued tokens: member and expiry
    blacklist,  \* auth:blacklist:<hash>: when the key expires (0: no key)
    loggedOut,  \* tokens whose logout has been answered
    txn,        \* per handler: the request, handshake or logout it works on
    socket      \* per socket: the token it was opened with

vars == <<clock, active, token, blacklist, loggedOut, txn, socket>>

Issued == [member: Members, exp: Nat]
NotIssued == [member |-> None, exp |-> 0]

\* `late`: the request came in after the logout of its token was answered;
\* `gone`: after its member had withdrawn.
Idle == [stage |-> "idle", token |-> None, socket |-> None, ttl |-> 0,
         late |-> FALSE, gone |-> FALSE]

Transaction ==
    [stage: {"idle", "verified", "listed", "accepted", "checked", "opening", "revoking"},
     token: Tokens \union {None}, socket: Sockets \union {None}, ttl: Nat,
     late: BOOLEAN, gone: BOOLEAN]

Closed == [token |-> None, late |-> FALSE, gone |-> FALSE]

TypeOK ==
    /\ clock \in Nat
    /\ active \subseteq Members
    /\ token \in [Tokens -> Issued \union {NotIssued}]
    /\ blacklist \in [Tokens -> Nat]
    /\ loggedOut \subseteq Tokens
    /\ txn \in [Handlers -> Transaction]
    /\ \A h \in Handlers :
         txn[h].stage # "idle" => txn[h].token \in Tokens /\ token[txn[h].token] \in Issued
    /\ socket \in [Sockets -> [token: Tokens \union {None}, late: BOOLEAN, gone: BOOLEAN]]

Init ==
    /\ clock = 0
    /\ active = Members
    /\ token = [t \in Tokens |-> NotIssued]
    /\ blacklist = [t \in Tokens |-> 0]
    /\ loggedOut = {}
    /\ txn = [h \in Handlers |-> Idle]
    /\ socket = [s \in Sockets |-> Closed]

-----------------------------------------------------------------------------
Live(t) == clock < token[t].exp
Blacklisted(t) == clock < blacklist[t]
Owner(t) == token[t].member

Start(h, stage, t, s, ttl) ==
    /\ txn[h].stage = "idle"
    /\ token[t] \in Issued
    /\ txn' = [txn EXCEPT ![h] =
                 [stage |-> stage, token |-> t, socket |-> s, ttl |-> ttl,
                  late |-> t \in loggedOut, gone |-> Owner(t) \notin active]]

\* The next check of handler h passes if `passed`, else the request is refused.
Check(h, from, passed, to) ==
    /\ txn[h].stage = from
    /\ txn' = [txn EXCEPT ![h] = IF passed THEN [@ EXCEPT !.stage = to] ELSE Idle]

Finish(h, from) == /\ txn[h].stage = from
                   /\ txn' = [txn EXCEPT ![h] = Idle]

-----------------------------------------------------------------------------
\* validateUser and oAuthLogin find an active member, login signs a token.
Login(m, t) ==
    /\ m \in active
    /\ token[t] = NotIssued
    /\ token' = [token EXCEPT ![t] = [member |-> m, exp |-> clock + Lifetime]]
    /\ UNCHANGED <<clock, active, blacklist, loggedOut, txn, socket>>

\* MemberService.withdraw: INACTIVE and deleted.
Withdraw(m) ==
    /\ m \in active
    /\ active' = active \ {m}
    /\ UNCHANGED <<clock, token, blacklist, loggedOut, txn, socket>>

\* logout: decode the token (no check of the signature, the blacklist or the
\* member) and compute the time it has left ...
LogoutBegin(h, t) ==
    /\ Live(t)
    /\ Start(h, "revoking", t, None, token[t].exp - clock)
    /\ UNCHANGED <<clock, active, token, blacklist, loggedOut, socket>>

\* ... and set the key with that time to live.
LogoutSet(h) ==
    LET t == txn[h].token IN
    /\ Finish(h, "revoking")
    /\ blacklist' = [blacklist EXCEPT ![t] = clock + txn[h].ttl]
    /\ loggedOut' = loggedOut \union {t}
    /\ UNCHANGED <<clock, active, token, socket>>

-----------------------------------------------------------------------------
\* An HTTP request: passport-jwt verifies the token, validate() asks the
\* blacklist and then loads the member.
Request(h, t) ==
    /\ Live(t)
    /\ Start(h, "verified", t, None, 0)
    /\ UNCHANGED <<clock, active, token, blacklist, loggedOut, socket>>

\* Mutant: the answer of the blacklist is not awaited.
RequestBlacklistIgnored(h) ==
    /\ Check(h, "verified", TRUE, "listed")
    /\ UNCHANGED <<clock, active, token, blacklist, loggedOut, socket>>

RequestBlacklist(h) ==
    /\ Check(h, "verified", ~Blacklisted(txn[h].token), "listed")
    /\ UNCHANGED <<clock, active, token, blacklist, loggedOut, socket>>

RequestMember(h) ==
    /\ Check(h, "listed", Owner(txn[h].token) \in active, "accepted")
    /\ UNCHANGED <<clock, active, token, blacklist, loggedOut, socket>>

\* The controller's handler has run.
RequestDone(h) ==
    /\ Finish(h, "accepted")
    /\ UNCHANGED <<clock, active, token, blacklist, loggedOut, socket>>

-----------------------------------------------------------------------------
\* Mutant: the order of the HTTP requests.
HandshakeOrderHTTP == <<"expiry", "blacklist">>

\* authenticate: the blacklist is asked before the token is verified.
HandshakeOrder == <<"blacklist", "expiry">>

Passes(check, t) == IF check = "blacklist" THEN ~Blacklisted(t) ELSE Live(t)

\* handleConnection: the first check of the handshake ...
Connect(h, s, t) ==
    /\ socket[s] = Closed
    /\ Passes(HandshakeOrder[1], t)
    /\ Start(h, "checked", t, s, 0)
    /\ UNCHANGED <<clock, active, token, blacklist, loggedOut, socket>>

\* ... the second ...
ConnectVerify(h) ==
    /\ Check(h, "checked", Passes(HandshakeOrder[2], txn[h].token), "opening")
    /\ UNCHANGED <<clock, active, token, blacklist, loggedOut, socket>>

\* ... and the member; the socket joins the room of its member, or is closed.
ConnectMember(h) ==
    LET t == txn[h].token IN
    /\ Finish(h, "opening")
    /\ socket' = IF Owner(t) \in active
                 THEN [socket EXCEPT ![txn[h].socket] =
                         [token |-> t, late |-> txn[h].late, gone |-> txn[h].gone]]
                 ELSE socket
    /\ UNCHANGED <<clock, active, token, blacklist, loggedOut>>

\* handleDisconnect; nothing in the server closes an open socket.
Disconnect(s) ==
    /\ socket[s] # Closed
    /\ socket' = [socket EXCEPT ![s] = Closed]
    /\ UNCHANGED <<clock, active, token, blacklist, loggedOut, txn>>

Tick ==
    /\ clock < MaxTime
    /\ clock' = clock + 1
    /\ UNCHANGED <<active, token, blacklist, loggedOut, txn, socket>>

Next ==
    \/ \E m \in Members : Withdraw(m) \/ \E t \in Tokens : Login(m, t)
    \/ \E h \in Handlers :
          \/ \E t \in Tokens :
                \/ LogoutBegin(h, t) \/ Request(h, t)
                \/ \E s \in Sockets : Connect(h, s, t)
          \/ LogoutSet(h) \/ RequestBlacklist(h) \/ RequestMember(h) \/ RequestDone(h)
          \/ ConnectVerify(h) \/ ConnectMember(h)
    \/ \E s \in Sockets : Disconnect(s)
    \/ Tick

Spec == Init /\ [][Next]_vars

-----------------------------------------------------------------------------
\* The key of a logged out token does not expire before the token does, however
\* long the logout takes and however often it is repeated.
BlacklistOutlivesToken == \A t \in loggedOut : blacklist[t] >= token[t].exp

\* No socket is opened with a token whose logout had been answered before the
\* handshake, not even in the moment the token expires: asking the blacklist
\* first is what excludes it.
NoLateSocket == \A s \in Sockets : ~socket[s].late

\* An HTTP request with such a token gets through in one case only: the token
\* expires between the check of its expiry and the question to the blacklist,
\* which has just forgotten it.
LateRequestsExpired ==
    \A h \in Handlers :
        (txn[h].stage \in {"listed", "accepted"} /\ txn[h].late) => ~Live(txn[h].token)

\* Nothing is done for a member who had withdrawn before the request or the
\* handshake began, whatever tokens are still alive.
WithdrawnMembersRefused ==
    /\ \A h \in Handlers : txn[h].stage = "accepted" => ~txn[h].gone
    /\ \A s \in Sockets : ~socket[s].gone

\* What HTTP requests get through: none of a member who has withdrawn, and of a
\* logged out token only one that the expiry of the token raced.
RequestsRefused == LateRequestsExpired /\ WithdrawnMembersRefused

\* "The use of an existing token is blocked after logout."
LoggedOutTokenRefused == \A h \in Handlers : txn[h].stage = "accepted" => ~txn[h].late

\* The same of the sockets that are open.
SocketEndsWithLogout == \A s \in Sockets : socket[s].token \notin loggedOut
=============================================================================
