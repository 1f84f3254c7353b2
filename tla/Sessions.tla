------------------------------ MODULE Sessions ------------------------------
(***************************************************************************)
(* Signing in: AuthProvider and the api() helper of one browser, the       *)
(* authentication service with its refresh tokens.                         *)
(*                                                                         *)
(* api() sends a call with the access token in memory; on a 401 it rotates *)
(* the refresh token of the cookie and repeats the call once.  Several     *)
(* calls run at the same time (an effect of the page each), share the      *)
(* access token and the cookie, and are suspended at every `await`; so are *)
(* the handlers in the backend.                                            *)
(***************************************************************************)
EXTENDS Integers

CONSTANTS
    Wallets, None,
    Signing,      \* wallets that can sign messages
    Calls,        \* bound: tasks of the page under way at a time
    MaxTokens,    \* bound: refresh tokens issued
    MaxEnds       \* bound: what ends a session: sign-outs, expiry, lost rotations

ASSUME WalletAssumption == None \notin Wallets /\ Signing \subseteq Wallets
ASSUME BoundAssumption  == MaxTokens \in Nat /\ MaxEnds \in Nat

Tokens == 1..MaxTokens

VARIABLES
    (* the browser *)
    wallet,        \* the wallet that is connected
    user,          \* AuthContext.user: whose profile the page shows
    access,        \* the access token in memory: [of, version], or none
    cookie,        \* the refresh token in the cookie; 0: none
    task, owner,   \* what a call is for, and the wallet its closure captured
    request,       \* the endpoint it talks to
    stage,         \* where it is suspended
    header,        \* the access token it sent
    carried,       \* the cookie its refresh sent, or the token it got
    memory,        \* the user document its handler has loaded
    (* the backend *)
    current,       \* the calls whose nonce is still the siwsNonce of its user
    version,       \* tokenVersion
    family,        \* tokenFamily
    tokens,        \* the refresh tokens issued
    live,          \* those that are neither revoked nor expired
    device,        \* the user another browser is signing out everywhere, or None
    ends           \* history: sign-outs, expired tokens, rotations cut off half-way

pageVars == <<wallet, user, access, cookie>>
callVars == <<task, owner, request, stage, header, carried, memory>>
userVars == <<version, family>>
vars == <<pageVars, callVars, current, userVars, tokens, live, device, ends>>

NoAccess  == [of |-> None, version |-> 0]
Somebody(w) == [of |-> w, version |-> 0, family |-> 0]
NoMemory  == Somebody(None)
Access    == [of : Wallets \cup {None}, version : Nat]
Memory    == [of : Wallets \cup {None}, version : Nat, family : Nat]
Protected == {"me", "work"}    \* the endpoints behind JwtAuthGuard
Arrived   == {"sent", "again"}
Refreshing == {"rotate", "found", "loaded", "purged", "revoked", "renewed"}
Stages    == Arrived \cup Refreshing \cup
             {"idle", "unauthorised", "verified", "cleared", "issued", "denied",
              "closing", "leaving", "ok", "error"}

Init ==
    /\ wallet = None /\ user = None /\ access = NoAccess /\ cookie = 0
    /\ task = [c \in Calls |-> "none"] /\ owner = [c \in Calls |-> None]
    /\ request = [c \in Calls |-> "none"] /\ stage = [c \in Calls |-> "idle"]
    /\ header = [c \in Calls |-> NoAccess] /\ carried = [c \in Calls |-> 0]
    /\ memory = [c \in Calls |-> NoMemory]
    /\ current = {}
    /\ version = [w \in Wallets |-> 0] /\ family = [w \in Wallets |-> 0]
    /\ tokens = [t \in {} |-> NoMemory] /\ live = {}
    /\ device = None /\ ends = 0

Issued == DOMAIN tokens

-----------------------------------------------------------------------------
(***************************************************************************)
(* The page                                                                *)
(***************************************************************************)

(* api(path): the header is fixed when the call is made.                   *)
Send(c, endpoint, s, token) ==
    /\ request' = [request EXCEPT ![c] = endpoint]
    /\ stage' = [stage EXCEPT ![c] = s]
    /\ header' = [header EXCEPT ![c] = token]

Begin(c, work, endpoint, w) ==
    /\ stage[c] = "idle"
    /\ task' = [task EXCEPT ![c] = work]
    /\ owner' = [owner EXCEPT ![c] = w]
    /\ carried' = [carried EXCEPT ![c] = IF endpoint = "logout" THEN cookie ELSE 0]
    /\ Send(c, endpoint, "sent", access)
    /\ UNCHANGED current

Finish(c) ==
    /\ task' = [task EXCEPT ![c] = "none"] /\ owner' = [owner EXCEPT ![c] = None]
    /\ request' = [request EXCEPT ![c] = "none"] /\ stage' = [stage EXCEPT ![c] = "idle"]
    /\ header' = [header EXCEPT ![c] = NoAccess] /\ carried' = [carried EXCEPT ![c] = 0]
    /\ memory' = [memory EXCEPT ![c] = NoMemory] /\ current' = current \ {c}

backendVars == <<userVars, tokens, live, device, ends>>

(* The effect of AuthProvider: a wallet is connected, or another one; the  *)
(* session is restored from the cookie.  Nothing cancels the run for the   *)
(* wallet before.                                                          *)
Connect(c, w) ==
    /\ wallet # w /\ wallet' = w
    /\ Begin(c, "restore", "me", w)
    /\ UNCHANGED <<user, access, cookie, memory, backendVars>>

Disconnect ==
    /\ wallet # None
    /\ wallet' = None /\ access' = NoAccess /\ user' = None
    /\ UNCHANGED <<current, cookie, callVars, backendVars>>

(* login(), also from its button.                                          *)
Login(c) ==
    /\ wallet \in Signing /\ user = None
    /\ Begin(c, "login", "nonce", wallet)
    /\ UNCHANGED <<pageVars, memory, backendVars>>

Logout(c) ==
    /\ user # None
    /\ Begin(c, "logout", "logout", None)
    /\ UNCHANGED <<pageVars, memory, backendVars>>

(* Any other call behind JwtAuthGuard: the pages also make it for a wallet *)
(* that is connected and nobody who is signed in.                          *)
Work(c) ==
    /\ Begin(c, "work", "work", None)
    /\ UNCHANGED <<pageVars, memory, backendVars>>

(* getMe answered with the profile of the wallet of the closure: it is     *)
(* shown.                                                                  *)
Restored(c) ==
    /\ task[c] = "restore" /\ stage[c] = "ok" /\ memory[c].of = owner[c]
    /\ user' = owner[c]
    /\ Finish(c)
    /\ UNCHANGED <<wallet, access, cookie, backendVars>>

(* Another profile, or an error: login() for a wallet that can sign; for   *)
(* another one the page goes on showing whom it showed before.             *)
NotRestored(c) ==
    /\ task[c] = "restore"
    /\ stage[c] = "error" \/ (stage[c] = "ok" /\ memory[c].of # owner[c])
    /\ access' = NoAccess
    /\ \/ /\ owner[c] \in Signing
          /\ task' = [task EXCEPT ![c] = "login"]
          /\ Send(c, "nonce", "sent", NoAccess)
          /\ memory' = [memory EXCEPT ![c] = NoMemory]
          /\ UNCHANGED <<owner, carried, current>>
       \/ /\ owner[c] \notin Signing
          /\ Finish(c)
    /\ UNCHANGED <<wallet, user, cookie, backendVars>>

(* The message of the nonce is signed in the wallet and sent.              *)
Sign(c) ==
    /\ request[c] = "nonce" /\ stage[c] = "ok"
    /\ Send(c, "verify", "sent", access)
    /\ UNCHANGED <<current, pageVars, task, owner, carried, memory, backendVars>>

(* verify answered: its cookie is stored, its token and user are shown.    *)
LoggedIn(c) ==
    /\ request[c] = "verify" /\ stage[c] = "issued"
    /\ cookie' = carried[c]
    /\ access' = [of |-> memory[c].of, version |-> memory[c].version]
    /\ user' = owner[c]
    /\ Finish(c)
    /\ UNCHANGED <<wallet, backendVars>>

(* The nonce or verify call failed, or the user did not sign.              *)
LoginFailed(c) ==
    /\ task[c] = "login"
    /\ stage[c] = "error" \/ (request[c] = "nonce" /\ stage[c] = "ok")
    /\ access' = NoAccess /\ user' = None
    /\ Finish(c)
    /\ UNCHANGED <<wallet, cookie, backendVars>>

(* The page forgets the session whatever the call returned; the cookie is  *)
(* cleared by the answer.                                                  *)
LoggedOut(c) ==
    /\ task[c] = "logout" /\ stage[c] \in {"ok", "error"}
    /\ access' = NoAccess /\ user' = None
    /\ cookie' = IF stage[c] = "ok" THEN 0 ELSE cookie
    /\ Finish(c)
    /\ UNCHANGED <<wallet, backendVars>>

Worked(c) ==
    /\ task[c] = "work" /\ stage[c] \in {"ok", "error"}
    /\ Finish(c)
    /\ UNCHANGED <<pageVars, backendVars>>

(* api() on a 401: tryRefresh, once.                                       *)
Refresh(c) ==
    /\ stage[c] = "unauthorised"
    /\ stage' = [stage EXCEPT ![c] = "rotate"]
    /\ carried' = [carried EXCEPT ![c] = cookie]
    /\ UNCHANGED <<current, pageVars, task, owner, request, header, memory, backendVars>>

(* Its answer: the cookie is replaced and the call repeated.               *)
Renewed(c) ==
    /\ stage[c] = "renewed"
    /\ cookie' = carried[c]
    /\ access' = [of |-> memory[c].of, version |-> memory[c].version]
    /\ Send(c, request[c], "again", access')
    /\ memory' = [memory EXCEPT ![c] = NoMemory]
    /\ carried' = [carried EXCEPT ![c] = IF request[c] = "logout" THEN @ ELSE 0]
    /\ UNCHANGED <<current, wallet, user, task, owner, backendVars>>

(* The refresh was refused: the token in memory is dropped, although it    *)
(* may be one that another call has just obtained.                         *)
Denied(c) ==
    /\ stage[c] = "denied"
    /\ access' = NoAccess
    /\ stage' = [stage EXCEPT ![c] = "error"]
    /\ carried' = [carried EXCEPT ![c] = 0]
    /\ UNCHANGED <<current, wallet, user, cookie, task, owner, request, header, memory,
                   backendVars>>

(* A request or its answer is lost, or the backend stops, and the fetch    *)
(* throws; or an await of the handler fails and the answer is a 500, which *)
(* for a refresh is as good as a refusal.  What the handler wrote before   *)
(* stays; a rotation cut off after its token was revoked ends the session. *)
Lose(c) ==
    /\ stage[c] \notin {"idle", "unauthorised", "denied", "error"}
    /\ \E s \in {"error"} \cup (IF stage[c] \in Refreshing THEN {"denied"} ELSE {}) :
          stage' = [stage EXCEPT ![c] = s]
    /\ IF stage[c] \in {"revoked", "renewed"}
       THEN ends < MaxEnds /\ ends' = ends + 1
       ELSE UNCHANGED ends
    /\ header' = [header EXCEPT ![c] = NoAccess]
    /\ carried' = [carried EXCEPT ![c] = 0]
    /\ memory' = [memory EXCEPT ![c] = NoMemory]
    /\ UNCHANGED <<current, pageVars, task, owner, request, userVars, tokens, live, device>>

-----------------------------------------------------------------------------
(***************************************************************************)
(* The backend.  A handler changes the request's stage and its memory.     *)
(***************************************************************************)

Handling(c, here, there) ==
    /\ stage[c] \in here
    /\ stage' = [stage EXCEPT ![c] = there]
    /\ header' = [header EXCEPT ![c] = NoAccess]
    /\ UNCHANGED <<pageVars, task, owner, request>>

(* A 401: api() refreshes after the first one.                             *)
Unauthorised(c) == IF stage[c] = "sent" THEN "unauthorised" ELSE "error"

UserOf(w) == [of |-> w, version |-> version[w], family |-> family[w]]

(* JwtStrategy.validate; a token may also have expired.                    *)
Authorised(c) ==
    header[c].of # None /\ header[c].version = version[header[c].of]

Guard(c) ==
    /\ request[c] \in Protected
    /\ Handling(c, Arrived, Unauthorised(c))
    /\ UNCHANGED <<current, carried, memory, backendVars>>

(* GET /auth/me answers with the user of the token; what other handlers    *)
(* answer is not about the session.                                        *)
Serve(c) ==
    /\ request[c] \in Protected /\ Authorised(c)
    /\ Handling(c, Arrived, "ok")
    /\ memory' = [memory EXCEPT ![c] = IF request[c] = "me" THEN Somebody(header[c].of) ELSE @]
    /\ UNCHANGED <<current, carried, backendVars>>

(* generateNonce: a later one replaces it.                                 *)
Nonce(c) ==
    /\ request[c] = "nonce"
    /\ Handling(c, Arrived, "ok")
    /\ current' = {d \in current : owner[d] # owner[c]} \cup {c}
    /\ UNCHANGED <<carried, memory, userVars, tokens, live, device, ends>>

(* verifySignature: its checks, ...                                        *)
Verify(c) ==
    /\ request[c] = "verify"
    /\ IF c \in current
       THEN /\ Handling(c, Arrived, "verified")
            /\ memory' = [memory EXCEPT ![c] = UserOf(owner[c])]
       ELSE Handling(c, Arrived, Unauthorised(c)) /\ UNCHANGED memory
    /\ UNCHANGED <<current, carried, backendVars>>

(* ... the save that consumes the nonce, ...                               *)
ConsumeNonce(c) ==
    /\ Handling(c, {"verified"}, "cleared")
    /\ current' = {d \in current : owner[d] # owner[c]}
    /\ UNCHANGED <<carried, memory, userVars, tokens, live, device, ends>>

(* Mutant: the answer does not wait for the token to be stored.            *)
IssueUnsaved(c) ==
    /\ Issued # Tokens
    /\ \/ Handling(c, {"cleared"}, "issued")
       \/ Handling(c, {"revoked"}, "renewed")
    /\ carried' = [carried EXCEPT ![c] = CHOOSE t \in Tokens : t \notin Issued]
    /\ UNCHANGED <<current, memory, userVars, tokens, live, device, ends>>

(* ... and issueTokens, with the user as it was loaded.                    *)
Issue(c) ==
    /\ Issued # Tokens
    /\ \/ Handling(c, {"cleared"}, "issued")
       \/ Handling(c, {"revoked"}, "renewed")
    /\ \E t \in Tokens \ Issued :
          /\ \A u \in Tokens \ Issued : t <= u
          /\ tokens' = [u \in Issued \cup {t} |-> IF u = t THEN memory[c] ELSE tokens[u]]
          /\ live' = live \cup {t}
          /\ carried' = [carried EXCEPT ![c] = t]
    /\ UNCHANGED <<current, memory, userVars, device, ends>>

(* Mutant: a revoked token is taken for a stolen one.                      *)
FindReused(c) ==
    /\ Handling(c, {"rotate"}, IF carried[c] \in live THEN "found" ELSE "denied")
    /\ live' = IF carried[c] \in live \cup {0} THEN live
               ELSE {t \in live : tokens[t].of # tokens[carried[c]].of}
    /\ UNCHANGED <<current, carried, memory, userVars, tokens, device, ends>>

(* refreshTokens: the lookup of a token that is not revoked, refused if it *)
(* has expired, ...                                                        *)
Find(c) ==
    /\ Handling(c, {"rotate"}, IF carried[c] \in live THEN "found" ELSE "denied")
    /\ UNCHANGED <<current, carried, memory, backendVars>>

(* ... and of its user, by which time it may be revoked.                   *)
FindUser(c) ==
    /\ Handling(c, {"found"}, "loaded")
    /\ memory' = [memory EXCEPT ![c] = UserOf(tokens[carried[c]].of)]
    /\ UNCHANGED <<current, carried, backendVars>>

SameFamily(c) == tokens[carried[c]].family = memory[c].family

TokensOf(w) == {t \in Issued : tokens[t].of = w}

(* The token is revoked, whoever else is using it meanwhile.               *)
Rotate(c) ==
    /\ Handling(c, {"loaded"}, "revoked")
    /\ SameFamily(c)
    /\ live' = live \ {carried[c]}
    /\ UNCHANGED <<current, carried, memory, userVars, tokens, device, ends>>

(* A token of a former family: all are revoked, and a new family started.  *)
Purge(c) ==
    /\ Handling(c, {"loaded"}, "purged")
    /\ ~SameFamily(c)
    /\ live' = live \ TokensOf(memory[c].of)
    /\ UNCHANGED <<current, carried, memory, userVars, tokens, device, ends>>

NewFamily(c) ==
    LET next == [of |-> memory[c].of, version |-> memory[c].version + 1,
                 family |-> memory[c].family + 1]
    IN  /\ Handling(c, {"purged"}, "revoked")
        /\ memory' = [memory EXCEPT ![c] = next]
        /\ version' = [version EXCEPT ![next.of] = next.version]
        /\ family' = [family EXCEPT ![next.of] = next.family]
        /\ UNCHANGED <<current, carried, tokens, live, device, ends>>

(* logout revokes the token of the cookie, ...                             *)
RevokeOwn(c) ==
    /\ request[c] = "logout"
    /\ Handling(c, Arrived, IF carried[c] = 0 THEN "ok" ELSE "closing")
    /\ live' = live \ {carried[c]}
    /\ ends < MaxEnds /\ ends' = ends + 1
    /\ UNCHANGED <<current, carried, memory, userVars, tokens, device>>

(* ... reads its user, ...                                                 *)
FindLeaver(c) ==
    /\ Handling(c, {"closing"}, "leaving")
    /\ memory' = [memory EXCEPT ![c] = UserOf(tokens[carried[c]].of)]
    /\ UNCHANGED <<current, carried, backendVars>>

(* ... and saves one more than it has read, over whatever is there now.    *)
Outdate(c) ==
    /\ Handling(c, {"leaving"}, "ok")
    /\ version' = [version EXCEPT ![memory[c].of] = memory[c].version + 1]
    /\ memory' = [memory EXCEPT ![c] = NoMemory]
    /\ UNCHANGED <<current, carried, family, tokens, live, device, ends>>

(* A refresh token reaches its expiresAt.                                  *)
Expire(t) ==
    /\ live' = live \ {t}
    /\ ends < MaxEnds /\ ends' = ends + 1
    /\ UNCHANGED <<current, pageVars, callVars, userVars, tokens, device>>

(* logoutAll of another browser: updateMany, then the counters.            *)
DeviceRevokesAll(w) ==
    /\ device = None
    /\ device' = w
    /\ live' = live \ TokensOf(w)
    /\ ends < MaxEnds /\ ends' = ends + 1
    /\ UNCHANGED <<current, pageVars, callVars, userVars, tokens>>

DeviceOutdates ==
    /\ device # None
    /\ device' = None
    /\ version' = [version EXCEPT ![device] = @ + 1]
    /\ family' = [family EXCEPT ![device] = @ + 1]
    /\ UNCHANGED <<current, pageVars, callVars, tokens, live, ends>>

Handle(c) ==
    \/ Guard(c) \/ Serve(c) \/ Nonce(c) \/ Verify(c) \/ ConsumeNonce(c) \/ Issue(c)
    \/ Find(c) \/ FindUser(c) \/ Rotate(c) \/ Purge(c) \/ NewFamily(c)
    \/ RevokeOwn(c) \/ FindLeaver(c) \/ Outdate(c)

Next ==
    \/ Disconnect \/ DeviceOutdates
    \/ \E w \in Wallets : DeviceRevokesAll(w)
    \/ \E t \in live : Expire(t)
    \/ \E c \in Calls :
          \/ \E w \in Wallets : Connect(c, w)
          \/ Login(c) \/ Logout(c) \/ Restored(c) \/ NotRestored(c)
          \/ Sign(c) \/ LoggedIn(c) \/ LoginFailed(c)
          \/ LoggedOut(c) \/ Work(c) \/ Worked(c) \/ Refresh(c) \/ Renewed(c) \/ Denied(c)
          \/ Lose(c) \/ Handle(c)

Spec == Init /\ [][Next]_vars

-----------------------------------------------------------------------------
TypeOK ==
    /\ wallet \in Wallets \cup {None} /\ user \in Wallets \cup {None}
    /\ access \in Access /\ cookie \in Issued \cup {0}
    /\ task \in [Calls -> {"none", "restore", "login", "work", "logout"}]
    /\ owner \in [Calls -> Wallets \cup {None}]
    /\ request \in [Calls -> Protected \cup {"none", "nonce", "verify", "logout"}]
    /\ stage \in [Calls -> Stages]
    /\ header \in [Calls -> Access] /\ carried \in [Calls -> Issued \cup {0}]
    /\ memory \in [Calls -> Memory]
    /\ current \subseteq Calls
    /\ version \in [Wallets -> Nat] /\ family \in [Wallets -> Nat]
    /\ Issued \subseteq Tokens /\ tokens \in [Issued -> Memory] /\ live \subseteq Issued
    /\ device \in Wallets \cup {None} /\ ends \in 0..MaxEnds

(* Until somebody signs out, a refresh token expires, or a rotation is cut *)
(* off between its revocation and its answer, the browser can always renew *)
(* its session: its cookie is neither revoked nor expired, or the answer   *)
(* with the one that replaces it is under way.  Calls refresh at the same  *)
(* time, a late answer overwrites the cookie of an earlier one, the backend *)
(* revokes what they carry, and any other call or await may fail.          *)
SessionSurvives ==
    cookie # 0 /\ ends = 0 =>
       \/ cookie \in live
       \/ \E c \in Calls : carried[c] = cookie /\ stage[c] = "revoked"
       \/ \E c \in Calls : carried[c] \in live /\ stage[c] = "renewed"

-----------------------------------------------------------------------------
(* The inductive invariant: as long as nothing ended the session there is  *)
(* one family only and nothing is purged, ...                              *)
Calm ==
    ends = 0 => /\ device = None
                /\ \A w \in Wallets : family[w] = 0
                /\ \A t \in Issued : tokens[t].family = 0
                /\ \A c \in Calls : /\ stage[c] \notin {"purged", "closing", "leaving"}
                                      /\ memory[c].family = 0

(* ... and a token on its way to the browser is live and unknown to        *)
(* anybody else.                                                           *)
FreshInFlight ==
    \A c \in Calls : stage[c] \in {"issued", "renewed"} =>
       /\ carried[c] \in Issued /\ carried[c] # cookie
       /\ \A d \in Calls \ {c} : carried[d] # carried[c]
       /\ ends = 0 => carried[c] \in live

(* Whom a call or a token is about.                                        *)
Owned ==
    /\ \A c \in Calls :
          /\ request[c] \in {"nonce", "verify"} => owner[c] \in Wallets
          /\ stage[c] \in {"verified", "cleared", "issued", "loaded", "purged", "revoked",
                          "renewed", "leaving"} => memory[c].of \in Wallets
          /\ stage[c] \in {"found", "loaded", "closing"} => carried[c] # 0
    /\ \A t \in Issued : tokens[t].of \in Wallets

Inductive == TypeOK /\ Owned /\ Calm /\ FreshInFlight /\ SessionSurvives
=============================================================================
