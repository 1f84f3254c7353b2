--------------------------- MODULE Sessions_proofs ---------------------------
(***************************************************************************)
(* Theorems about Sessions, for all wallets, any number of calls under way *)
(* at a time, of tokens and of events that end a session.                  *)
(***************************************************************************)
EXTENDS Sessions, TLAPS

USE DEF pageVars, callVars, userVars, backendVars, Issued, Stages, Arrived, Refreshing

(* The records a call can hold.                                            *)
LEMMA Records ==
  /\ NoAccess \in Access /\ NoMemory \in Memory
  /\ NoMemory.family = 0
  /\ \A w \in Wallets \cup {None} : Somebody(w) \in Memory /\ Somebody(w).family = 0
                                     /\ Somebody(w).of = w
  /\ \A m \in Memory : [of |-> m.of, version |-> m.version] \in Access
  BY DEF NoAccess, NoMemory, Somebody, Access, Memory

LEMMA LoadedUser ==
  ASSUME TypeOK, NEW w \in Wallets
  PROVE  /\ UserOf(w) \in Memory /\ UserOf(w).of = w /\ UserOf(w).family = family[w]
  BY DEF TypeOK, UserOf, Memory

(* Nobody has signed in yet.                                               *)
LEMMA InitInductive == Init => Inductive
<1>. SUFFICES ASSUME Init PROVE Inductive
  OBVIOUS
<1>1. /\ task \in [Calls -> {"none", "restore", "login", "work", "logout"}]
      /\ owner \in [Calls -> Wallets \cup {None}]
      /\ request \in [Calls -> Protected \cup {"none", "nonce", "verify", "logout"}]
      /\ stage \in [Calls -> Stages]
      /\ version \in [Wallets -> Nat] /\ family \in [Wallets -> Nat]
  BY DEF Init, Stages
<1>2. header \in [Calls -> Access] /\ memory \in [Calls -> Memory]
  BY Records DEF Init
<1>3. Issued = {} /\ tokens \in [Issued -> Memory] /\ live \subseteq Issued /\ Issued \subseteq Tokens
  BY DEF Init
<1>4. /\ wallet \in Wallets \cup {None} /\ user \in Wallets \cup {None}
      /\ access \in Access /\ cookie \in Issued \cup {0}
      /\ carried \in [Calls -> Issued \cup {0}] /\ current \subseteq Calls
      /\ device \in Wallets \cup {None} /\ ends \in 0..MaxEnds
  BY Records, BoundAssumption DEF Init
<1>5. TypeOK
  BY <1>1, <1>2, <1>3, <1>4 DEF TypeOK
<1>6. Owned /\ FreshInFlight /\ SessionSurvives
  BY <1>3 DEF Init, Owned, FreshInFlight, SessionSurvives
<1>7. Calm
  <2>1. \A c \in Calls : memory[c].family = 0
    BY Records DEF Init
  <2>2. QED
    BY <1>3, <2>1 DEF Init, Calm
<1>8. QED
  BY <1>5, <1>6, <1>7 DEF Inductive

-----------------------------------------------------------------------------
(***************************************************************************)
(* Three ways to keep the last three conjuncts of the invariant            *)
(***************************************************************************)

Secure == Calm /\ FreshInFlight /\ SessionSurvives

(* A call changes, and holds nothing that matters before or after.         *)
LEMMA Harmless ==
  ASSUME Inductive, NEW c \in Calls, NEW s \in Stages,
         s \notin {"issued", "renewed", "purged", "closing", "leaving", "revoked"},
         stage[c] \notin {"renewed", "revoked"},
         stage' = [stage EXCEPT ![c] = s],
         \A d \in Calls \ {c} : carried'[d] = carried[d] /\ memory'[d] = memory[d],
         carried'[c] \in {carried[c], cookie, 0},
         ends = 0 => memory'[c].family = 0,
         UNCHANGED <<cookie, family, tokens, live, device, ends>>
  PROVE  Secure'
<1>1. Calm'
  BY DEF Inductive, Calm, TypeOK
<1>2. FreshInFlight'
  <2>1. 0 \notin Issued
    BY DEF Inductive, TypeOK, Tokens
  <2>2. QED
    BY <2>1 DEF Inductive, FreshInFlight, TypeOK
<1>3. SessionSurvives'
  BY DEF Inductive, SessionSurvives, TypeOK
<1>4. QED
  BY <1>1, <1>2, <1>3 DEF Secure

(* The session has ended, and no token is on its way because of it.        *)
LEMMA Ended ==
  ASSUME Inductive, ends' # 0, NEW c \in Calls, NEW s \in Stages,
         s \notin {"issued", "renewed"},
         stage' = [stage EXCEPT ![c] = s],
         \A d \in Calls \ {c} : carried'[d] = carried[d],
         carried'[c] \in {carried[c], 0},
         UNCHANGED <<cookie, tokens>>
  PROVE  Secure'
<1>1. 0 \notin Issued
  BY DEF Inductive, TypeOK, Tokens
<1>2. FreshInFlight'
  BY <1>1 DEF Inductive, FreshInFlight, TypeOK
<1>3. Calm' /\ SessionSurvives'
  BY DEF Calm, SessionSurvives
<1>4. QED
  BY <1>2, <1>3 DEF Secure

(* Nothing of it changes.                                                  *)
LEMMA Unrelated ==
  ASSUME Inductive,
         UNCHANGED <<cookie, stage, carried, memory, family, tokens, live, device, ends>>
  PROVE  Secure'
  BY DEF Inductive, Secure, Calm, FreshInFlight, SessionSurvives

-----------------------------------------------------------------------------
(***************************************************************************)
(* Types                                                                   *)
(***************************************************************************)

Typed == TypeOK /\ Owned

LEMMA TypesConnect ==
  ASSUME Inductive, NEW c \in Calls, NEW w \in Wallets, Connect(c, w)
  PROVE  Typed'
<1>1. /\ task' \in [Calls -> {"none", "restore", "login", "work", "logout"}]
      /\ owner' \in [Calls -> Wallets \cup {None}]
      /\ request' \in [Calls -> Protected \cup {"none", "nonce", "verify", "logout"}]
      /\ stage' \in [Calls -> Stages] /\ header' \in [Calls -> Access]
      /\ carried' \in [Calls -> Issued \cup {0}]
  BY WalletAssumption DEF Inductive, TypeOK, Owned, Typed, Stages, Protected, Connect, Begin, Send
<1>2. Owned'
  BY WalletAssumption DEF Inductive, TypeOK, Owned, Typed, Stages, Protected, Connect, Begin, Send
<1>3. QED
  BY <1>1, <1>2 DEF Inductive, TypeOK, Owned, Typed, Stages, Protected, Connect, Begin

LEMMA TypesLogin ==
  ASSUME Inductive, NEW c \in Calls, Login(c)
  PROVE  Typed'
<1>1. /\ task' \in [Calls -> {"none", "restore", "login", "work", "logout"}]
      /\ owner' \in [Calls -> Wallets \cup {None}]
      /\ request' \in [Calls -> Protected \cup {"none", "nonce", "verify", "logout"}]
      /\ stage' \in [Calls -> Stages] /\ header' \in [Calls -> Access]
      /\ carried' \in [Calls -> Issued \cup {0}]
  BY WalletAssumption DEF Inductive, TypeOK, Owned, Typed, Stages, Protected, Login, Begin, Send
<1>2. Owned'
  BY WalletAssumption DEF Inductive, TypeOK, Owned, Typed, Stages, Protected, Login, Begin, Send
<1>3. QED
  BY <1>1, <1>2 DEF Inductive, TypeOK, Owned, Typed, Stages, Protected, Login, Begin

LEMMA TypesLogout ==
  ASSUME Inductive, NEW c \in Calls, Logout(c)
  PROVE  Typed'
  BY Records DEF Inductive, TypeOK, Owned, Typed, Stages, Protected, Logout, Begin, Send, Finish, Handling, Arrived, Unauthorised

LEMMA TypesRestored ==
  ASSUME Inductive, NEW c \in Calls, Restored(c)
  PROVE  Typed'
  BY Records DEF Inductive, TypeOK, Owned, Typed, Stages, Protected, Restored, Begin, Send, Finish, Handling, Arrived, Unauthorised

LEMMA TypesNotRestored ==
  ASSUME Inductive, NEW c \in Calls, NotRestored(c)
  PROVE  Typed'
<1>1. CASE /\ owner[c] \in Signing
            /\ task' = [task EXCEPT ![c] = "login"]
            /\ Send(c, "nonce", "sent", NoAccess)
            /\ memory' = [memory EXCEPT ![c] = NoMemory]
            /\ UNCHANGED <<owner, carried, current>>
  <2>1. /\ task' \in [Calls -> {"none", "restore", "login", "work", "logout"}]
        /\ request' \in [Calls -> Protected \cup {"none", "nonce", "verify", "logout"}]
        /\ stage' \in [Calls -> Stages] /\ header' \in [Calls -> Access]
        /\ memory' \in [Calls -> Memory]
    BY <1>1, Records DEF Inductive, TypeOK, Stages, Send
  <2>2. Owned'
    BY <1>1, WalletAssumption DEF Inductive, TypeOK, Owned, NotRestored, Send
  <2>3. QED
    BY <1>1, <2>1, <2>2, Records DEF Inductive, TypeOK, Typed, NotRestored
<1>2. CASE Finish(c)
  <2>1. /\ access' \in Access
        /\ UNCHANGED <<wallet, user, cookie, backendVars>>
    BY Records DEF NotRestored
  <2>2. QED
    BY <1>2, <2>1, Records DEF Inductive, TypeOK, Owned, Typed, Stages, Finish
<1>3. QED
  BY <1>1, <1>2 DEF NotRestored

LEMMA TypesSign ==
  ASSUME Inductive, NEW c \in Calls, Sign(c)
  PROVE  Typed'
  BY Records DEF Inductive, TypeOK, Owned, Typed, Stages, Protected, Sign, Begin, Send, Finish, Handling, Arrived, Unauthorised

LEMMA TypesLoggedIn ==
  ASSUME Inductive, NEW c \in Calls, LoggedIn(c)
  PROVE  Typed'
<1>1. access' \in Access /\ user' \in Wallets \cup {None}
  BY Records DEF Inductive, TypeOK, Owned, Typed, Stages, Protected, LoggedIn
<1>2. QED
  BY <1>1, Records DEF Inductive, TypeOK, Owned, Typed, Stages, Protected, LoggedIn, Finish

LEMMA TypesLoginFailed ==
  ASSUME Inductive, NEW c \in Calls, LoginFailed(c)
  PROVE  Typed'
  BY Records DEF Inductive, TypeOK, Owned, Typed, Stages, Protected, LoginFailed, Begin, Send, Finish, Handling, Arrived, Unauthorised

LEMMA TypesLoggedOut ==
  ASSUME Inductive, NEW c \in Calls, LoggedOut(c)
  PROVE  Typed'
  BY Records DEF Inductive, TypeOK, Owned, Typed, Stages, Protected, LoggedOut, Begin, Send, Finish, Handling, Arrived, Unauthorised

LEMMA TypesWork ==
  ASSUME Inductive, NEW c \in Calls, Work(c)
  PROVE  Typed'
  BY Records DEF Inductive, TypeOK, Owned, Typed, Stages, Protected, Work, Begin, Send, Finish, Handling, Arrived, Unauthorised

LEMMA TypesWorked ==
  ASSUME Inductive, NEW c \in Calls, Worked(c)
  PROVE  Typed'
  BY Records DEF Inductive, TypeOK, Owned, Typed, Stages, Protected, Worked, Begin, Send, Finish, Handling, Arrived, Unauthorised

LEMMA TypesRefresh ==
  ASSUME Inductive, NEW c \in Calls, Refresh(c)
  PROVE  Typed'
  BY Records DEF Inductive, TypeOK, Owned, Typed, Stages, Protected, Refresh, Begin, Send, Finish, Handling, Arrived, Unauthorised

LEMMA TypesRenewed ==
  ASSUME Inductive, NEW c \in Calls, Renewed(c)
  PROVE  Typed'
<1>1. access' \in Access
  BY Records DEF Inductive, TypeOK, Owned, Typed, Stages, Protected, Renewed
<1>2. QED
  BY <1>1, Records DEF Inductive, TypeOK, Owned, Typed, Stages, Protected, Renewed, Send

LEMMA TypesDenied ==
  ASSUME Inductive, NEW c \in Calls, Denied(c)
  PROVE  Typed'
  BY Records DEF Inductive, TypeOK, Owned, Typed, Stages, Protected, Denied, Begin, Send, Finish, Handling, Arrived, Unauthorised

LEMMA TypesLose ==
  ASSUME Inductive, NEW c \in Calls, Lose(c)
  PROVE  Typed'
<1>1. ends' \in 0..MaxEnds
  BY BoundAssumption DEF Inductive, TypeOK, Lose
<1>2. PICK s \in {"error", "denied"} : stage' = [stage EXCEPT ![c] = s]
  BY DEF Lose
<1>3. header' \in [Calls -> Access] /\ memory' \in [Calls -> Memory]
  BY Records DEF Inductive, TypeOK, Lose
<1>4. QED
  BY <1>1, <1>2, <1>3 DEF Inductive, TypeOK, Owned, Typed, Lose

LEMMA TypesGuard ==
  ASSUME Inductive, NEW c \in Calls, Guard(c)
  PROVE  Typed'
  BY Records DEF Inductive, TypeOK, Owned, Typed, Stages, Protected, Guard, Begin, Send, Finish, Handling, Arrived, Unauthorised

LEMMA TypesServe ==
  ASSUME Inductive, NEW c \in Calls, Serve(c)
  PROVE  Typed'
<1>1. memory' \in [Calls -> Memory]
  BY Records DEF Inductive, TypeOK, Owned, Typed, Stages, Protected, Serve, Access
<1>2. header[c].of \in Wallets \cup {None}
  BY DEF Inductive, TypeOK, Access
<1>3. QED
  BY <1>1, <1>2, Records DEF Inductive, TypeOK, Owned, Typed, Stages, Protected, Serve, Handling, Arrived

LEMMA TypesNonce ==
  ASSUME Inductive, NEW c \in Calls, Nonce(c)
  PROVE  Typed'
  BY Records DEF Inductive, TypeOK, Owned, Typed, Stages, Protected, Nonce, Begin, Send, Finish, Handling, Arrived, Unauthorised

LEMMA TypesVerify ==
  ASSUME Inductive, NEW c \in Calls, Verify(c)
  PROVE  Typed'
<1>. DEFINE u == UserOf(owner[c])
<1>1. owner[c] \in Wallets /\ u \in Memory /\ u.of \in Wallets
  <2>1. owner[c] \in Wallets
    BY DEF Inductive, Owned, Verify
  <2>2. QED
    BY <2>1, LoadedUser DEF Inductive
<1>. HIDE DEF u
<1>2. memory' \in {memory, [memory EXCEPT ![c] = u]}
  BY DEF Verify, u
<1>3. QED
  BY <1>1, <1>2, Records DEF Inductive, TypeOK, Owned, Typed, Stages, Protected, Verify, Handling, Arrived, Unauthorised, u

LEMMA TypesConsumeNonce ==
  ASSUME Inductive, NEW c \in Calls, ConsumeNonce(c)
  PROVE  Typed'
  BY Records DEF Inductive, TypeOK, Owned, Typed, Stages, Protected, ConsumeNonce, Begin, Send, Finish, Handling, Arrived, Unauthorised

LEMMA TypesIssue ==
  ASSUME Inductive, NEW c \in Calls, Issue(c)
  PROVE  Typed'
  BY Records DEF Inductive, TypeOK, Owned, Typed, Stages, Protected, Issue, Begin, Send, Finish, Handling, Arrived, Unauthorised

LEMMA TypesFind ==
  ASSUME Inductive, NEW c \in Calls, Find(c)
  PROVE  Typed'
<1>1. PICK s \in {"found", "denied"} :
         /\ stage' = [stage EXCEPT ![c] = s]
         /\ s = "found" => carried[c] \in live
  BY DEF Find, Handling
<1>2. carried[c] \in live => carried[c] # 0
  BY DEF Inductive, TypeOK, Tokens
<1>3. QED
  BY <1>1, <1>2, Records DEF Inductive, TypeOK, Owned, Typed, Find, Handling

(* What the handler of a refresh or of a logout reads about the user of    *)
(* the token it was sent.                                                  *)
LEMMA UserOfToken ==
  ASSUME Inductive, NEW c \in Calls, stage[c] \in {"found", "closing"}
  PROVE  /\ tokens[carried[c]].of \in Wallets
         /\ UserOf(tokens[carried[c]].of) \in Memory
         /\ UserOf(tokens[carried[c]].of).of \in Wallets
<1>1. tokens[carried[c]].of \in Wallets
  BY DEF Inductive, TypeOK, Owned
<1>2. QED
  BY <1>1, LoadedUser DEF Inductive

LEMMA TypesFindUser ==
  ASSUME Inductive, NEW c \in Calls, FindUser(c) \/ FindLeaver(c)
  PROVE  Typed'
<1>. DEFINE u == UserOf(tokens[carried[c]].of)
<1>1. stage[c] \in {"found", "closing"} /\ u \in Memory /\ u.of \in Wallets /\ carried[c] # 0
  <2>1. stage[c] \in {"found", "closing"}
    BY DEF FindUser, FindLeaver, Handling
  <2>2. QED
    BY <2>1, UserOfToken DEF Inductive, Owned
<1>2. PICK s \in {"loaded", "leaving"} : stage' = [stage EXCEPT ![c] = s]
  BY DEF FindUser, FindLeaver, Handling
<1>3. /\ memory' = [memory EXCEPT ![c] = u] /\ header' = [header EXCEPT ![c] = NoAccess]
      /\ UNCHANGED <<pageVars, task, owner, request, current, carried, backendVars>>
  BY DEF FindUser, FindLeaver, Handling
<1>. HIDE DEF u
<1>4. QED
  BY <1>1, <1>2, <1>3, Records DEF Inductive, TypeOK, Owned, Typed

LEMMA TypesRotate ==
  ASSUME Inductive, NEW c \in Calls, Rotate(c)
  PROVE  Typed'
  BY Records DEF Inductive, TypeOK, Owned, Typed, Stages, Protected, Rotate, Begin, Send, Finish, Handling, Arrived, Unauthorised

LEMMA TypesPurge ==
  ASSUME Inductive, NEW c \in Calls, Purge(c)
  PROVE  Typed'
  BY Records DEF Inductive, TypeOK, Owned, Typed, Stages, Protected, Purge, Begin, Send, Finish, Handling, Arrived, Unauthorised

LEMMA TypesNewFamily ==
  ASSUME Inductive, NEW c \in Calls, NewFamily(c)
  PROVE  Typed'
<1>1. memory[c] \in Memory /\ memory[c].of \in Wallets
  BY DEF Inductive, TypeOK, Owned, NewFamily, Handling
<1>2. PICK next : next = [of |-> memory[c].of, version |-> memory[c].version + 1,
                           family |-> memory[c].family + 1]
  OBVIOUS
<1>3. next \in Memory /\ next.of \in Wallets /\ next.version \in Nat /\ next.family \in Nat
  BY <1>1, <1>2 DEF Memory
<1>4. /\ memory' = [memory EXCEPT ![c] = next]
      /\ version' = [version EXCEPT ![next.of] = next.version]
      /\ family' = [family EXCEPT ![next.of] = next.family]
  BY <1>2 DEF NewFamily
<1>5. version' \in [Wallets -> Nat] /\ family' \in [Wallets -> Nat]
  BY <1>3, <1>4 DEF Inductive, TypeOK
<1>6. memory' \in [Calls -> Memory]
  BY <1>3, <1>4 DEF Inductive, TypeOK
<1>7. QED
  BY <1>3, <1>4, <1>5, <1>6, Records DEF Inductive, TypeOK, Owned, Typed, Stages, Protected, NewFamily, Handling

LEMMA TypesRevokeOwn ==
  ASSUME Inductive, NEW c \in Calls, RevokeOwn(c)
  PROVE  Typed'
<1>1. ends' \in 0..MaxEnds
  BY BoundAssumption DEF Inductive, TypeOK, RevokeOwn
<1>2. PICK s \in {"ok", "closing"} : stage' = [stage EXCEPT ![c] = s]
  BY DEF RevokeOwn, Handling
<1>3. QED
  BY <1>1, <1>2, Records DEF Inductive, TypeOK, Owned, Typed, Stages, RevokeOwn, Handling

LEMMA TypesOutdate ==
  ASSUME Inductive, NEW c \in Calls, Outdate(c)
  PROVE  Typed'
<1>1. memory[c].of \in Wallets /\ memory[c].version + 1 \in Nat
  BY DEF Inductive, TypeOK, Owned, Memory, Outdate, Handling
<1>2. version' \in [Wallets -> Nat]
  BY <1>1 DEF Inductive, TypeOK, Outdate
<1>3. memory' \in [Calls -> Memory] /\ header' \in [Calls -> Access]
  BY Records DEF Inductive, TypeOK, Outdate, Handling
<1>4. QED
  BY <1>2, <1>3 DEF Inductive, TypeOK, Owned, Typed, Outdate, Handling

-----------------------------------------------------------------------------
(***************************************************************************)
(* The session, action by action                                           *)
(***************************************************************************)

(* A call of the page or the backend that neither issues nor revokes.      *)
Minor(c) ==
    \/ \E w \in Wallets : Connect(c, w)
    \/ Login(c) \/ Logout(c) \/ Work(c) \/ Restored(c) \/ NotRestored(c)
    \/ Sign(c) \/ LoginFailed(c) \/ Worked(c) \/ Refresh(c) \/ Denied(c)
    \/ Guard(c) \/ Serve(c) \/ Nonce(c) \/ ConsumeNonce(c)

LEMMA SecureMinor ==
  ASSUME Inductive, NEW c \in Calls, Minor(c)
  PROVE  Secure'
<1>1. /\ stage[c] \notin {"renewed", "revoked"}
      /\ \A d \in Calls \ {c} : carried'[d] = carried[d] /\ memory'[d] = memory[d]
      /\ carried'[c] \in {carried[c], cookie, 0}
      /\ UNCHANGED <<cookie, family, tokens, live, device, ends>>
  BY DEF Inductive, TypeOK, Minor, Connect, Login, Logout, Work, Restored, NotRestored,
         Sign, LoginFailed, Worked, Refresh, Denied, Guard, Serve, Nonce, ConsumeNonce,
         Begin, Send, Finish, Handling, Arrived
<1>2. PICK s \in {"sent", "idle", "rotate", "error", "unauthorised", "ok", "cleared"} :
         stage' = [stage EXCEPT ![c] = s]
  BY DEF Minor, Connect, Login, Logout, Work, Restored, NotRestored,
         Sign, LoginFailed, Worked, Refresh, Denied, Guard, Serve, Nonce, ConsumeNonce,
         Begin, Send, Finish, Handling, Unauthorised
<1>3. memory'[c] \in {memory[c], NoMemory, Somebody(header[c].of)}
  BY DEF Inductive, TypeOK, Minor, Connect, Login, Logout, Work, Restored, NotRestored,
         Sign, LoginFailed, Worked, Refresh, Denied, Guard, Serve, Nonce, ConsumeNonce,
         Begin, Send, Finish
<1>4. ends = 0 => memory'[c].family = 0
  BY <1>3 DEF Inductive, Calm, NoMemory, Somebody
<1>5. s \in Stages /\ s \notin {"issued", "renewed", "purged", "closing", "leaving", "revoked"}
  BY DEF Stages
<1>6. QED
  BY <1>1, <1>2, <1>4, <1>5, Harmless

LEMMA SecureLookup ==
  ASSUME Inductive, NEW c \in Calls, Verify(c) \/ Find(c) \/ FindUser(c)
  PROVE  Secure'
<1>1. /\ stage[c] \notin {"renewed", "revoked"}
      /\ carried' = carried
      /\ UNCHANGED <<cookie, family, tokens, live, device, ends>>
  BY DEF Verify, Find, FindUser, Handling
<1>2. PICK s \in {"verified", "error", "unauthorised", "found", "loaded", "denied"} :
         stage' = [stage EXCEPT ![c] = s]
  BY DEF Verify, Find, FindUser, Handling, Unauthorised
<1>3. \/ memory' = memory
      \/ \E w \in Wallets : memory' = [memory EXCEPT ![c] = UserOf(w)]
  BY UserOfToken DEF Inductive, TypeOK, Owned, Verify, Find, FindUser, Handling
<1>4. /\ \A d \in Calls \ {c} : memory'[d] = memory[d]
      /\ ends = 0 => memory'[c].family = 0
  BY <1>3, LoadedUser DEF Inductive, TypeOK, Calm
<1>5. s \in Stages /\ s \notin {"issued", "renewed", "purged", "closing", "leaving", "revoked"}
  OBVIOUS
<1>6. QED
  BY <1>1, <1>2, <1>4, <1>5, Harmless

LEMMA SecureLose ==
  ASSUME Inductive, NEW c \in Calls, Lose(c)
  PROVE  Secure'
<1>1. PICK s \in {"error", "denied"} : stage' = [stage EXCEPT ![c] = s]
  BY DEF Lose
<1>2. /\ UNCHANGED <<cookie, family, tokens, live, device>>
      /\ \A d \in Calls \ {c} : carried'[d] = carried[d] /\ memory'[d] = memory[d]
      /\ carried'[c] = 0 /\ memory'[c] = NoMemory
  BY DEF Inductive, TypeOK, Lose
<1>3. CASE stage[c] \in {"revoked", "renewed"}
  <2>1. ends' # 0
    BY <1>3 DEF Inductive, TypeOK, Lose
  <2>2. QED
    BY <1>1, <1>2, <2>1, Ended
<1>4. CASE stage[c] \notin {"revoked", "renewed"}
  <2>1. ends' = ends
    BY <1>4 DEF Lose
  <2>2. QED
    BY <1>1, <1>2, <1>4, <2>1, Records, Harmless
<1>5. QED
  BY <1>3, <1>4

(* What happens only in a session that has ended.                          *)
LEMMA SecureEnded ==
  ASSUME Inductive, NEW c \in Calls,
         RevokeOwn(c) \/ FindLeaver(c) \/ Outdate(c) \/ Purge(c) \/ NewFamily(c)
  PROVE  Secure'
<1>1. UNCHANGED <<cookie, carried, tokens>>
  BY DEF RevokeOwn, FindLeaver, Outdate, Purge, NewFamily, Handling
<1>2. PICK s \in {"ok", "closing", "leaving", "purged", "revoked"} :
         stage' = [stage EXCEPT ![c] = s]
  BY DEF RevokeOwn, FindLeaver, Outdate, Purge, NewFamily, Handling
<1>3. ASSUME RevokeOwn(c) PROVE ends' # 0
  BY <1>3 DEF Inductive, TypeOK, RevokeOwn
<1>4. ASSUME FindLeaver(c) \/ Outdate(c) \/ NewFamily(c) PROVE ends' # 0
  BY <1>4 DEF Inductive, Calm, FindLeaver, Outdate, NewFamily, Handling
<1>5. ASSUME Purge(c) PROVE ends' # 0
  <2>1. carried[c] \in Issued
    BY <1>5 DEF Inductive, TypeOK, Owned, Purge, Handling
  <2>2. QED
    BY <1>5, <2>1 DEF Inductive, Calm, Purge, Handling, SameFamily
<1>6. ends' # 0
  BY <1>3, <1>4, <1>5
<1>7. s \in Stages /\ s \notin {"issued", "renewed"}
  BY DEF Stages
<1>8. QED
  BY <1>1, <1>2, <1>6, <1>7, Ended

(* The cookie becomes the token that call brings, and no other has it.     *)
LEMMA SecureStored ==
  ASSUME Inductive, NEW c \in Calls, LoggedIn(c) \/ Renewed(c)
  PROVE  Secure'
<1>1. /\ stage[c] \in {"issued", "renewed"} /\ cookie' = carried[c]
      /\ UNCHANGED <<family, tokens, live, device, ends>>
      /\ \A d \in Calls \ {c} : /\ carried'[d] = carried[d] /\ memory'[d] = memory[d]
                                 /\ stage'[d] = stage[d]
      /\ memory'[c] = NoMemory /\ stage'[c] \in {"idle", "again"}
  BY DEF Inductive, TypeOK, LoggedIn, Renewed, Finish, Send
<1>2. Calm'
  BY <1>1, Records DEF Inductive, Calm
<1>3. FreshInFlight'
  <2>1. ASSUME NEW d \in Calls, stage'[d] \in {"issued", "renewed"}
        PROVE  /\ d # c /\ stage[d] \in {"issued", "renewed"}
               /\ carried[d] # carried[c] /\ carried[d] \in Issued
    BY <1>1, <2>1 DEF Inductive, FreshInFlight
  <2>2. carried'[c] \in {0, carried[c]} /\ 0 \notin Issued
    BY DEF Inductive, TypeOK, Tokens, LoggedIn, Renewed, Finish
  <2>3. QED
    BY <1>1, <2>1, <2>2 DEF Inductive, FreshInFlight
<1>4. SessionSurvives'
  BY <1>1 DEF Inductive, FreshInFlight, SessionSurvives
<1>5. QED
  BY <1>2, <1>3, <1>4 DEF Secure

LEMMA SecureLoggedOut ==
  ASSUME Inductive, NEW c \in Calls, LoggedOut(c)
  PROVE  Secure'
<1>1. /\ stage[c] \in {"ok", "error"} /\ cookie' \in {0, cookie}
      /\ UNCHANGED <<family, tokens, live, device, ends>>
      /\ \A d \in Calls \ {c} : /\ carried'[d] = carried[d] /\ memory'[d] = memory[d]
                                 /\ stage'[d] = stage[d]
      /\ memory'[c] = NoMemory /\ stage'[c] = "idle" /\ carried'[c] = 0
  BY DEF Inductive, TypeOK, LoggedOut, Finish
<1>2. Calm'
  BY <1>1, Records DEF Inductive, Calm
<1>3. FreshInFlight'
  <2>1. 0 \notin Issued
    BY DEF Inductive, TypeOK, Tokens
  <2>2. QED
    BY <1>1, <2>1 DEF Inductive, FreshInFlight
<1>4. SessionSurvives'
  BY <1>1 DEF Inductive, SessionSurvives
<1>5. QED
  BY <1>2, <1>3, <1>4 DEF Secure

(* A new token: nobody knows it but the answer that carries it.            *)
LEMMA SecureIssue ==
  ASSUME Inductive, NEW c \in Calls, Issue(c)
  PROVE  Secure'
<1>1. PICK t \in Tokens \ Issued :
         /\ tokens' = [u \in Issued \cup {t} |-> IF u = t THEN memory[c] ELSE tokens[u]]
         /\ live' = live \cup {t}
         /\ carried' = [carried EXCEPT ![c] = t]
  BY DEF Issue
<1>2. /\ UNCHANGED <<cookie, memory, family, device, ends>>
      /\ stage' \in [Calls -> Stages]
      /\ \A d \in Calls \ {c} : stage'[d] = stage[d]
      /\ \/ stage[c] = "cleared" /\ stage'[c] = "issued"
         \/ stage[c] = "revoked" /\ stage'[c] = "renewed"
  BY DEF Inductive, TypeOK, Stages, Issue, Handling
<1>3. Issued' = Issued \cup {t} /\ t \notin Issued \cup {0}
  BY <1>1 DEF Tokens
<1>4. Calm'
  <2>1. ends = 0 => \A u \in Issued' : tokens'[u].family = 0
    BY <1>1, <1>3 DEF Inductive, Calm
  <2>2. QED
    BY <1>2, <2>1 DEF Inductive, Calm
<1>5. FreshInFlight'
  <2>1. ASSUME NEW d \in Calls \ {c}, stage'[d] \in {"issued", "renewed"}
        PROVE  /\ carried'[d] \in Issued' /\ carried'[d] # cookie'
               /\ \A e \in Calls \ {d} : carried'[e] # carried'[d]
               /\ ends' = 0 => carried'[d] \in live'
    BY <1>1, <1>2, <1>3, <2>1 DEF Inductive, TypeOK, FreshInFlight
  <2>2. /\ carried'[c] \in Issued' /\ carried'[c] # cookie' /\ carried'[c] \in live'
        /\ \A e \in Calls \ {c} : carried'[e] # carried'[c]
    BY <1>1, <1>2, <1>3 DEF Inductive, TypeOK
  <2>3. QED
    BY <2>1, <2>2 DEF FreshInFlight
<1>6. SessionSurvives'
  BY <1>1, <1>2 DEF Inductive, TypeOK, SessionSurvives
<1>7. QED
  BY <1>4, <1>5, <1>6 DEF Secure

(* A token revoked by the call that will replace it.                       *)
LEMMA SecureRotate ==
  ASSUME Inductive, NEW c \in Calls, Rotate(c)
  PROVE  Secure'
<1>1. /\ stage[c] = "loaded" /\ stage' = [stage EXCEPT ![c] = "revoked"]
      /\ live' = live \ {carried[c]}
      /\ UNCHANGED <<cookie, carried, memory, family, tokens, device, ends>>
  BY DEF Rotate, Handling
<1>2. Calm'
  BY <1>1 DEF Inductive, TypeOK, Calm
<1>3. FreshInFlight'
  BY <1>1 DEF Inductive, TypeOK, FreshInFlight
<1>4. SessionSurvives'
  BY <1>1 DEF Inductive, TypeOK, FreshInFlight, SessionSurvives
<1>5. QED
  BY <1>2, <1>3, <1>4 DEF Secure

(* The other browser, or the clock: the session has ended.                 *)
LEMMA SecureDevice ==
  ASSUME Inductive,
         \/ \E w \in Wallets : DeviceRevokesAll(w)
         \/ DeviceOutdates
         \/ \E t \in live : Expire(t)
  PROVE  Secure'
<1>1. ends' # 0 /\ UNCHANGED <<cookie, stage, carried, tokens>>
  BY DEF Inductive, TypeOK, Calm, DeviceRevokesAll, DeviceOutdates, Expire
<1>2. QED
  BY <1>1 DEF Inductive, Secure, Calm, FreshInFlight, SessionSurvives

-----------------------------------------------------------------------------
(***************************************************************************)
(* The theorems                                                            *)
(***************************************************************************)

LEMMA StepInductive == Inductive /\ [Next]_vars => Inductive'
<1>. SUFFICES ASSUME Inductive, [Next]_vars PROVE Typed' /\ Secure'
  BY DEF Inductive, Typed, Secure
<1>1. CASE UNCHANGED vars
  <2>1. Secure'
    BY <1>1, Unrelated DEF vars
  <2>2. Typed'
    BY <1>1 DEF vars, Inductive, Typed, TypeOK, Owned
  <2>3. QED
    BY <2>1, <2>2
<1>2. CASE Disconnect
  <2>1. Secure'
    BY <1>2, Unrelated DEF Disconnect
  <2>2. Typed'
    BY <1>2, Records DEF Disconnect, Inductive, Typed, TypeOK, Owned
  <2>3. QED
    BY <2>1, <2>2
<1>3. CASE \E w \in Wallets : DeviceRevokesAll(w)
  <2>1. ends' \in 0..MaxEnds
    BY <1>3, BoundAssumption DEF DeviceRevokesAll, Inductive, TypeOK
  <2>2. Typed'
    BY <1>3, <2>1 DEF DeviceRevokesAll, Inductive, Typed, TypeOK, Owned
  <2>3. QED
    BY <1>3, <2>2, SecureDevice
<1>4. CASE DeviceOutdates
  <2>1. Typed'
    BY <1>4 DEF DeviceOutdates, Inductive, Typed, TypeOK, Owned
  <2>2. QED
    BY <1>4, <2>1, SecureDevice
<1>5. ASSUME NEW c \in Calls, NEW w \in Wallets, Connect(c, w) PROVE Typed' /\ Secure'
  BY <1>5, TypesConnect, SecureMinor DEF Minor
<1>6. ASSUME NEW c \in Calls,
             \/ Login(c) \/ Logout(c) \/ Restored(c) \/ NotRestored(c) \/ Sign(c)
             \/ LoginFailed(c) \/ Work(c) \/ Worked(c) \/ Refresh(c) \/ Denied(c)
             \/ Guard(c) \/ Serve(c) \/ Nonce(c) \/ ConsumeNonce(c)
      PROVE  Typed' /\ Secure'
  <2>1. Minor(c)
    BY <1>6 DEF Minor
  <2>2. Typed'
    BY <1>6, TypesLogin, TypesLogout, TypesRestored, TypesNotRestored, TypesSign,
       TypesLoginFailed, TypesWork, TypesWorked, TypesRefresh, TypesDenied, TypesGuard,
       TypesServe, TypesNonce, TypesConsumeNonce
  <2>3. QED
    BY <2>1, <2>2, SecureMinor
<1>7. ASSUME NEW c \in Calls,
             \/ LoggedIn(c) \/ LoggedOut(c) \/ Renewed(c) \/ Lose(c)
             \/ Verify(c) \/ Issue(c) \/ Find(c) \/ FindUser(c) \/ Rotate(c)
      PROVE  Typed' /\ Secure'
  <2>1. Typed'
    BY <1>7, TypesLoggedIn, TypesLoggedOut, TypesRenewed, TypesLose, TypesVerify, TypesIssue,
       TypesFind, TypesFindUser, TypesRotate
  <2>2. Secure'
    BY <1>7, SecureStored, SecureLoggedOut, SecureLose, SecureLookup, SecureIssue, SecureRotate
  <2>3. QED
    BY <2>1, <2>2
<1>8. ASSUME NEW c \in Calls,
             Purge(c) \/ NewFamily(c) \/ RevokeOwn(c) \/ FindLeaver(c) \/ Outdate(c)
      PROVE  Typed' /\ Secure'
  BY <1>8, TypesPurge, TypesNewFamily, TypesRevokeOwn, TypesFindUser, TypesOutdate, SecureEnded
<1>9. CASE \E t \in live : Expire(t)
  <2>1. ends' \in 0..MaxEnds
    BY <1>9, BoundAssumption DEF Expire, Inductive, TypeOK
  <2>2. Typed'
    BY <1>9, <2>1 DEF Expire, Inductive, Typed, TypeOK, Owned
  <2>3. QED
    BY <1>9, <2>2, SecureDevice
<1>10. QED
  BY <1>1, <1>2, <1>3, <1>4, <1>5, <1>6, <1>7, <1>8, <1>9 DEF Next, Handle

LEMMA AlwaysInductive == Spec => []Inductive
  BY InitInductive, StepInductive, PTL DEF Spec

(* TypeOK of every behaviour, for every choice of the constants.           *)
THEOREM TypesHold == Spec => []TypeOK
<1>1. Inductive => TypeOK
  BY DEF Inductive
<1>2. QED
  BY <1>1, AlwaysInductive, PTL

(* Calls that refresh at the same time never leave the browser with a      *)
(* cookie that is revoked and not about to be replaced, whatever calls and *)
(* awaits fail, unless somebody signs out, a token expires or a rotation   *)
(* is cut off after its revocation.                                        *)
THEOREM SessionIsNotLost == Spec => []SessionSurvives
<1>1. Inductive => SessionSurvives
  BY DEF Inductive
<1>2. QED
  BY <1>1, AlwaysInductive, PTL
=============================================================================
