-------------------------------- MODULE Auth --------------------------------
(* The panel's session: the rotating refresh tokens of the server           *)
(* (internal/auth, api/handlers_auth.go) and the tabs of one browser, which *)
(* share the stored tokens and nothing else (frontend/src/api/client.ts,    *)
(* stores/AuthContext.tsx).                                                 *)
(*                                                                          *)
(* A pair of tokens is one element of Pairs: its refresh token is a row of  *)
(* refresh_tokens, its access token a signature that only time ends.  A     *)
(* step of a tab runs to its next await; localStorage always works.  An     *)
(* answer that does not arrive stands for a network error and for a 5xx,    *)
(* which request treats alike: both throw.                                  *)
EXTENDS Integers

CONSTANTS
  Tabs,         \* tabs of the browser
  Calls,        \* calls a page of the panel makes, besides the ones named here
  Pairs,        \* bound: token pairs told apart at one time
  None,         \* no token
  Budget        \* bound: how often the user loads each tab and makes each call in it

ASSUME AuthAssumption ==
  /\ None \notin Pairs
  /\ Calls \cap {"me", "login", "logout"} = {}
  /\ Budget \in [Tabs -> [Calls \cup {"load", "login", "logout"} -> Nat]]

VARIABLES
  row,        \* refresh_tokens: "live", "revoked" or "gone"
  fresh,      \* pairs whose access token has not expired
  stored,     \* localStorage: the pair whose two tokens it holds
  access,     \* TokenStore.access of each tab
  user,       \* whether a tab shows a user
  call,       \* the requests of each tab
  flight,     \* refreshInFlight of each tab, with the server's side of it and
              \* what was stored when it began (history)
  made,       \* how much of its Budget each tab has used
  orphans,    \* refreshes and logouts nobody waits for that the server has not seen yet
  uses,       \* history: successors each refresh token was given
  spoiled     \* history: refresh tokens spent by a request nobody waits for any more

vars == <<row, fresh, stored, access, user, call, flight, made, orphans, uses, spoiled>>

Requests == Calls \cup {"me", "login", "logout"}
Token == Pairs \cup {None}
Idle == [stage |-> "idle", token |-> None, retrying |-> FALSE]
NoFlight == [stage |-> "none", token |-> None, pair |-> None, began |-> None]
Thrown == [Idle EXCEPT !.stage = "thrown"]
Call == [stage : {"idle", "sent", "accepted", "refused", "waiting", "thrown"},
         token : Token, retrying : BOOLEAN]
Flight == [stage : {"none", "sent", "consumed", "denied", "failed", "issued", "cleared", "lost"},
           token : Token, pair : Token, began : Token]
Orphan == {"refresh", "logout"} \X Pairs
Refreshing(n) == [stage |-> "sent", token |-> n, pair |-> None, began |-> stored]
Sent(n, again) == [stage |-> "sent", token |-> n, retrying |-> again]

Init ==
  /\ row = [n \in Pairs |-> "gone"] /\ fresh = {}
  /\ stored = None /\ access = [t \in Tabs |-> None]
  /\ user = [t \in Tabs |-> FALSE]
  /\ call = [t \in Tabs |-> [r \in Requests |-> Idle]]
  /\ flight = [t \in Tabs |-> NoFlight]
  /\ made = [t \in Tabs |-> [a \in DOMAIN Budget[t] |-> 0]]
  /\ orphans = {} /\ uses = [n \in Pairs |-> 0] /\ spoiled = {}

----------------------------------------------------------------------------
(* The server.                                                              *)

\* The pairs nobody holds a token of.  Nothing can be asked of them again: they
\* are forgotten when a pair is issued, with the orphans that present them, and
\* their numbers stand for new pairs.
Unheld == {n \in Pairs :
  /\ n # stored
  /\ \A t \in Tabs : n \notin {access[t], flight[t].token, flight[t].pair}
                              \cup {call[t][r].token : r \in Requests}}

\* A row StoreRefreshToken inserts, and the access token signed with it: a pair
\* nobody has seen.
Issued(n) ==
  /\ Unheld # {} /\ n = CHOOSE k \in Unheld : TRUE
  /\ row' = [k \in Pairs |-> IF k = n THEN "live" ELSE IF k \in Unheld THEN "gone" ELSE row[k]]
  /\ fresh' = (fresh \ Unheld) \cup {n}
  /\ spoiled' = spoiled \ Unheld
  /\ orphans' = {o \in orphans : o[2] \notin Unheld}

\* Middleware: only the signature and the expiry of the access token are looked
\* at.  An expiry matters only to the request that meets it, so it happens there.
Parse(n, verdict) ==
  \/ verdict = "accepted" /\ n \in fresh /\ UNCHANGED fresh
  \/ verdict = "refused" /\ fresh' = fresh \ {n}

\* The answer to a call that needs a session.
Serve(t, r) ==
  /\ r \in Calls \cup {"me"} /\ call[t][r].stage = "sent"
  /\ \E verdict \in {"accepted", "refused"} :
       /\ Parse(call[t][r].token, verdict)
       /\ call' = [call EXCEPT ![t][r] = [@ EXCEPT !.stage = verdict, !.token = None]]
  /\ UNCHANGED <<row, stored, access, user, flight, made, orphans, uses, spoiled>>

\* handleLogin: a wrong password is refused like an expired session.
Login(t) ==
  /\ call[t]["login"].stage = "sent"
  /\ \/ /\ call' = [call EXCEPT ![t]["login"].stage = "refused"]
        /\ UNCHANGED <<row, fresh, orphans, uses, spoiled>>
     \/ \E n \in Pairs :
          /\ Issued(n) /\ uses' = [k \in Pairs |-> IF k \in Unheld THEN 0 ELSE uses[k]]
          /\ call' = [call EXCEPT ![t]["login"] = [@ EXCEPT !.stage = "accepted", !.token = n]]
  /\ UNCHANGED <<stored, access, user, flight, made>>

\* handleLogout: RevokeRefreshToken, whatever the state of the token.
Logout(t) ==
  /\ call[t]["logout"].stage = "sent"
  /\ row' = [n \in Pairs |-> IF n = call[t]["logout"].token /\ row[n] = "live"
                             THEN "revoked" ELSE row[n]]
  /\ call' = [call EXCEPT ![t]["logout"].stage = "accepted"]
  /\ UNCHANGED <<fresh, stored, access, user, flight, made, orphans, uses, spoiled>>

\* Mutant: the UPDATE lost its "revoked_at IS NULL".
ConsumableTwice(n) == row[n] # "gone"

\* The one UPDATE of ConsumeRefreshToken finds the row live.
Consumable(n) == row[n] = "live"

\* handleRefresh, the first query.  A token that expired is not found, and its row
\* is gone from here on: CleanupExpiredTokens deletes it after thirty days.
ConsumeRefreshToken(t) ==
  /\ flight[t].stage = "sent"
  /\ \/ /\ Consumable(flight[t].token)
        /\ row' = [row EXCEPT ![flight[t].token] = "revoked"]
        /\ flight' = [flight EXCEPT ![t].stage = "consumed"]
     \/ /\ \/ ~Consumable(flight[t].token) /\ UNCHANGED row
           \/ Consumable(flight[t].token) /\ row' = [row EXCEPT ![flight[t].token] = "gone"]
        /\ flight' = [flight EXCEPT ![t].stage = "denied"]
  /\ UNCHANGED <<fresh, stored, access, user, call, made, orphans, uses, spoiled>>

\* The first query of handleRefresh fails: nothing is consumed, the answer is 401.
ConsumeFails(t) ==
  /\ flight[t].stage = "sent"
  /\ flight' = [flight EXCEPT ![t].stage = "failed"]
  /\ UNCHANGED <<row, fresh, stored, access, user, call, made, orphans, uses, spoiled>>

\* handleRefresh, the rest: GetByID and issue, or the failure of one of them.
Reissue(t) ==
  /\ flight[t].stage = "consumed"
  /\ \/ \E n \in Pairs :
          /\ Issued(n)
          /\ uses' = [k \in Pairs |-> IF k \in Unheld THEN 0
                                   ELSE IF k = flight[t].token THEN uses[k] + 1 ELSE uses[k]]
          /\ flight' = [flight EXCEPT ![t] = [@ EXCEPT !.stage = "issued", !.pair = n]]
     \/ /\ flight' = [flight EXCEPT ![t].stage = "failed"]
        /\ UNCHANGED <<row, fresh, orphans, uses, spoiled>>
  /\ UNCHANGED <<stored, access, user, call, made>>

\* The server sees a request nobody waits for: a logout revokes its token, and a
\* refresh spends it on a pair that reaches nobody.
ServeOrphan(o) ==
  /\ o \in orphans /\ orphans' = orphans \ {o}
  /\ IF Consumable(o[2])
     THEN /\ row' = [row EXCEPT ![o[2]] = "revoked"]
          /\ uses' = IF o[1] = "refresh" THEN [uses EXCEPT ![o[2]] = @ + 1] ELSE uses
          /\ spoiled' = spoiled \cup {o[2]}
     ELSE UNCHANGED <<row, uses, spoiled>>
  /\ UNCHANGED <<fresh, stored, access, user, call, flight, made>>

----------------------------------------------------------------------------
(* The tabs.                                                                *)

\* tokens.save and tokens.clear.
Save(t, n) == stored' = n /\ access' = [access EXCEPT ![t] = n]
Clear(t) == stored' = None /\ access' = [access EXCEPT ![t] = None]

\* The user acts: never more often than the bound allows.
Spend(t, a) == made[t][a] < Budget[t][a] /\ made' = [made EXCEPT ![t][a] = @ + 1]

\* A refresh is over and the calls that awaited it have not run yet.  Their
\* continuations come before any other event of the tab, but not of another tab.
Settling(t) == flight[t].stage \in {"cleared", "lost"}

\* What the server still has to see of a refresh and of a logout nobody waits for.
Unseen(t) == IF flight[t].stage = "sent" THEN {<<"refresh", flight[t].token>>} ELSE {}
UnseenLogout(t) ==
  IF call[t]["logout"].stage = "sent" THEN {<<"logout", call[t]["logout"].token>>} ELSE {}

\* The server goes on with a refresh it has begun: its pair reaches nobody.
Counted(t) ==
  uses' = IF flight[t].stage = "consumed" THEN [uses EXCEPT ![flight[t].token] = @ + 1] ELSE uses

\* The page is loaded: memory is lost, and AuthProvider asks who the user is.
Open(t) ==
  /\ ~Settling(t) /\ Spend(t, "load")
  /\ access' = [access EXCEPT ![t] = stored]
  /\ user' = [user EXCEPT ![t] = FALSE]
  /\ flight' = [flight EXCEPT ![t] = NoFlight]
  /\ call' = [call EXCEPT ![t] =
       [r \in Requests |-> IF r = "me" /\ stored # None THEN Sent(stored, FALSE) ELSE Idle]]
  /\ spoiled' = spoiled \cup
       (IF flight[t].stage \in {"consumed", "issued", "failed"} THEN {flight[t].token} ELSE {})
       \cup (IF call[t]["logout"].stage = "accepted" THEN {call[t]["logout"].token} ELSE {})
  /\ orphans' = orphans \cup Unseen(t) \cup UnseenLogout(t)
  /\ Counted(t)
  /\ UNCHANGED <<row, fresh, stored>>

\* A page makes a call; the login page is the page of a tab with no user.
Request(t, r) ==
  /\ ~Settling(t) /\ call[t][r] = Idle /\ r \in Calls \cup {"login"} /\ Spend(t, r)
  /\ \/ r \in Calls /\ user[t]
     \/ r = "login" /\ ~user[t] /\ call[t]["me"] = Idle
  /\ call' = [call EXCEPT ![t][r] = Sent(IF r = "login" THEN None ELSE access[t], FALSE)]
  /\ UNCHANGED <<row, fresh, stored, access, user, flight, orphans, uses, spoiled>>

\* logout reads the token, then tells the server; without one it only clears.
StartLogout(t) ==
  /\ ~Settling(t) /\ user[t] /\ call[t]["logout"] = Idle /\ Spend(t, "logout")
  /\ IF stored # None
     THEN /\ call' = [call EXCEPT ![t]["logout"] = Sent(stored, FALSE)]
          /\ UNCHANGED <<stored, access, user>>
     ELSE /\ Clear(t) /\ user' = [user EXCEPT ![t] = FALSE]
          /\ UNCHANGED call
  /\ UNCHANGED <<row, fresh, flight, orphans, uses, spoiled>>

\* What the caller does with the answer of its call.
Returns(t, r) ==
  /\ CASE r = "login" -> Save(t, call[t][r].token)
       [] r = "logout" -> Clear(t)
       [] OTHER -> UNCHANGED <<stored, access>>
  /\ user' = CASE r \in {"login", "me"} -> [user EXCEPT ![t] = TRUE]
               [] r = "logout" -> [user EXCEPT ![t] = FALSE]
               [] OTHER -> user

\* What the caller does when its call throws.
Throws(t, r) ==
  /\ IF r \in {"me", "logout"} THEN Clear(t) ELSE UNCHANGED <<stored, access>>
  /\ user' = IF r = "logout" THEN [user EXCEPT ![t] = FALSE] ELSE user

\* The answer arrives, or never does: the call is over unless it was refused.
Receive(t, r) ==
  /\ ~Settling(t)
  /\ \/ call[t][r].stage = "accepted" /\ Returns(t, r)
     \/ call[t][r].stage \in {"sent", "accepted", "refused", "thrown"} /\ Throws(t, r)
  /\ call' = [call EXCEPT ![t][r] = Idle]
  /\ orphans' = IF r = "logout" THEN orphans \cup UnseenLogout(t) ELSE orphans
  /\ UNCHANGED <<row, fresh, flight, made, uses, spoiled>>

\* The session is over for call r: clear, notifyUnauthorized and the throw, which
\* only the caller of the first call does something about.
Unauthorized(t, r) ==
  /\ Clear(t) /\ user' = [user EXCEPT ![t] = FALSE]
  /\ call' = [call EXCEPT ![t][r] = IF r = "me" THEN Thrown ELSE Idle]

\* Mutant: the tab keeps its refresh token in memory beside the access token.
RefreshSessionCached(t) ==
  flight' = IF flight[t] # NoFlight THEN flight ELSE [flight EXCEPT ![t] =
              Refreshing(IF access[t] = None THEN stored ELSE access[t])]

\* refreshSession: one refresh at a time, with the token stored when it starts.
RefreshSession(t) ==
  flight' = IF flight[t] # NoFlight THEN flight ELSE [flight EXCEPT ![t] = Refreshing(stored)]

\* Mutant: without the retrying flag.
MayRefreshAgain(t, r) == call[t][r].stage = "refused"

\* request refreshes for a call that was refused, and that is not a retry.
MayRefresh(t, r) == call[t][r].stage = "refused" /\ ~call[t][r].retrying

\* A call is refused: it waits for the refresh, and is not refused twice.
Refused(t, r) ==
  /\ ~Settling(t) /\ MayRefresh(t, r)
  /\ IF stored = None
     THEN Unauthorized(t, r) /\ UNCHANGED flight
     ELSE /\ RefreshSession(t)
          /\ call' = [call EXCEPT ![t][r] = [Idle EXCEPT !.stage = "waiting"]]
          /\ UNCHANGED <<stored, access, user>>
  /\ UNCHANGED <<row, fresh, made, orphans, uses, spoiled>>

Waiting(t) == {r \in Requests : call[t][r].stage = "waiting"}

\* Mutant: only the access token of the answer is kept.
KeptAccess(t) == access' = [access EXCEPT ![t] = flight[t].pair] /\ UNCHANGED stored

\* The tokens of the answer are saved.
Kept(t) == Save(t, flight[t].pair)

\* The refresh ends well: the tokens are saved and the calls that wait are sent again.
Refreshed(t) ==
  /\ flight[t].stage = "issued"
  /\ Kept(t)
  /\ flight' = [flight EXCEPT ![t] = NoFlight]
  /\ call' = [call EXCEPT ![t] = [r \in Requests |->
                IF r \in Waiting(t)
                THEN Sent(IF r = "login" THEN None ELSE flight[t].pair, TRUE) ELSE @[r]]]
  /\ UNCHANGED <<row, fresh, user, made, orphans, uses, spoiled>>

\* The refresh is answered 401: refreshSession clears, before its callers do.
RefreshRefused(t) ==
  /\ flight[t].stage \in {"denied", "failed"}
  /\ Clear(t)
  /\ flight' = [flight EXCEPT ![t].stage = "cleared"]
  /\ UNCHANGED <<row, fresh, user, call, made, orphans, uses, spoiled>>

\* The answer of the refresh is lost: refreshSession leaves the tokens as they are.
RefreshLost(t) ==
  /\ flight[t].stage \notin {"none", "cleared", "lost"}
  /\ flight' = [flight EXCEPT ![t].stage = "lost"]
  /\ orphans' = orphans \cup Unseen(t)
  /\ Counted(t)
  /\ UNCHANGED <<row, fresh, stored, access, user, call, made, spoiled>>

\* A call that waited learns that the refresh failed, and ends the session.
GiveUp(t, r) ==
  /\ Settling(t) /\ r \in Waiting(t)
  /\ Unauthorized(t, r)
  /\ flight' = IF Waiting(t) = {r} THEN [flight EXCEPT ![t] = NoFlight] ELSE flight
  /\ UNCHANGED <<row, fresh, made, orphans, uses, spoiled>>

----------------------------------------------------------------------------
\* What goes on by itself: the server answers, and the tab takes the answers.
RefreshStep(t) ==
  \/ ConsumeRefreshToken(t) \/ Reissue(t) \/ Refreshed(t) \/ RefreshRefused(t)
  \/ \E r \in Requests : GiveUp(t, r)

CallStep(t, r) ==
  \/ Serve(t, r) \/ Refused(t, r)
  \/ r = "login" /\ Login(t)
  \/ r = "logout" /\ Logout(t)
  \/ call[t][r].stage \in {"accepted", "refused", "thrown"} /\ Receive(t, r)

Next ==
  \/ \E t \in Tabs : Open(t) \/ StartLogout(t) \/ Login(t) \/ Logout(t)
                       \/ ConsumeRefreshToken(t) \/ ConsumeFails(t) \/ Reissue(t)
                       \/ Refreshed(t) \/ RefreshRefused(t) \/ RefreshLost(t)
  \/ \E t \in Tabs, r \in Requests :
       Request(t, r) \/ Serve(t, r) \/ Receive(t, r) \/ Refused(t, r) \/ GiveUp(t, r)
  \/ \E o \in orphans : ServeOrphan(o)

Spec == Init /\ [][Next]_vars

\* Fairness: net/http serves the requests and the event loops run their
\* continuations: while something of this can happen, something of it does.
\* Loads, clicks and failures are not fair.
Progress == \E t \in Tabs : RefreshStep(t) \/ \E r \in Requests : CallStep(t, r)

FairSpec == Spec /\ WF_vars(Progress)

----------------------------------------------------------------------------
(* Properties.                                                              *)

\* Types; and refreshSession shares one refresh: a call waits exactly while a
\* refresh of its tab is in flight (client.ts, refreshInFlight).
TypeOK ==
  /\ row \in [Pairs -> {"gone", "live", "revoked"}]
  /\ fresh \subseteq Pairs /\ stored \in Token /\ access \in [Tabs -> Token]
  /\ user \in [Tabs -> BOOLEAN]
  /\ call \in [Tabs -> [Requests -> Call]]
  /\ flight \in [Tabs -> Flight]
  /\ orphans \subseteq Orphan /\ uses \in [Pairs -> Nat] /\ spoiled \subseteq Pairs
  /\ \A t \in Tabs : (flight[t] # NoFlight) <=> (Waiting(t) # {})

\* Rotation: however many tabs present a refresh token at once, one of them at
\* most is given a successor (ConsumeRefreshToken is one UPDATE).
OneSuccessor == \A n \in Pairs : uses[n] <= 1

\* The refresh token a reload will find is not one the server has spent: unless
\* a refresh or a logout with it is still being answered, or spent it when a
\* reload had stopped waiting for it, the stored token was not revoked.
StoredIsUsable ==
  stored # None /\ row[stored] = "revoked" =>
    \/ stored \in spoiled
    \/ \E t \in Tabs : \/ flight[t].token = stored
                       \/ call[t]["logout"].token = stored

\* Step: a stored session the server would still renew is dropped only by a
\* logout, by an answer that was lost or a query that failed, or by the refusal
\* of a token that another tab rotated while this one was presenting it: also
\* when that tab saves its new pair between the clear of refreshSession and the
\* clears of the calls that awaited it.  A tab alone, with no failure, never logs
\* its user out (request, refreshSession).
DroppedForAReason ==
  [][stored # None /\ row[stored] = "live" /\ stored' = None =>
       \E t \in Tabs :
         \/ \E r \in {"me", "logout"} : call[t][r] # Idle /\ call'[t][r] = Idle
         \/ /\ \/ flight[t].stage \in {"failed", "lost"}
               \/ flight[t].stage \in {"denied", "cleared"} /\ flight[t].began # stored
            /\ flight'[t] # flight[t] \/ call'[t] # call[t]]_vars

\* Every call ends once the user stops: a refusal leads to one refresh and one
\* retry, never to a loop of renewals, and no call waits for a refresh that is
\* over (client.ts, retrying and refreshInFlight).
RequestsEnd ==
  <>[](\A t \in Tabs : flight[t] = NoFlight /\ \A r \in Requests : call[t][r] = Idle)
====
