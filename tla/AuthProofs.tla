----------------------------- MODULE AuthProofs -----------------------------
(***************************************************************************)
(* What the rotation of refresh tokens guarantees for any number of tabs,  *)
(* calls and token pairs.  The argument follows one pair: it is pending    *)
(* from the moment the server issues it until the answer is taken, and     *)
(* only then can a request present it (PendingInv); a request that         *)
(* consumed a token is the only one that did (SpentInv).                   *)
(***************************************************************************)
EXTENDS Auth, TLAPS

\* What a request of each kind carries.
CarriesInv ==
  /\ \A t \in Tabs : flight[t].stage = "none" => flight[t] = NoFlight
  /\ \A t \in Tabs : flight[t].stage # "none" => flight[t].token \in Pairs /\ flight[t].token = flight[t].began
  /\ \A t \in Tabs : call[t]["logout"].stage \in {"idle", "sent", "accepted"}
  /\ \A t \in Tabs : call[t]["logout"].stage # "idle" => call[t]["logout"].token \in Pairs

\* A token that was consumed and whose successor is not issued yet is revoked,
\* has no successor, and is in the hands of one request; one with a successor
\* is not live.
SpentInv ==
  /\ \A t \in Tabs : flight[t].stage = "consumed" => row[flight[t].token] = "revoked" /\ uses[flight[t].token] = 0
  /\ \A t, u \in Tabs : t # u /\ flight[t].stage = "consumed" /\ flight[u].stage = "consumed" =>
       flight[t].token # flight[u].token
  /\ \A n \in Pairs : uses[n] <= 1 /\ (uses[n] # 0 => row[n] # "live")

\* A pair whose answer is still on its way: the server would renew it, and no
\* request presents it, awaited or not.
Pending(n) ==
  /\ n \in Pairs /\ row[n] = "live" /\ n # stored
  /\ \A u \in Tabs : flight[u].token # n /\ call[u]["logout"].token # n
  /\ \A o \in orphans : o[2] # n

PendingInv ==
  /\ \A t \in Tabs : flight[t].stage = "issued" => Pending(flight[t].pair)
  /\ \A t \in Tabs : call[t]["login"].stage = "accepted" => Pending(call[t]["login"].token)
  /\ \A t, u \in Tabs : t # u /\ flight[t].stage = "issued" /\ flight[u].stage = "issued" =>
       flight[t].pair # flight[u].pair
  /\ \A t, u \in Tabs : t # u /\ call[t]["login"].stage = "accepted" /\ call[u]["login"].stage = "accepted" =>
       call[t]["login"].token # call[u]["login"].token
  /\ \A t, u \in Tabs : flight[t].stage = "issued" /\ call[u]["login"].stage = "accepted" =>
       flight[t].pair # call[u]["login"].token

\* A stored token that was revoked is being answered for, or its answer was lost.
StoredInv ==
  stored # None /\ row[stored] = "revoked" =>
    \/ stored \in spoiled
    \/ \E t \in Tabs : flight[t].token = stored /\ flight[t].stage \in {"consumed", "issued", "failed", "lost"}
    \/ \E t \in Tabs : call[t]["logout"].token = stored /\ call[t]["logout"].stage = "accepted"

\* A request is denied only with a token that is not live, and the token that
\* was presented is not stored again once its tab has cleared it.
DeniedInv ==
  /\ \A t \in Tabs : flight[t].stage = "denied" => row[flight[t].token] # "live"
  /\ \A t \in Tabs : flight[t].stage = "cleared" => flight[t].token # stored

AuthInv == TypeOK /\ CarriesInv /\ SpentInv /\ PendingInv /\ StoredInv /\ DeniedInv

-----------------------------------------------------------------------------
\* The pair issued is one nobody holds a token of.
LEMMA IssuedIsUnheld == ASSUME NEW n, Issued(n) PROVE n \in Unheld
  BY DEF Issued

\* Updating one request of one tab, and all the requests of one tab.
LEMMA CallUpdate ==
  ASSUME NEW c \in [Tabs -> [Requests -> Call]], NEW t \in Tabs, NEW r \in Requests, NEW v \in Call,
         NEW d, d = [c EXCEPT ![t][r] = v]
  PROVE  /\ d \in [Tabs -> [Requests -> Call]]
         /\ d[t][r] = v
         /\ \A u \in Tabs : \A q \in Requests : u # t \/ q # r => d[u][q] = c[u][q]
  OBVIOUS

LEMMA CallReplace ==
  ASSUME NEW c \in [Tabs -> [Requests -> Call]], NEW t \in Tabs, NEW f \in [Requests -> Call],
         NEW d, d = [c EXCEPT ![t] = f]
  PROVE  /\ d \in [Tabs -> [Requests -> Call]]
         /\ d[t] = f
         /\ \A u \in Tabs : u # t => d[u] = c[u]
  OBVIOUS

\* What a pair that is held keeps when a new one is issued.
LEMMA HeldTokens ==
  ASSUME NEW t \in Tabs
  PROVE  /\ stored \notin Unheld /\ flight[t].token \notin Unheld /\ flight[t].pair \notin Unheld
         /\ call[t]["login"].token \notin Unheld /\ call[t]["logout"].token \notin Unheld
  BY DEF Unheld, Requests

\* Issuing a pair makes its token live and forgets only pairs that nobody
\* holds.
LEMMA IssuedEffect ==
  ASSUME TypeOK, NEW n, Issued(n)
  PROVE  /\ n \in Unheld /\ n \in Pairs
         /\ row' \in [Pairs -> {"gone", "live", "revoked"}] /\ row'[n] = "live"
         /\ \A k \in Pairs : k \notin Unheld => row'[k] = row[k]
         /\ fresh' \subseteq Pairs
         /\ spoiled' = spoiled \ Unheld
         /\ orphans' \subseteq orphans /\ \A o \in orphans' : o[2] \notin Unheld
<1>1. n \in Unheld
  BY IssuedIsUnheld
<1>2. n \in Pairs
  BY <1>1 DEF Unheld
<1>3. QED
  BY <1>1, <1>2 DEF Issued, TypeOK

-----------------------------------------------------------------------------
(* The parts of the invariant besides the types, for the kinds of steps.   *)
Parts == CarriesInv /\ SpentInv /\ PendingInv /\ StoredInv /\ DeniedInv

\* No login is answered in the step.
LoginsKept ==
  \A u \in Tabs : call'[u]["login"].stage = "accepted" =>
    call[u]["login"].stage = "accepted" /\ call'[u]["login"].token = call[u]["login"].token

LogoutsKept == \A u \in Tabs : call'[u]["logout"] = call[u]["logout"]

\* A step of the calls alone.
LEMMA CallsOnly ==
  ASSUME TypeOK, Parts, UNCHANGED <<row, stored, flight, orphans, uses, spoiled>>, LoginsKept, LogoutsKept
  PROVE  Parts'
<1> USE DEF Parts, LoginsKept, LogoutsKept
<1>1. CarriesInv'
  BY DEF CarriesInv
<1>2. SpentInv'
  BY DEF SpentInv
<1>3. PendingInv'
  BY DEF PendingInv, Pending
<1>4. StoredInv'
  BY DEF StoredInv
<1>5. DeniedInv'
  BY DEF DeniedInv
<1>6. QED
  BY <1>1, <1>2, <1>3, <1>4, <1>5

\* A step that clears the stored tokens and may end refreshes and logouts, whose
\* token the server may still have to see.
LEMMA Cleared ==
  ASSUME TypeOK, Parts, UNCHANGED <<row, uses, spoiled>>, stored' = None, LoginsKept,
         \A o \in orphans' : o \in orphans \/ \E u \in Tabs : call[u]["logout"].token = o[2],
         \A u \in Tabs : flight'[u] = flight[u] \/ flight'[u] = NoFlight,
         \A u \in Tabs : call'[u]["logout"] = call[u]["logout"] \/ call'[u]["logout"] = Idle
  PROVE  Parts'
<1> USE AuthAssumption DEF Parts, LoginsKept
<1>0. NoFlight.stage = "none" /\ NoFlight.token = None /\ Idle.stage = "idle" /\ Idle.token = None
  BY DEF NoFlight, Idle
<1>1. CarriesInv'
  BY <1>0 DEF CarriesInv
<1>2. SpentInv'
  BY <1>0 DEF SpentInv
<1>3. \A n : Pending(n) => Pending(n)'
  BY <1>0 DEF Pending
<1>4. PendingInv'
  <2>1. \A u \in Tabs : flight'[u].stage = "issued" => flight[u].stage = "issued" /\ flight'[u].pair = flight[u].pair
    BY <1>0
  <2>2. QED
    BY <1>3, <2>1 DEF PendingInv
<1>5. StoredInv'
  BY DEF StoredInv
<1>6. DeniedInv'
  BY <1>0 DEF DeniedInv, CarriesInv
<1>7. QED
  BY <1>1, <1>2, <1>4, <1>5, <1>6

\* A step that stores a pending pair, which is then no longer pending.
LEMMA Saved ==
  ASSUME TypeOK, Parts, UNCHANGED <<row, orphans, uses, spoiled>>, NEW n, Pending(n), stored' = n, LoginsKept, LogoutsKept,
         \A u \in Tabs : flight'[u] = flight[u] \/ flight'[u] = NoFlight,
         \A u \in Tabs : flight'[u].stage = "issued" => flight[u].pair # n,
         \A u \in Tabs : call'[u]["login"].stage = "accepted" => call[u]["login"].token # n
  PROVE  Parts'
<1> USE AuthAssumption DEF Parts, LoginsKept, LogoutsKept
<1>0. NoFlight.stage = "none" /\ NoFlight.token = None
  BY DEF NoFlight
<1>1. CarriesInv'
  BY <1>0 DEF CarriesInv
<1>2. SpentInv'
  BY <1>0 DEF SpentInv
<1>3. \A k : Pending(k) /\ k # n => Pending(k)'
  BY <1>0 DEF Pending
<1>4. PendingInv'
  <2>1. \A u \in Tabs : flight'[u].stage = "issued" => flight[u].stage = "issued" /\ flight'[u].pair = flight[u].pair
    BY <1>0
  <2>2. QED
    BY <1>3, <2>1 DEF PendingInv
<1>5. StoredInv'
  BY DEF StoredInv, Pending
<1>6. DeniedInv'
  BY <1>0 DEF DeniedInv, Pending
<1>7. QED
  BY <1>1, <1>2, <1>4, <1>5, <1>6

-----------------------------------------------------------------------------
\* Serve answers a call that is neither a login nor a logout.
LEMMA ServeEffect ==
  ASSUME TypeOK, NEW t \in Tabs, NEW r \in Requests, Serve(t, r)
  PROVE  /\ call' \in [Tabs -> [Requests -> Call]]
         /\ r \in Calls \cup {"me"} /\ call[t][r].stage = "sent" /\ call'[t][r].stage # "waiting"
         /\ \A u \in Tabs : \A q \in Requests : u # t \/ q # r => call'[u][q] = call[u][q]
<1>1. PICK v \in {"accepted", "refused"} : call' = [call EXCEPT ![t][r] = [@ EXCEPT !.stage = v, !.token = None]]
  BY DEF Serve
<1> DEFINE w == [call[t][r] EXCEPT !.stage = v, !.token = None]
<1>2. call \in [Tabs -> [Requests -> Call]] /\ call[t][r] \in Call
  BY DEF TypeOK
<1>3. w \in Call /\ w.stage = v
  BY <1>2 DEF Call, Token
<1>4. call' = [call EXCEPT ![t][r] = w]
  BY <1>1
<1> HIDE DEF w
<1>5. /\ call' \in [Tabs -> [Requests -> Call]] /\ call'[t][r] = w
      /\ \A u \in Tabs : \A q \in Requests : u # t \/ q # r => call'[u][q] = call[u][q]
  BY <1>2, <1>3, <1>4, CallUpdate
<1>6. QED
  BY <1>3, <1>5 DEF Serve

\* An answer to a call that is neither a login nor a logout.
LEMMA ServeStep == ASSUME TypeOK, Parts, NEW t \in Tabs, NEW r \in Requests, Serve(t, r) PROVE TypeOK' /\ Parts'
<1>1. r # "login" /\ r # "logout" /\ "login" \in Requests /\ "logout" \in Requests
  BY ServeEffect, AuthAssumption DEF Requests
<1>2. LoginsKept /\ LogoutsKept
  BY <1>1, ServeEffect DEF LoginsKept, LogoutsKept
<1>3. UNCHANGED <<row, stored, access, user, flight, orphans, uses, spoiled>>
  BY DEF Serve
<1>4. fresh' \subseteq Pairs
  BY DEF Serve, Parse, TypeOK
<1>5. \A u \in Tabs : Waiting(u)' = Waiting(u)
  BY ServeEffect DEF Waiting
<1>6. TypeOK'
  BY <1>3, <1>4, <1>5, ServeEffect DEF TypeOK
<1>7. QED
  BY <1>2, <1>3, <1>6, CallsOnly

\* A page makes a call, or the user logs in: with no token of a pair on its way.
LEMMA RequestStep == ASSUME TypeOK, Parts, NEW t \in Tabs, NEW r \in Requests, Request(t, r) PROVE TypeOK' /\ Parts'
<1> DEFINE v == Sent(IF r = "login" THEN None ELSE access[t], FALSE)
<1>1. r # "logout" /\ "login" \in Requests /\ "logout" \in Requests
  BY AuthAssumption DEF Requests, Request
<1>2. call \in [Tabs -> [Requests -> Call]] /\ call[t][r] = Idle
  BY DEF TypeOK, Request
<1>3. v \in Call /\ v.stage = "sent" /\ Idle.stage = "idle"
  <2>1. access[t] \in Token /\ None \in Token
    BY DEF TypeOK, Token
  <2>2. QED
    BY <2>1 DEF Sent, Call, Idle
<1>4. call' = [call EXCEPT ![t][r] = v]
  BY DEF Request
<1> HIDE DEF v
<1>5. /\ call' \in [Tabs -> [Requests -> Call]] /\ call'[t][r] = v
      /\ \A u \in Tabs : \A q \in Requests : u # t \/ q # r => call'[u][q] = call[u][q]
  BY <1>2, <1>3, <1>4, CallUpdate
<1>6. LoginsKept /\ LogoutsKept
  BY <1>1, <1>3, <1>5 DEF LoginsKept, LogoutsKept
<1>7. UNCHANGED <<row, fresh, stored, access, user, flight, orphans, uses, spoiled>>
  BY DEF Request
<1>8. \A u \in Tabs : Waiting(u)' = Waiting(u)
  BY <1>2, <1>3, <1>5 DEF Waiting
<1>9. TypeOK'
  BY <1>5, <1>7, <1>8 DEF TypeOK
<1>10. QED
  BY <1>6, <1>7, <1>9, CallsOnly

\* The password is refused, or a new pair is on its way to the tab.
LEMMA LoginStep == ASSUME TypeOK, Parts, NEW t \in Tabs, Login(t) PROVE TypeOK' /\ Parts'
<1>0. "login" \in Requests /\ "logout" \in Requests /\ call[t]["login"].stage = "sent"
      /\ call \in [Tabs -> [Requests -> Call]] /\ call[t]["login"] \in Call
  <2>1. "login" \in Requests /\ "logout" \in Requests
    BY DEF Requests
  <2>2. QED
    BY <2>1 DEF Login, TypeOK
<1>1. UNCHANGED <<stored, access, user, flight>>
  BY DEF Login
<1>2. ASSUME NEW v \in Call, v.stage # "waiting", call' = [call EXCEPT ![t]["login"] = v]
      PROVE  /\ call' \in [Tabs -> [Requests -> Call]] /\ call'[t]["login"] = v
             /\ \A u \in Tabs : \A q \in Requests : u # t \/ q # "login" => call'[u][q] = call[u][q]
             /\ \A u \in Tabs : Waiting(u)' = Waiting(u)
  <2>1. /\ call' \in [Tabs -> [Requests -> Call]] /\ call'[t]["login"] = v
        /\ \A u \in Tabs : \A q \in Requests : u # t \/ q # "login" => call'[u][q] = call[u][q]
    BY <1>0, <1>2, CallUpdate
  <2>2. \A u \in Tabs : Waiting(u)' = Waiting(u)
    BY <1>0, <1>2, <2>1 DEF Waiting
  <2>3. QED
    BY <2>1, <2>2
<1>3. CASE call' = [call EXCEPT ![t]["login"].stage = "refused"] /\ UNCHANGED <<row, fresh, orphans, uses, spoiled>>
  <2> DEFINE v == [call[t]["login"] EXCEPT !.stage = "refused"]
  <2>1. v \in Call /\ v.stage = "refused" /\ call' = [call EXCEPT ![t]["login"] = v]
    BY <1>0, <1>3 DEF Call
  <2> HIDE DEF v
  <2>2. /\ call' \in [Tabs -> [Requests -> Call]] /\ call'[t]["login"] = v
        /\ \A u \in Tabs : \A q \in Requests : u # t \/ q # "login" => call'[u][q] = call[u][q]
        /\ \A u \in Tabs : Waiting(u)' = Waiting(u)
    BY <1>2, <2>1
  <2>3. LoginsKept /\ LogoutsKept
    BY <1>0, <2>1, <2>2 DEF LoginsKept, LogoutsKept
  <2>4. TypeOK'
    BY <1>1, <1>3, <2>2 DEF TypeOK
  <2>5. QED
    BY <1>1, <1>3, <2>3, <2>4, CallsOnly
<1>4. ASSUME NEW n \in Pairs, Issued(n),
             uses' = [k \in Pairs |-> IF k \in Unheld THEN 0 ELSE uses[k]],
             call' = [call EXCEPT ![t]["login"] = [@ EXCEPT !.stage = "accepted", !.token = n]]
      PROVE  TypeOK' /\ Parts'
  <2> DEFINE v == [call[t]["login"] EXCEPT !.stage = "accepted", !.token = n]
  <2>1. v \in Call /\ v.stage = "accepted" /\ v.token = n /\ call' = [call EXCEPT ![t]["login"] = v]
    BY <1>0, <1>4 DEF Call, Token
  <2> HIDE DEF v
  <2>2. /\ call' \in [Tabs -> [Requests -> Call]] /\ call'[t]["login"] = v
        /\ \A u \in Tabs : \A q \in Requests : u # t \/ q # "login" => call'[u][q] = call[u][q]
        /\ \A u \in Tabs : Waiting(u)' = Waiting(u)
    BY <1>2, <2>1
  <2>3. /\ n \in Unheld /\ row' \in [Pairs -> {"gone", "live", "revoked"}] /\ row'[n] = "live"
        /\ \A k \in Pairs : k \notin Unheld => row'[k] = row[k]
        /\ fresh' \subseteq Pairs /\ spoiled' = spoiled \ Unheld
        /\ orphans' \subseteq orphans /\ \A o \in orphans' : o[2] \notin Unheld
    BY <1>4, IssuedEffect
  <2>4. uses' \in [Pairs -> Nat] /\ \A k \in Pairs : uses'[k] = IF k \in Unheld THEN 0 ELSE uses[k]
    BY <1>4 DEF TypeOK
  <2>5. TypeOK'
    BY <1>1, <2>2, <2>3, <2>4 DEF TypeOK
  <2>6. LogoutsKept
    BY <1>0, <2>2 DEF LogoutsKept
  <2> USE DEF Parts
  <2>7. CarriesInv'
    BY <1>1, <2>6 DEF CarriesInv, LogoutsKept
  <2>8. SpentInv'
    BY <1>1, <2>3, <2>4, HeldTokens DEF SpentInv, CarriesInv
  <2>9. \A k : Pending(k) /\ k \notin Unheld => Pending(k)'
    BY <1>1, <2>3, <2>6 DEF Pending, LogoutsKept
  <2>10. Pending(n)'
    BY <1>1, <1>4, <2>3, <2>6, HeldTokens DEF Pending, LogoutsKept
  <2>11. PendingInv'
    <3>1. \A u \in Tabs : u # t => call'[u]["login"] = call[u]["login"]
      BY <1>0, <2>2
    <3>2. \A u \in Tabs : flight[u].pair # n /\ call[u]["login"].token # n
      BY <2>3, HeldTokens
    <3>3. QED
      BY <1>1, <2>1, <2>2, <2>9, <2>10, <3>1, <3>2, HeldTokens DEF PendingInv
  <2>12. StoredInv'
    BY <1>1, <2>3, <2>6, HeldTokens DEF StoredInv, LogoutsKept, TypeOK, Token
  <2>13. DeniedInv'
    BY <1>1, <2>3, HeldTokens DEF DeniedInv, CarriesInv
  <2>14. QED
    BY <2>5, <2>7, <2>8, <2>11, <2>12, <2>13
<1>5. QED
  BY <1>3, <1>4 DEF Login

\* The token of a logout is revoked, and the logout is being answered.
LEMMA LogoutStep == ASSUME TypeOK, Parts, NEW t \in Tabs, Logout(t) PROVE TypeOK' /\ Parts'
<1> DEFINE v == [call[t]["logout"] EXCEPT !.stage = "accepted"]
           n == call[t]["logout"].token
<1>0. "login" \in Requests /\ "logout" \in Requests /\ call[t]["logout"].stage = "sent"
      /\ call \in [Tabs -> [Requests -> Call]] /\ call[t]["logout"] \in Call
  BY DEF Requests, Logout, TypeOK
<1>1. UNCHANGED <<fresh, stored, access, user, flight, orphans, uses, spoiled>>
  BY DEF Logout
<1>2. v \in Call /\ v.stage = "accepted" /\ v.token = n /\ call' = [call EXCEPT ![t]["logout"] = v]
  BY <1>0 DEF Call, Logout
<1>3. /\ row' \in [Pairs -> {"gone", "live", "revoked"}] /\ \A k \in Pairs : k # n => row'[k] = row[k]
      /\ \A k \in Pairs : row'[k] = row[k] \/ (row[k] = "live" /\ row'[k] = "revoked")
  BY DEF Logout, TypeOK
<1> HIDE DEF v, n
<1>4. /\ call' \in [Tabs -> [Requests -> Call]] /\ call'[t]["logout"] = v
      /\ \A u \in Tabs : \A q \in Requests : u # t \/ q # "logout" => call'[u][q] = call[u][q]
  BY <1>0, <1>2, CallUpdate
<1>5. \A u \in Tabs : Waiting(u)' = Waiting(u)
  BY <1>0, <1>2, <1>4 DEF Waiting
<1>6. TypeOK'
  BY <1>1, <1>3, <1>4, <1>5 DEF TypeOK
<1>7. /\ \A u \in Tabs : call'[u]["login"] = call[u]["login"] /\ call'[u]["logout"].token = call[u]["logout"].token
      /\ \A u \in Tabs : u # t => call'[u]["logout"] = call[u]["logout"]
  BY <1>0, <1>2, <1>4 DEF n
<1> USE DEF Parts
<1>8. CarriesInv'
  BY <1>0, <1>1, <1>2, <1>4, <1>7 DEF CarriesInv
<1>9. SpentInv'
  BY <1>1, <1>3 DEF SpentInv, CarriesInv
<1>10. \A k : Pending(k) => Pending(k)'
  BY <1>1, <1>3, <1>7 DEF Pending, n
<1>11. PendingInv'
  BY <1>1, <1>7, <1>10 DEF PendingInv
<1>12. StoredInv'
  <2>1. CASE stored = n
    BY <1>1, <1>2, <1>4, <2>1 DEF StoredInv
  <2>2. CASE stored # n
    BY <1>0, <1>1, <1>3, <1>7, <2>2 DEF StoredInv, TypeOK, Token, n
  <2>3. QED
    BY <2>1, <2>2
<1>13. DeniedInv'
  BY <1>1, <1>3 DEF DeniedInv, CarriesInv
<1>14. QED
  BY <1>6, <1>8, <1>9, <1>11, <1>12, <1>13

\* The token is consumed, or the request is denied.
LEMMA ConsumeStep == ASSUME TypeOK, Parts, NEW t \in Tabs, ConsumeRefreshToken(t) PROVE TypeOK' /\ Parts'
<1> DEFINE n == flight[t].token
<1>0. flight \in [Tabs -> Flight] /\ flight[t] \in Flight /\ flight[t].stage = "sent" /\ n \in Pairs
  BY DEF TypeOK, ConsumeRefreshToken, Parts, CarriesInv
<1>1. UNCHANGED <<fresh, stored, access, user, call, orphans, uses, spoiled>>
  BY DEF ConsumeRefreshToken
<1>2. ASSUME NEW x \in {"consumed", "denied"}, flight' = [flight EXCEPT ![t].stage = x]
      PROVE  /\ flight' \in [Tabs -> Flight] /\ flight'[t].stage = x
             /\ \A u \in Tabs : u # t => flight'[u] = flight[u]
             /\ \A u \in Tabs : flight'[u].token = flight[u].token /\ flight'[u].began = flight[u].began
             /\ \A u \in Tabs : flight'[u].pair = flight[u].pair
  BY <1>0, <1>2 DEF Flight
<1>3. PICK x \in {"consumed", "denied"} :
        /\ flight' = [flight EXCEPT ![t].stage = x]
        /\ \/ x = "consumed" /\ row[n] = "live" /\ row' = [row EXCEPT ![n] = "revoked"]
           \/ x = "denied" /\ row[n] # "live" /\ row' = row
           \/ x = "denied" /\ row[n] = "live" /\ row' = [row EXCEPT ![n] = "gone"]
  BY DEF ConsumeRefreshToken, Consumable
<1>4. /\ flight' \in [Tabs -> Flight] /\ flight'[t].stage = x
      /\ \A u \in Tabs : u # t => flight'[u] = flight[u]
      /\ \A u \in Tabs : flight'[u].token = flight[u].token /\ flight'[u].began = flight[u].began
      /\ \A u \in Tabs : flight'[u].pair = flight[u].pair
  BY <1>2, <1>3
<1>5. /\ row' \in [Pairs -> {"gone", "live", "revoked"}] /\ \A k \in Pairs : k # n => row'[k] = row[k]
      /\ row'[n] # "live" /\ (x = "consumed" => row[n] = "live" /\ row'[n] = "revoked")
      /\ x = "denied" => row'[n] = row[n] \/ (row[n] = "live" /\ row'[n] = "gone")
  BY <1>0, <1>3 DEF TypeOK
<1> HIDE DEF n
<1>6. TypeOK'
  <2>1. flight[t] # NoFlight /\ flight'[t] # NoFlight
    BY <1>0, <1>4 DEF NoFlight
  <2>2. \A u \in Tabs : Waiting(u)' = Waiting(u)
    BY <1>1 DEF Waiting
  <2>3. QED
    BY <1>1, <1>4, <1>5, <2>1, <2>2 DEF TypeOK
<1> USE DEF Parts
<1>7. CarriesInv'
  BY <1>0, <1>1, <1>4 DEF CarriesInv, n
<1>8. SpentInv'
  <2>1. uses[n] = 0 \/ x # "consumed"
    BY <1>0, <1>5 DEF SpentInv
  <2>2. \A u \in Tabs : flight[u].stage = "consumed" => flight[u].token # n \/ x # "consumed"
    BY <1>5 DEF SpentInv
  <2>3. \A u \in Tabs : flight[u].stage = "consumed" => row'[flight[u].token] = row[flight[u].token]
    BY <1>5 DEF SpentInv, CarriesInv
  <2>4. QED
    BY <1>0, <1>1, <1>3, <1>4, <1>5, <2>1, <2>2, <2>3 DEF SpentInv, n
<1>9. \A k : Pending(k) => Pending(k)'
  BY <1>0, <1>1, <1>4, <1>5 DEF Pending, n
<1>10. PendingInv'
  BY <1>0, <1>1, <1>3, <1>4, <1>9 DEF PendingInv
<1>11. StoredInv'
  <2>1. CASE stored = n
    <3>1. CASE x = "consumed"
      BY <1>1, <1>4, <2>1, <3>1 DEF StoredInv, n
    <3>2. CASE x = "denied"
      <4>1. row'[stored] = "revoked" => row[stored] = "revoked"
        BY <1>5, <2>1, <3>2
      <4>2. QED
        BY <1>0, <1>1, <1>4, <4>1 DEF StoredInv
    <3>3. QED
      BY <3>1, <3>2
  <2>2. CASE stored # n
    <3>1. stored # None => row'[stored] = row[stored]
      BY <1>5, <2>2 DEF TypeOK, Token
    <3>2. QED
      BY <1>0, <1>1, <1>4, <2>2, <3>1 DEF StoredInv, n
  <2>3. QED
    BY <2>1, <2>2
<1>12. DeniedInv'
  BY <1>0, <1>1, <1>3, <1>4, <1>5 DEF DeniedInv, CarriesInv, n
<1>13. QED
  BY <1>6, <1>7, <1>8, <1>10, <1>11, <1>12

\* A refresh the server fails to serve.
LEMMA FailStep ==
  ASSUME TypeOK, Parts, NEW t \in Tabs, flight[t].stage \in {"sent", "consumed"},
         flight' = [flight EXCEPT ![t].stage = "failed"],
         UNCHANGED <<row, fresh, stored, access, user, call, orphans, uses, spoiled>>
  PROVE  TypeOK' /\ Parts'
<1>0. flight \in [Tabs -> Flight] /\ flight[t] \in Flight
  BY DEF TypeOK
<1>1. /\ flight' \in [Tabs -> Flight] /\ flight'[t].stage = "failed"
      /\ \A u \in Tabs : u # t => flight'[u] = flight[u]
      /\ \A u \in Tabs : flight'[u].token = flight[u].token /\ flight'[u].began = flight[u].began
      /\ \A u \in Tabs : flight'[u].pair = flight[u].pair
  BY <1>0 DEF Flight
<1>2. TypeOK'
  <2>1. flight[t] # NoFlight /\ flight'[t] # NoFlight
    BY <1>0, <1>1 DEF NoFlight
  <2>2. \A u \in Tabs : Waiting(u)' = Waiting(u)
    BY DEF Waiting
  <2>3. QED
    BY <1>1, <2>1, <2>2 DEF TypeOK
<1> USE DEF Parts
<1>3. CarriesInv'
  BY <1>1 DEF CarriesInv
<1>4. SpentInv'
  BY <1>1 DEF SpentInv
<1>5. \A k : Pending(k) => Pending(k)'
  BY <1>1 DEF Pending
<1>6. PendingInv'
  BY <1>1, <1>5 DEF PendingInv
<1>7. StoredInv'
  BY <1>1 DEF StoredInv
<1>8. DeniedInv'
  BY <1>1 DEF DeniedInv
<1>9. QED
  BY <1>2, <1>3, <1>4, <1>6, <1>7, <1>8

\* The successor of a consumed token is issued, or a query fails.
LEMMA ReissueStep == ASSUME TypeOK, Parts, NEW t \in Tabs, Reissue(t) PROVE TypeOK' /\ Parts'
<1>0. flight \in [Tabs -> Flight] /\ flight[t] \in Flight /\ flight[t].stage = "consumed"
      /\ flight[t].token \in Pairs /\ UNCHANGED <<stored, access, user, call>>
  BY DEF TypeOK, Reissue, Parts, CarriesInv
<1>1. CASE flight' = [flight EXCEPT ![t].stage = "failed"] /\ UNCHANGED <<row, fresh, orphans, uses, spoiled>>
  BY <1>0, <1>1, FailStep
<1>2. ASSUME NEW n \in Pairs, Issued(n),
             uses' = [k \in Pairs |-> IF k \in Unheld THEN 0
                                     ELSE IF k = flight[t].token THEN uses[k] + 1 ELSE uses[k]],
             flight' = [flight EXCEPT ![t] = [@ EXCEPT !.stage = "issued", !.pair = n]]
      PROVE  TypeOK' /\ Parts'
  <2> DEFINE v == [flight[t] EXCEPT !.stage = "issued", !.pair = n]
  <2>1. /\ v \in Flight /\ v.stage = "issued" /\ v.pair = n /\ v.token = flight[t].token /\ v.began = flight[t].began
        /\ flight' = [flight EXCEPT ![t] = v]
    BY <1>0, <1>2 DEF Flight, Token
  <2> HIDE DEF v
  <2>2. /\ flight' \in [Tabs -> Flight] /\ flight'[t] = v
        /\ \A u \in Tabs : u # t => flight'[u] = flight[u]
    BY <1>0, <2>1
  <2>3. /\ n \in Unheld /\ row' \in [Pairs -> {"gone", "live", "revoked"}] /\ row'[n] = "live"
        /\ \A k \in Pairs : k \notin Unheld => row'[k] = row[k]
        /\ fresh' \subseteq Pairs /\ spoiled' = spoiled \ Unheld
        /\ orphans' \subseteq orphans /\ \A o \in orphans' : o[2] \notin Unheld
    BY <1>2, IssuedEffect
  <2>4. /\ uses' \in [Pairs -> Nat]
        /\ \A k \in Pairs : k \in Unheld => uses'[k] = 0
        /\ uses'[flight[t].token] = uses[flight[t].token] + 1
        /\ \A k \in Pairs : k \notin Unheld /\ k # flight[t].token => uses'[k] = uses[k]
    BY <1>0, <1>2, HeldTokens DEF TypeOK
  <2>5. \A u \in Tabs : flight'[u].token = flight[u].token /\ flight'[u].began = flight[u].began
    BY <2>1, <2>2
  <2>6. TypeOK'
    <3>1. flight[t] # NoFlight /\ flight'[t] # NoFlight
      BY <1>0, <2>1, <2>2 DEF NoFlight
    <3>2. \A u \in Tabs : Waiting(u)' = Waiting(u)
      BY <1>0 DEF Waiting
    <3>3. QED
      BY <1>0, <2>2, <2>3, <2>4, <3>1, <3>2 DEF TypeOK
  <2> USE DEF Parts
  <2>7. CarriesInv'
    BY <1>0, <2>1, <2>2, <2>5 DEF CarriesInv
  <2>8. SpentInv'
    <3>1. row'[flight[t].token] = "revoked" /\ uses'[flight[t].token] = 1
      BY <1>0, <2>3, <2>4, HeldTokens DEF SpentInv
    <3>2. \A u \in Tabs : flight'[u].stage = "consumed" =>
            /\ u # t /\ flight[u].stage = "consumed" /\ flight'[u] = flight[u]
            /\ flight[u].token \in Pairs /\ flight[u].token \notin Unheld /\ flight[u].token # flight[t].token
      BY <1>0, <2>1, <2>2, HeldTokens DEF SpentInv, CarriesInv
    <3>3. \A k \in Pairs : uses'[k] <= 1 /\ (uses'[k] # 0 => row'[k] # "live")
      <4>1. SUFFICES ASSUME NEW k \in Pairs PROVE uses'[k] <= 1 /\ (uses'[k] # 0 => row'[k] # "live")
        OBVIOUS
      <4>2. CASE k \in Unheld
        BY <2>4, <4>2
      <4>3. CASE k = flight[t].token
        BY <3>1, <4>3
      <4>4. CASE k \notin Unheld /\ k # flight[t].token
        BY <2>3, <2>4, <4>4 DEF SpentInv
      <4>5. QED
        BY <4>2, <4>3, <4>4
    <3>4. QED
      BY <2>3, <2>4, <3>2, <3>3 DEF SpentInv
  <2>9. \A k : Pending(k) /\ k \notin Unheld => Pending(k)'
    BY <1>0, <2>3, <2>5 DEF Pending
  <2>10. Pending(n)'
    BY <1>0, <1>2, <2>3, <2>5, HeldTokens DEF Pending
  <2>11. PendingInv'
    <3>1. \A u \in Tabs : flight[u].pair # n /\ call[u]["login"].token # n
      BY <2>3, HeldTokens
    <3>2. QED
      BY <1>0, <2>1, <2>2, <2>9, <2>10, <3>1, HeldTokens DEF PendingInv
  <2>12. StoredInv'
    <3>1. stored # None => row'[stored] = row[stored] /\ (stored \in spoiled => stored \in spoiled')
      BY <2>3, HeldTokens DEF TypeOK, Token
    <3>2. \A u \in Tabs : flight[u].stage \in {"consumed", "issued", "failed", "lost"} =>
            flight'[u].stage \in {"consumed", "issued", "failed", "lost"}
      BY <2>1, <2>2
    <3>3. QED
      BY <1>0, <2>5, <3>1, <3>2 DEF StoredInv
  <2>13. DeniedInv'
    BY <1>0, <2>1, <2>2, <2>3, <2>5, HeldTokens DEF DeniedInv, CarriesInv
  <2>14. QED
    BY <2>6, <2>7, <2>8, <2>11, <2>12, <2>13
<1>3. QED
  BY <1>1, <1>2 DEF Reissue

\* What is left of the requests a tab stops waiting for: the server may still see
\* the token they present, and a token it has consumed gets its one successor.
LEMMA AbandonedEffect ==
  ASSUME TypeOK, Parts, NEW t \in Tabs
  PROVE  /\ Unseen(t) \subseteq Orphan /\ UnseenLogout(t) \subseteq Orphan
         /\ \A o \in Unseen(t) : o[2] = flight[t].token
         /\ \A o \in UnseenLogout(t) : o[2] = call[t]["logout"].token
         /\ Counted(t) => /\ uses' \in [Pairs -> Nat]
                          /\ \A n \in Pairs : uses'[n] = uses[n]
                               \/ (flight[t].stage = "consumed" /\ n = flight[t].token /\ uses'[n] = 1)
<1>1. /\ flight[t].stage # "none" => flight[t].token \in Pairs
      /\ call[t]["logout"].stage # "idle" => call[t]["logout"].token \in Pairs
  BY DEF Parts, CarriesInv
<1>2. /\ Unseen(t) \subseteq Orphan /\ \A o \in Unseen(t) : o[2] = flight[t].token
  BY <1>1 DEF Unseen, Orphan
<1>3. UnseenLogout(t) \subseteq Orphan /\ \A o \in UnseenLogout(t) : o[2] = call[t]["logout"].token
  BY <1>1 DEF UnseenLogout, Orphan
<1>4. ASSUME Counted(t)
      PROVE  /\ uses' \in [Pairs -> Nat]
             /\ \A n \in Pairs : uses'[n] = uses[n]
                  \/ (flight[t].stage = "consumed" /\ n = flight[t].token /\ uses'[n] = 1)
  <2>1. uses \in [Pairs -> Nat] /\ (flight[t].stage = "consumed" => uses[flight[t].token] = 0)
    BY DEF TypeOK, Parts, SpentInv
  <2>2. CASE flight[t].stage = "consumed"
    <3>1. uses' = [uses EXCEPT ![flight[t].token] = @ + 1] /\ flight[t].token \in Pairs
      BY <1>1, <1>4, <2>2 DEF Counted
    <3>2. QED
      BY <2>1, <2>2, <3>1
  <2>3. CASE flight[t].stage # "consumed"
    BY <1>4, <2>1, <2>3 DEF Counted
  <2>4. QED
    BY <2>2, <2>3
<1>5. QED
  BY <1>2, <1>3, <1>4

\* A load forgets the requests of the tab: what they spent is spoiled.
LEMMA OpenStep == ASSUME TypeOK, Parts, NEW t \in Tabs, Open(t) PROVE TypeOK' /\ Parts'
<1> DEFINE f == [r \in Requests |-> IF r = "me" /\ stored # None THEN Sent(stored, FALSE) ELSE Idle]
<1>0. "login" \in Requests /\ "logout" \in Requests
  BY DEF Requests
<1>1. /\ call \in [Tabs -> [Requests -> Call]] /\ flight \in [Tabs -> Flight] /\ stored \in Token
      /\ UNCHANGED <<row, fresh, stored>> /\ flight[t].stage # "lost"
  BY DEF TypeOK, Open, Settling
<1>2. /\ f \in [Requests -> Call] /\ f["login"] = Idle /\ f["logout"] = Idle
      /\ \A r \in Requests : f[r].stage # "waiting"
  BY <1>0, <1>1 DEF Sent, Idle, Call, Token
<1>3. call' = [call EXCEPT ![t] = f] /\ flight' = [flight EXCEPT ![t] = NoFlight]
  BY DEF Open
<1> HIDE DEF f
<1>4. call' \in [Tabs -> [Requests -> Call]] /\ call'[t] = f /\ \A u \in Tabs : u # t => call'[u] = call[u]
  BY <1>1, <1>2, <1>3, CallReplace
<1>5. NoFlight \in Flight /\ NoFlight.stage = "none" /\ NoFlight.token = None /\ Idle.stage = "idle" /\ Idle.token = None
  BY DEF NoFlight, Flight, Token, Idle
<1>6. flight' \in [Tabs -> Flight] /\ flight'[t] = NoFlight /\ \A u \in Tabs : u # t => flight'[u] = flight[u]
  BY <1>1, <1>3, <1>5
<1>7. /\ spoiled \subseteq spoiled'
      /\ flight[t].stage \in {"consumed", "issued", "failed"} => flight[t].token \in spoiled'
      /\ call[t]["logout"].stage = "accepted" => call[t]["logout"].token \in spoiled'
  BY DEF Open
<1>8. spoiled' \subseteq Pairs
  BY DEF Open, TypeOK, Parts, CarriesInv
<1>18. orphans' = orphans \cup Unseen(t) \cup UnseenLogout(t) /\ Counted(t)
  BY DEF Open
<1>9. TypeOK'
  <2>1. Waiting(t)' = {} /\ \A u \in Tabs : u # t => Waiting(u)' = Waiting(u)
    BY <1>2, <1>4 DEF Waiting
  <2>2. access' \in [Tabs -> Token] /\ user' \in [Tabs -> BOOLEAN]
    BY DEF Open, TypeOK
  <2>3. QED
    BY <1>1, <1>4, <1>6, <1>8, <1>18, <2>1, <2>2, AbandonedEffect DEF TypeOK
<1>10. /\ \A u \in Tabs : call'[u]["login"].stage = "accepted" => u # t /\ call'[u]["login"] = call[u]["login"]
       /\ \A u \in Tabs : flight'[u].stage # "none" => u # t /\ flight'[u] = flight[u]
       /\ \A u \in Tabs : call'[u]["logout"] = call[u]["logout"] \/ call'[u]["logout"] = Idle
       /\ \A u \in Tabs : flight'[u] = flight[u] \/ flight'[u] = NoFlight
  BY <1>2, <1>4, <1>5, <1>6
<1> USE AuthAssumption DEF Parts
<1>11. CarriesInv'
  BY <1>5, <1>10 DEF CarriesInv
<1>12. SpentInv'
  <2>1. \A n \in Pairs : uses'[n] = uses[n] \/ (flight[t].stage = "consumed" /\ n = flight[t].token /\ uses'[n] = 1)
    BY <1>18, AbandonedEffect
  <2>2. \A u \in Tabs : flight'[u].stage = "consumed" =>
          u # t /\ flight[u].stage = "consumed" /\ flight'[u] = flight[u] /\ flight[u].token \in Pairs
    BY <1>10 DEF CarriesInv
  <2>3. \A n \in Pairs : uses'[n] <= 1 /\ (uses'[n] # 0 => row'[n] # "live")
    BY <1>1, <2>1 DEF SpentInv
  <2>4. QED
    BY <1>1, <2>1, <2>2, <2>3 DEF SpentInv
<1>13. \A n : Pending(n) => Pending(n)'
  <2>1. \A o \in orphans' : o \in orphans \/ o[2] = flight[t].token \/ o[2] = call[t]["logout"].token
    BY <1>18, AbandonedEffect
  <2>2. QED
    BY <1>1, <1>5, <1>10, <2>1 DEF Pending
<1>14. PendingInv'
  BY <1>10, <1>13 DEF PendingInv
<1>15. StoredInv'
  BY <1>1, <1>4, <1>6, <1>7 DEF StoredInv
<1>16. DeniedInv'
  BY <1>1, <1>10 DEF DeniedInv
<1>17. QED
  BY <1>9, <1>11, <1>12, <1>14, <1>15, <1>16

\* A logout begins with the stored token, or only clears when there is none.
LEMMA StartLogoutStep == ASSUME TypeOK, Parts, NEW t \in Tabs, StartLogout(t) PROVE TypeOK' /\ Parts'
<1>0. "login" \in Requests /\ "logout" \in Requests
  BY DEF Requests
<1>1. /\ call \in [Tabs -> [Requests -> Call]] /\ stored \in Token /\ call[t]["logout"] = Idle
      /\ UNCHANGED <<row, fresh, flight, orphans, uses, spoiled>>
  BY DEF TypeOK, StartLogout
<1>2. CASE stored # None
  <2> DEFINE v == Sent(stored, FALSE)
  <2>1. v \in Call /\ v.stage = "sent" /\ v.token = stored /\ Idle.stage = "idle"
    BY <1>1 DEF Sent, Call, Idle
  <2>2. call' = [call EXCEPT ![t]["logout"] = v] /\ UNCHANGED <<stored, access, user>>
    BY <1>2 DEF StartLogout
  <2> HIDE DEF v
  <2>3. /\ call' \in [Tabs -> [Requests -> Call]] /\ call'[t]["logout"] = v
        /\ \A u \in Tabs : \A q \in Requests : u # t \/ q # "logout" => call'[u][q] = call[u][q]
    BY <1>0, <1>1, <2>1, <2>2, CallUpdate
  <2>4. \A u \in Tabs : Waiting(u)' = Waiting(u)
    BY <1>1, <2>1, <2>3 DEF Waiting
  <2>5. TypeOK'
    BY <1>1, <2>2, <2>3, <2>4 DEF TypeOK
  <2>6. /\ \A u \in Tabs : call'[u]["login"] = call[u]["login"]
        /\ \A u \in Tabs : u # t => call'[u]["logout"] = call[u]["logout"]
    BY <1>0, <2>3
  <2> USE DEF Parts
  <2>7. CarriesInv'
    BY <1>1, <1>2, <2>1, <2>3, <2>6 DEF CarriesInv, Token
  <2>8. SpentInv'
    BY <1>1 DEF SpentInv
  <2>9. \A n : Pending(n) => Pending(n)'
    BY <1>1, <2>1, <2>2, <2>3, <2>6 DEF Pending
  <2>10. PendingInv'
    BY <1>1, <2>6, <2>9 DEF PendingInv
  <2>11. StoredInv'
    BY <1>1, <2>1, <2>2, <2>6 DEF StoredInv
  <2>12. DeniedInv'
    BY <1>1, <2>2 DEF DeniedInv
  <2>13. QED
    BY <2>5, <2>7, <2>8, <2>10, <2>11, <2>12
<1>3. CASE stored = None
  <2>1. stored' = None /\ access' = [access EXCEPT ![t] = None] /\ user' = [user EXCEPT ![t] = FALSE] /\ call' = call
    BY <1>3 DEF StartLogout, Clear
  <2>2. TypeOK'
    BY <1>1, <2>1 DEF TypeOK, Token, Waiting
  <2>3. QED
    BY <1>1, <2>1, <2>2, Cleared DEF LoginsKept
<1>4. QED
  BY <1>2, <1>3

\* The answer to a call arrives, or never does.
LEMMA ReceiveStep == ASSUME TypeOK, Parts, NEW t \in Tabs, NEW r \in Requests, Receive(t, r) PROVE TypeOK' /\ Parts'
<1>0. "login" \in Requests /\ "logout" \in Requests
  BY DEF Requests
<1>1. /\ call \in [Tabs -> [Requests -> Call]] /\ call[t][r].stage \in {"sent", "accepted", "refused", "thrown"}
      /\ call' = [call EXCEPT ![t][r] = Idle] /\ UNCHANGED <<row, fresh, flight, uses, spoiled>>
      /\ orphans' = IF r = "logout" THEN orphans \cup UnseenLogout(t) ELSE orphans
  BY DEF TypeOK, Receive
<1>12. /\ orphans' \subseteq Orphan /\ (r # "logout" => orphans' = orphans)
       /\ \A o \in orphans' : o \in orphans \/ \E u \in Tabs : call[u]["logout"].token = o[2]
  BY <1>1, AbandonedEffect DEF TypeOK
<1>2. Idle \in Call /\ Idle.stage = "idle" /\ Idle.token = None
  BY DEF Idle, Call, Token
<1>3. /\ call' \in [Tabs -> [Requests -> Call]] /\ call'[t][r] = Idle
      /\ \A u \in Tabs : \A q \in Requests : u # t \/ q # r => call'[u][q] = call[u][q]
  BY <1>1, <1>2, CallUpdate
<1>4. \A u \in Tabs : Waiting(u)' = Waiting(u)
  BY <1>1, <1>2, <1>3 DEF Waiting
<1>5. user' \in [Tabs -> BOOLEAN]
  BY DEF Receive, Returns, Throws, TypeOK
<1>6. LoginsKept /\ \A u \in Tabs : call'[u]["logout"] = call[u]["logout"] \/ call'[u]["logout"] = Idle
  BY <1>0, <1>2, <1>3 DEF LoginsKept
<1>7. r # "logout" => LogoutsKept
  BY <1>0, <1>3 DEF LogoutsKept
<1>8. CASE Clear(t)
  <2>1. stored' = None /\ access' \in [Tabs -> Token]
    BY <1>8 DEF Clear, TypeOK, Token
  <2>2. stored' \in Token
    BY <2>1 DEF Token
  <2>3. TypeOK'
    BY <1>1, <1>3, <1>4, <1>5, <1>12, <2>1, <2>2 DEF TypeOK
  <2>4. QED
    BY <1>1, <1>6, <1>12, <2>1, <2>3, Cleared
<1>9. CASE UNCHANGED <<stored, access>> /\ r # "logout"
  <2>1. TypeOK'
    BY <1>1, <1>3, <1>4, <1>5, <1>9, <1>12 DEF TypeOK
  <2>2. QED
    BY <1>1, <1>6, <1>7, <1>9, <1>12, <2>1, CallsOnly
<1>10. CASE r = "login" /\ call[t][r].stage = "accepted" /\ Save(t, call[t][r].token)
  <2> DEFINE n == call[t]["login"].token
  <2>1. stored' = n /\ Pending(n)
    BY <1>10 DEF Save, Parts, PendingInv
  <2>2. n \in Token
    BY <2>1 DEF Pending, Token
  <2>3. access' \in [Tabs -> Token]
    BY <1>10, <2>2 DEF Save, TypeOK
  <2>4. TypeOK'
    BY <1>1, <1>3, <1>4, <1>5, <1>10, <1>12, <2>1, <2>2, <2>3 DEF TypeOK
  <2>5. /\ \A u \in Tabs : flight[u].stage = "issued" => flight[u].pair # n
        /\ \A u \in Tabs : u # t /\ call[u]["login"].stage = "accepted" => call[u]["login"].token # n
    BY <1>10 DEF Parts, PendingInv
  <2>6. \A u \in Tabs : call'[u]["login"].stage = "accepted" => call[u]["login"].token # n
    BY <1>2, <1>3, <1>6, <1>10, <2>5 DEF LoginsKept
  <2> HIDE DEF n
  <2>7. Parts'
    BY <1>1, <1>6, <1>7, <1>10, <1>12, <2>1, <2>5, <2>6, Saved
  <2>8. QED
    BY <2>4, <2>7
<1>11. QED
  BY <1>8, <1>9, <1>10 DEF Receive, Returns, Throws

\* What Unauthorized does to the calls of a tab.
LEMMA UnauthorizedEffect ==
  ASSUME TypeOK, Parts, NEW t \in Tabs, NEW r \in Requests, Unauthorized(t, r), r # "logout"
  PROVE  /\ stored' = None /\ stored' \in Token /\ access' \in [Tabs -> Token] /\ user' \in [Tabs -> BOOLEAN]
         /\ call' \in [Tabs -> [Requests -> Call]] /\ call'[t][r].stage \in {"idle", "thrown"}
         /\ \A u \in Tabs : \A q \in Requests : u # t \/ q # r => call'[u][q] = call[u][q]
         /\ LoginsKept /\ LogoutsKept
<1> DEFINE v == IF r = "me" THEN Thrown ELSE Idle
<1>0. "login" \in Requests /\ "logout" \in Requests
  BY DEF Requests
<1>1. call \in [Tabs -> [Requests -> Call]] /\ v \in Call /\ v.stage \in {"idle", "thrown"}
  BY DEF TypeOK, Thrown, Idle, Call, Token
<1>2. call' = [call EXCEPT ![t][r] = v]
  BY DEF Unauthorized
<1> HIDE DEF v
<1>3. /\ call' \in [Tabs -> [Requests -> Call]] /\ call'[t][r] = v
      /\ \A u \in Tabs : \A q \in Requests : u # t \/ q # r => call'[u][q] = call[u][q]
  BY <1>1, <1>2, CallUpdate
<1>4. LoginsKept /\ LogoutsKept
  BY <1>0, <1>1, <1>3 DEF LoginsKept, LogoutsKept
<1>5. stored' = None /\ stored' \in Token /\ access' \in [Tabs -> Token] /\ user' \in [Tabs -> BOOLEAN]
  BY DEF Unauthorized, Clear, TypeOK, Token
<1>6. QED
  BY <1>1, <1>3, <1>4, <1>5

\* A call that was refused waits for the refresh of its tab, or the session is over.
LEMMA RefusedStep == ASSUME TypeOK, Parts, NEW t \in Tabs, NEW r \in Requests, Refused(t, r) PROVE TypeOK' /\ Parts'
<1>0. "login" \in Requests /\ "logout" \in Requests
  BY DEF Requests
<1>1. /\ call \in [Tabs -> [Requests -> Call]] /\ call[t][r].stage = "refused" /\ r # "logout"
      /\ flight \in [Tabs -> Flight] /\ stored \in Token /\ UNCHANGED <<row, fresh, orphans, uses, spoiled>>
  BY DEF TypeOK, Refused, MayRefresh, Parts, CarriesInv
<1>2. CASE stored = None
  <2>1. Unauthorized(t, r) /\ UNCHANGED flight
    BY <1>2 DEF Refused
  <2>2. \A u \in Tabs : Waiting(u)' = Waiting(u)
    <3>1. \A u \in Tabs : \A q \in Requests : u # t \/ q # r => call'[u][q] = call[u][q]
      BY <1>1, <2>1, UnauthorizedEffect
    <3>2. call'[t][r].stage # "waiting"
      BY <1>1, <2>1, UnauthorizedEffect
    <3>3. QED
      BY <1>1, <3>1, <3>2 DEF Waiting
  <2>3. TypeOK'
    BY <1>1, <2>1, <2>2, UnauthorizedEffect DEF TypeOK
  <2>4. stored' = None /\ LoginsKept /\ LogoutsKept
    BY <1>1, <2>1, UnauthorizedEffect
  <2>5. Parts'
    BY <1>1, <2>1, <2>4, Cleared DEF LogoutsKept
  <2>6. QED
    BY <2>3, <2>5
<1>3. CASE stored # None
  <2> DEFINE v == [Idle EXCEPT !.stage = "waiting"]
  <2>1. v \in Call /\ v.stage = "waiting"
    BY DEF Idle, Call, Token
  <2>2. call' = [call EXCEPT ![t][r] = v] /\ UNCHANGED <<stored, access, user>> /\ RefreshSession(t)
    BY <1>3 DEF Refused
  <2> HIDE DEF v
  <2>3. /\ call' \in [Tabs -> [Requests -> Call]] /\ call'[t][r] = v
        /\ \A u \in Tabs : \A q \in Requests : u # t \/ q # r => call'[u][q] = call[u][q]
    BY <1>1, <2>1, <2>2, CallUpdate
  <2>4. LoginsKept /\ LogoutsKept
    BY <1>0, <1>1, <2>1, <2>3 DEF LoginsKept, LogoutsKept
  <2> DEFINE w == Refreshing(stored)
  <2>5. w \in Flight /\ w.stage = "sent" /\ w.token = stored /\ w.began = stored /\ w # NoFlight
    BY <1>1 DEF Refreshing, Flight, NoFlight, Token
  <2>6. flight' = IF flight[t] # NoFlight THEN flight ELSE [flight EXCEPT ![t] = w]
    BY <2>2 DEF RefreshSession
  <2> HIDE DEF w
  <2>7. /\ flight' \in [Tabs -> Flight] /\ flight'[t] # NoFlight
        /\ \A u \in Tabs : u # t => flight'[u] = flight[u]
        /\ \A u \in Tabs : flight'[u] = flight[u] \/ (flight[u] = NoFlight /\ flight'[u] = w)
    BY <1>1, <2>5, <2>6
  <2>8. TypeOK'
    <3>1. r \in Waiting(t)' /\ \A u \in Tabs : u # t => Waiting(u)' = Waiting(u)
      BY <2>1, <2>3 DEF Waiting
    <3>2. QED
      BY <1>1, <2>2, <2>3, <2>7, <3>1 DEF TypeOK
  <2>9. NoFlight.stage = "none" /\ stored \in Pairs
    BY <1>1, <1>3 DEF NoFlight, Token
  <2> USE DEF Parts
  <2>10. CarriesInv'
    BY <2>4, <2>5, <2>7, <2>9 DEF CarriesInv, LogoutsKept
  <2>11. SpentInv'
    BY <1>1, <2>5, <2>7 DEF SpentInv
  <2>12. \A n : Pending(n) => Pending(n)'
    BY <1>1, <2>2, <2>4, <2>5, <2>7 DEF Pending, LogoutsKept
  <2>13. PendingInv'
    BY <2>4, <2>5, <2>7, <2>12 DEF PendingInv, LoginsKept
  <2>14. StoredInv'
    BY <1>1, <2>2, <2>4, <2>7, <2>9 DEF StoredInv, LogoutsKept
  <2>15. DeniedInv'
    BY <1>1, <2>2, <2>5, <2>7 DEF DeniedInv
  <2>16. QED
    BY <2>8, <2>10, <2>11, <2>13, <2>14, <2>15
<1>4. QED
  BY <1>2, <1>3

\* The tokens of a refresh are saved, and the calls that waited are sent again.
LEMMA RefreshedStep == ASSUME TypeOK, Parts, NEW t \in Tabs, Refreshed(t) PROVE TypeOK' /\ Parts'
<1> DEFINE n == flight[t].pair
           f == [r \in Requests |-> IF r \in Waiting(t) THEN Sent(IF r = "login" THEN None ELSE n, TRUE) ELSE call[t][r]]
<1>0. "login" \in Requests /\ "logout" \in Requests
  BY DEF Requests
<1>1. /\ call \in [Tabs -> [Requests -> Call]] /\ flight \in [Tabs -> Flight] /\ flight[t].stage = "issued"
      /\ UNCHANGED <<row, fresh, user, orphans, uses, spoiled>>
  BY DEF TypeOK, Refreshed
<1>2. Pending(n) /\ n \in Pairs /\ n \in Token
  BY <1>1 DEF Parts, PendingInv, Pending, Token
<1>3. stored' = n /\ access' \in [Tabs -> Token]
  BY <1>2 DEF Refreshed, Kept, Save, TypeOK
<1>4. call' = [call EXCEPT ![t] = f] /\ flight' = [flight EXCEPT ![t] = NoFlight]
  BY DEF Refreshed
<1> HIDE DEF n
<1>5. /\ f \in [Requests -> Call]
      /\ \A r \in Requests : IF r \in Waiting(t) THEN f[r].stage = "sent" ELSE f[r] = call[t][r]
  BY <1>1, <1>2 DEF Sent, Call, Token
<1> HIDE DEF f
<1>6. call' \in [Tabs -> [Requests -> Call]] /\ call'[t] = f /\ \A u \in Tabs : u # t => call'[u] = call[u]
  BY <1>1, <1>4, <1>5, CallReplace
<1>7. NoFlight \in Flight /\ NoFlight.stage = "none"
  BY DEF NoFlight, Flight, Token
<1>8. flight' \in [Tabs -> Flight] /\ flight'[t] = NoFlight /\ \A u \in Tabs : u # t => flight'[u] = flight[u]
  BY <1>1, <1>4, <1>7
<1>9. TypeOK'
  <2>1. Waiting(t)' = {}
    BY <1>5, <1>6 DEF Waiting
  <2>2. \A u \in Tabs : u # t => Waiting(u)' = Waiting(u)
    BY <1>6 DEF Waiting
  <2>3. QED
    BY <1>1, <1>2, <1>3, <1>6, <1>8, <2>1, <2>2 DEF TypeOK
<1>10. "logout" \notin Waiting(t)
  BY DEF Waiting, Parts, CarriesInv
<1>11. LoginsKept /\ LogoutsKept
  BY <1>0, <1>5, <1>6, <1>10 DEF LoginsKept, LogoutsKept
<1>12. /\ \A u \in Tabs : flight'[u] = flight[u] \/ flight'[u] = NoFlight
       /\ \A u \in Tabs : flight'[u].stage = "issued" => flight[u].pair # n
       /\ \A u \in Tabs : call'[u]["login"].stage = "accepted" => call[u]["login"].token # n
  BY <1>1, <1>7, <1>8, <1>11 DEF LoginsKept, Parts, PendingInv, n
<1>13. Parts'
  BY <1>1, <1>2, <1>3, <1>11, <1>12, Saved
<1>14. QED
  BY <1>9, <1>13

\* A step that moves one refresh to a stage in which its tab is settling.
LEMMA SettlingEffect ==
  ASSUME TypeOK, NEW t \in Tabs, flight[t].stage # "none", NEW x \in {"cleared", "lost"},
         flight' = [flight EXCEPT ![t].stage = x], UNCHANGED call
  PROVE  /\ flight' \in [Tabs -> Flight] /\ flight'[t].stage = x
         /\ \A u \in Tabs : u # t => flight'[u] = flight[u]
         /\ \A u \in Tabs : flight'[u].token = flight[u].token /\ flight'[u].began = flight[u].began
         /\ \A u \in Tabs : flight'[u].pair = flight[u].pair
         /\ \A u \in Tabs : (flight'[u] # NoFlight) <=> (Waiting(u)' # {})
<1>0. flight \in [Tabs -> Flight] /\ flight[t] \in Flight
  BY DEF TypeOK
<1>1. /\ flight' \in [Tabs -> Flight] /\ flight'[t].stage = x
      /\ \A u \in Tabs : u # t => flight'[u] = flight[u]
      /\ \A u \in Tabs : flight'[u].token = flight[u].token /\ flight'[u].began = flight[u].began
      /\ \A u \in Tabs : flight'[u].pair = flight[u].pair
  BY <1>0 DEF Flight
<1>2. flight[t] # NoFlight /\ flight'[t] # NoFlight
  BY <1>0, <1>1 DEF NoFlight
<1>3. \A u \in Tabs : Waiting(u)' = Waiting(u)
  BY DEF Waiting
<1>4. QED
  BY <1>1, <1>2, <1>3 DEF TypeOK

\* A refresh that is refused clears the tokens.
LEMMA RefreshRefusedStep == ASSUME TypeOK, Parts, NEW t \in Tabs, RefreshRefused(t) PROVE TypeOK' /\ Parts'
<1>0. /\ flight[t].stage \in {"denied", "failed"} /\ flight' = [flight EXCEPT ![t].stage = "cleared"]
      /\ UNCHANGED <<row, fresh, user, call, orphans, uses, spoiled>>
      /\ stored' = None /\ stored' \in Token /\ access' \in [Tabs -> Token]
  BY DEF RefreshRefused, Clear, TypeOK, Token
<1>1. /\ flight' \in [Tabs -> Flight] /\ flight'[t].stage = "cleared"
      /\ \A u \in Tabs : u # t => flight'[u] = flight[u]
      /\ \A u \in Tabs : flight'[u].token = flight[u].token /\ flight'[u].began = flight[u].began
      /\ \A u \in Tabs : flight'[u].pair = flight[u].pair
      /\ \A u \in Tabs : (flight'[u] # NoFlight) <=> (Waiting(u)' # {})
  BY <1>0, SettlingEffect
<1>2. TypeOK'
  BY <1>0, <1>1 DEF TypeOK
<1> USE AuthAssumption DEF Parts
<1>3. CarriesInv'
  BY <1>0, <1>1 DEF CarriesInv
<1>4. SpentInv'
  BY <1>0, <1>1 DEF SpentInv
<1>5. \A k : Pending(k) => Pending(k)'
  BY <1>0, <1>1 DEF Pending
<1>6. PendingInv'
  BY <1>0, <1>1, <1>5 DEF PendingInv
<1>7. StoredInv'
  BY <1>0 DEF StoredInv
<1>8. DeniedInv'
  BY <1>0, <1>1 DEF DeniedInv, CarriesInv
<1>9. QED
  BY <1>2, <1>3, <1>4, <1>6, <1>7, <1>8

\* A refresh whose answer is lost may still be served.
LEMMA RefreshLostStep == ASSUME TypeOK, Parts, NEW t \in Tabs, RefreshLost(t) PROVE TypeOK' /\ Parts'
<1>0. /\ flight[t].stage \notin {"none", "cleared", "lost"} /\ flight' = [flight EXCEPT ![t].stage = "lost"]
      /\ UNCHANGED <<row, fresh, stored, access, user, call, spoiled>>
      /\ orphans' = orphans \cup Unseen(t) /\ Counted(t)
  BY DEF RefreshLost
<1>1. /\ flight' \in [Tabs -> Flight] /\ flight'[t].stage = "lost"
      /\ \A u \in Tabs : u # t => flight'[u] = flight[u]
      /\ \A u \in Tabs : flight'[u].token = flight[u].token /\ flight'[u].began = flight[u].began
      /\ \A u \in Tabs : flight'[u].pair = flight[u].pair
      /\ \A u \in Tabs : (flight'[u] # NoFlight) <=> (Waiting(u)' # {})
  BY <1>0, SettlingEffect
<1>2. /\ orphans' \subseteq Orphan /\ \A o \in orphans' : o \in orphans \/ o[2] = flight[t].token
      /\ uses' \in [Pairs -> Nat]
      /\ \A n \in Pairs : uses'[n] = uses[n]
           \/ (flight[t].stage = "consumed" /\ n = flight[t].token /\ uses'[n] = 1)
  BY <1>0, AbandonedEffect DEF TypeOK
<1>3. TypeOK'
  BY <1>0, <1>1, <1>2 DEF TypeOK
<1> USE DEF Parts
<1>4. CarriesInv'
  BY <1>0, <1>1 DEF CarriesInv
<1>5. SpentInv'
  <2>1. \A u \in Tabs : flight'[u].stage = "consumed" =>
          u # t /\ flight[u].stage = "consumed" /\ flight'[u] = flight[u] /\ flight[u].token \in Pairs
    BY <1>1 DEF CarriesInv
  <2>2. \A n \in Pairs : uses'[n] <= 1 /\ (uses'[n] # 0 => row'[n] # "live")
    BY <1>0, <1>2 DEF SpentInv
  <2>3. QED
    BY <1>0, <1>2, <2>1, <2>2 DEF SpentInv
<1>6. \A k : Pending(k) => Pending(k)'
  BY <1>0, <1>1, <1>2 DEF Pending
<1>7. PendingInv'
  BY <1>0, <1>1, <1>6 DEF PendingInv
<1>8. StoredInv'
  BY <1>0, <1>1 DEF StoredInv
<1>9. DeniedInv'
  BY <1>0, <1>1 DEF DeniedInv
<1>10. QED
  BY <1>3, <1>4, <1>5, <1>7, <1>8, <1>9

\* A call that awaited a refresh that failed ends the session in the tab.
LEMMA GiveUpStep == ASSUME TypeOK, Parts, NEW t \in Tabs, NEW r \in Requests, GiveUp(t, r) PROVE TypeOK' /\ Parts'
<1>0. /\ call[t][r].stage = "waiting" /\ Unauthorized(t, r) /\ UNCHANGED <<row, fresh, orphans, uses, spoiled>>
      /\ flight' = IF Waiting(t) = {r} THEN [flight EXCEPT ![t] = NoFlight] ELSE flight
      /\ flight \in [Tabs -> Flight]
  BY DEF GiveUp, Waiting, TypeOK
<1>1. r # "logout"
  BY <1>0 DEF Parts, CarriesInv
<1>2. /\ stored' = None /\ stored' \in Token /\ access' \in [Tabs -> Token] /\ user' \in [Tabs -> BOOLEAN]
      /\ call' \in [Tabs -> [Requests -> Call]] /\ call'[t][r].stage # "waiting"
      /\ \A u \in Tabs : \A q \in Requests : u # t \/ q # r => call'[u][q] = call[u][q]
      /\ LoginsKept /\ LogoutsKept
  BY <1>0, <1>1, UnauthorizedEffect
<1>3. NoFlight \in Flight
  BY DEF NoFlight, Flight, Token
<1>4. /\ flight' \in [Tabs -> Flight] /\ \A u \in Tabs : u # t => flight'[u] = flight[u]
      /\ flight'[t] = IF Waiting(t) = {r} THEN NoFlight ELSE flight[t]
      /\ \A u \in Tabs : flight'[u] = flight[u] \/ flight'[u] = NoFlight
  BY <1>0, <1>3
<1>5. Waiting(t)' = Waiting(t) \ {r} /\ \A u \in Tabs : u # t => Waiting(u)' = Waiting(u)
  BY <1>2 DEF Waiting
<1>6. r \in Waiting(t) /\ flight[t] # NoFlight
  BY <1>0 DEF Waiting, TypeOK
<1>7. \A u \in Tabs : (flight'[u] # NoFlight) <=> (Waiting(u)' # {})
  BY <1>4, <1>5, <1>6 DEF TypeOK
<1>8. TypeOK'
  BY <1>0, <1>2, <1>4, <1>7 DEF TypeOK
<1>9. Parts'
  BY <1>0, <1>2, <1>4, Cleared DEF LogoutsKept
<1>10. QED
  BY <1>8, <1>9

\* The server sees a request nobody waits for: it spends no pending pair.
LEMMA ServeOrphanStep == ASSUME TypeOK, Parts, NEW o \in orphans, ServeOrphan(o) PROVE TypeOK' /\ Parts'
<1> DEFINE n == o[2]
<1>0. /\ n \in Pairs /\ UNCHANGED <<fresh, stored, access, user, call, flight>>
      /\ orphans' \subseteq orphans /\ orphans' \subseteq Orphan
  BY DEF ServeOrphan, TypeOK, Orphan
<1>1. /\ row' \in [Pairs -> {"gone", "live", "revoked"}] /\ \A k \in Pairs : k # n => row'[k] = row[k]
      /\ row'[n] = row[n] \/ (row[n] = "live" /\ row'[n] = "revoked" /\ n \in spoiled')
      /\ spoiled' \subseteq Pairs /\ spoiled \subseteq spoiled'
      /\ uses' \in [Pairs -> Nat] /\ \A k \in Pairs : k # n => uses'[k] = uses[k]
      /\ uses'[n] = uses[n] \/ (row[n] = "live" /\ row'[n] = "revoked" /\ uses'[n] = uses[n] + 1)
  BY <1>0 DEF ServeOrphan, Consumable, TypeOK
<1> HIDE DEF n
<1>2. TypeOK'
  BY <1>0, <1>1 DEF TypeOK, Waiting
<1> USE DEF Parts
<1>3. CarriesInv'
  BY <1>0 DEF CarriesInv
<1>4. SpentInv'
  <2>1. \A k \in Pairs : uses'[k] <= 1 /\ (uses'[k] # 0 => row'[k] # "live")
    <3>1. row[n] = "live" => uses[n] = 0
      BY <1>0 DEF SpentInv
    <3>2. uses'[n] <= 1 /\ (uses'[n] # 0 => row'[n] # "live")
      BY <1>0, <1>1, <3>1 DEF SpentInv, TypeOK
    <3>3. QED
      BY <1>1, <3>2 DEF SpentInv
  <2>2. \A u \in Tabs : flight[u].stage = "consumed" =>
          flight[u].token \in Pairs /\ row[flight[u].token] = "revoked" /\ uses[flight[u].token] = 0
    BY DEF SpentInv, CarriesInv
  <2>3. \A u \in Tabs : flight[u].stage = "consumed" =>
          row'[flight[u].token] = "revoked" /\ uses'[flight[u].token] = 0
    BY <1>1, <2>2
  <2>4. QED
    BY <1>0, <2>1, <2>3 DEF SpentInv
<1>5. \A k : Pending(k) => Pending(k)'
  BY <1>0, <1>1 DEF Pending, n
<1>6. PendingInv'
  BY <1>0, <1>5 DEF PendingInv
<1>7. StoredInv'
  <2>1. CASE stored = n
    BY <1>0, <1>1, <2>1 DEF StoredInv
  <2>2. CASE stored # n
    BY <1>0, <1>1, <2>2 DEF StoredInv, TypeOK, Token
  <2>3. QED
    BY <2>1, <2>2
<1>8. DeniedInv'
  BY <1>0, <1>1 DEF DeniedInv, CarriesInv
<1>9. QED
  BY <1>2, <1>3, <1>4, <1>6, <1>7, <1>8

-----------------------------------------------------------------------------
\* No token is stored and no request is under way when the tabs open.
LEMMA InitHolds == Init => AuthInv
<1> SUFFICES ASSUME Init PROVE AuthInv
  OBVIOUS
<1> USE AuthAssumption DEF Init, NoFlight, Idle
<1>0. "login" \in Requests /\ "logout" \in Requests
  BY DEF Requests
<1>1. Idle \in Call /\ NoFlight \in Flight
  BY DEF Call, Flight, Token
<1>2. call \in [Tabs -> [Requests -> Call]] /\ flight \in [Tabs -> Flight]
  BY <1>1
<1>3. \A t \in Tabs : flight[t] = NoFlight /\ Waiting(t) = {}
  BY DEF Waiting
<1>4. TypeOK
  BY <1>2, <1>3 DEF TypeOK, Token
<1>5. CarriesInv /\ SpentInv
  BY <1>0 DEF CarriesInv, SpentInv
<1>6. PendingInv /\ StoredInv /\ DeniedInv
  BY <1>0 DEF PendingInv, StoredInv, DeniedInv
<1>7. QED
  BY <1>4, <1>5, <1>6 DEF AuthInv

\* Every step of a tab, of the server and of time keeps the invariant.
LEMMA AuthStep == AuthInv /\ [Next]_vars => AuthInv'
<1> SUFFICES ASSUME TypeOK, Parts, [Next]_vars PROVE TypeOK' /\ Parts'
  BY DEF AuthInv, Parts
<1>1. ASSUME NEW t \in Tabs, ConsumeFails(t) PROVE TypeOK' /\ Parts'
  BY <1>1, FailStep DEF ConsumeFails
<1>2. CASE UNCHANGED vars
  <2>1. UNCHANGED <<row, fresh, stored, access, user, call, flight, orphans, uses, spoiled>>
    BY <1>2 DEF vars
  <2>2. TypeOK'
    BY <2>1 DEF TypeOK, Waiting
  <2>3. LoginsKept /\ LogoutsKept
    BY <2>1 DEF LoginsKept, LogoutsKept
  <2>4. QED
    BY <2>1, <2>2, <2>3, CallsOnly
<1>3. QED
  BY <1>1, <1>2, ServeStep, RequestStep, LoginStep, LogoutStep, ConsumeStep, ReissueStep, OpenStep, StartLogoutStep,
     ReceiveStep, RefusedStep, RefreshedStep, RefreshRefusedStep, RefreshLostStep, GiveUpStep, ServeOrphanStep DEF Next

\* The inductive invariant of the rotation and of the tabs that use it.
THEOREM Invariance == Spec => []AuthInv
  BY InitHolds, AuthStep, PTL DEF Spec

\* refreshSession shares one refresh: in every reachable state a call waits
\* exactly while a refresh of its tab is in flight.
THEOREM TypeCorrect == Spec => []TypeOK
<1>1. AuthInv => TypeOK
  BY DEF AuthInv
<1>2. QED
  BY <1>1, Invariance, PTL

\* A refresh token is given one successor at most, however many tabs present it.
THEOREM OneSuccessorHolds == Spec => []OneSuccessor
<1>1. AuthInv => OneSuccessor
  BY DEF AuthInv, SpentInv, OneSuccessor
<1>2. QED
  BY <1>1, Invariance, PTL

\* The stored refresh token was not spent, but by a request that is being
\* awaited or that a reload stopped waiting for.
THEOREM StoredIsUsableHolds == Spec => []StoredIsUsable
<1>1. AuthInv => StoredIsUsable
  BY DEF AuthInv, StoredInv, StoredIsUsable
<1>2. QED
  BY <1>1, Invariance, PTL

\* A session the server would renew is dropped by a logout, by a failure or by
\* the refusal of another token, and by nothing else.
THEOREM DroppedForAReasonHolds == Spec => DroppedForAReason
<1> DEFINE Dropped == stored # None /\ row[stored] = "live" /\ stored' = None
           Reason == \E t \in Tabs :
             \/ \E r \in {"me", "logout"} : call[t][r] # Idle /\ call'[t][r] = Idle
             \/ /\ \/ flight[t].stage \in {"failed", "lost"}
                   \/ flight[t].stage \in {"denied", "cleared"} /\ flight[t].began # stored
                /\ flight'[t] # flight[t] \/ call'[t] # call[t]
<1>1. AuthInv /\ [Next]_vars => [Dropped => Reason]_vars
  <2> SUFFICES ASSUME AuthInv, Next, Dropped PROVE Reason
    BY DEF vars
  <2> USE AuthAssumption
  <2>0. call \in [Tabs -> [Requests -> Call]] /\ flight \in [Tabs -> Flight] /\ Idle.stage = "idle" /\ NoFlight.stage = "none"
    BY DEF AuthInv, TypeOK, Idle, NoFlight
  <2>1. ASSUME NEW t \in Tabs, NEW r \in Requests, Receive(t, r) PROVE Reason
    <3>1. call[t][r].stage # "idle" /\ call'[t][r] = Idle
      BY <2>0, <2>1 DEF Receive
    <3>2. CASE r \in {"me", "logout"}
      BY <2>0, <3>1, <3>2
    <3>3. CASE r = "login" /\ call[t][r].stage = "accepted" /\ Save(t, call[t][r].token)
      BY <3>3 DEF Save, AuthInv, PendingInv, Pending
    <3>4. CASE stored' = stored
      BY <3>4
    <3>5. QED
      BY <2>1, <3>2, <3>3, <3>4 DEF Receive, Returns, Throws
  <2>2. ASSUME NEW t \in Tabs, RefreshRefused(t) PROVE Reason
    <3>1. /\ flight[t].stage \in {"denied", "failed"} /\ flight'[t].stage = "cleared"
          /\ flight[t].stage # "none" => flight[t].began = flight[t].token
      BY <2>0, <2>2 DEF RefreshRefused, AuthInv, CarriesInv, Flight
    <3>2. flight[t].stage = "denied" => flight[t].began # stored
      BY <3>1 DEF AuthInv, DeniedInv
    <3>3. QED
      BY <3>1, <3>2
  <2>10. ASSUME NEW t \in Tabs, NEW r \in Requests, GiveUp(t, r) PROVE Reason
    <3>1. /\ flight[t].stage \in {"cleared", "lost"} /\ call[t][r].stage = "waiting"
          /\ call' = [call EXCEPT ![t][r] = IF r = "me" THEN Thrown ELSE Idle]
      BY <2>10 DEF GiveUp, Settling, Waiting, Unauthorized
    <3>2. call'[t][r].stage # "waiting"
      BY <2>0, <3>1 DEF Thrown, Idle
    <3>3. call'[t] # call[t]
      BY <3>1, <3>2
    <3>4. flight[t].stage = "cleared" => flight[t].began # stored
      BY <3>1 DEF AuthInv, CarriesInv, DeniedInv
    <3>5. QED
      BY <3>1, <3>3, <3>4
  <2>3. ASSUME NEW t \in Tabs, Refreshed(t) PROVE FALSE
    BY <2>3 DEF Refreshed, Kept, Save, AuthInv, PendingInv, Pending
  <2>4. ASSUME NEW t \in Tabs, NEW r \in Requests, Refused(t, r) PROVE FALSE
    BY <2>4 DEF Refused
  <2>5. ASSUME NEW t \in Tabs, StartLogout(t) PROVE FALSE
    BY <2>5 DEF StartLogout
  <2>6. ASSUME NEW t \in Tabs, Open(t) \/ Login(t) \/ Logout(t) PROVE FALSE
    BY <2>6 DEF Open, Login, Logout
  <2>7. ASSUME NEW t \in Tabs, ConsumeRefreshToken(t) \/ ConsumeFails(t) \/ Reissue(t) \/ RefreshLost(t) PROVE FALSE
    BY <2>7 DEF ConsumeRefreshToken, ConsumeFails, Reissue, RefreshLost
  <2>11. ASSUME NEW o \in orphans, ServeOrphan(o) PROVE FALSE
    BY <2>11 DEF ServeOrphan
  <2>8. ASSUME NEW t \in Tabs, NEW r \in Requests, Request(t, r) \/ Serve(t, r) PROVE FALSE
    BY <2>8 DEF Request, Serve
  <2>9. QED
    BY <2>1, <2>2, <2>3, <2>4, <2>5, <2>6, <2>7, <2>8, <2>10, <2>11 DEF Next
<1>2. QED
  BY <1>1, Invariance, PTL DEF Spec, DroppedForAReason
=============================================================================
