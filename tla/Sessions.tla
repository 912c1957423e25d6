------------------------------ MODULE Sessions ------------------------------
(***************************************************************************)
(* The TCP server that the trackers talk to: the accept loop with its      *)
(* limit of connections, one goroutine per session, the Manager that maps  *)
(* an IMEI to its session, and the API requests that send a payload by     *)
(* IMEI.  Every critical section of the Manager's mutex is one action, so  *)
(* is every use of a socket, and the rest of a session's code interleaves. *)
(*                                                                         *)
(* A message is the IMEI it carries or the session already has; framing    *)
(* and parsing are left out, and so are the database's effects of          *)
(* HandleMessage other than knowing the IMEI or not.                       *)
(***************************************************************************)
EXTENDS Naturals, FiniteSets

CONSTANTS Conns,          \* connections that may be accepted
          Imeis,          \* IMEIs of registered devices
          Sends,          \* API requests that send a payload
          NoConn,         \* no session
          NoImei,         \* a session not identified yet
          MaxConnections, \* TCP_MAX_CONNECTIONS, the capacity of sem
          OneImei         \* TRUE: a connection carries the IMEI of one device

ASSUME SessionsAssumption ==
  /\ NoConn \notin Conns
  /\ NoImei \notin Imeis
  /\ MaxConnections \in Nat
  /\ OneImei \in BOOLEAN

VARIABLES
  conns,    \* conns[i]: the Manager's map, NoConn where there is no key
  place,    \* place[c]: what the goroutine of the session does next
  imei,     \* imei[c]: the identity of the session
  listed,   \* session.registered: the sessions that called Register
  sock,     \* sock[c]: the server's end of the socket
  evict,    \* evict[c]: the session that c's Register call is to close
  sem,      \* the sessions that hold a slot of the semaphore
  stopping, \* the server's context was cancelled
  listening, \* the listener is open
  send      \* send[s]: an API request and the session it looked up

vars == <<conns, place, imei, listed, sock, evict, sem, stopping, listening, send>>

\* "reading": in run; "handled": a message was handled, Register is next;
\* "evicting": Register has the map's lock behind it; "ending": the deferred
\* Close is next; then UnregisterConn and the release of the slot.
Place == {"none", "refused", "reading", "handled", "evicting", "ending",
          "closed", "unregistered", "done"}
Gone == {"none", "refused", "done"}
Running == Place \ Gone

SendState == [phase : {"idle", "found", "written", "failed"},
              to : Imeis \cup {NoImei}, on : Conns \cup {NoConn}]

TypeOK ==
  /\ conns \in [Imeis -> Conns \cup {NoConn}]
  /\ place \in [Conns -> Place]
  /\ imei \in [Conns -> Imeis \cup {NoImei}]
  /\ listed \subseteq Conns
  /\ sock \in [Conns -> {"none", "open", "closed"}]
  /\ evict \in [Conns -> Conns \cup {NoConn}]
  /\ sem \subseteq Conns
  /\ stopping \in BOOLEAN
  /\ listening \in BOOLEAN
  /\ send \in [Sends -> SendState]

Init ==
  /\ conns = [i \in Imeis |-> NoConn]
  /\ place = [c \in Conns |-> "none"]
  /\ imei = [c \in Conns |-> NoImei]
  /\ listed = {}
  /\ sock = [c \in Conns |-> "none"]
  /\ evict = [c \in Conns |-> NoConn]
  /\ sem = {}
  /\ stopping = FALSE
  /\ listening = TRUE
  /\ send = [s \in Sends |-> [phase |-> "idle", to |-> NoImei, on |-> NoConn]]

Go(c, p) == place' = [place EXCEPT ![c] = p]

-----------------------------------------------------------------------------
(* ListenAndServe and handle.                                              *)

\* Defect: the slot is taken without looking at the capacity.
HasSlotAlways == TRUE
\* select on sem: there is a free slot, or the connection is refused.
HasSlot == Cardinality(sem) < MaxConnections

\* Accept takes a connection as long as the listener is open, also after the
\* context was cancelled.
Accept(c) ==
  /\ listening
  /\ place[c] = "none"
  /\ \/ /\ HasSlot
        /\ sem' = sem \cup {c}
        /\ sock' = [sock EXCEPT ![c] = "open"]
        /\ Go(c, "reading")
     \/ /\ ~HasSlot
        /\ sock' = [sock EXCEPT ![c] = "closed"]
        /\ Go(c, "refused")
        /\ UNCHANGED sem
  /\ UNCHANGED <<conns, imei, listed, evict, stopping, listening, send>>

\* The context is cancelled: a goroutine closes the listener, and each session's
\* AfterFunc closes its socket, some time later.
Shutdown ==
  /\ ~stopping
  /\ stopping' = TRUE
  /\ UNCHANGED <<conns, place, imei, listed, sock, evict, sem, listening, send>>

CloseListener ==
  /\ stopping
  /\ listening
  /\ listening' = FALSE
  /\ UNCHANGED <<conns, place, imei, listed, sock, evict, sem, stopping, send>>

\* Defect: only the sessions of the Manager's map are closed.
StopListedSession(c) ==
  /\ stopping
  /\ sock[c] = "open"
  /\ \E i \in Imeis : conns[i] = c
  /\ sock' = [sock EXCEPT ![c] = "closed"]
  /\ UNCHANGED <<conns, place, imei, listed, evict, sem, stopping, listening, send>>

StopSession(c) ==
  /\ stopping
  /\ sock[c] = "open"
  /\ sock' = [sock EXCEPT ![c] = "closed"]
  /\ UNCHANGED <<conns, place, imei, listed, evict, sem, stopping, listening, send>>

-----------------------------------------------------------------------------
(* session.dispatch and Manager.Register.                                  *)

\* A message of device i, read before the socket closed, is handled: Identify
\* runs when resolveDevice knows the IMEI.  A failed query leaves the session
\* as it was and the loop goes on, and a further message of a listed session's
\* own device changes nothing here.
HandleMessage(c, i) ==
  /\ place[c] = "reading"
  /\ OneImei => imei[c] \in {i, NoImei}
  /\ c \notin listed \/ imei[c] # i
  /\ imei' = [imei EXCEPT ![c] = i]
  /\ Go(c, IF c \in listed THEN "reading" ELSE "handled")
  /\ UNCHANGED <<conns, listed, sock, evict, sem, stopping, listening, send>>

\* Defect: the previous session is left open.
RegisterKeepingPrevious(c) ==
  /\ place[c] = "handled"
  /\ conns' = [conns EXCEPT ![imei[c]] = c]
  /\ listed' = listed \cup {c}
  /\ Go(c, "reading")
  /\ UNCHANGED <<imei, sock, evict, sem, stopping, listening, send>>

\* Register, up to the unlock.
Register(c) ==
  LET previous == conns[imei[c]]
  IN /\ place[c] = "handled"
     /\ conns' = [conns EXCEPT ![imei[c]] = c]
     /\ listed' = listed \cup {c}
     /\ \/ /\ previous \notin {NoConn, c}
           /\ evict' = [evict EXCEPT ![c] = previous]
           /\ Go(c, "evicting")
        \/ /\ previous \in {NoConn, c}
           /\ Go(c, "reading")
           /\ UNCHANGED evict
     /\ UNCHANGED <<imei, sock, sem, stopping, listening, send>>

\* Register, after the unlock: previous.Close().
ClosePrevious(c) ==
  /\ place[c] = "evicting"
  /\ sock' = [sock EXCEPT ![evict[c]] = "closed"]
  /\ Go(c, "reading")
  /\ UNCHANGED <<conns, imei, listed, evict, sem, stopping, listening, send>>

-----------------------------------------------------------------------------
(* The end of a session.                                                   *)

\* run returns: end of file, read timeout, an oversized or unknown stream, an
\* unknown IMEI, a failed ACK, a closed socket, or a panic.
EndRun(c) ==
  /\ place[c] = "reading"
  /\ Go(c, "ending")
  /\ UNCHANGED <<conns, imei, listed, sock, evict, sem, stopping, listening, send>>

CloseSocket(c) ==
  /\ place[c] = "ending"
  /\ sock' = [sock EXCEPT ![c] = "closed"]
  /\ Go(c, "closed")
  /\ UNCHANGED <<conns, imei, listed, evict, sem, stopping, listening, send>>

\* Defect: the key is deleted whoever holds it.
UnregisterConnAny(c) ==
  /\ place[c] = "closed"
  /\ conns' = IF imei[c] \in Imeis THEN [conns EXCEPT ![imei[c]] = NoConn] ELSE conns
  /\ Go(c, "unregistered")
  /\ UNCHANGED <<imei, listed, sock, evict, sem, stopping, listening, send>>

\* Defect: an ended session stays in the map.
UnregisterConnNever(c) ==
  /\ place[c] = "closed"
  /\ Go(c, "unregistered")
  /\ UNCHANGED <<conns, imei, listed, sock, evict, sem, stopping, listening, send>>

\* UnregisterConn: only the current session of its IMEI removes the key.
UnregisterConn(c) ==
  /\ place[c] = "closed"
  /\ conns' = [i \in Imeis |-> IF i = imei[c] /\ conns[i] = c THEN NoConn
                                                             ELSE conns[i]]
  /\ Go(c, "unregistered")
  /\ UNCHANGED <<imei, listed, sock, evict, sem, stopping, listening, send>>

\* HandleDisconnect has returned; the goroutine gives its slot back.
Release(c) ==
  /\ place[c] = "unregistered"
  /\ sem' = sem \ {c}
  /\ Go(c, "done")
  /\ UNCHANGED <<conns, imei, listed, sock, evict, stopping, listening, send>>

-----------------------------------------------------------------------------
(* Manager.Send: look the session up, then write on it.                    *)

\* Defect: without a session of the device, any session will do.
LookupAnySession(s, i) ==
  /\ send[s].phase = "idle"
  /\ \E j \in Imeis :
       /\ conns[i] # NoConn => j = i
       /\ send' = [send EXCEPT ![s] =
            [phase |-> IF conns[j] = NoConn THEN "failed" ELSE "found",
             to |-> i, on |-> conns[j]]]
  /\ UNCHANGED <<conns, place, imei, listed, sock, evict, sem, stopping, listening>>

Lookup(s, i) ==
  /\ send[s].phase = "idle"
  /\ send' = [send EXCEPT ![s] =
       [phase |-> IF conns[i] = NoConn THEN "failed" ELSE "found",
        to |-> i, on |-> conns[i]]]
  /\ UNCHANGED <<conns, place, imei, listed, sock, evict, sem, stopping, listening>>

\* conn.Send: the write fails on a closed socket, and may fail on an open one.
WriteOn(s) ==
  /\ send[s].phase = "found"
  /\ \/ /\ sock[send[s].on] = "open"
        /\ send' = [send EXCEPT ![s].phase = "written"]
     \/ send' = [send EXCEPT ![s].phase = "failed"]
  /\ UNCHANGED <<conns, place, imei, listed, sock, evict, sem, stopping, listening>>

-----------------------------------------------------------------------------
SessionStep(c) ==
  \/ Register(c) \/ ClosePrevious(c) \/ CloseSocket(c) \/ UnregisterConn(c)
  \/ Release(c)

Next ==
  \/ \E c \in Conns : \/ Accept(c) \/ StopSession(c) \/ EndRun(c) \/ SessionStep(c)
                      \/ \E i \in Imeis : HandleMessage(c, i)
  \/ \E s \in Sends : \/ \E i \in Imeis : Lookup(s, i)
                      \/ WriteOn(s)
  \/ Shutdown
  \/ CloseListener

Spec == Init /\ [][Next]_vars

\* A goroutine goes on; a session whose socket is closed ends, because its Read
\* returns an error once the buffer is consumed; a cancelled context closes the
\* listener and runs each AfterFunc.  Nothing is assumed of devices that keep their connection open.
FairSpec ==
  /\ Spec
  /\ WF_vars(CloseListener)
  /\ \A c \in Conns : /\ WF_vars(SessionStep(c))
                      /\ WF_vars(sock[c] = "closed" /\ EndRun(c))
                      /\ WF_vars(StopSession(c))

-----------------------------------------------------------------------------
(* Properties.                                                             *)

\* The Manager holds live sessions by their IMEI: an entry is a session that has
\* not been unregistered, and the device of the key is at its other end
\* (Register and UnregisterConn against reconnections in any order).
LiveByImei ==
  \A i \in Imeis : conns[i] # NoConn =>
     /\ imei[conns[i]] = i
     /\ place[conns[i]] \in Running \ {"unregistered"}

\* A payload written by Manager.Send went out on a connection of the device it is
\* for, although the session may be replaced between the lookup and the write.
SentToItsDevice ==
  \A s \in Sends : send[s].phase = "written" => imei[send[s].on] = send[s].to

\* A registered session that is still being read is the one commands go to, or
\* a newer registration is about to close it or has closed it.
ListedOrReplaced ==
  \A c \in listed : place[c] = "reading" /\ sock[c] = "open" =>
     \/ conns[imei[c]] = c
     \/ \E d \in Conns : place[d] = "evicting" /\ evict[d] = c

\* Slots bound the sessions: however sessions end and are replaced, there are
\* never more of their goroutines than slots (sem in ListenAndServe).
WithinLimit == Cardinality({c \in Conns : place[c] \in Running}) <= MaxConnections

\* A session replaced by a reconnection ends and gives its slot back.
ReplacedEnds ==
  \A c \in Conns :
     (c \in listed /\ imei[c] # NoImei /\ conns[imei[c]] # c) ~> place[c] = "done"

\* After the context is cancelled no connection is accepted and every session
\* ends, also one accepted while the listener was about to close, so that
\* ListenAndServe, which waits for all of them, returns.
ShutdownDrains ==
  stopping ~> ~listening /\ \A c \in Conns : place[c] \in Gone

-----------------------------------------------------------------------------
(* The inductive invariant behind LiveByImei, SentToItsDevice,             *)
(* ListedOrReplaced and WithinLimit, for connections of one device each.   *)

\* Where a session's goroutine is tells what it knows and holds.
PlaceInv ==
  \A c \in Conns :
     /\ place[c] \in {"none", "refused"} => imei[c] = NoImei
     /\ c \in listed => imei[c] # NoImei /\ place[c] # "handled"
     /\ place[c] = "handled" => imei[c] # NoImei
     /\ place[c] \in {"closed", "unregistered", "done"} => sock[c] = "closed"
     /\ place[c] = "evicting" => c \in listed /\ evict[c] \in Conns
     /\ c \in sem <=> place[c] \in Running

\* An entry of the map is a registered session that has not reached its end.
MapInv ==
  \A i \in Imeis : conns[i] # NoConn =>
     /\ imei[conns[i]] = i
     /\ conns[i] \in listed
     /\ place[conns[i]] \in {"reading", "evicting", "ending", "closed"}

\* A registered session with an open socket is in the map or about to be closed,
\* also while it evicts another one or ends.
CurrentInv ==
  \A c \in listed : sock[c] = "open" =>
     \/ conns[imei[c]] = c
     \/ \E d \in Conns : place[d] = "evicting" /\ evict[d] = c

\* A request holds a session of the device it is for.
SendInv ==
  \A s \in Sends : send[s].phase \in {"found", "written"} =>
     /\ send[s].to \in Imeis
     /\ send[s].on \in Conns
     /\ imei[send[s].on] = send[s].to

\* The slots taken are counted.
SlotsInv ==
  /\ IsFiniteSet(sem)
  /\ Cardinality(sem) <= MaxConnections

IInv == TypeOK /\ PlaceInv /\ MapInv /\ CurrentInv /\ SendInv /\ SlotsInv
=============================================================================
