----------------------------- MODULE TcpProofs ------------------------------
(***************************************************************************)
(* What internal/tcp guarantees.                                           *)
(*                                                                         *)
(* Sessions: for any number of connections, devices, slots and requests.   *)
(* The typing of the state and the bound on sessions hold for every        *)
(* connection; the rest assumes that a connection carries the IMEI of one  *)
(* device.  Each part of the invariant is proved of one step, action by    *)
(* action.                                                                 *)
(*                                                                         *)
(* Wire: for any streams of bytes, any cut of them into reads, any         *)
(* detection and any parser.  The loop of process is a recursive function; *)
(* what it computes is proved by induction over the naturals, stated for   *)
(* sets of naturals.  The argument has three parts: every framer advances  *)
(* and none changes its mind when more bytes follow, the loop comes to     *)
(* rest, and where it rests going on is the same as starting over.         *)
(***************************************************************************)
EXTENDS Sessions, Wire, FiniteSetTheorems, WellFoundedInduction, TLAPS

\* Taking and giving back a slot keeps the count of slots.
LEMMA SlotsStep == TypeOK /\ PlaceInv /\ SlotsInv /\ [Next]_vars => SlotsInv'
<1> SUFFICES ASSUME TypeOK, PlaceInv, SlotsInv, [Next]_vars PROVE SlotsInv'
  OBVIOUS
<1> USE SessionsAssumption DEF TypeOK
<1>1. ASSUME NEW c \in Conns, Accept(c) PROVE SlotsInv'
  <2>1. CASE HasSlot /\ sem' = sem \cup {c}
    <3>1. Cardinality(sem) \in Nat
      BY FS_CardinalityType DEF SlotsInv
    <3>2. c \notin sem
      BY <1>1 DEF Accept, PlaceInv, Running, Gone
    <3>3. IsFiniteSet(sem') /\ Cardinality(sem') = Cardinality(sem) + 1
      BY <2>1, <3>2, FS_AddElement DEF SlotsInv
    <3>4. QED
      BY <2>1, <3>1, <3>3 DEF SlotsInv, HasSlot
  <2>2. CASE sem' = sem
    BY <2>2 DEF SlotsInv
  <2>3. QED
    BY <1>1, <2>1, <2>2 DEF Accept
<1>2. ASSUME NEW c \in Conns, StopSession(c) PROVE SlotsInv'
  BY <1>2 DEF StopSession, SlotsInv
<1>3. ASSUME NEW c \in Conns, EndRun(c) PROVE SlotsInv'
  BY <1>3 DEF EndRun, SlotsInv
<1>4. ASSUME NEW c \in Conns, Register(c) PROVE SlotsInv'
  BY <1>4 DEF Register, SlotsInv
<1>5. ASSUME NEW c \in Conns, ClosePrevious(c) PROVE SlotsInv'
  BY <1>5 DEF ClosePrevious, SlotsInv
<1>6. ASSUME NEW c \in Conns, CloseSocket(c) PROVE SlotsInv'
  BY <1>6 DEF CloseSocket, SlotsInv
<1>7. ASSUME NEW c \in Conns, UnregisterConn(c) PROVE SlotsInv'
  BY <1>7 DEF UnregisterConn, SlotsInv
<1>8. ASSUME NEW c \in Conns, Release(c) PROVE SlotsInv'
  <2>1. sem' = sem \ {c}
    BY <1>8 DEF Release
  <2>2. Cardinality(sem) \in Nat
    BY FS_CardinalityType DEF SlotsInv
  <2>3. c \in sem
    BY <1>8 DEF Release, PlaceInv, Running, Gone, Place
  <2>4. IsFiniteSet(sem') /\ Cardinality(sem') = Cardinality(sem) - 1
    BY <2>1, <2>3, FS_RemoveElement DEF SlotsInv
  <2>5. QED
    BY <2>2, <2>4 DEF SlotsInv
<1>9. ASSUME NEW c \in Conns, NEW i \in Imeis, HandleMessage(c, i) PROVE SlotsInv'
  BY <1>9 DEF HandleMessage, SlotsInv
<1>10. ASSUME NEW s \in Sends, NEW i \in Imeis, Lookup(s, i) PROVE SlotsInv'
  BY <1>10 DEF Lookup, SlotsInv
<1>11. ASSUME NEW s \in Sends, WriteOn(s) PROVE SlotsInv'
  BY <1>11 DEF WriteOn, SlotsInv
<1>12. ASSUME Shutdown \/ CloseListener PROVE SlotsInv'
  BY <1>12 DEF Shutdown, CloseListener, SlotsInv
<1>13. ASSUME UNCHANGED vars PROVE SlotsInv'
  BY <1>13 DEF vars, SlotsInv
<1>14. QED
  BY <1>1, <1>2, <1>3, <1>4, <1>5, <1>6, <1>7,
     <1>8, <1>9, <1>10, <1>11, <1>12, <1>13 DEF Next, SessionStep

\* Type correctness of one step.
LEMMA TypeStep == TypeOK /\ PlaceInv /\ SlotsInv /\ [Next]_vars => TypeOK'
<1> SUFFICES ASSUME TypeOK, PlaceInv, SlotsInv, [Next]_vars PROVE TypeOK'
  OBVIOUS
<1> USE SessionsAssumption DEF TypeOK, Place, Go
<1>1. ASSUME NEW c \in Conns, Accept(c) PROVE TypeOK'
  BY <1>1 DEF Accept
<1>2. ASSUME NEW c \in Conns, StopSession(c) PROVE TypeOK'
  BY <1>2 DEF StopSession
<1>3. ASSUME NEW c \in Conns, EndRun(c) PROVE TypeOK'
  BY <1>3 DEF EndRun
<1>4. ASSUME NEW c \in Conns, Register(c) PROVE TypeOK'
  BY <1>4 DEF Register, PlaceInv
<1>5. ASSUME NEW c \in Conns, ClosePrevious(c) PROVE TypeOK'
  BY <1>5 DEF ClosePrevious
<1>6. ASSUME NEW c \in Conns, CloseSocket(c) PROVE TypeOK'
  BY <1>6 DEF CloseSocket
<1>7. ASSUME NEW c \in Conns, UnregisterConn(c) PROVE TypeOK'
  BY <1>7 DEF UnregisterConn
<1>8. ASSUME NEW c \in Conns, Release(c) PROVE TypeOK'
  BY <1>8 DEF Release
<1>9. ASSUME NEW c \in Conns, NEW i \in Imeis, HandleMessage(c, i) PROVE TypeOK'
  BY <1>9 DEF HandleMessage
<1>10. ASSUME NEW s \in Sends, NEW i \in Imeis, Lookup(s, i) PROVE TypeOK'
  BY <1>10 DEF Lookup, SendState
<1>11. ASSUME NEW s \in Sends, WriteOn(s) PROVE TypeOK'
  BY <1>11 DEF WriteOn, SendState
<1>12. ASSUME Shutdown \/ CloseListener PROVE TypeOK'
  BY <1>12 DEF Shutdown, CloseListener
<1>13. ASSUME UNCHANGED vars PROVE TypeOK'
  BY <1>13 DEF vars
<1>14. QED
  BY <1>1, <1>2, <1>3, <1>4, <1>5, <1>6, <1>7,
     <1>8, <1>9, <1>10, <1>11, <1>12, <1>13 DEF Next, SessionStep

\* PlaceInv: what a session knows and holds at each place, for one step.
LEMMA PlaceStep == TypeOK /\ PlaceInv /\ [Next]_vars => PlaceInv'
<1> SUFFICES ASSUME TypeOK, PlaceInv, [Next]_vars PROVE PlaceInv'
  OBVIOUS
<1> USE SessionsAssumption DEF TypeOK, PlaceInv, Place, Gone, Running, Go
<1>1. ASSUME NEW c \in Conns, Accept(c) PROVE PlaceInv'
  BY <1>1 DEF Accept
<1>2. ASSUME NEW c \in Conns, StopSession(c) PROVE PlaceInv'
  BY <1>2 DEF StopSession
<1>3. ASSUME NEW c \in Conns, EndRun(c) PROVE PlaceInv'
  BY <1>3 DEF EndRun
<1>4. ASSUME NEW c \in Conns, Register(c) PROVE PlaceInv'
  BY <1>4 DEF Register
<1>5. ASSUME NEW c \in Conns, ClosePrevious(c) PROVE PlaceInv'
  BY <1>5 DEF ClosePrevious
<1>6. ASSUME NEW c \in Conns, CloseSocket(c) PROVE PlaceInv'
  BY <1>6 DEF CloseSocket
<1>7. ASSUME NEW c \in Conns, UnregisterConn(c) PROVE PlaceInv'
  BY <1>7 DEF UnregisterConn
<1>8. ASSUME NEW c \in Conns, Release(c) PROVE PlaceInv'
  BY <1>8 DEF Release
<1>9. ASSUME NEW c \in Conns, NEW i \in Imeis, HandleMessage(c, i) PROVE PlaceInv'
  BY <1>9 DEF HandleMessage
<1>10. ASSUME NEW s \in Sends, NEW i \in Imeis, Lookup(s, i) PROVE PlaceInv'
  BY <1>10 DEF Lookup
<1>11. ASSUME NEW s \in Sends, WriteOn(s) PROVE PlaceInv'
  BY <1>11 DEF WriteOn
<1>12. ASSUME Shutdown \/ CloseListener PROVE PlaceInv'
  BY <1>12 DEF Shutdown, CloseListener
<1>13. ASSUME UNCHANGED vars PROVE PlaceInv'
  BY <1>13 DEF vars
<1>14. QED
  BY <1>1, <1>2, <1>3, <1>4, <1>5, <1>6, <1>7,
     <1>8, <1>9, <1>10, <1>11, <1>12, <1>13 DEF Next, SessionStep

\* The parts that hold for every connection, in the initial state.
LEMMA InitHolds == Init => TypeOK /\ PlaceInv /\ SlotsInv
<1> SUFFICES ASSUME Init PROVE TypeOK /\ PlaceInv /\ SlotsInv
  OBVIOUS
<1>1. TypeOK
  BY SessionsAssumption DEF Init, TypeOK, Place, SendState
<1>2. PlaceInv
  BY DEF Init, PlaceInv, Running, Gone, Place
<1>3. sem = {}
  BY DEF Init
<1>4. SlotsInv
  BY <1>3, FS_EmptySet, SessionsAssumption DEF SlotsInv
<1>5. QED
  BY <1>1, <1>2, <1>4

\* The slots bound the sessions, whatever a connection carries.
THEOREM SlotsBound == Spec => [](TypeOK /\ PlaceInv /\ SlotsInv)
<1>1. Init => TypeOK /\ PlaceInv /\ SlotsInv
  BY InitHolds
<1>2. TypeOK /\ PlaceInv /\ SlotsInv /\ [Next]_vars => (TypeOK /\ PlaceInv /\ SlotsInv)'
  BY TypeStep, PlaceStep, SlotsStep
<1>3. QED
  BY <1>1, <1>2, PTL DEF Spec

\* Every reachable state is well typed.
THEOREM TypeCorrect == Spec => []TypeOK
  BY SlotsBound, PTL

\* There are never more session goroutines than slots.
THEOREM SessionsAreBounded == Spec => []WithinLimit
<1>1. TypeOK /\ PlaceInv /\ SlotsInv => WithinLimit
  <2> SUFFICES ASSUME TypeOK, PlaceInv, SlotsInv PROVE WithinLimit
    OBVIOUS
  <2>1. {c \in Conns : place[c] \in Running} = sem
    BY DEF TypeOK, PlaceInv
  <2>2. QED
    BY <2>1 DEF SlotsInv, WithinLimit
<1>2. QED
  BY <1>1, SlotsBound, PTL

\* MapInv: what the Manager's map holds, for one step.
LEMMA MapStep == OneImei /\ IInv /\ [Next]_vars => MapInv'
<1> SUFFICES ASSUME OneImei, IInv, [Next]_vars PROVE MapInv'
  OBVIOUS
<1> USE SessionsAssumption DEF IInv, TypeOK, PlaceInv, MapInv, Go
<1>1. ASSUME NEW c \in Conns, Accept(c) PROVE MapInv'
  BY <1>1 DEF Accept
<1>2. ASSUME NEW c \in Conns, StopSession(c) PROVE MapInv'
  BY <1>2 DEF StopSession
<1>3. ASSUME NEW c \in Conns, EndRun(c) PROVE MapInv'
  BY <1>3 DEF EndRun
<1>4. ASSUME NEW c \in Conns, Register(c) PROVE MapInv'
  BY <1>4 DEF Register
<1>5. ASSUME NEW c \in Conns, ClosePrevious(c) PROVE MapInv'
  BY <1>5 DEF ClosePrevious
<1>6. ASSUME NEW c \in Conns, CloseSocket(c) PROVE MapInv'
  BY <1>6 DEF CloseSocket
<1>7. ASSUME NEW c \in Conns, UnregisterConn(c) PROVE MapInv'
  BY <1>7 DEF UnregisterConn
<1>8. ASSUME NEW c \in Conns, Release(c) PROVE MapInv'
  BY <1>8 DEF Release
<1>9. ASSUME NEW c \in Conns, NEW i \in Imeis, HandleMessage(c, i) PROVE MapInv'
  BY <1>9 DEF HandleMessage
<1>10. ASSUME NEW s \in Sends, NEW i \in Imeis, Lookup(s, i) PROVE MapInv'
  BY <1>10 DEF Lookup
<1>11. ASSUME NEW s \in Sends, WriteOn(s) PROVE MapInv'
  BY <1>11 DEF WriteOn
<1>12. ASSUME Shutdown \/ CloseListener PROVE MapInv'
  BY <1>12 DEF Shutdown, CloseListener
<1>13. ASSUME UNCHANGED vars PROVE MapInv'
  BY <1>13 DEF vars
<1>14. QED
  BY <1>1, <1>2, <1>3, <1>4, <1>5, <1>6, <1>7,
     <1>8, <1>9, <1>10, <1>11, <1>12, <1>13 DEF Next, SessionStep

\* CurrentInv: a registered open session is current or about to be closed.
LEMMA CurrentStep == OneImei /\ IInv /\ [Next]_vars => CurrentInv'
<1> SUFFICES ASSUME OneImei, IInv, [Next]_vars PROVE CurrentInv'
  OBVIOUS
<1> USE SessionsAssumption DEF IInv, TypeOK, PlaceInv, MapInv, CurrentInv, Go
<1>1. ASSUME NEW c \in Conns, Accept(c) PROVE CurrentInv'
  BY <1>1 DEF Accept
<1>2. ASSUME NEW c \in Conns, StopSession(c) PROVE CurrentInv'
  BY <1>2 DEF StopSession
<1>3. ASSUME NEW c \in Conns, EndRun(c) PROVE CurrentInv'
  BY <1>3 DEF EndRun
<1>4. ASSUME NEW c \in Conns, Register(c) PROVE CurrentInv'
  BY <1>4 DEF Register
<1>5. ASSUME NEW c \in Conns, ClosePrevious(c) PROVE CurrentInv'
  BY <1>5 DEF ClosePrevious
<1>6. ASSUME NEW c \in Conns, CloseSocket(c) PROVE CurrentInv'
  BY <1>6 DEF CloseSocket
<1>7. ASSUME NEW c \in Conns, UnregisterConn(c) PROVE CurrentInv'
  BY <1>7 DEF UnregisterConn
<1>8. ASSUME NEW c \in Conns, Release(c) PROVE CurrentInv'
  BY <1>8 DEF Release
<1>9. ASSUME NEW c \in Conns, NEW i \in Imeis, HandleMessage(c, i) PROVE CurrentInv'
  BY <1>9 DEF HandleMessage
<1>10. ASSUME NEW s \in Sends, NEW i \in Imeis, Lookup(s, i) PROVE CurrentInv'
  BY <1>10 DEF Lookup
<1>11. ASSUME NEW s \in Sends, WriteOn(s) PROVE CurrentInv'
  BY <1>11 DEF WriteOn
<1>12. ASSUME Shutdown \/ CloseListener PROVE CurrentInv'
  BY <1>12 DEF Shutdown, CloseListener
<1>13. ASSUME UNCHANGED vars PROVE CurrentInv'
  BY <1>13 DEF vars
<1>14. QED
  BY <1>1, <1>2, <1>3, <1>4, <1>5, <1>6, <1>7,
     <1>8, <1>9, <1>10, <1>11, <1>12, <1>13 DEF Next, SessionStep

\* SendInv: a request keeps a session of its device, whose identity stays.
LEMMA SendStepInv == OneImei /\ IInv /\ [Next]_vars => SendInv'
<1> SUFFICES ASSUME OneImei, IInv, [Next]_vars PROVE SendInv'
  OBVIOUS
<1> USE SessionsAssumption DEF IInv, TypeOK, SendInv
<1>1. ASSUME NEW c \in Conns, Accept(c) PROVE SendInv'
  BY <1>1 DEF Accept
<1>2. ASSUME NEW c \in Conns, StopSession(c) PROVE SendInv'
  BY <1>2 DEF StopSession
<1>3. ASSUME NEW c \in Conns, EndRun(c) PROVE SendInv'
  BY <1>3 DEF EndRun
<1>4. ASSUME NEW c \in Conns, Register(c) PROVE SendInv'
  BY <1>4 DEF Register
<1>5. ASSUME NEW c \in Conns, ClosePrevious(c) PROVE SendInv'
  BY <1>5 DEF ClosePrevious
<1>6. ASSUME NEW c \in Conns, CloseSocket(c) PROVE SendInv'
  BY <1>6 DEF CloseSocket
<1>7. ASSUME NEW c \in Conns, UnregisterConn(c) PROVE SendInv'
  BY <1>7 DEF UnregisterConn
<1>8. ASSUME NEW c \in Conns, Release(c) PROVE SendInv'
  BY <1>8 DEF Release
<1>9. ASSUME NEW c \in Conns, NEW i \in Imeis, HandleMessage(c, i) PROVE SendInv'
  BY <1>9 DEF HandleMessage
<1>10. ASSUME NEW s \in Sends, NEW i \in Imeis, Lookup(s, i) PROVE SendInv'
  BY <1>10 DEF Lookup, MapInv, SendState
<1>11. ASSUME NEW s \in Sends, WriteOn(s) PROVE SendInv'
  <2>1. send[s].phase = "found"
    BY <1>11 DEF WriteOn
  <2>2. \A q \in Sends : send'[q].to = send[q].to /\ send'[q].on = send[q].on
    BY <1>11 DEF WriteOn, SendState
  <2>3. \A q \in Sends : q # s => send'[q] = send[q]
    BY <1>11 DEF WriteOn
  <2>4. QED
    BY <1>11, <2>1, <2>2, <2>3 DEF WriteOn
<1>12. ASSUME Shutdown \/ CloseListener PROVE SendInv'
  BY <1>12 DEF Shutdown, CloseListener
<1>13. ASSUME UNCHANGED vars PROVE SendInv'
  BY <1>13 DEF vars
<1>14. QED
  BY <1>1, <1>2, <1>3, <1>4, <1>5, <1>6, <1>7,
     <1>8, <1>9, <1>10, <1>11, <1>12, <1>13 DEF Next, SessionStep

\* The whole invariant, for connections of one device each.
THEOREM Invariance ==
  ASSUME OneImei PROVE Spec => []IInv
<1>1. Init => MapInv /\ CurrentInv /\ SendInv
  BY DEF Init, MapInv, CurrentInv, SendInv
<1>2. Init => TypeOK /\ PlaceInv /\ SlotsInv
  BY InitHolds
<1>3. IInv /\ [Next]_vars => IInv'
  BY TypeStep, PlaceStep, SlotsStep, MapStep, CurrentStep, SendStepInv DEF IInv
<1>4. QED
  BY <1>1, <1>2, <1>3, PTL DEF Spec, IInv

\* The map holds live sessions of the device they are filed under.
THEOREM MapIsLive ==
  ASSUME OneImei PROVE Spec => []LiveByImei
<1>1. IInv => LiveByImei
  BY DEF IInv, MapInv, LiveByImei, Running, Gone, Place
<1>2. QED
  BY <1>1, Invariance, PTL

\* A payload goes out on a connection of the device it is for.
THEOREM PayloadsReachTheirDevice ==
  ASSUME OneImei PROVE Spec => []SentToItsDevice
<1>1. IInv => SentToItsDevice
  BY DEF IInv, SendInv, SentToItsDevice
<1>2. QED
  BY <1>1, Invariance, PTL

\* A registered session is current, or a reconnection closes it.
THEOREM ListedSessionsAreCurrent ==
  ASSUME OneImei PROVE Spec => []ListedOrReplaced
<1>1. IInv => ListedOrReplaced
  BY DEF IInv, CurrentInv, ListedOrReplaced
<1>2. QED
  BY <1>1, Invariance, PTL

-----------------------------------------------------------------------------
(* Induction over the naturals by way of sets, least positions, and the      *)
(* iterations of the model.                                                  *)

\* A nonempty set of naturals has a least element.
LEMMA NatMinimum ==
  ASSUME NEW T, T \subseteq Nat, T # {}
  PROVE  \E x \in T : \A y \in T : x <= y
<1>1. PICK x \in T : \A y \in T : ~ (<<y, x>> \in OpToRel(<, Nat))
  BY NatLessThanWellFounded, WFMin, Zenon
<1>2. ASSUME NEW y \in T, y < x PROVE FALSE
  <2>1. <<y, x>> \in Nat \X Nat /\ <<y, x>>[1] < <<y, x>>[2]
    BY <1>2
  <2>2. <<y, x>> \in OpToRel(<, Nat)
    BY <2>1, Zenon DEF OpToRel
  <2>3. QED
    BY <1>1, <2>2, Zenon
<1>3. QED
  <2>1. \A y \in T : ~(y < x) /\ y \in Nat /\ x \in Nat
    BY <1>2
  <2>2. \A y \in T : x <= y
    BY <2>1
  <2>3. QED
    BY <2>2, Zenon

\* A set with 0 that is closed under successor has every natural.
LEMMA NatSetInduction ==
  ASSUME NEW S, 0 \in S, \A n \in Nat : n \in S => n + 1 \in S
  PROVE  \A n \in Nat : n \in S
<1> DEFINE T == Nat \ S
<1>1. SUFFICES ASSUME T # {} PROVE FALSE
  OBVIOUS
<1>2. PICK x \in T : \A y \in T : x <= y
  BY <1>1, NatMinimum
<1>3. x - 1 \in Nat /\ ~(x <= x - 1)
  BY <1>2
<1>4. x - 1 \in S
  BY <1>2, <1>3
<1>5. QED
  BY <1>2, <1>3, <1>4

\* Least finds the least position.
LEMMA LeastIs ==
  ASSUME NEW at \in SUBSET (Nat \ {0})
  PROVE  /\ Least(at) \in Nat
         /\ at = {} => Least(at) = 0
         /\ at # {} => Least(at) \in at /\ \A j \in at : Least(at) <= j
<1>1. CASE at = {}
  BY <1>1 DEF Least
<1>2. CASE at # {}
  <2>1. PICK x \in at : \A y \in at : x <= y
    BY <1>2, NatMinimum
  <2>2. QED
    BY <1>2, <2>1 DEF Least
<1>3. QED
  BY <1>1, <1>2

\* The turns of the loop are the sequence their definition says, one for every
\* natural: finite runs exist, agree with each other, and add up to one.
LEMMA TurnsAre ==
  ASSUME NEW f, NEW p, NEW l
  PROVE  /\ Turns(f, p, l)[0] = l
         /\ \A n \in Nat : Turns(f, p, l)[n + 1] = Turn(f, p, Turns(f, p, l)[n])
<1> DEFINE Upto(g, m) == g = [n \in 0..m |-> IF n = 0 THEN l ELSE Turn(f, p, g[n - 1])]
           S == {m \in Nat : \E g : Upto(g, m)}
           G(m) == CHOOSE g : Upto(g, m)
<1>1. 0 \in S
  <2> DEFINE g == [n \in 0..0 |-> l]
  <2>1. Upto(g, 0)
    OBVIOUS
  <2>2. QED
    BY <2>1
<1>2. ASSUME NEW m \in Nat, m \in S PROVE m + 1 \in S
  <2>1. PICK g : Upto(g, m)
    BY <1>2
  <2> DEFINE h == [n \in 0..m + 1 |-> IF n = m + 1 THEN Turn(f, p, g[m]) ELSE g[n]]
  <2>2. ASSUME NEW n \in 0..m + 1 PROVE h[n] = IF n = 0 THEN l ELSE Turn(f, p, h[n - 1])
    <3>1. CASE n = m + 1
      BY <3>1
    <3>2. CASE n = 0
      <4>1. 0 \in 0..m /\ 0 # m + 1
        OBVIOUS
      <4>2. g[0] = l
        BY <2>1, <4>1
      <4>3. QED
        BY <3>2, <4>1, <4>2
    <3>3. CASE n # 0 /\ n # m + 1
      <4>1. n \in 0..m /\ n - 1 \in 0..m /\ n - 1 # m + 1 /\ n - 1 \in 0..m + 1
        BY <3>3
      <4>2. h[n] = g[n] /\ h[n - 1] = g[n - 1]
        BY <3>3, <4>1
      <4>3. g[n] = Turn(f, p, g[n - 1])
        BY <2>1, <3>3, <4>1
      <4>4. QED
        BY <3>3, <4>2, <4>3
    <3>4. QED
      BY <3>1, <3>2, <3>3
  <2>3. Upto(h, m + 1)
    BY <2>2
  <2>4. \E x : Upto(x, m + 1)
    <3> HIDE DEF h, Upto
    <3>1. QED
      BY <2>3
  <2>5. QED
    <3> HIDE DEF h, Upto
    <3>1. QED
      BY <2>4
<1>3. \A m \in Nat : m \in S
  <2> HIDE DEF S
  <2>1. QED
    BY <1>1, <1>2, NatSetInduction
<1>4. \A m \in Nat : Upto(G(m), m)
  BY <1>3
<1>5. /\ \A m \in Nat : G(m)[0] = l
      /\ \A m \in Nat, n \in Nat : n + 1 <= m => G(m)[n + 1] = Turn(f, p, G(m)[n])
  <2>1. ASSUME NEW m \in Nat PROVE G(m)[0] = l
    <3>1. 0 \in 0..m
      OBVIOUS
    <3>2. QED
      BY <1>4, <3>1
  <2>2. ASSUME NEW m \in Nat, NEW n \in Nat, n + 1 <= m PROVE G(m)[n + 1] = Turn(f, p, G(m)[n])
    <3>1. n + 1 \in 0..m /\ n + 1 # 0 /\ (n + 1) - 1 = n
      BY <2>2
    <3>2. QED
      BY <1>4, <3>1
  <2>3. QED
    BY <2>1, <2>2
<1> HIDE DEF G
<1> DEFINE A == {n \in Nat : \A m \in Nat : n <= m => G(m)[n] = G(n)[n]}
<1>6. 0 \in A
  BY <1>5
<1>7. ASSUME NEW n \in Nat, n \in A PROVE n + 1 \in A
  <2>1. ASSUME NEW m \in Nat, n + 1 <= m PROVE G(m)[n + 1] = G(n + 1)[n + 1]
    <3>1. n <= m /\ n <= n + 1 /\ n + 1 \in Nat
      BY <2>1
    <3>2. G(m)[n] = G(n)[n] /\ G(n + 1)[n] = G(n)[n]
      BY <1>7, <3>1
    <3>3. QED
      BY <1>5, <2>1, <3>1, <3>2
  <2>2. QED
    BY <2>1
<1>8. \A n \in Nat : n \in A
  <2> HIDE DEF A
  <2>1. QED
    BY <1>6, <1>7, NatSetInduction
<1> DEFINE F == [n \in Nat |-> G(n)[n]]
<1>9. ASSUME NEW n \in Nat PROVE F[n + 1] = Turn(f, p, F[n])
  <2>1. n + 1 \in Nat /\ n <= n + 1 /\ n + 1 <= n + 1
    OBVIOUS
  <2>2. G(n + 1)[n] = G(n)[n]
    BY <1>8, <2>1
  <2>3. G(n + 1)[n + 1] = Turn(f, p, G(n + 1)[n])
    BY <1>5, <2>1
  <2>4. QED
    BY <2>1, <2>2, <2>3
<1>10. F = [n \in Nat |-> IF n = 0 THEN l ELSE Turn(f, p, F[n - 1])]
  <2>1. ASSUME NEW n \in Nat PROVE F[n] = IF n = 0 THEN l ELSE Turn(f, p, F[n - 1])
    <3>1. CASE n = 0
      BY <1>5, <3>1
    <3>2. CASE n # 0
      <4>1. n - 1 \in Nat /\ (n - 1) + 1 = n
        BY <3>2
      <4>2. QED
        BY <1>9, <3>2, <4>1
    <3>3. QED
      BY <3>1, <3>2
  <2>2. QED
    BY <2>1
<1> DEFINE R == Turns(f, p, l)
<1>11. R = [n \in Nat |-> IF n = 0 THEN l ELSE Turn(f, p, R[n - 1])]
  <2>1. \E run : run = [n \in Nat |-> IF n = 0 THEN l ELSE Turn(f, p, run[n - 1])]
    BY <1>10
  <2>2. QED
    BY <2>1, Zenon DEF Turns
<1> HIDE DEF R
<1>12. R[0] = l
  BY <1>11
<1>13. ASSUME NEW n \in Nat PROVE R[n + 1] = Turn(f, p, R[n])
  <2>1. n + 1 \in Nat /\ n + 1 # 0 /\ (n + 1) - 1 = n
    OBVIOUS
  <2>2. QED
    BY <1>11, <2>1
<1>14. QED
  BY <1>12, <1>13 DEF R

\* The turns after the first are the turns of what the first one left.
LEMMA TurnsShift ==
  ASSUME NEW f, NEW p, NEW l
  PROVE  \A n \in Nat : Turns(f, p, l)[n + 1] = Turns(f, p, Turn(f, p, l))[n]
<1> DEFINE R == Turns(f, p, l)
           Q == Turns(f, p, Turn(f, p, l))
           S == {n \in Nat : R[n + 1] = Q[n]}
<1>1. /\ R[0] = l /\ Q[0] = Turn(f, p, l)
      /\ \A n \in Nat : R[n + 1] = Turn(f, p, R[n]) /\ Q[n + 1] = Turn(f, p, Q[n])
  BY TurnsAre
<1> HIDE DEF R, Q
<1>2. 0 \in S
  <2>1. R[0 + 1] = Turn(f, p, R[0])
    BY <1>1
  <2>2. QED
    BY <1>1, <2>1
<1>3. ASSUME NEW n \in Nat, n \in S PROVE n + 1 \in S
  <2>1. n + 1 \in Nat /\ R[n + 1] = Q[n]
    BY <1>3
  <2>2. R[(n + 1) + 1] = Turn(f, p, R[n + 1]) /\ Q[n + 1] = Turn(f, p, Q[n])
    BY <1>1, <2>1
  <2>3. QED
    BY <2>1, <2>2
<1>4. \A n \in Nat : n \in S
  <2> HIDE DEF S
  <2>1. QED
    BY <1>2, <1>3, NatSetInduction
<1>5. QED
  BY <1>4 DEF R, Q

\* Once a turn changes nothing, none does.
LEMMA TurnsStay ==
  ASSUME NEW f, NEW p, NEW l, NEW m \in Nat,
         Turn(f, p, Turns(f, p, l)[m]) = Turns(f, p, l)[m]
  PROVE  \A n \in Nat : n >= m => Turns(f, p, l)[n] = Turns(f, p, l)[m]
<1> DEFINE R == Turns(f, p, l)
           S == {n \in Nat : R[m + n] = R[m]}
<1>1. \A n \in Nat : R[n + 1] = Turn(f, p, R[n])
  BY TurnsAre
<1>2. Turn(f, p, R[m]) = R[m]
  OBVIOUS
<1> HIDE DEF R
<1>3. 0 \in S
  OBVIOUS
<1>4. ASSUME NEW n \in Nat, n \in S PROVE n + 1 \in S
  <2>1. m + n \in Nat /\ (m + n) + 1 = m + (n + 1) /\ R[m + n] = R[m]
    BY <1>4
  <2>2. R[(m + n) + 1] = Turn(f, p, R[m + n])
    BY <1>1, <2>1
  <2>3. R[m + (n + 1)] = R[m]
    BY <1>2, <2>1, <2>2
  <2>4. QED
    BY <2>3
<1>5. \A n \in Nat : n \in S
  <2> HIDE DEF S
  <2>1. QED
    BY <1>3, <1>4, NatSetInduction
<1>6. ASSUME NEW n \in Nat, n >= m PROVE R[n] = R[m]
  <2>1. n - m \in Nat /\ m + (n - m) = n
    BY <1>6
  <2>2. R[m + (n - m)] = R[m]
    BY <1>5, <2>1
  <2>3. QED
    BY <2>1, <2>2
<1>7. QED
  BY <1>6 DEF R

-----------------------------------------------------------------------------
(* The messages of a frame.                                                  *)

Said == {"", "send", "reject"}

\* One message goes on or ends the session at the Send or at the ingestor.
LEMMA HandleEnds ==
  ASSUME NEW f, NEW t, NEW msg, t.end \in Said
  PROVE  Handle(f, t, msg).end \in Said
BY DEF Handle, Talk, Said

\* So do those of a frame, however many ParseFrame finds.
LEMMA DispatchEnds ==
  ASSUME NEW f, NEW p, NEW t, NEW frame, t.end \in Said
  PROVE  dispatch(f, p, t, frame).end \in Said
<1> DEFINE msgs == ParseFrame(p, frame)
           H(x, i) == IF i \in DOMAIN msgs THEN Handle(f, x, msgs[i]) ELSE x
           Upto(g, m) == g = [i \in 0..m |-> IF i = 0 THEN t ELSE H(g[i - 1], i)]
           S == {m \in Nat : \E g : Upto(g, m)}
<1>0. \A x, i : x.end \in Said => H(x, i).end \in Said
  BY HandleEnds
<1>1. 0 \in S
  <2> DEFINE g == [i \in 0..0 |-> t]
  <2>1. Upto(g, 0)
    OBVIOUS
  <2>2. QED
    BY <2>1
<1>2. ASSUME NEW m \in Nat, m \in S PROVE m + 1 \in S
  <2>1. PICK g : Upto(g, m)
    BY <1>2
  <2> HIDE DEF H
  <2> DEFINE h == [i \in 0..m + 1 |-> IF i = m + 1 THEN H(g[m], m + 1) ELSE g[i]]
  <2>2. ASSUME NEW n \in 0..m + 1 PROVE h[n] = IF n = 0 THEN t ELSE H(h[n - 1], n)
    <3>1. CASE n = m + 1
      BY <3>1
    <3>2. CASE n = 0
      <4>1. 0 \in 0..m /\ 0 # m + 1
        OBVIOUS
      <4>2. g[0] = t
        BY <2>1, <4>1
      <4>3. QED
        BY <3>2, <4>1, <4>2
    <3>3. CASE n # 0 /\ n # m + 1
      <4>1. n \in 0..m /\ n - 1 \in 0..m /\ n - 1 # m + 1 /\ n - 1 \in 0..m + 1
        BY <3>3
      <4>2. h[n] = g[n] /\ h[n - 1] = g[n - 1]
        BY <3>3, <4>1
      <4>3. g[n] = H(g[n - 1], n)
        BY <2>1, <3>3, <4>1
      <4>4. QED
        BY <3>3, <4>2, <4>3
    <3>4. QED
      BY <3>1, <3>2, <3>3
  <2>3. Upto(h, m + 1)
    BY <2>2
  <2>4. \E x : Upto(x, m + 1)
    <3> HIDE DEF h, Upto
    <3>1. QED
      BY <2>3
  <2>5. QED
    <3> HIDE DEF h, Upto
    <3>1. QED
      BY <2>4
<1>3. MaxMessages \in Nat /\ \E g : Upto(g, MaxMessages)
  <2>1. \A m \in Nat : m \in S
    <3> HIDE DEF S
    <3>1. QED
      BY <1>1, <1>2, NatSetInduction
  <2>2. QED
    BY <2>1, SizesAssumption
<1> DEFINE run == CHOOSE g : g = [i \in 0..MaxMessages |->
                     IF i = 0 THEN t
                     ELSE IF i \in DOMAIN msgs THEN Handle(f, g[i - 1], msgs[i]) ELSE g[i - 1]]
<1>4. dispatch(f, p, t, frame) = run[MaxMessages]
  BY DEF dispatch, HandleAll
<1>5. Upto(run, MaxMessages)
  BY <1>3, Zenon
<1> HIDE DEF run, H
<1> DEFINE A == {n \in Nat : n <= MaxMessages => run[n].end \in Said}
<1>6. 0 \in A
  <2>1. 0 \in 0..MaxMessages
    BY <1>3
  <2>2. run[0] = t
    BY <1>5, <2>1
  <2>3. QED
    BY <2>2
<1>7. ASSUME NEW n \in Nat, n \in A PROVE n + 1 \in A
  <2>1. ASSUME n + 1 <= MaxMessages PROVE run[n + 1].end \in Said
    <3>1. n + 1 \in 0..MaxMessages /\ n + 1 # 0 /\ (n + 1) - 1 = n /\ n <= MaxMessages
      BY <1>3, <2>1
    <3>2. run[n + 1] = H(run[n], n + 1)
      BY <1>5, <3>1
    <3>3. run[n].end \in Said
      BY <1>7, <3>1
    <3>4. QED
      BY <1>0, <3>2, <3>3
  <2>2. QED
    BY <2>1
<1>8. \A n \in Nat : n \in A
  <2> HIDE DEF A
  <2>1. QED
    BY <1>6, <1>7, NatSetInduction
<1>9. run[MaxMessages].end \in Said
  BY <1>3, <1>8
<1>10. QED
  BY <1>4, <1>9

-----------------------------------------------------------------------------
(* Positions in a buffer, and in a longer one that begins with it.           *)

Byte == 0..255
Begins(b, c) == Len(b) <= Len(c) /\ \A i \in 1..Len(b) : c[i] = b[i]

\* What is left of a buffer after n bytes.
LEMMA AfterIs ==
  ASSUME NEW c \in Seq(Byte), NEW n \in 0..Len(c)
  PROVE  /\ After(c, n) \in Seq(Byte) /\ Len(After(c, n)) = Len(c) - n
         /\ \A i \in 1..Len(c) - n : After(c, n)[i] = c[n + i]
<1>1. Len(c) \in Nat /\ n \in Nat /\ n <= Len(c)
  OBVIOUS
<1>2. SubSeq(c, n + 1, Len(c)) \in Seq(Byte)
  <2>1. \A i \in n + 1..Len(c) : i \in 1..Len(c)
    BY <1>1
  <2>2. QED
    BY <1>1, <2>1
<1>3. Len(SubSeq(c, n + 1, Len(c))) = Len(c) - n
  BY <1>1
<1>4. ASSUME NEW i \in 1..Len(c) - n PROVE SubSeq(c, n + 1, Len(c))[i] = c[n + i]
  BY <1>1
<1>5. QED
  BY <1>2, <1>3, <1>4 DEF After

\* A position found in the beginning is the one found in the whole.
LEMMA LeastGrows ==
  ASSUME NEW A \in SUBSET (Nat \ {0}), NEW B \in SUBSET (Nat \ {0}), NEW n \in Nat,
         \A i \in Nat \ {0} : i \in A <=> i \in B /\ i <= n
  PROVE  /\ Least(A) # 0 => Least(B) = Least(A)
         /\ Least(A) = 0 => Least(B) = 0 \/ Least(B) > n
<1>1. /\ Least(A) \in Nat /\ Least(B) \in Nat
      /\ A = {} => Least(A) = 0
      /\ A # {} => Least(A) \in A /\ \A j \in A : Least(A) <= j
      /\ B = {} => Least(B) = 0
      /\ B # {} => Least(B) \in B /\ \A j \in B : Least(B) <= j
  BY LeastIs
<1>2. CASE A = {}
  <2>1. Least(A) = 0
    BY <1>1, <1>2
  <2>2. CASE B = {}
    BY <1>1, <2>1, <2>2
  <2>3. CASE B # {}
    <3>1. Least(B) \in B /\ Least(B) \in Nat \ {0} /\ Least(B) \notin A
      BY <1>1, <1>2, <2>3
    <3>2. ~(Least(B) <= n)
      BY <3>1
    <3>3. QED
      BY <2>1, <3>1, <3>2
  <2>4. QED
    BY <2>2, <2>3
<1>3. CASE A # {}
  <2>1. Least(A) \in A /\ Least(A) \in B /\ Least(A) \in Nat \ {0} /\ Least(A) <= n
    BY <1>1, <1>3
  <2>2. Least(B) \in B /\ Least(B) <= Least(A) /\ Least(B) \in Nat \ {0}
    BY <1>1, <2>1
  <2>3. Least(B) <= n
    BY <2>1, <2>2
  <2>4. Least(B) \in A
    BY <2>2, <2>3
  <2>5. Least(A) <= Least(B)
    BY <1>1, <2>4
  <2>6. QED
    BY <2>1, <2>2, <2>5
<1>4. QED
  BY <1>2, <1>3

\* When nothing is found in the first n bytes, it is found in the others.
LEMMA LeastAfter ==
  ASSUME NEW B \in SUBSET (Nat \ {0}), NEW C \in SUBSET (Nat \ {0}), NEW n \in Nat,
         \A i \in Nat \ {0} : i \in C <=> i + n \in B,
         \A i \in B : i > n
  PROVE  /\ Least(B) = 0 => Least(C) = 0
         /\ Least(B) # 0 => Least(C) = Least(B) - n
<1>1. /\ Least(C) \in Nat /\ Least(B) \in Nat
      /\ C = {} => Least(C) = 0
      /\ C # {} => Least(C) \in C /\ \A j \in C : Least(C) <= j
      /\ B = {} => Least(B) = 0
      /\ B # {} => Least(B) \in B /\ \A j \in B : Least(B) <= j
  BY LeastIs
<1>2. CASE B = {}
  <2>1. C = {}
    BY <1>2
  <2>2. QED
    BY <1>1, <1>2, <2>1
<1>3. CASE B # {}
  <2>1. /\ Least(B) \in B /\ Least(B) > n
        /\ Least(B) - n \in Nat \ {0} /\ (Least(B) - n) + n = Least(B)
    BY <1>1, <1>3
  <2>2. Least(B) - n \in C
    BY <2>1
  <2>3. Least(C) \in C /\ Least(C) <= Least(B) - n /\ Least(C) \in Nat \ {0}
    BY <1>1, <2>2
  <2>4. Least(C) + n \in B
    BY <2>3
  <2>5. Least(B) <= Least(C) + n
    BY <1>1, <2>4
  <2>6. QED
    BY <1>1, <2>1, <2>3, <2>5
<1>4. QED
  BY <1>2, <1>3


-----------------------------------------------------------------------------
(* The framers: each answer but "incomplete" advances, and none changes its  *)
(* mind when more bytes follow.                                              *)

Skips == {"invalid", "separator"}

\* An answer about a buffer of n bytes.
Advances(r, n) ==
  /\ r.is \in Skips \cup {"incomplete", "frame"}
  /\ r.is # "incomplete" => r.consumed \in 1..n

\* r about a buffer, R about a longer one, and d about what r leaves of the
\* longer one: a frame stays the frame, and skipped bytes are skipped, in one
\* step or in two.
Keeps(r, R, d) ==
  /\ r.is = "frame" => R = r
  /\ r.is \in Skips =>
       /\ R.is \in Skips
       /\ \/ R.consumed = r.consumed
          \/ R.consumed > r.consumed /\ d.is \in Skips /\ d.consumed = R.consumed - r.consumed

\* The bytes of a frame do not depend on what follows them.
LEMMA CompleteKeeps ==
  ASSUME NEW b \in Seq(Byte), NEW c \in Seq(Byte), Begins(b, c), NEW n \in 1..Len(b)
  PROVE  Complete(c, n) = Complete(b, n)
<1>1. Len(b) \in Nat /\ Len(c) \in Nat /\ n \in Nat /\ n <= Len(b) /\ n <= Len(c) /\ 1 <= n
  BY DEF Begins
<1>2. SubSeq(c, 1, n) = [i \in 1..n |-> c[i]] /\ SubSeq(b, 1, n) = [i \in 1..n |-> b[i]]
  BY <1>1
<1>3. \A i \in 1..n : c[i] = b[i]
  BY <1>1 DEF Begins
<1>4. QED
  BY <1>2, <1>3 DEF Complete

\* A byte is a number.
LEMMA BytesAre ==
  ASSUME NEW b \in Seq(Byte)
  PROVE  \A i \in 1..Len(b) : b[i] \in Nat
<1>1. \A i \in 1..Len(b) : b[i] \in Byte
  OBVIOUS
<1>2. \A x \in Byte : x \in Nat
  BY DEF Byte
<1>3. QED
  BY <1>1, <1>2

\* Answers, field by field.
LEMMA Answers ==
  ASSUME NEW buf, NEW n
  PROVE  /\ Incomplete.is = "incomplete"
         /\ Invalid(n).is = "invalid" /\ Invalid(n).consumed = n
         /\ Separator(n).is = "separator" /\ Separator(n).consumed = n
         /\ Complete(buf, n).is = "frame" /\ Complete(buf, n).consumed = n
BY DEF Incomplete, Invalid, Separator, Complete

\* The delimiter found first.
LEMMA StartIs ==
  ASSUME NEW b \in Seq(Byte)
  PROVE  /\ indexOfStart(b) \in Nat
         /\ indexOfStart(b) # 0 => indexOfStart(b) \in 1..Len(b) - 1
         /\ indexOfStart(b) = 0 => \A i \in 1..Len(b) - 1 : ~ IsStart(b, i)
<1> DEFINE A == {i \in 1..Len(b) - 1 : IsStart(b, i)}
<1>1. Len(b) \in Nat /\ A \in SUBSET (Nat \ {0})
  OBVIOUS
<1>2. indexOfStart(b) = Least(A)
  BY DEF indexOfStart
<1>3. /\ Least(A) \in Nat
      /\ A = {} => Least(A) = 0
      /\ A # {} => Least(A) \in A
  <2> HIDE DEF A
  <2>1. QED
    BY <1>1, LeastIs
<1>4. QED
  BY <1>1, <1>2, <1>3

\* The framer of the GT06 takes at least one byte, and no more than there are.
LEMMA Gt06Advances ==
  ASSUME NEW b \in Seq(Byte), b # <<>>
  PROVE  Advances(Gt06NextFrame(b), Len(b))
<1> DEFINE s == indexOfStart(b)
<1>1. Len(b) \in Nat /\ Len(b) >= 1
  OBVIOUS
<1>2. Keep(b) \in {0, 1}
  BY DEF Keep
<1>3. s \in Nat /\ (s # 0 => s \in 1..Len(b) - 1)
  BY StartIs
<1> HIDE DEF s
<1>4. CASE s = 0
  <2>1. CASE Len(b) = Keep(b)
    BY <1>4, <2>1, Answers DEF Gt06NextFrame, Advances, s
  <2>2. CASE Len(b) # Keep(b)
    <3>1. Gt06NextFrame(b) = Invalid(Len(b) - Keep(b)) /\ Len(b) - Keep(b) \in 1..Len(b)
      BY <1>1, <1>2, <1>4, <2>2 DEF Gt06NextFrame, s
    <3>2. QED
      BY <3>1, Answers DEF Advances, Skips
  <2>3. QED
    BY <2>1, <2>2
<1>5. CASE s > 1
  <2>1. Gt06NextFrame(b) = Invalid(s - 1) /\ s - 1 \in 1..Len(b)
    BY <1>1, <1>3, <1>5 DEF Gt06NextFrame, s
  <2>2. QED
    BY <2>1, Answers DEF Advances, Skips
<1>6. CASE s = 1
  <2>1. Gt06NextFrame(b) = Gt06Packet(b) /\ 2 \in 1..Len(b)
    BY <1>1, <1>3, <1>6 DEF Gt06NextFrame, s
  <2> DEFINE h == Gt06Header(b)  n == Gt06Length(b)  total == h + n + 2
  <2>2. h \in {3, 4}
    BY DEF Gt06Header
  <2>3. CASE Len(b) < h
    BY <2>1, <2>3, Answers DEF Gt06Packet, Advances
  <2>4. CASE Len(b) >= h
    <3>1. n \in Nat
      <4>1. 3 \in 1..Len(b) /\ (b[1] = startLong => 4 \in 1..Len(b))
        BY <1>1, <2>2, <2>4 DEF Gt06Header
      <4>2. b[3] \in Nat /\ (b[1] = startLong => b[4] \in Nat)
        BY <4>1, BytesAre
      <4>3. QED
        BY <4>2 DEF Gt06Length, Uint16
    <3> HIDE DEF h, n
    <3>2. \/ Gt06Packet(b) = Invalid(2)
          \/ Gt06Packet(b) = Incomplete
          \/ Gt06Packet(b) = Complete(b, total) /\ ~(Len(b) < total)
      BY <2>4 DEF Gt06Packet, h, n
    <3>3. ~(Len(b) < total) => total \in 1..Len(b)
      BY <1>1, <2>2, <3>1
    <3>4. QED
      BY <2>1, <3>2, <3>3, Answers DEF Advances, Skips
  <2>5. QED
    BY <1>1, <2>2, <2>3, <2>4
<1>7. QED
  BY <1>3, <1>4, <1>5, <1>6

\* It does not change its mind: a delimiter may straddle the end of the buffer,
\* and the byte kept for it (Keep) is what makes this true.
LEMMA Gt06Keeps ==
  ASSUME NEW b \in Seq(Byte), b # <<>>, NEW c \in Seq(Byte), Begins(b, c)
  PROVE  LET r == Gt06NextFrame(b)
         IN  Keeps(r, Gt06NextFrame(c), Gt06NextFrame(After(c, r.consumed)))
<1> DEFINE A == {i \in 1..Len(b) - 1 : IsStart(b, i)}
           B == {i \in 1..Len(c) - 1 : IsStart(c, i)}
           s == indexOfStart(b)  S == indexOfStart(c)
           r == Gt06NextFrame(b)  R == Gt06NextFrame(c)
<1>1. /\ Len(b) \in Nat /\ Len(b) >= 1 /\ Len(c) \in Nat /\ Len(b) <= Len(c)
      /\ \A i \in 1..Len(b) : c[i] = b[i]
  BY DEF Begins
<1>2. A \in SUBSET (Nat \ {0}) /\ B \in SUBSET (Nat \ {0}) /\ Len(b) - 1 \in Nat
  BY <1>1
<1>3. \A i \in Nat \ {0} : i \in A <=> i \in B /\ i <= Len(b) - 1
  <2>1. ASSUME NEW i \in Nat \ {0}, i <= Len(b) - 1
        PROVE  i \in 1..Len(b) - 1 /\ i \in 1..Len(c) - 1 /\ c[i] = b[i] /\ c[i + 1] = b[i + 1]
    BY <1>1, <2>1
  <2>2. \A i \in A : i <= Len(b) - 1
    BY <1>1
  <2>3. QED
    BY <2>1, <2>2 DEF IsStart
<1>4. s = Least(A) /\ S = Least(B) /\ s \in Nat /\ S \in Nat
  BY StartIs DEF indexOfStart
<1>5. /\ s # 0 => S = s
      /\ s = 0 => S = 0 \/ S > Len(b) - 1
  <2> HIDE DEF A, B, s, S
  <2>1. QED
    BY <1>2, <1>3, <1>4, LeastGrows
<1>6. /\ s # 0 => s \in 1..Len(b) - 1
      /\ S # 0 => S \in 1..Len(c) - 1
  BY StartIs
<1>7. CASE s > 1
  <2> HIDE DEF s, S
  <2>1. r = Invalid(s - 1) /\ R = Invalid(s - 1)
    BY <1>4, <1>5, <1>7 DEF Gt06NextFrame, s, S
  <2>2. QED
    BY <2>1, Answers DEF Keeps, Skips
<1>8. CASE s = 1
  <2>1. r = Gt06Packet(b) /\ R = Gt06Packet(c) /\ Len(b) >= 2
    BY <1>1, <1>5, <1>6, <1>8 DEF Gt06NextFrame
  <2>2. Gt06Header(c) = Gt06Header(b) /\ Gt06Header(b) \in {3, 4}
    <3>1. c[1] = b[1]
      BY <1>1
    <3>2. QED
      BY <3>1 DEF Gt06Header
  <2>3. CASE Len(b) < Gt06Header(b)
    BY <2>1, <2>3, Answers DEF Gt06Packet, Keeps, Skips
  <2>4. CASE Len(b) >= Gt06Header(b)
    <3>1. Gt06Length(c) = Gt06Length(b) /\ Gt06Length(b) \in Nat
      <4>1. 1 \in 1..Len(b) /\ 3 \in 1..Len(b) /\ (b[1] = startLong => 4 \in 1..Len(b))
        BY <1>1, <2>2, <2>4 DEF Gt06Header
      <4>2. c[1] = b[1] /\ c[3] = b[3] /\ (b[1] = startLong => c[4] = b[4])
        BY <1>1, <4>1
      <4>3. b[3] \in Nat /\ (b[1] = startLong => b[4] \in Nat)
        BY <4>1, BytesAre
      <4>4. QED
        BY <4>2, <4>3 DEF Gt06Length, Uint16
    <3> DEFINE h == Gt06Header(b)  n == Gt06Length(b)  total == h + n + 2
    <3>2. ~(Len(b) < h) /\ ~(Len(c) < h)
      BY <1>1, <2>2, <2>4
    <3>3. CASE n < 5 \/ n > maxFrameLength
      <4>1. r = Invalid(2) /\ R = Invalid(2)
        BY <2>1, <2>2, <3>1, <3>2, <3>3 DEF Gt06Packet
      <4>2. QED
        BY <4>1, Answers DEF Keeps, Skips
    <3>4. CASE ~(n < 5 \/ n > maxFrameLength) /\ Len(b) < total
      <4>1. r = Incomplete
        BY <2>1, <3>2, <3>4 DEF Gt06Packet
      <4>2. QED
        BY <4>1, Answers DEF Keeps, Skips
    <3>5. CASE ~(n < 5 \/ n > maxFrameLength) /\ ~(Len(b) < total)
      <4>1. total \in 1..Len(b) /\ total - 1 \in 1..Len(b) /\ ~(Len(c) < total)
        BY <1>1, <2>2, <3>1, <3>5
      <4>2. c[total] = b[total] /\ c[total - 1] = b[total - 1]
        BY <1>1, <4>1
      <4>3. Complete(c, total) = Complete(b, total)
        BY <4>1, CompleteKeeps
      <4>4. R = r /\ (r = Invalid(2) \/ r = Complete(b, total))
        BY <2>1, <2>2, <3>1, <3>2, <3>5, <4>1, <4>2, <4>3 DEF Gt06Packet
      <4>5. QED
        BY <4>4, Answers DEF Keeps, Skips
    <3>6. QED
      BY <3>3, <3>4, <3>5
  <2>5. QED
    BY <1>1, <2>2, <2>3, <2>4
<1>9. CASE s = 0
  <2>0. Keep(b) \in {0, 1} /\ Keep(c) \in {0, 1}
    BY DEF Keep
  <2>1. CASE Len(b) = Keep(b)
    BY <1>9, <2>1, Answers DEF Gt06NextFrame, Keeps, Skips
  <2>2. CASE Len(b) # Keep(b)
    <3> DEFINE m == Len(b) - Keep(b)
               e == After(c, m)
               C == {i \in 1..Len(e) - 1 : IsStart(e, i)}
               d == Gt06NextFrame(e)
    <3>1. r = Invalid(m) /\ m \in 1..Len(b) /\ m \in Nat /\ m \in 0..Len(c)
      BY <1>1, <1>9, <2>0, <2>2 DEF Gt06NextFrame
    <3>2. r.is = "invalid" /\ r.consumed = m
      BY <3>1, Answers
    <3>3. /\ e \in Seq(Byte) /\ Len(e) = Len(c) - m
          /\ \A i \in 1..Len(c) - m : e[i] = c[m + i]
      BY <3>1, AfterIs
    <3>4. \A i \in B : i > m
      <4>1. SUFFICES ASSUME NEW i \in B PROVE i > m
        OBVIOUS
      <4>2. i \in Nat /\ i \in 1..Len(c) - 1 /\ IsStart(c, i)
        OBVIOUS
      <4>3. i >= Len(b)
        <5>1. S # 0 /\ S <= i
          <6> HIDE DEF B, S
          <6>1. B # {} /\ Least(B) \in B /\ Least(B) <= i
            BY <1>2, <4>1, LeastIs
          <6>2. QED
            BY <1>2, <1>4, <6>1
        <5>2. QED
          BY <1>1, <1>4, <1>5, <1>9, <4>2, <5>1
      <4>4. CASE i = Len(b)
        <5>1. c[i] = b[Len(b)] /\ b[Len(b)] \in {startShort, startLong}
          BY <1>1, <4>2, <4>4 DEF IsStart
        <5>2. Keep(b) = 1
          BY <5>1 DEF Keep
        <5>3. QED
          BY <1>1, <4>4, <5>2
      <4>5. QED
        BY <1>1, <2>0, <4>2, <4>3, <4>4
    <3>5. C \in SUBSET (Nat \ {0}) /\ \A i \in Nat \ {0} : i \in C <=> i + m \in B
      <4>1. ASSUME NEW i \in Nat \ {0}
            PROVE  /\ i \in 1..Len(e) - 1 <=> i + m \in 1..Len(c) - 1
                   /\ i \in 1..Len(e) - 1 => e[i] = c[i + m] /\ e[i + 1] = c[i + m + 1]
        <5>1. i \in 1..Len(e) - 1 <=> i + m \in 1..Len(c) - 1
          BY <1>1, <3>1, <3>3
        <5>2. i \in 1..Len(e) - 1 => i \in 1..Len(c) - m /\ i + 1 \in 1..Len(c) - m
          BY <1>1, <3>1, <3>3
        <5>3. m + i = i + m /\ m + (i + 1) = i + m + 1
          BY <3>1
        <5>4. QED
          BY <3>3, <5>1, <5>2, <5>3
      <4>2. \A i \in Nat \ {0} : i \in C <=> i + m \in B
        <5>1. SUFFICES ASSUME NEW i \in Nat \ {0} PROVE i \in C <=> i + m \in B
          OBVIOUS
        <5>2. (i \in C <=> i \in 1..Len(e) - 1 /\ IsStart(e, i))
              /\ (i + m \in B <=> i + m \in 1..Len(c) - 1 /\ IsStart(c, i + m))
          OBVIOUS
        <5>3. i \in 1..Len(e) - 1 => (IsStart(e, i) <=> IsStart(c, i + m))
          BY <4>1 DEF IsStart
        <5>4. QED
          BY <4>1, <5>2, <5>3
      <4>3. Len(e) \in Int
        BY <1>1, <3>1, <3>3
      <4>4. QED
        BY <4>2, <4>3
    <3>6. /\ S = 0 => indexOfStart(e) = 0
          /\ S # 0 => indexOfStart(e) = S - m
      <4>1. indexOfStart(e) = Least(C)
        BY DEF indexOfStart
      <4>2. m \in Nat
        BY <3>1
      <4> HIDE DEF B, C, S, m
      <4>3. (Least(B) = 0 => Least(C) = 0) /\ (Least(B) # 0 => Least(C) = Least(B) - m)
        BY <1>2, <3>4, <3>5, <4>2, LeastAfter
      <4>4. QED
        BY <1>4, <4>1, <4>3
    <3>7. CASE S = 0
      <4>1. Len(c) # Keep(c)
        <5>1. SUFFICES ASSUME Len(c) = Keep(c) PROVE FALSE
          OBVIOUS
        <5>2. Len(b) = 1 /\ Len(c) = 1 /\ Keep(c) = 1
          <6>1. Len(c) = 0 \/ Len(c) = 1
            BY <2>0, <5>1
          <6>2. Len(c) = 1
            BY <1>1, <6>1
          <6>3. Len(b) = 1
            BY <1>1, <6>2
          <6>4. QED
            BY <5>1, <6>2, <6>3
        <5>3. c[1] = b[1]
          BY <1>1, <5>2
        <5>5. Keep(b) = 1
          BY <5>2, <5>3 DEF Keep
        <5>4. QED
          BY <2>2, <5>2, <5>5
      <4>2. R = Invalid(Len(c) - Keep(c)) /\ R.is = "invalid" /\ R.consumed = Len(c) - Keep(c)
        BY <3>7, <4>1, Answers DEF Gt06NextFrame
      <4>3. Len(c) - Keep(c) >= m
        <5>1. CASE Len(c) = Len(b)
          BY <1>1, <2>0, <5>1 DEF Keep
        <5>2. CASE Len(c) # Len(b)
          BY <1>1, <2>0, <5>2
        <5>3. QED
          BY <5>1, <5>2
      <4>4. CASE Len(c) - Keep(c) = m
        BY <3>2, <4>2, <4>4 DEF Keeps, Skips
      <4>5. CASE Len(c) - Keep(c) # m
        <5>1. Len(e) # Keep(c) /\ Len(e) >= 1
          BY <1>1, <2>0, <3>1, <3>3, <4>3, <4>5
        <5>2. Keep(e) = Keep(c)
          <6>1. e[Len(e)] = c[Len(c)]
            <7>1. Len(e) \in 1..Len(c) - m /\ m + Len(e) = Len(c)
              BY <1>1, <3>1, <3>3, <5>1
            <7>2. QED
              BY <3>3, <7>1
          <6>2. QED
            BY <6>1 DEF Keep
        <5>3. d = Invalid(Len(e) - Keep(c))
          BY <3>6, <3>7, <5>1, <5>2 DEF Gt06NextFrame
        <5>4. Len(e) - Keep(c) = (Len(c) - Keep(c)) - m /\ Len(c) - Keep(c) > m
          BY <1>1, <2>0, <3>1, <3>3, <4>3, <4>5
        <5>5. d.is = "invalid" /\ d.consumed = Len(e) - Keep(c)
          BY <5>3, Answers
        <5>6. QED
          BY <3>2, <4>2, <5>4, <5>5 DEF Keeps, Skips
      <4>6. QED
        BY <4>4, <4>5
    <3>8. CASE S # 0
      <4>1. S \in B /\ S > m
        <5>1. B # {} => Least(B) \in B
          <6> HIDE DEF B
          <6>1. QED
            BY <1>2, LeastIs
        <5>2. B = {} => Least(B) = 0
          <6> HIDE DEF B
          <6>1. QED
            BY <1>2, LeastIs
        <5>3. S \in B
          <6> HIDE DEF B, S
          <6>1. QED
            BY <1>4, <3>8, <5>1, <5>2
        <5>4. QED
          BY <3>4, <5>3
      <4>2. R = Invalid(S - 1)
        BY <1>4, <3>1, <4>1 DEF Gt06NextFrame
      <4>3. R.is = "invalid" /\ R.consumed = S - 1
        BY <4>2, Answers
      <4>4. CASE S - 1 = m
        BY <3>2, <4>3, <4>4 DEF Keeps, Skips
      <4>5. CASE S - 1 # m
        <5>1. indexOfStart(e) = S - m /\ S - m > 1 /\ S - 1 > m /\ (S - m) - 1 = (S - 1) - m
          BY <1>4, <3>1, <3>6, <3>8, <4>1, <4>5
        <5>2. d = Invalid((S - m) - 1)
          BY <5>1 DEF Gt06NextFrame
        <5>3. d.is = "invalid" /\ d.consumed = (S - m) - 1
          BY <5>2, Answers
        <5>4. QED
          BY <3>2, <4>3, <5>1, <5>3 DEF Keeps, Skips
      <4>6. QED
        BY <4>4, <4>5
    <3>9. QED
      BY <3>7, <3>8
  <2>3. QED
    BY <2>1, <2>2
<1>10. QED
  BY <1>4, <1>7, <1>8, <1>9

\* The first byte of a kind.
Found(b, P) == Least({i \in 1..Len(b) : b[i] \in P})

\* What is found is of the kind, and nothing before it is.
LEMMA FoundIs ==
  ASSUME NEW b \in Seq(Byte), NEW P
  PROVE  /\ Found(b, P) \in Nat
         /\ Found(b, P) # 0 => Found(b, P) \in 1..Len(b) /\ b[Found(b, P)] \in P
         /\ \A j \in 1..Len(b) : b[j] \in P => Found(b, P) # 0 /\ Found(b, P) <= j
<1> DEFINE A == {i \in 1..Len(b) : b[i] \in P}
<1>1. A \in SUBSET (Nat \ {0})
  OBVIOUS
<1>2. /\ Least(A) \in Nat
      /\ A = {} => Least(A) = 0
      /\ A # {} => Least(A) \in A /\ \A j \in A : Least(A) <= j
  <2> HIDE DEF A
  <2>1. QED
    BY <1>1, LeastIs
<1>3. Found(b, P) = Least(A)
  BY DEF Found
<1>4. QED
  BY <1>1, <1>2, <1>3

\* More bytes do not change what was found, and what was not found in the first
\* bytes is found in the others.
LEMMA FoundKeeps ==
  ASSUME NEW b \in Seq(Byte), NEW c \in Seq(Byte), Begins(b, c), NEW P
  PROVE  /\ Found(b, P) # 0 => Found(c, P) = Found(b, P)
         /\ Found(b, P) = 0 =>
              \/ Found(c, P) = 0 /\ Found(After(c, Len(b)), P) = 0
              \/ /\ Found(c, P) > Len(b)
                 /\ Found(After(c, Len(b)), P) = Found(c, P) - Len(b)
<1> DEFINE n == Len(b)
           e == After(c, n)
           A == {i \in 1..Len(b) : b[i] \in P}
           B == {i \in 1..Len(c) : c[i] \in P}
           C == {i \in 1..Len(e) : e[i] \in P}
<1>1. /\ n \in Nat /\ Len(c) \in Nat /\ n <= Len(c) /\ n \in 0..Len(c)
      /\ \A i \in 1..n : c[i] = b[i]
  BY DEF Begins
<1>2. A \in SUBSET (Nat \ {0}) /\ B \in SUBSET (Nat \ {0})
  OBVIOUS
<1>3. \A i \in Nat \ {0} : i \in A <=> i \in B /\ i <= n
  <2>1. \A i \in Nat \ {0} : i \in 1..n <=> i \in 1..Len(c) /\ i <= n
    BY <1>1
  <2>2. QED
    BY <1>1, <2>1
<1>4. /\ Least(A) # 0 => Least(B) = Least(A)
      /\ Least(A) = 0 => Least(B) = 0 \/ Least(B) > n
  <2> HIDE DEF A, B, n
  <2>1. QED
    BY <1>1, <1>2, <1>3, LeastGrows
<1>5. e \in Seq(Byte) /\ Len(e) = Len(c) - n /\ \A i \in 1..Len(c) - n : e[i] = c[n + i]
  BY <1>1, AfterIs
<1>6. C \in SUBSET (Nat \ {0}) /\ \A i \in Nat \ {0} : i \in C <=> i + n \in B
  <2>1. ASSUME NEW i \in Nat \ {0} PROVE i \in C <=> i + n \in B
    <3>1. (i \in 1..Len(e) <=> i + n \in 1..Len(c)) /\ n + i = i + n
      BY <1>1, <1>5
    <3>2. i \in 1..Len(e) => e[i] = c[i + n]
      BY <1>5, <3>1
    <3>3. QED
      BY <3>1, <3>2
  <2>2. QED
    BY <1>5, <2>1
<1>7. ASSUME Least(A) = 0
      PROVE  /\ Least(B) = 0 => Least(C) = 0
             /\ Least(B) # 0 => Least(C) = Least(B) - n
  <2>1. A = {}
    <3> HIDE DEF A
    <3>1. QED
      BY <1>2, <1>7, LeastIs
  <2>2. \A i \in B : i > n
    <3> HIDE DEF A, B, n
    <3>1. QED
      BY <1>1, <1>2, <1>3, <2>1
  <2> HIDE DEF B, C, n
  <2>3. QED
    BY <1>1, <1>2, <1>6, <2>2, LeastAfter
<1>8. Found(b, P) = Least(A) /\ Found(c, P) = Least(B) /\ Found(e, P) = Least(C)
  BY DEF Found
<1> HIDE DEF A, B, C, e
<1>9. QED
  BY <1>4, <1>7, <1>8 DEF e

\* What the framers of the texts look for.
LEMMA FoundNames ==
  ASSUME NEW b \in Seq(Byte)
  PROVE  /\ indexOfMarker(b) = Found(b, {markerBinary, markerText})
         /\ \A x : IndexByte(b, x) = Found(b, {x})
         /\ LET kept == Found(b, Byte \ {CR, LF, Space})
            IN  Skip(b) = IF kept = 0 THEN Len(b) ELSE kept - 1
<1>1. indexOfMarker(b) = Found(b, {markerBinary, markerText})
  BY DEF indexOfMarker, Found
<1>2. ASSUME NEW x PROVE IndexByte(b, x) = Found(b, {x})
  <2>1. {i \in 1..Len(b) : b[i] = x} = {i \in 1..Len(b) : b[i] \in {x}}
    OBVIOUS
  <2>2. QED
    BY <2>1 DEF IndexByte, Found
<1>3. {i \in 1..Len(b) : ~ Separates(b[i])} = {i \in 1..Len(b) : b[i] \in Byte \ {CR, LF, Space}}
  <2>1. \A i \in 1..Len(b) : b[i] \in Byte
    OBVIOUS
  <2>2. QED
    BY <2>1 DEF Separates
<1>4. QED
  BY <1>1, <1>2, <1>3 DEF Skip, Found

\* The framer of the H02 advances.
LEMMA H02Advances ==
  ASSUME NEW b \in Seq(Byte), b # <<>>, NEW length \in Nat, NEW max \in Nat \ {0}
  PROVE  Advances(H02NextFrame(b, length, max), Len(b))
<1> DEFINE s == indexOfMarker(b)  e == IndexByte(b, Hash)
<1>1. Len(b) \in Nat /\ Len(b) \in 1..Len(b)
  OBVIOUS
<1>2. s \in Nat /\ (s # 0 => s \in 1..Len(b)) /\ e \in Nat /\ (e # 0 => e \in 1..Len(b))
  <2>1. s = Found(b, {markerBinary, markerText}) /\ e = Found(b, {Hash})
    BY FoundNames
  <2> HIDE DEF s, e
  <2>2. QED
    BY <2>1, FoundIs
<1> HIDE DEF s, e
<1>3. CASE s = 0
  <2>1. H02NextFrame(b, length, max) = Invalid(Len(b))
    BY <1>3 DEF H02NextFrame, s
  <2>2. QED
    BY <1>1, <2>1, Answers DEF Advances, Skips
<1>4. CASE s > 1
  <2>1. H02NextFrame(b, length, max) = Invalid(s - 1) /\ s - 1 \in 1..Len(b)
    BY <1>1, <1>2, <1>4 DEF H02NextFrame, s
  <2>2. QED
    BY <2>1, Answers DEF Advances, Skips
<1>5. CASE s = 1 /\ b[1] = markerText
  <2>1. \/ e \in 1..Len(b) /\ NextText(b, max) = Complete(b, e)
        \/ NextText(b, max) \in {Invalid(Len(b)), Incomplete}
    BY <1>2 DEF NextText, e
  <2>2. H02NextFrame(b, length, max) = NextText(b, max)
    BY <1>5 DEF H02NextFrame, s
  <2>3. QED
    BY <1>1, <2>1, <2>2, Answers DEF Advances, Skips
<1>6. CASE s = 1 /\ b[1] # markerText
  <2>1. \/ length \in 1..Len(b) /\ NextBinary(b, length, max) = Complete(b, length)
        \/ NextBinary(b, length, max) \in {Invalid(Len(b)), Incomplete, Complete(b, Len(b))}
    BY <1>1 DEF NextBinary
  <2>2. H02NextFrame(b, length, max) = NextBinary(b, length, max)
    BY <1>6 DEF H02NextFrame, s
  <2>3. QED
    BY <1>1, <2>1, <2>2, Answers DEF Advances, Skips
<1>7. QED
  BY <1>2, <1>3, <1>4, <1>5, <1>6

\* It does not change its mind when binary frames have a known length and a text
\* ends within the limit.
LEMMA H02Keeps ==
  ASSUME NEW b \in Seq(Byte), b # <<>>, NEW c \in Seq(Byte), Begins(b, c),
         NEW max \in Nat \ {0}, NEW length \in 1..max,
         b[1] = markerText /\ Len(b) > max => \E j \in 1..max + 1 : b[j] = Hash
  PROVE  LET r == H02NextFrame(b, length, max)
         IN  Keeps(r, H02NextFrame(c, length, max),
                   H02NextFrame(After(c, r.consumed), length, max))
<1> DEFINE M == {markerBinary, markerText}
           s == Found(b, M)  S == Found(c, M)
           n == Len(b)
           r == H02NextFrame(b, length, max)  R == H02NextFrame(c, length, max)
           d == H02NextFrame(After(c, n), length, max)
<1>1. n \in Nat /\ Len(c) \in Nat /\ n <= Len(c) /\ n >= 1 /\ c[1] = b[1] /\ length \in Nat
      /\ n \in 0..Len(c)
  BY DEF Begins
<1>2. indexOfMarker(b) = s /\ indexOfMarker(c) = S
  BY FoundNames
<1>3. s \in Nat /\ S \in Nat /\ (s # 0 => S = s)
  BY FoundIs, FoundKeeps
<1>4. s = 0 => \/ S = 0 /\ Found(After(c, n), M) = 0
               \/ S > n /\ Found(After(c, n), M) = S - n
  BY FoundKeeps
<1>5. After(c, n) \in Seq(Byte) /\ Len(After(c, n)) = Len(c) - n
  BY <1>1, AfterIs
<1>6. indexOfMarker(After(c, n)) = Found(After(c, n), M)
  BY <1>5, FoundNames
<1> HIDE DEF s, S, M
<1>7. CASE s = 0
  <2>1. r = Invalid(n)
    BY <1>2, <1>7 DEF H02NextFrame
  <2>2. r.is = "invalid" /\ r.consumed = n
    BY <2>1, Answers
  <2>3. CASE S = 0 /\ Found(After(c, n), M) = 0
    <3>1. R = Invalid(Len(c)) /\ d = Invalid(Len(c) - n)
      BY <1>2, <1>5, <1>6, <2>3 DEF H02NextFrame
    <3>2. /\ R.is = "invalid" /\ R.consumed = Len(c)
          /\ d.is = "invalid" /\ d.consumed = Len(c) - n
      <4> HIDE DEF R, d
      <4>1. R.is = "invalid" /\ R.consumed = Len(c)
        BY <3>1, Answers
      <4>2. d.is = "invalid" /\ d.consumed = Len(c) - n
        BY <3>1, Answers
      <4>3. QED
        BY <4>1, <4>2
    <3>3. QED
      BY <1>1, <2>2, <3>2 DEF Keeps, Skips
  <2>4. CASE S > n /\ Found(After(c, n), M) = S - n
    <3>1. R = Invalid(S - 1)
      BY <1>1, <1>2, <1>3, <2>4 DEF H02NextFrame
    <3>2. R.is = "invalid" /\ R.consumed = S - 1
      BY <3>1, Answers
    <3>3. CASE S = n + 1
      <4>1. S - 1 = n
        BY <1>1, <3>3
      <4>2. QED
        BY <2>2, <3>2, <4>1 DEF Keeps, Skips
    <3>4. CASE S # n + 1
      <4>1. S - n > 1 /\ S - 1 > n /\ (S - n) - 1 = (S - 1) - n
        BY <1>1, <1>3, <2>4, <3>4
      <4>2. d = Invalid((S - n) - 1)
        BY <1>6, <2>4, <4>1 DEF H02NextFrame
      <4>3. d.is = "invalid" /\ d.consumed = (S - n) - 1
        BY <4>2, Answers
      <4>4. QED
        BY <2>2, <3>2, <4>1, <4>3 DEF Keeps, Skips
    <3>5. QED
      BY <3>3, <3>4
  <2>5. QED
    BY <1>4, <1>7, <2>3, <2>4
<1>8. CASE s > 1
  <2>1. r = Invalid(s - 1) /\ R = Invalid(s - 1)
    BY <1>2, <1>3, <1>8 DEF H02NextFrame
  <2>2. QED
    BY <2>1, Answers DEF Keeps, Skips
<1>9. CASE s = 1 /\ b[1] = markerText
  <2>1. r = NextText(b, max) /\ R = NextText(c, max)
    BY <1>1, <1>2, <1>3, <1>9 DEF H02NextFrame
  <2> DEFINE e == Found(b, {Hash})
  <2>2. /\ IndexByte(b, Hash) = e /\ IndexByte(c, Hash) = Found(c, {Hash})
        /\ e \in Nat /\ (e # 0 => e \in 1..n /\ Found(c, {Hash}) = e)
    BY FoundNames, FoundIs, FoundKeeps
  <2>3. CASE e = 0
    <3>1. ~(n > max)
      <4>1. SUFFICES ASSUME n > max PROVE FALSE
        OBVIOUS
      <4>2. PICK j \in 1..max + 1 : b[j] = Hash
        BY <1>9, <4>1
      <4>3. j \in 1..Len(b)
        BY <1>1, <4>1
      <4>4. QED
        BY <2>3, <4>2, <4>3, FoundIs
    <3>2. r = Incomplete
      BY <2>1, <2>2, <2>3, <3>1 DEF NextText
    <3>3. QED
      BY <3>2, Answers DEF Keeps, Skips
  <2>4. CASE e # 0
    <3>1. r = Complete(b, e) /\ R = Complete(c, e) /\ e \in 1..Len(b)
      BY <2>1, <2>2, <2>4 DEF NextText
    <3>2. R = r
      BY <3>1, CompleteKeeps
    <3>3. QED
      BY <3>1, <3>2, Answers DEF Keeps, Skips
  <2>5. QED
    BY <2>3, <2>4
<1>10. CASE s = 1 /\ b[1] # markerText
  <2>1. r = NextBinary(b, length, max) /\ R = NextBinary(c, length, max)
    BY <1>1, <1>2, <1>3, <1>10 DEF H02NextFrame
  <2>2. length > 0 /\ ~(length > max)
    OBVIOUS
  <2>3. CASE n < length
    <3>1. r = Incomplete
      BY <2>1, <2>2, <2>3 DEF NextBinary
    <3>2. QED
      BY <3>1, Answers DEF Keeps, Skips
  <2>4. CASE ~(n < length)
    <3>1. ~(Len(c) < length) /\ length \in 1..Len(b)
      BY <1>1, <2>2, <2>4
    <3>2. r = Complete(b, length) /\ R = Complete(c, length)
      BY <2>1, <2>2, <2>4, <3>1 DEF NextBinary
    <3>3. R = r
      BY <3>1, <3>2, CompleteKeeps
    <3>4. QED
      BY <3>2, <3>3, Answers DEF Keeps, Skips
  <2>5. QED
    BY <2>3, <2>4
<1>11. QED
  BY <1>3, <1>7, <1>8, <1>9, <1>10

\* The framer of the TKSTAR lines advances.
LEMMA TkstarAdvances ==
  ASSUME NEW b \in Seq(Byte), b # <<>>, NEW max \in Nat \ {0}
  PROVE  Advances(TkstarNextFrame(b, max), Len(b))
<1> DEFINE k == Skip(b)  e == IndexByte(b, Semicolon)
<1>1. Len(b) \in Nat /\ Len(b) \in 1..Len(b)
  OBVIOUS
<1>2. k \in Nat /\ (k > 0 => k \in 1..Len(b)) /\ e \in Nat /\ (e # 0 => e \in 1..Len(b))
  <2> DEFINE kept == Found(b, Byte \ {CR, LF, Space})
  <2>1. k = (IF kept = 0 THEN Len(b) ELSE kept - 1) /\ e = Found(b, {Semicolon})
    BY FoundNames
  <2>2. kept \in Nat /\ (kept # 0 => kept \in 1..Len(b))
    BY FoundIs
  <2>3. Found(b, {Semicolon}) \in Nat
        /\ (Found(b, {Semicolon}) # 0 => Found(b, {Semicolon}) \in 1..Len(b))
    BY FoundIs
  <2> HIDE DEF k, e, kept
  <2>4. k \in Nat /\ (k > 0 => k \in 1..Len(b))
    BY <1>1, <2>1, <2>2
  <2>5. QED
    BY <2>1, <2>3, <2>4
<1> HIDE DEF k, e
<1>3. \/ k > 0 /\ TkstarNextFrame(b, max) = Separator(k)
      \/ TkstarNextFrame(b, max) \in {Invalid(Len(b)), Incomplete}
      \/ e # 0 /\ TkstarNextFrame(b, max) \in {Invalid(e), Complete(b, e)}
  BY <1>2 DEF TkstarNextFrame, k, e
<1>4. CASE k > 0 /\ TkstarNextFrame(b, max) = Separator(k)
  BY <1>2, <1>4, Answers DEF Advances, Skips
<1>5. CASE TkstarNextFrame(b, max) \in {Invalid(Len(b)), Incomplete}
  BY <1>1, <1>5, Answers DEF Advances, Skips
<1>6. CASE e # 0 /\ TkstarNextFrame(b, max) \in {Invalid(e), Complete(b, e)}
  BY <1>2, <1>6, Answers DEF Advances, Skips
<1>7. QED
  BY <1>3, <1>4, <1>5, <1>6

\* It does not change its mind when a line ends within the limit.
LEMMA TkstarKeeps ==
  ASSUME NEW b \in Seq(Byte), b # <<>>, NEW c \in Seq(Byte), Begins(b, c),
         NEW max \in Nat \ {0},
         Len(b) > max => \E j \in 1..max + 1 : b[j] = Semicolon
  PROVE  LET r == TkstarNextFrame(b, max)
         IN  Keeps(r, TkstarNextFrame(c, max), TkstarNextFrame(After(c, r.consumed), max))
<1> DEFINE P == Byte \ {CR, LF, Space}
           n == Len(b)
           a == After(c, n)
           k == Found(b, P)  K == Found(c, P)  L == Found(a, P)
           r == TkstarNextFrame(b, max)  R == TkstarNextFrame(c, max)
           d == TkstarNextFrame(a, max)
<1>1. n \in Nat /\ Len(c) \in Nat /\ n <= Len(c) /\ n >= 1 /\ n \in 0..Len(c)
  BY DEF Begins
<1>2. a \in Seq(Byte) /\ Len(a) = Len(c) - n
  BY <1>1, AfterIs
<1>3. /\ Skip(b) = IF k = 0 THEN n ELSE k - 1
      /\ Skip(c) = IF K = 0 THEN Len(c) ELSE K - 1
      /\ Skip(a) = IF L = 0 THEN Len(a) ELSE L - 1
  BY <1>2, FoundNames
<1>4. /\ k \in Nat /\ (k # 0 => k \in 1..n /\ K = k)
      /\ K \in Nat /\ L \in Nat
      /\ k = 0 => \/ K = 0 /\ L = 0
                  \/ K > n /\ L = K - n
  <2>1. k \in Nat /\ (k # 0 => k \in 1..n) /\ K \in Nat /\ L \in Nat
    BY <1>2, FoundIs
  <2>2. k # 0 => K = k
    BY FoundKeeps
  <2>3. k = 0 => \/ K = 0 /\ L = 0
                 \/ K > n /\ L = K - n
    BY FoundKeeps
  <2>4. QED
    BY <2>1, <2>2, <2>3
<1> HIDE DEF k, K, L, P
<1>5. CASE k > 1
  <2>1. Skip(b) = k - 1 /\ Skip(c) = k - 1 /\ k - 1 > 0
    BY <1>3, <1>4, <1>5
  <2>2. r = Separator(k - 1) /\ R = Separator(k - 1)
    BY <2>1 DEF TkstarNextFrame
  <2>3. QED
    BY <2>2, Answers DEF Keeps, Skips
<1>6. CASE k = 0
  <2>1. Skip(b) = n /\ n > 0
    BY <1>1, <1>3, <1>6
  <2>2. r = Separator(n)
    BY <2>1 DEF TkstarNextFrame
  <2>3. r.is = "separator" /\ r.consumed = n
    BY <2>2, Answers
  <2>4. Skip(c) \in Nat /\ Skip(c) >= n /\ Skip(a) = Skip(c) - n
    <3>1. CASE K = 0 /\ L = 0
      BY <1>1, <1>2, <1>3, <3>1
    <3>2. CASE K > n /\ L = K - n
      BY <1>1, <1>3, <1>4, <3>2
    <3>3. QED
      BY <1>4, <1>6, <3>1, <3>2
  <2>5. R = Separator(Skip(c))
    BY <1>1, <2>4 DEF TkstarNextFrame
  <2>6. R.is = "separator" /\ R.consumed = Skip(c)
    BY <2>5, Answers
  <2>7. CASE Skip(c) = n
    BY <2>3, <2>6, <2>7 DEF Keeps, Skips
  <2>8. CASE Skip(c) # n
    <3>1. Skip(a) > 0 /\ Skip(c) > n
      BY <1>1, <2>4, <2>8
    <3>2. d = Separator(Skip(a))
      BY <3>1 DEF TkstarNextFrame
    <3>3. d.is = "separator" /\ d.consumed = Skip(c) - n
      <4> HIDE DEF d
      <4>1. QED
        BY <2>4, <3>2, Answers
    <3>4. QED
      BY <2>3, <2>6, <3>1, <3>3 DEF Keeps, Skips
  <2>9. QED
    BY <2>7, <2>8
<1>7. CASE k = 1
  <2>1. ~(Skip(b) > 0) /\ ~(Skip(c) > 0)
    BY <1>3, <1>4, <1>7
  <2> DEFINE e == Found(b, {Semicolon})  E == Found(c, {Semicolon})
  <2>2. IndexByte(b, Semicolon) = e /\ IndexByte(c, Semicolon) = E
    BY FoundNames
  <2>3. e \in Nat /\ (e # 0 => e \in 1..n /\ E = e)
    BY FoundIs, FoundKeeps
  <2>4. CASE e = 0
    <3>1. ~(n > max)
      <4>1. SUFFICES ASSUME n > max PROVE FALSE
        OBVIOUS
      <4>2. PICK j \in 1..max + 1 : b[j] = Semicolon
        BY <4>1
      <4>3. j \in 1..Len(b)
        BY <1>1, <4>1
      <4>4. QED
        BY <2>4, <4>2, <4>3, FoundIs
    <3>2. r = Incomplete
      BY <2>1, <2>2, <2>4, <3>1 DEF TkstarNextFrame
    <3>3. QED
      BY <3>2, Answers DEF Keeps, Skips
  <2>5. CASE e # 0
    <3>1. e \in 1..Len(b) /\ E = e
      BY <2>3, <2>5
    <3> HIDE DEF e, E
    <3>2. CASE e > max
      <4>1. r = Invalid(e) /\ R = Invalid(e)
        BY <2>1, <2>2, <2>5, <3>1, <3>2 DEF TkstarNextFrame
      <4>2. QED
        BY <4>1, Answers DEF Keeps, Skips
    <3>3. CASE ~(e > max)
      <4>1. r = Complete(b, e) /\ R = Complete(c, e)
        BY <2>1, <2>2, <2>5, <3>1, <3>3 DEF TkstarNextFrame
      <4>2. R = r
        BY <3>1, <4>1, CompleteKeeps
      <4>3. QED
        BY <4>1, <4>2, Answers DEF Keeps, Skips
    <3>4. QED
      BY <3>2, <3>3
  <2>6. QED
    BY <2>4, <2>5
<1>8. QED
  BY <1>4, <1>5, <1>6, <1>7

Known == {"gt06", "h02", "tkstar_v1", "tkstar_v1_8", "tkstar_v4"}

\* The sizes, one by one.
LEMMA SizesAre ==
  /\ MaxFrame \in Nat \ {0} /\ MaxTextFrame \in Nat \ {0} /\ BinaryFrameLength \in Nat
  /\ ReadChunk \in Nat \ {0} /\ MaxPacketSize \in Nat \ {0}
BY SizesAssumption

\* Every framer advances.
LEMMA FramerAdvances ==
  ASSUME NEW p \in Known, NEW b \in Seq(Byte), b # <<>>
  PROVE  Advances(NextFrame(p, b), Len(b))
<1>1. CASE p = "gt06"
  BY <1>1, Gt06Advances DEF NextFrame
<1>2. CASE p = "h02"
  BY <1>2, SizesAre, H02Advances DEF NextFrame
<1>3. CASE p \in {"tkstar_v1", "tkstar_v1_8"}
  BY <1>3, SizesAre, TkstarAdvances DEF NextFrame
<1>4. CASE p = "tkstar_v4"
  <2>1. NextFrame(p, b) = Complete(b, Len(b))
    BY <1>4 DEF NextFrame, V4NextFrame
  <2>2. Len(b) \in 1..Len(b)
    OBVIOUS
  <2>3. QED
    BY <2>1, <2>2, Answers DEF Advances
<1>5. QED
  BY <1>1, <1>2, <1>3, <1>4 DEF Known

\* What Fits says of a window of the stream: a text that is as long as the
\* limit has its end in it.
Ends(p, b) ==
  \/ p = "gt06"
  \/ /\ p = "h02" /\ BinaryFrameLength \in 1..MaxFrame
     /\ b[1] = markerText /\ Len(b) > MaxFrame => \E j \in 1..MaxFrame + 1 : b[j] = Hash
  \/ /\ p \in {"tkstar_v1", "tkstar_v1_8"}
     /\ Len(b) > MaxTextFrame => \E j \in 1..MaxTextFrame + 1 : b[j] = Semicolon

\* No framer changes its mind about a stream that keeps to its limits.
LEMMA FramerKeeps ==
  ASSUME NEW p, NEW b \in Seq(Byte), b # <<>>, NEW c \in Seq(Byte), Begins(b, c), Ends(p, b)
  PROVE  LET r == NextFrame(p, b)
         IN  Keeps(r, NextFrame(p, c), NextFrame(p, After(c, r.consumed)))
<1>1. CASE p = "gt06"
  <2>1. \A x : NextFrame(p, x) = Gt06NextFrame(x)
    BY <1>1 DEF NextFrame
  <2>2. QED
    BY <2>1, Gt06Keeps
<1>2. CASE p = "h02"
  <2>1. \A x : NextFrame(p, x) = H02NextFrame(x, BinaryFrameLength, MaxFrame)
    BY <1>2 DEF NextFrame
  <2>2. /\ BinaryFrameLength \in 1..MaxFrame
        /\ b[1] = markerText /\ Len(b) > MaxFrame => \E j \in 1..MaxFrame + 1 : b[j] = Hash
    BY <1>2 DEF Ends
  <2>3. QED
    BY <2>1, <2>2, SizesAre, H02Keeps
<1>3. CASE p \in {"tkstar_v1", "tkstar_v1_8"}
  <2>1. \A x : NextFrame(p, x) = TkstarNextFrame(x, MaxTextFrame)
    BY <1>3 DEF NextFrame
  <2>2. Len(b) > MaxTextFrame => \E j \in 1..MaxTextFrame + 1 : b[j] = Semicolon
    BY <1>3 DEF Ends
  <2>3. QED
    BY <2>1, <2>2, SizesAre, TkstarKeeps
<1>4. QED
  BY <1>1, <1>2, <1>3 DEF Ends

-----------------------------------------------------------------------------
(* The loop comes to rest, and does so in as many turns as it has bytes.     *)

Resting(l) == ~ l.more \/ l.buf = <<>>

\* The fields of a loop.
LEMMA LoopIs ==
  ASSUME NEW more, NEW buf, NEW talk
  PROVE  Loop(more, buf, talk).more = more /\ Loop(more, buf, talk).buf = buf
         /\ Loop(more, buf, talk).talk = talk
BY DEF Loop

\* When a loop is at rest.
LEMMA LoopRests ==
  ASSUME NEW more \in BOOLEAN, NEW buf, NEW talk
  PROVE  Resting(Loop(more, buf, talk)) <=> ~ more \/ buf = <<>>
<1>1. Loop(more, buf, talk).more = more /\ Loop(more, buf, talk).buf = buf
  BY LoopIs
<1>2. QED
  BY <1>1, Zenon DEF Resting

\* A loop at rest does not change, and any other waits, takes a frame or skips.
LEMMA RestIs ==
  ASSUME NEW f, NEW p, NEW l, Resting(l)
  PROVE  Turn(f, p, l) = l
BY DEF Resting, Turn

\* A turn over bytes waits, takes a frame or skips; it is never stuck.
LEMMA TurnIs ==
  ASSUME NEW f, NEW p \in Known, NEW b \in Seq(Byte), b # <<>>, NEW t
  PROVE  LET r == NextFrame(p, b)
             x == Turn(f, p, Loop(TRUE, b, t))
             d == dispatch(f, p, t, r.frame)
         IN  \/ r.is = "incomplete" /\ x = Loop(FALSE, b, t)
             \/ /\ r.is = "frame" /\ r.consumed \in 1..Len(b)
                /\ x = Loop(d.end = "", After(b, r.consumed), d)
             \/ /\ r.is \in Skips /\ r.consumed \in 1..Len(b)
                /\ x = Loop(TRUE, After(b, r.consumed), t)
<1> DEFINE r == NextFrame(p, b)
           l == Loop(TRUE, b, t)
           d == dispatch(f, p, t, r.frame)
<1>1. l.more = TRUE /\ l.buf = b /\ l.talk = t
  BY DEF Loop
<1>2. Advances(r, Len(b))
  BY FramerAdvances
<1> HIDE DEF l, r, d
<1>3. Turn(f, p, l) =
        IF r.is = "incomplete" THEN Loop(FALSE, b, t)
        ELSE IF r.consumed <= 0
          THEN Loop(FALSE, b, IF r.is = "invalid" THEN Ended(t, "stuck") ELSE t)
        ELSE IF r.is = "frame" THEN Loop(d.end = "", After(b, r.consumed), d)
        ELSE Loop(TRUE, After(b, r.consumed), t)
  BY <1>1, Zenon DEF Turn, Dispatched, r, d
<1>4. CASE r.is = "incomplete"
  BY <1>3, <1>4 DEF l, r, d
<1>5. CASE r.is = "frame"
  <2>1. r.consumed \in 1..Len(b) /\ ~(r.consumed <= 0) /\ r.is # "incomplete"
    BY <1>2, <1>5 DEF Advances
  <2>2. QED
    BY <1>3, <1>5, <2>1 DEF l, r, d
<1>6. CASE r.is \in Skips
  <2>1. r.is # "incomplete" /\ r.is # "frame"
    BY <1>6 DEF Skips
  <2>2. r.consumed \in 1..Len(b) /\ ~(r.consumed <= 0)
    BY <1>2, <2>1 DEF Advances
  <2>3. QED
    BY <1>3, <1>6, <2>1, <2>2 DEF l, r, d
<1>7. QED
  BY <1>2, <1>4, <1>5, <1>6 DEF Advances, l, r, d

\* A loop at rest stays at rest.
LEMMA RestStays ==
  ASSUME NEW f, NEW p, NEW l, Resting(l)
  PROVE  \A n \in Nat : Turns(f, p, l)[n] = l
<1>1. Turns(f, p, l)[0] = l
  BY TurnsAre
<1>2. Turn(f, p, Turns(f, p, l)[0]) = Turns(f, p, l)[0]
  BY <1>1, RestIs
<1>3. \A n \in Nat : n >= 0 => Turns(f, p, l)[n] = Turns(f, p, l)[0]
  BY <1>2, TurnsStay
<1>4. QED
  BY <1>1, <1>3

\* As many turns as there are bytes bring a loop to rest: a turn that goes on
\* takes at least one.
LEMMA TurnsRest ==
  ASSUME NEW f, NEW p \in Known
  PROVE  \A m \in Nat : \A b \in Seq(Byte) : \A t :
           Len(b) <= m => Resting(Turns(f, p, Loop(TRUE, b, t))[m])
<1> DEFINE Rests(m) == \A b \in Seq(Byte) : \A t :
                         Len(b) <= m => Resting(Turns(f, p, Loop(TRUE, b, t))[m])
           S == {m \in Nat : Rests(m)}
<1>1. 0 \in S
  <2>1. ASSUME NEW b \in Seq(Byte), NEW t, Len(b) <= 0
        PROVE  Resting(Turns(f, p, Loop(TRUE, b, t))[0])
    <3>1. b = <<>>
      BY <2>1
    <3>2. Turns(f, p, Loop(TRUE, b, t))[0] = Loop(TRUE, b, t)
      BY TurnsAre
    <3>3. Resting(Loop(TRUE, b, t))
      BY <3>1, LoopRests
    <3>4. QED
      BY <3>2, <3>3, Zenon
  <2>2. QED
    BY <2>1
<1>2. ASSUME NEW m \in Nat, m \in S PROVE m + 1 \in S
  <2>1. ASSUME NEW b \in Seq(Byte), NEW t, Len(b) <= m + 1
        PROVE  Resting(Turns(f, p, Loop(TRUE, b, t))[m + 1])
    <3> DEFINE l == Loop(TRUE, b, t)  x == Turn(f, p, l)
    <3>1. Turns(f, p, l)[m + 1] = Turns(f, p, x)[m]
      <4> HIDE DEF l
      <4>1. QED
        BY TurnsShift
    <3>2. CASE Resting(x)
      <4> HIDE DEF x
      <4>1. Turns(f, p, x)[m] = x
        BY <3>2, RestStays
      <4>2. QED
        BY <3>1, <3>2, <4>1, Zenon
    <3>3. CASE b = <<>>
      <4>1. Resting(l)
        BY <3>3, LoopRests
      <4>2. x = l
        BY <4>1, RestIs
      <4>3. QED
        BY <3>2, <4>1, <4>2
    <3>4. CASE b # <<>> /\ ~ Resting(x)
      <4>1. PICK n \in 1..Len(b) : \E u : x = Loop(TRUE, After(b, n), u)
        <5> DEFINE r == NextFrame(p, b)  d == dispatch(f, p, t, r.frame)
        <5>1. \/ x = Loop(FALSE, b, t)
              \/ r.consumed \in 1..Len(b) /\ x = Loop(d.end = "", After(b, r.consumed), d)
              \/ r.consumed \in 1..Len(b) /\ x = Loop(TRUE, After(b, r.consumed), t)
          BY <3>4, TurnIs
        <5> HIDE DEF l, x, r, d
        <5>2. x # Loop(FALSE, b, t)
          BY <3>4, LoopRests
        <5>3. CASE r.consumed \in 1..Len(b) /\ x = Loop(d.end = "", After(b, r.consumed), d)
          <6>1. CASE d.end = ""
            BY <5>3, <6>1
          <6>2. CASE d.end # ""
            <7>1. x = Loop(FALSE, After(b, r.consumed), d)
              BY <5>3, <6>2
            <7>2. QED
              BY <3>4, <7>1, LoopRests
          <6>3. QED
            BY <6>1, <6>2
        <5>4. QED
          BY <5>1, <5>2, <5>3
      <4>2. After(b, n) \in Seq(Byte) /\ Len(After(b, n)) <= m
        <5>1. n \in 0..Len(b) /\ Len(b) \in Nat
          OBVIOUS
        <5>2. QED
          BY <2>1, <5>1, AfterIs
      <4>3. Resting(Turns(f, p, x)[m])
        <5> HIDE DEF x
        <5>1. QED
          BY <1>2, <4>1, <4>2
      <4>4. QED
        BY <3>1, <4>3
    <3>5. QED
      BY <3>2, <3>3, <3>4
  <2>2. Rests(m + 1)
    BY <2>1, Zenon
  <2>3. QED
    <3> HIDE DEF Rests
    <3>1. QED
      BY <2>2
<1>3. \A m \in Nat : m \in S
  <2> HIDE DEF S
  <2>1. QED
    BY <1>1, <1>2, NatSetInduction
<1>4. QED
  BY <1>3

\* Cut is where the loop comes to rest, however many more turns it has.
LEMMA CutStays ==
  ASSUME NEW f, NEW p \in Known, NEW more \in BOOLEAN, NEW b \in Seq(Byte), NEW t,
         NEW n \in Nat, n >= Len(b)
  PROVE  /\ Turns(f, p, Loop(more, b, t))[n] = Cut(f, p, Loop(more, b, t))
         /\ Resting(Cut(f, p, Loop(more, b, t)))
<1> DEFINE l == Loop(more, b, t)
<1>1. Cut(f, p, l) = Turns(f, p, l)[Len(b)] /\ Len(b) \in Nat
  BY LoopIs DEF Cut
<1>2. Resting(Turns(f, p, l)[Len(b)])
  <2>1. CASE more = TRUE
    <3>1. Len(b) <= Len(b)
      BY <1>1
    <3>2. Resting(Turns(f, p, Loop(TRUE, b, t))[Len(b)])
      BY <1>1, <3>1, TurnsRest
    <3>3. QED
      BY <2>1, <3>2, Zenon
  <2>2. CASE more = FALSE
    <3>1. Resting(l)
      BY <2>2, LoopRests
    <3> HIDE DEF l
    <3>2. Turns(f, p, l)[Len(b)] = l
      BY <1>1, <3>1, RestStays
    <3>3. QED
      BY <3>1, <3>2, Zenon
  <2>3. QED
    BY <2>1, <2>2
<1> HIDE DEF l
<1>3. Turn(f, p, Turns(f, p, l)[Len(b)]) = Turns(f, p, l)[Len(b)]
  BY <1>2, RestIs
<1>4. Turns(f, p, l)[n] = Turns(f, p, l)[Len(b)]
  BY <1>1, <1>3, TurnsStay
<1>5. QED
  BY <1>1, <1>2, <1>4, Zenon DEF l

\* A loop at rest is what it comes to.
LEMMA CutOfRest ==
  ASSUME NEW f, NEW p, NEW more \in BOOLEAN, NEW b \in Seq(Byte), NEW t, ~ more \/ b = <<>>
  PROVE  Cut(f, p, Loop(more, b, t)) = Loop(more, b, t)
<1> DEFINE l == Loop(more, b, t)
<1>1. Cut(f, p, l) = Turns(f, p, l)[Len(b)] /\ Len(b) \in Nat
  BY LoopIs DEF Cut
<1>2. Resting(l)
  BY LoopRests
<1> HIDE DEF l
<1>3. Turns(f, p, l)[Len(b)] = l
  BY <1>1, <1>2, RestStays
<1>4. QED
  BY <1>1, <1>3 DEF l

\* A loop that goes on, and one that halted.
Going(b, t) == Loop(TRUE, b, t)
Halted(b, t) == Loop(FALSE, b, t)

\* A turn does not change where the loop comes to rest.
LEMMA CutStep ==
  ASSUME NEW f, NEW p \in Known, NEW b \in Seq(Byte), NEW t,
         NEW c \in Seq(Byte), NEW u, Len(c) <= Len(b)
  PROVE  /\ Turn(f, p, Going(b, t)) = Going(c, u) =>
              Cut(f, p, Going(b, t)) = Cut(f, p, Going(c, u))
         /\ Turn(f, p, Going(b, t)) = Halted(c, u) =>
              Cut(f, p, Going(b, t)) = Halted(c, u)
<1> DEFINE n == Len(b)
<1>1. n \in Nat /\ n + 1 \in Nat /\ n + 1 >= Len(b) /\ n >= Len(c)
  OBVIOUS
<1>2. Turns(f, p, Going(b, t))[n + 1] = Cut(f, p, Going(b, t))
  <2>1. \A m \in BOOLEAN : \A k \in Nat : k >= Len(b) =>
          Turns(f, p, Loop(m, b, t))[k] = Cut(f, p, Loop(m, b, t))
    BY CutStays
  <2>2. QED
    BY <1>1, <2>1 DEF Going
<1>3. Turns(f, p, Going(b, t))[n + 1] = Turns(f, p, Turn(f, p, Going(b, t)))[n]
  BY <1>1, TurnsShift
<1>4. \A m \in BOOLEAN : Turns(f, p, Loop(m, c, u))[n] = Cut(f, p, Loop(m, c, u))
  BY <1>1, CutStays
<1>5. Turns(f, p, Going(c, u))[n] = Cut(f, p, Going(c, u))
  BY <1>4 DEF Going
<1>6. Turns(f, p, Halted(c, u))[n] = Cut(f, p, Halted(c, u))
  BY <1>4 DEF Halted
<1>7. Cut(f, p, Halted(c, u)) = Halted(c, u)
  <2>1. \A m \in BOOLEAN : ~ m => Cut(f, p, Loop(m, c, u)) = Loop(m, c, u)
    BY CutOfRest
  <2>2. QED
    BY <2>1 DEF Halted
<1>8. QED
  BY <1>2, <1>3, <1>5, <1>6, <1>7

\* An empty loop is at rest.
LEMMA CutOfEmpty ==
  ASSUME NEW f, NEW p, NEW b \in Seq(Byte), b = <<>>, NEW t
  PROVE  Cut(f, p, Going(b, t)) = Going(b, t)
<1> DEFINE l == Going(b, t)
<1>0. l.buf = b
  BY DEF Going, Loop
<1>1. Cut(f, p, l) = Turns(f, p, l)[Len(b)] /\ Len(b) \in Nat
  BY <1>0 DEF Cut
<1>2. Resting(l)
  BY LoopRests DEF Going
<1> HIDE DEF l
<1>3. Turns(f, p, l)[Len(b)] = l
  BY <1>1, <1>2, RestStays
<1>4. QED
  BY <1>1, <1>3 DEF l

\* One turn of a loop that goes on: it waits, takes a frame or skips.
Goes(f, p, b, t, r, x, d) ==
  \/ r.is = "incomplete" /\ x = Halted(b, t)
  \/ /\ r.is = "frame" /\ r.consumed \in 1..Len(b)
     /\ d.end = "" => x = Going(After(b, r.consumed), d)
     /\ d.end # "" => x = Halted(After(b, r.consumed), d)
  \/ /\ r.is \in Skips /\ r.consumed \in 1..Len(b)
     /\ x = Going(After(b, r.consumed), t)

\* The same, for a loop that goes on and one that halts.
LEMMA TurnGoes ==
  ASSUME NEW f, NEW p \in Known, NEW b \in Seq(Byte), b # <<>>, NEW t
  PROVE  Goes(f, p, b, t, NextFrame(p, b), Turn(f, p, Going(b, t)),
              dispatch(f, p, t, NextFrame(p, b).frame))
<1> DEFINE r == NextFrame(p, b)
           x == Turn(f, p, Going(b, t))
           d == dispatch(f, p, t, r.frame)
<1>1. \/ r.is = "incomplete" /\ x = Loop(FALSE, b, t)
      \/ /\ r.is = "frame" /\ r.consumed \in 1..Len(b)
         /\ x = Loop(d.end = "", After(b, r.consumed), d)
      \/ /\ r.is \in Skips /\ r.consumed \in 1..Len(b)
         /\ x = Loop(TRUE, After(b, r.consumed), t)
  BY TurnIs DEF Going
<1> HIDE DEF r, x, d
<1>2. /\ d.end = "" => Loop(d.end = "", After(b, r.consumed), d) = Going(After(b, r.consumed), d)
      /\ d.end # "" => Loop(d.end = "", After(b, r.consumed), d) = Halted(After(b, r.consumed), d)
  <2>1. ASSUME NEW e, d.end = e
        PROVE  Loop(d.end = e, After(b, r.consumed), d) = Going(After(b, r.consumed), d)
    <3>1. (d.end = e) = TRUE
      BY <2>1
    <3>2. QED
      BY <3>1, Zenon DEF Going
  <2>2. ASSUME d.end # ""
        PROVE  Loop(d.end = "", After(b, r.consumed), d) = Halted(After(b, r.consumed), d)
    <3>1. (d.end = "") = FALSE
      BY <2>2
    <3>2. QED
      BY <3>1, Zenon DEF Halted
  <2>3. QED
    BY <2>1, <2>2
<1>3. Goes(f, p, b, t, r, x, d)
  BY <1>1, <1>2 DEF Goes, Going, Halted
<1>4. QED
  BY <1>3 DEF r, x, d

-----------------------------------------------------------------------------
(* The buffer is a window of the stream.                                     *)

W(str, i, j) == SubSeq(str, i + 1, j)

\* The length and the bytes of a window.
LEMMA WindowIs ==
  ASSUME NEW str \in Seq(Byte), NEW i \in Nat, NEW j \in Nat, i <= j, j <= Len(str)
  PROVE  /\ W(str, i, j) \in Seq(Byte) /\ Len(W(str, i, j)) = j - i
         /\ \A n \in 1..j - i : W(str, i, j)[n] = str[i + n]
         /\ i = j <=> W(str, i, j) = <<>>
<1>1. SubSeq(str, i + 1, j) \in Seq(Byte)
  <2>1. \A n \in i + 1..j : n \in 1..Len(str)
    OBVIOUS
  <2>2. QED
    BY <2>1
<1>2. Len(SubSeq(str, i + 1, j)) = j - i
  OBVIOUS
<1>3. ASSUME NEW n \in 1..j - i PROVE SubSeq(str, i + 1, j)[n] = str[i + n]
  OBVIOUS
<1>4. i = j <=> SubSeq(str, i + 1, j) = <<>>
  BY <1>1, <1>2
<1>5. QED
  BY <1>1, <1>2, <1>3, <1>4 DEF W

\* Two sequences of bytes are equal when their lengths and bytes are.
LEMMA SameBytes ==
  ASSUME NEW b \in Seq(Byte), NEW c \in Seq(Byte), Len(b) = Len(c),
         \A i \in 1..Len(b) : b[i] = c[i]
  PROVE  b = c
<1>1. b = [i \in 1..Len(b) |-> b[i]] /\ c = [i \in 1..Len(c) |-> c[i]]
  OBVIOUS
<1>2. QED
  BY <1>1

\* What is left of a window is a window.
LEMMA WindowAfter ==
  ASSUME NEW str \in Seq(Byte), NEW i \in Nat, NEW j \in Nat, i <= j, j <= Len(str),
         NEW n \in 0..j - i
  PROVE  After(W(str, i, j), n) = W(str, i + n, j)
<1> DEFINE b == W(str, i, j)  c == W(str, i + n, j)
<1>1. i + n \in Nat /\ i + n <= j /\ n \in Nat
  OBVIOUS
<1>2. b \in Seq(Byte) /\ Len(b) = j - i /\ \A m \in 1..j - i : b[m] = str[i + m]
  BY WindowIs
<1>3. /\ c \in Seq(Byte) /\ Len(c) = j - (i + n)
      /\ \A m \in 1..j - (i + n) : c[m] = str[(i + n) + m]
  <2> DEFINE o == i + n
  <2>1. o \in Nat /\ o <= j
    BY <1>1
  <2> HIDE DEF o
  <2>2. /\ W(str, o, j) \in Seq(Byte) /\ Len(W(str, o, j)) = j - o
        /\ \A m \in 1..j - o : W(str, o, j)[m] = str[o + m]
    BY <2>1, WindowIs
  <2>3. QED
    BY <2>2 DEF o
<1> HIDE DEF b, c
<1>4. After(b, n) \in Seq(Byte) /\ Len(After(b, n)) = Len(b) - n
      /\ \A m \in 1..Len(b) - n : After(b, n)[m] = b[n + m]
  BY <1>2, AfterIs
<1>5. Len(After(b, n)) = Len(c)
  BY <1>1, <1>2, <1>3, <1>4
<1>6. ASSUME NEW m \in 1..Len(c) PROVE After(b, n)[m] = c[m]
  <2>1. m \in 1..Len(b) - n /\ n + m \in 1..j - i /\ m \in 1..j - (i + n)
        /\ i + (n + m) = (i + n) + m
    BY <1>1, <1>2, <1>3
  <2>2. QED
    BY <1>2, <1>3, <1>4, <2>1
<1>7. QED
  BY <1>3, <1>4, <1>5, <1>6, SameBytes DEF b, c

\* A window begins the longer one.
LEMMA WindowBegins ==
  ASSUME NEW str \in Seq(Byte), NEW i \in Nat, NEW j \in Nat, NEW k \in Nat,
         i <= j, j <= k, k <= Len(str)
  PROVE  Begins(W(str, i, j), W(str, i, k))
<1> DEFINE b == W(str, i, j)  c == W(str, i, k)
<1>0. j <= Len(str) /\ i <= k
  OBVIOUS
<1>1. Len(b) = j - i /\ \A m \in 1..j - i : b[m] = str[i + m]
  BY <1>0, WindowIs
<1>2. Len(c) = k - i /\ \A m \in 1..k - i : c[m] = str[i + m]
  BY <1>0, WindowIs
<1> HIDE DEF b, c
<1>3. \A m \in 1..j - i : m \in 1..k - i
  OBVIOUS
<1>4. Len(b) <= Len(c) /\ \A m \in 1..Len(b) : c[m] = b[m]
  BY <1>1, <1>2, <1>3
<1>5. QED
  BY <1>4 DEF Begins, b, c

\* Two windows that meet are one.
LEMMA WindowGrows ==
  ASSUME NEW str \in Seq(Byte), NEW i \in Nat, NEW j \in Nat, NEW k \in Nat,
         i <= j, j <= k, k <= Len(str)
  PROVE  W(str, i, j) \o W(str, j, k) = W(str, i, k)
<1> DEFINE b == W(str, i, j)  c == W(str, j, k)  d == W(str, i, k)
<1>0. j <= Len(str) /\ i <= k
  OBVIOUS
<1>1. b \in Seq(Byte) /\ Len(b) = j - i /\ \A m \in 1..j - i : b[m] = str[i + m]
  BY <1>0, WindowIs
<1>2. c \in Seq(Byte) /\ Len(c) = k - j /\ \A m \in 1..k - j : c[m] = str[j + m]
  BY <1>0, WindowIs
<1>3. d \in Seq(Byte) /\ Len(d) = k - i /\ \A m \in 1..k - i : d[m] = str[i + m]
  BY <1>0, WindowIs
<1> HIDE DEF b, c, d
<1>4. b \o c \in Seq(Byte) /\ Len(b \o c) = Len(d)
  BY <1>1, <1>2, <1>3
<1>5. ASSUME NEW m \in 1..Len(d) PROVE (b \o c)[m] = d[m]
  <2>1. m \in 1..Len(b) + Len(c) /\ m \in 1..k - i
    BY <1>1, <1>2, <1>3
  <2>2. CASE m <= j - i
    <3>1. (b \o c)[m] = b[m] /\ m \in 1..j - i
      BY <1>1, <1>2, <2>1, <2>2
    <3>2. QED
      BY <1>1, <1>3, <2>1, <3>1
  <2>3. CASE m > j - i
    <3>1. (b \o c)[m] = c[m - Len(b)]
      BY <1>1, <1>2, <2>1, <2>3
    <3>2. m - Len(b) \in 1..k - j /\ j + (m - Len(b)) = i + m
      BY <1>1, <2>1, <2>3
    <3>3. QED
      BY <1>2, <1>3, <2>1, <3>1, <3>2
  <2>4. QED
    BY <2>1, <2>2, <2>3
<1>6. QED
  BY <1>3, <1>4, <1>5, SameBytes DEF b, c, d

-----------------------------------------------------------------------------
(* Bytes that come later do not change what was made of the first ones.      *)

\* Every window of the stream keeps to the limits of its framer.
Fitting(p, str) == \A i, j \in Nat : i < j /\ j <= Len(str) => Ends(p, W(str, i, j))

\* Where a loop over a window comes to rest when its first turn takes n bytes.
Takes(f, p, str, i, k, t, n, u) ==
  LET x == Turn(f, p, Going(W(str, i, k), t))
      y == Cut(f, p, Going(W(str, i, k), t))
  IN  /\ x = Going(After(W(str, i, k), n), u) => y = Cut(f, p, Going(W(str, i + n, k), u))
      /\ x = Halted(After(W(str, i, k), n), u) => y = Halted(W(str, i + n, k), u)

\* Such a loop goes on as the one over the rest of the window.
LEMMA CutTakes ==
  ASSUME NEW f, NEW p \in Known, NEW str \in Seq(Byte), NEW i \in Nat, NEW k \in Nat,
         i < k, k <= Len(str), NEW t, NEW n \in 1..k - i, NEW u
  PROVE  Takes(f, p, str, i, k, t, n, u)
<1> DEFINE b == W(str, i, k)  c == W(str, i + n, k)
<1>0. \A x, y \in Seq(Byte) : Len(y) <= Len(x) =>
        /\ Turn(f, p, Going(x, t)) = Going(y, u) => Cut(f, p, Going(x, t)) = Cut(f, p, Going(y, u))
        /\ Turn(f, p, Going(x, t)) = Halted(y, u) => Cut(f, p, Going(x, t)) = Halted(y, u)
  BY CutStep
<1>1. n \in 0..k - i /\ i <= k /\ i + n \in Nat /\ i + n <= k
  OBVIOUS
<1>2. b \in Seq(Byte) /\ Len(b) = k - i
  BY <1>1, WindowIs
<1>3. c \in Seq(Byte) /\ Len(c) = k - (i + n)
  <2> DEFINE o == i + n
  <2> HIDE DEF o
  <2>1. W(str, o, k) \in Seq(Byte) /\ Len(W(str, o, k)) = k - o
    <3>1. o \in Nat /\ o <= k
      BY <1>1 DEF o
    <3>2. QED
      BY <3>1, WindowIs
  <2>2. QED
    BY <2>1 DEF o
<1>4. After(b, n) = c
  BY <1>1, WindowAfter
<1>5. Len(c) <= Len(b)
  BY <1>2, <1>3
<1> HIDE DEF b, c
<1>6. /\ Turn(f, p, Going(b, t)) = Going(c, u) => Cut(f, p, Going(b, t)) = Cut(f, p, Going(c, u))
      /\ Turn(f, p, Going(b, t)) = Halted(c, u) => Cut(f, p, Going(b, t)) = Halted(c, u)
  BY <1>2, <1>3, <1>5, <1>0
<1>7. QED
  BY <1>4, <1>6 DEF Takes, b, c

\* What the answer r about the first bytes of a window makes of a longer one.
Grown(f, p, str, i, k, t, r, d) ==
  LET all == Cut(f, p, Going(W(str, i, k), t))
  IN  /\ r.is = "frame" /\ d.end = "" => all = Cut(f, p, Going(W(str, i + r.consumed, k), d))
      /\ r.is \in Skips => all = Cut(f, p, Going(W(str, i + r.consumed, k), t))

\* So does the loop over the longer window, although it may skip more at once.
LEMMA CutGrows ==
  ASSUME NEW f, NEW p \in Known, NEW str \in Seq(Byte),
         NEW i \in Nat, NEW j \in Nat, NEW k \in Nat, i < j, j <= k, k <= Len(str),
         NEW t, Ends(p, W(str, i, j))
  PROVE  Grown(f, p, str, i, k, t, NextFrame(p, W(str, i, j)),
               dispatch(f, p, t, NextFrame(p, W(str, i, j)).frame))
<1> DEFINE b == W(str, i, j)  c == W(str, i, k)
           r == NextFrame(p, b)  R == NextFrame(p, c)
           n == r.consumed
           e == NextFrame(p, After(c, n))
           d == dispatch(f, p, t, r.frame)
           all == Cut(f, p, Going(c, t))
<1>1. i <= j /\ i <= k /\ i < k /\ j <= Len(str)
  OBVIOUS
<1>2. b \in Seq(Byte) /\ Len(b) = j - i /\ b # <<>>
  BY <1>1, WindowIs
<1>3. c \in Seq(Byte) /\ Len(c) = k - i /\ c # <<>>
  BY <1>1, WindowIs
<1>4. Begins(b, c)
  BY <1>1, WindowBegins
<1>5. Keeps(r, R, e)
  <2>1. Ends(p, b)
    OBVIOUS
  <2> HIDE DEF b, c
  <2>2. QED
    BY <1>2, <1>3, <1>4, <2>1, FramerKeeps
<1>6. /\ Advances(r, Len(b)) /\ Advances(R, Len(c))
  <2> HIDE DEF b, c
  <2>1. QED
    BY <1>2, <1>3, FramerAdvances
<1> DEFINE D == dispatch(f, p, t, R.frame)  X == Turn(f, p, Going(c, t))
<1>7. \/ R.is = "incomplete" /\ X = Halted(c, t)
      \/ /\ R.is = "frame" /\ R.consumed \in 1..Len(c)
         /\ D.end = "" => X = Going(After(c, R.consumed), D)
      \/ R.is \in Skips /\ R.consumed \in 1..Len(c) /\ X = Going(After(c, R.consumed), t)
  <2> HIDE DEF c
  <2>1. Goes(f, p, c, t, R, X, D)
    BY <1>3, TurnGoes
  <2>2. QED
    <3> HIDE DEF R, X, D
    <3>1. QED
      BY <2>1 DEF Goes
<1>8. ASSUME r.is = "frame", d.end = "" PROVE all = Cut(f, p, Going(W(str, i + n, k), d))
  <2>1. R = r /\ n \in 1..k - i /\ R.is = "frame"
    <3>1. n \in 1..Len(b)
      <4> HIDE DEF r, b
      <4>1. QED
        BY <1>6, <1>8 DEF Advances
    <3>2. R = r
      <4> HIDE DEF r, R, e
      <4>1. QED
        BY <1>5, <1>8 DEF Keeps
    <3>3. n \in 1..k - i
      <4> HIDE DEF n, b
      <4>1. QED
        BY <1>1, <1>2, <3>1
    <3>4. QED
      BY <1>8, <3>2, <3>3
  <2>2. R.is # "incomplete" /\ R.is \notin Skips
    <3> HIDE DEF R
    <3>1. QED
      BY <2>1 DEF Skips
  <2>3. X = Going(After(c, n), d)
    <3> HIDE DEF X, R, r, c
    <3>1. D = d
      BY <2>1
    <3>2. QED
      BY <1>7, <1>8, <2>1, <2>2, <3>1
  <2>4. QED
    <3> HIDE DEF d, n
    <3>1. Takes(f, p, str, i, k, t, n, d)
      BY <1>1, <2>1, CutTakes
    <3>2. QED
      BY <2>3, <3>1 DEF Takes
<1>9. ASSUME r.is \in Skips PROVE all = Cut(f, p, Going(W(str, i + n, k), t))
  <2>1. /\ n \in 1..k - i
        /\ R.is \in Skips
        /\ \/ R.consumed = n
           \/ R.consumed > n /\ e.is \in Skips /\ e.consumed = R.consumed - n
    <3>1. n \in 1..Len(b)
      <4> HIDE DEF r, b
      <4>1. r.is # "incomplete"
        BY <1>9 DEF Skips
      <4>2. QED
        BY <1>6, <4>1 DEF Advances
    <3>2. n \in 1..k - i
      <4> HIDE DEF n, b
      <4>1. QED
        BY <1>1, <1>2, <3>1
    <3>3. QED
      <4> HIDE DEF r, R, e
      <4>1. QED
        BY <1>5, <1>9, <3>2 DEF Keeps
  <2>2. R.consumed \in 1..k - i /\ X = Going(After(c, R.consumed), t)
    <3> HIDE DEF R, X, D
    <3>1. R.is # "incomplete" /\ R.is # "frame"
      BY <2>1 DEF Skips
    <3>2. QED
      BY <1>3, <1>7, <3>1
  <2>3. all = Cut(f, p, Going(W(str, i + R.consumed, k), t))
    <3> DEFINE q == R.consumed
    <3>1. q \in 1..k - i /\ X = Going(After(c, q), t)
      BY <2>2
    <3> HIDE DEF q
    <3>2. Takes(f, p, str, i, k, t, q, t)
      BY <1>1, <3>1, CutTakes
    <3>3. all = Cut(f, p, Going(W(str, i + q, k), t))
      BY <3>1, <3>2 DEF Takes
    <3>4. QED
      BY <3>3 DEF q
  <2>4. CASE R.consumed = n
    <3> HIDE DEF R, n, all
    <3>1. QED
      BY <2>3, <2>4
  <2>5. CASE R.consumed # n
    <3> DEFINE g == W(str, i + n, k)
    <3>1. R.consumed > n /\ e.is \in Skips /\ e.consumed = R.consumed - n
      <4> HIDE DEF R, e, n
      <4>1. QED
        BY <2>1, <2>5
    <3>2. i + n \in Nat /\ i + n < k /\ i + n <= k /\ e.consumed \in 1..k - (i + n)
          /\ (i + n) + e.consumed = i + R.consumed
      <4> HIDE DEF R, e, n
      <4> DEFINE q == R.consumed  v == e.consumed
      <4>1. n \in Nat /\ q \in Nat /\ q <= k - i /\ q > n /\ v = q - n
        BY <2>1, <2>2, <3>1
      <4> HIDE DEF q, v
      <4>2. i + n \in Nat /\ i + n < k /\ i + n <= k /\ v \in 1..k - (i + n) /\ (i + n) + v = i + q
        BY <4>1
      <4>3. QED
        BY <4>2 DEF q, v
    <3>3. e = NextFrame(p, g)
      <4>1. n \in 0..k - i
        <5> HIDE DEF n
        <5>1. QED
          BY <2>1
      <4>2. After(c, n) = g
        <5> HIDE DEF n
        <5>1. QED
          BY <1>1, <4>1, WindowAfter
      <4>3. QED
        BY <4>2
    <3>4. g \in Seq(Byte) /\ g # <<>>
      <4> DEFINE o == i + n
      <4>1. o \in Nat /\ o <= k /\ o # k
        BY <3>2
      <4> HIDE DEF o
      <4>2. W(str, o, k) \in Seq(Byte) /\ W(str, o, k) # <<>>
        BY <4>1, WindowIs
      <4>3. QED
        BY <4>2 DEF o
    <3>5. Turn(f, p, Going(g, t)) = Going(After(g, e.consumed), t)
      <4> HIDE DEF g, e
      <4>1. e.is # "incomplete" /\ e.is # "frame"
        BY <3>1 DEF Skips
      <4> DEFINE x == Turn(f, p, Going(g, t))  w == dispatch(f, p, t, e.frame)
      <4>2. Goes(f, p, g, t, e, x, w)
        BY <3>3, <3>4, TurnGoes
      <4>3. QED
        <5> HIDE DEF x, w
        <5>1. x = Going(After(g, e.consumed), t)
          BY <4>1, <4>2 DEF Goes
        <5>2. QED
          BY <5>1 DEF x
    <3>6. Cut(f, p, Going(g, t)) = Cut(f, p, Going(W(str, (i + n) + e.consumed, k), t))
      <4> DEFINE o == i + n  v == e.consumed
      <4>1. o \in Nat /\ o < k /\ v \in 1..k - o
        BY <3>2
      <4>2. Turn(f, p, Going(W(str, o, k), t)) = Going(After(W(str, o, k), v), t)
        BY <3>5
      <4> HIDE DEF o, v
      <4>3. Takes(f, p, str, o, k, t, v, t)
        BY <4>1, CutTakes
      <4>4. Cut(f, p, Going(W(str, o, k), t)) = Cut(f, p, Going(W(str, o + v, k), t))
        BY <4>2, <4>3 DEF Takes
      <4>5. QED
        BY <4>4 DEF o, v
    <3>7. QED
      <4> HIDE DEF R, e, n, all
      <4>1. QED
        BY <2>3, <3>2, <3>6
  <2>6. QED
    BY <2>4, <2>5
<1>10. QED
  BY <1>8, <1>9 DEF Grown

\* Where the loop over the bytes i + 1 to j comes to rest: it leaves the bytes
\* after o, and going on from there with the bytes that follow is the same as
\* going over all of them at once.
Lands(f, p, str, i, j, t, o) ==
  LET x == Cut(f, p, Going(W(str, i, j), t))
  IN  /\ x.buf = W(str, o, j) /\ x.talk.end \in Said
      /\ x.talk.end = "" /\ Fitting(p, str) =>
           \A k \in j..Len(str) :
             Cut(f, p, Going(W(str, o, k), x.talk)) = Cut(f, p, Going(W(str, i, k), t))

\* The fields of a loop that goes on and of one that halted.
LEMMA LoopFields ==
  ASSUME NEW b, NEW t
  PROVE  Going(b, t).buf = b /\ Going(b, t).talk = t
         /\ Halted(b, t).buf = b /\ Halted(b, t).talk = t
BY DEF Going, Halted, Loop

\* One turn, then the rest.
LEMMA LandsThen ==
  ASSUME NEW f, NEW p, NEW str, NEW i, NEW j, NEW t, NEW o, NEW h, NEW u,
         Cut(f, p, Going(W(str, i, j), t)) = Cut(f, p, Going(W(str, h, j), u)),
         Fitting(p, str) => \A k \in j..Len(str) :
           Cut(f, p, Going(W(str, i, k), t)) = Cut(f, p, Going(W(str, h, k), u)),
         Lands(f, p, str, h, j, u, o)
  PROVE  Lands(f, p, str, i, j, t, o)
BY DEF Lands

\* Every loop over a window lands, by induction on its bytes.
LEMMA CutLands ==
  ASSUME NEW f, NEW p \in Known, NEW str \in Seq(Byte)
  PROVE  \A m \in Nat : \A i, j \in Nat : \A t :
           i <= j /\ j <= Len(str) /\ j - i <= m /\ t.end = "" =>
             \E o \in i..j : Lands(f, p, str, i, j, t, o)
<1> DEFINE All(m) == \A i, j \in Nat : \A t :
                       i <= j /\ j <= Len(str) /\ j - i <= m /\ t.end = "" =>
                         \E o \in i..j : Lands(f, p, str, i, j, t, o)
           S == {m \in Nat : All(m)}
<1>1. ASSUME NEW i \in Nat, NEW t, i <= Len(str), t.end = ""
      PROVE  Lands(f, p, str, i, i, t, i)
  <2> DEFINE b == W(str, i, i)
  <2>1. b \in Seq(Byte) /\ b = <<>>
    <3>1. i <= i
      OBVIOUS
    <3>2. QED
      BY <1>1, <3>1, WindowIs
  <2>2. Cut(f, p, Going(b, t)) = Going(b, t)
    <3> HIDE DEF b
    <3>1. QED
      BY <2>1, CutOfEmpty
  <2>3. Going(b, t).buf = b /\ Going(b, t).talk = t
    <3> HIDE DEF b
    <3>1. QED
      BY LoopFields
  <2>4. QED
    BY <1>1, <2>2, <2>3 DEF Lands, Said
<1>2. 0 \in S
  <2>1. ASSUME NEW i \in Nat, NEW j \in Nat, NEW t,
               i <= j, j <= Len(str), j - i <= 0, t.end = ""
        PROVE  \E o \in i..j : Lands(f, p, str, i, j, t, o)
    <3>0. i <= j /\ j - i <= 0
      BY <2>1
    <3>1. i = j /\ i \in i..j
      BY <3>0
    <3>2. Lands(f, p, str, i, j, t, i)
      BY <1>1, <2>1, <3>1
    <3>3. QED
      BY <3>1, <3>2
  <2>2. All(0)
    BY <2>1, Zenon
  <2>3. QED
    <3> HIDE DEF All
    <3>1. QED
      BY <2>2
<1>3. ASSUME NEW m \in Nat, m \in S PROVE m + 1 \in S
  <2>0. All(m)
    BY <1>3
  <2>1. ASSUME NEW i \in Nat, NEW j \in Nat, NEW t,
               i <= j, j <= Len(str), j - i <= m + 1, t.end = ""
        PROVE  \E o \in i..j : Lands(f, p, str, i, j, t, o)
    <3>1. CASE i = j
      <4>1. i \in i..j
        BY <3>1
      <4>2. Lands(f, p, str, i, j, t, i)
        BY <1>1, <2>1, <3>1
      <4>3. QED
        BY <4>1, <4>2
    <3>2. CASE i # j
      <4> DEFINE b == W(str, i, j)
                 r == NextFrame(p, b)
                 n == r.consumed
                 d == dispatch(f, p, t, r.frame)
                 x == Turn(f, p, Going(b, t))
      <4>0. i < j /\ i <= j
        <5>1. i <= j
          BY <2>1
        <5>2. QED
          BY <3>2, <5>1
      <4>1. b \in Seq(Byte) /\ Len(b) = j - i /\ b # <<>>
        BY <2>1, <3>2, WindowIs
      <4>2. Goes(f, p, b, t, r, x, d)
        <5> HIDE DEF b
        <5>1. QED
          BY <4>1, TurnGoes
      <4>3. d.end \in Said
        <5>1. t.end \in Said
          BY <2>1 DEF Said
        <5> HIDE DEF r
        <5>2. QED
          BY <5>1, DispatchEnds
      <4>4. \A k \in j..Len(str) : Fitting(p, str) =>
              /\ r.is = "frame" /\ d.end = "" =>
                   Cut(f, p, Going(W(str, i, k), t)) = Cut(f, p, Going(W(str, i + n, k), d))
              /\ r.is \in Skips =>
                   Cut(f, p, Going(W(str, i, k), t)) = Cut(f, p, Going(W(str, i + n, k), t))
        <5>1. SUFFICES ASSUME NEW k \in j..Len(str), Fitting(p, str)
                       PROVE  /\ r.is = "frame" /\ d.end = "" =>
                                   Cut(f, p, Going(W(str, i, k), t))
                                     = Cut(f, p, Going(W(str, i + n, k), d))
                              /\ r.is \in Skips =>
                                   Cut(f, p, Going(W(str, i, k), t))
                                     = Cut(f, p, Going(W(str, i + n, k), t))
          OBVIOUS
        <5>2. k \in Nat /\ j <= k /\ k <= Len(str)
          OBVIOUS
        <5>3. Ends(p, W(str, i, j))
          BY <2>1, <4>0, <5>1 DEF Fitting
        <5>4. Grown(f, p, str, i, k, t, r, d)
          BY <4>0, <5>2, <5>3, CutGrows
        <5>5. QED
          <6> HIDE DEF r, d
          <6>1. QED
            BY <5>4 DEF Grown
      <4> HIDE DEF r, d, x, b
      <4>5. ASSUME r.is # "incomplete"
            PROVE  n \in 1..j - i /\ i + n \in Nat /\ i + n <= j /\ j - (i + n) <= m
                   /\ i + n \in i..j
        <5>1. n \in 1..Len(b)
          BY <4>2, <4>5 DEF Goes
        <5>2. j - i <= m + 1
          BY <2>1
        <5> HIDE DEF n
        <5>3. QED
          BY <4>0, <4>1, <5>1, <5>2
      <4>6. CASE r.is = "incomplete"
        <5>1. x = Halted(b, t)
          BY <4>2, <4>6 DEF Goes, Skips
        <5>2. Cut(f, p, Going(b, t)) = Halted(b, t)
          <6>1. Len(b) <= Len(b)
            BY <4>1
          <6>2. QED
            BY <4>1, <5>1, <6>1, CutStep DEF x
        <5>3. Halted(b, t).buf = b /\ Halted(b, t).talk = t
          BY LoopFields
        <5>4. Lands(f, p, str, i, j, t, i)
          BY <2>1, <5>2, <5>3 DEF Lands, Said, b
        <5>5. i \in i..j
          BY <4>0
        <5>6. QED
          BY <5>4, <5>5
      <4>7. CASE r.is = "frame" /\ d.end = ""
        <5>1. x = Going(After(b, n), d) /\ r.is # "incomplete"
          BY <4>2, <4>7 DEF Goes, Skips
        <5> HIDE DEF n
        <5>2. Takes(f, p, str, i, j, t, n, d)
          BY <2>1, <4>0, <4>5, <5>1, CutTakes
        <5>3. Cut(f, p, Going(W(str, i, j), t)) = Cut(f, p, Going(W(str, i + n, j), d))
          BY <5>1, <5>2 DEF Takes, x, b
        <5>4. PICK o \in i + n..j : Lands(f, p, str, i + n, j, d, o)
          BY <2>0, <2>1, <4>5, <4>7, <5>1
        <5>5. o \in i..j
          BY <4>5, <5>1
        <5>6. Fitting(p, str) => \A k \in j..Len(str) :
                Cut(f, p, Going(W(str, i, k), t)) = Cut(f, p, Going(W(str, i + n, k), d))
          BY <4>4, <4>7 DEF n
        <5>7. Lands(f, p, str, i, j, t, o)
          <6> DEFINE h == i + n
          <6> HIDE DEF h
          <6>1. QED
            BY <5>3, <5>4, <5>6, LandsThen
        <5>8. QED
          BY <5>5, <5>7
      <4>8. CASE r.is = "frame" /\ d.end # ""
        <5>1. x = Halted(After(b, n), d) /\ r.is # "incomplete"
          BY <4>2, <4>8 DEF Goes, Skips
        <5> HIDE DEF n
        <5>2. Takes(f, p, str, i, j, t, n, d)
          BY <2>1, <4>0, <4>5, <5>1, CutTakes
        <5>3. Cut(f, p, Going(W(str, i, j), t)) = Halted(W(str, i + n, j), d)
          BY <5>1, <5>2 DEF Takes, x, b
        <5>4. Halted(W(str, i + n, j), d).buf = W(str, i + n, j)
              /\ Halted(W(str, i + n, j), d).talk = d
          BY LoopFields
        <5>5. Lands(f, p, str, i, j, t, i + n)
          BY <4>3, <4>8, <5>3, <5>4 DEF Lands
        <5>6. QED
          BY <4>5, <5>1, <5>5
      <4>9. CASE r.is \in Skips
        <5>1. x = Going(After(b, n), t) /\ r.is # "incomplete"
          BY <4>2, <4>9 DEF Goes, Skips
        <5> HIDE DEF n
        <5>2. Takes(f, p, str, i, j, t, n, t)
          BY <2>1, <4>0, <4>5, <5>1, CutTakes
        <5>3. Cut(f, p, Going(W(str, i, j), t)) = Cut(f, p, Going(W(str, i + n, j), t))
          BY <5>1, <5>2 DEF Takes, x, b
        <5>4. PICK o \in i + n..j : Lands(f, p, str, i + n, j, t, o)
          BY <2>0, <2>1, <4>5, <5>1
        <5>5. o \in i..j
          BY <4>5, <5>1
        <5>6. Fitting(p, str) => \A k \in j..Len(str) :
                Cut(f, p, Going(W(str, i, k), t)) = Cut(f, p, Going(W(str, i + n, k), t))
          BY <4>4, <4>9 DEF n
        <5>7. Lands(f, p, str, i, j, t, o)
          <6> DEFINE h == i + n
          <6> HIDE DEF h
          <6>1. QED
            BY <5>3, <5>4, <5>6, LandsThen
        <5>8. QED
          BY <5>5, <5>7
      <4>10. QED
        BY <4>2, <4>6, <4>7, <4>8, <4>9 DEF Goes
    <3>3. QED
      BY <3>1, <3>2
  <2>2. All(m + 1)
    BY <2>1, Zenon
  <2>3. QED
    <3> HIDE DEF All
    <3>1. QED
      BY <2>2
<1>4. \A m \in Nat : m \in S
  <2> HIDE DEF S
  <2>1. QED
    BY <1>2, <1>3, NatSetInduction
<1>5. QED
  BY <1>4

\* A stream that keeps to the limits does so in every window.
LEMMA FitsWindows ==
  ASSUME NEW p, NEW str \in Seq(Byte), Fits(p, str)
  PROVE  Fitting(p, str)
<1>1. SUFFICES ASSUME NEW i \in Nat, NEW j \in Nat, i < j, j <= Len(str)
               PROVE  Ends(p, W(str, i, j))
  BY DEF Fitting
<1> DEFINE b == W(str, i, j)
<1>2. /\ Len(b) = j - i /\ \A n \in 1..j - i : b[n] = str[i + n]
      /\ Len(str) \in Nat
  <2>1. i <= j
    BY <1>1
  <2>2. Len(b) = j - i /\ \A n \in 1..j - i : b[n] = str[i + n]
    BY <1>1, <2>1, WindowIs
  <2>3. QED
    BY <2>2
<1> HIDE DEF b
<1>3. ASSUME NEW max \in Nat, NEW x, Len(b) > max,
             i + 1 \in 1..Len(str) - max => \E m \in i + 1..i + 1 + max : str[m] = x
      PROVE  \E m \in 1..max + 1 : b[m] = x
  <2>1. i + 1 \in 1..Len(str) - max
    BY <1>1, <1>2, <1>3
  <2>2. PICK m \in i + 1..i + 1 + max : str[m] = x
    BY <1>3, <2>1
  <2>3. m - i \in 1..max + 1 /\ m - i \in 1..j - i /\ i + (m - i) = m
    BY <1>1, <1>2, <1>3
  <2>4. b[m - i] = x
    BY <1>2, <2>2, <2>3
  <2>5. QED
    BY <2>3, <2>4
<1>4. CASE p = "gt06"
  BY <1>4 DEF Ends
<1>5. CASE p = "h02"
  <2>1. /\ BinaryFrameLength \in 1..MaxFrame
        /\ \A n \in 1..Len(str) - MaxFrame :
             str[n] = markerText => \E m \in n..n + MaxFrame : str[m] = Hash
    BY <1>5 DEF Fits
  <2>2. ASSUME b[1] = markerText, Len(b) > MaxFrame
        PROVE  \E m \in 1..MaxFrame + 1 : b[m] = Hash
    <3>1. 1 \in 1..j - i
      BY <1>1
    <3>2. str[i + 1] = markerText
      BY <1>2, <2>2, <3>1
    <3>3. i + 1 \in 1..Len(str) - MaxFrame => \E m \in i + 1..i + 1 + MaxFrame : str[m] = Hash
      BY <2>1, <3>2
    <3>4. QED
      BY <1>3, <2>2, <3>3, SizesAre
  <2>3. QED
    BY <1>5, <2>1, <2>2 DEF Ends, b
<1>6. CASE p \in {"tkstar_v1", "tkstar_v1_8"}
  <2>1. \A n \in 1..Len(str) - MaxTextFrame : \E m \in n..n + MaxTextFrame : str[m] = Semicolon
    BY <1>6 DEF Fits
  <2>2. ASSUME Len(b) > MaxTextFrame
        PROVE  \E m \in 1..MaxTextFrame + 1 : b[m] = Semicolon
    <3>1. i + 1 \in 1..Len(str) - MaxTextFrame =>
            \E m \in i + 1..i + 1 + MaxTextFrame : str[m] = Semicolon
      BY <2>1
    <3>2. QED
      BY <1>3, <2>2, <3>1, SizesAre
  <2>3. QED
    BY <1>6, <2>2 DEF Ends, b
<1>7. QED
  BY <1>4, <1>5, <1>6 DEF Fits

-----------------------------------------------------------------------------
(* The session.                                                              *)

\* What a session that goes on has done with the first q bytes: it has their
\* last ones, after o, in its buffer.  With a protocol, going on from there is
\* the same as going over the whole stream.
Reached(f, str, q, s, o) ==
  /\ s.buf = W(str, o, q)
  /\ s.protocol = "" => o = 0 /\ s.talk = NewTalk
  /\ s.protocol # "" /\ Fitting(s.protocol, str) =>
       \A k \in q..Len(str) :
         Cut(f, s.protocol, Going(W(str, o, k), s.talk))
           = Cut(f, s.protocol, Going(W(str, 0, k), NewTalk))

\* How a talk ends.
LEMMA TalkIs ==
  ASSUME NEW t, NEW why
  PROVE  Ended(t, why).end = why /\ NewTalk.end = ""
BY DEF Ended, NewTalk, Talk

\* The protocols of the registry, and what it may detect.
LEMMA RegistryIs ==
  /\ Range(Registry) = Known
  /\ "" \notin Known
  /\ \A data : FirstDetected(data) \in {""} \cup Known
<1>1. DOMAIN Registry = 1..5 /\ Len(Registry) = 5 /\ \A i \in 1..5 : Registry[i] \in Known
  BY DEF Registry, Known
<1>2. Range(Registry) = Known
  <2>1. \A x \in Known : \E i \in 1..5 : x = Registry[i]
    BY DEF Registry, Known
  <2>2. QED
    BY <1>1, <2>1 DEF Range
<1>3. ASSUME NEW data PROVE FirstDetected(data) \in {""} \cup Known
  <2> DEFINE A == {n \in 1..Len(Registry) : Detects(Registry[n], data)}
  <2>1. A \in SUBSET (Nat \ {0}) /\ A \subseteq 1..5
    BY <1>1
  <2>2. Least(A) = 0 \/ Least(A) \in 1..5
    <3> HIDE DEF A
    <3>1. QED
      BY <2>1, LeastIs
  <2>3. FirstDetected(data) = IF Least(A) = 0 THEN "" ELSE Registry[Least(A)]
    BY DEF FirstDetected
  <2> HIDE DEF A
  <2>4. QED
    BY <1>1, <2>2, <2>3
<1>4. "" \notin Known
  BY DEF Known
<1>5. QED
  BY <1>2, <1>3, <1>4

\* The reasons the read loop ends a session for.
Reasons == {"", "unknown", "oversized", "send", "reject"}

\* What holds of a session after the first q bytes of the stream.
Served(f, str, q, s) ==
  /\ s.protocol \in {""} \cup Known
  /\ s.talk.end \in Reasons
  /\ Len(s.buf) <= MaxPacketSize + ReadChunk
  /\ s.talk.end = "" => /\ \E o \in 0..q : Reached(f, str, q, s, o)
                        /\ Len(s.buf) <= MaxPacketSize
  /\ s.protocol # "" /\ s.talk.end = "" /\ Fits(s.protocol, str) =>
       s = cutFrames(f, Session(W(str, 0, q), s.protocol, NewTalk))

Quiet(t) == t.end = ""
Open(s) == Quiet(s.talk)

\* Going on from the bytes after o is going over the whole stream.
Same(f, p, str, q, o, t) ==
  Fitting(p, str) => \A k \in q..Len(str) :
    Cut(f, p, Going(W(str, o, k), t)) = Cut(f, p, Going(W(str, 0, k), NewTalk))

\* Cutting the frames of a window.
LEMMA CutServes ==
  ASSUME NEW f, NEW p \in Known, NEW str \in Seq(Byte), NEW o \in Nat, NEW q \in Nat,
         o <= q, q <= Len(str), q - o <= MaxPacketSize, NEW t, Quiet(t), Same(f, p, str, q, o, t)
  PROVE  Served(f, str, q, cutFrames(f, Session(W(str, o, q), p, t)))
<1> DEFINE l == Cut(f, p, Going(W(str, o, q), t))
           x == cutFrames(f, Session(W(str, o, q), p, t))
<1>1. x = Session(l.buf, p, l.talk)
  BY DEF cutFrames, Rested, Going, Session
<1>2. x.buf = l.buf /\ x.protocol = p /\ x.talk = l.talk /\ p # ""
  <2>1. p # ""
    BY RegistryIs
  <2> HIDE DEF l, x
  <2>2. QED
    BY <1>1, <2>1 DEF Session
<1>3. PICK u \in o..q : Lands(f, p, str, o, q, t, u)
  <2>1. q - o \in Nat /\ q - o <= q - o
    OBVIOUS
  <2>2. QED
    BY <2>1, CutLands DEF Quiet
<1>4. /\ l.buf = W(str, u, q) /\ l.talk.end \in Said
      /\ l.talk.end = "" /\ Fitting(p, str) => \A k \in q..Len(str) :
           Cut(f, p, Going(W(str, u, k), l.talk)) = Cut(f, p, Going(W(str, o, k), t))
  BY <1>3 DEF Lands
<1>5. u \in Nat /\ u <= q /\ u \in 0..q /\ q - u <= q - o
  OBVIOUS
<1>6. Len(l.buf) <= MaxPacketSize /\ Len(l.buf) <= MaxPacketSize + ReadChunk
  <2>1. Len(W(str, u, q)) = q - u
    BY <1>5, WindowIs
  <2> DEFINE n == Len(l.buf)
  <2>2. n = q - u
    BY <1>4, <2>1
  <2> HIDE DEF n
  <2>3. n <= MaxPacketSize /\ n <= MaxPacketSize + ReadChunk
    BY <1>5, <2>2, SizesAre
  <2>4. QED
    BY <2>3 DEF n
<1>7. l.talk.end = "" => Reached(f, str, q, x, u)
  <2> HIDE DEF l, x
  <2>1. QED
    BY <1>2, <1>4 DEF Reached, Same
<1>8. ASSUME Fits(p, str) PROVE x = cutFrames(f, Session(W(str, 0, q), p, NewTalk))
  <2>1. q \in q..Len(str)
    OBVIOUS
  <2>2. l = Cut(f, p, Going(W(str, 0, q), NewTalk))
    BY <1>8, <2>1, FitsWindows DEF Same
  <2>3. cutFrames(f, Session(W(str, 0, q), p, NewTalk)) = Session(l.buf, p, l.talk)
    <3> HIDE DEF l
    <3>1. QED
      BY <2>2 DEF cutFrames, Rested, Going, Session
  <2>4. QED
    BY <1>1, <2>3
<1>9. l.talk.end \in Reasons
  <2> HIDE DEF l
  <2>1. QED
    BY <1>4 DEF Said, Reasons
<1>10. QED
  <2> HIDE DEF l, x
  <2>1. Served(f, str, q, x)
    BY <1>2, <1>5, <1>6, <1>7, <1>8, <1>9 DEF Served
  <2>2. QED
    BY <2>1 DEF x

\* A read keeps it, wherever it ends.
LEMMA ReceivedServes ==
  ASSUME NEW f, NEW str \in Seq(Byte), NEW q \in Nat, q <= Len(str),
         NEW n \in 1..ReadChunk, q + n <= Len(str),
         NEW s, Served(f, str, q, s), Open(s)
  PROVE  Served(f, str, q + n, Received(f, s, W(str, q, q + n)))
<1> DEFINE r == q + n
           chunk == W(str, q, r)
           w == s.buf \o chunk
           b == Session(w, s.protocol, s.talk)
           known == IF s.protocol = "" THEN detect(b) ELSE b
           x == Received(f, s, chunk)
<1>1. r \in Nat /\ q <= r /\ r <= Len(str) /\ ReadChunk \in Nat /\ MaxPacketSize \in Nat
      /\ n \in Nat /\ n <= ReadChunk /\ r - q = n /\ 0 \in 0..r
  BY SizesAre
<1>2. PICK o \in 0..q : Reached(f, str, q, s, o)
  BY DEF Served, Open, Quiet
<1>3. o \in Nat /\ o <= q /\ o <= r /\ o \in 0..r
  BY <1>1
<1>4. w = W(str, o, r) /\ Len(w) = r - o
  <2>1. s.buf = W(str, o, q)
    BY <1>2 DEF Reached
  <2>2. W(str, o, q) \o W(str, q, r) = W(str, o, r)
    <3> HIDE DEF r
    <3>1. QED
      BY <1>1, <1>3, WindowGrows
  <2>3. Len(W(str, o, r)) = r - o
    <3> HIDE DEF r
    <3>1. QED
      BY <1>1, <1>3, WindowIs
  <2>4. QED
    BY <2>1, <2>2, <2>3
<1>5. Len(w) <= MaxPacketSize + ReadChunk
  <2>1. Len(s.buf) = q - o /\ Len(s.buf) <= MaxPacketSize
    <3>1. Len(W(str, o, q)) = q - o
      BY <1>3, WindowIs
    <3>2. QED
      BY <1>2, <3>1 DEF Reached, Served, Open, Quiet
  <2>2. q - o <= MaxPacketSize
    BY <2>1
  <2> DEFINE m == Len(w)
  <2>3. m = r - o
    BY <1>4
  <2> HIDE DEF m, r
  <2>4. m <= MaxPacketSize + ReadChunk
    BY <1>1, <1>3, <2>2, <2>3
  <2>5. QED
    BY <2>4 DEF m
<1>6. s.protocol \in {""} \cup Known
  BY DEF Served
<1>7. /\ s.protocol = "" => o = 0 /\ s.talk = NewTalk
      /\ s.protocol # "" /\ Fitting(s.protocol, str) => \A k \in r..Len(str) :
           Cut(f, s.protocol, Going(W(str, o, k), s.talk))
             = Cut(f, s.protocol, Going(W(str, 0, k), NewTalk))
  <2>1. \A k \in r..Len(str) : k \in q..Len(str)
    BY <1>1
  <2> HIDE DEF r
  <2>2. QED
    BY <1>2, <2>1 DEF Reached
<1>8. b.buf = w /\ b.protocol = s.protocol /\ b.talk = s.talk
  <2> HIDE DEF w
  <2>1. QED
    BY DEF Session
<1>9. x = IF Len(w) > MaxPacketSize THEN Session(w, s.protocol, Ended(s.talk, "oversized"))
          ELSE IF known.protocol = "" THEN known
          ELSE cutFrames(f, known)
  <2> HIDE DEF w, chunk
  <2>1. x = process(f, b)
    BY DEF Received, w
  <2> HIDE DEF x, b
  <2>2. QED
    BY <1>8, <2>1 DEF process
<1> HIDE DEF x, known, b, w, chunk, r
<1>10. CASE Len(w) > MaxPacketSize
  <2>1. x = Session(w, s.protocol, Ended(s.talk, "oversized"))
    BY <1>9, <1>10
  <2>2. x.buf = w /\ x.protocol = s.protocol /\ x.talk.end = "oversized"
    <3>1. x.buf = w /\ x.protocol = s.protocol /\ x.talk = Ended(s.talk, "oversized")
      BY <2>1 DEF Session
    <3>2. QED
      BY <3>1, TalkIs
  <2>3. Served(f, str, r, x)
    BY <1>5, <1>6, <2>2 DEF Served, Reasons
  <2>4. QED
    BY <2>3 DEF x, r, chunk
<1>11. CASE ~(Len(w) > MaxPacketSize)
  <2>0. r - o <= MaxPacketSize
    BY <1>1, <1>3, <1>4, <1>11
  <2>1. CASE s.protocol # ""
    <3>1. s.protocol \in Known
      BY <1>6, <2>1
    <3>2. known = b
      BY <2>1 DEF known
    <3>3. x = cutFrames(f, Session(W(str, o, r), s.protocol, s.talk))
      <4>1. x = cutFrames(f, b)
        BY <1>8, <1>9, <1>11, <2>1, <3>2
      <4>2. QED
        BY <1>4, <4>1 DEF b
    <3>4. Served(f, str, r, x)
      <4> DEFINE p == s.protocol  t == s.talk
      <4>1. p \in Known /\ Quiet(t) /\ Same(f, p, str, r, o, t)
        BY <1>7, <2>1, <3>1 DEF Open, Same
      <4> HIDE DEF p, t
      <4>2. Served(f, str, r, cutFrames(f, Session(W(str, o, r), p, t)))
        BY <1>1, <1>3, <2>0, <4>1, CutServes
      <4>3. QED
        BY <3>3, <4>2 DEF p, t
    <3>5. QED
      BY <3>4 DEF x, r, chunk
  <2>2. CASE s.protocol = ""
    <3> DEFINE p == FirstDetected(w)
    <3>1. o = 0 /\ s.talk = NewTalk /\ p \in {""} \cup Known
      BY <1>7, <2>2, RegistryIs
    <3>2. known = IF p # "" THEN Session(w, p, s.talk)
                  ELSE IF Len(w) < DetectMinBytes THEN b
                  ELSE Session(<<>>, "", Ended(s.talk, "unknown"))
      BY <1>8, <2>2 DEF known, detect
    <3> HIDE DEF p
    <3>3. CASE p # ""
      <4>1. known = Session(W(str, 0, r), p, NewTalk) /\ p \in Known
        BY <1>4, <3>1, <3>2, <3>3
      <4>2. known.protocol = p
        BY <4>1 DEF Session
      <4>3. x = cutFrames(f, Session(W(str, 0, r), p, NewTalk))
        BY <1>9, <1>11, <3>3, <4>1, <4>2
      <4>4. 0 \in Nat /\ 0 <= r /\ r - 0 <= MaxPacketSize
        <5>1. o = 0
          BY <3>1
        <5>2. QED
          BY <1>1, <2>0, <5>1
      <4>5. Quiet(NewTalk) /\ Same(f, p, str, r, 0, NewTalk)
        BY TalkIs DEF Quiet, Same
      <4>6. Served(f, str, r, x)
        BY <1>1, <4>1, <4>3, <4>4, <4>5, CutServes
      <4>7. QED
        BY <4>6 DEF x, r, chunk
    <3>4. CASE p = "" /\ Len(w) < DetectMinBytes
      <4>1. x = b
        BY <1>8, <1>9, <1>11, <2>2, <3>2, <3>4
      <4>2. x.buf = w /\ x.protocol = "" /\ x.talk = NewTalk /\ x.talk.end = ""
        BY <1>8, <2>2, <3>1, <4>1, TalkIs
      <4>3. Reached(f, str, r, x, 0)
        BY <1>4, <3>1, <4>2 DEF Reached
      <4>4. Len(w) <= MaxPacketSize
        BY <1>1, <1>3, <1>4, <2>0
      <4>5. Served(f, str, r, x)
        BY <1>1, <1>5, <4>2, <4>3, <4>4 DEF Served, Reasons
      <4>6. QED
        BY <4>5 DEF x, r, chunk
    <3>5. CASE p = "" /\ ~(Len(w) < DetectMinBytes)
      <4>1. known = Session(<<>>, "", Ended(s.talk, "unknown"))
        BY <3>2, <3>5
      <4>2. x = known
        <5>1. known.protocol = ""
          BY <4>1 DEF Session
        <5>2. QED
          BY <1>9, <1>11, <5>1
      <4>3. x.buf = <<>> /\ x.protocol = "" /\ x.talk.end = "unknown"
        <5>1. x.buf = <<>> /\ x.protocol = "" /\ x.talk = Ended(s.talk, "unknown")
          BY <4>1, <4>2 DEF Session
        <5>2. QED
          BY <5>1, TalkIs
      <4>4. Len(<<>>) <= MaxPacketSize + ReadChunk
        <5>1. 0 <= MaxPacketSize + ReadChunk
          BY <1>1
        <5>2. QED
          BY <5>1
      <4>5. Served(f, str, r, x)
        BY <4>3, <4>4 DEF Served, Reasons
      <4>6. QED
        BY <4>5 DEF x, r, chunk
    <3>6. QED
      BY <3>3, <3>4, <3>5
  <2>3. QED
    BY <2>1, <2>2
<1>12. QED
  BY <1>10, <1>11

-----------------------------------------------------------------------------
(* The behaviours.                                                           *)

Closed(s) ==
  /\ s.talk.end = "closed" /\ s.protocol \in {""} \cup Known
  /\ Len(s.buf) <= MaxPacketSize + ReadChunk

\* The inductive invariant: a session is served, or the device hung up.
WireInv ==
  /\ sent \in Sent /\ pos \in 0..Len(Stream) /\ fault \in Faults
  /\ Served(fault, Stream, pos, session) \/ Closed(session)

\* The stream is a sequence of bytes.
LEMMA StreamIs ==
  ASSUME sent \in Sent
  PROVE  Stream \in Seq(Byte) /\ Len(Stream) \in Nat
<1>1. Stream \in Seq(Byte)
  BY StreamsAssumption DEF Stream, Byte
<1>2. QED
  BY <1>1

\* A new connection satisfies the invariant.
LEMMA WireInitially == WireInit => WireInv
<1>1. SUFFICES ASSUME WireInit PROVE WireInv
  OBVIOUS
<1>2. sent \in Sent /\ pos = 0 /\ fault \in Faults /\ session = Session(<<>>, "", NewTalk)
  BY <1>1 DEF WireInit
<1>3. Stream \in Seq(Byte) /\ Len(Stream) \in Nat
  BY <1>2, StreamIs
<1>4. 0 \in 0..Len(Stream) /\ 0 \in 0..0 /\ 0 <= MaxPacketSize /\ 0 <= MaxPacketSize + ReadChunk
  BY <1>3, SizesAre
<1>5. W(Stream, 0, 0) = <<>>
  <2>1. 0 \in Nat /\ 0 <= 0 /\ 0 <= Len(Stream)
    BY <1>3
  <2>2. QED
    BY <1>3, <2>1, WindowIs
<1> DEFINE s == Session(<<>>, "", NewTalk)
<1>6. s.buf = <<>> /\ s.protocol = "" /\ s.talk = NewTalk
  BY DEF Session
<1>7. s.talk.end = ""
  BY <1>6, TalkIs
<1>8. Len(s.buf) <= MaxPacketSize /\ Len(s.buf) <= MaxPacketSize + ReadChunk
  BY <1>4, <1>6
<1> HIDE DEF s
<1>9. Reached(fault, Stream, 0, s, 0)
  BY <1>5, <1>6 DEF Reached
<1>10. Served(fault, Stream, 0, s)
  BY <1>4, <1>6, <1>7, <1>8, <1>9 DEF Served, Reasons
<1>11. QED
  BY <1>2, <1>4, <1>10 DEF WireInv, s

\* A read and a hang-up keep it.
LEMMA WireStep == WireInv /\ [WireNext]_wireVars => WireInv'
<1> SUFFICES ASSUME WireInv, [WireNext]_wireVars PROVE WireInv'
  OBVIOUS
<1>0. /\ sent \in Sent /\ pos \in 0..Len(Stream) /\ fault \in Faults
      /\ Served(fault, Stream, pos, session) \/ Closed(session)
  BY DEF WireInv
<1>1. Stream \in Seq(Byte) /\ Len(Stream) \in Nat /\ pos \in Nat /\ pos <= Len(Stream)
  BY <1>0, StreamIs
<1>2. ASSUME Read PROVE WireInv'
  <2>1. session.talk.end = "" /\ sent' = sent /\ fault' = fault /\ Stream' = Stream
    BY <1>2 DEF Read, Stream
  <2>2. PICK n \in 1..ReadChunk :
          /\ pos + n <= Len(Stream)
          /\ pos' = pos + n
          /\ session' = Received(fault, session, W(Stream, pos, pos + n))
    BY <1>2 DEF Read, W
  <2>3. Served(fault, Stream, pos, session) /\ Open(session)
    <3>1. ~ Closed(session)
      BY <2>1 DEF Closed
    <3>2. QED
      BY <1>0, <2>1, <3>1 DEF Open, Quiet
  <2>4. Served(fault, Stream, pos + n, Received(fault, session, W(Stream, pos, pos + n)))
    BY <1>1, <2>2, <2>3, ReceivedServes
  <2>5. Served(fault', Stream', pos', session')
    BY <2>1, <2>2, <2>4
  <2>6. pos' \in 0..Len(Stream')
    <3>1. pos + n \in 0..Len(Stream)
      BY <1>1, <2>2, SizesAre
    <3>2. QED
      BY <2>1, <2>2, <3>1
  <2>7. QED
    BY <1>0, <2>1, <2>5, <2>6 DEF WireInv
<1>3. ASSUME HangUp PROVE WireInv'
  <2>1. /\ session.talk.end = "" /\ UNCHANGED <<sent, pos, fault>> /\ Stream' = Stream
        /\ session' = Session(session.buf, session.protocol, Ended(session.talk, "closed"))
    BY <1>3 DEF HangUp, Stream
  <2>2. Len(session.buf) <= MaxPacketSize + ReadChunk /\ session.protocol \in {""} \cup Known
    BY <1>0 DEF Served, Closed
  <2>3. /\ session'.buf = session.buf /\ session'.protocol = session.protocol
        /\ session'.talk = Ended(session.talk, "closed")
    BY <2>1 DEF Session
  <2>4. session'.talk.end = "closed"
    BY <2>3, TalkIs
  <2>5. Closed(session')
    BY <2>2, <2>3, <2>4 DEF Closed
  <2>6. QED
    BY <1>0, <2>1, <2>5 DEF WireInv
<1>4. ASSUME UNCHANGED wireVars PROVE WireInv'
  <2>1. UNCHANGED <<sent, pos, fault, session>> /\ Stream' = Stream
    BY <1>4 DEF wireVars, Stream
  <2>2. QED
    BY <1>0, <2>1 DEF WireInv
<1>5. QED
  BY <1>2, <1>3, <1>4 DEF WireNext

\* The session that reads a connection keeps its types and its bounds, and none
\* of the framers fails to advance, whatever bytes arrive and however they are
\* cut into reads (session.run and NextFrame).
THEOREM WireTypeCorrect == WireSpec => []WireTypeOK
<1>1. WireInv => WireTypeOK
  <2>1. SUFFICES ASSUME WireInv PROVE WireTypeOK
    OBVIOUS
  <2>2. /\ sent \in Sent /\ pos \in 0..Len(Stream) /\ fault \in Faults
        /\ Served(fault, Stream, pos, session) \/ Closed(session)
    BY <2>1 DEF WireInv
  <2>3. session.protocol \in {""} \cup Range(Registry)
        /\ Len(session.buf) <= MaxPacketSize + ReadChunk
    BY <2>2, RegistryIs DEF Served, Closed
  <2>4. session.talk.end \in {"", "unknown", "oversized", "send", "reject", "closed"}
    BY <2>2 DEF Served, Closed, Reasons
  <2>5. QED
    BY <2>2, <2>3, <2>4 DEF WireTypeOK
<1>2. QED
  BY <1>1, WireInitially, WireStep, PTL DEF WireSpec

\* A read is not a packet: for every stream, every cut of it into reads, every
\* fault and every parser, what an open session handled, acknowledged and kept
\* is what one single read of the same bytes would have given (session.process).
THEOREM CutsDoNotMatterHolds == WireSpec => []CutsDoNotMatter
<1>1. WireInv => CutsDoNotMatter
  <2>1. SUFFICES ASSUME WireInv, session.protocol # "", session.talk.end = "",
                        Fits(session.protocol, Stream)
                 PROVE  session = cutFrames(fault,
                                    Session(SubSeq(Stream, 1, pos), session.protocol, NewTalk))
    BY DEF CutsDoNotMatter
  <2>2. Served(fault, Stream, pos, session)
    <3>1. ~ Closed(session)
      BY <2>1 DEF Closed
    <3>2. QED
      BY <2>1, <3>1 DEF WireInv
  <2>3. session = cutFrames(fault, Session(W(Stream, 0, pos), session.protocol, NewTalk))
    BY <2>1, <2>2 DEF Served
  <2>4. W(Stream, 0, pos) = SubSeq(Stream, 1, pos)
    BY DEF W
  <2>5. QED
    BY <2>3, <2>4
<1>2. QED
  BY <1>1, WireInitially, WireStep, PTL DEF WireSpec
=============================================================================
