----------------------------- MODULE HubProofs ------------------------------
(***************************************************************************)
(* What the event channel guarantees for any number of instances, panels,  *)
(* publishers, bridges and messages and any capacity of a channel: no      *)
(* broadcast meets a closed channel, and a panel is sent a message once.   *)
(*                                                                         *)
(* The second needs to know where a message can be.  It is with its        *)
(* publisher, then with the goroutine of forward, then in the feeds, then  *)
(* with one bridge of each instance: MessageInv says that it is at one     *)
(* stage at a time, and that no panel has it before its own stage.         *)
(***************************************************************************)
EXTENDS Hub, SequenceTheorems, TLAPS

-----------------------------------------------------------------------------
\* A client in the map has an open channel, and a broadcast under way, which
\* holds the read lock, offers its message only to clients in the map.
ClientsInv ==
  /\ \A c \in Clients : c \in clients[Home[c]] => ~ channel[c].closed /\ conn[c] # "none"
  /\ \A c \in Clients : channel[c].closed => conn[c] # "none"
  /\ \A s \in Senders : \A c \in busy[s].todo \cup busy[s].stale : Home[c] = Home[s]
  /\ \A s \in Senders : busy[s].at = "sending" => busy[s].todo \subseteq clients[Home[s]]
  /\ \A i \in Instances : \A c \in clients[i] : Home[c] = i
  /\ ~ panic

-----------------------------------------------------------------------------
\* What a panel was sent or has waiting, in order.
Join(g, ch) == g \o ch.holds
Held(c) == Join(got[c], channel[c])

In(m, s) == \E k \in 1..Len(s) : s[k] = m
Ordered(s, i) == \A j, k \in 1..Len(s) :
  j < k => s[j] # s[k] /\ (s[j].from = s[k].from /\ Origin(s[j]) = i => s[j].n < s[k].n)
Distinct(s) == \A i, j \in 1..Len(s) : i < j => s[i] # s[j]

Active(s) == busy[s].at # "idle"
Known(m, pub) == m.n <= pub[m.from]

\* Nothing is under way that was not published.
KnownInv ==
  /\ \A c \in Clients : \A x \in Message : In(x, Held(c)) => Known(x, published)
  /\ \A m \in going : Known(m, published)
  /\ \A i \in Instances : \A x \in Message : In(x, feed[i]) => Known(x, published)
  /\ \A s \in Senders : Active(s) => busy[s].msg \in Message /\ Known(busy[s].msg, published)
  /\ \A p \in Publishers : Active(p) => busy[p].msg = [from |-> p, n |-> published[p]]

\* A message its publisher still broadcasts is nowhere but at its instance.
PublisherInv ==
  \A p \in Publishers : Active(p) =>
    /\ busy[p].msg \notin going
    /\ \A i \in Instances : ~ In(busy[p].msg, feed[i])
    /\ \A b \in Bridges : Active(b) => busy[b].msg # busy[p].msg
    /\ \A c \in Clients : Home[c] # Home[p] => ~ In(busy[p].msg, Held(c))

\* A message on its way to Redis is in no feed and at no other instance.
GoingInv ==
  \A m \in going :
    /\ \A i \in Instances : ~ In(m, feed[i])
    /\ \A b \in Bridges : Active(b) => busy[b].msg # m
    /\ \A c \in Clients : Home[c] # Origin(m) => ~ In(m, Held(c))

\* A message is once in the feed of an instance, and before its bridge takes it.
FeedInv ==
  \A i \in Instances :
    /\ Distinct(feed[i])
    /\ \A b \in Bridges : Active(b) /\ Home[b] = i => ~ In(busy[b].msg, feed[i])
    /\ \A c \in Clients : Home[c] = i =>
         \A x \in Message : In(x, feed[i]) /\ Origin(x) # i => ~ In(x, Held(c))

\* A bridge broadcasts messages of other instances, each of them once.
BridgeInv ==
  /\ \A b \in Bridges : Active(b) => Origin(busy[b].msg) # Home[b]
  /\ \A a, b \in Bridges : a # b /\ Active(a) /\ Active(b) /\ Home[a] = Home[b] => busy[a].msg # busy[b].msg

\* A client a broadcast has yet to serve does not have the message, and has
\* only earlier ones of that publisher.
TodoInv ==
  \A s \in Senders : busy[s].at = "sending" =>
    \A c \in busy[s].todo :
      /\ ~ In(busy[s].msg, Held(c))
      /\ s \in Publishers => \A x \in Message : In(x, Held(c)) /\ x.from = s => x.n < busy[s].msg.n

\* OnceAndInOrder, of what a panel has.
OrderInv == \A c \in Clients : Ordered(Held(c), Home[c])

MessageInv == KnownInv /\ PublisherInv /\ GoingInv /\ FeedInv /\ BridgeInv /\ TodoInv /\ OrderInv
HubInv == TypeOK /\ ClientsInv /\ MessageInv

-----------------------------------------------------------------------------
\* What a message is.
LEMMA MessageType ==
  /\ \A m \in Message : m \in [from : Publishers, n : Nat] /\ m.n >= 1 /\ m.n <= Quota[m.from]
  /\ \A p \in Publishers : \A k \in Nat : 1 <= k /\ k <= Quota[p] => [from |-> p, n |-> k] \in Message
<1> USE HubAssumption
<1>1. ASSUME NEW m \in Message PROVE m \in [from : Publishers, n : Nat] /\ m.n >= 1 /\ m.n <= Quota[m.from]
  <2>1. PICK p \in Publishers : m \in [from : {p}, n : 1..Quota[p]]
    BY <1>1 DEF Message
  <2>2. Quota[p] \in Nat
    OBVIOUS
  <2>3. QED
    BY <2>1, <2>2
<1>2. ASSUME NEW p \in Publishers, NEW k \in Nat, 1 <= k, k <= Quota[p] PROVE [from |-> p, n |-> k] \in Message
  <2>1. [from |-> p, n |-> k] \in [from : {p}, n : 1..Quota[p]]
    BY <1>2
  <2>2. QED
    BY <2>1 DEF Message
<1>3. QED
  BY <1>1, <1>2

\* What a sequence contains after an Append and after a Tail.
LEMMA AppendIn ==
  ASSUME NEW S, NEW s \in Seq(S), NEW x \in S, NEW m
  PROVE  In(m, Append(s, x)) <=> In(m, s) \/ m = x
<1>1. Len(Append(s, x)) = Len(s) + 1 /\ Len(s) \in Nat
  OBVIOUS
<1>2. \A k \in 1..Len(s) : Append(s, x)[k] = s[k]
  OBVIOUS
<1>3. Append(s, x)[Len(s) + 1] = x
  OBVIOUS
<1>4. QED
  BY <1>1, <1>2, <1>3 DEF In

\* The tail holds nothing new.
LEMMA TailIn ==
  ASSUME NEW S, NEW s \in Seq(S), s # <<>>, NEW m
  PROVE  /\ In(m, Tail(s)) => In(m, s)
         /\ In(Head(s), s)
         /\ Distinct(s) => Distinct(Tail(s)) /\ ~ In(Head(s), Tail(s))
<1>1. Len(s) \in Nat \ {0} /\ Len(Tail(s)) = Len(s) - 1 /\ Head(s) = s[1]
  BY EmptySeq
<1>2. \A k \in 1..Len(Tail(s)) : Tail(s)[k] = s[k + 1]
  BY <1>1
<1>3. In(m, Tail(s)) => In(m, s)
  BY <1>1, <1>2 DEF In
<1>4. In(Head(s), s)
  BY <1>1 DEF In
<1>5. Distinct(s) => Distinct(Tail(s))
  BY <1>1, <1>2 DEF Distinct
<1>6. Distinct(s) => ~ In(Head(s), Tail(s))
  BY <1>1, <1>2 DEF Distinct, In
<1>7. QED
  BY <1>3, <1>4, <1>5, <1>6

\* Appending what is not there keeps the elements distinct.
LEMMA AppendDistinct ==
  ASSUME NEW S, NEW s \in Seq(S), NEW x \in S, Distinct(s), ~ In(x, s)
  PROVE  Distinct(Append(s, x))
<1>1. Len(Append(s, x)) = Len(s) + 1 /\ Len(s) \in Nat
  OBVIOUS
<1>2. \A k \in 1..Len(s) : Append(s, x)[k] = s[k]
  OBVIOUS
<1>3. Append(s, x)[Len(s) + 1] = x
  OBVIOUS
<1>4. QED
  BY <1>1, <1>2, <1>3 DEF In, Distinct

\* Order is kept by a last message that is new and not behind its publisher.
LEMMA AppendOrdered ==
  ASSUME NEW s \in Seq(Message), NEW i, NEW x \in Message, Ordered(s, i), ~ In(x, s),
         Origin(x) = i => \A y \in Message : In(y, s) /\ y.from = x.from => y.n < x.n
  PROVE  Ordered(Append(s, x), i)
<1>1. Len(Append(s, x)) = Len(s) + 1 /\ Len(s) \in Nat
  OBVIOUS
<1>2. \A k \in 1..Len(s) : Append(s, x)[k] = s[k]
  OBVIOUS
<1>3. Append(s, x)[Len(s) + 1] = x
  OBVIOUS
<1>4. \A k \in 1..Len(s) : s[k] \in Message /\ In(s[k], s)
  BY ElementOfSeq DEF In
<1>5. \A k \in 1..Len(s) : s[k] # x
  BY DEF In
<1>6. SUFFICES ASSUME NEW j \in 1..(Len(s) + 1), NEW k \in 1..(Len(s) + 1), j < k
              PROVE  /\ Append(s, x)[j] # Append(s, x)[k]
                     /\ Append(s, x)[j].from = Append(s, x)[k].from /\ Origin(Append(s, x)[j]) = i =>
                          Append(s, x)[j].n < Append(s, x)[k].n
  BY <1>1 DEF Ordered
<1>7. j \in 1..Len(s)
  BY <1>1, <1>6
<1>8. CASE k \in 1..Len(s)
  BY <1>2, <1>6, <1>7, <1>8 DEF Ordered
<1>9. CASE k = Len(s) + 1
  <2>1. s[j].from = x.from /\ Origin(s[j]) = i => Origin(x) = i
    BY DEF Origin
  <2>2. QED
    BY <1>2, <1>3, <1>4, <1>5, <1>7, <1>9, <2>1
<1>10. QED
  BY <1>1, <1>6, <1>8, <1>9

\* Writing the first message of the channel leaves what the panel has of it
\* together; a message put in the channel comes last.
LEMMA WriteKeeps ==
  ASSUME NEW S, NEW g \in Seq(S), NEW h \in Seq(S), h # <<>>
  PROVE  Append(g, Head(h)) \o Tail(h) = g \o h
<1>1. Len(h) \in Nat \ {0} /\ Head(h) = h[1] /\ Len(Tail(h)) = Len(h) - 1 /\ Len(g) \in Nat
  BY EmptySeq
<1> DEFINE a == Append(g, Head(h))
<1>2. a \in Seq(S) /\ Tail(h) \in Seq(S) /\ Len(a) = Len(g) + 1
  BY <1>1, HeadTailProperties, AppendProperties
<1>3. Len(a \o Tail(h)) = Len(g \o h) /\ Len(g \o h) = Len(g) + Len(h)
  BY <1>1, <1>2
<1>4. ASSUME NEW k \in 1..Len(g \o h) PROVE (a \o Tail(h))[k] = (g \o h)[k]
  <2> HIDE DEF a
  <2>1. (a \o Tail(h))[k] = IF k <= Len(a) THEN a[k] ELSE Tail(h)[k - Len(a)]
    BY <1>1, <1>2, <1>3, ConcatProperties
  <2>2. (g \o h)[k] = IF k <= Len(g) THEN g[k] ELSE h[k - Len(g)]
    BY <1>1, <1>3, ConcatProperties
  <2>3. \A j \in 1..Len(Tail(h)) : Tail(h)[j] = h[j + 1]
    BY <1>1
  <2>4. (\A j \in 1..Len(g) : a[j] = g[j]) /\ a[Len(g) + 1] = h[1]
    BY <1>1 DEF a
  <2>5. QED
    BY <1>1, <1>2, <1>3, <2>1, <2>2, <2>3, <2>4
<1>5. a \o Tail(h) \in Seq(S) /\ g \o h \in Seq(S)
  BY <1>2, ConcatProperties
<1>6. QED
  BY <1>3, <1>4, <1>5, SeqEqual

\* A message queued last is also the last of what a client gets in all.
LEMMA SendAppends == \A g, h \in Seq(Message) : \A x \in Message : g \o Append(h, x) = Append(g \o h, x)
<1> TAKE g, h \in Seq(Message)
<1> TAKE x \in Message
<1>1. Append(h, x) = h \o <<x>> /\ <<x>> \in Seq(Message)
  BY AppendIsConcat
<1>2. g \o h \in Seq(Message)
  BY ConcatProperties
<1>3. Append(g \o h, x) = (g \o h) \o <<x>>
  BY <1>2, AppendIsConcat
<1>4. QED
  BY <1>1, <1>3, ConcatAssociative

-----------------------------------------------------------------------------
Channel == [holds : Seq(Message), closed : BOOLEAN]
Broadcast == [at : {"idle", "sending", "removing"}, msg : Message \cup {NoMsg},
              todo : SUBSET Clients, stale : SUBSET Clients]

\* What remove changes: the client leaves the map and, if it was there, its
\* channel is closed; nothing in the channel is touched.
LEMMA RemoveEffect ==
  ASSUME TypeOK, NEW c \in Clients, remove(c)
  PROVE  /\ clients' \in [Instances -> SUBSET Clients]
         /\ clients'[Home[c]] = clients[Home[c]] \ {c}
         /\ \A i \in Instances : i # Home[c] => clients'[i] = clients[i]
         /\ channel' \in [Clients -> Channel]
         /\ \A d \in Clients : channel'[d].holds = channel[d].holds
         /\ \A d \in Clients : d # c => channel'[d].closed = channel[d].closed
         /\ channel'[c].closed <=> channel[c].closed \/ c \in clients[Home[c]]
         /\ panic' \in BOOLEAN
         /\ panic' <=> panic \/ (channel[c].closed /\ c \in clients[Home[c]])
<1> USE HubAssumption
<1> DEFINE v == channel[c].closed \/ c \in clients[Home[c]]
<1>1. channel' = [channel EXCEPT ![c] = [channel[c] EXCEPT !.closed = v]]
  BY DEF remove
<1>2. channel \in [Clients -> Channel] /\ v \in BOOLEAN /\ channel[c] \in Channel
  BY DEF TypeOK, Channel
<1> HIDE DEF v
<1>3. [channel[c] EXCEPT !.closed = v] \in Channel
  BY <1>2 DEF Channel
<1>4. channel' \in [Clients -> Channel] /\ channel'[c] = [channel[c] EXCEPT !.closed = v]
      /\ \A d \in Clients : d # c => channel'[d] = channel[d]
  BY <1>1, <1>2, <1>3
<1>5. channel'[c].closed = v /\ channel'[c].holds = channel[c].holds
  BY <1>2, <1>4 DEF Channel
<1>6. channel'[c].closed <=> channel[c].closed \/ c \in clients[Home[c]]
  BY <1>5 DEF v
<1>7. clients' \in [Instances -> SUBSET Clients]
      /\ clients'[Home[c]] = clients[Home[c]] \ {c}
      /\ \A i \in Instances : i # Home[c] => clients'[i] = clients[i]
  BY DEF TypeOK, remove
<1>8. panic' \in BOOLEAN /\ (panic' <=> panic \/ (channel[c].closed /\ c \in clients[Home[c]]))
  BY DEF remove
<1>9. QED
  BY <1>4, <1>5, <1>6, <1>7, <1>8

\* What one turn of the loop of broadcast changes: a client is served or is
\* found to have no room.
LEMMA SendEffect ==
  ASSUME TypeOK, KnownInv, NEW s \in Senders, Send(s)
  PROVE  \E c \in busy[s].todo :
           /\ c \in Clients
           /\ busy' \in [Senders -> Broadcast]
           /\ \A t \in Senders : t # s => busy'[t] = busy[t]
           /\ busy'[s].at = busy[s].at /\ busy'[s].msg = busy[s].msg
           /\ busy'[s].todo = busy[s].todo \ {c} /\ busy'[s].stale \subseteq busy[s].stale \cup {c}
           /\ channel' \in [Clients -> Channel]
           /\ \A d \in Clients : d # c => channel'[d] = channel[d]
           /\ channel'[c].closed = channel[c].closed
           /\ \/ channel'[c].holds = channel[c].holds
              \/ Len(channel[c].holds) < SendBuffer /\ channel'[c].holds = Append(channel[c].holds, busy[s].msg)
           /\ lost' \subseteq Clients
           /\ panic' \in BOOLEAN /\ (panic' <=> panic \/ channel[c].closed)
<1> USE HubAssumption
<1>1. PICK c \in busy[s].todo : SendOrSkip(s, c) /\ panic' = (panic \/ channel[c].closed)
  BY DEF Send
<1>2. channel \in [Clients -> Channel] /\ busy \in [Senders -> Broadcast]
  BY DEF TypeOK, Channel, Broadcast
<1>3. c \in Clients
  BY <1>1, <1>2 DEF Broadcast
<1>4. busy[s].msg \in Message
  BY DEF Send, KnownInv, Active
<1> DEFINE st == IF Len(channel[c].holds) < SendBuffer THEN busy[s].stale ELSE busy[s].stale \cup {c}
           b1 == [busy EXCEPT ![s] = [busy[s] EXCEPT !.todo = busy[s].todo \ {c}]]
<1>5. b1 \in [Senders -> Broadcast] /\ b1[s] = [busy[s] EXCEPT !.todo = busy[s].todo \ {c}]
      /\ \A t \in Senders : t # s => b1[t] = busy[t]
  <2>1. busy[s] \in Broadcast
    BY <1>2
  <2>2. [busy[s] EXCEPT !.todo = busy[s].todo \ {c}] \in Broadcast
    BY <2>1 DEF Broadcast
  <2>3. QED
    BY <1>2, <2>2
<1>6. st \subseteq busy[s].stale \cup {c} /\ st \subseteq Clients
  BY <1>2, <1>3 DEF Broadcast
<1> DEFINE nb == [b1[s] EXCEPT !.stale = st]
<1>7. busy' \in [Senders -> Broadcast] /\ busy'[s] = nb /\ \A t \in Senders : t # s => busy'[t] = busy[t]
  <2>1. busy[s] \in Broadcast /\ b1[s] \in Broadcast
    BY <1>2, <1>5
  <2>2. b1[s].stale = busy[s].stale
    BY <1>5, <2>1 DEF Broadcast
  <2>3. busy' = [b1 EXCEPT ![s] = [b1[s] EXCEPT !.stale = IF Len(channel[c].holds) < SendBuffer THEN @ ELSE @ \cup {c}]]
    BY <1>1 DEF SendOrSkip
  <2> HIDE DEF b1
  <2>4. busy' = [b1 EXCEPT ![s] = nb]
    BY <2>2, <2>3
  <2>5. nb \in Broadcast
    BY <1>6, <2>1 DEF Broadcast
  <2> HIDE DEF nb
  <2>6. QED
    BY <1>5, <2>4, <2>5
<1>8. /\ channel' \in [Clients -> Channel]
      /\ \A d \in Clients : d # c => channel'[d] = channel[d]
      /\ channel'[c].closed = channel[c].closed
      /\ \/ channel'[c].holds = channel[c].holds
         \/ Len(channel[c].holds) < SendBuffer /\ channel'[c].holds = Append(channel[c].holds, busy[s].msg)
  <2>1. CASE channel' = channel
    BY <1>2, <2>1
  <2>2. CASE /\ Len(channel[c].holds) < SendBuffer
             /\ channel' = [channel EXCEPT ![c].holds = Append(@, busy[s].msg)]
    <3> DEFINE h == Append(channel[c].holds, busy[s].msg)
    <3>1. h \in Seq(Message)
      BY <1>2, <1>3, <1>4 DEF Channel
    <3> HIDE DEF h
    <3>2. channel' = [channel EXCEPT ![c] = [channel[c] EXCEPT !.holds = h]]
      BY <2>2 DEF h
    <3>3. [channel[c] EXCEPT !.holds = h] \in Channel
      BY <1>2, <1>3, <3>1 DEF Channel
    <3>4. channel' \in [Clients -> Channel] /\ channel'[c] = [channel[c] EXCEPT !.holds = h]
          /\ \A d \in Clients : d # c => channel'[d] = channel[d]
      BY <1>2, <1>3, <3>2, <3>3
    <3>5. channel'[c].closed = channel[c].closed /\ channel'[c].holds = h
      BY <1>2, <1>3, <3>4 DEF Channel
    <3>6. QED
      BY <2>2, <3>4, <3>5 DEF h
  <2>3. QED
    BY <1>1, <2>1, <2>2 DEF SendOrSkip
<1>9. lost' \subseteq Clients
  BY <1>1, <1>3 DEF SendOrSkip, TypeOK
<1>10. panic' \in BOOLEAN /\ (panic' <=> panic \/ channel[c].closed)
  BY <1>1
<1>11. nb.at = busy[s].at /\ nb.msg = busy[s].msg /\ nb.todo = busy[s].todo \ {c} /\ nb.stale = st
  <2>1. busy[s] \in Broadcast
    BY <1>2
  <2>2. QED
    BY <1>5, <2>1 DEF Broadcast
<1> HIDE DEF nb
<1>12. QED
  BY <1>3, <1>6, <1>7, <1>8, <1>9, <1>10, <1>11

\* What a write to the socket changes.
LEMMA WriteEffect ==
  ASSUME TypeOK, NEW c \in Clients, Write(c)
  PROVE  /\ channel[c].holds \in Seq(Message) /\ channel[c].holds # <<>>
         /\ channel' \in [Clients -> Channel]
         /\ \A d \in Clients : d # c => channel'[d] = channel[d]
         /\ channel'[c].closed = channel[c].closed /\ channel'[c].holds = Tail(channel[c].holds)
         /\ got' \in [Clients -> Seq(Message)]
         /\ \A d \in Clients : d # c => got'[d] = got[d]
         /\ got'[c] = Append(got[c], Head(channel[c].holds))
<1>1. channel \in [Clients -> Channel] /\ got \in [Clients -> Seq(Message)]
  BY DEF TypeOK, Channel
<1>2. channel[c].holds \in Seq(Message) /\ channel[c].holds # <<>>
  BY <1>1 DEF Write, Channel
<1> DEFINE h == Tail(channel[c].holds)
           g == Append(got[c], Head(channel[c].holds))
<1>3. h \in Seq(Message) /\ g \in Seq(Message)
  BY <1>1, <1>2, HeadTailProperties, AppendProperties
<1>4. channel' = [channel EXCEPT ![c] = [channel[c] EXCEPT !.holds = h]] /\ got' = [got EXCEPT ![c] = g]
  BY DEF Write
<1> HIDE DEF h, g
<1>5. [channel[c] EXCEPT !.holds = h] \in Channel
  BY <1>1, <1>3 DEF Channel
<1>6. channel' \in [Clients -> Channel] /\ channel'[c] = [channel[c] EXCEPT !.holds = h]
      /\ \A d \in Clients : d # c => channel'[d] = channel[d]
  BY <1>1, <1>4, <1>5
<1>7. channel'[c].closed = channel[c].closed /\ channel'[c].holds = h
  BY <1>1, <1>6 DEF Channel
<1>8. got' \in [Clients -> Seq(Message)] /\ got'[c] = g /\ \A d \in Clients : d # c => got'[d] = got[d]
  BY <1>1, <1>3, <1>4
<1>9. QED
  BY <1>2, <1>6, <1>7, <1>8 DEF h, g

\* What a bridge does with the first message of its feed.
LEMMA DeliverEffect ==
  ASSUME TypeOK, NEW b \in Bridges, Deliver(b)
  PROVE  LET i == Home[b] m == Head(feed[i]) IN
         /\ feed[i] # <<>> /\ feed[i] \in Seq(Message) /\ m \in Message
         /\ feed' \in [Instances -> Seq(Message)]
         /\ feed'[i] = Tail(feed[i])
         /\ \A j \in Instances : j # i => feed'[j] = feed[j]
         /\ busy[b].at = "idle"
         /\ \/ busy' = busy
            \/ /\ Origin(m) # i
               /\ busy' \in [Senders -> Broadcast]
               /\ \A t \in Senders : t # b => busy'[t] = busy[t]
               /\ busy'[b].at = "sending" /\ busy'[b].msg = m
               /\ busy'[b].todo = clients[i] /\ busy'[b].stale = {}
<1> USE HubAssumption
<1> DEFINE i == Home[b]
           m == Head(feed[i])
           nb == [at |-> "sending", msg |-> m, todo |-> clients[i], stale |-> {}]
<1>1. i \in Instances /\ b \in Senders
  BY DEF Senders
<1>2. feed[i] # <<>> /\ feed[i] \in Seq(Message) /\ busy[b].at = "idle"
  BY <1>1 DEF Deliver, TypeOK, Idle
<1>3. m \in Message /\ Tail(feed[i]) \in Seq(Message)
  BY <1>2, HeadTailProperties
<1>4. feed' = [feed EXCEPT ![i] = Tail(feed[i])]
  BY DEF Deliver
<1>5. /\ feed' \in [Instances -> Seq(Message)] /\ feed'[i] = Tail(feed[i])
      /\ \A j \in Instances : j # i => feed'[j] = feed[j]
  BY <1>1, <1>3, <1>4 DEF TypeOK
<1>6. busy \in [Senders -> Broadcast] /\ nb \in Broadcast
  BY <1>1, <1>3 DEF TypeOK, Broadcast
<1>7. busy' = busy \/ (Origin(m) # i /\ busy' = [busy EXCEPT ![b] = nb])
  BY DEF Deliver, StartBroadcast, Drops
<1>8. nb.at = "sending" /\ nb.msg = m /\ nb.todo = clients[i] /\ nb.stale = {}
  OBVIOUS
<1> HIDE DEF nb, m, i
<1>9. QED
  BY <1>1, <1>2, <1>3, <1>5, <1>6, <1>7, <1>8 DEF m, i

-----------------------------------------------------------------------------
\* Type correctness of one step.
LEMMA TypeStep == TypeOK /\ KnownInv /\ [Next]_vars => TypeOK'
<1> SUFFICES ASSUME TypeOK, KnownInv, [Next]_vars PROVE TypeOK'
  OBVIOUS
<1> USE HubAssumption
<1>0. /\ channel \in [Clients -> Channel] /\ busy \in [Senders -> Broadcast]
      /\ \A d \in Clients : Len(channel[d].holds) <= SendBuffer
      /\ feed \in [Instances -> Seq(Message)]
  BY DEF TypeOK, Channel, Broadcast
<1>1. ASSUME NEW c \in Clients, ServeHTTP(c) PROVE TypeOK'
  BY <1>1 DEF TypeOK, ServeHTTP
<1>2. ASSUME NEW c \in Clients, Leave(c) PROVE TypeOK'
  BY <1>2 DEF TypeOK, Leave
<1>3. ASSUME NEW c \in Clients, readPump(c) PROVE TypeOK'
  <2>1. remove(c)
    BY <1>3 DEF readPump
  <2>2. channel' \in [Clients -> [holds : Seq(Message), closed : BOOLEAN]]
    BY <2>1, RemoveEffect DEF Channel
  <2>3. \A d \in Clients : Len(channel'[d].holds) <= SendBuffer
    BY <1>0, <2>1, RemoveEffect
  <2>4. clients' \in [Instances -> SUBSET Clients] /\ panic' \in BOOLEAN
    BY <1>0, <2>1, RemoveEffect
  <2>5. QED
    BY <1>3, <2>2, <2>3, <2>4 DEF TypeOK, readPump
<1>4. ASSUME NEW c \in Clients, Write(c) PROVE TypeOK'
  <2>1. channel' \in [Clients -> [holds : Seq(Message), closed : BOOLEAN]] /\ got' \in [Clients -> Seq(Message)]
    BY <1>4, WriteEffect DEF Channel
  <2>2. channel[c].holds \in Seq(Message) /\ channel[c].holds # <<>> /\ Len(channel[c].holds) <= SendBuffer
    BY <1>0, <1>4, WriteEffect
  <2>3. Len(Tail(channel[c].holds)) <= SendBuffer
    BY <2>2, EmptySeq
  <2>4. \A d \in Clients : Len(channel'[d].holds) <= SendBuffer
    <3>1. channel'[c].holds = Tail(channel[c].holds) /\ \A d \in Clients : d # c => channel'[d] = channel[d]
      BY <1>4, WriteEffect
    <3>2. QED
      BY <1>0, <2>3, <3>1
  <2>5. QED
    BY <1>4, <2>1, <2>4 DEF TypeOK, Write
<1>5. ASSUME NEW c \in Clients, WriteEnds(c) PROVE TypeOK'
  BY <1>5 DEF TypeOK, WriteEnds
<1>6. ASSUME NEW p \in Publishers, PublishFor(p) PROVE TypeOK'
  BY <1>6, MessageType DEF TypeOK, PublishFor, StartBroadcast, Senders
<1>7. ASSUME NEW b \in Bridges, Deliver(b) PROVE TypeOK'
  <2>1. feed' \in [Instances -> Seq(Message)] /\ busy' \in [Senders -> Broadcast]
    BY <1>0, <1>7, DeliverEffect
  <2>2. QED
    BY <1>7, <2>1 DEF TypeOK, Deliver, Broadcast
<1>8. ASSUME NEW s \in Senders, Send(s) PROVE TypeOK'
  <2>1. busy' \in [Senders -> Broadcast] /\ channel' \in [Clients -> Channel]
        /\ lost' \subseteq Clients /\ panic' \in BOOLEAN
    BY <1>8, SendEffect
  <2>2. \A d \in Clients : Len(channel'[d].holds) <= SendBuffer
    <3>1. \A d \in Clients : Len(channel[d].holds) \in Nat
      BY <1>0, LenProperties DEF Channel
    <3>2. busy[s].msg \in Message
      BY <1>8 DEF Send, KnownInv, Active
    <3>3. \A d \in Clients : Len(Append(channel[d].holds, busy[s].msg)) = Len(channel[d].holds) + 1
      BY <1>0, <3>2, AppendProperties DEF Channel
    <3>4. \A d \in Clients : \/ channel'[d].holds = channel[d].holds
                             \/ /\ Len(channel[d].holds) < SendBuffer
                                /\ channel'[d].holds = Append(channel[d].holds, busy[s].msg)
      BY <1>8, SendEffect
    <3>5. QED
      BY <1>0, <3>1, <3>3, <3>4
  <2>3. QED
    BY <1>8, <2>1, <2>2 DEF TypeOK, Send, Channel, Broadcast
<1>9. ASSUME NEW s \in Senders, Sent(s) PROVE TypeOK'
  <2>1. busy' = [busy EXCEPT ![s] = [busy[s] EXCEPT !.at = "removing"]]
    BY <1>9 DEF Sent
  <2>2. [busy[s] EXCEPT !.at = "removing"] \in Broadcast
    <3>1. busy[s] \in Broadcast
      BY <1>0
    <3>2. QED
      BY <3>1 DEF Broadcast
  <2>3. busy' \in [Senders -> Broadcast]
    BY <1>0, <2>1, <2>2
  <2>4. QED
    BY <1>9, <2>3 DEF TypeOK, Sent, Broadcast
<1>10. ASSUME NEW s \in Senders, RemoveStale(s) PROVE TypeOK'
  <2>1. PICK c \in busy[s].stale : remove(c) /\ busy' = [busy EXCEPT ![s].stale = @ \ {c}]
    BY <1>10 DEF RemoveStale
  <2>2. c \in Clients
    BY <1>0, <2>1 DEF Broadcast
  <2>3. channel' \in [Clients -> [holds : Seq(Message), closed : BOOLEAN]]
    BY <2>1, <2>2, RemoveEffect DEF Channel
  <2>4. \A d \in Clients : Len(channel'[d].holds) <= SendBuffer
    BY <1>0, <2>1, <2>2, RemoveEffect
  <2>5. clients' \in [Instances -> SUBSET Clients] /\ panic' \in BOOLEAN
    BY <1>0, <2>1, <2>2, RemoveEffect
  <2>6. [busy[s] EXCEPT !.stale = @ \ {c}] \in Broadcast
    <3>1. busy[s] \in Broadcast
      BY <1>0
    <3>2. QED
      BY <3>1 DEF Broadcast
  <2>7. busy' \in [Senders -> Broadcast]
    BY <1>0, <2>1, <2>6
  <2>8. QED
    BY <1>10, <2>3, <2>4, <2>5, <2>7 DEF TypeOK, RemoveStale, Broadcast
<1>11. ASSUME NEW s \in Senders, Finish(s) PROVE TypeOK'
  BY <1>11 DEF TypeOK, Finish, Idle, KnownInv, Active
<1>12. ASSUME NEW m \in Message, Forward(m) PROVE TypeOK'
  <2>1. \A i \in Instances : Append(feed[i], m) \in Seq(Message)
    BY <1>0, AppendProperties
  <2>2. feed' \in [Instances -> Seq(Message)]
    <3>1. CASE feed' = [i \in Instances |-> Append(feed[i], m)]
      BY <1>0, <2>1, <3>1
    <3>2. CASE feed' = feed
      BY <1>0, <3>2
    <3>3. QED
      BY <1>12, <3>1, <3>2 DEF Forward
  <2>3. QED
    BY <1>12, <2>2 DEF TypeOK, Forward
<1>13. ASSUME UNCHANGED vars PROVE TypeOK'
  BY <1>13 DEF TypeOK, vars
<1>14. QED
  BY <1>1, <1>2, <1>3, <1>4, <1>5, <1>6, <1>7,
     <1>8, <1>9, <1>10, <1>11, <1>12, <1>13 DEF Next

\* ClientsInv for one step.
LEMMA ClientsStep == TypeOK /\ KnownInv /\ ClientsInv /\ [Next]_vars => ClientsInv'
<1> SUFFICES ASSUME TypeOK, KnownInv, ClientsInv, [Next]_vars PROVE ClientsInv'
  OBVIOUS
<1> USE HubAssumption DEF ClientsInv
<1>0. channel \in [Clients -> Channel] /\ busy \in [Senders -> Broadcast] /\ clients \in [Instances -> SUBSET Clients]
  BY DEF TypeOK, Channel, Broadcast
<1>1. ASSUME NEW c \in Clients, ServeHTTP(c) PROVE ClientsInv'
  BY <1>1 DEF TypeOK, Senders, ServeHTTP, Unlocked
<1>2. ASSUME NEW c \in Clients, Leave(c) PROVE ClientsInv'
  BY <1>2 DEF TypeOK, Senders, Leave
<1>3. ASSUME NEW c \in Clients, readPump(c) PROVE ClientsInv'
  BY <1>3 DEF TypeOK, Senders, readPump, remove, Unlocked
<1>4. ASSUME NEW c \in Clients, Write(c) PROVE ClientsInv'
  BY <1>4 DEF TypeOK, Senders, Write
<1>5. ASSUME NEW c \in Clients, WriteEnds(c) PROVE ClientsInv'
  BY <1>5 DEF TypeOK, Senders, WriteEnds
<1>6. ASSUME NEW p \in Publishers, PublishFor(p) PROVE ClientsInv'
  BY <1>6 DEF TypeOK, Senders, PublishFor, StartBroadcast
<1>7. ASSUME NEW b \in Bridges, Deliver(b) PROVE ClientsInv'
  <2>1. UNCHANGED <<clients, channel, conn, panic>>
    BY <1>7 DEF Deliver
  <2>2. b \in Senders
    BY DEF Senders
  <2>3. busy' = busy \/ (/\ \A t \in Senders : t # b => busy'[t] = busy[t]
                         /\ busy'[b].todo = clients[Home[b]] /\ busy'[b].stale = {})
    BY <1>7, DeliverEffect
  <2>4. QED
    BY <1>0, <2>1, <2>2, <2>3
<1>8. ASSUME NEW s \in Senders, Send(s) PROVE ClientsInv'
  <2>1. UNCHANGED <<clients, conn>>
    BY <1>8 DEF Send
  <2>2. PICK c \in busy[s].todo :
           /\ c \in Clients
           /\ \A t \in Senders : t # s => busy'[t] = busy[t]
           /\ busy'[s].at = busy[s].at
           /\ busy'[s].todo = busy[s].todo \ {c} /\ busy'[s].stale \subseteq busy[s].stale \cup {c}
           /\ \A d \in Clients : d # c => channel'[d] = channel[d]
           /\ channel'[c].closed = channel[c].closed
           /\ panic' <=> panic \/ channel[c].closed
    BY <1>8, SendEffect
  <2>3. ~ channel[c].closed
    BY <1>8, <2>2 DEF Send
  <2>4. \A d \in Clients : channel'[d].closed = channel[d].closed
    BY <2>2
  <2>5. \A t \in Senders : /\ \A d \in busy'[t].todo \cup busy'[t].stale : Home[d] = Home[t]
                           /\ busy'[t].at = "sending" => busy'[t].todo \subseteq clients[Home[t]]
    BY <2>2
  <2>6. QED
    BY <2>1, <2>2, <2>3, <2>4, <2>5
<1>9. ASSUME NEW s \in Senders, Sent(s) PROVE ClientsInv'
  BY <1>9 DEF TypeOK, Senders, Sent
<1>10. ASSUME NEW s \in Senders, RemoveStale(s) PROVE ClientsInv'
  <2>1. PICK c \in busy[s].stale : remove(c) /\ busy' = [busy EXCEPT ![s].stale = @ \ {c}]
    BY <1>10 DEF RemoveStale
  <2>2. c \in Clients /\ Home[c] = Home[s]
    BY <1>0, <2>1 DEF Broadcast
  <2>3. \A t \in Senders : /\ busy'[t].at = busy[t].at /\ busy'[t].todo = busy[t].todo
                           /\ busy'[t].stale \subseteq busy[t].stale
    BY <1>0, <2>1 DEF Broadcast
  <2>4. \A t \in Senders : Home[t] = Home[c] => busy[t].at # "sending"
    BY <1>10, <2>2 DEF RemoveStale, Unlocked
  <2>5. UNCHANGED conn
    BY <1>10 DEF RemoveStale
  <2>6. \A t \in Senders : Home[t] \in Instances
    BY DEF Senders
  <2>7. \A t \in Senders : /\ \A d \in busy'[t].todo \cup busy'[t].stale : Home[d] = Home[t]
                           /\ busy'[t].at = "sending" => busy'[t].todo \subseteq clients'[Home[t]]
    <3>1. clients'[Home[c]] = clients[Home[c]] \ {c} /\ \A i \in Instances : i # Home[c] => clients'[i] = clients[i]
      BY <2>1, <2>2, RemoveEffect
    <3>2. QED
      BY <2>3, <2>4, <2>6, <3>1
  <2>8. /\ \A d \in Clients : d \in clients'[Home[d]] => ~ channel'[d].closed
        /\ \A d \in Clients : channel'[d].closed => conn[d] # "none"
        /\ \A i \in Instances : clients'[i] \subseteq clients[i]
        /\ ~ panic'
    <3>1. clients'[Home[c]] = clients[Home[c]] \ {c} /\ \A i \in Instances : i # Home[c] => clients'[i] = clients[i]
      BY <2>1, <2>2, RemoveEffect
    <3>2. /\ \A d \in Clients : d # c => channel'[d].closed = channel[d].closed
          /\ channel'[c].closed <=> channel[c].closed \/ c \in clients[Home[c]]
          /\ panic' <=> panic \/ (channel[c].closed /\ c \in clients[Home[c]])
      BY <2>1, <2>2, RemoveEffect
    <3>3. \A d \in Clients : Home[d] \in Instances
      OBVIOUS
    <3>4. \A d \in Clients : d \in clients'[Home[d]] => ~ channel'[d].closed
      <4>1. c \notin clients'[Home[c]]
        BY <2>2, <3>1, <3>3
      <4>2. \A d \in Clients : d \in clients'[Home[d]] => d \in clients[Home[d]]
        BY <3>1, <3>3
      <4>3. QED
        BY <3>2, <4>1, <4>2
    <3>5. \A d \in Clients : channel'[d].closed => conn[d] # "none"
      BY <2>2, <3>2
    <3>6. QED
      <4>1. ~ panic'
        BY <2>2, <3>2
      <4>2. QED
        BY <3>1, <3>4, <3>5, <4>1
  <2>9. QED
    BY <2>5, <2>7, <2>8
<1>11. ASSUME NEW s \in Senders, Finish(s) PROVE ClientsInv'
  BY <1>11 DEF TypeOK, Senders, Finish, Idle
<1>12. ASSUME NEW m \in Message, Forward(m) PROVE ClientsInv'
  BY <1>12 DEF Forward
<1>13. ASSUME UNCHANGED vars PROVE ClientsInv'
  BY <1>13 DEF vars
<1>14. QED
  BY <1>1, <1>2, <1>3, <1>4, <1>5, <1>6, <1>7,
     <1>8, <1>9, <1>10, <1>11, <1>12, <1>13 DEF Next

-----------------------------------------------------------------------------
\* What a client was sent or holds is a sequence of messages.
LEMMA HeldType == ASSUME TypeOK, NEW c \in Clients PROVE Held(c) \in Seq(Message)
<1>1. got[c] \in Seq(Message) /\ channel[c].holds \in Seq(Message)
  BY DEF TypeOK
<1>2. QED
  BY <1>1, ConcatProperties DEF Held, Join

\* A step that publishes, forwards and delivers nothing.
Quiet ==
  /\ UNCHANGED <<published, going, feed>>
  /\ \A c \in Clients : Held(c)' = Held(c)
  /\ \A s \in Senders : /\ Active(s)' = Active(s) /\ busy'[s].msg = busy[s].msg
                        /\ busy'[s].at = "sending" => busy[s].at = "sending" /\ busy'[s].todo \subseteq busy[s].todo

\* A step that sends, queues and forwards nothing keeps the message part.
LEMMA QuietStep == ASSUME TypeOK, MessageInv, Quiet PROVE MessageInv'
<1> USE DEF Quiet, MessageInv, Held, Active
<1>0. \A b \in Bridges \cup Publishers : b \in Senders
  BY DEF Senders
<1>1. KnownInv'
  BY <1>0 DEF KnownInv, Known
<1>2. PublisherInv'
  BY <1>0 DEF PublisherInv
<1>3. GoingInv'
  BY <1>0 DEF GoingInv
<1>4. FeedInv'
  BY <1>0 DEF FeedInv
<1>5. BridgeInv'
  BY <1>0 DEF BridgeInv
<1>6. TodoInv'
  <2>1. SUFFICES ASSUME NEW s \in Senders, busy'[s].at = "sending", NEW c \in busy'[s].todo
                 PROVE  /\ ~ In(busy'[s].msg, Held(c)')
                        /\ s \in Publishers => \A x \in Message :
                             In(x, Held(c)') /\ x.from = s => x.n < busy'[s].msg.n
    BY DEF TodoInv
  <2>2. busy[s].at = "sending" /\ c \in busy[s].todo /\ c \in Clients /\ busy'[s].msg = busy[s].msg
    BY <2>1 DEF TypeOK
  <2>3. Held(c)' = Held(c)
    BY <2>2
  <2>4. QED
    BY <2>2, <2>3 DEF TodoInv
<1>7. OrderInv'
  BY DEF OrderInv
<1>8. QED
  BY <1>1, <1>2, <1>3, <1>4, <1>5, <1>6, <1>7

\* Publishing: the message is new, so it is nowhere.
LEMMA PublishStep ==
  ASSUME TypeOK, ClientsInv, MessageInv, NEW p \in Publishers, PublishFor(p)
  PROVE  MessageInv'
<1> USE HubAssumption DEF MessageInv, Held, Active
<1> DEFINE m == [from |-> p, n |-> published[p] + 1]
<1>0. p \in Senders /\ \A b \in Bridges \cup Publishers : b \in Senders
  BY DEF Senders
<1>1. /\ busy[p].at = "idle" /\ busy'[p].at = "sending" /\ busy'[p].msg = m /\ busy'[p].todo = clients[Home[p]]
      /\ \A t \in Senders : t # p => busy'[t] = busy[t]
  BY <1>0 DEF PublishFor, StartBroadcast, Idle, TypeOK
<1>2. UNCHANGED <<going, feed, got, channel>>
  BY DEF PublishFor
<1>3. /\ published'[p] = published[p] + 1 /\ \A q \in Publishers : q # p => published'[q] = published[q]
      /\ \A q \in Publishers : published[q] \in Nat /\ published'[q] \in Nat /\ published[q] <= published'[q]
  BY DEF PublishFor, TypeOK
<1>4. m \in Message /\ m.from = p /\ m.n = published[p] + 1
  BY <1>3, MessageType DEF PublishFor
<1> HIDE DEF m
<1>5. ASSUME NEW x \in Message, Known(x, published) PROVE x # m /\ Known(x, published') /\ (x.from = p => x.n < m.n)
  <2>1. x.from \in Publishers /\ x.n \in Nat
    BY MessageType
  <2>2. QED
    BY <1>3, <1>4, <1>5, <2>1 DEF Known
<1>6. \A c \in Clients : \A x \in Message : In(x, Held(c)) => Known(x, published)
  BY DEF KnownInv
<1>7. \A i \in Instances : \A x \in Message : In(x, feed[i]) => Known(x, published)
  BY DEF KnownInv
<1>8. \A x \in going : x \in Message /\ Known(x, published)
  BY DEF KnownInv, TypeOK
<1>9. \A s \in Senders : Active(s) => busy[s].msg \in Message /\ Known(busy[s].msg, published)
  BY DEF KnownInv
<1>10. /\ m \notin going /\ \A s \in Senders : Active(s) => busy[s].msg # m
       /\ \A i \in Instances : ~ In(m, feed[i]) /\ \A c \in Clients : ~ In(m, Held(c))
  BY <1>4, <1>5, <1>6, <1>7, <1>8, <1>9
<1>11. KnownInv'
  <2>1. \A c \in Clients : \A x \in Message : In(x, Held(c)) => Known(x, published')
    BY <1>5, <1>6, <1>2
  <2>2. \A i \in Instances : \A x \in Message : In(x, feed[i]) => Known(x, published')
    BY <1>5, <1>7, <1>2
  <2>3. \A x \in going : Known(x, published')
    BY <1>5, <1>8
  <2>4. \A s \in Senders : Active(s)' => busy'[s].msg \in Message /\ Known(busy'[s].msg, published')
    <3>1. Known(m, published')
      BY <1>3, <1>4 DEF Known
    <3>2. \A s \in Senders : Active(s) => Known(busy[s].msg, published')
      BY <1>5, <1>9
    <3>3. QED
      BY <1>1, <1>4, <1>9, <3>1, <3>2
  <2>5. \A q \in Publishers : Active(q)' => busy'[q].msg = [from |-> q, n |-> published'[q]]
    BY <1>0, <1>1, <1>3 DEF KnownInv, m
  <2>6. QED
    BY <1>2, <2>1, <2>2, <2>3, <2>4, <2>5 DEF KnownInv
<1>12. PublisherInv'
  BY <1>0, <1>1, <1>2, <1>10 DEF PublisherInv
<1>13. GoingInv'
  BY <1>0, <1>1, <1>2 DEF GoingInv
<1>14. FeedInv'
  BY <1>0, <1>1, <1>2 DEF FeedInv
<1>15. BridgeInv'
  BY <1>0, <1>1 DEF BridgeInv
<1>16. TodoInv'
  <2>1. SUFFICES ASSUME NEW s \in Senders, busy'[s].at = "sending", NEW c \in busy'[s].todo
                 PROVE  /\ ~ In(busy'[s].msg, Held(c))
                        /\ s \in Publishers => \A x \in Message :
                             In(x, Held(c)) /\ x.from = s => x.n < busy'[s].msg.n
    BY <1>2 DEF TodoInv
  <2>2. CASE s = p
    <3>1. c \in Clients
      BY <1>1, <2>1, <2>2 DEF TypeOK
    <3>2. QED
      BY <1>1, <1>5, <1>6, <1>10, <2>2, <3>1
  <2>3. CASE s # p
    BY <1>1, <2>1, <2>3 DEF TodoInv
  <2>4. QED
    BY <2>2, <2>3
<1>17. OrderInv'
  BY <1>2 DEF OrderInv
<1>18. QED
  BY <1>11, <1>12, <1>13, <1>14, <1>15, <1>16, <1>17

\* A bridge takes the first message of its feed, which is then no longer there.
LEMMA DeliverStep ==
  ASSUME TypeOK, ClientsInv, MessageInv, NEW b \in Bridges, Deliver(b)
  PROVE  MessageInv'
<1> USE HubAssumption DEF MessageInv, Held, Active
<1> DEFINE i == Home[b]
           m == Head(feed[i])
<1>0. b \in Senders /\ i \in Instances /\ \A a \in Bridges \cup Publishers : a \in Senders
  BY DEF Senders
<1>1. UNCHANGED <<going, published, got, channel, clients>>
  BY DEF Deliver
<1>2. feed[i] # <<>> /\ feed[i] \in Seq(Message) /\ m \in Message /\ busy[b].at = "idle"
  BY DeliverEffect
<1>3. feed'[i] = Tail(feed[i]) /\ \A j \in Instances : j # i => feed'[j] = feed[j]
  BY DeliverEffect
<1>4. \/ busy' = busy
      \/ /\ Origin(m) # i
         /\ \A t \in Senders : t # b => busy'[t] = busy[t]
         /\ busy'[b].at = "sending" /\ busy'[b].msg = m /\ busy'[b].todo = clients[i]
  BY DeliverEffect
<1>5. Distinct(feed[i])
  BY <1>0 DEF FeedInv
<1>6. In(m, feed[i]) /\ ~ In(m, Tail(feed[i])) /\ Distinct(Tail(feed[i]))
  BY <1>2, <1>5, TailIn
<1>7. \A x : In(x, Tail(feed[i])) => In(x, feed[i])
  BY <1>2, TailIn
<1> HIDE DEF i, m
<1>8. /\ \A j \in Instances : \A x : In(x, feed'[j]) => In(x, feed[j])
      /\ \A j \in Instances : Distinct(feed'[j]) /\ ~ In(m, feed'[i])
  BY <1>3, <1>6, <1>7 DEF FeedInv
<1>9. /\ Known(m, published) /\ m \notin going
      /\ \A a \in Bridges : Active(a) /\ Home[a] = i => busy[a].msg # m
      /\ \A q \in Publishers : Active(q) => busy[q].msg # m
      /\ Origin(m) # i => \A c \in Clients : Home[c] = i => ~ In(m, Held(c))
  BY <1>0, <1>2, <1>6 DEF KnownInv, FeedInv, PublisherInv, GoingInv
<1>10. KnownInv'
  BY <1>0, <1>1, <1>2, <1>4, <1>8, <1>9 DEF KnownInv
<1>11. PublisherInv'
  BY <1>0, <1>1, <1>4, <1>8, <1>9 DEF PublisherInv
<1>12. GoingInv'
  <2>1. \A a \in Bridges : Active(a)' => (Active(a) /\ busy'[a] = busy[a]) \/ busy'[a].msg = m
    BY <1>0, <1>4
  <2>2. QED
    BY <1>0, <1>1, <1>8, <1>9, <2>1 DEF GoingInv
<1>13. FeedInv'
  <2>1. \A a \in Bridges : Active(a)' => (Active(a) /\ busy'[a] = busy[a]) \/ (busy'[a].msg = m /\ a = b)
    BY <1>0, <1>4
  <2>2. ASSUME NEW j \in Instances, NEW a \in Bridges, Active(a)', Home[a] = j PROVE ~ In(busy'[a].msg, feed'[j])
    <3>1. CASE Active(a) /\ busy'[a] = busy[a]
      BY <1>8, <2>2, <3>1 DEF FeedInv
    <3>2. CASE busy'[a].msg = m /\ a = b
      BY <1>8, <2>2, <3>2 DEF i
    <3>3. QED
      BY <2>1, <2>2, <3>1, <3>2
  <2>3. ASSUME NEW j \in Instances, NEW c \in Clients, Home[c] = j, NEW x \in Message, In(x, feed'[j]), Origin(x) # j
        PROVE  ~ In(x, Held(c))
    BY <1>8, <2>3 DEF FeedInv
  <2>4. QED
    BY <1>1, <1>8, <2>2, <2>3 DEF FeedInv
<1>14. BridgeInv'
  BY <1>0, <1>4, <1>9 DEF BridgeInv, i
<1>15. TodoInv'
  <2>1. CASE busy' = busy
    BY <1>1, <2>1 DEF TodoInv
  <2>2. CASE /\ Origin(m) # i
             /\ \A t \in Senders : t # b => busy'[t] = busy[t]
             /\ busy'[b].at = "sending" /\ busy'[b].msg = m /\ busy'[b].todo = clients[i]
    <3>1. \A c \in clients[i] : c \in Clients /\ Home[c] = i
      BY <1>0 DEF TypeOK, ClientsInv
    <3>2. b \notin Publishers
      OBVIOUS
    <3>3. QED
      BY <1>1, <1>9, <2>2, <3>1, <3>2 DEF TodoInv
  <2>3. QED
    BY <1>4, <2>1, <2>2
<1>16. OrderInv'
  BY <1>1 DEF OrderInv
<1>17. QED
  BY <1>10, <1>11, <1>12, <1>13, <1>14, <1>15, <1>16

\* The message a publisher ends with goes to Redis.
LEMMA FinishStep ==
  ASSUME TypeOK, ClientsInv, MessageInv, NEW s \in Senders, Finish(s)
  PROVE  MessageInv'
<1> USE HubAssumption DEF MessageInv, Held, Active
<1>0. \A a \in Bridges \cup Publishers : a \in Senders
  BY DEF Senders
<1>1. UNCHANGED <<feed, published, got, channel, clients>> /\ busy[s].at = "removing"
  BY DEF Finish
<1>2. busy'[s].at = "idle" /\ \A t \in Senders : t # s => busy'[t] = busy[t]
  BY DEF Finish, Idle, TypeOK
<1>3. \A m \in going' : m \in going \/ (s \in Publishers /\ m = busy[s].msg)
  BY DEF Finish
<1>4. KnownInv'
  BY <1>0, <1>1, <1>2, <1>3 DEF KnownInv
<1>5. PublisherInv'
  <2>1. \A p \in Publishers : Active(p)' => Active(p) /\ busy'[p] = busy[p] /\ p # s
    BY <1>0, <1>2
  <2>2. \A p \in Publishers : Active(p) => busy[p].msg.from = p
    <3>1. SUFFICES ASSUME NEW p \in Publishers, Active(p) PROVE busy[p].msg.from = p
      OBVIOUS
    <3>2. busy[p].msg = [from |-> p, n |-> published[p]]
      BY <3>1 DEF KnownInv
    <3>3. QED
      BY <3>2
  <2>3. \A p \in Publishers : Active(p)' => busy[p].msg \notin going'
    BY <1>1, <1>3, <2>1, <2>2 DEF PublisherInv
  <2>4. QED
    BY <1>0, <1>1, <1>2, <2>1, <2>3 DEF PublisherInv
<1>6. GoingInv'
  <2>1. s \in Publishers => Origin(busy[s].msg) = Home[s]
    <3>1. s \in Publishers => busy[s].msg = [from |-> s, n |-> published[s]]
      BY <1>1 DEF KnownInv
    <3>2. QED
      BY <3>1 DEF Origin
  <2>2. QED
    BY <1>0, <1>1, <1>2, <1>3, <2>1 DEF GoingInv, PublisherInv
<1>7. FeedInv'
  BY <1>0, <1>1, <1>2 DEF FeedInv
<1>8. BridgeInv'
  BY <1>0, <1>1, <1>2 DEF BridgeInv
<1>9. TodoInv'
  BY <1>0, <1>1, <1>2 DEF TodoInv
<1>10. OrderInv'
  BY <1>1 DEF OrderInv
<1>11. QED
  BY <1>4, <1>5, <1>6, <1>7, <1>8, <1>9, <1>10

\* Redis puts the message in every feed, or the publication is lost.
LEMMA ForwardStep ==
  ASSUME TypeOK, ClientsInv, MessageInv, NEW m \in Message, Forward(m)
  PROVE  MessageInv'
<1> USE HubAssumption DEF MessageInv, Held, Active
<1>1. UNCHANGED <<busy, published, got, channel, clients>> /\ m \in going /\ going' = going \ {m}
  BY DEF Forward
<1>2. \A i \in Instances : feed[i] \in Seq(Message)
  BY DEF TypeOK
<1>3. \A i \in Instances : feed'[i] = feed[i] \/ feed'[i] = Append(feed[i], m)
  BY DEF Forward
<1>4. /\ \A i \in Instances : ~ In(m, feed[i])
      /\ \A b \in Bridges : Active(b) => busy[b].msg # m
      /\ \A c \in Clients : Home[c] # Origin(m) => ~ In(m, Held(c))
      /\ \A p \in Publishers : Active(p) => busy[p].msg # m
      /\ Known(m, published)
  BY <1>1 DEF GoingInv, PublisherInv, KnownInv
<1>5. \A i \in Instances : \A x : In(x, feed'[i]) => In(x, feed[i]) \/ x = m
  <2>1. \A i \in Instances : \A x : In(x, Append(feed[i], m)) => In(x, feed[i]) \/ x = m
    BY <1>2, AppendIn
  <2>2. QED
    BY <1>3, <2>1
<1>6. \A i \in Instances : Distinct(feed'[i])
  <2>1. \A i \in Instances : Distinct(Append(feed[i], m))
    BY <1>2, <1>4, AppendDistinct DEF FeedInv
  <2>2. QED
    BY <1>3, <2>1 DEF FeedInv
<1>7. KnownInv'
  BY <1>1, <1>4, <1>5 DEF KnownInv
<1>8. PublisherInv'
  BY <1>1, <1>4, <1>5 DEF PublisherInv
<1>9. GoingInv'
  BY <1>1, <1>5 DEF GoingInv
<1>10. FeedInv'
  BY <1>1, <1>4, <1>5, <1>6 DEF FeedInv
<1>11. BridgeInv'
  BY <1>1 DEF BridgeInv
<1>12. TodoInv'
  BY <1>1 DEF TodoInv
<1>13. OrderInv'
  BY <1>1 DEF OrderInv
<1>14. QED
  BY <1>7, <1>8, <1>9, <1>10, <1>11, <1>12, <1>13

\* A broadcast serves a client, which then has the message.
LEMMA SendStep ==
  ASSUME TypeOK, ClientsInv, MessageInv, NEW s \in Senders, Send(s)
  PROVE  MessageInv'
<1> USE HubAssumption DEF MessageInv, Active
<1> DEFINE m == busy[s].msg
<1>0. \A a \in Bridges \cup Publishers : a \in Senders
  BY DEF Senders
<1>1. UNCHANGED <<going, feed, published, got>> /\ busy[s].at = "sending"
  BY DEF Send
<1>2. PICK c \in busy[s].todo :
        /\ c \in Clients
        /\ \A t \in Senders : t # s => busy'[t] = busy[t]
        /\ busy'[s].at = busy[s].at /\ busy'[s].msg = m /\ busy'[s].todo = busy[s].todo \ {c}
        /\ \A d \in Clients : d # c => channel'[d] = channel[d]
        /\ \/ channel'[c].holds = channel[c].holds
           \/ channel'[c].holds = Append(channel[c].holds, m)
  BY SendEffect
<1>3. m \in Message /\ Known(m, published) /\ Home[c] = Home[s]
  BY <1>1, <1>2 DEF KnownInv, ClientsInv
<1>4. ~ In(m, Held(c)) /\ (s \in Publishers => \A x \in Message : In(x, Held(c)) /\ x.from = s => x.n < m.n)
  BY <1>1, <1>2 DEF TodoInv
<1>5. s \in Publishers => m.from = s /\ Origin(m) = Home[s]
  <2>1. s \in Publishers => m = [from |-> s, n |-> published[s]]
    BY <1>1 DEF KnownInv
  <2>2. QED
    BY <2>1 DEF Origin
<1>6. s \in Bridges => Origin(m) # Home[s]
  BY <1>1 DEF BridgeInv
<1>7. s \in Publishers \/ s \in Bridges
  BY DEF Senders
<1>8. \A p \in Publishers : Active(p) /\ p # s => busy[p].msg # m
  <2>1. SUFFICES ASSUME NEW p \in Publishers, Active(p), p # s PROVE busy[p].msg # m
    OBVIOUS
  <2>2. busy[p].msg = [from |-> p, n |-> published[p]]
    BY <2>1 DEF KnownInv
  <2>3. CASE s \in Publishers
    BY <1>5, <2>1, <2>2, <2>3
  <2>4. CASE s \in Bridges
    BY <1>1, <2>1, <2>4 DEF PublisherInv
  <2>5. QED
    BY <1>7, <2>3, <2>4
<1>9. \A t \in Senders : Active(t) /\ t # s /\ Home[t] = Home[c] => busy[t].msg # m
  <2>1. SUFFICES ASSUME NEW t \in Bridges, Active(t), t # s, Home[t] = Home[c] PROVE busy[t].msg # m
    BY <1>8 DEF Senders
  <2>2. CASE s \in Publishers
    BY <1>1, <2>1, <2>2 DEF PublisherInv
  <2>3. CASE s \in Bridges
    BY <1>1, <1>3, <2>1, <2>3 DEF BridgeInv
  <2>4. QED
    BY <1>7, <2>2, <2>3
<1>10. m \notin going /\ ~ In(m, feed[Home[c]])
  <2>1. CASE s \in Publishers
    BY <1>1, <1>2, <2>1 DEF PublisherInv
  <2>2. CASE s \in Bridges
    BY <1>1, <1>2, <1>3, <2>2 DEF GoingInv, FeedInv
  <2>3. QED
    BY <1>7, <2>1, <2>2
<1>11. \A d \in Clients : d # c => Held(d)' = Held(d)
  BY <1>1, <1>2 DEF Held
<1>12. Held(c)' = Held(c) \/ Held(c)' = Append(Held(c), m)
  <2>1. got[c] \in Seq(Message) /\ channel[c].holds \in Seq(Message)
    BY <1>2 DEF TypeOK
  <2>2. got[c] \o Append(channel[c].holds, m) = Append(got[c] \o channel[c].holds, m)
    <3>1. m \in Message
      BY <1>3
    <3> HIDE DEF m
    <3>2. QED
      BY <2>1, <3>1, SendAppends, Zenon
  <2>3. QED
    BY <1>1, <1>2, <2>2 DEF Held, Join
<1>13. Held(c) \in Seq(Message)
  BY <1>2, HeldType
<1>14. \A x : In(x, Append(Held(c), m)) <=> In(x, Held(c)) \/ x = m
  BY <1>3, <1>13, AppendIn
<1> USE DEF Held
<1>15. \A d \in Clients : \A x : In(x, Held(d)') => In(x, Held(d)) \/ (d = c /\ x = m)
  BY <1>11, <1>12, <1>14
<1>16. \A t \in Senders : /\ busy'[t].at = busy[t].at /\ busy'[t].msg = busy[t].msg
                          /\ busy'[t].todo \subseteq busy[t].todo
  BY <1>2
<1> HIDE DEF m
<1>17. KnownInv'
  BY <1>0, <1>1, <1>3, <1>15, <1>16 DEF KnownInv
<1>18. PublisherInv'
  <2>1. ASSUME NEW p \in Publishers, Active(p), NEW d \in Clients, Home[d] # Home[p] PROVE ~ In(busy[p].msg, Held(d)')
    <3>1. d = c => p # s
      BY <1>3, <2>1
    <3>2. QED
      BY <1>8, <1>15, <2>1, <3>1 DEF PublisherInv
  <2>2. QED
    BY <1>0, <1>1, <1>16, <2>1 DEF PublisherInv
<1>19. GoingInv'
  <2>1. ASSUME NEW x \in going, NEW d \in Clients, Home[d] # Origin(x) PROVE ~ In(x, Held(d)')
    <3>1. x # m /\ ~ In(x, Held(d))
      BY <1>10, <2>1 DEF GoingInv
    <3>2. QED
      BY <1>15, <3>1
  <2>2. QED
    BY <1>0, <1>1, <1>16, <2>1 DEF GoingInv
<1>20. FeedInv'
  <2>1. ASSUME NEW i \in Instances, NEW d \in Clients, Home[d] = i, NEW x \in Message, In(x, feed[i]), Origin(x) # i
        PROVE  ~ In(x, Held(d)')
    <3>1. ~ In(x, Held(d))
      BY <2>1 DEF FeedInv
    <3>2. d = c => x # m
      BY <1>10, <2>1
    <3>3. QED
      BY <1>15, <2>1, <3>1, <3>2
  <2>2. QED
    BY <1>0, <1>1, <1>16, <2>1 DEF FeedInv
<1>21. BridgeInv'
  BY <1>0, <1>16 DEF BridgeInv
<1>22. TodoInv'
  <2>1. SUFFICES ASSUME NEW t \in Senders, busy'[t].at = "sending", NEW d \in busy'[t].todo
                 PROVE  /\ ~ In(busy'[t].msg, Held(d)')
                        /\ t \in Publishers => \A x \in Message : In(x, Held(d)') /\ x.from = t => x.n < busy'[t].msg.n
    BY DEF TodoInv
  <2>2. busy[t].at = "sending" /\ d \in busy[t].todo /\ busy'[t].msg = busy[t].msg /\ d \in Clients /\ Home[d] = Home[t]
    BY <1>16, <2>1 DEF TypeOK, ClientsInv
  <2>3. /\ ~ In(busy[t].msg, Held(d))
        /\ t \in Publishers => \A x \in Message : In(x, Held(d)) /\ x.from = t => x.n < busy[t].msg.n
    BY <2>2 DEF TodoInv
  <2>4. CASE d # c
    BY <1>11, <2>2, <2>3, <2>4
  <2>5. CASE d = c
    <3>1. t # s
      BY <1>2, <2>1, <2>5
    <3>2. busy[t].msg # m
      BY <1>9, <2>2, <2>5, <3>1
    <3>3. t \in Publishers => m.from # t
      BY <1>3, <1>5, <1>6, <1>7, <2>2, <2>5, <3>1 DEF Origin
    <3>4. QED
      BY <1>15, <2>2, <2>3, <2>5, <3>2, <3>3
  <2>6. QED
    BY <2>4, <2>5
<1>23. OrderInv'
  <2>1. Origin(m) = Home[c] => \A y \in Message : In(y, Held(c)) /\ y.from = m.from => y.n < m.n
    BY <1>3, <1>4, <1>5, <1>6, <1>7 DEF m
  <2>2. ~ In(m, Held(c)) /\ Ordered(Held(c), Home[c])
    BY <1>2, <1>4 DEF OrderInv, m
  <2>3. Ordered(Append(Held(c), m), Home[c])
    BY <1>3, <1>13, <2>1, <2>2, AppendOrdered DEF m
  <2>4. Ordered(Held(c)', Home[c])
    BY <1>12, <2>2, <2>3 DEF m
  <2>5. QED
    BY <1>2, <1>11, <2>4 DEF OrderInv
<1>24. QED
  BY <1>17, <1>18, <1>19, <1>20, <1>21, <1>22, <1>23

-----------------------------------------------------------------------------
\* MessageInv for one step.
LEMMA MessageStep == TypeOK /\ ClientsInv /\ MessageInv /\ [Next]_vars => MessageInv'
<1> SUFFICES ASSUME TypeOK, ClientsInv, MessageInv, [Next]_vars PROVE MessageInv'
  OBVIOUS
<1>0. channel \in [Clients -> Channel] /\ busy \in [Senders -> Broadcast] /\ got \in [Clients -> Seq(Message)]
  BY DEF TypeOK, Channel, Broadcast
<1>1. ASSUME NEW c \in Clients, ServeHTTP(c) PROVE Quiet
  BY <1>1 DEF ServeHTTP, Quiet, Held, Active
<1>2. ASSUME NEW c \in Clients, Leave(c) PROVE Quiet
  BY <1>2 DEF Leave, Quiet, Held, Active
<1>3. ASSUME NEW c \in Clients, remove(c), UNCHANGED got PROVE \A d \in Clients : Held(d)' = Held(d)
  BY <1>3, RemoveEffect DEF Held, Join
<1>4. ASSUME NEW c \in Clients, readPump(c) PROVE Quiet
  BY <1>3, <1>4 DEF readPump, Quiet, Held, Active
<1>5. ASSUME NEW c \in Clients, Write(c) PROVE Quiet
  <2>1. got[c] \in Seq(Message)
    BY <1>0
  <2>2. /\ channel[c].holds \in Seq(Message) /\ channel[c].holds # <<>>
        /\ got'[c] = Append(got[c], Head(channel[c].holds)) /\ channel'[c].holds = Tail(channel[c].holds)
        /\ \A d \in Clients : d # c => channel'[d] = channel[d] /\ got'[d] = got[d]
    BY <1>5, WriteEffect
  <2>3. got'[c] \o channel'[c].holds = got[c] \o channel[c].holds
    BY <2>1, <2>2, WriteKeeps
  <2>4. \A d \in Clients : Held(d)' = Held(d)
    BY <2>2, <2>3 DEF Held, Join
  <2>5. QED
    BY <1>5, <2>4 DEF Write, Quiet, Held, Active
<1>6. ASSUME NEW c \in Clients, WriteEnds(c) PROVE Quiet
  BY <1>6 DEF WriteEnds, Quiet, Held, Active
<1>7. ASSUME NEW s \in Senders, Sent(s) PROVE Quiet
  <2>1. \A t \in Senders : /\ Active(t)' = Active(t) /\ busy'[t].msg = busy[t].msg
                           /\ busy'[t].at = "sending" => busy[t].at = "sending" /\ busy'[t].todo \subseteq busy[t].todo
    BY <1>0, <1>7 DEF Sent, Active, Broadcast
  <2>2. QED
    BY <1>7, <2>1 DEF Sent, Quiet, Held
<1>8. ASSUME NEW s \in Senders, RemoveStale(s) PROVE Quiet
  <2>1. PICK c \in busy[s].stale : remove(c) /\ busy' = [busy EXCEPT ![s].stale = @ \ {c}]
    BY <1>8 DEF RemoveStale
  <2>2. c \in Clients
    BY <1>0, <2>1 DEF Broadcast
  <2>3. \A t \in Senders : /\ busy'[t].at = busy[t].at /\ busy'[t].msg = busy[t].msg
                           /\ busy'[t].todo = busy[t].todo
    BY <1>0, <2>1 DEF Broadcast
  <2>4. \A d \in Clients : Held(d)' = Held(d)
    BY <1>3, <1>8, <2>1, <2>2 DEF RemoveStale
  <2>5. QED
    BY <1>8, <2>3, <2>4 DEF RemoveStale, Quiet, Active, Held
<1>9. ASSUME UNCHANGED vars PROVE Quiet
  BY <1>9 DEF vars, Quiet, Held, Active
<1>10. QED
  BY <1>1, <1>2, <1>4, <1>5, <1>6, <1>7, <1>8, <1>9, QuietStep,
     PublishStep, DeliverStep, SendStep, FinishStep, ForwardStep DEF Next

\* No client is connected and no message is on its way at the start.
LEMMA InitHolds == Init => HubInv
<1> SUFFICES ASSUME Init PROVE HubInv
  OBVIOUS
<1> USE HubAssumption DEF Init, Idle
<1>1. TypeOK
  <2>1. <<>> \in Seq(Message) /\ Len(<<>>) = 0
    BY EmptySeq
  <2>2. channel \in [Clients -> [holds : Seq(Message), closed : BOOLEAN]]
    BY <2>1
  <2>3. \A c \in Clients : Len(channel[c].holds) <= SendBuffer
    BY <2>1
  <2>4. busy \in [Senders -> Broadcast]
    BY DEF Broadcast
  <2>5. got \in [Clients -> Seq(Message)] /\ feed \in [Instances -> Seq(Message)]
    BY <2>1
  <2>6. published \in [Publishers -> Nat] /\ \A p \in Publishers : published[p] <= Quota[p]
    OBVIOUS
  <2>7. /\ clients \in [Instances -> SUBSET Clients] /\ conn \in [Clients -> {"none", "open", "gone", "closed"}]
        /\ pump \in [Clients -> SUBSET {"read", "write"}] /\ lost \subseteq Clients
        /\ going \subseteq Message /\ panic \in BOOLEAN
    OBVIOUS
  <2> HIDE DEF Init
  <2>8. QED
    BY <2>2, <2>3, <2>4, <2>5, <2>6, <2>7 DEF TypeOK, Broadcast
<1>2. ClientsInv
  BY DEF ClientsInv
<1>3. \A c \in Clients : Held(c) = <<>>
  BY ConcatEmptySeq, EmptySeq DEF Held, Join
<1>4. \A x : ~ In(x, <<>>)
  BY DEF In
<1>5. Distinct(<<>>) /\ \A i : Ordered(<<>>, i)
  BY DEF Distinct, Ordered
<1>6. \A s \in Senders : ~ Active(s) /\ busy[s].at # "sending"
  BY DEF Active
<1>7. \A b \in Bridges \cup Publishers : b \in Senders
  BY DEF Senders
<1>8. KnownInv /\ PublisherInv /\ GoingInv
  BY <1>3, <1>4, <1>6, <1>7 DEF KnownInv, PublisherInv, GoingInv
<1>9. FeedInv /\ BridgeInv /\ TodoInv /\ OrderInv
  BY <1>3, <1>4, <1>5, <1>6, <1>7 DEF FeedInv, BridgeInv, TodoInv, OrderInv
<1>10. QED
  BY <1>1, <1>2, <1>8, <1>9 DEF HubInv, MessageInv

\* The inductive invariant of the hub, its pumps and the bridge holds in every
\* reachable state.
THEOREM Invariance == Spec => []HubInv
<1>1. Init => HubInv
  BY InitHolds
<1>2. HubInv /\ [Next]_vars => HubInv'
  <2>1. HubInv => KnownInv
    BY DEF HubInv, MessageInv
  <2>2. QED
    BY <2>1, TypeStep, ClientsStep, MessageStep DEF HubInv
<1>3. QED
  BY <1>1, <1>2, PTL DEF Spec

\* The maps, the channels, the broadcasts under way and the feeds keep their types.
THEOREM TypeCorrect == Spec => []TypeOK
<1>1. HubInv => TypeOK
  BY DEF HubInv
<1>2. QED
  BY <1>1, Invariance, PTL

\* The hub never sends on a closed channel nor closes one twice (broadcast,
\* remove), however many broadcasts, removals and pumps overlap.
THEOREM NoPanicHolds == Spec => []NoPanic
<1>1. HubInv => NoPanic
  BY DEF HubInv, ClientsInv, NoPanic
<1>2. QED
  BY <1>1, Invariance, PTL

\* A panel is sent a message once, although it can come from the instance and
\* from Redis, and those of a publisher of its instance in order.
THEOREM OnceAndInOrderHolds == Spec => []OnceAndInOrder
<1>1. HubInv => OnceAndInOrder
  BY DEF HubInv, MessageInv, OrderInv, OnceAndInOrder, Ordered, Held, Join
<1>2. QED
  BY <1>1, Invariance, PTL
=============================================================================
