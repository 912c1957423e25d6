-------------------------------- MODULE Hub ---------------------------------
(* The event channel to the panels (internal/websocket): the hub of each    *)
(* instance (hub.go), the two pumps of each client (handler.go) and the     *)
(* Redis bridge between instances (redis.go).                               *)
(*                                                                          *)
(* A broadcast holds the read lock while it offers the message to one       *)
(* client after another, so broadcasts overlap; add and remove take the     *)
(* write lock for one step.  A message is its publisher and its number.     *)
EXTENDS Integers, Sequences

CONSTANTS
  Instances,      \* backend processes
  Clients,        \* panels
  Publishers,     \* goroutines that publish: ingestion, commands, workers
  Bridges,        \* the goroutine of Bridge.Run of each instance
  Home,           \* the instance of each client, publisher and bridge
  SendBuffer,     \* sendBuffer, the capacity of a client's channel
  Quota,          \* bound: how many messages each publisher publishes
  NoMsg

ASSUME HubAssumption ==
  /\ Home \in [Clients \cup Publishers \cup Bridges -> Instances]
  /\ Publishers \cap Bridges = {}
  /\ SendBuffer \in Nat \ {0} /\ Quota \in [Publishers -> Nat]

VARIABLES
  clients,     \* h.clients of each instance
  channel,     \* c.send: what it holds and whether it was closed
  conn,        \* the socket: "none", "open", "gone" (the panel left) or "closed"
  pump,        \* which of the two pumps of a client run
  got,         \* what each panel was sent
  lost,        \* clients for which a broadcast found no room
  busy,        \* the broadcast each goroutine is in
  published,   \* how many messages each publisher published
  going,       \* messages whose Redis publication is in a goroutine of its own
  feed,        \* messages Redis has for each instance
  panic        \* a send on, or a close of, a closed channel

vars == <<clients, channel, conn, pump, got, lost, busy, published, going, feed, panic>>

Senders == Publishers \cup Bridges
Message == UNION {[from : {p}, n : 1..Quota[p]] : p \in Publishers}
Origin(m) == Home[m.from]
Idle == [at |-> "idle", msg |-> NoMsg, todo |-> {}, stale |-> {}]

Init ==
  /\ clients = [i \in Instances |-> {}]
  /\ channel = [c \in Clients |-> [holds |-> <<>>, closed |-> FALSE]]
  /\ conn = [c \in Clients |-> "none"]
  /\ pump = [c \in Clients |-> {}]
  /\ got = [c \in Clients |-> <<>>]
  /\ lost = {}
  /\ busy = [s \in Senders |-> Idle]
  /\ published = [p \in Publishers |-> 0]
  /\ going = {}
  /\ feed = [i \in Instances |-> <<>>]
  /\ panic = FALSE

\* Lock waits for every broadcast of the instance to release its RLock.
Unlocked(i) == \A s \in Senders : Home[s] = i => busy[s].at # "sending"

-----------------------------------------------------------------------------
\* ServeHTTP: upgrade, add, and start the pumps.
ServeHTTP(c) ==
  /\ conn[c] = "none" /\ Unlocked(Home[c])
  /\ clients' = [clients EXCEPT ![Home[c]] = @ \cup {c}]
  /\ conn' = [conn EXCEPT ![c] = "open"]
  /\ pump' = [pump EXCEPT ![c] = {"read", "write"}]
  /\ UNCHANGED <<channel, got, lost, busy, published, going, feed, panic>>

\* remove: only the caller that finds the client in the map closes its channel.
RemoveBlindly(c) ==
  /\ clients' = [clients EXCEPT ![Home[c]] = @ \ {c}]
  /\ channel' = [channel EXCEPT ![c].closed = TRUE]
  /\ panic' = (panic \/ channel[c].closed)

remove(c) ==
  LET ok == c \in clients[Home[c]]
  IN  /\ clients' = [clients EXCEPT ![Home[c]] = @ \ {c}]
      /\ channel' = [channel EXCEPT ![c].closed = @ \/ ok]
      /\ panic' = (panic \/ (ok /\ channel[c].closed))

\* RLock: the clients of this moment are offered the message.
StartBroadcast(s, m) ==
  busy' = [busy EXCEPT ![s] = [at |-> "sending", msg |-> m, todo |-> clients[Home[s]], stale |-> {}]]

PublishFor(p) ==
  /\ busy[p] = Idle /\ published[p] < Quota[p]
  /\ published' = [published EXCEPT ![p] = @ + 1]
  /\ StartBroadcast(p, [from |-> p, n |-> published[p] + 1])
  /\ UNCHANGED <<clients, channel, conn, pump, got, lost, going, feed, panic>>

\* Bridge.Run: a message from Redis; one's own comes back and is dropped.
DropsUnread(b, m) == FALSE
Drops(b, m) == Origin(m) = Home[b]

Deliver(b) ==
  LET i == Home[b] IN
  /\ busy[b] = Idle /\ feed[i] # <<>>
  /\ feed' = [feed EXCEPT ![i] = Tail(@)]
  /\ IF Drops(b, Head(feed[i])) THEN UNCHANGED busy ELSE StartBroadcast(b, Head(feed[i]))
  /\ UNCHANGED <<clients, channel, conn, pump, got, lost, published, going, panic>>

\* The select of broadcast for one client: send, or mark it as slow.
SendOrWait(s, c) ==
  /\ Len(channel[c].holds) < SendBuffer
  /\ channel' = [channel EXCEPT ![c].holds = Append(@, busy[s].msg)]
  /\ busy' = [busy EXCEPT ![s].todo = @ \ {c}]
  /\ UNCHANGED lost

SendOrSkip(s, c) ==
  /\ busy' = [busy EXCEPT ![s].todo = @ \ {c},
                          ![s].stale = IF Len(channel[c].holds) < SendBuffer THEN @ ELSE @ \cup {c}]
  /\ IF Len(channel[c].holds) < SendBuffer
       THEN channel' = [channel EXCEPT ![c].holds = Append(@, busy[s].msg)] /\ UNCHANGED lost
       ELSE UNCHANGED channel /\ lost' = lost \cup {c}

Send(s) ==
  /\ busy[s].at = "sending"
  /\ \E c \in busy[s].todo :
       /\ SendOrSkip(s, c)
       /\ panic' = (panic \/ channel[c].closed)
  /\ UNCHANGED <<clients, conn, pump, got, published, going, feed>>

\* RUnlock; the slow clients are removed afterwards, one Lock at a time.
Sent(s) ==
  /\ busy[s].at = "sending" /\ busy[s].todo = {}
  /\ busy' = [busy EXCEPT ![s].at = "removing"]
  /\ UNCHANGED <<clients, channel, conn, pump, got, lost, published, going, feed, panic>>

ForgetStale(s) ==
  /\ busy[s].at = "removing" /\ busy[s].stale # {}
  /\ busy' = [busy EXCEPT ![s].stale = {}]
  /\ UNCHANGED <<clients, channel, conn, pump, got, lost, published, going, feed, panic>>

RemoveStale(s) ==
  /\ busy[s].at = "removing" /\ Unlocked(Home[s])
  /\ \E c \in busy[s].stale :
       /\ remove(c)
       /\ busy' = [busy EXCEPT ![s].stale = @ \ {c}]
  /\ UNCHANGED <<conn, pump, got, lost, published, going, feed>>

\* The end of PublishFor hands the message to a goroutine; of Deliver, not.
Finish(s) ==
  /\ busy[s].at = "removing" /\ busy[s].stale = {}
  /\ busy' = [busy EXCEPT ![s] = Idle]
  /\ going' = IF s \in Publishers THEN going \cup {busy[s].msg} ELSE going
  /\ UNCHANGED <<clients, channel, conn, pump, got, lost, published, feed, panic>>

\* forward's goroutine: Redis takes the message for every subscriber, or not.
Forward(m) ==
  /\ m \in going
  /\ going' = going \ {m}
  /\ \/ feed' = [i \in Instances |-> Append(feed[i], m)]
     \/ UNCHANGED feed
  /\ UNCHANGED <<clients, channel, conn, pump, got, lost, busy, published, panic>>

-----------------------------------------------------------------------------
\* The panel goes away, or stops answering pings.
Leave(c) ==
  /\ conn[c] = "open"
  /\ conn' = [conn EXCEPT ![c] = "gone"]
  /\ UNCHANGED <<clients, channel, pump, got, lost, busy, published, going, feed, panic>>

\* readPump ends when the socket does: remove, then close.
readPump(c) ==
  /\ "read" \in pump[c] /\ conn[c] \in {"gone", "closed"} /\ Unlocked(Home[c])
  /\ remove(c)
  /\ pump' = [pump EXCEPT ![c] = @ \ {"read"}]
  /\ conn' = [conn EXCEPT ![c] = "closed"]
  /\ UNCHANGED <<got, lost, busy, published, going, feed>>

\* writePump: one message written.
Write(c) ==
  /\ "write" \in pump[c] /\ conn[c] = "open" /\ channel[c].holds # <<>>
  /\ got' = [got EXCEPT ![c] = Append(@, Head(channel[c].holds))]
  /\ channel' = [channel EXCEPT ![c].holds = Tail(@)]
  /\ UNCHANGED <<clients, conn, pump, lost, busy, published, going, feed, panic>>

\* writePump ends: the channel was closed and is empty, or a write (of a
\* message or of a ping) failed or met its deadline.
WriteEnds(c) ==
  /\ "write" \in pump[c]
  /\ \/ channel[c].closed /\ channel[c].holds = <<>>
     \/ channel[c].holds # <<>>
     \/ conn[c] # "open"
  /\ pump' = [pump EXCEPT ![c] = @ \ {"write"}]
  /\ conn' = [conn EXCEPT ![c] = "closed"]
  /\ UNCHANGED <<clients, channel, got, lost, busy, published, going, feed, panic>>

-----------------------------------------------------------------------------
Next ==
  \/ \E c \in Clients : ServeHTTP(c) \/ Leave(c) \/ readPump(c) \/ Write(c) \/ WriteEnds(c)
  \/ \E p \in Publishers : PublishFor(p)
  \/ \E b \in Bridges : Deliver(b)
  \/ \E s \in Senders : Send(s) \/ Sent(s) \/ RemoveStale(s) \/ Finish(s)
  \/ \E m \in Message : Forward(m)

Spec == Init /\ [][Next]_vars

\* A goroutine inside broadcast is scheduled; a blocked write ends by its
\* deadline (writeWait) and a silent panel by pongWait, which ends the pumps.
\* Nothing makes a panel read: Write alone is not fair.
FairSpec ==
  /\ Spec
  /\ \A s \in Senders : WF_vars(Send(s) \/ Sent(s) \/ RemoveStale(s) \/ Finish(s))
  /\ \A c \in Clients : WF_vars(readPump(c)) /\ WF_vars(Write(c) \/ WriteEnds(c))

-----------------------------------------------------------------------------
\* The variables have their types, and no channel exceeds its capacity.
TypeOK ==
  /\ clients \in [Instances -> SUBSET Clients]
  /\ channel \in [Clients -> [holds : Seq(Message), closed : BOOLEAN]]
  /\ \A c \in Clients : Len(channel[c].holds) <= SendBuffer
  /\ conn \in [Clients -> {"none", "open", "gone", "closed"}]
  /\ pump \in [Clients -> SUBSET {"read", "write"}]
  /\ got \in [Clients -> Seq(Message)]
  /\ lost \subseteq Clients
  /\ busy \in [Senders -> [at : {"idle", "sending", "removing"}, msg : Message \cup {NoMsg},
                           todo : SUBSET Clients, stale : SUBSET Clients]]
  /\ published \in [Publishers -> Nat] /\ \A p \in Publishers : published[p] <= Quota[p]
  /\ going \subseteq Message
  /\ feed \in [Instances -> Seq(Message)]
  /\ panic \in BOOLEAN

\* The process never panics: no broadcast sends on a channel that was closed
\* and none is closed twice, although a slow client may be found by several
\* broadcasts at once while its own readPump removes it.
NoPanic == ~ panic

\* A panel is sent a message at most once, whether it comes from its own
\* instance or through Redis, and those of one publisher of its own instance
\* in the order they were published.
OnceAndInOrder ==
  \A c \in Clients :
    LET s == got[c] \o channel[c].holds
    IN  \A i, j \in 1..Len(s) : i < j =>
          /\ s[i] # s[j]
          /\ s[i].from = s[j].from /\ Origin(s[i]) = Home[c] => s[i].n < s[j].n

\* Publishing never waits for a panel: every broadcast ends although no panel
\* need ever read.
BroadcastEnds == \A s \in Senders : busy[s].at = "sending" ~> busy[s].at # "sending"

\* A panel that missed a message, or went away, is disconnected and forgotten:
\* its pumps end and the hub no longer holds it, so that it reconnects and
\* reloads instead of showing a gap.
LaggardLeaves ==
  \A c \in Clients : c \in lost \/ conn[c] = "gone" ~>
    conn[c] = "closed" /\ pump[c] = {} /\ c \notin clients[Home[c]]
=============================================================================
