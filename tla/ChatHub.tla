------------------------------ MODULE ChatHub ------------------------------
(***************************************************************************)
(* The websocket hub of src/api_ws/api_ws.go: the runChatServer select     *)
(* loop, the goroutines it spawns per Subscribe, Unsubscribe, Echo and per *)
(* client of a Broadcast, the per-connection read loop of the /ws handler  *)
(* and the internal /broadcast-message endpoint that feeds Broadcast.      *)
(*                                                                         *)
(* Every channel of chatserver.Server is unbuffered, so a send is a        *)
(* producer blocked in a state until the hub takes it: the pending event   *)
(* lives in the sender's state (reader[c].out, bcast[b], a task in stage   *)
(* "unreg") and each hub action is one select case receiving it.           *)
(* Client structs outlive their registry entry (goroutines keep the        *)
(* pointer), so client[c] is kept apart from the registry `registered`.    *)
(* A goroutine's critical section under c.Mu is one atomic step; the only  *)
(* goroutine that holds c.Mu across a blocking step is a failed write      *)
(* waiting on `server.Unregister <- connection`, i.e. a task in "unreg".   *)
(***************************************************************************)
EXTENDS Naturals, FiniteSets

CONSTANTS
    Conns,       \* websocket connections (*websocket.Conn), model values
    Topics,      \* topic strings (opaque channel ids)
    Broadcasts,  \* requests to /v1/internal/broadcast-message
    MaxFrames,   \* bound on the text frames one connection reads
    NoTopic,     \* topic field of a task that has none
    NoBcast      \* broadcast field of a task that is not a delivery

VARIABLES
    reader,      \* reader[c]: the /ws handler goroutine of connection c
    transport,   \* transport[c] \in {"open", "closed"}: the socket
    registered,  \* DOMAIN of server.Clients
    client,      \* client[c]: the chatserver.Client struct of c
    tasks,       \* goroutines spawned by the hub loop, still running
    bcast,       \* bcast[b]: the broadcast-message request b
    \* history kept for the properties only
    hubSubs,     \* topics of c per the Subscribe/Unsubscribe events the hub took
    requested,   \* topics c has ever asked to subscribe to
    eligible,    \* eligible[b]: connections the hub's own view owed b to
    delivered,   \* <<b, c>>: the broadcast b was written to c
    lateWrites   \* <<b, c>>: b written to c after Unregister(c) was taken

vars == <<reader, transport, registered, client, tasks, bcast,
          hubSubs, requested, eligible, delivered, lateWrites>>

ReaderPCs == {"idle", "register", "read", "send", "unregister", "close", "done"}
EventKinds == {"echo", "subscribe", "unsubscribe"}
NoEvent == [kind |-> "none", topic |-> NoTopic]
Event == [kind : EventKinds, topic : Topics \cup {NoTopic}]
TaskKinds == {"sub", "unsub", "echo", "deliver"}
Task == [kind : TaskKinds, conn : Conns, topic : Topics \cup {NoTopic},
         seq : 0..MaxFrames, bcast : Broadcasts \cup {NoBcast},
         stage : {"run", "unreg"}]

-----------------------------------------------------------------------------
(* Helpers *)

\* c.Mu is held by a goroutine blocked on the Unregister send.
Locked(c) == \E t \in tasks : t.conn = c /\ t.stage = "unreg"

\* The goroutine go func() { ... }() the hub loop spawns.
Spawn(kind, c, topic, seq, b) ==
    [kind |-> kind, conn |-> c, topic |-> topic, seq |-> seq, bcast |-> b,
     stage |-> "run"]

\* A send stops blocking: the reader goes back to ReadMessage.
Resume(c) == reader' = [reader EXCEPT ![c] = [@ EXCEPT !.pc = "read", !.out = NoEvent]]

\* connection.WriteMessage: a write to a closed socket fails, a write to an
\* open one may fail (peer gone, network error).
WriteOutcomes(c) == IF transport[c] = "open" THEN {TRUE, FALSE} ELSE {FALSE}

-----------------------------------------------------------------------------
Init ==
    /\ reader = [c \in Conns |-> [pc |-> "idle", out |-> NoEvent, frames |-> 0]]
    /\ transport = [c \in Conns |-> "open"]
    /\ registered = {}
    /\ client = [c \in Conns |-> [topics |-> {}, closing |-> FALSE]]
    /\ tasks = {}
    /\ bcast = [b \in Broadcasts |-> [state |-> "unsent", topic |-> NoTopic]]
    /\ hubSubs = [c \in Conns |-> {}]
    /\ requested = [c \in Conns |-> {}]
    /\ eligible = [b \in Broadcasts |-> {}]
    /\ delivered = {}
    /\ lateWrites = {}

-----------------------------------------------------------------------------
(* The /ws handler: one goroutine per connection *)

\* ReadMessage can return a frame: the loop is reading, the socket is open
\* and the connection has frames left (the bound MaxFrames).
CanRead(c) ==
    /\ reader[c].pc = "read"
    /\ transport[c] = "open"
    /\ reader[c].frames < MaxFrames

\* AuthorizationWS passed and the upgrade happened: the handler starts and
\* blocks on `server.Register <- c`.
Connect(c) ==
    /\ reader[c].pc = "idle"
    /\ reader' = [reader EXCEPT ![c].pc = "register"]
    /\ UNCHANGED <<transport, registered, client, tasks, bcast, hubSubs,
                   requested, eligible, delivered, lateWrites>>

\* Mutant of ReadFrame: a subscribe or unsubscribe frame without a "topic"
\* key is forwarded (the `if !ok { return }` after data["topic"] dropped).
ReadFrameNoTopicCheck(c) ==
    /\ CanRead(c)
    /\ \E e \in Event :
        /\ (e.kind = "echo") => (e.topic = NoTopic)
        /\ reader' = [reader EXCEPT ![c] = [pc |-> "send", out |-> e,
                                            frames |-> @.frames + 1]]
        /\ requested' = [requested EXCEPT ![c] =
                            IF e.kind = "subscribe" THEN @ \cup {e.topic} ELSE @]
    /\ UNCHANGED <<transport, registered, client, tasks, bcast, hubSubs,
                   eligible, delivered, lateWrites>>

\* ReadMessage returns a text frame that maps to a hub event: "ping" is
\* echoed, {"type":"subscribe"|"unsubscribe","topic":t} is forwarded.
ReadFrame(c) ==
    /\ CanRead(c)
    /\ \E e \in Event :
        /\ (e.kind = "echo") = (e.topic = NoTopic)
        /\ reader' = [reader EXCEPT ![c] = [pc |-> "send", out |-> e,
                                            frames |-> @.frames + 1]]
        /\ requested' = [requested EXCEPT ![c] =
                            IF e.kind = "subscribe" THEN @ \cup {e.topic} ELSE @]
    /\ UNCHANGED <<transport, registered, client, tasks, bcast, hubSubs,
                   eligible, delivered, lateWrites>>

\* A ping control frame: fiber runs the ping handler installed at Register,
\* which takes c.Mu to set c.Lp.
ReadPing(c) ==
    /\ CanRead(c)
    /\ ~Locked(c)
    /\ reader' = [reader EXCEPT ![c].frames = @ + 1]
    /\ UNCHANGED <<transport, registered, client, tasks, bcast, hubSubs,
                   requested, eligible, delivered, lateWrites>>

\* The loop returns to the deferred Unregister: a read error (peer left), a
\* frame that is not JSON, has no "type", no "topic" or an unknown type.
ReaderExit(c) ==
    /\ reader[c].pc = "read"
    /\ transport[c] = "open"
    /\ reader' = [reader EXCEPT ![c].pc = "unregister"]
    /\ UNCHANGED <<transport, registered, client, tasks, bcast, hubSubs,
                   requested, eligible, delivered, lateWrites>>

\* ReadMessage on a socket a failed write closed returns an error at once.
ReaderConnLost(c) ==
    /\ reader[c].pc = "read"
    /\ transport[c] = "closed"
    /\ reader' = [reader EXCEPT ![c].pc = "unregister"]
    /\ UNCHANGED <<transport, registered, client, tasks, bcast, hubSubs,
                   requested, eligible, delivered, lateWrites>>

\* The deferred c.Close() after the Unregister send went through.
ReaderClose(c) ==
    /\ reader[c].pc = "close"
    /\ reader' = [reader EXCEPT ![c].pc = "done"]
    /\ transport' = [transport EXCEPT ![c] = "closed"]
    /\ UNCHANGED <<registered, client, tasks, bcast, hubSubs, requested,
                   eligible, delivered, lateWrites>>

(* BroadcastMessage: the body is parsed (the input struct has no validate  *)
(* tags) and sent on server.Broadcast, blocking until the hub takes it.    *)
PostBroadcast(b) ==
    /\ bcast[b].state = "unsent"
    /\ \E t \in Topics : bcast' = [bcast EXCEPT ![b] = [state |-> "pending", topic |-> t]]
    /\ UNCHANGED <<reader, transport, registered, client, tasks, hubSubs,
                   requested, eligible, delivered, lateWrites>>

-----------------------------------------------------------------------------
(* runChatServer: one select case per action *)

\* case connection := <-server.Register: a fresh Client, then the ping
\* handler is installed.
HubRegister(c) ==
    /\ reader[c].pc = "register"
    /\ registered' = registered \cup {c}
    /\ client' = [client EXCEPT ![c] = [topics |-> {}, closing |-> FALSE]]
    /\ Resume(c)
    /\ UNCHANGED <<transport, tasks, bcast, hubSubs, requested, eligible,
                   delivered, lateWrites>>

\* case message := <-server.Subscribe / <-server.Unsubscribe: if the
\* connection is in Clients, a goroutine edits c.Topics under c.Mu.
HubSubscription(c) ==
    /\ reader[c].pc = "send"
    /\ reader[c].out.kind \in {"subscribe", "unsubscribe"}
    /\ LET e == reader[c].out
           kind == IF e.kind = "subscribe" THEN "sub" ELSE "unsub"
       IN /\ tasks' = IF c \in registered
                      THEN tasks \cup {Spawn(kind, c, e.topic, reader[c].frames, NoBcast)}
                      ELSE tasks
          /\ hubSubs' = [hubSubs EXCEPT ![c] =
                            IF c \notin registered THEN @
                            ELSE IF kind = "sub" THEN @ \cup {e.topic}
                            ELSE @ \ {e.topic}]
    /\ Resume(c)
    /\ UNCHANGED <<transport, registered, client, bcast, requested, eligible,
                   delivered, lateWrites>>

\* case message := <-server.Echo: if the connection is in Clients, a
\* goroutine writes the ping back.
HubEcho(c) ==
    /\ reader[c].pc = "send"
    /\ reader[c].out.kind = "echo"
    /\ tasks' = IF c \in registered
                THEN tasks \cup {Spawn("echo", c, NoTopic, reader[c].frames, NoBcast)}
                ELSE tasks
    /\ Resume(c)
    /\ UNCHANGED <<transport, registered, client, bcast, hubSubs, requested,
                   eligible, delivered, lateWrites>>

\* case broadcast := <-server.Broadcast: one goroutine per client in
\* Clients, subscribed or not; the topic is checked in the goroutine.
HubBroadcast(b) ==
    /\ bcast[b].state = "pending"
    /\ tasks' = tasks \cup {Spawn("deliver", c, bcast[b].topic, 0, b) : c \in registered}
    /\ bcast' = [bcast EXCEPT ![b].state = "taken"]
    /\ eligible' = [eligible EXCEPT ![b] =
                       {c \in registered : bcast[b].topic \in hubSubs[c]}]
    /\ UNCHANGED <<reader, transport, registered, client, hubSubs, requested,
                   delivered, lateWrites>>

\* case connection := <-server.Unregister from the /ws handler's defer:
\* delete(server.Clients, connection); the handler then closes the socket.
HubUnregisterReader(c) ==
    /\ reader[c].pc = "unregister"
    /\ registered' = registered \ {c}
    /\ hubSubs' = [hubSubs EXCEPT ![c] = {}]
    /\ reader' = [reader EXCEPT ![c].pc = "close"]
    /\ UNCHANGED <<transport, client, tasks, bcast, requested, eligible,
                   delivered, lateWrites>>

\* Mutant of HubUnregisterTask: the Unregister case takes c.Mu (say to set
\* IsClosing) before deleting, so it waits for the lock its sender holds.
HubUnregisterTaskLocking(t) ==
    /\ t.stage = "unreg"
    /\ ~Locked(t.conn)
    /\ registered' = registered \ {t.conn}
    /\ hubSubs' = [hubSubs EXCEPT ![t.conn] = {}]
    /\ tasks' = tasks \ {t}
    /\ UNCHANGED <<reader, transport, client, bcast, requested, eligible,
                   delivered, lateWrites>>

\* The same case, the sender being a goroutine whose write failed: once the
\* send is taken it returns and its deferred c.Mu.Unlock() runs.
HubUnregisterTask(t) ==
    /\ t.stage = "unreg"
    /\ registered' = registered \ {t.conn}
    /\ hubSubs' = [hubSubs EXCEPT ![t.conn] = {}]
    /\ tasks' = tasks \ {t}
    /\ UNCHANGED <<reader, transport, client, bcast, requested, eligible,
                   delivered, lateWrites>>

-----------------------------------------------------------------------------
(* The goroutines the hub spawns; each body runs under c.Mu *)

RunSubscription(t) ==
    /\ t.stage = "run"
    /\ t.kind \in {"sub", "unsub"}
    /\ ~Locked(t.conn)
    /\ client' = [client EXCEPT ![t.conn].topics =
                     IF t.kind = "sub" THEN @ \cup {t.topic} ELSE @ \ {t.topic}]
    /\ tasks' = tasks \ {t}
    /\ UNCHANGED <<reader, transport, registered, bcast, hubSubs, requested,
                   eligible, delivered, lateWrites>>

\* Mutant of WriteFailed: the failed write only sets IsClosing and returns,
\* without closing the socket or sending Unregister.
WriteFailedNoCleanup(t) ==
    /\ client' = [client EXCEPT ![t.conn].closing = TRUE]
    /\ tasks' = tasks \ {t}
    /\ UNCHANGED transport

\* A write that fails marks the client closing, closes the socket and keeps
\* c.Mu while it blocks on `server.Unregister <- connection`.
WriteFailed(t) ==
    /\ client' = [client EXCEPT ![t.conn].closing = TRUE]
    /\ transport' = [transport EXCEPT ![t.conn] = "closed"]
    /\ tasks' = (tasks \ {t}) \cup {[t EXCEPT !.stage = "unreg"]}

\* Mutant of Skips: the Broadcast goroutine does not check c.Topics.
SkipsClosingOnly(t) == client[t.conn].closing

\* The goroutine returns without writing: the client is closing, or it is a
\* Broadcast goroutine and c.Topics lacks the topic.
Skips(t) ==
    \/ client[t.conn].closing
    \/ t.kind = "deliver" /\ t.topic \notin client[t.conn].topics

\* The Echo goroutine and the Broadcast goroutine. An Echo writes whenever
\* the client is not closing; a Broadcast only if c.Topics holds its topic.
RunWrite(t) ==
    /\ t.stage = "run"
    /\ t.kind \in {"echo", "deliver"}
    /\ ~Locked(t.conn)
    /\ IF Skips(t)
       THEN /\ tasks' = tasks \ {t}
            /\ UNCHANGED <<transport, client, delivered, lateWrites>>
       ELSE \E ok \in WriteOutcomes(t.conn) :
              IF ok
              THEN /\ tasks' = tasks \ {t}
                   /\ delivered' = IF t.kind = "deliver"
                                   THEN delivered \cup {<<t.bcast, t.conn>>}
                                   ELSE delivered
                   /\ lateWrites' = IF t.kind = "deliver" /\ t.conn \notin registered
                                    THEN lateWrites \cup {<<t.bcast, t.conn>>}
                                    ELSE lateWrites
                   /\ UNCHANGED <<transport, client>>
              ELSE /\ WriteFailed(t)
                   /\ UNCHANGED <<delivered, lateWrites>>
    /\ UNCHANGED <<reader, registered, bcast, hubSubs, requested, eligible>>

-----------------------------------------------------------------------------
\* Every producer is done and every goroutine has returned.
Quiescent ==
    /\ \A c \in Conns : reader[c].pc = "done"
    /\ \A b \in Broadcasts : bcast[b].state = "taken"
    /\ tasks = {}

Done == Quiescent /\ UNCHANGED vars

Next ==
    \/ \E c \in Conns :
        \/ Connect(c) \/ ReadFrame(c) \/ ReadPing(c) \/ ReaderExit(c)
        \/ ReaderConnLost(c) \/ ReaderClose(c)
        \/ HubRegister(c) \/ HubSubscription(c) \/ HubEcho(c)
        \/ HubUnregisterReader(c)
    \/ \E b \in Broadcasts : PostBroadcast(b) \/ HubBroadcast(b)
    \/ \E t \in tasks : HubUnregisterTask(t) \/ RunSubscription(t) \/ RunWrite(t)
    \/ Done

(* Fairness. The clients (Connect, frames, leaving) and the broadcasters   *)
(* are not fair: they may stop. Go's select picks uniformly among ready    *)
(* cases and a blocked sender stays ready, so every receive is weakly      *)
(* fair. A goroutine needs c.Mu, which a blocked writer can hold and then  *)
(* release; sync.Mutex's starvation mode hands it to waiters, so its steps *)
(* are strongly fair. ReadMessage on a closed socket and the deferred      *)
(* Close are local steps of a running goroutine: weakly fair.              *)
Fairness ==
    /\ \A c \in Conns :
        /\ WF_vars(HubRegister(c)) /\ WF_vars(HubSubscription(c))
        /\ WF_vars(HubEcho(c)) /\ WF_vars(HubUnregisterReader(c))
        /\ WF_vars(ReaderConnLost(c)) /\ WF_vars(ReaderClose(c))
        /\ WF_vars(\E t \in tasks : t.conn = c /\ HubUnregisterTask(t))
        /\ SF_vars(\E t \in tasks : t.conn = c /\ RunSubscription(t))
        /\ SF_vars(\E t \in tasks : t.conn = c /\ RunWrite(t))
    /\ \A b \in Broadcasts : WF_vars(HubBroadcast(b))

Spec == Init /\ [][Next]_vars /\ Fairness

-----------------------------------------------------------------------------
(* Properties *)

TypeOK ==
    /\ reader \in [Conns -> [pc : ReaderPCs, out : Event \cup {NoEvent},
                             frames : 0..MaxFrames]]
    /\ transport \in [Conns -> {"open", "closed"}]
    /\ registered \subseteq Conns
    /\ client \in [Conns -> [topics : SUBSET Topics, closing : BOOLEAN]]
    /\ tasks \subseteq Task
    /\ bcast \in [Broadcasts -> [state : {"unsent", "pending", "taken"},
                                 topic : Topics \cup {NoTopic}]]
    /\ hubSubs \in [Conns -> SUBSET Topics]
    /\ requested \in [Conns -> SUBSET Topics]
    /\ eligible \in [Broadcasts -> SUBSET Conns]
    /\ delivered \subseteq Broadcasts \X Conns
    /\ lateWrites \subseteq delivered

\* A broadcast is written to a connection only for a topic that connection
\* itself asked to subscribe to: the topic check in the Broadcast goroutine
\* and c.Topics, which only that connection's Subscribe events fill.
OnlySubscribersReceive ==
    \A d \in delivered : bcast[d[1]].topic \in requested[d[2]]

\* Every goroutine the hub spawns returns, including a failed writer that
\* blocks on the unbuffered Unregister channel while it holds c.Mu.
GoroutinesReturn == (tasks # {}) ~> (tasks = {})

\* A connection whose write failed (Client.IsClosing) leaves server.Clients,
\* whatever its client does next.
ClosingLeavesRegistry ==
    \A c \in Conns : client[c].closing ~> c \notin registered

(* The spec (section 8): a connection receives a Broadcast for T only if  *)
(* the hub took its Subscribe(T) before it took the Broadcast, with no     *)
(* Unsubscribe(T) or Unregister taken in between.                          *)
BroadcastFollowsHubOrder ==
    \A d \in delivered : d[2] \in eligible[d[1]]

(* The spec (section 8): after Unregister(c), any Echo or Broadcast       *)
(* reaching c is skipped, even one enqueued before the Unregister.          *)
NoWriteAfterUnregister == lateWrites = {}

(* The spec (section 4.3): Subscribe/Unsubscribe add or remove the topic   *)
(* of a registered connection; once the goroutines have run, c.Topics is  *)
(* what the events the hub took, in the order it took them, say.           *)
SubscriptionsFollowRequests ==
    \A c \in registered :
        (~\E t \in tasks : t.conn = c /\ t.kind \in {"sub", "unsub"})
            => client[c].topics = hubSubs[c]

=============================================================================
