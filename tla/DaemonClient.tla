---------------------------- MODULE DaemonClient ----------------------------
(***************************************************************************)
(* The Rust client of the daemon (crates/shidou-client/src/client.rs) and  *)
(* the desktop's proxy of a provider runtime (src/driver/mod.rs).          *)
(*                                                                         *)
(* One socket thread reads the daemon's messages.  It answers waiting      *)
(* requests, and hands each event of a runtime to the channel of whoever   *)
(* has subscribed to it, or keeps it until somebody does.  A forwarding    *)
(* thread per subscription carries the events on to the desktop, which     *)
(* may let go of a runtime and attach to it again (idle reaping, a fresh   *)
(* snapshot of the catalog, App Reload) while the daemon runs on.          *)
(*                                                                         *)
(* The maps of the client have one entry per runtime and the entries do    *)
(* not touch each other: the module has the entries of one runtime.  The   *)
(* hub sends every event, and may send one twice, to a connection that     *)
(* subscribes meanwhile (EventHub); the second time the sequence check     *)
(* drops it, so that here each comes once.                                 *)
(***************************************************************************)
EXTENDS Naturals, Sequences, FiniteSets

CONSTANTS
    Requests,       \* request ids
    MaxAttach,      \* bound: attachments of the desktop to the runtime
    MaxBegun,       \* bound: requests and attachments together
    MaxEvents,      \* bound: events of the runtime
    MaxBuffered,    \* MAX_BUFFERED_EVENTS_PER_RUNTIME
    Kinds           \* bound: the kinds of events there are, beside "resolved"

ASSUME ClientAssumption ==
    /\ MaxAttach \in Nat /\ MaxBegun \in Nat
    /\ MaxEvents \in Nat
    /\ MaxBuffered \in Nat \ {0}
    /\ Kinds \subseteq {"request", "finished", "error", "exited"}

Attachments == 1..MaxAttach

VARIABLES
    \* the daemon
    log,            \* the events it has reduced into the session, in order
    \* the socket thread
    thread,         \* "read", "track", "deliver", then "requests", "sinks", "gone"
    last,           \* last_sequences: the last event taken off the socket
    disconnected,   \* the flag requests look at
    \* the client's maps
    sink,           \* sessions: the attachment that is subscribed, or 0
    buffer,         \* pending_events: sequences nobody has subscribed to
    interaction,    \* pending_interactions: its sequence, or 0
    pending,        \* pending: requests that wait for a response
    outgoing,       \* requests in the outgoing channel or with the daemon
    \* requesters
    caller,         \* where each request's caller is
    answer,         \* what its response channel holds
    \* attachments
    phase,          \* "none", "asked", "ready", "live", "released"
    cursor,         \* the hydrated session's runtime_event_cursor
    offer,          \* the interaction the subscription returned, or 0
    channel,        \* the subscription's channel
    forwarder,      \* "none", "offer", "loop", "leave", "left", "done"
    seen,           \* sequences handed to the desktop, in order
    told,           \* the desktop was handed a processExited
    shown,          \* the interaction the desktop shows, or 0
    lost            \* history: the newest event dropped from a full buffer

requestState == <<pending, outgoing, caller, answer>>
streamState  == <<sink, buffer, interaction, lost>>
treeState    == <<phase, cursor, offer, channel, forwarder, seen, told, shown>>
socketState  == <<thread, last, disconnected>>
vars == <<log, socketState, streamState, requestState, treeState>>

Init ==
    /\ log = <<>>
    /\ thread = "read"
    /\ last = 0
    /\ disconnected = FALSE
    /\ sink = 0
    /\ buffer = <<>>
    /\ interaction = 0
    /\ pending = {}
    /\ outgoing = {}
    /\ caller = [q \in Requests |-> "idle"]
    /\ answer = [q \in Requests |-> "none"]
    /\ phase = [g \in Attachments |-> "none"]
    /\ cursor = [g \in Attachments |-> 0]
    /\ offer = [g \in Attachments |-> 0]
    /\ channel = [g \in Attachments |-> <<>>]
    /\ forwarder = [g \in Attachments |-> "none"]
    /\ seen = [g \in Attachments |-> <<>>]
    /\ told = [g \in Attachments |-> FALSE]
    /\ shown = [g \in Attachments |-> 0]
    /\ lost = 0

-----------------------------------------------------------------------------
(* Events.  A request for the user is identified by its own sequence. *)

Begun == Cardinality({q \in Requests : caller[q] # "idle"})
           + Cardinality({g \in Attachments : phase[g] # "none"})

Event(kind, of) == [kind |-> kind, of |-> of]

Open == {n \in DOMAIN log :
            /\ log[n].kind = "request"
            /\ \A m \in DOMAIN log : log[m] # Event("resolved", n)
            /\ \A m \in n..Len(log) : log[m].kind # "finished"}

Exited == \E n \in DOMAIN log : log[n].kind = "exited"

\* The daemon reduces one more event; it reaches this connection later.
Reduce(e) ==
    /\ Len(log) < MaxEvents
    /\ ~Exited
    /\ e.kind = "resolved" => e.of \in Open
    /\ log' = Append(log, e)
    /\ UNCHANGED <<socketState, streamState, requestState, treeState>>

\* track_pending_interaction
Tracked(n, current) ==
    IF log[n].kind = "request" THEN n
    ELSE IF log[n].kind = "resolved" /\ log[n].of # current THEN current
    ELSE 0

\* What the desktop shows after the event: an error leaves the prompt open.
Presented(n, current) ==
    IF log[n].kind = "error" THEN current ELSE Tracked(n, current)

-----------------------------------------------------------------------------
(* The socket thread, run_client *)

ReadEvent ==
    /\ thread = "read"
    /\ last < Len(log)
    /\ last' = last + 1
    /\ thread' = "track"
    /\ UNCHANGED <<log, disconnected, streamState, requestState, treeState>>

TrackInteraction ==
    /\ thread = "track"
    /\ interaction' = Tracked(last, interaction)
    /\ thread' = "deliver"
    /\ UNCHANGED <<log, last, disconnected, sink, buffer, lost, requestState, treeState>>

Item(n) == [seq |-> n, end |-> FALSE]

\* mutant: a full buffer refuses the new event
KeepOldest(entries) ==
    IF Len(entries) > MaxBuffered THEN SubSeq(entries, 1, MaxBuffered) ELSE entries

Bounded(entries) == IF Len(entries) > MaxBuffered THEN Tail(entries) ELSE entries

Deliver ==
    /\ thread = "deliver"
    /\ thread' = "read"
    /\ IF sink # 0
       THEN /\ channel' = [channel EXCEPT ![sink] = Append(@, Item(last))]
            /\ UNCHANGED <<buffer, lost>>
       ELSE /\ buffer' = Bounded(Append(buffer, last))
            /\ lost' = IF Len(buffer) = MaxBuffered THEN Head(buffer) ELSE lost
            /\ UNCHANGED channel
    /\ UNCHANGED <<log, last, disconnected, sink, interaction, requestState,
                   phase, cursor, offer, forwarder, seen, told, shown>>

\* The socket closes or fails, the daemon says ShuttingDown, or the
\* supervisor has sent Shutdown.
Disconnect ==
    /\ thread = "read"
    /\ thread' = "requests"
    /\ disconnected' = TRUE
    /\ UNCHANGED <<log, last, streamState, requestState, treeState>>

\* mutant: the requests that wait are forgotten
ForgetRequests ==
    /\ thread = "requests"
    /\ pending' = {}
    /\ thread' = "sinks"
    /\ UNCHANGED <<log, last, disconnected, streamState, outgoing, caller, answer, treeState>>

FailRequests ==
    /\ thread = "requests"
    /\ pending' = {}
    /\ answer' = [q \in Requests |->
                    IF q \in pending /\ answer[q] = "none" THEN "error" ELSE answer[q]]
    /\ thread' = "sinks"
    /\ UNCHANGED <<log, last, disconnected, streamState, outgoing, caller, treeState>>

\* The subscription is taken and told of the exit, with the cursor as it is;
\* the thread returns, and with it goes the receiver of the outgoing channel.
EndSinks ==
    /\ thread = "sinks"
    /\ sink' = 0
    /\ channel' = IF sink = 0 THEN channel
                  ELSE [channel EXCEPT ![sink] = Append(@, [seq |-> last, end |-> TRUE])]
    /\ thread' = "gone"
    /\ UNCHANGED <<log, last, disconnected, buffer, interaction, lost, requestState,
                   phase, cursor, offer, forwarder, seen, told, shown>>

-----------------------------------------------------------------------------
(* request *)

Goto(q, place) == caller' = [caller EXCEPT ![q] = place]

CheckConnected(q) ==
    /\ caller[q] = "idle"
    /\ Begun < MaxBegun                                         \* bound
    /\ Goto(q, IF disconnected THEN "failed" ELSE "checked")
    /\ UNCHANGED <<log, socketState, streamState, pending, outgoing, answer, treeState>>

Register(q) ==
    /\ caller[q] = "checked"
    /\ pending' = pending \cup {q}
    /\ Goto(q, "registered")
    /\ UNCHANGED <<log, socketState, streamState, outgoing, answer, treeState>>

Send(q) ==
    /\ caller[q] = "registered"
    /\ thread # "gone"
    /\ outgoing' = outgoing \cup {q}
    /\ Goto(q, "waiting")
    /\ UNCHANGED <<log, socketState, streamState, pending, answer, treeState>>

SendFails(q) ==
    /\ caller[q] = "registered"
    /\ thread = "gone"
    /\ pending' = pending \ {q}
    /\ Goto(q, "failed")
    /\ UNCHANGED <<log, socketState, streamState, outgoing, answer, treeState>>

\* The socket thread writes the request, the daemon carries it out and the
\* socket thread reads the response; a caller that has given up has taken its
\* entry with it.
Respond(q) ==
    /\ thread = "read"
    /\ q \in outgoing
    /\ outgoing' = outgoing \ {q}
    /\ pending' = pending \ {q}
    /\ answer' = IF q \in pending THEN [answer EXCEPT ![q] = "ok"] ELSE answer
    /\ UNCHANGED <<log, socketState, streamState, caller, treeState>>

Return(q) ==
    /\ caller[q] = "waiting"
    /\ answer[q] # "none"
    /\ Goto(q, IF answer[q] = "ok" THEN "succeeded" ELSE "failed")
    /\ UNCHANGED <<log, socketState, streamState, pending, outgoing, answer, treeState>>

\* mutant: the entry of a request that timed out is left behind
TimeoutLeaking(q) ==
    /\ caller[q] = "waiting"
    /\ answer[q] = "none"
    /\ Goto(q, "timed out")
    /\ UNCHANGED <<log, socketState, streamState, pending, outgoing, answer, treeState>>

\* REQUEST_TIMEOUT: recv_timeout gives up, the entry is removed.
Timeout(q) ==
    /\ caller[q] = "waiting"
    /\ answer[q] = "none"
    /\ pending' = pending \ {q}
    /\ Goto(q, "timed out")
    /\ UNCHANGED <<log, socketState, streamState, outgoing, answer, treeState>>

-----------------------------------------------------------------------------
(* Attaching: attach_driver asks for the session and its runtime and then    *)
(* subscribes (start_driver has asked for a new runtime: no cursor).         *)

Usable(g) == \A h \in Attachments : h < g => phase[h] = "released"

\* The daemon answers with the session it has reduced this far.
Hydrate(g, seq) ==
    /\ phase[g] = "none"
    /\ Begun < MaxBegun                                         \* bound
    /\ Usable(g)
    /\ thread = "read"
    /\ seq = Len(log) \/ (g = 1 /\ seq = 0)
    /\ cursor' = [cursor EXCEPT ![g] = seq]
    /\ phase' = [phase EXCEPT ![g] = "asked"]
    /\ UNCHANGED <<log, socketState, streamState, requestState,
                   offer, channel, forwarder, seen, told, shown>>

\* The response is read after the events that were sent before it: all that
\* were reduced by then, but for one whose thread was still to broadcast it.
Answered(g) ==
    /\ phase[g] = "asked"
    /\ thread = "read"
    /\ last + 1 >= cursor[g]
    /\ phase' = [phase EXCEPT ![g] = "ready"]
    /\ UNCHANGED <<log, socketState, streamState, requestState,
                   cursor, offer, channel, forwarder, seen, told, shown>>

\* subscribe_runtime, under the lock of the sessions map, and the new thread.
SubscribeRuntime(g) ==
    /\ phase[g] = "ready"
    /\ sink' = g
    /\ buffer' = <<>>
    /\ channel' = [channel EXCEPT ![g] = [i \in DOMAIN buffer |-> Item(buffer[i])]]
    /\ offer' = [offer EXCEPT ![g] = interaction]
    /\ phase' = [phase EXCEPT ![g] = "live"]
    /\ forwarder' = [forwarder EXCEPT ![g] = "offer"]
    /\ UNCHANGED <<log, socketState, interaction, lost, requestState,
                   cursor, seen, told, shown>>

\* mutant: whoever is subscribed is removed
RemoveAny(g) == 0

\* unsubscribe_runtime
Unsubscribed(g) == IF sink = g THEN 0 ELSE sink

\* The desktop drops the runtime: its receiver and its DriverHandle go.
Release(g) ==
    /\ phase[g] = "live"
    /\ phase' = [phase EXCEPT ![g] = "released"]
    /\ sink' = Unsubscribed(g)
    /\ shown' = [shown EXCEPT ![g] = 0]
    /\ UNCHANGED <<log, socketState, buffer, interaction, lost, requestState,
                   cursor, offer, channel, forwarder, seen, told>>

\* notify(Respond): the answer leaves, both copies of the question are closed.
AnswerUser(g) ==
    /\ phase[g] = "live"
    /\ shown[g] # 0
    /\ ~disconnected
    /\ shown' = [shown EXCEPT ![g] = 0]
    /\ interaction' = IF interaction = shown[g] THEN 0 ELSE interaction
    /\ UNCHANGED <<log, socketState, sink, buffer, lost, requestState,
                   phase, cursor, offer, channel, forwarder, seen, told>>

\* notify(Cancel) and notify(CloseSession)
CancelTurn(g) ==
    /\ phase[g] = "live"
    /\ ~disconnected
    /\ interaction # 0
    /\ interaction' = 0
    /\ shown' = [shown EXCEPT ![g] = 0]
    /\ UNCHANGED <<log, socketState, sink, buffer, lost, requestState,
                   phase, cursor, offer, channel, forwarder, seen, told>>

-----------------------------------------------------------------------------
(* The forwarding thread, forward_remote_events.  The desktop takes what it  *)
(* is handed in order: its channel is folded into `seen' and `shown'.        *)

Hand(g, n) ==
    /\ seen' = [seen EXCEPT ![g] = Append(@, n)]
    /\ told' = [told EXCEPT ![g] = @ \/ log[n].kind = "exited"]
    /\ shown' = [shown EXCEPT ![g] = Presented(n, @)]

Offer(g) ==
    /\ forwarder[g] = "offer"
    /\ forwarder' = [forwarder EXCEPT ![g] =
                        IF offer[g] # 0 /\ phase[g] # "live" THEN "leave" ELSE "loop"]
    /\ IF offer[g] # 0 /\ phase[g] = "live"
       THEN Hand(g, offer[g]) ELSE UNCHANGED <<seen, told, shown>>
    /\ UNCHANGED <<log, socketState, streamState, requestState,
                   phase, cursor, offer, channel>>

\* The interaction offered before, and what the hydrated session includes (an
\* exit made up before the first event has sequence 0 and no epoch).
AlreadyHas(g, n) == n # 0 /\ (n = offer[g] \/ n <= cursor[g])

Forward(g) ==
    LET item == Head(channel[g])
        skip == AlreadyHas(g, item.seq)
    IN  /\ forwarder[g] = "loop"
        /\ channel[g] # <<>>
        /\ channel' = [channel EXCEPT ![g] = Tail(@)]
        /\ IF skip THEN UNCHANGED <<forwarder, seen, told, shown>>
           ELSE IF phase[g] # "live"
           THEN /\ forwarder' = [forwarder EXCEPT ![g] = "leave"]
                /\ UNCHANGED <<seen, told, shown>>
           ELSE /\ IF item.end
                   THEN /\ told' = [told EXCEPT ![g] = TRUE]
                        /\ shown' = [shown EXCEPT ![g] = 0]
                        /\ UNCHANGED seen
                   ELSE Hand(g, item.seq)
                /\ UNCHANGED forwarder
        /\ UNCHANGED <<log, socketState, streamState, requestState, phase, cursor, offer>>

\* recv fails once the channel is empty and no map holds its sender.
ChannelEnds(g) ==
    /\ forwarder[g] = "loop"
    /\ channel[g] = <<>>
    /\ sink # g
    /\ forwarder' = [forwarder EXCEPT ![g] = "leave"]
    /\ UNCHANGED <<log, socketState, streamState, requestState,
                   phase, cursor, offer, channel, seen, told, shown>>

Leave(g) ==
    /\ forwarder[g] = "leave"
    /\ sink' = Unsubscribed(g)
    /\ forwarder' = [forwarder EXCEPT ![g] = "left"]
    /\ UNCHANGED <<log, socketState, buffer, interaction, lost, requestState,
                   phase, cursor, offer, channel, seen, told, shown>>

\* mutant: the thread ends without a word
FinishSilently(g) ==
    /\ forwarder[g] = "left"
    /\ forwarder' = [forwarder EXCEPT ![g] = "done"]
    /\ UNCHANGED <<log, socketState, streamState, requestState,
                   phase, cursor, offer, channel, seen, told, shown>>

\* An exit nobody saw is made up, so that the desktop hears of one.
Finish(g) ==
    /\ forwarder[g] = "left"
    /\ forwarder' = [forwarder EXCEPT ![g] = "done"]
    /\ IF phase[g] = "live" /\ ~told[g]
       THEN /\ told' = [told EXCEPT ![g] = TRUE]
            /\ shown' = [shown EXCEPT ![g] = 0]
       ELSE UNCHANGED <<told, shown>>
    /\ UNCHANGED <<log, socketState, streamState, requestState,
                   phase, cursor, offer, channel, seen>>

-----------------------------------------------------------------------------
Socket ==
    \/ ReadEvent
    \/ TrackInteraction
    \/ Deliver
    \/ FailRequests
    \/ EndSinks

Caller(q) ==
    \/ CheckConnected(q)
    \/ Register(q)
    \/ Send(q)
    \/ SendFails(q)
    \/ Return(q)

Desktop(g) ==
    \/ \E seq \in 0..MaxEvents : Hydrate(g, seq)
    \/ Answered(g)
    \/ SubscribeRuntime(g)
    \/ Release(g)
    \/ AnswerUser(g)
    \/ CancelTurn(g)

Forwarding(g) ==
    \/ Offer(g)
    \/ Forward(g)
    \/ ChannelEnds(g)
    \/ Leave(g)
    \/ Finish(g)

Next ==
    \/ \E kind \in Kinds : Reduce(Event(kind, 0))
    \/ \E n \in 1..MaxEvents : Reduce(Event("resolved", n))
    \/ Socket
    \/ Disconnect
    \/ \E q \in Requests : Caller(q) \/ Timeout(q) \/ Respond(q)
    \/ \E g \in Attachments : Desktop(g) \/ Forwarding(g)

Spec == Init /\ [][Next]_vars

\* The threads run; nothing makes the desktop, a daemon or a user act, and no
\* caller is helped by its two-minute timeout.
Fairness ==
    /\ WF_vars(Socket)
    /\ \A q \in Requests : WF_vars(Caller(q))
    /\ \A g \in Attachments : WF_vars(Forwarding(g))

LiveSpec == Spec /\ Fairness

-----------------------------------------------------------------------------
(* Properties *)

Streaming == thread \in {"read", "track", "deliver"}

Events == [kind : Kinds \cup {"resolved"}, of : 0..MaxEvents]

Items == [seq : 0..last, end : BOOLEAN]

SocketTypes ==
    /\ log \in Seq(Events)
    /\ Len(log) <= MaxEvents
    /\ thread \in {"read", "track", "deliver", "requests", "sinks", "gone"}
    /\ last \in 0..Len(log)
    /\ disconnected \in BOOLEAN /\ (disconnected <=> ~Streaming)

StreamTypes ==
    /\ sink \in 0..MaxAttach
    /\ buffer \in Seq(1..last) /\ Len(buffer) <= MaxBuffered
    /\ interaction \in 0..last
    /\ lost \in 0..last

RequestTypes ==
    /\ pending \subseteq Requests
    /\ outgoing \subseteq Requests
    /\ caller \in [Requests -> {"idle", "checked", "registered", "waiting",
                                 "succeeded", "failed", "timed out"}]
    /\ answer \in [Requests -> {"none", "ok", "error"}]

TreeTypes ==
    /\ phase \in [Attachments -> {"none", "asked", "ready", "live", "released"}]
    /\ cursor \in [Attachments -> 0..MaxEvents]
    /\ offer \in [Attachments -> 0..last]
    /\ channel \in [Attachments -> Seq(Items)]
    /\ forwarder \in [Attachments -> {"none", "offer", "loop", "leave", "left", "done"}]
    /\ seen \in [Attachments -> Seq(1..last)]
    /\ told \in [Attachments -> BOOLEAN]
    /\ shown \in [Attachments -> 0..last]

\* The types of all variables.
TypeOK == SocketTypes /\ StreamTypes /\ RequestTypes /\ TreeTypes

Attached(g) == phase[g] = "live" /\ forwarder[g] \in {"offer", "loop"}

\* unsubscribe_runtime "removes this attachment only if it is still the
\* registered owner" (client.rs:172): the forwarding thread of an earlier
\* attachment, which ends at any time, never takes the stream away from the
\* attachment that is in use.
OwnerKeepsStream ==
    \A g \in Attachments : Attached(g) /\ Streaming => sink = g

Elements(s) == {s[i] : i \in DOMAIN s}

Arriving(g) == {item.seq : item \in {x \in Elements(channel[g]) : ~x.end}}

\* The events the socket thread is done with.
Handled == IF thread \in {"track", "deliver"} THEN last - 1 ELSE last

\* Between the hydrated session and the stream nothing is missing: whatever
\* interleaves with the two requests of attach_driver and with the letting-go
\* of an earlier attachment, the desktop has, or has in its channel, every
\* event after its cursor that the client has handled, but for the oldest ones
\* of a buffer that overflowed.
NothingMissing ==
    \A g \in Attachments : Attached(g) =>
        \A n \in (cursor[g] + 1)..Handled :
            \/ n <= lost
            \/ n \in Elements(seen[g]) \cup Arriving(g)
            \/ n = offer[g]

\* An attachment is handed each event once, in order, and none that its
\* session includes; only the interaction it was offered comes before its turn.
InOrderOnce ==
    \A g \in Attachments : \A i, j \in DOMAIN seen[g] :
        /\ seen[g][i] <= cursor[g] => i = 1 /\ seen[g][i] = offer[g]
        /\ i < j => \/ seen[g][i] < seen[g][j]
                    \/ i = 1 /\ seen[g][1] = offer[g] /\ seen[g][j] # offer[g]

\* What an attachment gets is the session's events.
StreamIsWhole == NothingMissing /\ InOrderOnce

\* Every entry of the pending map has a caller that will remove it or is
\* answered: timeouts that race responses and the disconnect leave none behind.
PendingIsWaitedFor ==
    \A q \in pending : caller[q] \in {"registered", "waiting"} /\ answer[q] = "none"

\* The state has its types, and no request is forgotten.
RequestsAreKept == TypeOK /\ PendingIsWaitedFor

Finished == {"succeeded", "failed", "timed out"}

\* A request that is registered when the connection ends is answered by the
\* socket thread: its caller does not wait for the timeout.
DisconnectAnswers ==
    \A q \in Requests :
        thread = "requests" /\ q \in pending ~> caller[q] \in Finished

\* A desktop that is subscribed when the connection ends is told of an exit, so
\* that its task does not stay Working, also when the made-up exit carries a
\* sequence that the session already includes.
EndIsTold ==
    \A g \in Attachments :
        thread = "requests" /\ sink = g ~> told[g] \/ phase[g] = "released"

\* src/driver/mod.rs:91 "Surface that as an ordinary provider exit so the task
\* cannot remain stuck in Working": whenever the connection is gone, a task
\* that is attached to it hears of the exit.
NeverStuckWorking ==
    \A g \in Attachments :
        thread = "gone" /\ phase[g] = "live" ~> told[g] \/ phase[g] = "released"

CaughtUp(g) ==
    /\ Attached(g) /\ forwarder[g] = "loop" /\ channel[g] = <<>>
    /\ thread = "read"

\* client.rs:141 "The interaction may sit at or before the caller's persisted
\* replay cursor, but it still has to be reconstructed": an attachment that has
\* caught up was handed the interaction that the client holds unresolved.
InteractionIsOffered ==
    \A g \in Attachments : CaughtUp(g) /\ interaction # 0 =>
        interaction \in Elements(seen[g])

\* The same, for an interaction after the cursor, and what the user sees: the
\* prompt on screen is the one that is waited for.
NewestIsShown ==
    \A g \in Attachments : CaughtUp(g) /\ interaction > cursor[g] =>
        shown[g] = interaction

=============================================================================
