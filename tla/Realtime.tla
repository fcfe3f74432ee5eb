------------------------------- MODULE Realtime -------------------------------
(***************************************************************************)
(* The WebSocket endpoint, the broker behind it and presence, on one       *)
(* instance of the application.  Coroutines interleave at their awaits: the *)
(* broker changes its listeners under a lock that it keeps while it writes *)
(* to Redis, which acts on what was written later.  Events are left out,   *)
(* but for what sending one to a closed socket does.                       *)
(***************************************************************************)
EXTENDS Naturals, Sequences

CONSTANTS
  Connections,   \* a client's WebSocket; it is not used again once closed
  Tickets,
  TicketOf,      \* what each connection presents
  UserOf,        \* who each ticket was issued to
  Wanted,        \* the channels each client asks for and may have
  Channels,
  IncidentChannels,   \* those of an incident, which have viewers
  MaxCommands,   \* bound on the commands on their way to Redis
  Nobody

ASSUME RealtimeAssumption ==
  /\ TicketOf \in [Connections -> Tickets]
  /\ Wanted \in [Connections -> SUBSET Channels]
  /\ IncidentChannels \subseteq Channels
  /\ MaxCommands \in Nat \ {0}
  /\ Nobody \notin Connections \union Channels

VARIABLES
  tickets,       \* keys in Redis: "unissued", "live" or "gone"
  conn,          \* the handler of each connection, and its cleanup
  deliver,       \* its deliver task: "none", "up", "failed" or "cancelled"
  hungUp,        \* connections that are closed, at either end
  local,         \* _local, the listeners of each channel
  lock,          \* who holds _lock
  commands,      \* written to the pub/sub socket and not yet acted on
  subs,          \* what Redis relays to this instance
  presence,      \* the users in each presence set
  orphans        \* history: <<connection, step, channel>> of unsubscribes that
                 \* were interrupted, which no cleanup goes on with

sockVars == <<tickets, conn, deliver, hungUp>>
brokerVars == <<local, lock, commands, subs>>
rtVars == <<sockVars, brokerVars, presence, orphans>>

Away == [pc |-> "away", channel |-> Nobody, subscribed |-> {}, ending |-> FALSE]

RealtimeInit ==
  /\ tickets = [t \in Tickets |-> "unissued"]
  /\ conn = [c \in Connections |-> Away]
  /\ deliver = [c \in Connections |-> "none"]
  /\ hungUp = {}
  /\ local = [ch \in Channels |-> {}]
  /\ lock = Nobody
  /\ commands = <<>> /\ subs = {}
  /\ presence = [ch \in IncidentChannels |-> {}]
  /\ orphans = {}

User(c) == UserOf[TicketOf[c]]
Upon(c, pc) == conn[c].pc = pc
To(c, pc) == conn' = [conn EXCEPT ![c].pc = pc]
Back(c, pc) == conn' = [conn EXCEPT ![c].pc = pc, ![c].channel = Nobody]
End(c, pc) == conn' = [conn EXCEPT ![c] = [Away EXCEPT !.pc = pc, !.ending = TRUE]]

-----------------------------------------------------------------------------
(* Tickets and connecting.                                                 *)

IssueTicket(t) ==
  /\ tickets[t] = "unissued"
  /\ tickets' = [tickets EXCEPT ![t] = "live"]
  /\ UNCHANGED <<conn, deliver, hungUp, brokerVars, presence, orphans>>

ExpireTicket(t) ==
  /\ tickets[t] = "live"
  /\ tickets' = [tickets EXCEPT ![t] = "gone"]
  /\ UNCHANGED <<conn, deliver, hungUp, brokerVars, presence, orphans>>

\* GETDEL; one that presents anything else is closed with 4401.
Connect(c) ==
  /\ Upon(c, "away")
  /\ tickets[TicketOf[c]] = "live"
  /\ tickets' = [tickets EXCEPT ![TicketOf[c]] = "gone"]
  /\ To(c, "open")
  /\ deliver' = [deliver EXCEPT ![c] = "up"]
  /\ UNCHANGED <<hungUp, brokerVars, presence, orphans>>

-----------------------------------------------------------------------------
(* Events.                                                                 *)

\* An event is published, on any instance, and _listen puts it in the queue of
\* each listener here; a deliver task raises when it finds its socket closed.
Relay(ch) ==
  /\ ch \in subs
  /\ deliver' = [c \in Connections |->
       IF c \in local[ch] \intersect hungUp /\ deliver[c] = "up"
         THEN "failed" ELSE deliver[c]]
  /\ UNCHANGED <<tickets, conn, hungUp, brokerVars, presence, orphans>>

RedisActs ==
  /\ commands # <<>>
  /\ LET cmd == Head(commands)
     IN subs' = IF cmd[1] = "subscribe" THEN subs \union {cmd[2]} ELSE subs \ {cmd[2]}
  /\ commands' = Tail(commands)
  /\ UNCHANGED <<sockVars, local, lock, presence, orphans>>

-----------------------------------------------------------------------------
(* Frames.                                                                 *)

Ping(c) ==
  /\ Upon(c, "open")
  /\ c \notin hungUp
  /\ presence' = [ch \in IncidentChannels |->
       presence[ch] \union (IF ch \in conn[c].subscribed THEN {User(c)} ELSE {})]
  /\ UNCHANGED <<sockVars, brokerVars, orphans>>

\* _channel_allowed; a refusal and a repeated subscription change nothing.
Subscribe(c, ch) ==
  /\ Upon(c, "open")
  /\ c \notin hungUp
  /\ ch \notin conn[c].subscribed
  /\ conn' = [conn EXCEPT ![c].pc = "add", ![c].channel = ch]
  /\ UNCHANGED <<tickets, deliver, hungUp, brokerVars, presence, orphans>>

Unsubscribe(c, ch) ==
  /\ Upon(c, "open")
  /\ c \notin hungUp
  /\ ch \in conn[c].subscribed
  /\ conn' = [conn EXCEPT ![c].pc = "drop", ![c].channel = ch,
                          ![c].subscribed = @ \ {ch}]
  /\ UNCHANGED <<tickets, deliver, hungUp, brokerVars, presence, orphans>>

-----------------------------------------------------------------------------
(* add_subscriber and remove_subscriber.                                   *)

\* A bug the broker could have had: it takes no lock.
MayLockAnyway(c) == TRUE

MayLock(c) == lock = Nobody

\* From listeners.add to subscribed.add there is no await.
Listen(c) ==
  LET ch == conn[c].channel
  IN /\ local' = [local EXCEPT ![ch] = @ \union {c}]
     /\ conn' = [conn EXCEPT ![c].subscribed = @ \union {ch},
                   ![c].pc = IF ch \in IncidentChannels THEN "arrive" ELSE "open",
                   ![c].channel = IF ch \in IncidentChannels THEN ch ELSE Nobody]

AddSubscriber(c) ==
  /\ Upon(c, "add")
  /\ MayLock(c)
  /\ \/ /\ local[conn[c].channel] # {}
        /\ Listen(c)
        /\ lock' = lock
     \/ /\ local[conn[c].channel] = {}
        /\ To(c, "subscribing")
        /\ local' = local
        /\ lock' = c
  /\ UNCHANGED <<tickets, deliver, hungUp, commands, subs, presence, orphans>>

Write(cmd, ch) == /\ Len(commands) < MaxCommands
                  /\ commands' = Append(commands, <<cmd, ch>>)

WriteSubscribe(c) ==
  /\ Upon(c, "subscribing")
  /\ Write("subscribe", conn[c].channel)
  /\ Listen(c)
  /\ lock' = Nobody
  /\ UNCHANGED <<tickets, deliver, hungUp, subs, presence, orphans>>

RemoveSubscriber(c) ==
  LET ch == conn[c].channel
  IN /\ Upon(c, "drop")
     /\ MayLock(c)
     /\ local' = [local EXCEPT ![ch] = @ \ {c}]
     /\ \/ /\ local'[ch] # {}
           /\ To(c, "leave")
           /\ lock' = lock
        \/ /\ local'[ch] = {}
           /\ To(c, "unsubscribing")
           /\ lock' = c
     /\ UNCHANGED <<tickets, deliver, hungUp, commands, subs, presence, orphans>>

WriteUnsubscribe(c) ==
  /\ Upon(c, "unsubscribing")
  /\ Write("unsubscribe", conn[c].channel)
  /\ To(c, "leave")
  /\ lock' = Nobody
  /\ UNCHANGED <<tickets, deliver, hungUp, local, subs, presence, orphans>>

-----------------------------------------------------------------------------
(* Presence, which is announced on the channel: see Relay.                 *)

Arrive(c) ==
  /\ Upon(c, "arrive")
  /\ presence' = [presence EXCEPT ![conn[c].channel] = @ \union {User(c)}]
  /\ Back(c, "open")
  /\ UNCHANGED <<tickets, deliver, hungUp, brokerVars, orphans>>

\* The user goes, whether or not they watch the incident on another connection.
Leave(c) ==
  LET ch == conn[c].channel
  IN /\ Upon(c, "leave")
     /\ presence' = IF ch \in IncidentChannels
                      THEN [presence EXCEPT ![ch] = @ \ {User(c)}] ELSE presence
     /\ Back(c, IF conn[c].ending THEN "cleanup" ELSE "open")
     /\ UNCHANGED <<tickets, deliver, hungUp, brokerVars, orphans>>

\* presence_viewers forgets who was not touched within the window; a client that
\* pings as it should is touched more often.
Lapse(ch) ==
  \E u \in presence[ch] :
    /\ \A c \in Connections :
         User(c) = u => c \in hungUp \/ ch \notin conn[c].subscribed
    /\ presence' = [presence EXCEPT ![ch] = @ \ {u}]
    /\ UNCHANGED <<sockVars, brokerVars, orphans>>

-----------------------------------------------------------------------------
(* The end of a connection.                                                *)

Running(c) == conn[c].pc \notin {"away", "gone", "aborted"}

\* The client goes or is silent for 60 seconds.
HangUp(c) ==
  /\ Running(c)
  /\ ~conn[c].ending
  /\ c \notin hungUp
  /\ hungUp' = hungUp \union {c}
  /\ UNCHANGED <<tickets, conn, deliver, brokerVars, presence, orphans>>

\* ConnectionRegistry.drain, when the application shuts down.
Drain ==
  LET registered == {c \in Connections : Running(c) /\ ~conn[c].ending}
  IN /\ registered \ hungUp # {}
     /\ hungUp' = hungUp \union registered
     /\ UNCHANGED <<tickets, conn, deliver, brokerVars, presence, orphans>>

Finally(c) == [conn[c] EXCEPT !.pc = "closing", !.ending = TRUE,
                                     !.channel = Nobody]

\* receive_json finds the socket closed.
Disconnect(c) ==
  /\ Upon(c, "open")
  /\ c \in hungUp
  /\ conn' = [conn EXCEPT ![c] = Finally(c)]
  /\ UNCHANGED <<tickets, deliver, hungUp, brokerVars, presence, orphans>>

\* The handler is cancelled, or an await of it raises, before the command was
\* written or after; the lock is released on the way out.
Interrupt(c) ==
  LET ch == conn[c].channel
  IN /\ Running(c)
     /\ ~conn[c].ending
     /\ conn' = [conn EXCEPT ![c] = Finally(c)]
     /\ hungUp' = hungUp \union {c}
     /\ lock' = IF lock = c THEN Nobody ELSE lock
     /\ orphans' = orphans \union
          (IF conn[c].pc \in {"drop", "unsubscribing", "leave"}
             THEN {<<c, conn[c].pc, ch>>} ELSE {})
     /\ \/ commands' = commands
        \/ Upon(c, "subscribing") /\ Write("subscribe", ch)
        \/ Upon(c, "unsubscribing") /\ Write("unsubscribe", ch)
     /\ UNCHANGED <<tickets, deliver, local, subs, presence>>

\* A bug the cleanup could have had: it awaits a deliver task that it did not cancel.
AwaitDeliver(c) ==
  /\ Upon(c, "closing")
  /\ deliver[c] = "failed"
  /\ End(c, "aborted")
  /\ UNCHANGED <<tickets, deliver, hungUp, brokerVars, presence, orphans>>

\* _cleanup, in a task that nobody cancels.  Awaiting a deliver task that has
\* failed raises what it raised, and nothing is cleaned up.
StartCleanup(c) ==
  /\ Upon(c, "closing")
  /\ IF deliver[c] = "failed"
       THEN End(c, "aborted") /\ deliver' = deliver
       ELSE To(c, "cleanup") /\ deliver' = [deliver EXCEPT ![c] = "cancelled"]
  /\ UNCHANGED <<tickets, hungUp, brokerVars, presence, orphans>>

CleanNext(c) ==
  /\ Upon(c, "cleanup")
  /\ IF conn[c].subscribed = {}
       THEN End(c, "gone")
       ELSE \E ch \in conn[c].subscribed :
              conn' = [conn EXCEPT ![c].pc = "drop", ![c].channel = ch,
                                   ![c].subscribed = @ \ {ch}]
  /\ UNCHANGED <<tickets, deliver, hungUp, brokerVars, presence, orphans>>

\* Redis fails while the cleanup writes to it.
CleanupFails(c) ==
  /\ conn[c].ending
  /\ conn[c].pc \in {"unsubscribing", "leave"}
  /\ End(c, "aborted")
  /\ lock' = IF lock = c THEN Nobody ELSE lock
  /\ UNCHANGED <<tickets, deliver, hungUp, local, commands, subs, presence,
                 orphans>>

Step(c) ==
  \/ AddSubscriber(c) \/ WriteSubscribe(c)
  \/ RemoveSubscriber(c) \/ WriteUnsubscribe(c)
  \/ Arrive(c) \/ Leave(c)
  \/ Disconnect(c) \/ StartCleanup(c) \/ CleanNext(c)

RealtimeNext ==
  \/ \E t \in Tickets : IssueTicket(t) \/ ExpireTicket(t)
  \/ \E c \in Connections :
       \/ Connect(c) \/ Ping(c)
       \/ \E ch \in Wanted[c] : Subscribe(c, ch) \/ Unsubscribe(c, ch)
       \/ Step(c) \/ HangUp(c) \/ Interrupt(c) \/ CleanupFails(c)
  \/ \E ch \in Channels : Relay(ch)
  \/ \E ch \in IncidentChannels : Lapse(ch)
  \/ Drain \/ RedisActs

\* The event loop runs every coroutine that can go on, asyncio.Lock is handed to
\* waiters in order, and Redis answers.
RealtimeFairness ==
  /\ \A c \in Connections : SF_rtVars(Step(c))
  /\ WF_rtVars(RedisActs)

RealtimeSpec == RealtimeInit /\ [][RealtimeNext]_rtVars /\ RealtimeFairness

-----------------------------------------------------------------------------
\* What Redis will relay once it has acted on everything written.
Subscribed(ch) ==
  LET of == {i \in DOMAIN commands : commands[i][2] = ch}
  IN IF of = {} THEN ch \in subs
     ELSE \E i \in of : commands[i][1] = "subscribe" /\ \A j \in of : j <= i

(* A channel somebody listens to is one Redis relays, as soon as it has     *)
(* acted on what was written: no interleaving of first subscribers, last    *)
(* leavers, cancelled handlers and cleanups silences a listener.            *)
ListenersAreFed == \A ch \in Channels : local[ch] # {} => Subscribed(ch)

\* A connection of the user that has the channel, or lost it without leaving.
Watching(u, ch) ==
  \E c \in Connections :
    /\ User(c) = u
    /\ \/ ch \in conn[c].subscribed \union {conn[c].channel}
       \/ Upon(c, "aborted")
       \/ \E o \in orphans : o[1] = c /\ o[3] = ch

Forgotten(c) ==
  \A ch \in Channels :
    /\ c \in local[ch] => <<c, "drop", ch>> \in orphans
    /\ ch \in IncidentChannels /\ User(c) \in presence[ch] => Watching(User(c), ch)

(* "Run cleanup in its own shielded task so departures always broadcast"    *)
(* (api/realtime_ws.py): however a connection ends, its cleanup comes to an *)
(* end and leaves it in no set of listeners and its user in no presence set *)
(* on its account, unless its deliver task had failed or Redis fails the    *)
(* cleanup; a channel whose unsubscribe was interrupted is not cleaned.     *)
DepartedIsForgotten ==
  \A c \in Connections :
    Upon(c, "closing") ~> (Upon(c, "gone") /\ Forgotten(c)) \/ Upon(c, "aborted")
===============================================================================
