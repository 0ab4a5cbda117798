------------------------------------- MODULE MatterHome -------------------------------------
(***************************************************************************)
(* Matter devices in the home: the connection to the Matter server, the     *)
(* listings and events it sends, commissioning sessions, commands, removal, *)
(* and the Thread border router that brings the server                      *)
(* (src/src/matterBridge.js, integrations/matter, threadService.js).        *)
(*                                                                          *)
(* A handler runs up to its await of a save: the records change at once,    *)
(* what follows the save comes later, and other handlers run in between.    *)
(* A save succeeds: StateStore is about those that do not.                  *)
(***************************************************************************)
EXTENDS Naturals, FiniteSets, SequencesExt, Functions, TLC

CONSTANTS
  Node,        \* the physical devices, each with a setup code
  Homes,       \* the sets of devices the home begins with
  Session,     \* bound: pairing sessions started
  MaxSockets,  \* bound: connections at a time
  Scenarios    \* bounds: how often each kind of event happens

Kinds == {"drops", "downs", "urls", "changes", "leaves", "removals", "timeouts", "faults", "assigned", "cancels", "commands", "refreshes", "sessions"}
Socket == 1..MaxSockets

VARIABLES
  home,      \* the registry's Matter devices
  bridge,    \* MatterBridge: url, stopped, connected, socket, reconnect timers, allowNewNodes
  pending,   \* MatterBridge: pending
  wires,     \* the WebSockets, each with what is on its way to the hub
  jobs,      \* ingestNodes, for each of its callers
  saving,    \* ingestNodeEvent: the nodes whose save it awaits
  sessions,  \* MatterPairingSession: sessions
  removing,  \* the removals in progress
  server,    \* the Matter server: up, its nodes and their state, the requests that reached it
  thread,    \* the Thread settings, and the requests about them in progress
  budget,    \* the events that are left of the scenario
  hist       \* history
hub == <<home, bridge, pending, jobs, saving, sessions, removing>>
vars == <<hub, wires, server, thread, budget, hist>>

None == "none"
Jobs == {"open", "late"} \cup Session
ASSUME MatterAssumption ==
  /\ IsFiniteSet(Node) /\ None \notin Node /\ Homes \subseteq SUBSET Node
  /\ Session \cap {"open", "late"} = {}
  /\ MaxSockets \in Nat \ {0} /\ Scenarios \subseteq [Kinds -> Nat]
Spend(kind) == budget[kind] > 0 /\ budget' = [budget EXCEPT ![kind] = @ - 1]

\* A record's name holds the fabric: "default" until the server tells another.
Named(n) == <<n, "home">>
Unnamed(n) == <<n, "default">>
Records(n) == {r \in DOMAIN home : r[1] = n}
Known == {r[1] : r \in DOMAIN home}

NoJob == [on |-> FALSE, allow |-> FALSE, todo |-> <<>>, saving |-> FALSE]
NoSession == [pc |-> "idle", stage |-> "commissioning", node |-> None, device |-> None, base |-> {}, kept |-> FALSE]
NoWire == [phase |-> "none", inbox |-> <<>>, listening |-> FALSE]

\* A hub with some nodes set up, whose Thread adapter, and with it the URL of
\* the server, is selected; one that has never been connected; or a remote server.
Init ==
  /\ budget \in Scenarios
  /\ \E nodes \in Homes, configured \in BOOLEAN :
       /\ nodes = {} \/ configured
       /\ server = [up |-> configured, nodes |-> nodes, value |-> [n \in Node |-> 0], asked |-> {}]
       /\ home = [r \in nodes \X {"home"} |-> [value |-> 0, area |-> r[1]]]
       /\ thread = [configured |-> configured, select |-> "idle", remove |-> "idle"]
       /\ bridge = [url |-> configured, stopped |-> FALSE, connected |-> FALSE, socket |-> IF configured THEN 1 ELSE 0, timers |-> 0, allow |-> FALSE]
       /\ wires = [s \in Socket |-> IF configured /\ s = 1 THEN [NoWire EXCEPT !.phase = "connecting"] ELSE NoWire]
  /\ pending = {} /\ saving = {} /\ removing = {}
  /\ jobs = [j \in Jobs |-> NoJob]
  /\ sessions = [s \in Session |-> NoSession]
  /\ hist = [overtaken |-> {}, missed |-> {}, strange |-> FALSE, unheard |-> FALSE, overlap |-> FALSE]

(***************************************************************************)
(* The registry.                                                            *)
(***************************************************************************)
Put(f, r, x) == [q \in DOMAIN f \cup {r} |-> IF q = r THEN x ELSE f[q]]
Without(f, S) == Restrict(f, DOMAIN f \ S)

\* Faulty variant: a record under another name is left, and a new one made.
IngestedBeside(n, v, allow) ==
  IF Records(n) = {} /\ ~allow THEN home
  ELSE Put(home, Named(n), [value |-> v, area |-> IF Named(n) \in DOMAIN home THEN home[Named(n)].area ELSE None])

\* A node of a listing or an event: an unknown one only where new nodes are
\* allowed; a record under another name moves, with the user's setup.
Ingested(n, v, allow) ==
  IF Records(n) = {} /\ ~allow THEN home
  ELSE LET area == IF Records(n) = {} THEN None ELSE home[CHOOSE r \in Records(n) : TRUE].area
       IN Put(Without(home, Records(n)), Named(n), [value |-> v, area |-> area])

\* attribute_updated and node_event.
Attributed(n, v) ==
  IF Records(n) # {} THEN LET r == CHOOSE r \in Records(n) : TRUE IN [home EXCEPT ![r].value = v]
  ELSE IF bridge.allow THEN Put(home, Unnamed(n), [value |-> v, area |-> None]) ELSE home

Active == {s \in Session : sessions[s].pc \in {"commissioning", "refreshing"}}

Stage(n) == IF \E r \in Records(n) : home[r].area # None THEN "complete" ELSE "needs_setup"

\* Faulty variant: devices the hub had before the session are not set aside.
ObservedAny(n, all) ==
  [s \in Session |-> IF all[s].kept /\ all[s].stage = "commissioning"
                     THEN [all[s] EXCEPT !.device = n, !.stage = Stage(n)] ELSE all[s]]

\* observeDevice: every session that still commissions takes a new device.
Observed(n, all) ==
  [s \in Session |-> IF all[s].kept /\ all[s].stage = "commissioning" /\ n \notin all[s].base
                     THEN [all[s] EXCEPT !.device = n, !.stage = Stage(n)] ELSE all[s]]

ObservedIfThere(n) == IF n \in Known THEN Observed(n, sessions) ELSE sessions

\* forgetDevice.
Forgotten(n) == [s \in Session |-> IF sessions[s].device = n THEN [sessions[s] EXCEPT !.kept = FALSE] ELSE sessions[s]]

(***************************************************************************)
(* Requests.                                                                *)
(***************************************************************************)
Request(kind, of) == [kind |-> kind, of |-> of]
CanAsk == bridge.connected /\ bridge.socket # 0 /\ wires[bridge.socket].phase = "open"
Ask(r) ==
  /\ pending' = pending \cup {[req |-> r, socket |-> bridge.socket]}
  /\ server' = [server EXCEPT !.asked = @ \cup {[req |-> r, socket |-> bridge.socket]}]
Awaited(m, s) == m.type = "reply" /\ [req |-> m.req, socket |-> s] \in pending
Answered(m, s) == pending \ {[req |-> m.req, socket |-> s]}

\* The pairing session's end: the first new device, if there is one.
Finished(x) ==
  LET new == Known \ x.base
  IN IF new = {} THEN [x EXCEPT !.pc = "done", !.stage = "waiting_for_device"]
     ELSE LET n == CHOOSE n \in new : TRUE IN [x EXCEPT !.pc = "done", !.device = n, !.stage = Stage(n)]

Failed(x) == [x EXCEPT !.pc = "done", !.stage = "failed"]

\* Requests that are refused, time out or lose their connection.
Rejected(R) ==
  /\ sessions' = [s \in Session |-> CASE Request("commission", s) \in {a.req : a \in R} -> Failed(sessions[s])
                                      [] Request("listen", s) \in {a.req : a \in R} -> Finished(sessions[s])
                                      [] OTHER -> sessions[s]]
  /\ removing' = removing \ {n \in Node : Request("remove", n) \in {a.req : a \in R}}
RejectedAllow(R) == bridge.allow /\ \A a \in R : a.req.kind # "commission"
Unheard(R) == hist.unheard \/ \E a \in R : a.req = Request("listen", "open")

TimesOut(a) ==
  /\ Spend("timeouts") /\ a \in pending
  /\ pending' = pending \ {a}
  /\ Rejected({a})
  /\ bridge' = [bridge EXCEPT !.allow = RejectedAllow({a})]
  /\ hist' = [hist EXCEPT !.unheard = Unheard({a})]
  /\ UNCHANGED <<home, jobs, saving, wires, server, thread>>

\* A connection that is gone takes no answer.
Orphaned(s) == [server EXCEPT !.asked = {IF a.socket = s THEN [a EXCEPT !.socket = 0] ELSE a : a \in @}]

(***************************************************************************)
(* The connection.                                                          *)
(***************************************************************************)
Free == {s \in Socket : wires[s].phase = "none"}
Connecting(b, w) ==
  LET s == CHOOSE x \in Socket : w[x].phase = "none"
  IN /\ bridge' = [b EXCEPT !.socket = s]
     /\ wires' = [w EXCEPT ![s] = [NoWire EXCEPT !.phase = "connecting"]]

\* The bridge's refresh of its own: an answer is awaited or the request refused.
Listen(s) ==
  IF bridge.socket = s \/ wires[bridge.socket].phase = "open"
  THEN Ask(Request("listen", "open")) /\ hist' = [hist EXCEPT !.unheard = FALSE]
  ELSE UNCHANGED <<pending, server, hist>>

Opened(s) ==
  /\ wires[s].phase = "connecting" /\ server.up
  /\ wires' = [wires EXCEPT ![s].phase = "open"]
  /\ bridge' = [bridge EXCEPT !.connected = TRUE]
  /\ Listen(s)
  /\ UNCHANGED <<home, jobs, saving, sessions, removing, thread, budget>>

\* Faulty variant: only a connection that had been open is tried again.
RetriedIfOpen == IF bridge.connected THEN bridge.timers + 1 ELSE bridge.timers

Retried == bridge.timers + 1

\* The nodes a message is about, and those that unread messages are about.
About(m) == {n \in Node : m.node = n \/ \E e \in Range(m.nodes) : e.node = n}
Unread(w) == UNION {UNION {About(m) : m \in Range(w[s].inbox)} : s \in DOMAIN w}

\* The close of any connection, of an older one too.
Closed(s) ==
  /\ wires[s].phase \in {"lost", "closing"} \/ (wires[s].phase = "connecting" /\ ~server.up)
  /\ wires' = [wires EXCEPT ![s] = NoWire]
  /\ pending' = {}
  /\ Rejected(pending)
  /\ bridge' = [bridge EXCEPT !.connected = FALSE, !.timers = Retried, !.allow = RejectedAllow(pending)]
  /\ hist' = [hist EXCEPT !.unheard = Unheard(pending), !.missed = @ \cup Unread(Restrict(wires, {s}))]
  /\ server' = Orphaned(s)
  /\ UNCHANGED <<home, jobs, saving, thread, budget>>

TimerFires ==
  /\ bridge.timers > 0
  /\ LET b == [bridge EXCEPT !.timers = @ - 1]
     IN IF ~b.stopped /\ ~b.connected /\ b.url THEN Free # {} /\ Connecting(b, wires) ELSE bridge' = b /\ UNCHANGED wires
  /\ UNCHANGED <<home, pending, jobs, saving, sessions, removing, server, thread, budget, hist>>

\* close() of the current socket: an open one still delivers until it is closed.
Closing(w) ==
  IF bridge.socket = 0 THEN w
  ELSE [w EXCEPT ![bridge.socket].phase = CASE @ = "open" -> "closing" [] @ = "connecting" -> "lost" [] OTHER -> @]

SetUrl(on) ==
  IF on = bridge.url /\ (on => bridge.connected \/ bridge.socket # 0) THEN UNCHANGED <<bridge, wires>>
  ELSE LET b == [bridge EXCEPT !.url = on, !.stopped = ~on]
       IN IF on THEN Free # {} /\ Connecting(b, Closing(wires)) ELSE bridge' = b /\ wires' = Closing(wires)

(***************************************************************************)
(* The Matter server.                                                       *)
(***************************************************************************)
Reply(r, ok, nodes) == [type |-> "reply", node |-> None, value |-> 0, req |-> r, ok |-> ok, nodes |-> nodes]
Event(kind, n, v) == [type |-> kind, node |-> n, value |-> v, req |-> Request("event", None), ok |-> TRUE, nodes |-> <<>>]
Live(w, s) == s \in Socket /\ w[s].phase \in {"open", "closing"}
Hears(w, s) == Live(w, s) /\ w[s].listening
Tell(w, e) == [s \in Socket |-> IF Hears(w, s) THEN [w[s] EXCEPT !.inbox = Append(@, e)] ELSE w[s]]
Answer(w, s, m) == IF Live(w, s) THEN [w EXCEPT ![s].inbox = Append(@, m)] ELSE w
Heard(e) == hist' = IF \E s \in Socket : Hears(wires, s) THEN hist ELSE [hist EXCEPT !.missed = @ \cup {e.node}]
Told(e) == wires' = Tell(wires, e) /\ Heard(e)

Listed == LET order == SetToSeq(server.nodes)
          IN [i \in DOMAIN order |-> [node |-> order[i], value |-> server.value[order[i]], stale |-> FALSE]]

\* A request reaches the server, which serves it.  A node may join long after
\* the hub has given its commissioning up.
Served(a) ==
  /\ server.up /\ a \in server.asked
  /\ LET r == a.req
         left == [server EXCEPT !.asked = @ \ {a}]
         ok == Reply(r, TRUE, IF r.kind = "listen" THEN Listed ELSE <<>>)
     IN \/ /\ r.kind = "listen" /\ server' = left
           /\ wires' = IF Live(wires, a.socket) THEN Answer([wires EXCEPT ![a.socket].listening = TRUE], a.socket, ok) ELSE wires
           /\ hist' = IF Live(wires, a.socket) THEN [hist EXCEPT !.missed = @ \ server.nodes] ELSE hist
        \/ /\ r.kind = "commission"
           /\ \E kind \in {"node", "attribute"} :
              LET n == sessions[r.of].node
                  e == Event(kind, n, server.value[n])
              IN /\ server' = [left EXCEPT !.nodes = @ \cup {n}]
                 /\ wires' \in {Answer(Tell(wires, e), a.socket, ok), Tell(Answer(wires, a.socket, ok), e)}
                 /\ hist' = [hist EXCEPT !.strange = @ \/ Active \ {r.of} # {}, !.missed = @ \ {n}]
        \/ /\ r.kind = "remove"
           /\ server' = [left EXCEPT !.nodes = @ \ {r.of}]
           /\ LET e == Event("removed", r.of, 0)
              IN Heard(e) /\ wires' = Answer(Tell(wires, e), a.socket, ok)
        \/ /\ r.kind = "command" /\ r.of \in server.nodes
           /\ server' = [left EXCEPT !.value[r.of] = 1 - @]
           /\ LET e == Event("attribute", r.of, 1 - server.value[r.of])
              IN Heard(e) /\ wires' = Answer(Tell(wires, e), a.socket, ok)
  /\ UNCHANGED <<hub, thread, budget>>

Refused(a) ==
  /\ server.up /\ a \in server.asked
  /\ IF a.req.kind = "command" /\ a.req.of \notin server.nodes THEN UNCHANGED budget ELSE Spend("faults")
  /\ server' = [server EXCEPT !.asked = @ \ {a}]
  /\ wires' = Answer(wires, a.socket, Reply(a.req, FALSE, <<>>))
  /\ UNCHANGED <<hub, thread, hist>>

Changes(n) ==
  /\ Spend("changes") /\ n \in server.nodes /\ server.up
  /\ server' = [server EXCEPT !.value[n] = 1 - @]
  /\ \E kind \in {"attribute", "node"} : Told(Event(kind, n, 1 - server.value[n]))
  /\ UNCHANGED <<hub, thread>>

Leaves(n) ==
  /\ Spend("leaves") /\ n \in server.nodes /\ server.up
  /\ server' = [server EXCEPT !.nodes = @ \ {n}]
  /\ Told(Event("removed", n, 0))
  /\ UNCHANGED <<hub, thread>>

\* Connections that break lose what is on its way.
Broken(w, S) == [s \in Socket |-> IF s \in S /\ w[s].phase # "none" THEN [NoWire EXCEPT !.phase = "lost"] ELSE w[s]]

Drops(s) ==
  /\ Spend("drops") /\ Live(wires, s)
  /\ wires' = Broken(wires, {s})
  /\ server' = Orphaned(s)
  /\ hist' = [hist EXCEPT !.missed = @ \cup Unread(Restrict(wires, {s}))]
  /\ UNCHANGED <<hub, thread>>

Stopped ==
  /\ server' = [server EXCEPT !.up = FALSE, !.asked = {}]
  /\ hist' = [hist EXCEPT !.missed = @ \cup Unread(wires)]
Goes == Spend("downs") /\ server.up /\ Stopped /\ wires' = Broken(wires, Socket) /\ UNCHANGED <<hub, thread>>
Comes == thread.configured /\ thread.remove = "idle" /\ ~server.up /\ server' = [server EXCEPT !.up = TRUE] /\ UNCHANGED <<hub, wires, thread, budget, hist>>

(***************************************************************************)
(* What the hub receives.                                                   *)
(***************************************************************************)
\* Entries of listings still to be stored are older than what has just been.
Marked(e, n) == [e EXCEPT !.stale = @ \/ e.node = n]
Overtakes(n, all) == [j \in Jobs |-> [all[j] EXCEPT !.todo = [i \in DOMAIN @ |-> Marked(@[i], n)]]]
Fresh(n) == [hist EXCEPT !.overtaken = @ \ {n}]

Ingesting(allow, nodes) == [NoJob EXCEPT !.on = TRUE, !.allow = allow, !.todo = nodes]

EventReceived(m) ==
  /\ \/ /\ m.type = "node"
        /\ home' = Ingested(m.node, m.value, bridge.allow)
        /\ saving' = IF m.node \in Known \/ bridge.allow THEN saving \cup {m.node} ELSE saving
     \/ m.type = "attribute" /\ home' = Attributed(m.node, m.value) /\ UNCHANGED saving
     \/ m.type = "removed" /\ home' = Without(home, Records(m.node)) /\ UNCHANGED saving
  /\ jobs' = Overtakes(m.node, jobs)
  /\ hist' = Fresh(m.node)
  /\ UNCHANGED <<bridge, pending, sessions, removing, server>>

\* Nobody waits for the answer any more: a listing is stored all the same.
LateReply(m, s) ==
  /\ m.type = "reply" /\ ~Awaited(m, s)
  /\ IF m.nodes # <<>> THEN ~jobs["late"].on /\ jobs' = [jobs EXCEPT !["late"] = Ingesting(bridge.allow, m.nodes)] ELSE UNCHANGED jobs
  /\ UNCHANGED <<home, bridge, pending, saving, sessions, removing, server, hist>>

ListingReceived(m, s) ==
  /\ Awaited(m, s) /\ m.req.kind = "listen" /\ m.ok
  /\ ~jobs[m.req.of].on
  /\ jobs' = [jobs EXCEPT ![m.req.of] = Ingesting(m.req.of \in Session, m.nodes)]
  /\ pending' = Answered(m, s)
  /\ UNCHANGED <<home, bridge, saving, sessions, removing, server, hist>>

Listing(m) == [req |-> Request("listen", m.req.of), socket |-> bridge.socket]

\* The commissioning is over; the session lists the nodes, new ones allowed.
Commissioned(m, s) ==
  /\ Awaited(m, s) /\ m.req.kind = "commission" /\ m.ok
  /\ bridge' = [bridge EXCEPT !.allow = FALSE]
  /\ IF CanAsk
       THEN /\ sessions' = [sessions EXCEPT ![m.req.of].pc = "refreshing"]
            /\ pending' = Answered(m, s) \cup {Listing(m)}
            /\ server' = [server EXCEPT !.asked = @ \cup {Listing(m)}]
       ELSE /\ sessions' = [sessions EXCEPT ![m.req.of] = Finished(@)]
            /\ pending' = Answered(m, s) /\ UNCHANGED server
  /\ UNCHANGED <<home, jobs, saving, removing, hist>>

\* removeDevice: the sessions of the device are forgotten, and its record; the event
\* that the code saves between the two is left out.
Removed(m, s) ==
  /\ Awaited(m, s) /\ m.req.kind = "remove" /\ m.ok
  /\ home' = Without(home, Records(m.req.of))
  /\ sessions' = Forgotten(m.req.of)
  /\ removing' = removing \ {m.req.of}
  /\ jobs' = Overtakes(m.req.of, jobs)
  /\ pending' = Answered(m, s)
  /\ hist' = Fresh(m.req.of)
  /\ UNCHANGED <<bridge, saving, server>>

RequestEnds(m, s) ==
  /\ Awaited(m, s) /\ (~m.ok \/ m.req.kind = "command")
  /\ pending' = Answered(m, s)
  /\ Rejected({[req |-> m.req]})
  /\ bridge' = [bridge EXCEPT !.allow = RejectedAllow({[req |-> m.req]})]
  /\ hist' = [hist EXCEPT !.unheard = Unheard({[req |-> m.req]})]
  /\ UNCHANGED <<home, jobs, saving, server>>

Receives(s) ==
  /\ Live(wires, s) /\ wires[s].inbox # <<>>
  /\ LET m == Head(wires[s].inbox)
     IN EventReceived(m) \/ LateReply(m, s) \/ ListingReceived(m, s) \/ Commissioned(m, s) \/ Removed(m, s) \/ RequestEnds(m, s)
  /\ wires' = [wires EXCEPT ![s].inbox = Tail(@)]
  /\ UNCHANGED <<thread, budget>>

EventSaved(n) ==
  /\ n \in saving
  /\ saving' = saving \ {n}
  /\ sessions' = ObservedIfThere(n)
  /\ UNCHANGED <<home, bridge, pending, jobs, removing, wires, server, thread, budget, hist>>

\* ingestNodes: the next node, an unknown one only where it is allowed;
IngestNext(j) ==
  /\ jobs[j].todo # <<>> /\ ~jobs[j].saving
  /\ LET e == Head(jobs[j].todo)
         stored == e.node \in Known \/ jobs[j].allow \/ bridge.allow
         rest == Overtakes(e.node, [jobs EXCEPT ![j].todo = Tail(@)])
     IN /\ home' = Ingested(e.node, e.value, jobs[j].allow \/ bridge.allow)
        /\ jobs' = IF stored THEN [rest EXCEPT ![j].todo = <<e>> \o @, ![j].saving = TRUE] ELSE rest
        /\ hist' = IF ~stored THEN hist
                  ELSE IF e.stale THEN [hist EXCEPT !.overtaken = @ \cup {e.node}]
                  ELSE Fresh(e.node)
  /\ UNCHANGED <<bridge, pending, saving, sessions, removing, wires, server, thread, budget>>

\* then its save.  A device removed meanwhile ends the whole listing.
IngestSaved(j) ==
  /\ jobs[j].saving
  /\ LET n == Head(jobs[j].todo).node
     IN IF n \in Known
        THEN /\ jobs' = [jobs EXCEPT ![j].todo = Tail(@), ![j].saving = FALSE]
             /\ sessions' = Observed(n, sessions)
             /\ UNCHANGED hist
        ELSE /\ jobs' = [jobs EXCEPT ![j] = NoJob]
             /\ sessions' = IF j \in Session THEN [sessions EXCEPT ![j] = Finished(@)] ELSE sessions
             /\ hist' = [hist EXCEPT !.missed = @ \cup {e.node : e \in Range(jobs[j].todo)}]
  /\ UNCHANGED <<home, bridge, pending, saving, removing, wires, server, thread, budget>>

IngestEnds(j) ==
  /\ jobs[j].on /\ jobs[j].todo = <<>>
  /\ jobs' = [jobs EXCEPT ![j] = NoJob]
  /\ sessions' = IF j \in Session THEN [sessions EXCEPT ![j] = Finished(@)] ELSE sessions
  /\ UNCHANGED <<home, bridge, pending, saving, removing, wires, server, thread, budget, hist>>

(***************************************************************************)
(* What users do.                                                           *)
(***************************************************************************)
\* The nodes that unread messages and listings not stored yet may bring.
Brought(w) == UNION {UNION {About(m) : m \in {x \in Range(w[s].inbox) : x.type # "removed"}} : s \in Socket}
ToIngest(all) == UNION {{e.node : e \in Range(all[j].todo)} : j \in Jobs}
Coming == Brought(wires) \cup ToIngest(jobs)

\* A session starts: its commissioning is asked for, or fails at once.
Starts(s, n) ==
  /\ Spend("sessions")
  /\ sessions[s].pc = "idle" /\ n \notin server.nodes /\ \A o \in Session : sessions[o].node # n
  /\ LET x == [NoSession EXCEPT !.pc = "commissioning", !.node = n, !.base = Known, !.kept = TRUE]
     IN IF CanAsk
        THEN /\ sessions' = [sessions EXCEPT ![s] = x]
             /\ Ask(Request("commission", s))
             /\ bridge' = [bridge EXCEPT !.allow = TRUE]
        ELSE /\ sessions' = [sessions EXCEPT ![s] = Failed(x)]
             /\ bridge' = [bridge EXCEPT !.allow = FALSE]
             /\ UNCHANGED <<pending, server>>
  /\ hist' = [hist EXCEPT !.strange = @ \/ (server.nodes \cup Coming) \ Known # {} \/ Active # {}]
  /\ UNCHANGED <<home, jobs, saving, removing, wires, thread>>

Cancels(s) ==
  /\ Spend("cancels") /\ sessions[s].kept
  /\ sessions' = [sessions EXCEPT ![s].kept = FALSE]
  /\ UNCHANGED <<home, bridge, pending, jobs, saving, removing, wires, server, thread, hist>>

\* A request like it is still on its way.
Outstanding(r) == (\E a \in pending : a.req = r) \/ \E a \in server.asked : a.req = r
                  \/ \E s \in Socket : \E m \in Range(wires[s].inbox) : m.req = r

Asks(kind, r) ==
  /\ Spend(kind) /\ CanAsk /\ ~Outstanding(r)
  /\ Ask(r)
  /\ UNCHANGED <<home, bridge, jobs, saving, sessions, wires, thread>>

Removes(n) == n \in Known /\ Asks("removals", Request("remove", n)) /\ removing' = removing \cup {n} /\ UNCHANGED hist
Commands(n) == n \in Known /\ Asks("commands", Request("command", n)) /\ UNCHANGED <<removing, hist>>

Refreshes == Asks("refreshes", Request("listen", "open")) /\ hist' = [hist EXCEPT !.unheard = FALSE] /\ UNCHANGED removing

Assign(n) ==
  /\ Spend("assigned") /\ n \in Known
  /\ home' = [r \in DOMAIN home |-> IF r[1] = n THEN [home[r] EXCEPT !.area = n] ELSE home[r]]
  /\ UNCHANGED <<bridge, pending, jobs, saving, sessions, removing, wires, server, thread, hist>>

(***************************************************************************)
(* The Thread adapter, whose border router runs beside the Matter server.   *)
(***************************************************************************)
Selects ==
  /\ Spend("urls") /\ thread.select = "idle"
  /\ thread' = [thread EXCEPT !.configured = TRUE, !.select = "starting"]
  /\ hist' = [hist EXCEPT !.overlap = @ \/ thread.remove # "idle"]
  /\ UNCHANGED <<hub, wires, server>>

\* The router and the server run, with a network.
Started ==
  /\ thread.select = "starting"
  /\ thread' = [thread EXCEPT !.select = "idle"]
  /\ server' = [server EXCEPT !.up = TRUE]
  /\ SetUrl(TRUE)
  /\ UNCHANGED <<home, pending, jobs, saving, sessions, removing, budget, hist>>

StartFails ==
  /\ Spend("faults") /\ thread.select = "starting"
  /\ thread' = [thread EXCEPT !.select = "idle"]
  /\ UNCHANGED <<hub, wires, server, hist>>

Unselects ==
  /\ Spend("urls") /\ thread.remove = "idle" /\ thread.configured
  /\ thread' = [thread EXCEPT !.remove = "stopping"]
  /\ Stopped
  /\ wires' = Broken(wires, Socket)
  /\ UNCHANGED hub

\* The router has stopped: the settings are cleared, and their save awaited;
Clears ==
  /\ thread.remove = "stopping"
  /\ thread' = [thread EXCEPT !.configured = FALSE, !.remove = "clearing"]
  /\ hist' = [hist EXCEPT !.overlap = @ \/ thread.select # "idle"]
  /\ UNCHANGED <<hub, wires, server, budget>>

\* then the bridge is told.
Unselected ==
  /\ thread.remove = "clearing"
  /\ thread' = [thread EXCEPT !.remove = "idle"]
  /\ SetUrl(FALSE)
  /\ UNCHANGED <<home, pending, jobs, saving, sessions, removing, server, budget, hist>>

Next ==
  \/ \E a \in pending : TimesOut(a)
  \/ \E s \in Socket : Opened(s) \/ Closed(s) \/ Receives(s) \/ Drops(s)
  \/ TimerFires \/ Goes \/ Comes
  \/ \E a \in server.asked : Served(a) \/ Refused(a)
  \/ \E n \in Node : Changes(n) \/ Leaves(n) \/ EventSaved(n) \/ Removes(n) \/ Commands(n) \/ Assign(n)
  \/ \E j \in Jobs : IngestNext(j) \/ IngestSaved(j) \/ IngestEnds(j)
  \/ \E s \in Session : Cancels(s) \/ \E n \in Node : Starts(s, n)
  \/ Refreshes \/ Selects \/ Started \/ StartFails \/ Unselects \/ Clears \/ Unselected

Spec == Init /\ [][Next]_vars

\* Connections open or fail, messages are handled, timers fire, saves end, and the
\* server serves what reaches it.
Fairness ==
  /\ \A s \in Socket : WF_vars(Opened(s)) /\ WF_vars(Closed(s)) /\ WF_vars(Receives(s))
  /\ WF_vars(TimerFires)
  /\ WF_vars(\E a \in server.asked : Served(a) \/ Refused(a))
  /\ \A n \in Node : WF_vars(EventSaved(n))
  /\ \A j \in Jobs : WF_vars(IngestNext(j)) /\ WF_vars(IngestSaved(j)) /\ WF_vars(IngestEnds(j))
FairSpec == Spec /\ Fairness

(***************************************************************************)
(* Properties.                                                              *)
(***************************************************************************)
Quiet ==
  /\ CanAsk /\ wires[bridge.socket].listening
  /\ \A s \in Socket : wires[s].inbox = <<>>
  /\ \A j \in Jobs : ~jobs[j].on
  /\ server.asked = {}

\* matterBridge.js:95-174: a physical device never has two records.  Once all
\* messages are handled, every record is of a node of the server and shows its
\* state; exempt are nodes whose events were lost on the wire and nodes for which
\* an event or entry was handled before an older entry of a listing was.
RecordsAgree ==
  /\ \A n \in Node : Cardinality(Records(n)) <= 1
  /\ Quiet => \A r \in DOMAIN home : r[1] \in hist.missed \cup hist.overtaken
                                     \/ (r[1] \in server.nodes /\ home[r].value = server.value[r[1]])

\* pairingSession.js:17-74: a session that names a device names the device whose
\* code it was given: no record of before, no other node.  Exempt are sessions
\* at the same time, a node that joins for a session given up while another goes
\* on, and sessions started while the server has, or a message or listing on its
\* way names, a node the hub does not know.
OwnDevice ==
  hist.strange \/ \A s \in Session :
    sessions[s].kept /\ sessions[s].stage \in {"needs_setup", "complete"} => sessions[s].device = sessions[s].node

\* server.js:1847-1895: the bridge has an address only while a Thread adapter is
\* selected, or while the removal that has cleared it still awaits its save; unless a
\* removal and a selection, or the start at boot, overlapped.
UrlFollows == bridge.url => thread.configured \/ thread.remove = "clearing" \/ hist.overlap

Settings == RecordsAgree /\ UrlFollows

\* matterBridge.js:49-93: while there is an address and the server runs, the bridge
\* ends up connected and told of every change, unless its listing failed; and every
\* commissioning ends.
Recovers ==
  /\ <>[](bridge.url /\ server.up) => <>[](CanAsk /\ (wires[bridge.socket].listening \/ hist.unheard))
  /\ \A s \in Session : (sessions[s].pc \in {"commissioning", "refreshing"}) ~> (sessions[s].pc = "done")
=============================================================================
