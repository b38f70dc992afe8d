--------------------------- MODULE NativeFrontend ---------------------------
(***************************************************************************)
(* The prompts of Codex on their way to a terminal and back.               *)
(*                                                                         *)
(*   prompts   the requests of the engine, which answers or abandons them; *)
(*   inbox     engine.rs and engine/driver.rs: its events, read by the     *)
(*             pump of client/src/local/events.rs;                         *)
(*   pending   Generation.pending_requests: what may still be answered;    *)
(*   live      the broadcast of client/src/local to the gateway, which the *)
(*             terminal of client/src/application/terminal.rs forwards;    *)
(*   conn      codex-adapter/src/gateway.rs and gateway/connection.rs: the *)
(*             connection of the terminal's Codex, its queue of output and *)
(*             the identities it has delivered;                            *)
(*   screen    the prompts that the user sees;                             *)
(*   said      his answers on their way to the gateway.                    *)
(*                                                                         *)
(* Other events and requests, and switching to another thread, are left    *)
(* out.                                                                    *)
(***************************************************************************)
EXTENDS Naturals, Sequences, FiniteSets, Functions

CONSTANTS
  MaxPrompts,     \* bound: requests of the engine
  MaxConnections, \* bound: connections of the terminal
  MaxRebuilds,    \* bound: replacements of the engine
  Capacity,       \* of the broadcast (256)
  OutputCapacity, \* of the connection (256)
  IdsRestart      \* a new engine counts its requests from the start

ASSUME FrontendAssumption == /\ {MaxPrompts, MaxConnections, MaxRebuilds} \subseteq Nat
                             /\ {Capacity, OutputCapacity} \subseteq Nat \ {0}
                             /\ IdsRestart \in BOOLEAN

VARIABLES prompts, inbox, hand, pending, live, lagged, conn, screen, said, gone,
          connections, rebuilds,
          since,      \* prompts of the engines before this one
          silenced    \* history, read by no guard: answered, and never told to be resolved

frontendVars == <<prompts, inbox, hand, pending, live, lagged, conn, screen, said, gone,
                  connections, rebuilds, since, silenced>>

Id(p) == IF IdsRestart THEN prompts[p].id ELSE p
Ask(p) == [kind |-> "ask", prompt |-> p]
Resolved(p) == [kind |-> "resolved", prompt |-> p]
NoEvent == [kind |-> "none"]
NoConnection == [on |-> FALSE, delivered |-> {}, out |-> <<>>, failed |-> FALSE, resume |-> "no", taken |-> {}]

FrontendInit ==
  /\ prompts = <<>> /\ inbox = <<>> /\ hand = NoEvent
  /\ pending = {} /\ live = <<>> /\ lagged = FALSE
  /\ conn = NoConnection
  /\ screen = {} /\ said = <<>> /\ gone = FALSE
  /\ connections = 0 /\ rebuilds = 0 /\ since = 0 /\ silenced = {}

-----------------------------------------------------------------------------
(* The engine and the pump.                                                *)

EngineAsksUser ==
  /\ Len(prompts) < MaxPrompts
  /\ prompts' = Append(prompts, [id |-> Len(prompts) + 1 - since, at |-> "asked"])
  /\ inbox' = Append(inbox, Ask(Len(prompts) + 1))
  /\ UNCHANGED <<hand, pending, live, lagged, conn, screen, said, gone, connections, rebuilds, since, silenced>>

\* The answer has come, or the turn is over without it.
EngineResolves(p) ==
  /\ prompts[p].at \in {"asked", "answered"}
  /\ prompts' = [prompts EXCEPT ![p].at = "over"]
  /\ inbox' = Append(inbox, Resolved(p))
  /\ UNCHANGED <<hand, pending, live, lagged, conn, screen, said, gone, connections, rebuilds, since, silenced>>

\* The pending requests are brought up to date before anybody is told.
PumpTakes ==
  /\ hand = NoEvent /\ inbox # <<>>
  /\ hand' = Head(inbox)
  /\ inbox' = Tail(inbox)
  /\ pending' = IF hand'.kind = "ask" THEN pending \cup {hand'.prompt}
                ELSE {p \in pending : Id(p) # Id(hand'.prompt)}
  /\ UNCHANGED <<prompts, live, lagged, conn, screen, said, gone, connections, rebuilds, since, silenced>>

\* A receiver that is too slow loses the oldest events and is told so. The forwarding task of the
\* terminal gives up when it is the one.
Broadcast(events) ==
  LET all == live \o events
      lost == IF Len(all) > Capacity THEN Len(all) - Capacity ELSE 0
  IN  /\ live' = SubSeq(all, lost + 1, Len(all))
      /\ \/ lagged' = (lagged \/ lost > 0) /\ gone' = gone
         \/ lost > 0 /\ lagged' = lagged /\ gone' = TRUE

PumpTells ==
  /\ hand # NoEvent
  /\ Broadcast(<<hand>>)
  /\ hand' = NoEvent
  /\ UNCHANGED <<prompts, inbox, pending, conn, screen, said, connections, rebuilds, since, silenced>>

\* What a HashMap of prompts is listed as: each of them once, in any order.
Listings(S) == Bijection(1 .. Cardinality(S), S)
Each(Event(_), order) == [n \in DOMAIN order |-> Event(order[n])]

\* rebuild resolves what is pending before the old engine is closed; its other events are not read.
Rebuild ==
  /\ rebuilds < MaxRebuilds
  /\ hand = NoEvent
  /\ rebuilds' = rebuilds + 1
  /\ \E order \in Listings(pending) : Broadcast(Each(Resolved, order))
  /\ pending' = {} /\ inbox' = <<>>
  /\ prompts' = [p \in DOMAIN prompts |-> [prompts[p] EXCEPT !.at = "over"]]
  /\ since' = Len(prompts)
  /\ silenced' = silenced \cup {p \in DOMAIN prompts \ pending : \/ prompts[p].at = "answered"
                                                                \/ \E n \in DOMAIN inbox : inbox[n] = Resolved(p)}
  /\ UNCHANGED <<hand, conn, screen, said, connections>>

-----------------------------------------------------------------------------
(* connection.rs *)

Enqueued(c, event) == IF Len(c.out) < OutputCapacity THEN [c EXCEPT !.out = Append(@, event)]
                      ELSE [c EXCEPT !.failed = TRUE]

\* Mutant: an identity may be delivered again.
SentTwice(c, event) == Enqueued(c, event)

\* A snapshot and the live events share a connection: an identity is delivered once, until the live
\* events resolve it.
Sent(c, event) ==
  IF event.kind = "ask"
  THEN IF Id(event.prompt) \in c.delivered THEN c
       ELSE Enqueued([c EXCEPT !.delivered = @ \cup {Id(event.prompt)}], event)
  ELSE Enqueued([c EXCEPT !.delivered = @ \ {Id(event.prompt)}], event)

\* Prompts that the connection has not delivered, one after the other: what does not fit is lost.
SentAll(c, order) ==
  LET all == c.out \o Each(Ask, order)
      kept == IF Len(all) > OutputCapacity THEN OutputCapacity ELSE Len(all)
  IN  [c EXCEPT !.delivered = @ \cup {Id(order[n]) : n \in DOMAIN order},
                !.out = SubSeq(all, 1, kept), !.failed = @ \/ kept < Len(all)]

-----------------------------------------------------------------------------
(* gateway.rs *)

Open == ~gone

\* A new connection replaces the one before, whose screen is drawn anew.
TerminalConnects ==
  /\ Open /\ connections < MaxConnections
  /\ connections' = connections + 1
  /\ conn' = [NoConnection EXCEPT !.on = TRUE]
  /\ screen' = {} /\ said' = <<>>
  /\ UNCHANGED <<prompts, inbox, hand, pending, live, lagged, gone, rebuilds, since, silenced>>

ConnectionEnds ==
  /\ Open /\ conn.on
  /\ conn' = NoConnection
  /\ screen' = {} /\ said' = <<>>
  /\ UNCHANGED <<prompts, inbox, hand, pending, live, lagged, gone, connections, rebuilds, since, silenced>>

\* 30 s without a connection: the session is closed.
GatewayGivesUp ==
  /\ Open /\ ~conn.on
  /\ gone' = TRUE
  /\ UNCHANGED <<prompts, inbox, hand, pending, live, lagged, conn, screen, said, connections, rebuilds, since, silenced>>

\* Mutant: events were missed, and the connection goes on.
LagIsIgnored ==
  /\ Open /\ lagged
  /\ lagged' = FALSE
  /\ UNCHANGED <<prompts, inbox, hand, pending, live, conn, screen, said, gone, connections, rebuilds, since, silenced>>

\* A terminal that missed events must attach again.
GatewayMisses ==
  /\ Open /\ lagged
  /\ lagged' = FALSE
  /\ conn' = NoConnection
  /\ screen' = {} /\ said' = <<>>
  /\ UNCHANGED <<prompts, inbox, hand, pending, live, gone, connections, rebuilds, since, silenced>>

GatewayHears ==
  /\ Open /\ ~lagged /\ live # <<>>
  /\ live' = Tail(live)
  /\ conn' = IF conn.on THEN Sent(conn, Head(live)) ELSE conn
  /\ UNCHANGED <<prompts, inbox, hand, pending, lagged, screen, said, gone, connections, rebuilds, since, silenced>>

\* thread/resume, which the backend answers before the gateway takes the answer.
TerminalResumes ==
  /\ Open /\ conn.on /\ conn.resume \in {"no", "asked"}
  /\ conn' = [conn EXCEPT !.resume = IF @ = "no" THEN "asked" ELSE "answered"]
  /\ UNCHANGED <<prompts, inbox, hand, pending, live, lagged, screen, said, gone, connections, rebuilds, since, silenced>>

\* The history holds no prompts: what is pending follows the answer.
GatewayReplies ==
  /\ Open /\ conn.on /\ conn.resume = "answered"
  /\ \E order \in Listings({p \in pending : Id(p) \notin conn.delivered}) :
       conn' = [SentAll(conn, order) EXCEPT !.resume = "done"]
  /\ UNCHANGED <<prompts, inbox, hand, pending, live, lagged, screen, said, gone, connections, rebuilds, since, silenced>>

\* The queue of output was full.
GatewayFails ==
  /\ conn.failed /\ ConnectionEnds

TerminalReads ==
  /\ Open /\ conn.on /\ conn.out # <<>>
  /\ conn' = [conn EXCEPT !.out = Tail(@)]
  /\ LET event == Head(conn.out)
     IN  screen' = IF event.kind = "ask" THEN screen \cup {event.prompt}
                   ELSE {p \in screen : Id(p) # Id(event.prompt)}
  /\ UNCHANGED <<prompts, inbox, hand, pending, live, lagged, said, gone, connections, rebuilds, since, silenced>>

UserAnswersPrompt(p) ==
  /\ Open /\ conn.on
  /\ p \in screen
  /\ screen' = screen \ {p}
  /\ said' = Append(said, p)
  /\ UNCHANGED <<prompts, inbox, hand, pending, live, lagged, conn, gone, connections, rebuilds, since, silenced>>

\* LocalRuntime::respond; STALE_APPROVAL ends the gateway, and with it the session.
GatewayResponds ==
  /\ Open /\ conn.on /\ said # <<>>
  /\ said' = Tail(said)
  /\ LET now == {p \in pending : Id(p) = Id(Head(said))}
     IN  /\ pending' = pending \ now
         /\ gone' = (now = {})
         /\ prompts' = [p \in DOMAIN prompts |-> IF p \in now /\ prompts[p].at = "asked"
                                                 THEN [prompts[p] EXCEPT !.at = "answered"] ELSE prompts[p]]
         /\ conn' = [conn EXCEPT !.taken = @ \cup now]
  /\ UNCHANGED <<inbox, hand, live, lagged, screen, connections, rebuilds, since, silenced>>

-----------------------------------------------------------------------------
FrontendNext ==
  \/ EngineAsksUser \/ PumpTakes \/ PumpTells \/ Rebuild
  \/ \E p \in DOMAIN prompts : EngineResolves(p)
  \/ TerminalConnects \/ ConnectionEnds \/ GatewayGivesUp
  \/ GatewayMisses \/ GatewayHears \/ TerminalResumes \/ GatewayReplies \/ GatewayFails
  \/ TerminalReads \/ GatewayResponds
  \/ \E p \in screen : UserAnswersPrompt(p)

-----------------------------------------------------------------------------
(* Properties *)

\* An answer that was taken is not asked for again on the same connection, though an older copy of
\* the prompt may follow the snapshot that showed it (connection.rs send).
NeverAskedAgain == screen \cap conn.taken = {}

Quiet ==
  /\ Open /\ conn.on /\ conn.resume = "done" /\ ~conn.failed /\ ~lagged
  /\ inbox = <<>> /\ hand = NoEvent /\ live = <<>> /\ conn.out = <<>> /\ said = <<>>
  /\ \A p \in DOMAIN prompts : prompts[p].at # "answered"      \* Codex has yet to resolve it

\* No answered prompt is shown, and when all events are delivered, the user sees exactly the prompts
\* that wait for him, through replaced connections and engines, a snapshot that crosses live events,
\* and a receiver that missed some ("History hydration does not replay outstanding approval prompts",
\* gateway.rs serve).
PromptsAgree == NeverAskedAgain /\ (Quiet /\ silenced = {} => screen = pending)
=============================================================================
