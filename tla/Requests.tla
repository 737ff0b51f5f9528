------------------------------ MODULE Requests ------------------------------
(***************************************************************************)
(* The calls of one MCP process on their way to the service and back: the  *)
(* process's connection (mcp/connection.py), the consolidator's bridge     *)
(* that plans once per process (mcp/consolidator.py), and the service's    *)
(* end of each socket (service/server.py, rpc.py, envelope.py).            *)
(*                                                                         *)
(* The harness runs calls side by side and cancels them at any await; the  *)
(* service dies and is started again; a socket breaks.  Every line has the *)
(* same id, so only the connection's discipline pairs an answer with its   *)
(* request.  What a handler does to the store is one step: it is applied   *)
(* or refused, as Connections shows.                                       *)
(***************************************************************************)
EXTENDS Naturals, Sequences

CONSTANTS
    Calls,
    NextCalls,   \* the calls of next_group, which plan first
    NULL,
    Unresolved, Harness, Odd,  \* labels: not asked for, one that conforms, one that does not
    MaxSockets,  \* bound: sockets ever opened
    MaxDeaths    \* bound: services that end

ASSUME CallsAssumption == NextCalls \subseteq Calls /\ NULL \notin Calls
ASSUME LabelsAssumption ==
    /\ Unresolved \notin {NULL, Harness, Odd} /\ Harness \notin {NULL, Odd}
    /\ {NULL, Unresolved, Harness, Odd} \cap Nat = {}
ASSUME BoundsAssumption == MaxSockets \in Nat \ {0} /\ MaxDeaths \in Nat

VARIABLES
    calls,
    lock,        \* the call that holds the connection's lock
    held,        \* the socket the connection keeps
    label,       \* its session label, once resolved
    heard,       \* some response was adopted
    bridge,      \* the bridge's state, and who holds its lock
    socks,       \* every socket opened, with both its directions
    alive,       \* a service is running
    minted,      \* session labels the service has minted
    applied,     \* how often each request changed the store
    answer,      \* what each request came to
    deaths

vars == <<calls, lock, held, label, heard, bridge, socks, alive, minted, applied, answer, deaths>>

\* A call of next_group sends up to two requests, any other call one.
AllRequests == (NextCalls \X {"plan"}) \cup (Calls \X {"verb"})

\* A number is a minted label.
Labels == {NULL, Unresolved, Harness, Odd} \cup Nat

Results == {"ok", "busy", "refused"}
Outcomes == {"none", "unsent", "ambiguous", "cancelled"} \cup Results

Call == [pc : {"idle", "bridge", "lock", "connect", "send", "read", "done"},
         part : {"plan", "verb"}, tries : 1 .. 2, sock : 0 .. MaxSockets,
         envelope : Labels, sent : Labels]

Line == [req : AllRequests, label : Labels, whole : BOOLEAN]
Reply == [req : AllRequests, label : Labels, result : Results]

\* `state` says how far the handler is with `line`.
Socket == [mine : BOOLEAN, peer : BOOLEAN, up : Seq(Line), down : Seq(Reply),
           state : {"reading", "received"} \cup Results, line : Line \cup {NULL}]

Opened == [mine |-> TRUE, peer |-> TRUE, up |-> <<>>, down |-> <<>>, state |-> "reading",
           line |-> NULL]

Req(c) == <<c, calls[c].part>>

New == [pc |-> "idle", part |-> "verb", tries |-> 1, sock |-> 0, envelope |-> NULL, sent |-> NULL]
Over == [New EXCEPT !.pc = "done"]

\* What a caller's own end of a closed socket keeps: nothing.
Dropped(s) == [s EXCEPT !.mine = FALSE, !.down = <<>>]

-----------------------------------------------------------------------------
(* A call, from its tool to the connection's lock. *)

\* envelope() is read before the lock; release_finished is left out.
Ask(c) ==
    /\ calls[c].pc = "idle"
    /\ calls' = [calls EXCEPT ![c].pc = IF c \in NextCalls THEN "bridge" ELSE "lock",
                              ![c].part = IF c \in NextCalls THEN "plan" ELSE "verb",
                              ![c].envelope = label]
    /\ UNCHANGED <<lock, held, label, heard, bridge, socks, alive, minted, applied, answer, deaths>>

\* ensure_planned, under the bridge's own lock.
EnsurePlanned(c) ==
    /\ calls[c].pc = "bridge"
    /\ bridge.lock = NULL
    /\ \/ /\ bridge.state = "ready"
          /\ calls' = [calls EXCEPT ![c].pc = "lock", ![c].part = "verb", ![c].envelope = label]
          /\ UNCHANGED bridge
       \/ /\ bridge.state = "failed"
          /\ calls' = [calls EXCEPT ![c] = Over]
          /\ UNCHANGED bridge
       \/ /\ bridge.state = "unplanned"
          /\ calls' = [calls EXCEPT ![c].pc = "lock", ![c].envelope = label]
          /\ bridge' = [bridge EXCEPT !.lock = c]
    /\ UNCHANGED <<lock, held, label, heard, socks, alive, minted, applied, answer, deaths>>

\* Mutant: the label is the one the envelope was built with.
SentLabel_FromEnvelope(c) == calls[c].envelope

SentLabel(c) == label'

\* The first call under the lock asks the harness for a label.
Enter(c) ==
    /\ calls[c].pc = "lock"
    /\ lock = NULL
    /\ lock' = c
    /\ \/ label = Unresolved /\ label' \in {NULL, Harness, Odd}
       \/ label # Unresolved /\ UNCHANGED label
    /\ calls' = [calls EXCEPT ![c].pc = "connect", ![c].tries = 1, ![c].sent = SentLabel(c)]
    /\ UNCHANGED <<held, heard, bridge, socks, alive, minted, applied, answer, deaths>>

\* Mutant: a cancelled plan may be asked for again.
Planned_CancelForgiven(state, outcome) ==
    CASE outcome = "ok" -> "ready"
      [] outcome \in {"busy", "cancelled"} -> state
      [] OTHER -> "failed"

\* The bridge keeps trying only while it knows that nothing was taken over.
Planned(state, outcome) ==
    CASE outcome = "ok" -> "ready"
      [] outcome = "busy" -> state
      [] OTHER -> "failed"

\* The request is over and the connection's lock let go; a plan that succeeded
\* is followed by the call's own request.
Return(c, outcome) ==
    /\ lock' = IF lock = c THEN NULL ELSE lock
    /\ answer' = [answer EXCEPT ![Req(c)] = outcome]
    /\ \/ /\ calls[c].part = "plan"
          /\ bridge' = [state |-> Planned(bridge.state, outcome), lock |-> NULL]
          /\ calls' = [calls EXCEPT ![c] =
                IF outcome = "ok"
                THEN [@ EXCEPT !.pc = "lock", !.part = "verb", !.sock = 0, !.envelope = label']
                ELSE Over]
       \/ /\ calls[c].part = "verb"
          /\ calls' = [calls EXCEPT ![c] = Over]
          /\ UNCHANGED bridge

-----------------------------------------------------------------------------
(* The request, under the connection's lock. *)

\* _connected_socket: the socket kept, or a new one to the service there is,
\* started if there is none.
ConnectedSocket(c) ==
    /\ calls[c].pc = "connect"
    /\ \/ /\ held # 0
          /\ calls' = [calls EXCEPT ![c].pc = "send", ![c].sock = held]
          /\ UNCHANGED <<held, socks, alive>>
       \/ /\ held = 0
          /\ Len(socks) < MaxSockets
          /\ socks' = Append(socks, Opened)
          /\ held' = Len(socks) + 1
          /\ alive' = TRUE
          /\ calls' = [calls EXCEPT ![c].pc = "send", ![c].sock = Len(socks) + 1]
    /\ UNCHANGED <<lock, label, heard, bridge, minted, applied, answer, deaths>>

\* The store cannot be read, or no service is reached.
ConnectFails(c) ==
    /\ calls[c].pc = "connect"
    /\ held = 0
    /\ Return(c, "unsent")
    /\ UNCHANGED <<held, label, heard, socks, alive, minted, applied, deaths>>

LineOf(c, whole) == [req |-> Req(c), label |-> calls[c].sent, whole |-> whole]

\* What reaches the other end when all of the line was sent, or a part of it.
Carried(s, line) == IF s.peer THEN [s EXCEPT !.up = Append(@, line)] ELSE s

SendRequest(c) ==
    /\ calls[c].pc = "send"
    /\ socks[calls[c].sock].peer
    /\ socks' = [socks EXCEPT ![calls[c].sock] = Carried(@, LineOf(c, TRUE))]
    /\ calls' = [calls EXCEPT ![c].pc = "read"]
    /\ UNCHANGED <<lock, held, label, heard, bridge, alive, minted, applied, answer, deaths>>

\* Nothing of the line was sent: once more, on a new socket.
ZeroProgress(c) ==
    /\ calls[c].pc = "send"
    /\ socks' = [socks EXCEPT ![calls[c].sock] = Dropped(@)]
    /\ held' = 0
    /\ \/ /\ calls[c].tries = 1
          /\ calls' = [calls EXCEPT ![c].pc = "connect", ![c].tries = 2]
          /\ UNCHANGED <<lock, bridge, answer>>
       \/ calls[c].tries = 2 /\ Return(c, "unsent")
    /\ UNCHANGED <<label, heard, alive, minted, applied, deaths>>

\* Mutant: a line sent in part is sent again.
SendBreaks_Retried(c) ==
    /\ calls[c].pc = "send"
    /\ calls[c].tries = 1
    /\ socks' = [socks EXCEPT ![calls[c].sock] = Dropped(Carried(@, LineOf(c, FALSE)))]
    /\ held' = 0
    /\ calls' = [calls EXCEPT ![c].pc = "connect", ![c].tries = 2]
    /\ UNCHANGED <<lock, bridge, answer, label, heard, alive, minted, applied, deaths>>

\* A part of it was.
SendBreaks(c) ==
    /\ calls[c].pc = "send"
    /\ socks' = [socks EXCEPT ![calls[c].sock] = Dropped(Carried(@, LineOf(c, FALSE)))]
    /\ held' = 0
    /\ Return(c, "ambiguous")
    /\ UNCHANGED <<label, heard, alive, minted, applied, deaths>>

\* Every response is asked for the label it was served under.
ReadResponse(c) ==
    /\ calls[c].pc = "read"
    /\ LET s == calls[c].sock IN
       /\ socks[s].down # <<>>
       /\ socks' = [socks EXCEPT ![s].down = Tail(@)]
       /\ label' = Head(socks[s].down).label
       /\ Return(c, Head(socks[s].down).result)
    /\ heard' = TRUE
    /\ UNCHANGED <<held, alive, minted, applied, deaths>>

\* The socket ends, or the wait for an answer does.
ReadBreaks(c) ==
    /\ calls[c].pc = "read"
    /\ socks' = [socks EXCEPT ![calls[c].sock] = Dropped(@)]
    /\ held' = 0
    /\ Return(c, "ambiguous")
    /\ UNCHANGED <<label, heard, alive, minted, applied, deaths>>

-----------------------------------------------------------------------------
(* Cancellation. *)

\* Nothing of this request was sent; a connect in progress is waited for and its
\* socket closed.
CancelBefore(c) ==
    /\ \/ /\ calls[c].pc = "bridge"
          /\ calls' = [calls EXCEPT ![c] = Over]
          /\ UNCHANGED <<lock, bridge, answer>>
       \/ /\ calls[c].pc = "lock" \/ (calls[c].pc = "connect" /\ held = 0)
          /\ Return(c, "cancelled")
    /\ UNCHANGED <<held, label, heard, socks, alive, minted, applied, deaths>>

\* Mutant: the socket stays the connection's.
CancelInFlight_KeepsSocket(c) ==
    /\ calls[c].pc \in {"send", "read"}
    /\ \/ UNCHANGED socks
       \/ /\ calls[c].pc = "send"
          /\ socks' = [socks EXCEPT ![calls[c].sock] = Carried(@, LineOf(c, TRUE))]
    /\ Return(c, "cancelled")
    /\ UNCHANGED <<held, label, heard, alive, minted, applied, deaths>>

\* A thread is in send or recv: the line may be sent whole, in part or not at
\* all, and the service may act on it after the caller is gone.
CancelInFlight(c) ==
    /\ calls[c].pc \in {"send", "read"}
    /\ \/ socks' = [socks EXCEPT ![calls[c].sock] = Dropped(@)]
       \/ /\ calls[c].pc = "send"
          /\ \E whole \in BOOLEAN :
                socks' = [socks EXCEPT ![calls[c].sock] = Dropped(Carried(@, LineOf(c, whole)))]
    /\ held' = 0
    /\ Return(c, "cancelled")
    /\ UNCHANGED <<label, heard, alive, minted, applied, deaths>>

-----------------------------------------------------------------------------
(* The service's end of a socket. *)

\* resolve(): a label that conforms is kept, any other is replaced by a new one.
Resolve(l) == IF l = Harness \/ l \in 1 .. minted THEN l ELSE minted + 1

\* A line cut short is read when its sender has closed, and is a request only if
\* no more than its newline is missing.
Receive(s) ==
    /\ socks[s].peer
    /\ socks[s].state = "reading"
    /\ socks[s].up # <<>>
    /\ LET line == Head(socks[s].up)
           resolved == Resolve(line.label)
       IN \/ /\ line.whole \/ ~socks[s].mine
             /\ socks' = [socks EXCEPT ![s].up = Tail(@), ![s].state = "received",
                                       ![s].line = [line EXCEPT !.label = resolved]]
             /\ minted' = IF resolved = minted + 1 THEN resolved ELSE minted
          \/ /\ ~line.whole /\ ~socks[s].mine
             /\ socks' = [socks EXCEPT ![s].up = Tail(@)]
             /\ UNCHANGED minted
    /\ UNCHANGED <<calls, lock, held, label, heard, bridge, alive, applied, answer, deaths>>

\* The handler's transaction, and the response line that tells of it; to a verb
\* a busy store is one refusal among others.
RunHandler(s) ==
    /\ socks[s].peer
    /\ socks[s].state = "received"
    /\ \E result \in Results :
          /\ result = "busy" => socks[s].line.req[2] = "plan"
          /\ socks' = [socks EXCEPT ![s].state = result]
          /\ applied' = IF result = "ok" THEN [applied EXCEPT ![socks[s].line.req] = @ + 1]
                        ELSE applied
    /\ UNCHANGED <<calls, lock, held, label, heard, bridge, alive, minted, answer, deaths>>

\* Written to the socket, for whoever still holds its other end.
Respond(s) ==
    /\ socks[s].peer
    /\ socks[s].state \in Results
    /\ LET reply == [req |-> socks[s].line.req, label |-> socks[s].line.label,
                     result |-> socks[s].state]
       IN socks' = [socks EXCEPT ![s].state = "reading", ![s].line = NULL,
                                 ![s].down = IF socks[s].mine THEN Append(@, reply) ELSE @]
    /\ UNCHANGED <<calls, lock, held, label, heard, bridge, alive, minted, applied, answer, deaths>>

\* The service stops or is killed: what its handlers had not committed is
\* undone, what they had not read is lost, what they had written arrives.
ServiceEnds ==
    /\ alive
    /\ deaths < MaxDeaths
    /\ alive' = FALSE
    /\ deaths' = deaths + 1
    /\ socks' = [s \in DOMAIN socks |-> [socks[s] EXCEPT !.peer = FALSE, !.up = <<>>, !.line = NULL,
                                                        !.state = "reading"]]
    /\ UNCHANGED <<calls, lock, held, label, heard, bridge, minted, applied, answer>>

Init ==
    /\ calls = [c \in Calls |-> New]
    /\ lock = NULL
    /\ held = 0
    /\ label = Unresolved
    /\ heard = FALSE
    /\ bridge = [state |-> "unplanned", lock |-> NULL]
    /\ socks = <<>>
    /\ alive = FALSE
    /\ minted = 0
    /\ applied = [r \in AllRequests |-> 0]
    /\ answer = [r \in AllRequests |-> "none"]
    /\ deaths = 0

CallStep(c) ==
    \/ Ask(c) \/ EnsurePlanned(c) \/ Enter(c) \/ ConnectedSocket(c) \/ ConnectFails(c)
    \/ SendRequest(c) \/ ZeroProgress(c) \/ SendBreaks(c) \/ ReadResponse(c) \/ ReadBreaks(c)
    \/ CancelBefore(c) \/ CancelInFlight(c)

HandlerStep(s) == Receive(s) \/ RunHandler(s) \/ Respond(s)

Next ==
    \/ \E c \in Calls : CallStep(c)
    \/ \E s \in DOMAIN socks : HandlerStep(s)
    \/ ServiceEnds

Spec == Init /\ [][Next]_vars

-----------------------------------------------------------------------------
(* Properties. *)

TypeOK ==
    /\ calls \in [Calls -> Call]
    /\ lock \in Calls \cup {NULL}
    /\ held \in 0 .. Len(socks)
    /\ label \in Labels
    /\ heard \in BOOLEAN
    /\ bridge \in [state : {"unplanned", "ready", "failed"}, lock : Calls \cup {NULL}]
    /\ socks \in Seq(Socket) /\ Len(socks) <= MaxSockets
    /\ alive \in BOOLEAN
    /\ minted \in Nat
    /\ applied \in [AllRequests -> Nat]
    /\ answer \in [AllRequests -> Outcomes]
    /\ deaths \in 0 .. MaxDeaths

\* Every line of a socket, in either direction or with its handler.
OnWire(s) ==
    {socks[s].up[i].req : i \in DOMAIN socks[s].up}
    \cup {socks[s].down[i].req : i \in DOMAIN socks[s].down}
    \cup (IF socks[s].line = NULL THEN {} ELSE {socks[s].line.req})

\* The next answer a call reads is the answer to its own request: the socket the
\* connection keeps carries nothing but the request of the call that waits on
\* it, whatever was cancelled before (mcp/connection.py, request).
RepliesAreOwn ==
    /\ \A c \in Calls : calls[c].pc = "read" => OnWire(calls[c].sock) \subseteq {Req(c)}
    /\ held # 0 /\ (\A c \in Calls : calls[c].pc # "read") => OnWire(held) = {}

\* One process takes the consolidation run over once at most, and never after it
\* saw that another attempt may have succeeded (mcp/consolidator.py).
OneTakeover ==
    /\ \A c, d \in NextCalls :
          applied[<<c, "plan">>] > 0 /\ applied[<<d, "plan">>] > 0 => c = d
    /\ bridge.state = "ready" => \E c \in NextCalls : applied[<<c, "plan">>] > 0

\* Once the service has answered, all this process does bears one session label:
\* its receipts and its runs stay its own (_adopt_label_from).
LabelIsKept == [][heard => label' = label]_vars

\* Whatever breaks, a request changes the store at most once, and an answer, an
\* error that says nothing was sent, or a refusal tells the truth about it.
Told == [r \in AllRequests |->
    CASE answer[r] = "none" -> "none"
      [] answer[r] = "ok" -> "done"
      [] answer[r] \in {"busy", "refused", "unsent"} -> "refused"
      [] OTHER -> "unknown"]

Abstract == INSTANCE AtMostOnce WITH Calls <- AllRequests, answer <- Told

AnswersAreTrue == Abstract!Spec
=============================================================================
