---------------------------- MODULE RequestsProofs ----------------------------
(***************************************************************************)
(* What becomes of a process's requests, for any number of calls, sockets  *)
(* and services.  A socket is used for one request at a time and given up  *)
(* as soon as anything about it is in doubt, so that in all its life no    *)
(* more than one line is under way on it: that is its one item.            *)
(***************************************************************************)
EXTENDS Requests, SequenceTheorems, TLAPS

-----------------------------------------------------------------------------
(* The item of a socket. *)

Stages == {"sent", "received"} \cup Results

Item == [req : AllRequests, label : Labels, stage : Stages]

\* The line of a socket's end k, wherever it is under way.
Items(k) ==
    {[req |-> k.up[i].req, label |-> k.up[i].label, stage |-> "sent"] : i \in DOMAIN k.up}
    \cup {[req |-> k.down[i].req, label |-> k.down[i].label, stage |-> k.down[i].result] :
             i \in DOMAIN k.down}
    \cup (IF k.state = "reading" THEN {}
          ELSE {[req |-> k.line.req, label |-> k.line.label, stage |-> k.state]})

OneItem(k) ==
    /\ k.up = <<>> \/ k.down = <<>>
    /\ Len(k.up) <= 1 /\ Len(k.down) <= 1
    /\ k.state = "reading" => k.line = NULL
    /\ k.state # "reading" => k.line \in Line /\ k.up = <<>> /\ k.down = <<>>

LEMMA SocketShape ==
  ASSUME NEW k \in Socket
  PROVE  /\ k.up \in Seq(Line) /\ k.down \in Seq(Reply)
         /\ Len(k.up) \in Nat /\ Len(k.down) \in Nat
         /\ DOMAIN k.up = 1 .. Len(k.up) /\ DOMAIN k.down = 1 .. Len(k.down)
         /\ k.state \in {"reading", "received"} \cup Results /\ k.line \in Line \cup {NULL}
         /\ k.mine \in BOOLEAN /\ k.peer \in BOOLEAN
<1>1. k.up \in Seq(Line) /\ k.down \in Seq(Reply)
  BY DEF Socket
<1>2. /\ Len(k.up) \in Nat /\ Len(k.down) \in Nat
      /\ DOMAIN k.up = 1 .. Len(k.up) /\ DOMAIN k.down = 1 .. Len(k.down)
  BY <1>1, LenProperties
<1>3. k.state \in {"reading", "received"} \cup Results /\ k.line \in Line \cup {NULL}
  BY DEF Socket
<1>4. k.mine \in BOOLEAN /\ k.peer \in BOOLEAN
  BY Zenon DEF Socket
<1> QED BY <1>1, <1>2, <1>3, <1>4

LEMMA ItemsAreItems ==
  ASSUME NEW k \in Socket, OneItem(k)
  PROVE  Items(k) \subseteq Item
<1>1. \A i \in DOMAIN k.up :
         [req |-> k.up[i].req, label |-> k.up[i].label, stage |-> "sent"] \in Item
  <2> SUFFICES ASSUME NEW i \in DOMAIN k.up
               PROVE  [req |-> k.up[i].req, label |-> k.up[i].label, stage |-> "sent"] \in Item
    OBVIOUS
  <2>1. k.up[i] \in Line
    BY SocketShape, ElementOfSeq
  <2> QED BY <2>1 DEF Line, Item, Stages
<1>2. \A i \in DOMAIN k.down :
         [req |-> k.down[i].req, label |-> k.down[i].label, stage |-> k.down[i].result] \in Item
  <2> SUFFICES ASSUME NEW i \in DOMAIN k.down
               PROVE  [req |-> k.down[i].req, label |-> k.down[i].label,
                       stage |-> k.down[i].result] \in Item
    OBVIOUS
  <2>1. k.down[i] \in Reply
    BY SocketShape, ElementOfSeq
  <2> QED BY <2>1 DEF Reply, Item, Stages
<1>3. k.state # "reading" =>
         [req |-> k.line.req, label |-> k.line.label, stage |-> k.state] \in Item
  <2> SUFFICES ASSUME k.state # "reading"
               PROVE  [req |-> k.line.req, label |-> k.line.label, stage |-> k.state] \in Item
    OBVIOUS
  <2>1. k.line \in Line /\ k.state \in Stages
    BY SocketShape DEF OneItem, Stages
  <2> QED BY <2>1 DEF Line, Item
<1> QED BY <1>1, <1>2, <1>3 DEF Items

\* A sequence no longer than one.
LEMMA AtMostOne ==
  ASSUME NEW S, NEW q \in Seq(S), q # <<>>, Len(q) <= 1
  PROVE  /\ Len(q) = 1 /\ DOMAIN q = {1} /\ q[1] \in S
         /\ Head(q) = q[1] /\ Tail(q) \in Seq(S) /\ Len(Tail(q)) = 0 /\ Tail(q) = <<>>
<1>1. Len(q) = 1
  <2>1. Len(q) \in Nat \ {0}
    BY EmptySeq, Zenon
  <2> QED BY <2>1
<1>2. DOMAIN q = {1} /\ q[1] \in S
  BY <1>1, LenProperties, ElementOfSeq
<1>3. Tail(q) \in Seq(S) /\ Len(Tail(q)) = 0
  BY <1>1, HeadTailProperties
<1>4. Tail(q) = <<>>
  BY <1>3, EmptySeq
<1> QED BY <1>1, <1>2, <1>3, <1>4

LEMMA NoItem ==
  ASSUME NEW k \in Socket, OneItem(k)
  PROVE  Items(k) = {} => k.up = <<>> /\ k.down = <<>> /\ k.state = "reading"
<1>1. k.up # <<>> => 1 \in DOMAIN k.up
  BY SocketShape, EmptySeq
<1>2. k.down # <<>> => 1 \in DOMAIN k.down
  BY SocketShape, EmptySeq
<1> QED BY <1>1, <1>2 DEF Items

\* A line put on a socket that carries none is its item.
LEMMA CarriedItem ==
  ASSUME NEW k \in Socket, OneItem(k), Items(k) = {}, NEW line \in Line
  PROVE  LET new == Carried(k, line)
         IN  /\ new \in Socket /\ OneItem(new)
             /\ Items(new) \subseteq {[req |-> line.req, label |-> line.label, stage |-> "sent"]}
<1>1. CASE ~k.peer
  BY <1>1 DEF Carried
<1>2. CASE k.peer
  <2> DEFINE new == [k EXCEPT !.up = Append(k.up, line)]
  <2>1. k.up = <<>> /\ k.down = <<>> /\ k.state = "reading"
    BY NoItem
  <2>2. Append(k.up, line) \in Seq(Line) /\ Len(Append(k.up, line)) = 1
        /\ Append(k.up, line)[1] = line /\ DOMAIN Append(k.up, line) = {1}
    BY <2>1, AppendProperties, LenProperties, EmptySeq
  <2>3. new \in Socket /\ new.up = Append(k.up, line) /\ new.down = k.down
        /\ new.state = k.state /\ new.line = k.line
    BY <2>2 DEF Socket
  <2> HIDE DEF new
  <2>4. DOMAIN new.down = {} /\ Len(new.down) = 0
    BY <2>1, <2>3, EmptySeq
  <2>5. OneItem(new)
    BY <2>1, <2>2, <2>3, <2>4 DEF OneItem
  <2>6. Items(new) \subseteq {[req |-> line.req, label |-> line.label, stage |-> "sent"]}
    BY <2>1, <2>2, <2>3, <2>4 DEF Items
  <2> QED BY <1>2, <2>3, <2>5, <2>6 DEF Carried, new
<1> QED BY <1>1, <1>2

LEMMA GivenUp ==
  ASSUME NEW k \in Socket, NEW mine \in BOOLEAN, NEW down \in Seq(Reply)
  PROVE  [k EXCEPT !.mine = mine, !.down = down] \in Socket
BY DEF Socket

LEMMA DroppedItem ==
  ASSUME NEW k \in Socket, OneItem(k)
  PROVE  LET new == Dropped(k)
         IN  new \in Socket /\ OneItem(new) /\ Items(new) \subseteq Items(k)
<1> DEFINE new == Dropped(k)
<1>1. new \in Socket /\ new.up = k.up /\ new.down = <<>> /\ new.state = k.state /\ new.line = k.line
  <2>1. <<>> \in Seq(Reply)
    BY EmptySeq
  <2>2. /\ new.up = k.up /\ new.down = <<>> /\ new.state = k.state /\ new.line = k.line
        /\ new.peer = k.peer /\ new.mine = FALSE
    BY DEF Dropped, Socket
  <2>3. FALSE \in BOOLEAN
    OBVIOUS
  <2>4. new \in Socket
    BY <2>1, <2>3, GivenUp DEF Dropped
  <2> QED BY <2>2, <2>4
<1> HIDE DEF new
<1>2. DOMAIN new.down = {} /\ Len(new.down) = 0
  BY <1>1, EmptySeq
<1>3. OneItem(new)
  BY <1>1, <1>2 DEF OneItem
<1>4. Items(new) \subseteq Items(k)
  BY <1>1, <1>2 DEF Items
<1> QED BY <1>1, <1>3, <1>4 DEF new

\* What the service reads is the item, with its label resolved, or nothing.
LEMMA ReceivedItem ==
  ASSUME NEW k \in Socket, OneItem(k), k.state = "reading", k.up # <<>>,
         NEW resolved \in Labels
  PROVE  LET line == Head(k.up)
             new == [k EXCEPT !.up = Tail(k.up), !.state = "received",
                              !.line = [line EXCEPT !.label = resolved]]
             cut == [k EXCEPT !.up = Tail(k.up)]
         IN  /\ line \in Line
             /\ [req |-> line.req, label |-> line.label, stage |-> "sent"] \in Items(k)
             /\ new \in Socket /\ OneItem(new)
             /\ Items(new) = {[req |-> line.req, label |-> resolved, stage |-> "received"]}
             /\ cut \in Socket /\ OneItem(cut) /\ Items(cut) = {}
<1> DEFINE line == Head(k.up)
           new == [k EXCEPT !.up = Tail(k.up), !.state = "received",
                            !.line = [line EXCEPT !.label = resolved]]
           cut == [k EXCEPT !.up = Tail(k.up)]
<1>1. /\ k.up \in Seq(Line) /\ Len(k.up) <= 1 /\ k.down = <<>> /\ DOMAIN k.down = {}
      /\ Len(k.down) <= 1 /\ k.line = NULL
  BY SocketShape, EmptySeq DEF OneItem
<1>2. /\ DOMAIN k.up = {1} /\ line = k.up[1] /\ line \in Line /\ Tail(k.up) = <<>>
      /\ Len(Tail(k.up)) = 0
  BY <1>1, AtMostOne
<1>3. [line EXCEPT !.label = resolved] \in Line /\ [line EXCEPT !.label = resolved].req = line.req
      /\ [line EXCEPT !.label = resolved].label = resolved
  BY <1>2 DEF Line
<1>4. Tail(k.up) \in Seq(Line)
  BY <1>1, AtMostOne
<1>5. [req |-> line.req, label |-> line.label, stage |-> "sent"] \in Items(k)
  BY <1>2 DEF Items
<1> HIDE DEF line
<1>6. /\ new \in Socket /\ new.up = <<>> /\ new.down = <<>> /\ new.state = "received"
      /\ new.line = [line EXCEPT !.label = resolved]
  BY <1>1, <1>2, <1>3, <1>4 DEF Socket
<1>7. /\ cut \in Socket /\ cut.up = <<>> /\ cut.down = <<>> /\ cut.state = "reading"
      /\ cut.line = NULL
  BY <1>1, <1>2, <1>4 DEF Socket
<1> HIDE DEF new, cut
<1>8. OneItem(new) /\ OneItem(cut)
  BY <1>3, <1>6, <1>7, EmptySeq DEF OneItem
<1>9. /\ Items(new) = {[req |-> line.req, label |-> resolved, stage |-> "received"]}
      /\ Items(cut) = {}
  BY <1>3, <1>6, <1>7 DEF Items
<1> QED BY <1>2, <1>5, <1>6, <1>7, <1>8, <1>9 DEF line, new, cut

LEMMA HandledItem ==
  ASSUME NEW k \in Socket, OneItem(k), k.state = "received", NEW result \in Results
  PROVE  LET new == [k EXCEPT !.state = result]
         IN  /\ k.line \in Line
             /\ [req |-> k.line.req, label |-> k.line.label, stage |-> "received"] \in Items(k)
             /\ new \in Socket /\ OneItem(new)
             /\ Items(new) = {[req |-> k.line.req, label |-> k.line.label, stage |-> result]}
<1> DEFINE new == [k EXCEPT !.state = result]
<1>1. /\ k.up = <<>> /\ k.down = <<>> /\ k.line \in Line
      /\ DOMAIN k.up = {} /\ DOMAIN k.down = {}
  BY EmptySeq DEF OneItem
<1>2. [req |-> k.line.req, label |-> k.line.label, stage |-> "received"] \in Items(k)
  BY DEF Items
<1>3. /\ new \in Socket /\ new.up = <<>> /\ new.down = <<>> /\ new.state = result
      /\ new.line = k.line /\ result # "reading"
  BY <1>1 DEF Socket, Results
<1> HIDE DEF new
<1>4. OneItem(new)
  BY <1>1, <1>3, EmptySeq DEF OneItem
<1>5. Items(new) = {[req |-> k.line.req, label |-> k.line.label, stage |-> result]}
  BY <1>1, <1>3 DEF Items
<1> QED BY <1>1, <1>2, <1>3, <1>4, <1>5 DEF new

LEMMA AnsweredItem ==
  ASSUME NEW k \in Socket, OneItem(k), k.state \in Results
  PROVE  LET reply == [req |-> k.line.req, label |-> k.line.label, result |-> k.state]
             new == [k EXCEPT !.state = "reading", !.line = NULL,
                              !.down = IF k.mine THEN Append(k.down, reply) ELSE k.down]
         IN  new \in Socket /\ OneItem(new) /\ Items(new) \subseteq Items(k)
<1> DEFINE reply == [req |-> k.line.req, label |-> k.line.label, result |-> k.state]
           down == IF k.mine THEN Append(k.down, reply) ELSE k.down
           new == [k EXCEPT !.state = "reading", !.line = NULL, !.down = down]
<1>1. /\ k.up = <<>> /\ k.down = <<>> /\ k.line \in Line /\ k.state # "reading"
      /\ DOMAIN k.up = {} /\ DOMAIN k.down = {}
  BY EmptySeq DEF OneItem, Results
<1>2. reply \in Reply /\ reply.req = k.line.req /\ reply.label = k.line.label
      /\ reply.result = k.state
  BY <1>1 DEF Line, Reply
<1>3. [req |-> k.line.req, label |-> k.line.label, stage |-> k.state] \in Items(k)
  BY <1>1 DEF Items
<1> HIDE DEF reply
<1>4. /\ Append(k.down, reply) \in Seq(Reply) /\ Len(Append(k.down, reply)) = 1
      /\ DOMAIN Append(k.down, reply) = {1} /\ Append(k.down, reply)[1] = reply
  BY <1>1, <1>2, AppendProperties, LenProperties, EmptySeq
<1>5. /\ down \in Seq(Reply) /\ Len(down) <= 1
      /\ DOMAIN down \subseteq {1} /\ (1 \in DOMAIN down => down[1] = reply)
  BY <1>1, <1>4, EmptySeq
<1> HIDE DEF down
<1>6. /\ new \in Socket /\ new.up = <<>> /\ new.down = down /\ new.state = "reading"
      /\ new.line = NULL
  BY <1>1, <1>5 DEF Socket
<1> HIDE DEF new
<1>7. OneItem(new)
  BY <1>5, <1>6, EmptySeq DEF OneItem
<1>8. Items(new) \subseteq Items(k)
  <2>1. DOMAIN new.up = {}
    BY <1>1, <1>6
  <2>2. \A i \in DOMAIN new.down : new.down[i] = reply
    BY <1>5, <1>6
  <2> QED BY <1>2, <1>3, <1>6, <2>1, <2>2 DEF Items
<1> QED BY <1>6, <1>7, <1>8 DEF new, down, reply

LEMMA ReadItem ==
  ASSUME NEW k \in Socket, OneItem(k), k.down # <<>>
  PROVE  LET reply == Head(k.down)
             new == [k EXCEPT !.down = Tail(k.down)]
         IN  /\ reply \in Reply
             /\ [req |-> reply.req, label |-> reply.label, stage |-> reply.result] \in Items(k)
             /\ new \in Socket /\ OneItem(new) /\ Items(new) = {}
<1> DEFINE new == [k EXCEPT !.down = Tail(k.down)]
<1>1. /\ k.down \in Seq(Reply) /\ Len(k.down) <= 1 /\ k.up = <<>> /\ k.state = "reading"
      /\ k.line = NULL /\ DOMAIN k.up = {}
  BY SocketShape, EmptySeq DEF OneItem
<1>2. /\ DOMAIN k.down = {1} /\ Head(k.down) = k.down[1] /\ k.down[1] \in Reply
      /\ Tail(k.down) = <<>> /\ Tail(k.down) \in Seq(Reply)
  BY <1>1, AtMostOne
<1>3. LET reply == k.down[1]
      IN  [req |-> reply.req, label |-> reply.label, stage |-> reply.result] \in Items(k)
  BY <1>2 DEF Items
<1>4. /\ new \in Socket /\ new.up = <<>> /\ new.down = <<>> /\ new.state = "reading"
      /\ new.line = NULL
  BY <1>1, <1>2 DEF Socket
<1> HIDE DEF new
<1>5. DOMAIN new.down = {} /\ DOMAIN new.up = {}
  BY <1>4, EmptySeq
<1>6. OneItem(new) /\ Items(new) = {}
  BY <1>4, <1>5, EmptySeq DEF OneItem, Items
<1> QED BY <1>2, <1>3, <1>4, <1>6 DEF new

\* A service that ends leaves a socket no item but an answer on its way.
LEMMA EndedItem ==
  ASSUME NEW k \in Socket, OneItem(k)
  PROVE  LET new == [k EXCEPT !.peer = FALSE, !.up = <<>>, !.line = NULL, !.state = "reading"]
         IN  new \in Socket /\ OneItem(new) /\ Items(new) \subseteq Items(k)
<1>1. ASSUME NEW peer \in BOOLEAN, NEW up, up = <<>>
      PROVE  LET new == [k EXCEPT !.peer = peer, !.up = up, !.line = NULL, !.state = "reading"]
             IN  new \in Socket /\ OneItem(new) /\ Items(new) \subseteq Items(k)
  <2> DEFINE new == [k EXCEPT !.peer = peer, !.up = up, !.line = NULL, !.state = "reading"]
  <2>1. up \in Seq(Line) /\ DOMAIN up = {} /\ Len(up) = 0
    BY <1>1, EmptySeq
  <2>2. /\ new \in Socket /\ new.up = <<>> /\ new.down = k.down /\ new.state = "reading"
        /\ new.line = NULL
    BY <1>1, <2>1 DEF Socket
  <2> HIDE DEF new
  <2>3. OneItem(new)
    BY <2>2, EmptySeq DEF OneItem
  <2>4. DOMAIN new.up = {}
    BY <1>1, <2>1, <2>2
  <2>5. Items(new) \subseteq Items(k)
    BY <2>2, <2>4 DEF Items
  <2> QED BY <2>2, <2>3, <2>5 DEF new
<1>2. FALSE \in BOOLEAN
  OBVIOUS
<1> QED BY <1>1, <1>2

-----------------------------------------------------------------------------
(* The invariant. *)

Reading(r) == calls[r[1]].pc = "read" /\ Req(r[1]) = r

Conforms(l) == l = Harness \/ l \in 1 .. minted

\* Who holds what: the connection's lock, its socket, the bridge's lock.
CallLegal(c) ==
    /\ calls[c].part = "plan" => c \in NextCalls
    /\ calls[c].pc = "bridge" => calls[c].part = "plan"
    /\ calls[c].pc \in {"connect", "send", "read"} => lock = c /\ calls[c].sent = label
    /\ calls[c].pc \in {"send", "read"} => held # 0 /\ calls[c].sock = held
    /\ calls[c].pc \in {"lock", "connect", "send", "read"} /\ calls[c].part = "plan" =>
          bridge.lock = c

Discipline ==
    /\ \A c \in Calls : CallLegal(c)
    /\ bridge.lock # NULL => bridge.state = "unplanned"

\* A request is answered as its call leaves it, and only then.
Unanswered ==
    \A c \in Calls :
        /\ calls[c].pc # "done" => answer[<<c, "verb">>] = "none"
        /\ c \in NextCalls /\ calls[c].pc # "done"
              /\ (calls[c].pc = "idle" \/ calls[c].part = "plan") =>
                    answer[<<c, "plan">>] = "none"

Truth ==
    \A r \in AllRequests :
        /\ applied[r] \in {0, 1}
        /\ answer[r] \in {"unsent", "busy", "refused"} => applied[r] = 0
        /\ answer[r] = "ok" => applied[r] = 1
        /\ answer[r] = "none" /\ ~Reading(r) => applied[r] = 0

\* What is under way on a socket: on the one kept, the request that is waited
\* for; on any other, one whose caller was told nothing.
ItemLegal(s, i) ==
    /\ IF s = held THEN Reading(i.req) ELSE answer[i.req] \in {"ambiguous", "cancelled"}
    /\ applied[i.req] = IF i.stage = "ok" THEN 1 ELSE 0
    /\ i.stage # "sent" => Conforms(i.label)
    /\ heard /\ s = held => i.label = label

Wire ==
    /\ \A s \in DOMAIN socks : OneItem(socks[s]) /\ \A i \in Items(socks[s]) : ItemLegal(s, i)
    /\ \A s, t \in DOMAIN socks : \A i \in Items(socks[s]), j \in Items(socks[t]) :
          i.req = j.req => s = t

UnderWay(r) == \E s \in DOMAIN socks : \E i \in Items(socks[s]) : i.req = r

\* A plan that was applied, or may yet be.
Touched(c) == applied[<<c, "plan">>] = 1 \/ UnderWay(<<c, "plan">>)

Takeovers ==
    /\ \A c, d \in NextCalls : Touched(c) /\ Touched(d) => c = d
    /\ bridge.state = "unplanned" => \A c \in NextCalls : Touched(c) => Reading(<<c, "plan">>)
    /\ bridge.state = "ready" => \E c \in NextCalls : applied[<<c, "plan">>] = 1

ReqInv ==
    TypeOK /\ Discipline /\ Unanswered /\ Truth /\ Wire /\ Takeovers /\ (heard => Conforms(label))

LEMMA SocketsOf ==
  ASSUME TypeOK
  PROVE  /\ Len(socks) \in Nat /\ DOMAIN socks = 1 .. Len(socks) /\ 0 \notin DOMAIN socks
         /\ \A s \in DOMAIN socks : socks[s] \in Socket
<1>1. socks \in Seq(Socket)
  BY DEF TypeOK
<1> QED BY <1>1, LenProperties, ElementOfSeq

LEMMA RequestsOf ==
  ASSUME TypeOK, Discipline, NEW c \in Calls
  PROVE  /\ Req(c) \in AllRequests /\ Req(c)[1] = c /\ Req(c)[2] = calls[c].part
         /\ calls[c] \in Call /\ calls[c].part \in {"plan", "verb"}
         /\ <<c, "verb">> \in AllRequests
         /\ c \in NextCalls => <<c, "plan">> \in AllRequests
BY DEF TypeOK, Discipline, CallLegal, Req, AllRequests, Call

LEMMA RequestIs ==
  ASSUME NEW r \in AllRequests
  PROVE  r[1] \in Calls /\ r[2] \in {"plan", "verb"} /\ r = <<r[1], r[2]>>
         /\ (r[2] = "plan" => r[1] \in NextCalls)
BY CallsAssumption DEF AllRequests

\* One of the sockets replaced.
LEMMA SocketSet ==
  ASSUME TypeOK, NEW s \in DOMAIN socks, NEW new \in Socket
  PROVE  LET after == [socks EXCEPT ![s] = new]
         IN  /\ after \in Seq(Socket) /\ Len(after) = Len(socks) /\ DOMAIN after = DOMAIN socks
             /\ after[s] = new /\ \A t \in DOMAIN socks \ {s} : after[t] = socks[t]
<1>1. socks \in Seq(Socket) /\ s \in 1 .. Len(socks)
  BY SocketsOf DEF TypeOK
<1>2. [socks EXCEPT ![s] = new] \in Seq(Socket) /\ Len([socks EXCEPT ![s] = new]) = Len(socks)
  BY <1>1, ExceptSeq
<1> QED BY <1>2

\* The call that waits, and the socket it waits on.
LEMMA WaitingHolds ==
  ASSUME ReqInv, NEW r \in AllRequests, Reading(r)
  PROVE  lock = r[1] /\ held # 0 /\ r = Req(r[1])
BY RequestIs DEF ReqInv, Discipline, CallLegal, Reading

LEMMA PendingIsNone ==
  ASSUME ReqInv, NEW c \in Calls, calls[c].pc \notin {"idle", "done"}
  PROVE  answer[Req(c)] = "none"
<1>1. calls[c].part \in {"plan", "verb"} /\ (calls[c].part = "plan" => c \in NextCalls)
  BY RequestsOf DEF ReqInv, Discipline, CallLegal
<1>2. Req(c) = <<c, calls[c].part>>
  BY DEF Req
<1>3. CASE calls[c].part = "verb"
  BY <1>2, <1>3 DEF ReqInv, Unanswered
<1>4. CASE calls[c].part = "plan"
  BY <1>1, <1>2, <1>4 DEF ReqInv, Unanswered
<1> QED BY <1>1, <1>3, <1>4

\* While the lock's holder is not waiting, nothing is under way on the socket kept.
LEMMA HeldIsQuiet ==
  ASSUME ReqInv, NEW c \in Calls, calls[c].pc \in {"connect", "send"}
  PROVE  /\ \A s \in DOMAIN socks : s = held => Items(socks[s]) = {}
         /\ ~UnderWay(Req(c)) /\ applied[Req(c)] = 0
         /\ calls[c].part = "plan" => \A d \in NextCalls : ~Touched(d)
<1>1. lock = c
  BY DEF ReqInv, Discipline, CallLegal
<1>2. \A r \in AllRequests : ~Reading(r)
  BY <1>1, WaitingHolds DEF Reading
<1>3. \A s \in DOMAIN socks : Items(socks[s]) \subseteq Item
  BY SocketsOf, ItemsAreItems DEF ReqInv, Wire
<1>4. \A s \in DOMAIN socks : s = held => Items(socks[s]) = {}
  BY <1>2, <1>3 DEF ReqInv, Wire, ItemLegal, Item
<1>5. answer[Req(c)] = "none" /\ Req(c) \in AllRequests
  BY PendingIsNone, RequestsOf DEF ReqInv
<1>6. ~UnderWay(Req(c))
  BY <1>4, <1>5 DEF ReqInv, Wire, ItemLegal, UnderWay
<1>7. applied[Req(c)] = 0
  BY <1>2, <1>5 DEF ReqInv, Truth
<1>8. ASSUME calls[c].part = "plan", NEW d \in NextCalls
      PROVE  ~Touched(d)
  <2>1. bridge.lock = c /\ bridge.state = "unplanned"
    BY <1>8, CallsAssumption DEF ReqInv, Discipline, CallLegal
  <2>2. ~Reading(<<d, "plan">>)
    BY <1>2 DEF AllRequests
  <2> QED BY <2>1, <2>2 DEF ReqInv, Takeovers
<1> QED BY <1>4, <1>6, <1>7, <1>8

LEMMA InitKeeps == Init => ReqInv
<1> SUFFICES ASSUME Init PROVE ReqInv
  OBVIOUS
<1>1. socks = <<>> /\ DOMAIN socks = {} /\ Len(socks) = 0 /\ socks \in Seq(Socket)
  BY EmptySeq DEF Init
<1>2. calls = [c \in Calls |-> New] /\ New \in Call /\ New.pc = "idle" /\ New.part = "verb"
  BY BoundsAssumption DEF Init, New, Call, Labels
<1>3. TypeOK
  <2>1. /\ calls \in [Calls -> Call] /\ lock \in Calls \cup {NULL} /\ label \in Labels
        /\ applied \in [AllRequests -> Nat] /\ answer \in [AllRequests -> Outcomes]
        /\ bridge \in [state : {"unplanned", "ready", "failed"}, lock : Calls \cup {NULL}]
    BY <1>2 DEF Init, Labels, Outcomes
  <2>2. heard \in BOOLEAN /\ alive \in BOOLEAN
    BY Zenon DEF Init
  <2>3. held \in 0 .. Len(socks) /\ minted \in Nat /\ deaths \in 0 .. MaxDeaths
        /\ Len(socks) <= MaxSockets
    BY <1>1, BoundsAssumption DEF Init
  <2> QED BY <1>1, <2>1, <2>2, <2>3 DEF TypeOK
<1>4. Discipline
  <2>1. \A c \in Calls : calls[c].pc = "idle" /\ calls[c].part = "verb"
    BY <1>2
  <2>2. bridge.lock = NULL
    BY DEF Init
  <2> QED BY <2>1, <2>2 DEF Discipline, CallLegal
<1>5. Unanswered
  <2>1. \A r \in AllRequests : answer[r] = "none"
    BY DEF Init
  <2>2. \A c \in Calls : <<c, "verb">> \in AllRequests
    BY DEF AllRequests
  <2>3. \A c \in NextCalls : <<c, "plan">> \in AllRequests
    BY DEF AllRequests
  <2> QED BY <2>1, <2>2, <2>3 DEF Unanswered
<1>6. Truth /\ Wire /\ Takeovers
  BY <1>1 DEF Init, Truth, Wire, Takeovers, Touched, UnderWay, AllRequests
<1> QED BY <1>3, <1>4, <1>5, <1>6 DEF Init, ReqInv

-----------------------------------------------------------------------------
(* Steps that put nothing under way, and tell nobody anything. *)

LEMMA RestKeeps ==
  ASSUME ReqInv, TypeOK', Discipline', Unanswered',
         UNCHANGED <<applied, answer, heard, minted>>, bridge'.state = bridge.state,
         heard => label' = label,
         \A r \in AllRequests : Reading(r)' <=> Reading(r),
         \A s \in DOMAIN socks' :
            /\ OneItem(socks'[s])
            /\ \A i \in Items(socks'[s]) :
                  s \in DOMAIN socks /\ i \in Items(socks[s]) /\ (s = held' <=> s = held)
  PROVE  ReqInv'
<1>1. \A s \in DOMAIN socks : Items(socks[s]) \subseteq Item
  BY SocketsOf, ItemsAreItems DEF ReqInv, Wire
<1>2. Truth'
  BY DEF ReqInv, Truth
<1>3. Wire'
  <2>1. ASSUME NEW s \in DOMAIN socks', NEW i \in Items(socks'[s])
        PROVE  ItemLegal(s, i)'
    <3>1. ItemLegal(s, i) /\ i.req \in AllRequests
      BY <1>1, <2>1 DEF ReqInv, Wire, Item
    <3>2. s = held' <=> s = held
      BY <2>1
    <3> QED BY <3>1, <3>2 DEF ItemLegal, Conforms
  <2> QED BY <2>1 DEF ReqInv, Wire
<1>4. Takeovers'
  <2>1. \A c \in NextCalls : Touched(c)' => Touched(c)
    BY DEF Touched, UnderWay
  <2>2. \A c \in NextCalls : Reading(<<c, "plan">>)' <=> Reading(<<c, "plan">>)
    BY DEF AllRequests
  <2> QED BY <2>1, <2>2 DEF ReqInv, Takeovers
<1>5. heard' => Conforms(label)'
  BY DEF ReqInv, Conforms
<1> QED BY <1>2, <1>3, <1>4, <1>5 DEF ReqInv

\* The sockets as they are.
LEMMA SocketsRest ==
  ASSUME ReqInv, UNCHANGED <<socks, held>>
  PROVE  \A s \in DOMAIN socks' :
            /\ OneItem(socks'[s])
            /\ \A i \in Items(socks'[s]) :
                  s \in DOMAIN socks /\ i \in Items(socks[s]) /\ (s = held' <=> s = held)
BY DEF ReqInv, Wire

LEMMA ReadingRests ==
  ASSUME NEW c \in Calls, \A d \in Calls \ {c} : calls'[d] = calls[d],
         calls[c].pc # "read", calls'[c].pc # "read"
  PROVE  \A r \in AllRequests : Reading(r)' <=> Reading(r)
BY RequestIs DEF Reading, Req

\* The locks change hands only by the call that has them, or while they are free.
LEMMA DisciplineStep ==
  ASSUME ReqInv, NEW c \in Calls, \A d \in Calls \ {c} : calls'[d] = calls[d], CallLegal(c)',
         bridge'.lock # NULL => bridge'.state = "unplanned",
         bridge'.lock = bridge.lock \/ bridge.lock = c,
         UNCHANGED <<lock, label, held>> \/ lock \in {NULL, c}
  PROVE  Discipline'
<1> SUFFICES ASSUME NEW d \in Calls \ {c} PROVE CallLegal(d)'
  BY DEF Discipline
<1>1. calls'[d] = calls[d] /\ CallLegal(d) /\ d # NULL
  BY CallsAssumption DEF ReqInv, Discipline
<1>2. CASE UNCHANGED <<lock, label, held>>
  BY <1>1, <1>2 DEF CallLegal
<1>3. CASE lock \in {NULL, c}
  BY <1>1, <1>3 DEF CallLegal
<1> QED BY <1>2, <1>3

\* A call that goes on, or is over, without an answer.
LEMMA UnansweredRests ==
  ASSUME ReqInv, NEW c \in Calls, answer' = answer,
         \A d \in Calls \ {c} : calls'[d] = calls[d],
         calls[c].pc # "done", calls'[c].pc # "idle",
         calls'[c].part = "plan" => calls[c].part = "plan" \/ calls[c].pc = "idle"
  PROVE  Unanswered'
<1> SUFFICES ASSUME NEW d \in Calls
             PROVE  /\ calls'[d].pc # "done" => answer[<<d, "verb">>] = "none"
                    /\ d \in NextCalls /\ calls'[d].pc # "done"
                          /\ (calls'[d].pc = "idle" \/ calls'[d].part = "plan") =>
                                answer[<<d, "plan">>] = "none"
  BY DEF Unanswered
<1>1. CASE d = c
  BY <1>1 DEF ReqInv, Unanswered
<1>2. CASE d # c
  BY <1>2 DEF ReqInv, Unanswered
<1> QED BY <1>1, <1>2

LEMMA AskKeeps ==
  ASSUME ReqInv, NEW c \in Calls, Ask(c)
  PROVE  ReqInv'
<1>1. TypeOK /\ calls[c] \in Call /\ label \in Labels
  BY DEF ReqInv, TypeOK
<1>2. /\ calls[c].pc = "idle" /\ \A d \in Calls \ {c} : calls'[d] = calls[d]
      /\ calls'[c] \in Call
      /\ calls'[c].pc = IF c \in NextCalls THEN "bridge" ELSE "lock"
      /\ calls'[c].part = IF c \in NextCalls THEN "plan" ELSE "verb"
  BY <1>1 DEF Ask, TypeOK, Call
<1>3. calls' \in [Calls -> Call]
  BY <1>1, <1>2 DEF Ask, TypeOK
<1>4. UNCHANGED <<lock, held, label, heard, bridge, socks, alive, minted, applied, answer, deaths>>
  BY DEF Ask
<1>5. TypeOK'
  BY <1>1, <1>3, <1>4 DEF TypeOK
<1>6. Discipline'
  BY <1>2, <1>4 DEF ReqInv, Discipline, CallLegal
<1>7. Unanswered'
  BY <1>2, <1>4 DEF ReqInv, Unanswered
<1>8. \A r \in AllRequests : Reading(r)' <=> Reading(r)
  BY <1>2, RequestIs DEF Reading, Req
<1> QED BY <1>4, <1>5, <1>6, <1>7, <1>8, RestKeeps, SocketsRest

LEMMA EnsurePlannedKeeps ==
  ASSUME ReqInv, NEW c \in Calls, EnsurePlanned(c)
  PROVE  ReqInv'
<1>1. TypeOK /\ calls[c] \in Call /\ label \in Labels /\ calls[c].pc = "bridge"
      /\ calls[c].part = "plan" /\ c \in NextCalls /\ c # NULL /\ bridge.lock = NULL
  BY CallsAssumption DEF ReqInv, TypeOK, EnsurePlanned, Discipline, CallLegal
<1>2. UNCHANGED <<lock, held, label, heard, socks, alive, minted, applied, answer, deaths>>
  BY DEF EnsurePlanned
<1>3. /\ \A d \in Calls \ {c} : calls'[d] = calls[d]
      /\ calls' \in [Calls -> Call]
      /\ \/ calls'[c].pc = "lock" /\ calls'[c].part = "verb" /\ bridge' = bridge
         \/ calls'[c].pc = "done" /\ calls'[c].part = "verb" /\ bridge' = bridge
         \/ /\ calls'[c].pc = "lock" /\ calls'[c].part = "plan" /\ bridge.state = "unplanned"
            /\ bridge' = [bridge EXCEPT !.lock = c]
  <2>1. calls \in [Calls -> Call]
    BY <1>1 DEF TypeOK
  <2>2. CASE bridge.state = "ready"
    <3>1. calls' = [calls EXCEPT ![c] = [calls[c] EXCEPT !.pc = "lock", !.part = "verb",
                                                         !.envelope = label]]
          /\ bridge' = bridge
      BY <2>2 DEF EnsurePlanned
    <3>2. [calls[c] EXCEPT !.pc = "lock", !.part = "verb", !.envelope = label] \in Call
      BY <1>1 DEF Call
    <3> QED BY <1>1, <2>1, <3>1, <3>2 DEF Call
  <2>3. CASE bridge.state = "failed"
    <3>1. calls' = [calls EXCEPT ![c] = Over] /\ bridge' = bridge
      BY <2>3 DEF EnsurePlanned
    <3>2. Over \in Call /\ Over.pc = "done" /\ Over.part = "verb"
      BY BoundsAssumption DEF Over, New, Call, Labels
    <3> QED BY <2>1, <3>1, <3>2
  <2>4. CASE bridge.state = "unplanned"
    <3>1. calls' = [calls EXCEPT ![c] = [calls[c] EXCEPT !.pc = "lock", !.envelope = label]]
          /\ bridge' = [bridge EXCEPT !.lock = c]
      BY <2>4 DEF EnsurePlanned
    <3>2. [calls[c] EXCEPT !.pc = "lock", !.envelope = label] \in Call
      BY <1>1 DEF Call
    <3> QED BY <1>1, <2>1, <2>4, <3>1, <3>2 DEF Call
  <2> QED BY <2>2, <2>3, <2>4 DEF EnsurePlanned
<1>4. /\ bridge' \in [state : {"unplanned", "ready", "failed"}, lock : Calls \cup {NULL}]
      /\ bridge'.state = bridge.state
      /\ bridge'.lock # NULL => bridge'.state = "unplanned"
      /\ calls'[c].pc = "lock" /\ calls'[c].part = "plan" => bridge'.lock = c
      /\ calls'[c].pc \in {"lock", "done"} /\ calls'[c].part \in {"plan", "verb"}
  <2>1. bridge \in [state : {"unplanned", "ready", "failed"}, lock : Calls \cup {NULL}]
    BY <1>1 DEF TypeOK
  <2> QED BY <1>1, <1>3, <2>1
<1>5. TypeOK'
  BY <1>1, <1>2, <1>3, <1>4 DEF TypeOK
<1>6. Discipline'
  <2>1. CallLegal(c)'
    BY <1>1, <1>4 DEF CallLegal
  <2>2. ASSUME NEW d \in Calls \ {c}
        PROVE  CallLegal(d)'
    BY <1>1, <1>2, <1>3, <2>2, CallsAssumption DEF ReqInv, Discipline, CallLegal
  <2> QED BY <1>4, <2>1, <2>2 DEF Discipline
<1>7. Unanswered'
  BY <1>1, <1>2, <1>3, UnansweredRests
<1>8. \A r \in AllRequests : Reading(r)' <=> Reading(r)
  BY <1>1, <1>3, <1>4, ReadingRests
<1> QED BY <1>2, <1>4, <1>5, <1>6, <1>7, <1>8, RestKeeps, SocketsRest

LEMMA EnterKeeps ==
  ASSUME ReqInv, NEW c \in Calls, Enter(c)
  PROVE  ReqInv'
<1>1. /\ TypeOK /\ calls[c] \in Call /\ label \in Labels /\ calls[c].pc = "lock" /\ lock = NULL
      /\ CallLegal(c)
  BY DEF ReqInv, TypeOK, Enter, Discipline
<1>2. UNCHANGED <<held, heard, bridge, socks, alive, minted, applied, answer, deaths>> /\ lock' = c
  BY DEF Enter
<1>3. label' \in Labels /\ (heard => label' = label)
  <2>1. heard => label # Unresolved
    BY LabelsAssumption DEF ReqInv, Conforms
  <2> QED BY <1>1, <2>1 DEF Enter, Labels
<1>4. /\ \A d \in Calls \ {c} : calls'[d] = calls[d]
      /\ calls' \in [Calls -> Call]
      /\ calls'[c].pc = "connect" /\ calls'[c].part = calls[c].part /\ calls'[c].sent = label'
  <2>1. calls \in [Calls -> Call]
    BY <1>1 DEF TypeOK
  <2>2. calls' = [calls EXCEPT ![c] = [calls[c] EXCEPT !.pc = "connect", !.tries = 1,
                                                       !.sent = label']]
    BY DEF Enter, SentLabel
  <2>3. ASSUME NEW tries \in 1 .. 2, NEW l \in Labels
        PROVE  [calls[c] EXCEPT !.pc = "connect", !.tries = tries, !.sent = l] \in Call
    BY <1>1 DEF Call
  <2>4. 1 \in 1 .. 2
    OBVIOUS
  <2> QED BY <1>1, <1>3, <2>1, <2>2, <2>3, <2>4 DEF Call
<1>5. TypeOK'
  BY <1>1, <1>2, <1>3, <1>4 DEF TypeOK
<1>6. CallLegal(c)'
  BY <1>1, <1>2, <1>4 DEF CallLegal
<1>7. Discipline'
  BY <1>1, <1>2, <1>4, <1>6, DisciplineStep DEF ReqInv, Discipline
<1>8. Unanswered'
  BY <1>1, <1>2, <1>4, UnansweredRests
<1>9. \A r \in AllRequests : Reading(r)' <=> Reading(r)
  BY <1>1, <1>4, ReadingRests
<1> QED BY <1>2, <1>3, <1>5, <1>7, <1>8, <1>9, RestKeeps, SocketsRest

\* A new socket has nothing under way.
LEMMA OpenedItem == Opened \in Socket /\ OneItem(Opened) /\ Items(Opened) = {}
<1>1. /\ Opened.up = <<>> /\ Opened.down = <<>> /\ Opened.state = "reading" /\ Opened.line = NULL
      /\ <<>> \in Seq(Line) /\ <<>> \in Seq(Reply)
  BY EmptySeq DEF Opened
<1>2. Opened \in Socket
  <2>1. TRUE \in BOOLEAN
    OBVIOUS
  <2>2. ASSUME NEW b \in BOOLEAN
        PROVE  [mine |-> b, peer |-> b, up |-> <<>>, down |-> <<>>, state |-> "reading",
                line |-> NULL] \in Socket
    BY <1>1 DEF Socket
  <2> QED BY <2>1, <2>2 DEF Opened
<1>3. OneItem(Opened)
  BY <1>1, EmptySeq DEF OneItem
<1>4. Items(Opened) = {}
  BY <1>1 DEF Items
<1> QED BY <1>2, <1>3, <1>4

LEMMA ConnectedKeeps ==
  ASSUME ReqInv, NEW c \in Calls, ConnectedSocket(c)
  PROVE  ReqInv'
<1>1. /\ TypeOK /\ calls[c] \in Call /\ calls[c].pc = "connect" /\ CallLegal(c) /\ lock = c
      /\ socks \in Seq(Socket) /\ Len(socks) \in Nat
  BY SocketsOf DEF ReqInv, TypeOK, ConnectedSocket, Discipline, CallLegal
<1>2. UNCHANGED <<lock, label, heard, bridge, minted, applied, answer, deaths>>
  BY DEF ConnectedSocket
<1>3. /\ held' # 0 /\ held' \in 0 .. Len(socks') /\ socks' \in Seq(Socket)
      /\ Len(socks') <= MaxSockets
      /\ calls' = [calls EXCEPT ![c] = [calls[c] EXCEPT !.pc = "send", !.sock = held']]
      /\ \A s \in DOMAIN socks' :
            /\ OneItem(socks'[s])
            /\ \A i \in Items(socks'[s]) :
                  s \in DOMAIN socks /\ i \in Items(socks[s]) /\ (s = held' <=> s = held)
  <2>1. CASE held # 0
    <3>1. held' = held /\ socks' = socks
      BY <2>1 DEF ConnectedSocket
    <3> QED BY <1>1, <2>1, <3>1, SocketsRest DEF ConnectedSocket, TypeOK
  <2>2. CASE held = 0
    <3>1. /\ held' = Len(socks) + 1 /\ socks' = Append(socks, Opened)
          /\ Len(socks) < MaxSockets
          /\ calls' = [calls EXCEPT ![c] = [calls[c] EXCEPT !.pc = "send",
                                                            !.sock = Len(socks) + 1]]
      BY <2>2 DEF ConnectedSocket
    <3>2. /\ socks' \in Seq(Socket) /\ Len(socks') = Len(socks) + 1
          /\ \A s \in 1 .. Len(socks) : socks'[s] = socks[s]
          /\ socks'[Len(socks) + 1] = Opened
      BY <1>1, <3>1, OpenedItem, AppendProperties
    <3>3. DOMAIN socks' = 1 .. Len(socks) + 1 /\ DOMAIN socks = 1 .. Len(socks)
      BY <1>1, <3>2, LenProperties
    <3>4. ASSUME NEW s \in DOMAIN socks'
          PROVE  /\ OneItem(socks'[s])
                 /\ \A i \in Items(socks'[s]) :
                       s \in DOMAIN socks /\ i \in Items(socks[s]) /\ (s = held' <=> s = held)
      <4>1. CASE s = Len(socks) + 1
        BY <3>2, <4>1, OpenedItem
      <4>2. CASE s \in 1 .. Len(socks)
        BY <1>1, <2>2, <3>1, <3>2, <3>3, <4>2 DEF ReqInv, Wire
      <4> QED BY <1>1, <3>3, <4>1, <4>2
    <3>5. held' # 0 /\ held' \in 0 .. Len(socks') /\ Len(socks') <= MaxSockets
      BY <1>1, <3>1, <3>2, BoundsAssumption
    <3>6. calls' = [calls EXCEPT ![c] = [calls[c] EXCEPT !.pc = "send", !.sock = held']]
      BY <3>1
    <3> QED BY <3>2, <3>4, <3>5, <3>6
  <2> QED BY <2>1, <2>2
<1>4. /\ \A d \in Calls \ {c} : calls'[d] = calls[d]
      /\ calls' \in [Calls -> Call]
      /\ calls'[c].pc = "send" /\ calls'[c].part = calls[c].part /\ calls'[c].sent = calls[c].sent
      /\ calls'[c].sock = held'
  <2>1. calls \in [Calls -> Call]
    BY <1>1 DEF TypeOK
  <2>2. held' \in 0 .. MaxSockets
    <3>1. Len(socks') \in Nat
      BY <1>3, LenProperties
    <3> QED BY <1>3, <3>1, BoundsAssumption
  <2>3. [calls[c] EXCEPT !.pc = "send", !.sock = held'] \in Call
    BY <1>1, <2>2 DEF Call
  <2> QED BY <1>1, <1>3, <2>1, <2>3 DEF Call
<1>5. alive' \in BOOLEAN
  <2>1. alive' = alive \/ alive' = TRUE
    BY DEF ConnectedSocket
  <2> QED BY <1>1, <2>1, Zenon DEF TypeOK
<1>6. TypeOK'
  BY <1>1, <1>2, <1>3, <1>4, <1>5 DEF TypeOK
<1>7. CallLegal(c)'
  BY <1>1, <1>2, <1>3, <1>4 DEF CallLegal
<1>8. Discipline'
  BY <1>1, <1>2, <1>4, <1>7, DisciplineStep DEF ReqInv, Discipline
<1>9. Unanswered'
  BY <1>1, <1>2, <1>4, UnansweredRests
<1>10. \A r \in AllRequests : Reading(r)' <=> Reading(r)
  BY <1>1, <1>4, ReadingRests
<1> QED BY <1>2, <1>3, <1>6, <1>8, <1>9, <1>10, RestKeeps

\* The first attempt of which nothing was sent.
LEMMA RetryKeeps ==
  ASSUME ReqInv, NEW c \in Calls, ZeroProgress(c), calls[c].tries = 1
  PROVE  ReqInv'
<1>1. /\ TypeOK /\ calls[c] \in Call /\ calls[c].pc = "send" /\ CallLegal(c) /\ lock = c
      /\ held # 0 /\ calls[c].sock = held /\ held \in DOMAIN socks /\ socks[held] \in Socket
      /\ OneItem(socks[held]) /\ Items(socks[held]) = {}
  <2>1. TypeOK /\ calls[c].pc = "send" /\ CallLegal(c) /\ calls[c] \in Call
    BY DEF ReqInv, TypeOK, ZeroProgress, Discipline
  <2>2. lock = c /\ held # 0 /\ calls[c].sock = held
    BY <2>1 DEF CallLegal
  <2>3. held \in DOMAIN socks
    BY <2>1, <2>2, SocketsOf DEF TypeOK
  <2>4. socks[held] \in Socket /\ OneItem(socks[held])
    BY <2>1, <2>3, SocketsOf DEF ReqInv, Wire
  <2>5. Items(socks[held]) = {}
    BY <2>1, <2>3, HeldIsQuiet
  <2> QED BY <2>1, <2>2, <2>3, <2>4, <2>5
<1>2. /\ UNCHANGED <<lock, bridge, answer, label, heard, alive, minted, applied, deaths>>
      /\ held' = 0 /\ socks' = [socks EXCEPT ![held] = Dropped(socks[held])]
      /\ calls' = [calls EXCEPT ![c] = [calls[c] EXCEPT !.pc = "connect", !.tries = 2]]
  <2>1. calls[c].sock = held /\ 1 # 2
    BY <1>1
  <2>2. /\ UNCHANGED <<lock, bridge, answer, label, heard, alive, minted, applied, deaths>>
        /\ held' = 0
        /\ calls' = [calls EXCEPT ![c] = [calls[c] EXCEPT !.pc = "connect", !.tries = 2]]
    BY <2>1 DEF ZeroProgress
  <2>3. socks' = [socks EXCEPT ![held] = Dropped(socks[held])]
    BY <2>1 DEF ZeroProgress
  <2> QED BY <2>2, <2>3
<1>3. /\ Dropped(socks[held]) \in Socket /\ OneItem(Dropped(socks[held]))
      /\ Items(Dropped(socks[held])) = {}
  BY <1>1, DroppedItem
<1>4. /\ socks' \in Seq(Socket) /\ Len(socks') = Len(socks) /\ DOMAIN socks' = DOMAIN socks
      /\ socks'[held] = Dropped(socks[held])
      /\ \A s \in DOMAIN socks \ {held} : socks'[s] = socks[s]
  BY <1>1, <1>2, <1>3, SocketSet
<1>5. \A s \in DOMAIN socks' :
         /\ OneItem(socks'[s])
         /\ \A i \in Items(socks'[s]) :
               s \in DOMAIN socks /\ i \in Items(socks[s]) /\ (s = held' <=> s = held)
  <2> SUFFICES ASSUME NEW s \in DOMAIN socks
               PROVE  /\ OneItem(socks'[s])
                      /\ \A i \in Items(socks'[s]) :
                            i \in Items(socks[s]) /\ (s = held' <=> s = held)
    BY <1>4
  <2>1. CASE s = held
    BY <1>3, <1>4, <2>1
  <2>2. CASE s # held
    BY <1>1, <1>2, <1>4, <2>2, SocketsOf DEF ReqInv, Wire
  <2> QED BY <2>1, <2>2
<1>6. /\ \A d \in Calls \ {c} : calls'[d] = calls[d]
      /\ calls' \in [Calls -> Call]
      /\ calls'[c].pc = "connect" /\ calls'[c].part = calls[c].part /\ calls'[c].sent = calls[c].sent
  <2>1. calls \in [Calls -> Call]
    BY <1>1 DEF TypeOK
  <2>2. 2 \in 1 .. 2
    OBVIOUS
  <2>3. ASSUME NEW tries \in 1 .. 2
        PROVE  [calls[c] EXCEPT !.pc = "connect", !.tries = tries] \in Call
    BY <1>1 DEF Call
  <2> QED BY <1>1, <1>2, <2>1, <2>2, <2>3 DEF Call
<1>7. TypeOK'
  <2>1. held' \in 0 .. Len(socks')
    BY <1>1, <1>2, <1>4, SocketsOf
  <2> QED BY <1>1, <1>2, <1>4, <1>6, <2>1 DEF TypeOK
<1>8. CallLegal(c)'
  BY <1>1, <1>2, <1>6 DEF CallLegal
<1>9. Discipline'
  BY <1>1, <1>2, <1>6, <1>8, DisciplineStep DEF ReqInv, Discipline
<1>10. Unanswered'
  BY <1>1, <1>2, <1>6, UnansweredRests
<1>11. \A r \in AllRequests : Reading(r)' <=> Reading(r)
  BY <1>1, <1>6, ReadingRests
<1> QED BY <1>2, <1>5, <1>7, <1>9, <1>10, <1>11, RestKeeps

\* Steps that leave the calls and their bookkeeping alone.
LEMMA CallsRest ==
  ASSUME ReqInv, UNCHANGED <<calls, lock, held, label, bridge, answer>>
  PROVE  Discipline' /\ Unanswered' /\ \A r \in AllRequests : Reading(r)' <=> Reading(r)
BY DEF ReqInv, Discipline, CallLegal, Unanswered, Reading, Req

LEMMA RespondKeeps ==
  ASSUME ReqInv, NEW s \in DOMAIN socks, Respond(s)
  PROVE  ReqInv'
<1>1. TypeOK /\ socks[s] \in Socket /\ OneItem(socks[s]) /\ socks[s].state \in Results
  BY SocketsOf DEF ReqInv, Wire, Respond
<1> DEFINE reply == [req |-> socks[s].line.req, label |-> socks[s].line.label,
                     result |-> socks[s].state]
           new == [socks[s] EXCEPT !.state = "reading", !.line = NULL,
                      !.down = IF socks[s].mine THEN Append(socks[s].down, reply)
                               ELSE socks[s].down]
<1>2. /\ UNCHANGED <<calls, lock, held, label, heard, bridge, alive, minted, applied, answer, deaths>>
      /\ socks' = [socks EXCEPT ![s] = new]
  BY DEF Respond
<1>3. new \in Socket /\ OneItem(new) /\ Items(new) \subseteq Items(socks[s])
  BY <1>1, AnsweredItem
<1> HIDE DEF new
<1>4. /\ socks' \in Seq(Socket) /\ Len(socks') = Len(socks) /\ DOMAIN socks' = DOMAIN socks
      /\ socks'[s] = new /\ \A t \in DOMAIN socks \ {s} : socks'[t] = socks[t]
  BY <1>1, <1>2, <1>3, SocketSet
<1>5. TypeOK'
  BY <1>1, <1>2, <1>4 DEF TypeOK
<1>6. \A t \in DOMAIN socks' :
         /\ OneItem(socks'[t])
         /\ \A i \in Items(socks'[t]) :
               t \in DOMAIN socks /\ i \in Items(socks[t]) /\ (t = held' <=> t = held)
  BY <1>2, <1>3, <1>4 DEF ReqInv, Wire
<1> QED BY <1>2, <1>5, <1>6, CallsRest, RestKeeps

LEMMA ServiceEndsKeeps ==
  ASSUME ReqInv, ServiceEnds
  PROVE  ReqInv'
<1>1. TypeOK
  BY DEF ReqInv
<1>2. /\ UNCHANGED <<calls, lock, held, label, heard, bridge, minted, applied, answer>>
      /\ socks' = [s \in DOMAIN socks |-> [socks[s] EXCEPT !.peer = FALSE, !.up = <<>>,
                                                          !.line = NULL, !.state = "reading"]]
      /\ alive' = FALSE /\ deaths < MaxDeaths /\ deaths' = deaths + 1
  BY DEF ServiceEnds
<1>3. ASSUME NEW s \in DOMAIN socks
      PROVE  socks'[s] \in Socket /\ OneItem(socks'[s]) /\ Items(socks'[s]) \subseteq Items(socks[s])
  <2>1. socks[s] \in Socket /\ OneItem(socks[s])
    BY <1>1, SocketsOf DEF ReqInv, Wire
  <2>2. socks'[s] = [socks[s] EXCEPT !.peer = FALSE, !.up = <<>>, !.line = NULL,
                                     !.state = "reading"]
    BY <1>2
  <2> QED BY <2>1, <2>2, EndedItem
<1>4. socks' \in Seq(Socket) /\ Len(socks') = Len(socks) /\ DOMAIN socks' = DOMAIN socks
  <2>1. socks' \in [1 .. Len(socks) -> Socket] /\ Len(socks) \in Nat /\ DOMAIN socks' = DOMAIN socks
    BY <1>1, <1>2, <1>3, SocketsOf
  <2>2. socks' \in Seq(Socket)
    BY <2>1, SeqDef
  <2> QED BY <1>1, <2>1, <2>2, LenProperties, SocketsOf
<1>5. alive' \in BOOLEAN
  BY <1>2, Zenon
<1>6. deaths' \in 0 .. MaxDeaths
  <2>1. MaxDeaths \in Nat
    BY BoundsAssumption
  <2>2. deaths \in 0 .. MaxDeaths
    BY <1>1 DEF TypeOK
  <2>3. deaths < MaxDeaths /\ deaths' = deaths + 1
    BY <1>2
  <2> QED BY <2>1, <2>2, <2>3
<1>7. TypeOK'
  BY <1>1, <1>2, <1>4, <1>5, <1>6 DEF TypeOK
<1>8. \A t \in DOMAIN socks' :
         /\ OneItem(socks'[t])
         /\ \A i \in Items(socks'[t]) :
               t \in DOMAIN socks /\ i \in Items(socks[t]) /\ (t = held' <=> t = held)
  BY <1>2, <1>3, <1>4
<1> QED BY <1>2, <1>7, <1>8, CallsRest, RestKeeps

-----------------------------------------------------------------------------
(* Steps of the line that is under way. *)

\* What replaces a socket's item bears the same request.
LEMMA ItemReplaced ==
  ASSUME ReqInv, NEW s \in DOMAIN socks, NEW new \in Socket, OneItem(new),
         socks' = [socks EXCEPT ![s] = new],
         \A j \in Items(new) : \E i \in Items(socks[s]) : i.req = j.req
  PROVE  /\ socks' \in Seq(Socket) /\ Len(socks') = Len(socks) /\ DOMAIN socks' = DOMAIN socks
         /\ socks'[s] = new /\ \A t \in DOMAIN socks \ {s} : socks'[t] = socks[t]
         /\ \A t \in DOMAIN socks : OneItem(socks'[t]) /\ Items(socks'[t]) \subseteq Item
         /\ \A t, u \in DOMAIN socks : \A i \in Items(socks'[t]), j \in Items(socks'[u]) :
               i.req = j.req => t = u
         /\ \A r : UnderWay(r)' => UnderWay(r)
<1>1. /\ socks' \in Seq(Socket) /\ Len(socks') = Len(socks) /\ DOMAIN socks' = DOMAIN socks
      /\ socks'[s] = new /\ \A t \in DOMAIN socks \ {s} : socks'[t] = socks[t]
  BY SocketSet DEF ReqInv
<1>2. \A t \in DOMAIN socks : \A i \in Items(socks'[t]) : \E j \in Items(socks[t]) : j.req = i.req
  BY <1>1
<1>3. \A t \in DOMAIN socks : OneItem(socks'[t]) /\ socks'[t] \in Socket
  BY <1>1, SocketsOf DEF ReqInv, Wire
<1>4. \A t, u \in DOMAIN socks : \A i \in Items(socks'[t]), j \in Items(socks'[u]) :
         i.req = j.req => t = u
  BY <1>2 DEF ReqInv, Wire
<1>5. \A r : UnderWay(r)' => UnderWay(r)
  BY <1>1, <1>2 DEF UnderWay
<1> QED BY <1>1, <1>3, <1>4, <1>5, ItemsAreItems

LEMMA ReceiveKeeps ==
  ASSUME ReqInv, NEW s \in DOMAIN socks, Receive(s)
  PROVE  ReqInv'
<1> DEFINE k == socks[s]
           line == Head(k.up)
           resolved == Resolve(line.label)
           new == [k EXCEPT !.up = Tail(k.up), !.state = "received",
                            !.line = [line EXCEPT !.label = resolved]]
           cut == [k EXCEPT !.up = Tail(k.up)]
<1>1. /\ TypeOK /\ k \in Socket /\ OneItem(k) /\ k.state = "reading" /\ k.up # <<>>
      /\ minted \in Nat
  BY SocketsOf DEF ReqInv, Wire, Receive, TypeOK
<1>2. /\ resolved \in Labels /\ (Conforms(line.label) => resolved = line.label)
      /\ resolved = Harness \/ resolved \in 1 .. (minted + 1)
      /\ resolved # minted + 1 => Conforms(resolved)
  BY <1>1 DEF Resolve, Conforms, Labels
<1> HIDE DEF resolved
<1>3. /\ line \in Line
      /\ [req |-> line.req, label |-> line.label, stage |-> "sent"] \in Items(k)
      /\ new \in Socket /\ OneItem(new)
      /\ Items(new) = {[req |-> line.req, label |-> resolved, stage |-> "received"]}
      /\ cut \in Socket /\ OneItem(cut) /\ Items(cut) = {}
  BY <1>1, <1>2, ReceivedItem
<1>4. /\ UNCHANGED <<calls, lock, held, label, heard, bridge, alive, applied, answer, deaths>>
      /\ \/ /\ socks' = [socks EXCEPT ![s] = new]
            /\ IF resolved = minted + 1 THEN minted' = minted + 1 ELSE minted' = minted
         \/ socks' = [socks EXCEPT ![s] = cut] /\ minted' = minted
  BY DEF Receive, resolved
<1> HIDE DEF k, line, new, cut
<1>5. PICK after \in {new, cut} :
         /\ socks' = [socks EXCEPT ![s] = after]
         /\ after = new /\ resolved = minted + 1 => minted' = minted + 1
         /\ minted' = minted \/ minted' = minted + 1
  <2>1. \/ /\ socks' = [socks EXCEPT ![s] = new]
           /\ resolved = minted + 1 => minted' = minted + 1
           /\ minted' = minted \/ minted' = minted + 1
        \/ /\ socks' = [socks EXCEPT ![s] = cut]
           /\ minted' = minted /\ cut # new
    <3>1. cut # new
      BY <1>3
    <3> QED BY <1>4, <3>1
  <2> QED BY <2>1, Zenon
<1>6. /\ after \in Socket /\ OneItem(after)
      /\ \A j \in Items(after) :
            /\ after = new /\ j = [req |-> line.req, label |-> resolved, stage |-> "received"]
            /\ \E i \in Items(socks[s]) : i.req = j.req
  BY <1>3, <1>5 DEF k
<1>7. /\ socks' \in Seq(Socket) /\ Len(socks') = Len(socks) /\ DOMAIN socks' = DOMAIN socks
      /\ socks'[s] = after /\ \A t \in DOMAIN socks \ {s} : socks'[t] = socks[t]
      /\ \A t \in DOMAIN socks : OneItem(socks'[t]) /\ Items(socks'[t]) \subseteq Item
      /\ \A t, u \in DOMAIN socks : \A i \in Items(socks'[t]), j \in Items(socks'[u]) :
            i.req = j.req => t = u
      /\ \A r : UnderWay(r)' => UnderWay(r)
  BY <1>5, <1>6, ItemReplaced
<1>8. /\ minted' \in Nat /\ (\A l : Conforms(l) => Conforms(l)')
      /\ after = new => resolved = Harness \/ resolved \in 1 .. minted'
  <2>1. minted' \in Nat /\ 1 .. minted \subseteq 1 .. minted'
    BY <1>1, <1>5
  <2>2. \A l : Conforms(l) => Conforms(l)'
    BY <2>1 DEF Conforms
  <2>3. after = new => resolved = Harness \/ resolved \in 1 .. minted'
    <3>1. CASE resolved = minted + 1
      <4>1. minted + 1 \in 1 .. (minted + 1)
        BY <1>1
      <4> QED BY <1>5, <3>1, <4>1
    <3>2. CASE resolved # minted + 1
      BY <1>2, <2>1, <3>2 DEF Conforms
    <3> QED BY <3>1, <3>2
  <2> QED BY <2>1, <2>2, <2>3
<1>9. TypeOK'
  BY <1>1, <1>4, <1>7, <1>8 DEF TypeOK
<1>10. Truth'
  BY <1>4 DEF ReqInv, Truth, Reading, Req
<1>11. ASSUME NEW t \in DOMAIN socks, NEW i \in Items(socks'[t])
       PROVE  ItemLegal(t, i)'
  <2>1. CASE t # s
    BY <1>4, <1>7, <1>8, <2>1 DEF ReqInv, Wire, ItemLegal, Reading, Req
  <2>2. CASE t = s
    <3> DEFINE old == [req |-> line.req, label |-> line.label, stage |-> "sent"]
    <3>1. /\ i = [req |-> line.req, label |-> resolved, stage |-> "received"]
          /\ after = new
      BY <1>6, <1>7, <2>2
    <3>2. ItemLegal(s, old)
      BY <1>3 DEF ReqInv, Wire, k
    <3>3. /\ IF s = held THEN Reading(line.req) ELSE answer[line.req] \in {"ambiguous", "cancelled"}
          /\ applied[line.req] = 0
          /\ heard /\ s = held => line.label = label
      BY <3>2 DEF ItemLegal
    <3>4. heard => Conforms(label)
      BY DEF ReqInv
    <3>5. i.req = line.req /\ i.label = resolved /\ i.stage = "received"
      BY <3>1
    <3>6. Conforms(i.label)'
      BY <1>8, <3>1, <3>5 DEF Conforms
    <3>7. heard /\ s = held => i.label = label
      BY <1>2, <3>3, <3>4, <3>5
    <3>8. Reading(i.req)' <=> Reading(i.req)
      BY <1>4 DEF Reading, Req
    <3> QED BY <1>4, <2>2, <3>3, <3>5, <3>6, <3>7, <3>8 DEF ItemLegal
  <2> QED BY <2>1, <2>2
<1>12. Wire'
  BY <1>7, <1>11 DEF Wire
<1>13. Takeovers'
  <2>1. \A c \in NextCalls : Touched(c)' => Touched(c)
    BY <1>4, <1>7 DEF Touched
  <2> QED BY <1>4, <2>1 DEF ReqInv, Takeovers, Reading, Req
<1>14. heard' => Conforms(label)'
  BY <1>4, <1>8 DEF ReqInv
<1> QED BY <1>4, <1>9, <1>10, <1>12, <1>13, <1>14, CallsRest DEF ReqInv

LEMMA RunHandlerKeeps ==
  ASSUME ReqInv, NEW s \in DOMAIN socks, RunHandler(s)
  PROVE  ReqInv'
<1> DEFINE k == socks[s]
           r == k.line.req
<1>1. TypeOK /\ k \in Socket /\ OneItem(k) /\ k.state = "received"
  BY SocketsOf DEF ReqInv, Wire, RunHandler
<1>2. PICK result \in Results :
         /\ socks' = [socks EXCEPT ![s] = [k EXCEPT !.state = result]]
         /\ applied' = IF result = "ok" THEN [applied EXCEPT ![r] = applied[r] + 1] ELSE applied
  BY DEF RunHandler
<1>3. UNCHANGED <<calls, lock, held, label, heard, bridge, alive, minted, answer, deaths>>
  BY DEF RunHandler
<1> DEFINE new == [k EXCEPT !.state = result]
           old == [req |-> k.line.req, label |-> k.line.label, stage |-> "received"]
<1>4. /\ k.line \in Line /\ old \in Items(k) /\ new \in Socket /\ OneItem(new)
      /\ Items(new) = {[req |-> k.line.req, label |-> k.line.label, stage |-> result]}
  BY <1>1, HandledItem
<1> HIDE DEF new
<1>5. /\ socks' \in Seq(Socket) /\ Len(socks') = Len(socks) /\ DOMAIN socks' = DOMAIN socks
      /\ socks'[s] = new /\ \A t \in DOMAIN socks \ {s} : socks'[t] = socks[t]
      /\ \A t \in DOMAIN socks : OneItem(socks'[t]) /\ Items(socks'[t]) \subseteq Item
      /\ \A t, u \in DOMAIN socks : \A i \in Items(socks'[t]), j \in Items(socks'[u]) :
            i.req = j.req => t = u
      /\ \A q : UnderWay(q)' => UnderWay(q)
  <2>1. socks' = [socks EXCEPT ![s] = new]
    BY <1>2 DEF new
  <2>2. \A j \in Items(new) : \E i \in Items(socks[s]) : i.req = j.req
    BY <1>4
  <2> QED BY <1>4, <2>1, <2>2, ItemReplaced
<1>6. /\ r \in AllRequests /\ ItemLegal(s, old) /\ old.req = r /\ old.label = k.line.label
      /\ old.stage = "received" /\ UnderWay(r)
  BY <1>4 DEF ReqInv, Wire, Line, UnderWay
<1>7. /\ IF s = held THEN Reading(r) ELSE answer[r] \in {"ambiguous", "cancelled"}
      /\ applied[r] = 0 /\ Conforms(k.line.label)
      /\ heard /\ s = held => k.line.label = label
  BY <1>6 DEF ItemLegal
<1>8. /\ applied' \in [AllRequests -> Nat]
      /\ \A q \in AllRequests \ {r} : applied'[q] = applied[q]
      /\ applied'[r] = IF result = "ok" THEN 1 ELSE 0
  BY <1>1, <1>2, <1>6, <1>7 DEF TypeOK
<1> HIDE DEF k, old
<1>9. TypeOK'
  BY <1>1, <1>3, <1>5, <1>8 DEF TypeOK
<1>10. \A q : Reading(q)' <=> Reading(q)
  BY <1>3 DEF Reading, Req
<1>11. Truth'
  <2> SUFFICES ASSUME NEW q \in AllRequests
               PROVE  /\ applied'[q] \in {0, 1}
                      /\ answer[q] \in {"unsent", "busy", "refused"} => applied'[q] = 0
                      /\ answer[q] = "ok" => applied'[q] = 1
                      /\ answer[q] = "none" /\ ~Reading(q) => applied'[q] = 0
    BY <1>3, <1>10 DEF Truth
  <2>1. CASE q # r
    BY <1>8, <2>1 DEF ReqInv, Truth
  <2>2. CASE q = r
    <3>1. Reading(r) => answer[r] = "none"
      <4> SUFFICES ASSUME Reading(r) PROVE answer[r] = "none"
        OBVIOUS
      <4>1. r[1] \in Calls /\ calls[r[1]].pc = "read" /\ r = Req(r[1])
        BY <1>6, RequestIs DEF Reading
      <4> QED BY <4>1, PendingIsNone
    <3> QED BY <1>7, <1>8, <2>2, <3>1
  <2> QED BY <2>1, <2>2
<1>12. ASSUME NEW t \in DOMAIN socks, NEW i \in Items(socks'[t])
       PROVE  ItemLegal(t, i)'
  <2>1. CASE t # s
    <3>1. ItemLegal(t, i) /\ i \in Item /\ i \in Items(socks[t])
      BY <1>5, <2>1 DEF ReqInv, Wire
    <3>2. i.req # r
      BY <1>4, <1>6, <2>1, <3>1 DEF ReqInv, Wire, k
    <3>3. applied'[i.req] = applied[i.req]
      BY <1>8, <3>1, <3>2 DEF Item
    <3> QED BY <1>3, <1>10, <3>1, <3>3 DEF ItemLegal, Conforms
  <2>2. CASE t = s
    <3>1. i.req = r /\ i.label = k.line.label /\ i.stage = result
      BY <1>4, <1>5, <2>2
    <3>2. Conforms(i.label)'
      BY <1>3, <1>7, <3>1 DEF Conforms
    <3> QED BY <1>3, <1>7, <1>8, <1>10, <2>2, <3>1, <3>2 DEF ItemLegal
  <2> QED BY <2>1, <2>2
<1>13. Wire'
  BY <1>5, <1>12 DEF Wire
<1>14. Takeovers'
  <2>1. ASSUME NEW c \in NextCalls
        PROVE  (Touched(c)' => Touched(c)) /\ (applied[<<c, "plan">>] = 1 => applied'[<<c, "plan">>] = 1)
    <3>1. <<c, "plan">> \in AllRequests
      BY DEF AllRequests
    <3> QED BY <1>5, <1>6, <1>7, <1>8, <3>1 DEF Touched
  <2> QED BY <1>3, <1>10, <2>1 DEF ReqInv, Takeovers
<1>15. heard' => Conforms(label)'
  BY <1>3 DEF ReqInv, Conforms
<1> QED BY <1>3, <1>9, <1>11, <1>13, <1>14, <1>15, CallsRest DEF ReqInv

-----------------------------------------------------------------------------
(* The request's own steps. *)

\* A call that has the connection's lock and a socket.
LEMMA CallerHolds ==
  ASSUME ReqInv, NEW c \in Calls, calls[c].pc \in {"send", "read"}
  PROVE  /\ TypeOK /\ calls[c] \in Call /\ CallLegal(c) /\ lock = c /\ c # NULL
         /\ held # 0 /\ calls[c].sock = held /\ held \in DOMAIN socks
         /\ socks[held] \in Socket /\ OneItem(socks[held])
         /\ calls[c].sent = label /\ label \in Labels /\ Req(c) \in AllRequests
<1>1. TypeOK /\ calls[c] \in Call /\ CallLegal(c) /\ label \in Labels /\ c # NULL
  BY CallsAssumption DEF ReqInv, TypeOK, Discipline
<1>2. lock = c /\ held # 0 /\ calls[c].sock = held /\ calls[c].sent = label
  BY <1>1 DEF CallLegal
<1>3. held \in DOMAIN socks
  BY <1>1, <1>2, SocketsOf DEF TypeOK
<1>4. socks[held] \in Socket /\ OneItem(socks[held])
  BY <1>1, <1>3, SocketsOf DEF ReqInv, Wire
<1>5. Req(c) \in AllRequests
  BY RequestsOf DEF ReqInv
<1> QED BY <1>1, <1>2, <1>3, <1>4, <1>5

\* The line of a call, on the socket it holds.
LEMMA SentLine ==
  ASSUME ReqInv, NEW c \in Calls, calls[c].pc = "send", NEW whole \in BOOLEAN
  PROVE  LET new == Carried(socks[held], LineOf(c, whole))
         IN  /\ new \in Socket /\ OneItem(new)
             /\ Items(new) \subseteq {[req |-> Req(c), label |-> label, stage |-> "sent"]}
<1>1. /\ Req(c) \in AllRequests /\ calls[c].sent = label /\ label \in Labels
      /\ held \in DOMAIN socks /\ socks[held] \in Socket /\ OneItem(socks[held])
  BY CallerHolds
<1>2. LineOf(c, whole) = [req |-> Req(c), label |-> label, whole |-> whole]
  BY <1>1 DEF LineOf
<1>3. LineOf(c, whole) \in Line /\ LineOf(c, whole).req = Req(c) /\ LineOf(c, whole).label = label
  <2>1. [req |-> Req(c), label |-> label, whole |-> whole] \in Line
    BY <1>1, Zenon DEF Line
  <2> QED BY <1>2, <2>1
<1>4. Items(socks[held]) = {}
  BY <1>1, HeldIsQuiet
<1> QED BY <1>1, <1>3, <1>4, CarriedItem

LEMMA SendRequestKeeps ==
  ASSUME ReqInv, NEW c \in Calls, SendRequest(c)
  PROVE  ReqInv'
<1>1. /\ TypeOK /\ calls[c] \in Call /\ CallLegal(c) /\ lock = c /\ calls[c].pc = "send"
      /\ held # 0 /\ calls[c].sock = held /\ held \in DOMAIN socks
      /\ calls[c].sent = label /\ Req(c) \in AllRequests
  BY CallerHolds DEF SendRequest
<1> DEFINE new == Carried(socks[held], LineOf(c, TRUE))
<1>2. /\ new \in Socket /\ OneItem(new)
      /\ Items(new) \subseteq {[req |-> Req(c), label |-> label, stage |-> "sent"]}
  <2>1. TRUE \in BOOLEAN
    OBVIOUS
  <2> QED BY <1>1, <2>1, SentLine
<1>3. /\ UNCHANGED <<lock, held, label, heard, bridge, alive, minted, applied, answer, deaths>>
      /\ socks' = [socks EXCEPT ![held] = new]
      /\ calls' = [calls EXCEPT ![c] = [calls[c] EXCEPT !.pc = "read"]]
  BY <1>1 DEF SendRequest
<1> HIDE DEF new
<1>4. /\ socks' \in Seq(Socket) /\ Len(socks') = Len(socks) /\ DOMAIN socks' = DOMAIN socks
      /\ socks'[held] = new /\ \A t \in DOMAIN socks \ {held} : socks'[t] = socks[t]
  BY <1>1, <1>2, <1>3, SocketSet
<1>5. /\ \A d \in Calls \ {c} : calls'[d] = calls[d]
      /\ calls' \in [Calls -> Call]
      /\ calls'[c].pc = "read" /\ calls'[c].part = calls[c].part /\ calls'[c].sent = calls[c].sent
      /\ calls'[c].sock = calls[c].sock
  <2>1. calls \in [Calls -> Call]
    BY <1>1 DEF TypeOK
  <2>2. [calls[c] EXCEPT !.pc = "read"] \in Call
    BY <1>1 DEF Call
  <2> QED BY <1>1, <1>3, <2>1, <2>2 DEF Call
<1>6. TypeOK'
  BY <1>1, <1>3, <1>4, <1>5 DEF TypeOK
<1>7. Discipline'
  <2>1. CallLegal(c)'
    BY <1>1, <1>3, <1>5 DEF CallLegal
  <2> QED BY <1>1, <1>3, <1>5, <2>1, DisciplineStep DEF ReqInv, Discipline
<1>8. Unanswered'
  BY <1>1, <1>3, <1>5, UnansweredRests
<1>9. \A r \in AllRequests : Reading(r)' <=> Reading(r) \/ r = Req(c)
  <2> SUFFICES ASSUME NEW r \in AllRequests
               PROVE  Reading(r)' <=> Reading(r) \/ r = Req(c)
    OBVIOUS
  <2>1. r[1] \in Calls
    BY RequestIs
  <2>2. CASE r[1] = c
    BY <1>1, <1>5, <2>2 DEF Reading, Req
  <2>3. CASE r[1] # c
    BY <1>5, <2>1, <2>3 DEF Reading, Req
  <2> QED BY <2>2, <2>3
<1>10. Truth'
  BY <1>3, <1>9 DEF ReqInv, Truth
<1>11. /\ ~UnderWay(Req(c)) /\ applied[Req(c)] = 0
       /\ calls[c].part = "plan" => \A d \in NextCalls : ~Touched(d)
  BY <1>1, HeldIsQuiet
<1>12. ASSUME NEW s \in DOMAIN socks, NEW i \in Items(socks'[s])
       PROVE  \/ i \in Items(socks[s]) /\ s # held /\ i.req # Req(c) /\ i.req \in AllRequests
              \/ s = held /\ i.req = Req(c) /\ i.label = label /\ i.stage = "sent"
  <2>1. CASE s = held
    BY <1>2, <1>4, <2>1
  <2>2. CASE s # held
    <3>1. i \in Items(socks[s])
      BY <1>4, <2>2
    <3>2. i.req # Req(c)
      BY <1>11, <3>1 DEF UnderWay
    <3>3. i \in Item
      BY <3>1, SocketsOf, ItemsAreItems DEF ReqInv, Wire
    <3> QED BY <2>2, <3>1, <3>2, <3>3 DEF Item
  <2> QED BY <2>1, <2>2
<1>13. ASSUME NEW s \in DOMAIN socks, NEW i \in Items(socks'[s])
       PROVE  ItemLegal(s, i)'
  <2>1. CASE i \in Items(socks[s]) /\ s # held /\ i.req # Req(c) /\ i.req \in AllRequests
    BY <1>3, <1>9, <2>1 DEF ReqInv, Wire, ItemLegal, Conforms
  <2>2. CASE s = held /\ i.req = Req(c) /\ i.label = label /\ i.stage = "sent"
    <3>1. Reading(i.req)'
      BY <1>1, <1>9, <2>2
    <3> QED BY <1>3, <1>11, <2>2, <3>1 DEF ItemLegal
  <2> QED BY <1>12, <2>1, <2>2
<1>14. Wire'
  <2>1. \A s \in DOMAIN socks' : OneItem(socks'[s])
    BY <1>2, <1>4 DEF ReqInv, Wire
  <2>2. \A s, t \in DOMAIN socks : \A i \in Items(socks'[s]), j \in Items(socks'[t]) :
           i.req = j.req => s = t
    BY <1>12 DEF ReqInv, Wire
  <2> QED BY <1>4, <1>13, <2>1, <2>2 DEF Wire
<1>15. Takeovers'
  <2>1. ASSUME NEW d \in NextCalls, Touched(d)'
        PROVE  Touched(d) \/ <<d, "plan">> = Req(c)
    BY <1>3, <1>4, <1>12, <2>1 DEF Touched, UnderWay
  <2>2. \A d \in NextCalls : <<d, "plan">> = Req(c) => d = c /\ calls[c].part = "plan"
    BY DEF Req
  <2>3. \A d \in NextCalls : <<d, "plan">> \in AllRequests
    BY DEF AllRequests
  <2>4. \A d, e \in NextCalls : Touched(d)' /\ Touched(e)' => d = e
    BY <1>11, <2>1, <2>2 DEF ReqInv, Takeovers
  <2>5. bridge.state = "unplanned" => \A d \in NextCalls : Touched(d)' => Reading(<<d, "plan">>)'
    BY <1>9, <2>1, <2>3 DEF ReqInv, Takeovers
  <2> QED BY <1>3, <2>4, <2>5 DEF ReqInv, Takeovers
<1>16. heard' => Conforms(label)'
  BY <1>3 DEF ReqInv, Conforms
<1> QED BY <1>6, <1>7, <1>8, <1>10, <1>14, <1>15, <1>16 DEF ReqInv

-----------------------------------------------------------------------------
(* The end of a request. *)

\* What Return does to the calls, the locks and the bridge.
LEMMA ReturnEffect ==
  ASSUME ReqInv, NEW c \in Calls, calls[c].pc \in {"lock", "connect", "send", "read"},
         NEW outcome \in Outcomes, Return(c, outcome), label' \in Labels
  PROVE  /\ \A d \in Calls \ {c} : calls'[d] = calls[d]
         /\ calls' \in [Calls -> Call]
         /\ \/ calls'[c].pc = "done" /\ calls'[c].part = "verb"
            \/ /\ calls'[c].pc = "lock" /\ calls'[c].part = "verb"
               /\ calls[c].part = "plan" /\ outcome = "ok"
         /\ answer' \in [AllRequests -> Outcomes] /\ answer'[Req(c)] = outcome
         /\ \A r \in AllRequests \ {Req(c)} : answer'[r] = answer[r]
         /\ lock' = IF lock = c THEN NULL ELSE lock
         /\ \/ calls[c].part = "verb" /\ bridge' = bridge
            \/ /\ calls[c].part = "plan" /\ c \in NextCalls
               /\ bridge.lock = c /\ bridge.state = "unplanned" /\ bridge'.lock = NULL
               /\ bridge'.state = IF outcome = "ok" THEN "ready"
                                  ELSE IF outcome = "busy" THEN "unplanned" ELSE "failed"
         /\ bridge' \in [state : {"unplanned", "ready", "failed"}, lock : Calls \cup {NULL}]
<1>1. /\ TypeOK /\ calls \in [Calls -> Call] /\ calls[c] \in Call /\ CallLegal(c) /\ c # NULL
      /\ bridge \in [state : {"unplanned", "ready", "failed"}, lock : Calls \cup {NULL}]
      /\ answer \in [AllRequests -> Outcomes] /\ Req(c) \in AllRequests
      /\ calls[c].part \in {"plan", "verb"}
  BY RequestsOf, CallsAssumption DEF ReqInv, TypeOK, Discipline
<1>2. answer' = [answer EXCEPT ![Req(c)] = outcome] /\ lock' = IF lock = c THEN NULL ELSE lock
  BY DEF Return
<1>3. Over \in Call /\ Over.pc = "done" /\ Over.part = "verb"
  BY BoundsAssumption DEF Over, New, Call, Labels
<1>4. CASE calls[c].part = "verb"
  <2>1. calls' = [calls EXCEPT ![c] = Over] /\ bridge' = bridge
    BY <1>4 DEF Return
  <2> QED BY <1>1, <1>2, <1>3, <1>4, <2>1
<1>5. CASE calls[c].part = "plan"
  <2>1. c \in NextCalls /\ bridge.lock = c /\ bridge.state = "unplanned"
    BY <1>1, <1>5 DEF CallLegal, ReqInv, Discipline
  <2>2. /\ bridge' = [state |-> Planned(bridge.state, outcome), lock |-> NULL]
        /\ calls' = [calls EXCEPT ![c] =
              IF outcome = "ok"
              THEN [calls[c] EXCEPT !.pc = "lock", !.part = "verb", !.sock = 0, !.envelope = label']
              ELSE Over]
    BY <1>5 DEF Return
  <2>3. Planned(bridge.state, outcome) = IF outcome = "ok" THEN "ready"
                                         ELSE IF outcome = "busy" THEN "unplanned" ELSE "failed"
    BY <2>1 DEF Planned
  <2>4. [calls[c] EXCEPT !.pc = "lock", !.part = "verb", !.sock = 0, !.envelope = label'] \in Call
    <3>1. 0 \in 0 .. MaxSockets
      BY BoundsAssumption
    <3> QED BY <1>1, <3>1 DEF Call
  <2>5. /\ \A d \in Calls \ {c} : calls'[d] = calls[d]
        /\ calls' \in [Calls -> Call]
        /\ \/ calls'[c].pc = "done" /\ calls'[c].part = "verb"
           \/ calls'[c].pc = "lock" /\ calls'[c].part = "verb" /\ outcome = "ok"
    BY <1>1, <1>3, <2>2, <2>4 DEF Call
  <2>6. /\ bridge'.lock = NULL
        /\ bridge'.state = IF outcome = "ok" THEN "ready"
                           ELSE IF outcome = "busy" THEN "unplanned" ELSE "failed"
        /\ bridge' \in [state : {"unplanned", "ready", "failed"}, lock : Calls \cup {NULL}]
    BY <2>2, <2>3
  <2> QED BY <1>1, <1>2, <1>5, <2>1, <2>5, <2>6
<1> QED BY <1>1, <1>4, <1>5

\* Before its line is sent, nothing of a request is under way.
LEMMA NothingSent ==
  ASSUME ReqInv, NEW c \in Calls, calls[c].pc \in {"lock", "connect", "send"}
  PROVE  ~UnderWay(Req(c)) /\ applied[Req(c)] = 0
<1>1. answer[Req(c)] = "none" /\ Req(c) \in AllRequests /\ ~Reading(Req(c))
  BY PendingIsNone, RequestsOf DEF ReqInv, Reading
<1>2. applied[Req(c)] = 0
  BY <1>1 DEF ReqInv, Truth
<1>3. ~UnderWay(Req(c))
  BY <1>1 DEF UnderWay, ReqInv, Wire, ItemLegal
<1> QED BY <1>2, <1>3

\* A request that ends leaves the line it had under way, if any, on a socket the
\* process gave up, and its caller without an answer.
LEMMA ReturnKeeps ==
  ASSUME ReqInv, NEW c \in Calls, calls[c].pc \in {"lock", "connect", "send", "read"},
         NEW mine, mine = Req(c),
         NEW outcome \in Outcomes \ {"none"}, Return(c, outcome),
         UNCHANGED <<alive, minted, applied, deaths>>,
         label' \in Labels, heard' \in BOOLEAN, heard' => Conforms(label'),
         held' \in {0, held},
         calls[c].pc = "lock" => UNCHANGED <<held, label, heard>>,
         socks' \in Seq(Socket), Len(socks') = Len(socks), DOMAIN socks' = DOMAIN socks,
         \A s \in DOMAIN socks :
            /\ OneItem(socks'[s])
            /\ \A i \in Items(socks'[s]) :
                  \/ i \in Items(socks[s])
                  \/ calls[c].pc = "send" /\ s = held /\ i.req = mine /\ i.stage = "sent",
         UnderWay(mine)' => outcome \in {"ambiguous", "cancelled"} /\ held' = 0,
         \A s \in DOMAIN socks :
            s = held' => (heard' = heard /\ label' = label) \/ Items(socks'[s]) = {},
         outcome = "ok" => applied[mine] = 1,
         outcome \in {"unsent", "busy", "refused"} => applied[mine] = 0
  PROVE  ReqInv'
<1>1. /\ TypeOK /\ calls[c] \in Call /\ mine \in AllRequests /\ CallLegal(c) /\ c # NULL
      /\ mine[1] = c /\ answer[mine] = "none" /\ c \in Calls
  BY RequestsOf, PendingIsNone, CallsAssumption DEF ReqInv, Discipline
<1>2. /\ \A d \in Calls \ {c} : calls'[d] = calls[d]
      /\ calls' \in [Calls -> Call]
      /\ \/ calls'[c].pc = "done" /\ calls'[c].part = "verb"
         \/ /\ calls'[c].pc = "lock" /\ calls'[c].part = "verb"
            /\ calls[c].part = "plan" /\ outcome = "ok"
      /\ answer' \in [AllRequests -> Outcomes] /\ answer'[mine] = outcome
      /\ \A r \in AllRequests \ {mine} : answer'[r] = answer[r]
      /\ lock' = IF lock = c THEN NULL ELSE lock
      /\ \/ calls[c].part = "verb" /\ bridge' = bridge
         \/ /\ calls[c].part = "plan" /\ c \in NextCalls
            /\ bridge.lock = c /\ bridge.state = "unplanned" /\ bridge'.lock = NULL
            /\ bridge'.state = IF outcome = "ok" THEN "ready"
                               ELSE IF outcome = "busy" THEN "unplanned" ELSE "failed"
      /\ bridge' \in [state : {"unplanned", "ready", "failed"}, lock : Calls \cup {NULL}]
  BY ReturnEffect
<1>3. calls[c].pc # "lock" => lock = c
  BY <1>1 DEF CallLegal
<1>4. TypeOK'
  <2>1. held' \in 0 .. Len(socks') /\ lock' \in Calls \cup {NULL}
    BY <1>1, <1>2, SocketsOf DEF TypeOK
  <2> QED BY <1>1, <1>2, <2>1 DEF TypeOK
<1>5. Discipline'
  <2>1. CallLegal(c)'
    BY <1>2 DEF CallLegal
  <2>2. ASSUME NEW d \in Calls \ {c}
        PROVE  CallLegal(d)'
    <3>1. calls'[d] = calls[d] /\ CallLegal(d) /\ d # NULL
      BY <1>2, CallsAssumption DEF ReqInv, Discipline
    <3>2. lock = d => UNCHANGED <<held, label, lock>>
      BY <1>2, <1>3
    <3>3. bridge.lock = d => bridge'.lock = d
      BY <1>2
    <3> QED BY <3>1, <3>2, <3>3 DEF CallLegal
  <2>3. bridge'.lock # NULL => bridge'.state = "unplanned"
    BY <1>2 DEF ReqInv, Discipline
  <2> QED BY <2>1, <2>2, <2>3 DEF Discipline
<1>6. Unanswered'
  <2> SUFFICES ASSUME NEW d \in Calls
               PROVE  /\ calls'[d].pc # "done" => answer'[<<d, "verb">>] = "none"
                      /\ d \in NextCalls /\ calls'[d].pc # "done"
                            /\ (calls'[d].pc = "idle" \/ calls'[d].part = "plan") =>
                                  answer'[<<d, "plan">>] = "none"
    BY DEF Unanswered
  <2>1. <<d, "verb">> \in AllRequests /\ (d \in NextCalls => <<d, "plan">> \in AllRequests)
    BY DEF AllRequests
  <2>2. CASE d # c
    <3>1. <<d, "verb">> # mine /\ <<d, "plan">> # mine
      BY <2>2 DEF Req
    <3> QED BY <1>2, <2>1, <2>2, <3>1 DEF ReqInv, Unanswered
  <2>3. CASE d = c
    <3>1. CASE calls'[c].pc = "done"
      BY <2>3, <3>1
    <3>2. CASE calls'[c].pc = "lock" /\ calls'[c].part = "verb" /\ calls[c].part = "plan"
      <4>1. <<c, "verb">> # mine
        BY <3>2 DEF Req
      <4>2. answer[<<c, "verb">>] = "none"
        BY DEF ReqInv, Unanswered
      <4> QED BY <1>2, <2>1, <2>3, <3>2, <4>1, <4>2
    <3> QED BY <1>2, <3>1, <3>2
  <2> QED BY <2>2, <2>3
<1>7. \A r \in AllRequests \ {mine} : Reading(r)' <=> Reading(r)
  <2> SUFFICES ASSUME NEW r \in AllRequests \ {mine}
               PROVE  Reading(r)' <=> Reading(r)
    OBVIOUS
  <2>1. r[1] \in Calls
    BY RequestIs
  <2>2. CASE r[1] = c
    <3>1. ~Reading(r)'
      BY <1>2, <2>2 DEF Reading
    <3>2. ~Reading(r)
      BY <2>2 DEF Reading
    <3> QED BY <3>1, <3>2
  <2>3. CASE r[1] # c
    BY <1>2, <2>1, <2>3 DEF Reading, Req
  <2> QED BY <2>2, <2>3
<1>8. Truth'
  <2> SUFFICES ASSUME NEW r \in AllRequests
               PROVE  /\ applied[r] \in {0, 1}
                      /\ answer'[r] \in {"unsent", "busy", "refused"} => applied[r] = 0
                      /\ answer'[r] = "ok" => applied[r] = 1
                      /\ answer'[r] = "none" /\ ~Reading(r)' => applied[r] = 0
    BY DEF Truth
  <2>1. CASE r = mine
    BY <1>2, <2>1 DEF ReqInv, Truth
  <2>2. CASE r # mine
    BY <1>2, <1>7, <2>2 DEF ReqInv, Truth
  <2> QED BY <2>1, <2>2
<1>9. ASSUME NEW s \in DOMAIN socks, NEW i \in Items(socks'[s])
      PROVE  \/ i \in Items(socks[s]) /\ i \in Item /\ ItemLegal(s, i)
             \/ /\ calls[c].pc = "send" /\ s = held /\ i.req = mine /\ i.stage = "sent"
                /\ ~UnderWay(mine) /\ applied[mine] = 0
  <2>1. CASE i \in Items(socks[s])
    BY <2>1, <1>1, SocketsOf, ItemsAreItems DEF ReqInv, Wire
  <2>2. CASE calls[c].pc = "send" /\ s = held /\ i.req = mine /\ i.stage = "sent"
    BY <2>2, NothingSent
  <2> QED BY <2>1, <2>2
<1>10. ASSUME NEW s \in DOMAIN socks, NEW i \in Items(socks'[s])
       PROVE  ItemLegal(s, i)'
  <2>1. i.req = mine => outcome \in {"ambiguous", "cancelled"} /\ held' = 0
    BY DEF UnderWay
  <2>2. s # 0
    BY <1>1, SocketsOf
  <2>3. s = held' => s = held
    BY <2>2
  <2>4. i.stage # "sent" => Conforms(i.label)'
    BY <1>9 DEF ItemLegal, Conforms
  <2>5. heard' /\ s = held' => i.label = label'
    <3> SUFFICES ASSUME heard', s = held' PROVE i.label = label'
      OBVIOUS
    <3>1. heard' = heard /\ label' = label
      OBVIOUS
    <3>2. i.req # mine
      BY <2>1, <2>2
    <3> QED BY <1>9, <2>3, <3>1, <3>2 DEF ItemLegal
  <2>6. CASE i.req = mine
    <3>1. s # held' /\ answer'[i.req] \in {"ambiguous", "cancelled"}
      BY <1>2, <2>1, <2>2, <2>6
    <3>2. applied[i.req] = IF i.stage = "ok" THEN 1 ELSE 0
      BY <1>9, <2>6 DEF ItemLegal
    <3> QED BY <2>4, <2>5, <3>1, <3>2 DEF ItemLegal
  <2>7. CASE i.req # mine
    <3>1. i \in Items(socks[s]) /\ ItemLegal(s, i) /\ i.req \in AllRequests
      BY <1>9, <2>7 DEF Item
    <3>2. CASE s = held
      <4>1. Reading(i.req) /\ i.req[1] \in Calls /\ lock = i.req[1] /\ i.req = Req(i.req[1])
        BY <3>1, <3>2, RequestIs, WaitingHolds DEF ItemLegal
      <4>2. i.req[1] # c
        BY <2>7, <4>1
      <4>3. held' = held
        BY <1>3, <4>1, <4>2
      <4>4. Reading(i.req)'
        BY <1>7, <2>7, <3>1, <4>1
      <4> QED BY <2>4, <2>5, <3>1, <3>2, <4>3, <4>4 DEF ItemLegal
    <3>3. CASE s # held
      BY <1>2, <2>3, <2>4, <2>5, <2>7, <3>1, <3>3 DEF ItemLegal
    <3> QED BY <3>2, <3>3
  <2> QED BY <2>6, <2>7
<1>11. Wire'
  <2>1. \A s, t \in DOMAIN socks : \A i \in Items(socks'[s]), j \in Items(socks'[t]) :
           i.req = j.req => s = t
    BY <1>9 DEF ReqInv, Wire, UnderWay
  <2> QED BY <1>10, <2>1 DEF Wire
<1>12. Takeovers'
  <2>1. ASSUME NEW d \in NextCalls, Touched(d)'
        PROVE  \/ Touched(d)
               \/ /\ <<d, "plan">> = mine /\ d = c /\ calls[c].part = "plan"
                  /\ \A e \in NextCalls : ~Touched(e)
    <3>1. CASE applied[<<d, "plan">>] = 1
      BY <3>1 DEF Touched
    <3>2. CASE applied'[<<d, "plan">>] # 1
      <4>1. UnderWay(<<d, "plan">>)'
        BY <2>1, <3>2 DEF Touched
      <4>2. PICK s \in DOMAIN socks : \E i \in Items(socks'[s]) : i.req = <<d, "plan">>
        BY <4>1 DEF UnderWay
      <4>3. PICK i \in Items(socks'[s]) : i.req = <<d, "plan">>
        BY <4>2
      <4>4. CASE i \in Items(socks[s])
        BY <4>3, <4>4 DEF Touched, UnderWay
      <4>5. CASE calls[c].pc = "send" /\ i.req = mine
        <5>1. <<d, "plan">> = mine /\ d = c /\ calls[c].part = "plan"
          BY <4>3, <4>5 DEF Req
        <5>2. \A e \in NextCalls : ~Touched(e)
          BY <4>5, <5>1, HeldIsQuiet
        <5> QED BY <5>1, <5>2
      <4> QED BY <1>9, <4>4, <4>5
    <3> QED BY <3>1, <3>2
  <2>2. \A d, e \in NextCalls : Touched(d)' /\ Touched(e)' => d = e
    BY <2>1 DEF ReqInv, Takeovers
  <2>3. \A d \in NextCalls : <<d, "plan">> \in AllRequests
    BY DEF AllRequests
  <2>4. CASE calls[c].part = "verb" /\ bridge' = bridge
    <3>1. \A d \in NextCalls : <<d, "plan">> # mine
      BY <2>4 DEF Req
    <3>2. bridge.state = "unplanned" => \A d \in NextCalls : Touched(d)' => Reading(<<d, "plan">>)'
      BY <1>7, <2>1, <2>3, <3>1 DEF ReqInv, Takeovers
    <3>3. bridge.state = "ready" => \E d \in NextCalls : applied[<<d, "plan">>] = 1
      BY DEF ReqInv, Takeovers
    <3> QED BY <2>2, <2>4, <3>2, <3>3 DEF Takeovers
  <2>5. CASE /\ calls[c].part = "plan" /\ c \in NextCalls
             /\ bridge.lock = c /\ bridge.state = "unplanned" /\ bridge'.lock = NULL
             /\ bridge'.state = IF outcome = "ok" THEN "ready"
                                ELSE IF outcome = "busy" THEN "unplanned" ELSE "failed"
    <3>1. mine = <<c, "plan">>
      BY <2>5 DEF Req
    <3>2. bridge'.state = "ready" => \E d \in NextCalls : applied[<<d, "plan">>] = 1
      BY <2>5, <3>1
    <3>3. ASSUME bridge'.state = "unplanned", NEW d \in NextCalls, Touched(d)'
          PROVE  FALSE
      <4>1. outcome = "busy"
        BY <2>5, <3>3
      <4>2. applied[mine] = 0 /\ ~UnderWay(mine)'
        BY <4>1
      <4>3. ASSUME Touched(d)
            PROVE  Reading(<<d, "plan">>)
        BY <2>5, <4>3 DEF ReqInv, Takeovers
      <4>4. CASE d = c
        BY <3>1, <3>3, <4>2, <4>4 DEF Touched
      <4>5. CASE d # c
        <5>1. Touched(d)
          BY <2>1, <3>3, <4>5
        <5>2. Reading(<<d, "plan">>) /\ d \in Calls
          BY <4>3, <5>1, CallsAssumption
        <5>3. calls[d].pc = "read" /\ calls[d].part = "plan" /\ CallLegal(d)
          BY <5>2 DEF Reading, Req, ReqInv, Discipline
        <5> QED BY <2>5, <4>5, <5>3 DEF CallLegal
      <4> QED BY <4>4, <4>5
    <3> QED BY <2>2, <3>2, <3>3 DEF Takeovers
  <2> QED BY <1>2, <2>4, <2>5
<1>13. heard' => Conforms(label)'
  BY DEF Conforms
<1> QED BY <1>4, <1>5, <1>6, <1>8, <1>11, <1>12, <1>13 DEF ReqInv

\* Nothing is under way, and the socket is as it was.
LEMMA ReturnQuietly ==
  ASSUME ReqInv, NEW c \in Calls, calls[c].pc \in {"lock", "connect"},
         NEW outcome \in {"unsent", "cancelled"}, Return(c, outcome),
         UNCHANGED <<held, label, heard, socks, alive, minted, applied, deaths>>
  PROVE  ReqInv'
<1>1. PICK mine : mine = Req(c)
  OBVIOUS
<1>2. ~UnderWay(mine)' /\ applied[mine] = 0
  BY <1>1, NothingSent DEF UnderWay
<1>3. /\ TypeOK /\ label' \in Labels /\ heard' \in BOOLEAN /\ (heard' => Conforms(label'))
      /\ socks' \in Seq(Socket) /\ Len(socks') = Len(socks) /\ DOMAIN socks' = DOMAIN socks
      /\ \A s \in DOMAIN socks : OneItem(socks'[s]) /\ Items(socks'[s]) = Items(socks[s])
      /\ held' = held
  <2>1. TypeOK /\ heard' = heard /\ label' = label /\ socks' = socks
    BY DEF ReqInv
  <2>2. heard' \in BOOLEAN
    BY <2>1, Zenon DEF TypeOK
  <2> QED BY <2>1, <2>2 DEF ReqInv, Wire, TypeOK
<1>4. outcome \in Outcomes \ {"none"} /\ outcome # "ok"
  BY DEF Outcomes
<1> QED BY <1>1, <1>2, <1>3, <1>4, ReturnKeeps

\* The socket is given up, with whatever was put on it.
LEMMA ReturnGivesUp ==
  ASSUME ReqInv, NEW c \in Calls, calls[c].pc \in {"send", "read"},
         NEW outcome \in {"unsent", "ambiguous", "cancelled"}, Return(c, outcome),
         NEW new \in Socket, OneItem(new),
         \A i \in Items(new) :
            \/ i \in Items(socks[held])
            \/ calls[c].pc = "send" /\ i.req = Req(c) /\ i.stage = "sent",
         outcome = "unsent" => calls[c].pc = "send" /\ Items(new) = {},
         socks' = [socks EXCEPT ![held] = new], held' = 0,
         UNCHANGED <<label, heard, alive, minted, applied, deaths>>
  PROVE  ReqInv'
<1>1. PICK mine : mine = Req(c)
  OBVIOUS
<1>2. TypeOK /\ held \in DOMAIN socks /\ held # 0
  BY CallerHolds
<1>3. /\ socks' \in Seq(Socket) /\ Len(socks') = Len(socks) /\ DOMAIN socks' = DOMAIN socks
      /\ socks'[held] = new /\ \A t \in DOMAIN socks \ {held} : socks'[t] = socks[t]
  BY <1>2, SocketSet
<1>4. \A s \in DOMAIN socks :
         /\ OneItem(socks'[s])
         /\ \A i \in Items(socks'[s]) :
               \/ i \in Items(socks[s])
               \/ calls[c].pc = "send" /\ s = held /\ i.req = mine /\ i.stage = "sent"
  BY <1>1, <1>3 DEF ReqInv, Wire
<1>5. /\ label' \in Labels /\ heard' \in BOOLEAN /\ (heard' => Conforms(label'))
      /\ \A s \in DOMAIN socks : s # held'
  <2>1. heard' = heard /\ label' = label /\ held' = 0
    OBVIOUS
  <2>2. heard' \in BOOLEAN
    BY <1>2, <2>1, Zenon DEF TypeOK
  <2> QED BY <1>2, <2>1, <2>2, SocketsOf DEF ReqInv, TypeOK
<1>6. outcome \in Outcomes \ {"none"} /\ outcome \notin {"ok", "busy", "refused"}
  BY DEF Outcomes
<1>7. outcome = "unsent" => applied[mine] = 0 /\ ~UnderWay(mine)'
  <2> SUFFICES ASSUME outcome = "unsent" PROVE applied[mine] = 0 /\ ~UnderWay(mine)'
    OBVIOUS
  <2>1. applied[mine] = 0 /\ ~UnderWay(mine)
    BY <1>1, NothingSent
  <2> QED BY <1>3, <2>1 DEF UnderWay
<1>8. calls[c].pc # "lock" /\ held' \in {0, held}
  OBVIOUS
<1> QED BY <1>1, <1>3, <1>4, <1>5, <1>6, <1>7, <1>8, ReturnKeeps

LEMMA ConnectFailsKeeps ==
  ASSUME ReqInv, NEW c \in Calls, ConnectFails(c)
  PROVE  ReqInv'
BY ReturnQuietly DEF ConnectFails

LEMMA CancelBeforeKeeps ==
  ASSUME ReqInv, NEW c \in Calls, CancelBefore(c)
  PROVE  ReqInv'
<1>1. CASE calls[c].pc \in {"lock", "connect"} /\ Return(c, "cancelled")
  BY <1>1, ReturnQuietly DEF CancelBefore
<1>2. CASE /\ calls[c].pc = "bridge" /\ calls' = [calls EXCEPT ![c] = Over]
           /\ UNCHANGED <<lock, bridge, answer>>
  <2>1. UNCHANGED <<lock, bridge, answer, held, label, heard, socks, alive, minted, applied, deaths>>
    BY <1>2 DEF CancelBefore
  <2>2. Over \in Call /\ Over.pc = "done" /\ Over.part = "verb"
    BY BoundsAssumption DEF Over, New, Call, Labels
  <2>3. TypeOK /\ calls \in [Calls -> Call]
    BY DEF ReqInv, TypeOK
  <2>4. /\ \A d \in Calls \ {c} : calls'[d] = calls[d]
        /\ calls' \in [Calls -> Call] /\ calls'[c].pc = "done" /\ calls'[c].part = "verb"
    BY <1>2, <2>2, <2>3
  <2>5. TypeOK'
    BY <2>1, <2>3, <2>4 DEF TypeOK
  <2>6. CallLegal(c)'
    BY <2>4 DEF CallLegal
  <2>7. Discipline'
    BY <2>1, <2>4, <2>6, DisciplineStep DEF ReqInv, Discipline
  <2>8. Unanswered'
    BY <1>2, <2>1, <2>4, UnansweredRests
  <2>9. \A r \in AllRequests : Reading(r)' <=> Reading(r)
    BY <1>2, <2>4, ReadingRests
  <2> QED BY <2>1, <2>5, <2>7, <2>8, <2>9, RestKeeps, SocketsRest
<1> QED BY <1>1, <1>2 DEF CancelBefore

\* The second attempt of which nothing was sent.
LEMMA ZeroProgressKeeps ==
  ASSUME ReqInv, NEW c \in Calls, ZeroProgress(c)
  PROVE  ReqInv'
<1>1. CASE calls[c].tries = 1
  BY <1>1, RetryKeeps
<1>2. CASE calls[c].tries = 2 /\ Return(c, "unsent")
  <2>1. /\ calls[c].pc = "send" /\ calls[c].sock = held /\ socks[held] \in Socket
        /\ OneItem(socks[held]) /\ held \in DOMAIN socks
    BY CallerHolds DEF ZeroProgress
  <2>2. Items(socks[held]) = {}
    BY <2>1, HeldIsQuiet
  <2>3. /\ Dropped(socks[held]) \in Socket /\ OneItem(Dropped(socks[held]))
        /\ Items(Dropped(socks[held])) = {}
    BY <2>1, <2>2, DroppedItem
  <2>4. /\ socks' = [socks EXCEPT ![held] = Dropped(socks[held])] /\ held' = 0
        /\ UNCHANGED <<label, heard, alive, minted, applied, deaths>>
    BY <2>1 DEF ZeroProgress
  <2> QED BY <1>2, <2>1, <2>3, <2>4, ReturnGivesUp
<1> QED BY <1>1, <1>2 DEF ZeroProgress

\* A socket dropped with a line on it, or without.
LEMMA DropsKeep ==
  ASSUME ReqInv, NEW c \in Calls, calls[c].pc \in {"send", "read"},
         NEW outcome \in {"ambiguous", "cancelled"}, Return(c, outcome),
         \/ socks' = [socks EXCEPT ![calls[c].sock] = Dropped(socks[calls[c].sock])]
         \/ /\ calls[c].pc = "send"
            /\ \E whole \in BOOLEAN :
                  socks' = [socks EXCEPT ![calls[c].sock] =
                               Dropped(Carried(socks[calls[c].sock], LineOf(c, whole)))],
         held' = 0,
         UNCHANGED <<label, heard, alive, minted, applied, deaths>>
  PROVE  ReqInv'
<1>1. calls[c].sock = held /\ socks[held] \in Socket /\ OneItem(socks[held])
  BY CallerHolds
<1>2. CASE socks' = [socks EXCEPT ![held] = Dropped(socks[held])]
  <2>1. /\ Dropped(socks[held]) \in Socket /\ OneItem(Dropped(socks[held]))
        /\ Items(Dropped(socks[held])) \subseteq Items(socks[held])
    BY <1>1, DroppedItem
  <2> QED BY <1>2, <2>1, ReturnGivesUp
<1>3. ASSUME calls[c].pc = "send", NEW whole \in BOOLEAN,
             socks' = [socks EXCEPT ![held] = Dropped(Carried(socks[held], LineOf(c, whole)))]
      PROVE  ReqInv'
  <2> DEFINE carried == Carried(socks[held], LineOf(c, whole))
  <2>1. /\ carried \in Socket /\ OneItem(carried)
        /\ Items(carried) \subseteq {[req |-> Req(c), label |-> label, stage |-> "sent"]}
    BY <1>3, SentLine
  <2> HIDE DEF carried
  <2>2. /\ Dropped(carried) \in Socket /\ OneItem(Dropped(carried))
        /\ Items(Dropped(carried)) \subseteq {[req |-> Req(c), label |-> label, stage |-> "sent"]}
    BY <2>1, DroppedItem
  <2>3. \A i \in Items(Dropped(carried)) : i.req = Req(c) /\ i.stage = "sent"
    BY <2>2
  <2>4. socks' = [socks EXCEPT ![held] = Dropped(carried)]
    BY <1>3 DEF carried
  <2> QED BY <1>3, <2>2, <2>3, <2>4, ReturnGivesUp
<1> QED BY <1>1, <1>2, <1>3

LEMMA SendBreaksKeeps ==
  ASSUME ReqInv, NEW c \in Calls, SendBreaks(c)
  PROVE  ReqInv'
<1>1. FALSE \in BOOLEAN
  OBVIOUS
<1> QED BY <1>1, DropsKeep DEF SendBreaks

LEMMA ReadBreaksKeeps ==
  ASSUME ReqInv, NEW c \in Calls, ReadBreaks(c)
  PROVE  ReqInv'
BY DropsKeep DEF ReadBreaks

LEMMA CancelInFlightKeeps ==
  ASSUME ReqInv, NEW c \in Calls, CancelInFlight(c)
  PROVE  ReqInv'
BY DropsKeep DEF CancelInFlight

\* The answer a call reads: it is its own.
LEMMA OwnAnswer ==
  ASSUME ReqInv, NEW c \in Calls, ReadResponse(c)
  PROVE  LET reply == Head(socks[held].down)
         IN  /\ calls[c].pc = "read" /\ calls[c].sock = held /\ held \in DOMAIN socks
             /\ socks[held].down # <<>> /\ reply \in Reply /\ reply.req = Req(c)
             /\ applied[Req(c)] = IF reply.result = "ok" THEN 1 ELSE 0
             /\ Conforms(reply.label) /\ (heard => reply.label = label)
             /\ Return(c, reply.result) /\ label' = reply.label
<1> DEFINE reply == Head(socks[held].down)
<1>1. /\ calls[c].pc = "read" /\ calls[c].sock = held /\ held \in DOMAIN socks /\ lock = c
      /\ socks[held] \in Socket /\ OneItem(socks[held]) /\ socks[held].down # <<>>
  BY CallerHolds DEF ReadResponse
<1>2. Return(c, reply.result) /\ label' = reply.label
  BY <1>1 DEF ReadResponse
<1> DEFINE item == [req |-> reply.req, label |-> reply.label, stage |-> reply.result]
<1>3. reply \in Reply /\ item \in Items(socks[held])
  BY <1>1, ReadItem
<1>4. ItemLegal(held, item) /\ reply.req \in AllRequests /\ reply.result \in Results
  BY <1>1, <1>3 DEF ReqInv, Wire, Reply
<1> HIDE DEF reply
<1>5. item.req = reply.req /\ item.label = reply.label /\ item.stage = reply.result
  OBVIOUS
<1> HIDE DEF item
<1>6. /\ Reading(reply.req) /\ Conforms(reply.label) /\ (heard => reply.label = label)
      /\ applied[reply.req] = IF reply.result = "ok" THEN 1 ELSE 0
  BY <1>4, <1>5 DEF ItemLegal, Results
<1>7. reply.req = Req(c)
  BY <1>1, <1>4, <1>6, WaitingHolds
<1> QED BY <1>1, <1>2, <1>3, <1>6, <1>7 DEF reply

LEMMA ReadResponseKeeps ==
  ASSUME ReqInv, NEW c \in Calls, ReadResponse(c)
  PROVE  ReqInv'
<1>1. PICK mine : mine = Req(c)
  OBVIOUS
<1> DEFINE k == socks[held]
           new == [k EXCEPT !.down = Tail(k.down)]
<1>2. PICK reply \in Reply :
         /\ calls[c].pc = "read" /\ calls[c].sock = held /\ held \in DOMAIN socks
         /\ k.down # <<>>
         /\ applied[mine] = IF reply.result = "ok" THEN 1 ELSE 0
         /\ Conforms(reply.label) /\ (heard => reply.label = label)
         /\ Return(c, reply.result) /\ label' = reply.label
  BY <1>1, OwnAnswer
<1>3. /\ TypeOK /\ k \in Socket /\ OneItem(k) /\ lock = c /\ held # 0
  BY <1>2, CallerHolds
<1>4. /\ socks' = [socks EXCEPT ![held] = new] /\ heard' = TRUE
      /\ UNCHANGED <<held, alive, minted, applied, deaths>>
  BY <1>2 DEF ReadResponse
<1>5. new \in Socket /\ OneItem(new) /\ Items(new) = {}
  BY <1>2, <1>3, ReadItem
<1> HIDE DEF k, new
<1>6. /\ socks' \in Seq(Socket) /\ Len(socks') = Len(socks) /\ DOMAIN socks' = DOMAIN socks
      /\ socks'[held] = new /\ \A t \in DOMAIN socks \ {held} : socks'[t] = socks[t]
  BY <1>2, <1>3, <1>4, <1>5, SocketSet
<1>7. /\ \A s \in DOMAIN socks :
            /\ OneItem(socks'[s])
            /\ \A i \in Items(socks'[s]) : i \in Items(socks[s])
      /\ \A s \in DOMAIN socks : s = held' => Items(socks'[s]) = {}
  BY <1>4, <1>5, <1>6 DEF ReqInv, Wire
<1>8. ~UnderWay(mine)'
  <2> SUFFICES ASSUME NEW s \in DOMAIN socks, NEW i \in Items(socks'[s]), i.req = mine
               PROVE  FALSE
    BY <1>6 DEF UnderWay
  <2>1. s # held /\ i \in Items(socks[s])
    BY <1>4, <1>7
  <2>2. answer[mine] \in {"ambiguous", "cancelled"}
    BY <2>1 DEF ReqInv, Wire, ItemLegal
  <2>3. answer[mine] = "none"
    BY <1>1, <1>2, PendingIsNone
  <2> QED BY <2>2, <2>3
<1>9. /\ label' \in Labels /\ (heard' => Conforms(label'))
      /\ reply.result \in Outcomes \ {"none"} /\ reply.result \in Results
      /\ heard' \in BOOLEAN /\ held' \in {0, held} /\ calls[c].pc # "lock"
  <2>1. heard' \in BOOLEAN
    BY <1>4, Zenon
  <2> QED BY <1>2, <1>4, <2>1 DEF Reply, Results, Outcomes
<1>10. PICK outcome \in Outcomes \ {"none"} : outcome = reply.result
  BY <1>9
<1>11. /\ outcome = "ok" => applied[mine] = 1
       /\ outcome \in {"unsent", "busy", "refused"} => applied[mine] = 0
       /\ Return(c, outcome) /\ calls[c].pc \in {"lock", "connect", "send", "read"}
       /\ calls[c].pc = "lock" => UNCHANGED <<held, label, heard>>
  BY <1>2, <1>10
<1>12. /\ \A s \in DOMAIN socks :
             /\ OneItem(socks'[s])
             /\ \A i \in Items(socks'[s]) :
                   \/ i \in Items(socks[s])
                   \/ calls[c].pc = "send" /\ s = held /\ i.req = mine /\ i.stage = "sent"
       /\ \A s \in DOMAIN socks :
             s = held' => (heard' = heard /\ label' = label) \/ Items(socks'[s]) = {}
  BY <1>7
<1>13. UNCHANGED <<alive, minted, applied, deaths>>
  BY <1>4
<1> QED BY <1>1, <1>6, <1>8, <1>9, <1>11, <1>12, <1>13, ReturnKeeps

LEMMA NextKeeps == ReqInv /\ [Next]_vars => ReqInv'
<1> SUFFICES ASSUME ReqInv, [Next]_vars PROVE ReqInv'
  OBVIOUS
<1>1. CASE UNCHANGED vars
  <2>1. TypeOK'
    BY <1>1 DEF vars, ReqInv, TypeOK
  <2> QED BY <1>1, <2>1, CallsRest, SocketsRest, RestKeeps DEF vars
<1>2. ASSUME NEW c \in Calls, CallStep(c)
      PROVE  ReqInv'
  BY <1>2, AskKeeps, EnsurePlannedKeeps, EnterKeeps, ConnectedKeeps, ConnectFailsKeeps,
     SendRequestKeeps, ZeroProgressKeeps, SendBreaksKeeps, ReadResponseKeeps, ReadBreaksKeeps,
     CancelBeforeKeeps, CancelInFlightKeeps DEF CallStep
<1>3. ASSUME NEW s \in DOMAIN socks, HandlerStep(s)
      PROVE  ReqInv'
  BY <1>3, ReceiveKeeps, RunHandlerKeeps, RespondKeeps DEF HandlerStep
<1> QED BY <1>1, <1>2, <1>3, ServiceEndsKeeps DEF Next

-----------------------------------------------------------------------------
(* The theorems. *)

\* The inductive invariant: one line under way on each socket, and who may say what.
THEOREM RequestsInvHolds == Spec => []ReqInv
BY InitKeeps, NextKeeps, PTL DEF Spec

\* The calls, the sockets and what they carry keep their shape.
THEOREM RequestsTypeCorrect == Spec => []TypeOK
<1>1. ReqInv => TypeOK
  BY DEF ReqInv
<1> QED BY <1>1, RequestsInvHolds, PTL

\* Whatever is seen on a socket is its item.
LEMMA SeenIsItem ==
  ASSUME ReqInv, NEW s \in DOMAIN socks
  PROVE  \A r \in OnWire(s) : \E i \in Items(socks[s]) : i.req = r
<1>1. OneItem(socks[s])
  BY DEF ReqInv, Wire
<1>2. ASSUME NEW j \in DOMAIN socks[s].up
      PROVE  \E i \in Items(socks[s]) : i.req = socks[s].up[j].req
  <2>1. [req |-> socks[s].up[j].req, label |-> socks[s].up[j].label, stage |-> "sent"]
           \in Items(socks[s])
    BY DEF Items
  <2> QED BY <2>1
<1>3. ASSUME NEW j \in DOMAIN socks[s].down
      PROVE  \E i \in Items(socks[s]) : i.req = socks[s].down[j].req
  <2>1. [req |-> socks[s].down[j].req, label |-> socks[s].down[j].label,
         stage |-> socks[s].down[j].result] \in Items(socks[s])
    BY DEF Items
  <2> QED BY <2>1
<1>4. ASSUME socks[s].line # NULL
      PROVE  \E i \in Items(socks[s]) : i.req = socks[s].line.req
  <2>1. [req |-> socks[s].line.req, label |-> socks[s].line.label, stage |-> socks[s].state]
           \in Items(socks[s])
    BY <1>1, <1>4 DEF OneItem, Items
  <2> QED BY <2>1
<1> QED BY <1>2, <1>3, <1>4 DEF OnWire

\* The connection's lock, and giving the socket up whenever something is in doubt,
\* pair each answer with its request although every line bears the same id.
THEOREM RepliesAreTheirOwn == Spec => []RepliesAreOwn
<1>1. ReqInv => RepliesAreOwn
  <2> SUFFICES ASSUME ReqInv PROVE RepliesAreOwn
    OBVIOUS
  <2>1. ASSUME held \in DOMAIN socks, NEW r \in OnWire(held)
        PROVE  Reading(r) /\ r \in AllRequests
    <3>1. PICK i \in Items(socks[held]) : i.req = r
      BY <2>1, SeenIsItem
    <3>2. i \in Item /\ ItemLegal(held, i)
      BY <2>1, SocketsOf, ItemsAreItems DEF ReqInv, Wire
    <3> QED BY <3>1, <3>2 DEF Item, ItemLegal
  <2>2. ASSUME NEW c \in Calls, calls[c].pc = "read"
        PROVE  OnWire(calls[c].sock) \subseteq {Req(c)}
    <3>1. calls[c].sock = held /\ held \in DOMAIN socks /\ lock = c
      BY <2>2, CallerHolds
    <3> QED BY <2>1, <3>1, WaitingHolds
  <2>3. ASSUME held # 0, \A c \in Calls : calls[c].pc # "read"
        PROVE  OnWire(held) = {}
    <3>1. held \in DOMAIN socks
      BY <2>3, SocketsOf DEF ReqInv, TypeOK
    <3> QED BY <2>1, <2>3, <3>1, RequestIs DEF Reading
  <2> QED BY <2>2, <2>3 DEF RepliesAreOwn
<1> QED BY <1>1, RequestsInvHolds, PTL

\* One process plans once: no answer it lost, and no call it cancelled, lets it
\* take a run over a second time.
THEOREM TakeoverHappensOnce == Spec => []OneTakeover
<1>1. ReqInv => OneTakeover
  <2> SUFFICES ASSUME ReqInv PROVE OneTakeover
    OBVIOUS
  <2>1. ASSUME NEW c \in NextCalls
        PROVE  applied[<<c, "plan">>] \in {0, 1}
    <3>1. <<c, "plan">> \in AllRequests
      BY DEF AllRequests
    <3> QED BY <3>1 DEF ReqInv, Truth
  <2> QED BY <2>1 DEF ReqInv, Takeovers, Touched, OneTakeover
<1> QED BY <1>1, RequestsInvHolds, PTL

\* What a step does to the requests: nothing, a change of the store under way, or
\* an answer to a call that had none.
LEMMA StepKinds ==
  ASSUME ReqInv, Next
  PROVE  /\ heard => label' = label
         /\ \/ UNCHANGED <<applied, answer>>
            \/ \E r \in AllRequests :
                  /\ applied[r] = 0 /\ answer[r] \in {"none", "ambiguous", "cancelled"}
                  /\ applied' = [applied EXCEPT ![r] = 1] /\ UNCHANGED answer
            \/ \E r \in AllRequests, outcome \in Outcomes \ {"none"} :
                  /\ answer[r] = "none"
                  /\ answer' = [answer EXCEPT ![r] = outcome] /\ UNCHANGED applied
<1>1. ASSUME NEW c \in Calls, NEW outcome \in Outcomes \ {"none"}, Return(c, outcome),
             calls[c].pc \in {"lock", "connect", "send", "read"}, UNCHANGED applied
      PROVE  \E r \in AllRequests, o \in Outcomes \ {"none"} :
                /\ answer[r] = "none" /\ answer' = [answer EXCEPT ![r] = o] /\ UNCHANGED applied
  <2>1. Req(c) \in AllRequests /\ answer[Req(c)] = "none"
    BY <1>1, RequestsOf, PendingIsNone DEF ReqInv
  <2>2. answer' = [answer EXCEPT ![Req(c)] = outcome]
    BY <1>1 DEF Return
  <2> QED BY <1>1, <2>1, <2>2
<1>2. /\ "unsent" \in Outcomes \ {"none"} /\ "ambiguous" \in Outcomes \ {"none"}
      /\ "cancelled" \in Outcomes \ {"none"} /\ Results \subseteq Outcomes \ {"none"}
  BY DEF Outcomes, Results
<1>3. ASSUME NEW c \in Calls, \/ Ask(c) \/ EnsurePlanned(c) \/ ConnectedSocket(c) \/ SendRequest(c)
      PROVE  UNCHANGED <<label, applied, answer>>
  BY <1>3 DEF Ask, EnsurePlanned, ConnectedSocket, SendRequest
<1>4. ASSUME NEW c \in Calls, Enter(c)
      PROVE  UNCHANGED <<applied, answer>> /\ (heard => label' = label)
  <2>1. heard => label # Unresolved
    BY LabelsAssumption DEF ReqInv, Conforms
  <2> QED BY <1>4, <2>1 DEF Enter
<1>5. ASSUME NEW c \in Calls, ConnectFails(c) \/ ZeroProgress(c)
      PROVE  /\ UNCHANGED <<label, applied>>
             /\ \/ UNCHANGED answer
                \/ Return(c, "unsent") /\ calls[c].pc \in {"lock", "connect", "send", "read"}
  BY <1>5 DEF ConnectFails, ZeroProgress
<1>6. ASSUME NEW c \in Calls, SendBreaks(c) \/ ReadBreaks(c)
      PROVE  /\ UNCHANGED <<label, applied>> /\ Return(c, "ambiguous")
             /\ calls[c].pc \in {"lock", "connect", "send", "read"}
  BY <1>6 DEF SendBreaks, ReadBreaks
<1>7. ASSUME NEW c \in Calls, CancelBefore(c) \/ CancelInFlight(c)
      PROVE  /\ UNCHANGED <<label, applied>>
             /\ \/ UNCHANGED answer
                \/ Return(c, "cancelled") /\ calls[c].pc \in {"lock", "connect", "send", "read"}
  BY <1>7 DEF CancelBefore, CancelInFlight
<1>8. ASSUME NEW c \in Calls, ReadResponse(c)
      PROVE  /\ UNCHANGED applied /\ (heard => label' = label)
             /\ \E result \in Results : Return(c, result)
             /\ calls[c].pc \in {"lock", "connect", "send", "read"}
  <2>1. UNCHANGED applied
    BY <1>8 DEF ReadResponse
  <2> QED BY <1>8, <2>1, OwnAnswer DEF Reply
<1>9. ASSUME NEW s \in DOMAIN socks, Receive(s) \/ Respond(s)
      PROVE  UNCHANGED <<label, applied, answer>>
  BY <1>9 DEF Receive, Respond
<1>10. ASSUME NEW s \in DOMAIN socks, RunHandler(s)
       PROVE  /\ UNCHANGED <<label, answer>>
              /\ \/ UNCHANGED applied
                 \/ \E r \in AllRequests :
                       /\ applied[r] = 0 /\ answer[r] \in {"none", "ambiguous", "cancelled"}
                       /\ applied' = [applied EXCEPT ![r] = 1]
  <2> DEFINE r == socks[s].line.req
             item == [req |-> r, label |-> socks[s].line.label, stage |-> "received"]
  <2>1. UNCHANGED <<label, answer>> /\ (UNCHANGED applied \/ applied' = [applied EXCEPT ![r] = @ + 1])
    BY <1>10 DEF RunHandler
  <2>2. socks[s] \in Socket /\ OneItem(socks[s]) /\ socks[s].state = "received"
    BY <1>10, SocketsOf DEF RunHandler, ReqInv, Wire
  <2>3. socks[s].line \in Line /\ item \in Items(socks[s])
    BY <2>2 DEF OneItem, Items
  <2>4. ItemLegal(s, item) /\ r \in AllRequests
    BY <2>3 DEF ReqInv, Wire, Line
  <2>5. applied[r] = 0 /\ (Reading(r) \/ answer[r] \in {"ambiguous", "cancelled"})
    BY <2>4 DEF ItemLegal
  <2>6. Reading(r) => answer[r] = "none"
    <3> SUFFICES ASSUME Reading(r) PROVE answer[r] = "none"
      OBVIOUS
    <3>1. r[1] \in Calls /\ calls[r[1]].pc = "read" /\ r = Req(r[1])
      BY <2>4, RequestIs DEF Reading
    <3> QED BY <3>1, PendingIsNone
  <2> HIDE DEF r
  <2> QED BY <2>1, <2>4, <2>5, <2>6
<1>11. ASSUME ServiceEnds
       PROVE  UNCHANGED <<label, applied, answer>>
  BY <1>11 DEF ServiceEnds
<1> QED
  BY <1>1, <1>2, <1>3, <1>4, <1>5, <1>6, <1>7, <1>8, <1>9, <1>10, <1>11
  DEF Next, CallStep, HandlerStep

\* The label a process heard is the one it keeps.
THEOREM LabelStays == Spec => LabelIsKept
<1>1. ReqInv /\ [Next]_vars => [heard => label' = label]_vars
  BY StepKinds DEF vars
<1> QED BY <1>1, RequestsInvHolds, PTL DEF Spec, LabelIsKept

\* The connection, the bridge and the service together do what their callers may
\* rely on: AtMostOnce.
THEOREM RequestsImplementAtMostOnce == Spec => AnswersAreTrue
<1>1. Init => Abstract!Init
  BY DEF Init, Abstract!Init, Told
<1>2. ReqInv /\ ReqInv' /\ [Next]_vars => [Abstract!Next]_<<applied, Told>>
  <2> SUFFICES ASSUME ReqInv, ReqInv', [Next]_vars
               PROVE  [Abstract!Next]_<<applied, Told>>
    OBVIOUS
  <2>1. CASE UNCHANGED <<applied, answer>>
    BY <2>1 DEF Told
  <2>2. ASSUME NEW r \in AllRequests, applied[r] = 0,
               answer[r] \in {"none", "ambiguous", "cancelled"},
               applied' = [applied EXCEPT ![r] = 1], UNCHANGED answer
        PROVE  Abstract!Apply(r) /\ UNCHANGED Told
    BY <2>2 DEF Abstract!Apply, Told
  <2>3. ASSUME NEW r \in AllRequests, NEW outcome \in Outcomes \ {"none"}, answer[r] = "none",
               answer' = [answer EXCEPT ![r] = outcome], UNCHANGED applied
        PROVE  UNCHANGED applied /\ Abstract!Answer(r)
    <3>1. answer \in [AllRequests -> Outcomes]
      BY DEF ReqInv, TypeOK
    <3>2. /\ outcome = "ok" => applied'[r] = 1
          /\ outcome \in {"busy", "refused", "unsent"} => applied'[r] = 0
      <4>1. answer'[r] = outcome
        BY <2>3, <3>1
      <4> QED BY <4>1 DEF ReqInv, Truth
    <3> DEFINE a == CASE outcome = "ok" -> "done"
                      [] outcome \in {"busy", "refused", "unsent"} -> "refused"
                      [] OTHER -> "unknown"
    <3>3. /\ a \in Abstract!Answers \ {"none"}
          /\ a = "done" => applied'[r] = 1
          /\ a = "refused" => applied'[r] = 0
      BY <3>2 DEF Abstract!Answers
    <3>4. Told[r] = "none"
      BY <2>3 DEF Told
    <3>5. Told' = [Told EXCEPT ![r] = a]
      <4>1. \A q \in AllRequests : Told'[q] = [Told EXCEPT ![r] = a][q]
        BY <2>3, <3>1 DEF Told
      <4> QED BY <4>1 DEF Told
    <3> HIDE DEF a
    <3> QED BY <2>3, <3>3, <3>4, <3>5 DEF Abstract!Answer
  <2>4. CASE Next
    BY <2>1, <2>2, <2>3, <2>4, StepKinds DEF Abstract!Next
  <2>5. CASE UNCHANGED vars
    BY <2>1, <2>5 DEF vars
  <2> QED BY <2>4, <2>5
<1> QED BY <1>1, <1>2, RequestsInvHolds, PTL DEF Spec, AnswersAreTrue, Abstract!Spec

===============================================================================
