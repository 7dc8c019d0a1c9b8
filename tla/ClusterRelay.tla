------------------------------ MODULE ClusterRelay ------------------------------
(***************************************************************************)
(* The relay between two nodes of a cluster: the client keeps one session  *)
(* for the peer and opens a stream on it for a call; the server hands the   *)
(* stream to the agent that is connected to it.  Sections under p.mu, c.mu  *)
(* and s.mu are single steps.                                               *)
(***************************************************************************)
EXTENDS Naturals, FiniteSets

CONSTANTS
  Calls,       \* calls of Open
  MaxSess,     \* bound: connections ever made
  MaxNow,      \* bound: the clock
  Skew,        \* MaxClockSkew
  Ahead,       \* how far the clock of the client is ahead
  MaxStreams   \* streams a session may carry

Sessions == 1 .. MaxSess

VARIABLES
  closed,    \* the client: open, closing (closed is set), closed
  peer,      \* its session for the address and its dial: [sess, dialing]
  flight,    \* how the dials ended: 0 while under way, an error, or well
  conn,      \* connections: none, hello, up or down
  served,    \* the server's side of them: none, serving or done
  stamp,     \* the time in the hello of a connection
  seen,      \* nonces and how long they are kept
  accepted,  \* times a hello was accepted
  call,      \* the calls of Open
  stream,    \* streams by call and attempt, as the server has them
  shut,      \* the server: open, closing or closed
  now

relayVars == <<closed, peer, flight, conn, served, stamp, seen, accepted, call, stream, shut, now>>

Attempts == Calls \X {1, 2}
NewCall == [pc |-> "idle", try |-> 1, s |-> 0]

TypeOK ==
  /\ closed \in {"open", "closing", "closed"} /\ shut \in {"open", "closing", "closed"}
  /\ peer \in [sess : 0 .. MaxSess, dialing : 0 .. MaxSess]
  /\ flight \in [Sessions -> {"none", "under way", "failed", "well"}]
  /\ conn \in [Sessions -> {"none", "hello", "up", "down"}]
  /\ served \in [Sessions -> {"none", "serving", "done"}]
  /\ \A x \in Attempts : stream[x].pc \in {"none", "header", "opening", "spliced"}

Init ==
  /\ closed = "open" /\ shut = "open" /\ now = 0
  /\ peer = [sess |-> 0, dialing |-> 0]
  /\ flight = [s \in Sessions |-> "none"] /\ conn = [s \in Sessions |-> "none"]
  /\ served = [s \in Sessions |-> "none"]
  /\ stamp = [s \in Sessions |-> 0] /\ seen = [s \in Sessions |-> 0] /\ accepted = [s \in Sessions |-> 0]
  /\ call = [c \in Calls |-> NewCall]
  /\ stream = [x \in Attempts |-> [pc |-> "none", s |-> 0]]

-----------------------------------------------------------------------------
client == <<closed, peer, flight>>
server == <<served, seen, accepted, shut>>

Made == {s \in Sessions : flight[s] # "none"}
Up(s) == conn[s] = "up"
Down(s) == [conn EXCEPT ![s] = "down"]
Set(c, r) == call' = [call EXCEPT ![c] = r]
Goes(c, where) == Set(c, [call[c] EXCEPT !.pc = where])
Over(c) == Set(c, [NewCall EXCEPT !.pc = "over"])

\* session: the session there is, the dial under way, or a new dial.
Session(c) ==
  /\ call[c].pc \in {"idle", "again"}
  /\ IF closed # "open" THEN Over(c) /\ UNCHANGED <<client, conn, stamp>>
     ELSE IF peer.sess # 0 /\ Up(peer.sess)
     THEN Set(c, [call[c] EXCEPT !.pc = "open", !.s = peer.sess]) /\ UNCHANGED <<client, conn, stamp>>
     ELSE IF peer.dialing # 0
     THEN Set(c, [call[c] EXCEPT !.pc = "wait", !.s = peer.dialing]) /\ UNCHANGED <<client, conn, stamp>>
     ELSE \E s \in Sessions \ Made :
            /\ \A r \in Sessions \ Made : s <= r
            /\ flight' = [flight EXCEPT ![s] = "under way"]
            /\ peer' = [peer EXCEPT !.dialing = s]
            /\ conn' = [conn EXCEPT ![s] = "hello"] /\ stamp' = [stamp EXCEPT ![s] = now + Ahead]
            /\ Set(c, [call[c] EXCEPT !.pc = "wait", !.s = s])
            /\ UNCHANGED closed
  /\ UNCHANGED <<server, stream, now>>

\* A caller that waits for the dial gets its end, or gives up.
Waited(c) ==
  /\ call[c].pc = "wait"
  /\ \/ flight[call[c].s] = "well" /\ Goes(c, "open")
     \/ flight[call[c].s] = "failed" /\ Over(c)
     \/ Over(c)
  /\ UNCHANGED <<client, conn, stamp, server, stream, now>>

\* A mutant: a dial that ends when the client is closed keeps its session.
BugDial(s) ==
  /\ peer.dialing = s /\ conn[s] # "none"
  /\ IF Up(s)
     THEN /\ flight' = [flight EXCEPT ![s] = "well"] /\ peer' = [sess |-> s, dialing |-> 0] /\ UNCHANGED conn
     ELSE /\ flight' = [flight EXCEPT ![s] = "failed"] /\ peer' = [peer EXCEPT !.dialing = 0] /\ conn' = Down(s)
  /\ UNCHANGED <<closed, stamp, server, call, stream, now>>

\* dial: the connection is up, or it failed, was refused or took too long.
Dial(s) ==
  /\ peer.dialing = s
  /\ IF Up(s) /\ closed = "open"
     THEN /\ flight' = [flight EXCEPT ![s] = "well"] /\ peer' = [sess |-> s, dialing |-> 0] /\ UNCHANGED conn
     ELSE /\ flight' = [flight EXCEPT ![s] = "failed"] /\ peer' = [peer EXCEPT !.dialing = 0] /\ conn' = Down(s)
  /\ UNCHANGED <<closed, stamp, server, call, stream, now>>

\* drop closes the session, and forgets it unless the peer has a newer one.
Dropped(s) == IF closed = "open" /\ peer.sess = s THEN [peer EXCEPT !.sess = 0] ELSE peer

\* Open tries a second time after a failure of the session.
Again(c) == IF call[c].try = 1 THEN Set(c, [pc |-> "again", try |-> 2, s |-> 0]) ELSE Over(c)

\* openOnce on a session: the stream and its header.
OpenStream(c) ==
  LET s == call[c].s IN
  /\ call[c].pc = "open"
  /\ IF Up(s)
     THEN /\ stream' = [stream EXCEPT ![<<c, call[c].try>>] = [pc |-> "header", s |-> s]]
          /\ Goes(c, "status") /\ UNCHANGED peer
     ELSE /\ peer' = Dropped(s) /\ Again(c) /\ UNCHANGED stream
  /\ UNCHANGED <<closed, flight, conn, stamp, server, now>>

\* No status came: a session that is closed is dropped and tried once more.
NoStatus(c) ==
  /\ call[c].pc = "status"
  /\ IF Up(call[c].s)
     THEN Over(c) /\ UNCHANGED <<peer, stream>>
     ELSE /\ peer' = Dropped(call[c].s) /\ Again(c) /\ UNCHANGED stream
  /\ UNCHANGED <<closed, flight, conn, stamp, server, now>>

Close ==
  \/ /\ closed = "open" /\ closed' = "closing"
     /\ UNCHANGED <<peer, flight, conn, stamp, server, call, stream, now>>
  \/ /\ closed = "closing" /\ closed' = "closed"
     /\ peer' = [peer EXCEPT !.sess = 0]
     /\ conn' = IF peer.sess # 0 THEN Down(peer.sess) ELSE conn
     /\ UNCHANGED <<flight, stamp, server, call, stream, now>>

-----------------------------------------------------------------------------
(* The server.                                                             *)

Fresh(s) == now <= stamp[s] + Skew /\ stamp[s] <= now + Skew

\* A mutant: a nonce is kept for as long as the clocks may differ.
BugKept == now + Skew

Kept == now + 2 * Skew

\* use: nonces that have had their time are forgotten first.  0 is no entry.
Remembered == [s \in Sessions |-> IF seen[s] # 0 /\ now > seen[s] - 1 THEN 0 ELSE seen[s]]

\* The hello of connection h, for the first time or delivered again on connection s.
ServeSession(s, h) ==
  /\ conn[s] = "hello" /\ served[s] = "none" /\ h <= s
  /\ IF shut = "open" /\ Fresh(h) /\ Remembered[h] = 0
     THEN /\ conn' = [conn EXCEPT ![s] = "up"] /\ served' = [served EXCEPT ![s] = "serving"]
          /\ accepted' = [accepted EXCEPT ![h] = @ + 1]
          /\ seen' = [Remembered EXCEPT ![h] = Kept + 1]
     ELSE conn' = Down(s) /\ served' = [served EXCEPT ![s] = "done"] /\ UNCHANGED <<accepted, seen>>
  /\ UNCHANGED <<client, stamp, shut, call, stream, now>>

OnSession(s) == {x \in Attempts : stream[x].s = s /\ stream[x].pc \in {"opening", "spliced"}}

End(x) == stream' = [stream EXCEPT ![x] = [pc |-> "none", s |-> 0]]
Wants(x) == call[x[1]].pc = "status" /\ call[x[1]].try = x[2]

\* A stream is closed when the session has no slot for it, or its header is late or does
\* not verify; otherwise the agent is looked up.
Handle(x) ==
  LET s == stream[x].s IN
  /\ stream[x].pc = "header" /\ served[s] = "serving"
  /\ \/ End(x) /\ UNCHANGED call
     \/ /\ Up(s) /\ Cardinality(OnSession(s)) < MaxStreams
        /\ \/ stream' = [stream EXCEPT ![x].pc = "opening"] /\ UNCHANGED call
           \/ \* the agent is not here
              End(x) /\ Wants(x) /\ Over(x[1])
  /\ UNCHANGED <<client, conn, stamp, server, now>>

\* OpenStream of the agent answers; the status reaches a client that still waits.
Opened(x) ==
  /\ stream[x].pc = "opening"
  /\ \/ End(x) /\ (IF Wants(x) /\ Up(stream[x].s) THEN Over(x[1]) ELSE UNCHANGED call)
     \/ /\ Up(stream[x].s) /\ Wants(x)
        /\ stream' = [stream EXCEPT ![x].pc = "spliced"]
        /\ Goes(x[1], "ok")
  /\ UNCHANGED <<client, conn, stamp, server, now>>

\* The splice ends with its session, its caller or the agent.
SpliceEnds(x) ==
  /\ stream[x].pc = "spliced" /\ End(x)
  /\ Over(x[1])
  /\ UNCHANGED <<client, conn, stamp, server, now>>

\* The loop of a session whose connection is down: its streams first.
SessionEnds(s) ==
  /\ served[s] = "serving" /\ conn[s] = "down" /\ OnSession(s) = {}
  /\ served' = [served EXCEPT ![s] = "done"]
  /\ UNCHANGED <<client, conn, stamp, seen, accepted, shut, call, stream, now>>

Shutdown ==
  \/ /\ shut = "open" /\ shut' = "closing"
     /\ conn' = [s \in Sessions |-> IF served[s] = "serving" THEN "down" ELSE conn[s]]
     /\ UNCHANGED <<client, stamp, served, seen, accepted, call, stream, now>>
  \/ /\ shut = "closing" /\ \A s \in Sessions : served[s] # "serving"
     /\ shut' = "closed"
     /\ UNCHANGED <<client, conn, stamp, served, seen, accepted, call, stream, now>>

ConnectionBreaks(s) ==
  /\ conn[s] \in {"hello", "up"} /\ conn' = Down(s)
  /\ UNCHANGED <<client, stamp, server, call, stream, now>>

Tick ==
  /\ now < MaxNow /\ now' = now + 1
  /\ UNCHANGED <<client, conn, stamp, server, call, stream>>

Next ==
  \/ \E c \in Calls : Session(c) \/ Waited(c) \/ OpenStream(c) \/ NoStatus(c)
  \/ \E s \in Sessions :
       \/ Dial(s) \/ SessionEnds(s) \/ ConnectionBreaks(s)
       \/ \E h \in Made : ServeSession(s, h)
  \/ \E x \in Attempts : Handle(x) \/ Opened(x) \/ SpliceEnds(x)
  \/ Close \/ Shutdown \/ Tick

Spec == Init /\ [][Next]_relayVars

-----------------------------------------------------------------------------
(* Properties.                                                             *)

\* A session that the client has up is the one new calls use, and a closed client has
\* none; a hello is accepted once, whenever it comes again; a stream of the agent is
\* kept for a caller or ends with its session; and a server that is shut down serves
\* nothing.
RelaySound ==
  /\ \A s \in Sessions : flight[s] = "well" /\ Up(s) => peer.sess = s /\ closed # "closed"
  /\ \A s \in Sessions : accepted[s] <= 1
  /\ \A x \in Attempts : stream[x].pc = "spliced" => call[x[1]].pc = "ok" /\ call[x[1]].try = x[2]
  /\ shut = "closed" => \A s \in Sessions : ~Up(s) /\ OnSession(s) = {}

=============================================================================
