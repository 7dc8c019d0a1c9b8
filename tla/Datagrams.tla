------------------------------ MODULE Datagrams -------------------------------
(***************************************************************************)
(* A UDP endpoint: the listener that sorts the datagrams of a socket into  *)
(* flows by client, the stream of each flow to the agent, and the agent's  *)
(* relay to the target, with idle timeouts on both sides.                  *)
(*                                                                         *)
(* A datagram is its number among those of its client.  A byte of usage is *)
(* a datagram.                                                             *)
(***************************************************************************)
EXTENDS Naturals, Sequences, FiniteSets

CONSTANTS
  Peers,         \* addresses of clients
  FlowIds,       \* numbers of flows, in the order of their creation
  MaxFlows,
  QueueSize,
  MaxSent,       \* bound: datagrams of a client
  MaxReplies     \* bound: datagrams of the target to a flow

NoFlow == 0

VARIABLES
  socket,        \* "none", "open", "unlisted", "closed": the listener of the endpoint
  flows,         \* DatagramListener.flows: the flow of a client
  flow,          \* the flows that were made
  sent,          \* datagrams a client has sent
  metered        \* datagrams counted by meterUsage

datagramVars == <<socket, flows, flow, sent, metered>>

NewFlow(c) == [pc |-> "open", client |-> c, queue |-> <<>>, stop |-> FALSE, stream |-> "none", up |-> <<>>,
               down |-> <<>>, got |-> <<>>, relay |-> "none", from |-> 0, to |-> 0, replies |-> 0]

TypeOK ==
  /\ socket \in {"none", "open", "unlisted", "closed"}
  /\ flows \in [Peers -> {NoFlow} \cup FlowIds]
  /\ DOMAIN flow \subseteq FlowIds
  /\ \A f \in DOMAIN flow : Len(flow[f].queue) <= QueueSize
  /\ sent \in [Peers -> 0 .. MaxSent] /\ metered \in Nat

Init ==
  /\ socket = "none" /\ flows = [c \in Peers |-> NoFlow] /\ flow = <<>>
  /\ sent = [c \in Peers |-> 0] /\ metered = 0

Set(f, r) == flow' = [flow EXCEPT ![f] = r]

\* UDP.Open: the listener that there is, or a new one.
Open ==
  /\ socket = "none" /\ socket' = "open"
  /\ UNCHANGED <<flows, flow, sent, metered>>

\* UDP.Close: out of the table first, then the socket, and Serve ends with closeAll.
Close ==
  /\ socket = "open" /\ socket' = "unlisted"
  /\ UNCHANGED <<flows, flow, sent, metered>>

CloseAll(r) == [f \in DOMAIN r |-> IF \E c \in Peers : flows[c] = f THEN [r[f] EXCEPT !.stop = TRUE] ELSE r[f]]

Served ==
  /\ socket = "unlisted" /\ socket' = "closed"
  /\ flow' = CloseAll(flow)
  /\ UNCHANGED <<flows, sent, metered>>

Listening == socket \in {"open", "unlisted"}

\* enqueue's flow of the client; none when there are too many.
Room == Cardinality({c \in Peers : flows[c] # NoFlow}) < MaxFlows

\* The packet goes into the queue unless it is full.
Offer(r, n) == IF Len(r.queue) < QueueSize THEN [r EXCEPT !.queue = Append(@, n)] ELSE r

\* Serve and enqueue: a datagram of a client.
Deliver(c) ==
  /\ Listening /\ sent[c] < MaxSent
  /\ sent' = [sent EXCEPT ![c] = @ + 1]
  /\ LET n == sent[c] + 1
         f == Len(flow) + 1 IN
     \/ flows[c] # NoFlow /\ Set(flows[c], Offer(flow[flows[c]], n)) /\ UNCHANGED flows
     \/ flows[c] = NoFlow /\ ~Room /\ UNCHANGED <<flows, flow>>
     \/ /\ flows[c] = NoFlow /\ Room /\ f \in FlowIds
        /\ flows' = [flows EXCEPT ![c] = f]
        /\ flow' = Append(flow, Offer(NewFlow(c), n))
  /\ UNCHANGED <<socket, metered>>

\* runFlow: openStream, which may fail.
OpenStream(f) ==
  /\ flow[f].pc = "open"
  /\ \/ Set(f, [flow[f] EXCEPT !.pc = "run", !.stream = "open", !.relay = "run"])
     \/ Set(f, [flow[f] EXCEPT !.pc = "finish", !.stop = TRUE])
  /\ UNCHANGED <<socket, flows, sent, metered>>

\* One turn of runFlow's loop: select takes either when both are ready.
WriteDatagram(f) ==
  /\ flow[f].pc = "run" /\ flow[f].queue # <<>>
  /\ \/ /\ flow[f].stream = "open"
        /\ Set(f, [flow[f] EXCEPT !.queue = Tail(@), !.up = Append(@, Head(flow[f].queue)), !.from = @ + 1])
     \/ flow[f].stream = "closed" /\ Set(f, [flow[f] EXCEPT !.queue = Tail(@), !.pc = "closing"])
  /\ UNCHANGED <<socket, flows, sent, metered>>

Stop(f) ==
  /\ flow[f].pc = "run" /\ flow[f].stop
  /\ Set(f, [flow[f] EXCEPT !.pc = "closing", !.stream = "closed"])
  /\ UNCHANGED <<socket, flows, sent, metered>>

\* The reader of a flow: a datagram of the stream goes to the client, unless the
\* socket is closed; then, and at the end of the stream, it stops the flow.
ReadDatagram(f) ==
  /\ flow[f].pc \in {"run", "closing"}
  /\ \/ /\ flow[f].down # <<>> /\ socket # "closed"
        /\ Set(f, [flow[f] EXCEPT !.down = Tail(@), !.to = @ + 1])
     \/ /\ flow[f].stream = "closed" \/ (flow[f].down # <<>> /\ socket = "closed")
        /\ Set(f, [flow[f] EXCEPT !.down = <<>>, !.stop = TRUE, !.stream = "closed",
                                  !.pc = IF @ = "closing" THEN "finish" ELSE @])
  /\ UNCHANGED <<socket, flows, sent, metered>>

\* finishFlow, and meterUsage.
FinishFlow(f) ==
  /\ flow[f].pc = "finish"
  /\ Set(f, [flow[f] EXCEPT !.pc = "done", !.stop = TRUE, !.queue = <<>>])
  /\ flows' = [c \in Peers |-> IF flows[c] = f THEN NoFlow ELSE flows[c]]
  /\ metered' = metered + flow[f].from + flow[f].to
  /\ UNCHANGED <<socket, sent>>

\* reap: flows that were idle stop.
Reap ==
  /\ Listening
  /\ \E idle \in SUBSET {c \in Peers : flows[c] # NoFlow} :
       flow' = [f \in DOMAIN flow |-> IF \E c \in idle : flows[c] = f THEN [flow[f] EXCEPT !.stop = TRUE] ELSE flow[f]]
  /\ UNCHANGED <<socket, flows, sent, metered>>

-----------------------------------------------------------------------------
(* RelayDatagrams at the agent.                                            *)

RelayUp(f) ==
  /\ flow[f].relay = "run" /\ flow[f].up # <<>>
  /\ \/ Set(f, [flow[f] EXCEPT !.up = Tail(@), !.got = Append(@, Head(flow[f].up))])
     \/ Set(f, [flow[f] EXCEPT !.up = <<>>, !.relay = "closed", !.stream = "closed"])
  /\ UNCHANGED <<socket, flows, sent, metered>>

RelayDown(f) ==
  /\ flow[f].relay = "run" /\ flow[f].stream = "open" /\ flow[f].replies < MaxReplies
  /\ Set(f, [flow[f] EXCEPT !.down = Append(@, flow[f].replies + 1), !.replies = @ + 1])
  /\ UNCHANGED <<socket, flows, sent, metered>>

\* closeBoth: the relay was idle, or the stream is at its end.
RelayCloses(f) ==
  /\ flow[f].relay = "run"
  /\ Set(f, [flow[f] EXCEPT !.relay = "closed", !.stream = "closed", !.up = <<>>])
  /\ UNCHANGED <<socket, flows, sent, metered>>

Next ==
  \/ Open \/ Close \/ Served \/ Reap
  \/ \E c \in Peers : Deliver(c)
  \/ \E f \in DOMAIN flow :
       \/ OpenStream(f) \/ WriteDatagram(f) \/ Stop(f) \/ ReadDatagram(f) \/ FinishFlow(f)
       \/ RelayUp(f) \/ RelayDown(f) \/ RelayCloses(f)

Spec == Init /\ [][Next]_datagramVars
-----------------------------------------------------------------------------
Increasing(s) == \A i \in 1 .. Len(s) - 1 : s[i] < s[i + 1]

SumOver(S) ==
  LET sum[n \in Nat] == IF n = 0 THEN 0 ELSE sum[n - 1] + (IF n \in S THEN flow[n].from + flow[n].to ELSE 0)
  IN sum[Len(flow)]

\* The target sees the datagrams of a flow in their order and each at most once
\* (enqueue, runFlow, RelayDatagrams); a client has one flow that runs, which is
\* the one the listener knows, and there are never more than the limit; usage is
\* what the flows that ended have moved (finishFlow).
DatagramsCounted ==
  /\ \A f \in DOMAIN flow : Increasing(flow[f].got \o flow[f].up \o flow[f].queue)
  /\ \A f \in DOMAIN flow : flow[f].pc # "done" => flows[flow[f].client] = f
  /\ Cardinality({f \in DOMAIN flow : flow[f].pc # "done"}) <= MaxFlows
  /\ metered = SumOver({f \in DOMAIN flow : flow[f].pc = "done"})
  /\ socket = "closed" => \A f \in DOMAIN flow : flow[f].stop
===============================================================================
