------------------------------ MODULE WSBroker ------------------------------
(***************************************************************************)
(* exporters/events/internal/client: RPCClient's one shared websocket      *)
(* connection and its WSMessageBroker.                                     *)
(*                                                                         *)
(* A call takes the current connection or dials a new one                  *)
(* (GetOrCreateConnection), writes its request, then stores the channel on *)
(* which it waits in the broker's requests map (submit), and waits for a   *)
(* frame or for the end of its context (WSRequest).  A broker has two      *)
(* goroutines, joined by the unbuffered channel read: one reads the        *)
(* websocket, the other hands every answer to the channel stored under the *)
(* answer's id; when this loop ends, cleanup sends a frame to every stored *)
(* channel, and only then is broker.err assigned.  Each connection is a    *)
(* broker of its own.  Subscriptions are not part of this module.          *)
(*                                                                         *)
(* A definition X_Y is X with the bug Y: no action uses it, the mutation   *)
(* runs put it in the place of X.                                          *)
(***************************************************************************)
EXTENDS Naturals, Sequences, FiniteSets

CONSTANTS MaxCalls,    \* bound: calls made
          MaxInFlight, \* bound: calls in progress at a time
          MaxBrokers,  \* bound: connections dialled
          Ids,         \* frame ids; the code draws from 1..29999
          None,        \* no connection, no channel, no frame, no id yet; as
                       \* the owner of a connection, the process itself
          Blank,       \* cleanup's frame: an empty Frame, the nil broker.err
          Pending,     \* WSRequest has not returned
          Failed,      \* an error: of WSRequest, of the websocket's Read
          Closed       \* the channel read is closed

Calls   == 1 .. MaxCalls
Brokers == 1 .. MaxBrokers

ASSUME ConstantsAssumption ==
  /\ MaxCalls \in Nat \ {0}
  /\ MaxInFlight \in Nat \ {0}
  /\ MaxBrokers \in Nat \ {0}
  /\ Ids \subseteq Nat
  /\ None \notin Calls \cup Brokers \cup Ids
  /\ {Blank, Pending, Failed, Closed} \cap Calls = {}
  /\ Cardinality({Blank, Pending, Failed, Closed, None}) = 5

VARIABLES call,        \* per call: where it is
          id,          \* per call: the id of its frame, once submitted
          conn,        \* per call: the broker it was given
          chan,        \* per call: the frames sent on its channel
          result,      \* per call: what WSRequest returned
          late,        \* for the properties: calls that stored in vain
          current,     \* RPCClient.connections: the default connection
          owner,       \* per broker: the call whose context it lives in
          over,        \* the owners whose context has ended
          sock,        \* per broker: the websocket
          wire,        \* per broker: the requests the server has not answered
          requests,    \* per broker: the requests map, id -> call
          read,        \* per broker: what the reading goroutine offers on read
          loop,        \* per broker: where readContinuously is
          toVisit,     \* per broker: what cleanup's Range must still visit
          visited,     \* per broker: what it has visited
          err          \* per broker: broker.err # nil

clientVars == <<call, id, conn, result, late, current>>
brokerVars == <<owner, over, sock, wire, requests, read, loop, toVisit, visited, err>>
vars == <<clientVars, chan, brokerVars>>

Init ==
  /\ call = [c \in Calls |-> "new"]
  /\ id = [c \in Calls |-> None]
  /\ conn = [c \in Calls |-> None]
  /\ chan = [c \in Calls |-> <<>>]
  /\ result = [c \in Calls |-> Pending]
  /\ late = {}
  /\ current = None
  /\ owner = [b \in Brokers |-> None]
  /\ over = {}
  /\ sock = [b \in Brokers |-> "none"]
  /\ wire = [b \in Brokers |-> {}]
  /\ requests = [b \in Brokers |-> [i \in Ids |-> None]]
  /\ read = [b \in Brokers |-> None]
  /\ loop = [b \in Brokers |-> "none"]
  /\ toVisit = [b \in Brokers |-> {}]
  /\ visited = [b \in Brokers |-> {}]
  /\ err = [b \in Brokers |-> FALSE]

-----------------------------------------------------------------------------
InFlight == {c \in Calls : call[c] \notin {"new", "returned"}}

(* A goroutine that panics takes the process with it.                      *)
Up == \A b \in Brokers : loop[b] # "panicked"

Goto(c, from, to) == Up /\ call[c] = from /\ call' = [call EXCEPT ![c] = to]

Return_Zero(c, value) == result' = [result EXCEPT ![c] = 0]
Return(c, value) == result' = [result EXCEPT ![c] = value]

(* The context a broker was created in is over: it was a call's own.       *)
CtxDone(b) == owner[b] \in over

IsOwner(c) == \E b \in Brokers : owner[b] = c

(* NewHeadReader's StateGetMetadata comes first and alone, in the context  *)
(* of the process: it has no deadline, and the process ends if it fails.   *)
Startup == 1
Started == call[Startup] = "returned" /\ result[Startup] # Failed

Start(c) ==
  /\ \A e \in Calls : e < c => call[e] # "new"
  /\ c = Startup \/ Started
  /\ Cardinality(InFlight) < MaxInFlight
  /\ Goto(c, "new", "connect")
  /\ UNCHANGED <<id, conn, result, late, current, chan, brokerVars>>

(* GetOrCreateConnection runs under the client's mutex.                    *)
NeedsDial_OnBreak == current # None => sock[current] # "open"
NeedsDial == current # None => err[current]

Reuse(c) ==
  /\ ~NeedsDial
  /\ Goto(c, "connect", "write")
  /\ conn' = [conn EXCEPT ![c] = current]
  /\ UNCHANGED <<id, result, late, current, chan, brokerVars>>

(* The broker of the first connection lives as long as the process; one    *)
(* that replaces a failed connection lives in the context of that one; and *)
(* one dialled after a failed dial lives in the context of this call.      *)
DialContext(c) ==
  CASE current # None -> owner[current]
    [] c = Startup    -> None
    [] OTHER          -> c

SocketsAfterClose ==
  IF current = None THEN sock ELSE [sock EXCEPT ![current] = "closed"]

Dial(c) ==
  /\ NeedsDial
  /\ current # None => ~CtxDone(current)
  /\ Goto(c, "connect", "write")
  /\ \E b \in Brokers :
       /\ sock[b] = "none" /\ \A a \in Brokers : a < b => sock[a] # "none"
       /\ sock' = [SocketsAfterClose EXCEPT ![b] = "open"]
       /\ owner' = [owner EXCEPT ![b] = DialContext(c)]
       /\ loop' = [loop EXCEPT ![b] = "reading"]
       /\ conn' = [conn EXCEPT ![c] = b]
       /\ current' = b
  /\ UNCHANGED <<id, result, late, chan, over, wire, requests, read, toVisit, visited, err>>

(* Dial fails, for one because the context it is given is already over.    *)
DialFail(c) ==
  /\ NeedsDial
  /\ Goto(c, "connect", "returned")
  /\ Return(c, Failed)
  /\ sock' = SocketsAfterClose
  /\ current' = None
  /\ UNCHANGED <<id, conn, late, chan, owner, over, wire, requests, read, loop, toVisit, visited, err>>

(* The call's context is over: a deadline that passes, or the cancel() of  *)
(* the code that made it.  Those of the owners are followed, for a broker  *)
(* lives in them; any other may be over at any time.                       *)
GivesUp_Never(c) == FALSE
GivesUp(c) == c # Startup /\ (IsOwner(c) => c \in over)

CtxEnd(c) ==
  /\ Up
  /\ IsOwner(c)
  /\ over' = over \cup {c}
  /\ UNCHANGED <<clientVars, chan, owner, sock, wire, requests, read, loop, toVisit, visited, err>>

(* submit, first half.  The id is drawn at random, with no look at those   *)
(* in use; what is written to a broken socket is lost.                     *)
Write(c) ==
  LET b == conn[c] IN
  /\ Goto(c, "write", "store")
  /\ \E i \in Ids : id' = [id EXCEPT ![c] = i]
  /\ wire' = IF sock[b] = "open" THEN [wire EXCEPT ![b] = @ \cup {c}] ELSE wire
  /\ UNCHANGED <<conn, result, late, current, chan, owner, over, sock, requests, read, loop,
                 toVisit, visited, err>>

WriteFail(c) ==
  /\ Goto(c, "write", "returned")
  /\ sock[conn[c]] # "open" \/ GivesUp(c)
  /\ Return(c, Failed)
  /\ UNCHANGED <<id, conn, late, current, chan, brokerVars>>

(* A channel is stored in time when the answer is still to be handed over, *)
(* or the loop still to find out that there is none.                       *)
InTime(b, c) == loop[b] = "reading" /\ (c \in wire[b] \/ read[b] = c \/ sock[b] # "open")

(* submit, second half.  It takes the place of another channel stored      *)
(* under the same id.                                                      *)
Store(c) ==
  /\ Goto(c, "store", "wait")
  /\ requests' = [requests EXCEPT ![conn[c]][id[c]] = c]
  /\ late' = IF InTime(conn[c], c) THEN late ELSE late \cup {c}
  /\ UNCHANGED <<id, conn, result, current, chan, owner, over, sock, wire, read, loop,
                 toVisit, visited, err>>

(* WSRequest: cleanup's frames carry the nil error, so they count as       *)
(* success.                                                                *)
Receive(c) ==
  /\ chan[c] # <<>>
  /\ Goto(c, "wait", "returned")
  /\ Return(c, Head(chan[c]))
  /\ chan' = [chan EXCEPT ![c] = Tail(@)]
  /\ UNCHANGED <<id, conn, late, current, brokerVars>>

(* The entry of a call that gives up stays in the map.                     *)
Timeout(c) ==
  /\ Goto(c, "wait", "returned")
  /\ GivesUp(c)
  /\ Return(c, Failed)
  /\ UNCHANGED <<id, conn, late, current, chan, brokerVars>>

Caller(c) ==
  \/ Start(c) \/ Reuse(c) \/ Dial(c) \/ DialFail(c) \/ Write(c) \/ WriteFail(c)
  \/ Store(c) \/ Receive(c) \/ Timeout(c) \/ CtxEnd(c)

-----------------------------------------------------------------------------
(* The goroutine that reads the websocket of broker b.  It offers what it  *)
(* has read on the channel, and goes on when that is taken.                *)
Reads(b) == Up /\ loop[b] # "none" /\ read[b] = None

ReadAnswer(b, c) ==
  /\ Reads(b)
  /\ sock[b] = "open" /\ c \in wire[b]
  /\ wire' = [wire EXCEPT ![b] = @ \ {c}]
  /\ read' = [read EXCEPT ![b] = c]
  /\ UNCHANGED <<clientVars, chan, owner, over, sock, requests, loop, toVisit, visited, err>>

(* A context that ends during Read closes the websocket.  After an error   *)
(* the goroutine reads again.                                              *)
ReadFail(b) ==
  /\ Reads(b)
  /\ sock[b] # "open" \/ CtxDone(b)
  /\ sock' = [sock EXCEPT ![b] = IF @ = "open" THEN "broken" ELSE @]
  /\ wire' = [wire EXCEPT ![b] = {}]
  /\ read' = [read EXCEPT ![b] = Failed]
  /\ UNCHANGED <<clientVars, chan, owner, over, requests, loop, toVisit, visited, err>>

(* It ends only when it finds the context over before a Read.              *)
ReadEnd(b) ==
  /\ Reads(b)
  /\ CtxDone(b)
  /\ read' = [read EXCEPT ![b] = Closed]
  /\ UNCHANGED <<clientVars, chan, owner, over, sock, wire, requests, loop, toVisit, visited, err>>

-----------------------------------------------------------------------------
(* The loop of readContinuously.                                           *)
Forget_Keeps(b, i) == requests
Forget(b, i) == [requests EXCEPT ![b][i] = None]

(* The channel an answer goes to: that stored under its id, if any.        *)
Recipient_AnyConnection(b, i) ==
  LET known == {a \in Brokers : requests[a][i] # None}
  IN  IF known = {} THEN None ELSE requests[CHOOSE a \in known : TRUE][i]

Recipient(b, i) == requests[b][i]

Dispatch(b) ==
  LET c  == read[b]
      to == Recipient(b, id[c])
  IN /\ Up
     /\ loop[b] = "reading" /\ c \in Calls
     /\ read' = [read EXCEPT ![b] = None]
     /\ requests' = Forget(b, id[c])
     /\ chan' = IF to = None THEN chan ELSE [chan EXCEPT ![to] = Append(@, c)]
     /\ UNCHANGED <<clientVars, owner, over, sock, wire, loop, toVisit, visited, err>>

(* The connection is lost, with every request still on it.                 *)
Break(b) ==
  /\ Up
  /\ sock[b] = "open"
  /\ sock' = [sock EXCEPT ![b] = "broken"]
  /\ wire' = [wire EXCEPT ![b] = {}]
  /\ UNCHANGED <<clientVars, chan, owner, over, requests, read, loop, toVisit, visited, err>>

Stored(b) == {i \in Ids : requests[b][i] # None}

(* An error is read, or the broker's context is over: the deferred cleanup *)
(* starts.                                                                 *)
LoopEnd(b) ==
  /\ Up
  /\ loop[b] = "reading"
  /\ \/ read[b] = Failed /\ read' = [read EXCEPT ![b] = None]
     \/ CtxDone(b) /\ read' = read
  /\ loop' = [loop EXCEPT ![b] = "cleanup"]
  /\ toVisit' = [toVisit EXCEPT ![b] = Stored(b)]
  /\ UNCHANGED <<clientVars, chan, owner, over, sock, wire, requests, visited, err>>

(* A closed channel gives the nil frame, and the loop looks into it.       *)
Panic(b) ==
  /\ Up
  /\ loop[b] = "reading" /\ read[b] = Closed
  /\ loop' = [loop EXCEPT ![b] = "panicked"]
  /\ UNCHANGED <<clientVars, chan, owner, over, sock, wire, requests, read, toVisit, visited, err>>

(* sync.Map.Range visits every entry that was there when it began, and any *)
(* subset of those stored meanwhile.                                       *)
Cleanup(b) ==
  \E i \in Stored(b) \ visited[b] :
    /\ Up
    /\ loop[b] = "cleanup"
    /\ chan' = [chan EXCEPT ![requests[b][i]] = Append(@, Blank)]
    /\ visited' = [visited EXCEPT ![b] = @ \cup {i}]
    /\ UNCHANGED <<clientVars, owner, over, sock, wire, requests, read, loop, toVisit, err>>

(* readContinuously has returned: broker.err gets its value.               *)
AssignErr_Early(b) ==
  /\ Up
  /\ loop[b] = "cleanup"
  /\ loop' = [loop EXCEPT ![b] = "ended"]
  /\ err' = [err EXCEPT ![b] = TRUE]
  /\ UNCHANGED <<clientVars, chan, owner, over, sock, wire, requests, read, toVisit, visited>>

AssignErr(b) ==
  /\ Up
  /\ loop[b] = "cleanup"
  /\ toVisit[b] \subseteq visited[b]
  /\ loop' = [loop EXCEPT ![b] = "ended"]
  /\ err' = [err EXCEPT ![b] = TRUE]
  /\ UNCHANGED <<clientVars, chan, owner, over, sock, wire, requests, read, toVisit, visited>>

Broker(b) ==
  \/ (\E c \in Calls : ReadAnswer(b, c)) \/ ReadFail(b) \/ ReadEnd(b)
  \/ Dispatch(b) \/ LoopEnd(b) \/ Panic(b) \/ Cleanup(b) \/ AssignErr(b)

Next ==
  \/ \E c \in Calls : Caller(c)
  \/ \E b \in Brokers : Broker(b) \/ Break(b)

Spec == Init /\ [][Next]_vars

(* Go runs every goroutine that can run, and every deadline passes.        *)
(* Nothing obliges the network to fail or the server to answer.            *)
Fairness ==
  /\ \A c \in Calls :
       /\ WF_vars(Reuse(c) \/ Dial(c) \/ DialFail(c))
       /\ WF_vars(Write(c) \/ WriteFail(c))
       /\ WF_vars(Store(c))
       /\ WF_vars(Receive(c) \/ Timeout(c))
       /\ WF_vars(CtxEnd(c))
  /\ \A b \in Brokers :
       /\ WF_vars(ReadFail(b) \/ ReadEnd(b))
       /\ WF_vars(Dispatch(b) \/ LoopEnd(b) \/ Panic(b))
       /\ WF_vars(Cleanup(b)) /\ WF_vars(AssignErr(b))

FairSpec == Spec /\ Fairness

-----------------------------------------------------------------------------
(* Every variable has its type.                                            *)
TypeOK ==
  /\ call \in [Calls -> {"new", "connect", "write", "store", "wait", "returned"}]
  /\ id \in [Calls -> Ids \cup {None}]
  /\ conn \in [Calls -> Brokers \cup {None}]
  /\ chan \in [Calls -> Seq(Calls \cup {Blank})]
  /\ result \in [Calls -> Calls \cup {Blank, Pending, Failed}]
  /\ late \in SUBSET Calls
  /\ current \in Brokers \cup {None}
  /\ owner \in [Brokers -> Calls \cup {None}]
  /\ over \in SUBSET Calls
  /\ sock \in [Brokers -> {"none", "open", "broken", "closed"}]
  /\ wire \in [Brokers -> SUBSET Calls]
  /\ requests \in [Brokers -> [Ids -> Calls \cup {None}]]
  /\ read \in [Brokers -> Calls \cup {None, Failed, Closed}]
  /\ loop \in [Brokers -> {"none", "reading", "cleanup", "ended", "panicked"}]
  /\ toVisit \in [Brokers -> SUBSET Ids]
  /\ visited \in [Brokers -> SUBSET Ids]
  /\ err \in [Brokers -> BOOLEAN]

(* A channel never holds two frames, whichever calls share an id.  The     *)
(* channels have room for one, so neither the loop nor cleanup, which send *)
(* without a select (:125, :208), is blocked by a caller that has stopped  *)
(* listening.                                                              *)
AtMostOneFrame == \A c \in Calls : Len(chan[c]) <= 1

(* A call is given the answer to another call only if both have drawn the  *)
(* same id and written it to the same connection (:90-92), whatever order  *)
(* the server answers in, however late, and however often the connection   *)
(* was replaced.                                                           *)
Shares(c, d) == conn[c] = conn[d] /\ id[c] = id[d]

AnswersAreOwn == \A c, d \in Calls : result[c] = d => Shares(c, d)

(* A caller waits for nothing only if its channel was stored too late, for *)
(* the answer or for cleanup (:100-112), or if another call has its id.    *)
(* Any other has a frame to read, or its channel is in the map and the     *)
(* loop has to hand over the answer or to visit it.                        *)
WaiterIsTold ==
  \A c \in Calls \ late :
    LET b == conn[c] IN
    call[c] = "wait" /\ chan[c] = <<>> /\ ~(\E d \in Calls \ {c} : Shares(c, d)) =>
      /\ requests[b][id[c]] = c
      /\ \/ InTime(b, c)
         \/ loop[b] = "reading" /\ CtxDone(b)
         \/ loop[b] = "cleanup" /\ id[c] \in toVisit[b] \ visited[b]
         \/ loop[b] = "panicked"

(* A connection is replaced only when its loop has ended and told every    *)
(* call it had to tell, and its websocket is closed then: a reader that    *)
(* goes on reconnecting leaves no loop with calls to inform.  What may     *)
(* stay is the goroutine that read for it, in a send nobody receives.      *)
ReplacedIsFinished ==
  \A b \in Brokers : b # current => loop[b] \in {"none", "ended"} /\ sock[b] # "open"

(* Every call with a deadline returns, through lost connections, cleanups  *)
(* that miss its channel and answers that arrive before it is stored,      *)
(* unless the process panics.                                              *)
CallsReturn ==
  \A c \in Calls \ {Startup} : call[c] = "connect" ~> call[c] = "returned" \/ ~Up

(* A call that returns without an error has been answered by the server.   *)
SuccessIsAnAnswer == \A c \in Calls : result[c] # Blank
=============================================================================
