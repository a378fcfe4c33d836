--------------------------- MODULE WSBrokerProofs ---------------------------
(* Theorems about WSBroker, for every number of calls, of connections and  *)
(* of frame ids.                                                           *)
EXTENDS WSBroker, TLAPS

(* Every variable keeps its type.                                          *)
LEMMA Typing == Spec => []TypeOK
<1> USE ConstantsAssumption DEF ConstantsAssumption, Calls, Brokers, TypeOK
<1>1. Init => TypeOK
  BY DEF Init
<1>2. TypeOK /\ [Next]_vars => TypeOK'
  <2> SUFFICES ASSUME TypeOK, [Next]_vars PROVE TypeOK'
    OBVIOUS
  <2>1. ASSUME NEW c \in Calls, Start(c) PROVE TypeOK'
    BY <2>1 DEF Start, Goto, brokerVars
  <2>2. ASSUME NEW c \in Calls, Reuse(c) PROVE TypeOK'
    BY <2>2 DEF Reuse, NeedsDial, Goto, brokerVars
  <2>3. ASSUME NEW c \in Calls, Dial(c) PROVE TypeOK'
    <3>1. DialContext(c) \in Calls \cup {None}
      BY DEF DialContext, Startup
    <3>2. SocketsAfterClose \in [Brokers -> {"none", "open", "broken", "closed"}]
      BY DEF SocketsAfterClose
    <3>3. call' \in [Calls -> {"new", "connect", "write", "store", "wait", "returned"}]
      BY <2>3 DEF Dial, Goto
    <3>4. PICK b \in Brokers :
            /\ sock' = [SocketsAfterClose EXCEPT ![b] = "open"]
            /\ owner' = [owner EXCEPT ![b] = DialContext(c)]
            /\ loop' = [loop EXCEPT ![b] = "reading"]
            /\ conn' = [conn EXCEPT ![c] = b]
            /\ current' = b
      BY <2>3 DEF Dial
    <3>5. QED
      BY <2>3, <3>1, <3>2, <3>3, <3>4 DEF Dial
  <2>4. ASSUME NEW c \in Calls, DialFail(c) PROVE TypeOK'
    BY <2>4 DEF DialFail, SocketsAfterClose, Goto, Return
  <2>5. ASSUME NEW c \in Calls, Write(c) PROVE TypeOK'
    <3>1. call' \in [Calls -> {"new", "connect", "write", "store", "wait", "returned"}]
      BY <2>5 DEF Write, Goto
    <3>2. id' \in [Calls -> Ids \cup {None}]
      BY <2>5 DEF Write
    <3>3. wire' \in [Brokers -> SUBSET Calls]
      <4>1. wire' = wire \/ wire' = [wire EXCEPT ![conn[c]] = @ \cup {c}]
        BY <2>5 DEF Write
      <4>2. conn[c] \in Brokers => wire[conn[c]] \cup {c} \in SUBSET Calls
        OBVIOUS
      <4>3. CASE wire' = [wire EXCEPT ![conn[c]] = @ \cup {c}]
        <5>1. \A b \in Brokers : wire'[b] \in SUBSET Calls
          BY <4>2, <4>3
        <5>2. QED
          BY <4>3, <5>1
      <4>4. QED
        BY <4>1, <4>3
    <3>4. QED
      BY <2>5, <3>1, <3>2, <3>3 DEF Write
  <2>6. ASSUME NEW c \in Calls, WriteFail(c) PROVE TypeOK'
    BY <2>6 DEF WriteFail, Goto, Return, brokerVars
  <2>7. ASSUME NEW c \in Calls, Store(c) PROVE TypeOK'
    BY <2>7 DEF Store, Goto
  <2>8. ASSUME NEW c \in Calls, Receive(c) PROVE TypeOK'
    <3>1. chan[c] \in Seq(Calls \cup {Blank}) /\ chan[c] # <<>>
      BY <2>8 DEF Receive
    <3>2. Head(chan[c]) \in Calls \cup {Blank} /\ Tail(chan[c]) \in Seq(Calls \cup {Blank})
      BY <3>1
    <3>3. QED
      BY <2>8, <3>2 DEF Receive, Goto, Return, brokerVars
  <2>9. ASSUME NEW c \in Calls, Timeout(c) PROVE TypeOK'
    BY <2>9 DEF Timeout, Goto, Return, brokerVars
  <2>10. ASSUME NEW c \in Calls, CtxEnd(c) PROVE TypeOK'
    BY <2>10 DEF CtxEnd, clientVars
  <2>11. ASSUME NEW b \in Brokers, NEW c \in Calls, ReadAnswer(b, c) PROVE TypeOK'
    BY <2>11 DEF ReadAnswer, clientVars
  <2>12. ASSUME NEW b \in Brokers, ReadFail(b) PROVE TypeOK'
    BY <2>12 DEF ReadFail, clientVars
  <2>13. ASSUME NEW b \in Brokers, ReadEnd(b) PROVE TypeOK'
    BY <2>13 DEF ReadEnd, clientVars
  <2>14. ASSUME NEW b \in Brokers, Dispatch(b) PROVE TypeOK'
    <3> DEFINE c  == read[b]
               to == Recipient(b, id[c])
    <3>1. /\ c \in Calls
          /\ read' = [read EXCEPT ![b] = None]
          /\ requests' = [requests EXCEPT ![b][id[c]] = None]
          /\ chan' = IF to = None THEN chan ELSE [chan EXCEPT ![to] = Append(@, c)]
          /\ UNCHANGED <<clientVars, owner, over, sock, wire, loop, toVisit, visited, err>>
      BY <2>14 DEF Dispatch, Forget
    <3>2. requests' \in [Brokers -> [Ids -> Calls \cup {None}]]
      BY <3>1
    <3>3. chan' \in [Calls -> Seq(Calls \cup {Blank})]
      <4>1. \A d \in Calls : Append(chan[d], c) \in Seq(Calls \cup {Blank})
        BY <3>1
      <4>2. \A d \in Calls : chan'[d] \in {chan[d], Append(chan[d], c)}
        BY <3>1
      <4>3. QED
        BY <3>1, <4>1, <4>2
    <3>4. read' \in [Brokers -> Calls \cup {None, Failed, Closed}]
      BY <3>1
    <3>5. QED
      BY <3>1, <3>2, <3>3, <3>4 DEF clientVars
  <2>15. ASSUME NEW b \in Brokers, LoopEnd(b) PROVE TypeOK'
    BY <2>15 DEF LoopEnd, Stored, clientVars
  <2>16. ASSUME NEW b \in Brokers, Panic(b) PROVE TypeOK'
    BY <2>16 DEF Panic, clientVars
  <2>17. ASSUME NEW b \in Brokers, Cleanup(b) PROVE TypeOK'
    <3>1. PICK i \in Stored(b) :
            /\ chan' = [chan EXCEPT ![requests[b][i]] = Append(@, Blank)]
            /\ visited' = [visited EXCEPT ![b] = @ \cup {i}]
            /\ UNCHANGED <<clientVars, owner, over, sock, wire, requests, read, loop, toVisit, err>>
      BY <2>17 DEF Cleanup
    <3>2. requests[b][i] \in Calls /\ i \in Ids
      <4>1. i \in Ids /\ requests[b][i] # None
        BY DEF Stored
      <4>2. requests[b] \in [Ids -> Calls \cup {None}]
        OBVIOUS
      <4>3. QED
        BY <4>1, <4>2
    <3>3. chan' \in [Calls -> Seq(Calls \cup {Blank})]
      BY <3>1, <3>2
    <3>4. visited' \in [Brokers -> SUBSET Ids]
      BY <3>1, <3>2
    <3>5. QED
      BY <3>1, <3>3, <3>4 DEF clientVars
  <2>18. ASSUME NEW b \in Brokers, AssignErr(b) PROVE TypeOK'
    BY <2>18 DEF AssignErr, clientVars
  <2>19. ASSUME NEW b \in Brokers, Break(b) PROVE TypeOK'
    BY <2>19 DEF Break, clientVars
  <2>20. CASE UNCHANGED vars
    BY <2>20 DEF vars, clientVars, brokerVars
  <2>21. QED
    BY <2>1, <2>2, <2>3, <2>4, <2>5, <2>6, <2>7, <2>8, <2>9, <2>10, <2>11, <2>12,
       <2>13, <2>14, <2>15, <2>16, <2>17, <2>18, <2>19, <2>20 DEF Next, Caller, Broker
<1>3. QED
  BY <1>1, <1>2, PTL DEF Spec

-----------------------------------------------------------------------------
(* A channel in a requests map is that of a call which wrote its frame,    *)
(* under the id it wrote, on that connection: so no channel is in two      *)
(* places, and what cleanup has not visited has not been sent a frame.     *)
Submitted ==
  /\ \A c \in Calls : call[c] \in {"write", "store", "wait"} => conn[c] \in Brokers
  /\ \A c \in Calls : call[c] \in {"store", "wait"} => id[c] \in Ids
  /\ \A b \in Brokers : \A c \in wire[b] \cup ({read[b]} \cap Calls) :
       conn[c] = b /\ id[c] \in Ids /\ call[c] \notin {"new", "connect", "write"}

Registered ==
  \A b \in Brokers, i \in Ids :
    requests[b][i] \in Calls =>
      /\ call[requests[b][i]] \in {"wait", "returned"}
      /\ id[requests[b][i]] = i
      /\ conn[requests[b][i]] = b

Quiet ==
  /\ \A c \in Calls : call[c] \in {"new", "connect", "write", "store"} => chan[c] = <<>>
  /\ \A b \in Brokers, i \in Ids :
       requests[b][i] \in Calls /\ i \notin visited[b] => chan[requests[b][i]] = <<>>

Loops ==
  \A b \in Brokers : /\ sock[b] = "none" => loop[b] = "none"
                     /\ loop[b] \in {"none", "reading"} => visited[b] = {}

OneFrameInv == Submitted /\ Registered /\ Quiet /\ Loops /\ AtMostOneFrame

LEMMA OneFrameInvariant == Spec => []OneFrameInv
<1> USE ConstantsAssumption DEF ConstantsAssumption
<1>1. Init => OneFrameInv
  BY DEF Init, OneFrameInv, Submitted, Registered, Quiet, Loops, AtMostOneFrame
<1>2. TypeOK /\ OneFrameInv /\ [Next]_vars => OneFrameInv'
  <2> SUFFICES ASSUME TypeOK, OneFrameInv, [Next]_vars PROVE OneFrameInv'
    OBVIOUS
  <2> USE DEF TypeOK, OneFrameInv
  <2>1. ASSUME NEW c \in Calls, Start(c) PROVE OneFrameInv'
    <3>1. Submitted'
      BY <2>1 DEF Submitted, Start, Goto, brokerVars
    <3>2. Registered'
      BY <2>1 DEF Registered, Start, Goto, brokerVars
    <3>3. Quiet'
      BY <2>1 DEF Quiet, Start, Goto, brokerVars
    <3>4. Loops'
      BY <2>1 DEF Loops, Start, Goto, brokerVars
    <3>5. AtMostOneFrame'
      BY <2>1 DEF AtMostOneFrame, Start, Goto, brokerVars
    <3>6. QED
      BY <3>1, <3>2, <3>3, <3>4, <3>5
  <2>2. ASSUME NEW c \in Calls, Reuse(c) PROVE OneFrameInv'
    <3>1. Submitted'
      BY <2>2 DEF Submitted, Reuse, NeedsDial, Goto, brokerVars
    <3>2. Registered'
      BY <2>2 DEF Registered, Reuse, NeedsDial, Goto, brokerVars
    <3>3. Quiet'
      BY <2>2 DEF Quiet, Reuse, NeedsDial, Goto, brokerVars
    <3>4. Loops'
      BY <2>2 DEF Loops, Reuse, NeedsDial, Goto, brokerVars
    <3>5. AtMostOneFrame'
      BY <2>2 DEF AtMostOneFrame, Reuse, NeedsDial, Goto, brokerVars
    <3>6. QED
      BY <3>1, <3>2, <3>3, <3>4, <3>5
  <2>3. ASSUME NEW c \in Calls, Dial(c) PROVE OneFrameInv'
    <3>1. Submitted'
      BY <2>3 DEF Submitted, Dial, SocketsAfterClose, Goto
    <3>2. Registered'
      BY <2>3 DEF Registered, Dial, SocketsAfterClose, Goto
    <3>3. Quiet'
      BY <2>3 DEF Quiet, Dial, SocketsAfterClose, Goto
    <3>4. Loops'
      BY <2>3 DEF Loops, Dial, SocketsAfterClose, Goto
    <3>5. AtMostOneFrame'
      BY <2>3 DEF AtMostOneFrame, Dial, SocketsAfterClose, Goto
    <3>6. QED
      BY <3>1, <3>2, <3>3, <3>4, <3>5
  <2>4. ASSUME NEW c \in Calls, DialFail(c) PROVE OneFrameInv'
    <3>1. Submitted'
      BY <2>4 DEF Submitted, DialFail, SocketsAfterClose, Goto, Return
    <3>2. Registered'
      BY <2>4 DEF Registered, DialFail, SocketsAfterClose, Goto, Return
    <3>3. Quiet'
      BY <2>4 DEF Quiet, DialFail, SocketsAfterClose, Goto, Return
    <3>4. Loops'
      BY <2>4 DEF Loops, DialFail, SocketsAfterClose, Goto, Return
    <3>5. AtMostOneFrame'
      BY <2>4 DEF AtMostOneFrame, DialFail, SocketsAfterClose, Goto, Return
    <3>6. QED
      BY <3>1, <3>2, <3>3, <3>4, <3>5
  <2>5. ASSUME NEW c \in Calls, Write(c) PROVE OneFrameInv'
    <3>1. Submitted'
      BY <2>5 DEF Submitted, Write, Goto
    <3>2. Registered'
      <4>1. PICK i \in Ids : id' = [id EXCEPT ![c] = i]
        BY <2>5 DEF Write
      <4>2. /\ call[c] = "write" /\ call' = [call EXCEPT ![c] = "store"]
            /\ requests' = requests /\ conn' = conn
        BY <2>5 DEF Write, Goto
      <4>3. \A d \in Calls : d # c => id'[d] = id[d] /\ call'[d] = call[d]
        BY <4>1, <4>2
      <4>4. ASSUME NEW b \in Brokers, NEW k \in Ids, requests'[b][k] \in Calls
            PROVE /\ call'[requests'[b][k]] \in {"wait", "returned"}
                  /\ id'[requests'[b][k]] = k
                  /\ conn'[requests'[b][k]] = b
        <5> DEFINE d == requests[b][k]
        <5>1. /\ d \in Calls /\ d = requests'[b][k]
              /\ call[d] \in {"wait", "returned"} /\ id[d] = k /\ conn[d] = b
          BY <4>2, <4>4 DEF Registered
        <5>2. d # c
          BY <4>2, <5>1
        <5>3. QED
          BY <4>2, <4>3, <5>1, <5>2
      <4>5. QED
        BY <4>4 DEF Registered
    <3>3. Quiet'
      BY <2>5 DEF Quiet, Write, Goto
    <3>4. Loops'
      BY <2>5 DEF Loops, Write, Goto
    <3>5. AtMostOneFrame'
      BY <2>5 DEF AtMostOneFrame, Write, Goto
    <3>6. QED
      BY <3>1, <3>2, <3>3, <3>4, <3>5
  <2>6. ASSUME NEW c \in Calls, WriteFail(c) PROVE OneFrameInv'
    <3>1. Submitted'
      BY <2>6 DEF Submitted, WriteFail, Goto, Return, brokerVars
    <3>2. Registered'
      BY <2>6 DEF Registered, WriteFail, Goto, Return, brokerVars
    <3>3. Quiet'
      BY <2>6 DEF Quiet, WriteFail, Goto, Return, brokerVars
    <3>4. Loops'
      BY <2>6 DEF Loops, WriteFail, Goto, Return, brokerVars
    <3>5. AtMostOneFrame'
      BY <2>6 DEF AtMostOneFrame, WriteFail, Goto, Return, brokerVars
    <3>6. QED
      BY <3>1, <3>2, <3>3, <3>4, <3>5
  <2>7. ASSUME NEW c \in Calls, Store(c) PROVE OneFrameInv'
    <3>1. Submitted'
      BY <2>7 DEF Submitted, Store, Goto
    <3>2. Registered'
      <4>1. /\ call[c] = "store" /\ call' = [call EXCEPT ![c] = "wait"]
            /\ requests' = [requests EXCEPT ![conn[c]][id[c]] = c]
            /\ id' = id /\ conn' = conn
        BY <2>7 DEF Store, Goto
      <4>2. ASSUME NEW b \in Brokers, NEW i \in Ids, requests'[b][i] \in Calls
            PROVE /\ call'[requests'[b][i]] \in {"wait", "returned"}
                  /\ id'[requests'[b][i]] = i
                  /\ conn'[requests'[b][i]] = b
        <5>1. CASE b = conn[c] /\ i = id[c]
          BY <4>1, <5>1
        <5>2. CASE ~(b = conn[c] /\ i = id[c])
          <6>1. requests'[b][i] = requests[b][i]
            BY <4>1, <5>2
          <6>2. QED
            BY <4>1, <4>2, <6>1 DEF Registered
        <5>3. QED
          BY <5>1, <5>2
      <4>3. QED
        BY <4>2 DEF Registered
    <3>3. Quiet'
      <4>1. /\ call[c] = "store" /\ call' = [call EXCEPT ![c] = "wait"]
            /\ requests' = [requests EXCEPT ![conn[c]][id[c]] = c]
            /\ chan' = chan /\ visited' = visited
        BY <2>7 DEF Store, Goto
      <4>2. chan[c] = <<>>
        BY <4>1 DEF Quiet
      <4>3. \A b \in Brokers, i \in Ids : requests'[b][i] \in {requests[b][i], c}
        BY <4>1
      <4>4. \A d \in Calls : call'[d] \in {"new", "connect", "write", "store"} => chan'[d] = <<>>
        BY <4>1 DEF Quiet
      <4>5. ASSUME NEW b \in Brokers, NEW i \in Ids, requests'[b][i] \in Calls, i \notin visited'[b]
            PROVE chan'[requests'[b][i]] = <<>>
        <5>1. CASE requests'[b][i] = c
          BY <4>1, <4>2, <5>1
        <5>2. CASE requests'[b][i] = requests[b][i]
          BY <4>1, <4>5, <5>2 DEF Quiet
        <5>3. QED
          BY <4>3, <5>1, <5>2
      <4>6. QED
        BY <4>4, <4>5 DEF Quiet
    <3>4. Loops'
      BY <2>7 DEF Loops, Store, Goto
    <3>5. AtMostOneFrame'
      BY <2>7 DEF AtMostOneFrame, Store, Goto
    <3>6. QED
      BY <3>1, <3>2, <3>3, <3>4, <3>5
  <2>8. ASSUME NEW c \in Calls, Receive(c) PROVE OneFrameInv'
    <3>1. Submitted'
      BY <2>8 DEF Submitted, Receive, Goto, Return, brokerVars
    <3>2. Registered'
      BY <2>8 DEF Registered, Receive, Goto, Return, brokerVars
    <3>0. /\ call[c] = "wait" /\ call' = [call EXCEPT ![c] = "returned"]
          /\ chan[c] # <<>> /\ chan' = [chan EXCEPT ![c] = Tail(@)]
          /\ requests' = requests /\ visited' = visited
      BY <2>8 DEF Receive, Goto, brokerVars
    <3>9. chan[c] \in Seq(Calls \cup {Blank}) /\ Len(Tail(chan[c])) = Len(chan[c]) - 1
      BY <3>0
    <3>3. Quiet'
      <4>1. \A d \in Calls : call'[d] \in {"new", "connect", "write", "store"} => chan'[d] = <<>>
        BY <3>0 DEF Quiet
      <4>2. ASSUME NEW b \in Brokers, NEW i \in Ids, requests'[b][i] \in Calls, i \notin visited'[b]
            PROVE chan'[requests'[b][i]] = <<>>
        <5>1. chan[requests[b][i]] = <<>>
          BY <3>0, <4>2 DEF Quiet
        <5>2. requests[b][i] # c
          BY <5>1, <3>0
        <5>3. QED
          BY <3>0, <4>2, <5>1, <5>2
      <4>3. QED
        BY <4>1, <4>2 DEF Quiet
    <3>4. Loops'
      BY <2>8 DEF Loops, Receive, Goto, Return, brokerVars
    <3>5. AtMostOneFrame'
      <4>1. \A d \in Calls : Len(chan[d]) \in Nat /\ Len(chan'[d]) <= Len(chan[d])
        BY <3>0, <3>9
      <4>2. QED
        BY <4>1 DEF AtMostOneFrame
    <3>6. QED
      BY <3>1, <3>2, <3>3, <3>4, <3>5
  <2>9. ASSUME NEW c \in Calls, Timeout(c) PROVE OneFrameInv'
    <3>1. Submitted'
      BY <2>9 DEF Submitted, Timeout, Goto, Return, brokerVars
    <3>2. Registered'
      BY <2>9 DEF Registered, Timeout, Goto, Return, brokerVars
    <3>3. Quiet'
      BY <2>9 DEF Quiet, Timeout, Goto, Return, brokerVars
    <3>4. Loops'
      BY <2>9 DEF Loops, Timeout, Goto, Return, brokerVars
    <3>5. AtMostOneFrame'
      BY <2>9 DEF AtMostOneFrame, Timeout, Goto, Return, brokerVars
    <3>6. QED
      BY <3>1, <3>2, <3>3, <3>4, <3>5
  <2>10. ASSUME NEW c \in Calls, CtxEnd(c) PROVE OneFrameInv'
    <3>1. Submitted'
      BY <2>10 DEF Submitted, CtxEnd, clientVars
    <3>2. Registered'
      <4>1. call' = call /\ id' = id /\ conn' = conn /\ requests' = requests
        BY <2>10 DEF CtxEnd, clientVars
      <4>2. ASSUME NEW b \in Brokers, NEW i \in Ids, requests'[b][i] \in Calls
            PROVE /\ call'[requests'[b][i]] \in {"wait", "returned"}
                  /\ id'[requests'[b][i]] = i
                  /\ conn'[requests'[b][i]] = b
        BY <4>1, <4>2 DEF Registered
      <4>3. QED
        BY <4>2 DEF Registered
    <3>3. Quiet'
      BY <2>10 DEF Quiet, CtxEnd, clientVars
    <3>4. Loops'
      BY <2>10 DEF Loops, CtxEnd, clientVars
    <3>5. AtMostOneFrame'
      BY <2>10 DEF AtMostOneFrame, CtxEnd, clientVars
    <3>6. QED
      BY <3>1, <3>2, <3>3, <3>4, <3>5
  <2>11. ASSUME NEW b \in Brokers, NEW c \in Calls, ReadAnswer(b, c) PROVE OneFrameInv'
    <3>1. Submitted'
      BY <2>11 DEF Submitted, ReadAnswer, Reads, clientVars
    <3>2. Registered'
      BY <2>11 DEF Registered, ReadAnswer, Reads, clientVars
    <3>3. Quiet'
      BY <2>11 DEF Quiet, ReadAnswer, Reads, clientVars
    <3>4. Loops'
      BY <2>11 DEF Loops, ReadAnswer, Reads, clientVars
    <3>5. AtMostOneFrame'
      BY <2>11 DEF AtMostOneFrame, ReadAnswer, Reads, clientVars
    <3>6. QED
      BY <3>1, <3>2, <3>3, <3>4, <3>5
  <2>12. ASSUME NEW b \in Brokers, ReadFail(b) PROVE OneFrameInv'
    <3>1. Submitted'
      BY <2>12 DEF Submitted, ReadFail, Reads, clientVars
    <3>2. Registered'
      BY <2>12 DEF Registered, ReadFail, Reads, clientVars
    <3>3. Quiet'
      BY <2>12 DEF Quiet, ReadFail, Reads, clientVars
    <3>4. Loops'
      BY <2>12 DEF Loops, ReadFail, Reads, clientVars
    <3>5. AtMostOneFrame'
      BY <2>12 DEF AtMostOneFrame, ReadFail, Reads, clientVars
    <3>6. QED
      BY <3>1, <3>2, <3>3, <3>4, <3>5
  <2>13. ASSUME NEW b \in Brokers, ReadEnd(b) PROVE OneFrameInv'
    <3>1. Submitted'
      BY <2>13 DEF Submitted, ReadEnd, Reads, clientVars
    <3>2. Registered'
      BY <2>13 DEF Registered, ReadEnd, Reads, clientVars
    <3>3. Quiet'
      BY <2>13 DEF Quiet, ReadEnd, Reads, clientVars
    <3>4. Loops'
      BY <2>13 DEF Loops, ReadEnd, Reads, clientVars
    <3>5. AtMostOneFrame'
      BY <2>13 DEF AtMostOneFrame, ReadEnd, Reads, clientVars
    <3>6. QED
      BY <3>1, <3>2, <3>3, <3>4, <3>5
  <2>14. ASSUME NEW b \in Brokers, Dispatch(b) PROVE OneFrameInv'
    <3> DEFINE c  == read[b]
               to == requests[b][id[c]]
    <3>0. /\ loop[b] = "reading" /\ c \in Calls
          /\ read' = [read EXCEPT ![b] = None]
          /\ requests' = [requests EXCEPT ![b][id[c]] = None]
          /\ \/ to = None /\ chan' = chan
             \/ to # None /\ chan' = [chan EXCEPT ![to] = Append(@, c)]
          /\ UNCHANGED <<call, id, conn, wire, sock, loop, visited>>
      BY <2>14 DEF Dispatch, Recipient, Forget, clientVars
    <3>7. id[c] \in Ids /\ visited[b] = {}
      BY <3>0 DEF Submitted, Loops
    <3>8. to \in Calls \cup {None} /\ None \notin Calls
      <4>1. requests[b] \in [Ids -> Calls \cup {None}]
        OBVIOUS
      <4>2. QED
        BY <3>7, <4>1
    <3>9. to # None => chan[to] = <<>> /\ call[to] \in {"wait", "returned"} /\ id[to] = id[c] /\ conn[to] = b
      <4>1. to # None => chan[to] = <<>>
        BY <3>7, <3>8 DEF Quiet
      <4>2. to # None => call[to] \in {"wait", "returned"} /\ id[to] = id[c] /\ conn[to] = b
        <5>1. \A i \in Ids : requests[b][i] \in Calls =>
                 /\ call[requests[b][i]] \in {"wait", "returned"}
                 /\ id[requests[b][i]] = i
                 /\ conn[requests[b][i]] = b
          BY Zenon DEF Registered
        <5>2. QED
          BY <3>7, <3>8, <5>1
      <4>3. QED
        BY <4>1, <4>2
    <3>1. Submitted'
      BY <3>0, SMTT(30) DEF Submitted
    <3>2. Registered'
      BY <3>0, <3>7, SMTT(30) DEF Registered
    <3>3. Quiet'
      <4>1. \A d \in Calls : call'[d] \in {"new", "connect", "write", "store"} => chan'[d] = <<>>
        BY <3>0, <3>8, <3>9 DEF Quiet
      <4>2. ASSUME NEW a \in Brokers, NEW i \in Ids, requests'[a][i] \in Calls, i \notin visited'[a]
            PROVE chan'[requests'[a][i]] = <<>>
        <5>1. ~(a = b /\ i = id[c]) /\ requests'[a][i] = requests[a][i]
          BY <3>0, <3>7, <3>8, <4>2, SMTT(30)
        <5>2. chan[requests[a][i]] = <<>> /\ id[requests[a][i]] = i /\ conn[requests[a][i]] = a
          BY <3>0, <4>2, <5>1, SMTT(30) DEF Quiet, Registered
        <5>3. to # None => requests[a][i] # to
          BY <3>9, <5>1, <5>2
        <5>4. QED
          BY <3>0, <4>2, <5>1, <5>2, <5>3, SMTT(30)
      <4>3. QED
        BY <4>1, <4>2 DEF Quiet
    <3>4. Loops'
      BY <3>0 DEF Loops
    <3>5. AtMostOneFrame'
      <4>1. Len(Append(<<>>, c)) <= 1
        OBVIOUS
      <4>2. ASSUME NEW d \in Calls PROVE Len(chan'[d]) <= 1
        <5>1. chan'[d] = chan[d] \/ chan'[d] = Append(<<>>, c)
          BY <3>0, <3>8, <3>9, SMTT(30)
        <5>2. CASE chan'[d] = Append(<<>>, c)
          BY <4>1, <5>2, Zenon
        <5>3. CASE chan'[d] = chan[d]
          BY <5>3, Zenon DEF AtMostOneFrame
        <5>4. QED
          BY <5>1, <5>2, <5>3
      <4>3. QED
        BY <4>2, Zenon DEF AtMostOneFrame
    <3>6. QED
      BY <3>1, <3>2, <3>3, <3>4, <3>5
  <2>15. ASSUME NEW b \in Brokers, LoopEnd(b) PROVE OneFrameInv'
    <3>1. Submitted'
      BY <2>15 DEF Submitted, LoopEnd, Stored, clientVars
    <3>2. Registered'
      BY <2>15 DEF Registered, LoopEnd, Stored, clientVars
    <3>3. Quiet'
      BY <2>15 DEF Quiet, LoopEnd, Stored, clientVars
    <3>4. Loops'
      BY <2>15 DEF Loops, LoopEnd, Stored, clientVars
    <3>5. AtMostOneFrame'
      BY <2>15 DEF AtMostOneFrame, LoopEnd, Stored, clientVars
    <3>6. QED
      BY <3>1, <3>2, <3>3, <3>4, <3>5
  <2>16. ASSUME NEW b \in Brokers, Panic(b) PROVE OneFrameInv'
    <3>1. Submitted'
      BY <2>16 DEF Submitted, Panic, Reads, clientVars
    <3>2. Registered'
      BY <2>16 DEF Registered, Panic, Reads, clientVars
    <3>3. Quiet'
      BY <2>16 DEF Quiet, Panic, Reads, clientVars
    <3>4. Loops'
      BY <2>16 DEF Loops, Panic, Reads, clientVars
    <3>5. AtMostOneFrame'
      BY <2>16 DEF AtMostOneFrame, Panic, Reads, clientVars
    <3>6. QED
      BY <3>1, <3>2, <3>3, <3>4, <3>5
  <2>17. ASSUME NEW b \in Brokers, Cleanup(b) PROVE OneFrameInv'
    <3>1. PICK i \in Stored(b) \ visited[b] :
            /\ loop[b] = "cleanup"
            /\ chan' = [chan EXCEPT ![requests[b][i]] = Append(@, Blank)]
            /\ visited' = [visited EXCEPT ![b] = @ \cup {i}]
            /\ UNCHANGED <<clientVars, owner, over, sock, wire, requests, read, loop, toVisit, err>>
      BY <2>17 DEF Cleanup
    <3> DEFINE to == requests[b][i]
    <3>2. i \in Ids /\ i \notin visited[b] /\ to \in Calls
      BY DEF Stored
    <3>3. chan[to] = <<>> /\ call[to] \in {"wait", "returned"} /\ id[to] = i /\ conn[to] = b
      BY <3>2 DEF Quiet, Registered
    <3>4. Submitted' /\ Registered'
      BY <3>1 DEF Submitted, Registered, clientVars
    <3>5. Loops'
      BY <3>1 DEF Loops
    <3>6. Quiet'
      <4>1. \A d \in Calls : call'[d] \in {"new", "connect", "write", "store"} => chan'[d] = <<>>
        BY <3>1, <3>2, <3>3 DEF Quiet, clientVars
      <4>2. ASSUME NEW a \in Brokers, NEW k \in Ids, requests'[a][k] \in Calls, k \notin visited'[a]
            PROVE chan'[requests'[a][k]] = <<>>
        <5>1. ~(a = b /\ k = i) /\ requests'[a][k] = requests[a][k] /\ k \notin visited[a]
          BY <3>1, <3>2, <4>2
        <5>2. chan[requests[a][k]] = <<>> /\ id[requests[a][k]] = k /\ conn[requests[a][k]] = a
          BY <4>2, <5>1 DEF Quiet, Registered
        <5>3. requests[a][k] # to
          BY <3>3, <5>1, <5>2
        <5>4. QED
          BY <3>1, <4>2, <5>1, <5>2, <5>3
      <4>3. QED
        BY <4>1, <4>2 DEF Quiet
    <3>7. AtMostOneFrame'
      <4>1. Len(Append(<<>>, Blank)) <= 1
        OBVIOUS
      <4>2. ASSUME NEW d \in Calls PROVE Len(chan'[d]) <= 1
        <5>1. chan'[d] = chan[d] \/ chan'[d] = Append(<<>>, Blank)
          BY <3>1, <3>2, <3>3
        <5>2. CASE chan'[d] = Append(<<>>, Blank)
          BY <4>1, <5>2, Zenon
        <5>3. CASE chan'[d] = chan[d]
          BY <5>3, Zenon DEF AtMostOneFrame
        <5>4. QED
          BY <5>1, <5>2, <5>3
      <4>3. QED
        BY <4>2, Zenon DEF AtMostOneFrame
    <3>8. QED
      BY <3>4, <3>5, <3>6, <3>7
  <2>18. ASSUME NEW b \in Brokers, AssignErr(b) PROVE OneFrameInv'
    <3>1. Submitted'
      BY <2>18 DEF Submitted, AssignErr, clientVars
    <3>2. Registered'
      BY <2>18 DEF Registered, AssignErr, clientVars
    <3>3. Quiet'
      BY <2>18 DEF Quiet, AssignErr, clientVars
    <3>4. Loops'
      BY <2>18 DEF Loops, AssignErr, clientVars
    <3>5. AtMostOneFrame'
      BY <2>18 DEF AtMostOneFrame, AssignErr, clientVars
    <3>6. QED
      BY <3>1, <3>2, <3>3, <3>4, <3>5
  <2>19. ASSUME NEW b \in Brokers, Break(b) PROVE OneFrameInv'
    <3>1. Submitted'
      BY <2>19 DEF Submitted, Break, clientVars
    <3>2. Registered'
      BY <2>19 DEF Registered, Break, clientVars
    <3>3. Quiet'
      BY <2>19 DEF Quiet, Break, clientVars
    <3>4. Loops'
      BY <2>19 DEF Loops, Break, clientVars
    <3>5. AtMostOneFrame'
      BY <2>19 DEF AtMostOneFrame, Break, clientVars
    <3>6. QED
      BY <3>1, <3>2, <3>3, <3>4, <3>5
  <2>20. CASE UNCHANGED vars
    <3>1. Submitted'
      BY <2>20 DEF Submitted, vars, clientVars, brokerVars
    <3>2. Registered'
      BY <2>20 DEF Registered, vars, clientVars, brokerVars
    <3>3. Quiet'
      BY <2>20 DEF Quiet, vars, clientVars, brokerVars
    <3>4. Loops'
      BY <2>20 DEF Loops, vars, clientVars, brokerVars
    <3>5. AtMostOneFrame'
      BY <2>20 DEF AtMostOneFrame, vars, clientVars, brokerVars
    <3>6. QED
      BY <3>1, <3>2, <3>3, <3>4, <3>5
  <2>21. QED
    BY <2>1, <2>2, <2>3, <2>4, <2>5, <2>6, <2>7, <2>8, <2>9, <2>10, <2>11, <2>12,
       <2>13, <2>14, <2>15, <2>16, <2>17, <2>18, <2>19, <2>20 DEF Next, Caller, Broker
<1>3. QED
  BY <1>1, <1>2, Typing, PTL DEF Spec

(* A channel of capacity one is enough for every send of the read loop and *)
(* of cleanup: a call that gave up, an answer that comes late and a        *)
(* connection that fails at any point never make two frames of one.        *)
THEOREM OneFrame == Spec => []AtMostOneFrame
BY OneFrameInvariant, PTL DEF OneFrameInv

-----------------------------------------------------------------------------
(* What is handed over under an id was sent by a call that had drawn this  *)
(* id, on this connection; a call has neither before it has asked.         *)
Sent(d) == call[d] \notin {"new", "connect", "write"}

Untouched ==
  \A c \in Calls : /\ call[c] \in {"new", "connect"} => conn[c] = None
                   /\ call[c] \in {"new", "connect", "write"} => id[c] = None

OwnFrames ==
  \A c, d \in Calls : chan[c] # <<>> /\ Head(chan[c]) = d => Shares(c, d) /\ Sent(c) /\ Sent(d)

OwnResults ==
  \A c, d \in Calls : result[c] = d => Shares(c, d) /\ Sent(c) /\ Sent(d)

OwnInv == Untouched /\ OwnFrames /\ OwnResults

(* A call that has sent its request keeps its id and its connection.       *)
LEMMA SentStays ==
  ASSUME TypeOK, [Next]_vars, NEW d \in Calls, Sent(d)
  PROVE  Sent(d)' /\ conn'[d] = conn[d] /\ id'[d] = id[d]
<1> USE DEF TypeOK, Sent
<1>1. ASSUME NEW c \in Calls, Caller(c) PROVE Sent(d)' /\ conn'[d] = conn[d] /\ id'[d] = id[d]
  <2>1. CASE Start(c) \/ Reuse(c) \/ DialFail(c) \/ WriteFail(c) \/ Receive(c) \/ Timeout(c)
    BY <2>1 DEF Start, Reuse, DialFail, WriteFail, Receive, Timeout, Goto, brokerVars
  <2>2. CASE Dial(c)
    BY <2>2 DEF Dial, Goto
  <2>3. CASE Write(c)
    BY <2>3 DEF Write, Goto
  <2>4. CASE Store(c) \/ CtxEnd(c)
    BY <2>4 DEF Store, CtxEnd, Goto, clientVars
  <2>5. QED
    BY <1>1, <2>1, <2>2, <2>3, <2>4 DEF Caller
<1>2. ASSUME NEW b \in Brokers, Broker(b) \/ Break(b) PROVE UNCHANGED clientVars
  BY <1>2 DEF Broker, ReadAnswer, ReadFail, ReadEnd, Dispatch, LoopEnd, Panic, Cleanup,
              AssignErr, Break
<1>3. QED
  BY <1>1, <1>2 DEF Next, vars, clientVars

LEMMA OwnInvariant == Spec => []OwnInv
<1> USE ConstantsAssumption DEF ConstantsAssumption
<1>1. Init => OwnInv
  BY DEF Init, OwnInv, Untouched, OwnFrames, OwnResults
<1>2. TypeOK /\ OneFrameInv /\ OwnInv /\ [Next]_vars => OwnInv'
  <2> SUFFICES ASSUME TypeOK, OneFrameInv, OwnInv, [Next]_vars PROVE OwnInv'
    OBVIOUS
  <2>1. \A d \in Calls : Sent(d) => Sent(d)' /\ conn'[d] = conn[d] /\ id'[d] = id[d]
    BY SentStays
  <2>2. Untouched'
    <3> USE DEF OwnInv, Untouched
    <3>1. ASSUME NEW c \in Calls, Caller(c) PROVE Untouched'
      <4>1. CASE Start(c) \/ Reuse(c) \/ DialFail(c) \/ WriteFail(c) \/ Receive(c) \/ Timeout(c)
        BY <4>1 DEF TypeOK, Start, Reuse, DialFail, WriteFail, Receive, Timeout, Goto
      <4>2. CASE Dial(c)
        BY <4>2 DEF TypeOK, Dial, Goto
      <4>3. CASE Write(c)
        BY <4>3 DEF TypeOK, Write, Goto
      <4>4. CASE Store(c) \/ CtxEnd(c)
        BY <4>4 DEF TypeOK, Store, CtxEnd, Goto, clientVars
      <4>5. QED
        BY <3>1, <4>1, <4>2, <4>3, <4>4 DEF Caller
    <3>2. ASSUME NEW b \in Brokers, Broker(b) \/ Break(b) PROVE UNCHANGED clientVars
      BY <3>2 DEF Broker, ReadAnswer, ReadFail, ReadEnd, Dispatch, LoopEnd, Panic, Cleanup,
                  AssignErr, Break
    <3>3. QED
      BY <3>1, <3>2 DEF Next, vars, clientVars
  <2>3. ASSUME NEW c \in Calls, NEW d \in Calls, Shares(c, d), Sent(c), Sent(d)
        PROVE  Shares(c, d)' /\ Sent(c)' /\ Sent(d)'
    BY <2>1, <2>3 DEF Shares
  <2>4. OwnFrames'
    <3>1. ASSUME chan' = chan PROVE OwnFrames'
      BY <2>3, <3>1 DEF OwnInv, OwnFrames
    <3>2. ASSUME NEW k \in Calls, Receive(k) PROVE OwnFrames'
      <4>1. chan' = [chan EXCEPT ![k] = Tail(@)] /\ chan[k] # <<>>
        BY <3>2 DEF Receive
      <4>2. chan[k] \in Seq(Calls \cup {Blank}) /\ Len(chan[k]) <= 1
        BY DEF TypeOK, OneFrameInv, AtMostOneFrame
      <4>3. Tail(chan[k]) = <<>>
        BY <4>1, <4>2
      <4>4. \A c \in Calls : chan'[c] # <<>> => chan'[c] = chan[c]
        BY <4>1, <4>3 DEF TypeOK
      <4>5. QED
        BY <2>3, <4>4 DEF OwnInv, OwnFrames
    <3>3. ASSUME NEW b \in Brokers, Dispatch(b) PROVE OwnFrames'
      <4> DEFINE k  == read[b]
                 to == requests[b][id[k]]
      <4>1. /\ loop[b] = "reading" /\ k \in Calls
            /\ chan' = IF to = None THEN chan ELSE [chan EXCEPT ![to] = Append(@, k)]
        BY <3>3 DEF Dispatch, Recipient
      <4>2. id[k] \in Ids /\ conn[k] = b /\ Sent(k) /\ visited[b] = {}
        BY <4>1 DEF OneFrameInv, Submitted, Loops, Sent
      <4>3. CASE to = None
        BY <3>1, <4>1, <4>3
      <4>4. CASE to # None
        <5>1. to \in Calls
          <6>1. requests[b] \in [Ids -> Calls \cup {None}]
            BY DEF TypeOK
          <6>2. QED
            BY <4>2, <4>4, <6>1
        <5>2. chan[to] = <<>>
          BY <4>2, <5>1 DEF OneFrameInv, Quiet
        <5>3. call[to] \in {"wait", "returned"} /\ id[to] = id[k] /\ conn[to] = b
          <6>1. \A i \in Ids : requests[b][i] \in Calls =>
                   /\ call[requests[b][i]] \in {"wait", "returned"}
                   /\ id[requests[b][i]] = i
                   /\ conn[requests[b][i]] = b
            BY Zenon DEF OneFrameInv, Registered
          <6>2. QED
            BY <4>2, <5>1, <6>1
        <5>4. Shares(to, k) /\ Sent(to)
          BY <4>2, <5>3 DEF Shares, Sent
        <5>5. \A c \in Calls : chan'[c] = chan[c] \/ (c = to /\ chan'[c] = <<k>>)
          BY <4>1, <4>4, <5>1, <5>2 DEF TypeOK
        <5>6. Head(<<k>>) = k
          OBVIOUS
        <5>7. ASSUME NEW c \in Calls, NEW d \in Calls, chan'[c] # <<>>, Head(chan'[c]) = d
              PROVE  Shares(c, d) /\ Sent(c) /\ Sent(d)
          <6>1. CASE chan'[c] = chan[c]
            BY <5>7, <6>1 DEF OwnInv, OwnFrames
          <6>2. CASE c = to /\ chan'[c] = <<k>>
            BY <4>2, <5>4, <5>6, <5>7, <6>2
          <6>3. QED
            BY <5>5, <6>1, <6>2
        <5>8. QED
          BY <2>3, <5>7 DEF OwnFrames
      <4>5. QED
        BY <4>3, <4>4
    <3>4. ASSUME NEW b \in Brokers, Cleanup(b) PROVE OwnFrames'
      <4>1. PICK i \in Stored(b) \ visited[b] : chan' = [chan EXCEPT ![requests[b][i]] = Append(@, Blank)]
        BY <3>4 DEF Cleanup
      <4>2. i \in Ids /\ i \notin visited[b] /\ requests[b][i] \in Calls
        BY DEF TypeOK, Stored
      <4>3. chan[requests[b][i]] = <<>>
        BY <4>2 DEF OneFrameInv, Quiet
      <4>4. \A c \in Calls : chan'[c] = chan[c] \/ chan'[c] = <<Blank>>
        BY <4>1, <4>2, <4>3 DEF TypeOK
      <4>5. Head(<<Blank>>) = Blank /\ Blank \notin Calls
        OBVIOUS
      <4>6. ASSUME NEW c \in Calls, NEW d \in Calls, chan'[c] # <<>>, Head(chan'[c]) = d
            PROVE  Shares(c, d) /\ Sent(c) /\ Sent(d)
        <5>1. chan'[c] = chan[c]
          BY <4>4, <4>5, <4>6
        <5>2. QED
          BY <4>6, <5>1 DEF OwnInv, OwnFrames
      <4>7. QED
        BY <2>3, <4>6 DEF OwnFrames
    <3>5. ASSUME NEW c \in Calls, Caller(c) PROVE OwnFrames'
      <4>1. CASE ~Receive(c)
        BY <3>1, <3>5, <4>1 DEF Caller, Start, Reuse, Dial, DialFail, Write, WriteFail, Store,
                                Timeout, CtxEnd
      <4>2. QED
        BY <3>2, <4>1
    <3>6. ASSUME NEW b \in Brokers, Broker(b) \/ Break(b) PROVE OwnFrames'
      <4>1. CASE ~Dispatch(b) /\ ~Cleanup(b)
        BY <3>1, <3>6, <4>1 DEF Broker, ReadAnswer, ReadFail, ReadEnd, LoopEnd, Panic, AssignErr,
                                Break
      <4>2. QED
        BY <3>3, <3>4, <4>1
    <3>7. QED
      BY <3>1, <3>5, <3>6 DEF Next, vars
  <2>5. OwnResults'
    <3>1. ASSUME result' = result PROVE OwnResults'
      BY <2>3, <3>1 DEF OwnInv, OwnResults
    <3>2. ASSUME NEW k \in Calls, Return(k, Failed) PROVE OwnResults'
      <4>1. \A c \in Calls : result'[c] = result[c] \/ result'[c] = Failed
        BY <3>2 DEF TypeOK, Return
      <4>2. QED
        BY <2>3, <4>1 DEF OwnInv, OwnResults
    <3>3. ASSUME NEW k \in Calls, Receive(k) PROVE OwnResults'
      <4>1. \A c \in Calls : result'[c] = result[c] \/ (c = k /\ result'[c] = Head(chan[c]))
        BY <3>3 DEF TypeOK, Receive, Return
      <4>2. chan[k] # <<>>
        BY <3>3 DEF Receive
      <4>3. ASSUME NEW c \in Calls, NEW d \in Calls, result'[c] = d
            PROVE  Shares(c, d) /\ Sent(c) /\ Sent(d)
        BY <4>1, <4>2, <4>3 DEF OwnInv, OwnFrames, OwnResults
      <4>4. QED
        BY <2>3, <4>3 DEF OwnResults
    <3>4. ASSUME NEW c \in Calls, Caller(c) PROVE OwnResults'
      <4>1. CASE Start(c) \/ Reuse(c) \/ Dial(c) \/ Write(c) \/ Store(c) \/ CtxEnd(c)
        BY <3>1, <4>1 DEF Start, Reuse, Dial, Write, Store, CtxEnd, clientVars
      <4>2. CASE DialFail(c) \/ WriteFail(c) \/ Timeout(c)
        BY <3>2, <4>2 DEF DialFail, WriteFail, Timeout
      <4>3. QED
        BY <3>3, <3>4, <4>1, <4>2 DEF Caller
    <3>5. ASSUME NEW b \in Brokers, Broker(b) \/ Break(b) PROVE OwnResults'
      BY <3>1, <3>5 DEF Broker, ReadAnswer, ReadFail, ReadEnd, Dispatch, LoopEnd, Panic, Cleanup,
                        AssignErr, Break, clientVars
    <3>6. QED
      BY <3>1, <3>4, <3>5 DEF Next, vars, clientVars
  <2>6. QED
    BY <2>2, <2>4, <2>5 DEF OwnInv
<1>3. QED
  BY <1>1, <1>2, Typing, OneFrameInvariant, PTL DEF Spec

(* However late and in whatever order the server answers, and whatever     *)
(* became of the caller meanwhile, WSRequest returns the answer to a       *)
(* request written under its own id to its own connection, or no answer.   *)
THEOREM OwnAnswers == Spec => []AnswersAreOwn
<1>1. OwnInv => AnswersAreOwn
  BY DEF OwnInv, OwnResults, AnswersAreOwn
<1>2. QED
  BY <1>1, OwnInvariant, PTL

-----------------------------------------------------------------------------
(* What WaiterIsTold promises to a call that waits in vain so far.         *)
Alone(w) == ~(\E d \in Calls \ {w} : Shares(w, d))

Told(w) ==
  LET b == conn[w] IN
  /\ requests[b][id[w]] = w
  /\ \/ InTime(b, w)
     \/ loop[b] = "reading" /\ CtxDone(b)
     \/ loop[b] = "cleanup" /\ id[w] \in toVisit[b] \ visited[b]
     \/ loop[b] = "panicked"

LEMMA ToldDefined ==
  WaiterIsTold <=>
    \A w \in Calls \ late : call[w] = "wait" /\ chan[w] = <<>> /\ Alone(w) => Told(w)
BY DEF WaiterIsTold, Alone, Told

LEMMA AppendNotEmpty ==
  ASSUME NEW S, NEW s \in Seq(S), NEW e \in S
  PROVE  Append(s, e) # <<>>
<1>1. Len(Append(s, e)) = Len(s) + 1 /\ Len(s) \in Nat
  OBVIOUS
<1>2. Len(Append(s, e)) # 0 /\ Len(<<>>) = 0
  BY <1>1
<1>3. QED
  BY <1>2, Zenon

(* Who shares an id with a call that waits goes on doing so: nobody who    *)
(* has not sent yet has an id, and those who have sent keep theirs.        *)
LEMMA AloneBefore ==
  ASSUME TypeOK, OneFrameInv, OwnInv, [Next]_vars, NEW w \in Calls, call[w] = "wait", Alone(w)'
  PROVE  Alone(w)
<1> SUFFICES ASSUME NEW d \in Calls \ {w}, Shares(w, d) PROVE FALSE
  BY DEF Alone
<1>1. id[w] \in Ids /\ None \notin Ids
  BY ConstantsAssumption DEF ConstantsAssumption, OneFrameInv, Submitted
<1>2. Sent(w) /\ Sent(d)
  BY <1>1 DEF Shares, OwnInv, Untouched, Sent
<1>3. Shares(w, d)'
  BY <1>2, SentStays DEF Shares
<1>4. QED
  BY <1>3 DEF Alone

(* No step takes the entry of a call that waits out of the map but to send *)
(* it a frame, nor the answer or the visit that is due to it.              *)
LEMMA WaiterStep == TypeOK /\ OneFrameInv /\ OwnInv /\ WaiterIsTold /\ [Next]_vars => WaiterIsTold'
<1> USE ConstantsAssumption DEF ConstantsAssumption
<1> SUFFICES ASSUME TypeOK, OneFrameInv, OwnInv, WaiterIsTold, [Next]_vars,
                    NEW w \in Calls, w \notin late', call'[w] = "wait", chan'[w] = <<>>, Alone(w)'
             PROVE  Told(w)'
  BY DEF WaiterIsTold, Alone, Told
<1> DEFINE b == conn[w]
           i == id[w]
<1>1. ASSUME NEW c \in Calls, Store(c), c = w PROVE Told(w)'
  <2>1. /\ requests' = [requests EXCEPT ![b][i] = w]
        /\ late' = IF InTime(b, w) THEN late ELSE late \cup {w}
        /\ UNCHANGED <<conn, id, loop, wire, read, sock>>
        /\ call[w] = "store"
    BY <1>1 DEF Store, Goto
  <2>2. InTime(b, w) /\ InTime(b, w)'
    BY <2>1 DEF InTime
  <2>3. b \in Brokers /\ i \in Ids
    BY <2>1 DEF OneFrameInv, Submitted
  <2>4. requests'[b][i] = w
    BY <2>1, <2>3 DEF TypeOK
  <2>5. QED
    BY <2>1, <2>2, <2>4 DEF Told, InTime
<1>2. ASSUME call[w] = "wait" PROVE /\ b \in Brokers /\ i \in Ids /\ Sent(w)
                                    /\ conn'[w] = b /\ id'[w] = i
                                    /\ chan[w] = <<>> /\ w \notin late => Told(w)
  <2>1. b \in Brokers /\ i \in Ids /\ Sent(w)
    BY <1>2 DEF OneFrameInv, Submitted, Sent
  <2>2. conn'[w] = b /\ id'[w] = i
    BY <2>1, SentStays
  <2>3. Alone(w)
    BY <1>2, AloneBefore
  <2>4. QED
    BY <1>2, <2>1, <2>2, <2>3, ToldDefined
<1>3. ASSUME call[w] = "wait", late' = late, chan' = chan, requests' = requests,
             UNCHANGED <<loop, wire, read, toVisit, visited>>,
             CtxDone(b) => CtxDone(b)', sock[b] # "open" => sock'[b] # "open"
      PROVE  Told(w)'
  BY <1>2, <1>3 DEF Told, InTime
<1>4. ASSUME NEW c \in Calls, Caller(c) PROVE Told(w)'
  <2>1. CASE Start(c) \/ Reuse(c) \/ Write(c) \/ WriteFail(c) \/ Timeout(c) \/ Receive(c)
    <3>1. w # c /\ call[w] = "wait"
      BY <2>1 DEF TypeOK, Start, Reuse, Write, WriteFail, Timeout, Receive, Goto
    <3>2. /\ UNCHANGED <<late, requests, loop, read, toVisit, visited, owner, over, sock>>
          /\ chan'[w] = chan[w]
          /\ \A a \in Brokers : wire'[a] = wire[a] \/ wire'[a] = wire[a] \cup {c}
      BY <2>1, <3>1 DEF TypeOK, Start, Reuse, Write, WriteFail, Timeout, Receive, brokerVars
    <3>3. Told(w)
      BY <1>2, <3>1, <3>2
    <3>4. QED
      BY <1>2, <3>1, <3>2, <3>3 DEF Told, InTime, CtxDone
  <2>2. CASE Dial(c)
    <3>1. w # c /\ call[w] = "wait"
      BY <2>2 DEF TypeOK, Dial, Goto
    <3>2. PICK n \in Brokers :
            /\ sock[n] = "none"
            /\ sock' = [SocketsAfterClose EXCEPT ![n] = "open"]
            /\ owner' = [owner EXCEPT ![n] = DialContext(c)]
            /\ loop' = [loop EXCEPT ![n] = "reading"]
      BY <2>2 DEF Dial
    <3>3. UNCHANGED <<late, chan, over, wire, requests, read, toVisit, visited>>
      BY <2>2 DEF Dial
    <3>4. Told(w)
      BY <1>2, <3>1, <3>3
    <3>5. b # n
      <4>1. loop[n] = "none"
        BY <3>2 DEF OneFrameInv, Loops
      <4>2. loop[b] # "none"
        BY <3>4 DEF Told, InTime
      <4>3. QED
        BY <4>1, <4>2
    <3>6. /\ loop'[b] = loop[b] /\ owner'[b] = owner[b]
          /\ sock[b] # "open" => sock'[b] # "open"
      BY <1>2, <3>1, <3>2, <3>5 DEF TypeOK, SocketsAfterClose
    <3>7. QED
      BY <1>2, <3>1, <3>3, <3>4, <3>6 DEF Told, InTime, CtxDone
  <2>3. CASE DialFail(c)
    <3>1. w # c /\ call[w] = "wait"
      BY <2>3 DEF TypeOK, DialFail, Goto
    <3>2. sock[b] # "open" => sock'[b] # "open"
      BY <1>2, <2>3, <3>1 DEF TypeOK, DialFail, SocketsAfterClose
    <3>3. QED
      BY <1>3, <2>3, <3>1, <3>2 DEF DialFail, CtxDone
  <2>4. CASE CtxEnd(c)
    BY <1>3, <2>4 DEF CtxEnd, CtxDone, clientVars
  <2>5. CASE Store(c) /\ c # w
    <3>1. /\ requests' = [requests EXCEPT ![conn[c]][id[c]] = c]
          /\ UNCHANGED <<conn, id, chan, loop, wire, read, sock, owner, over, toVisit, visited>>
          /\ call[w] = "wait" /\ call[c] = "store" /\ w \notin late
      BY <2>5 DEF TypeOK, Store, Goto
    <3>2. ~Shares(w, c)
      BY <1>2, <2>5, <3>1, AloneBefore DEF Alone
    <3>3. conn[c] \in Brokers /\ id[c] \in Ids
      BY <3>1 DEF OneFrameInv, Submitted
    <3>4. requests'[b][i] = requests[b][i]
      BY <1>2, <3>1, <3>2, <3>3 DEF TypeOK, Shares
    <3>5. Told(w)
      BY <1>2, <3>1
    <3>6. QED
      BY <3>1, <3>4, <3>5 DEF Told, InTime, CtxDone
  <2>6. QED
    BY <1>1, <1>4, <2>1, <2>2, <2>3, <2>4, <2>5 DEF Caller
<1>5. ASSUME NEW a \in Brokers, Broker(a) \/ Break(a) PROVE Told(w)'
  <2>1. call[w] = "wait" /\ w \notin late /\ UNCHANGED <<conn, id>>
    BY <1>5 DEF Broker, ReadAnswer, ReadFail, ReadEnd, Dispatch, LoopEnd, Panic, Cleanup,
                AssignErr, Break, clientVars
  <2>2. b \in Brokers /\ i \in Ids /\ (chan[w] = <<>> => Told(w))
    BY <1>2, <2>1
  <2>3. CASE \E c \in Calls : ReadAnswer(a, c)
    <3>1. PICK c \in Calls : ReadAnswer(a, c)
      BY <2>3
    <3>2. /\ wire' = [wire EXCEPT ![a] = @ \ {c}] /\ read' = [read EXCEPT ![a] = c]
          /\ read[a] = None
          /\ UNCHANGED <<chan, requests, loop, sock, owner, over, toVisit, visited>>
      BY <3>1 DEF ReadAnswer, Reads
    <3>3. InTime(b, w) => InTime(b, w)'
      BY <2>1, <2>2, <3>2 DEF TypeOK, InTime
    <3>4. QED
      BY <2>1, <2>2, <3>2, <3>3 DEF Told, CtxDone
  <2>4. CASE ReadFail(a)
    <3>1. /\ sock' = [sock EXCEPT ![a] = IF @ = "open" THEN "broken" ELSE @]
          /\ wire' = [wire EXCEPT ![a] = {}] /\ read' = [read EXCEPT ![a] = Failed]
          /\ UNCHANGED <<chan, requests, loop, owner, over, toVisit, visited>>
      BY <2>4 DEF ReadFail
    <3>2. InTime(b, w) => InTime(b, w)'
      BY <2>1, <2>2, <3>1 DEF TypeOK, InTime
    <3>3. QED
      BY <2>1, <2>2, <3>1, <3>2 DEF Told, CtxDone
  <2>5. CASE ReadEnd(a)
    <3>1. /\ CtxDone(a) /\ read' = [read EXCEPT ![a] = Closed]
          /\ UNCHANGED <<chan, requests, loop, wire, sock, owner, over, toVisit, visited>>
      BY <2>5 DEF ReadEnd
    <3>2. QED
      BY <2>1, <2>2, <3>1 DEF TypeOK, Told, InTime, CtxDone
  <2>6. CASE Dispatch(a)
    <3> DEFINE c  == read[a]
               to == requests[a][id[c]]
    <3>1. /\ loop[a] = "reading" /\ c \in Calls
          /\ read' = [read EXCEPT ![a] = None]
          /\ requests' = [requests EXCEPT ![a][id[c]] = None]
          /\ chan' = IF to = None THEN chan ELSE [chan EXCEPT ![to] = Append(@, c)]
          /\ UNCHANGED <<loop, wire, sock, owner, over, toVisit, visited>>
      BY <2>6 DEF Dispatch, Recipient, Forget
    <3>2. conn[c] = a /\ id[c] \in Ids
      BY <3>1 DEF OneFrameInv, Submitted
    <3>3. Append(chan[w], c) # <<>>
      <4>1. chan[w] \in Seq(Calls \cup {Blank})
        BY DEF TypeOK
      <4>2. QED
        BY <3>1, <4>1, AppendNotEmpty
    <3>4. to # w /\ chan[w] = <<>>
      BY <3>1, <3>3 DEF TypeOK
    <3>5. Told(w)
      BY <2>2, <3>4
    <3>6. ~(b = a /\ i = id[c])
      BY <3>4, <3>5 DEF Told
    <3>7. c # w \/ b # a
      BY <3>6
    <3>8. requests'[b][i] = requests[b][i]
      BY <2>2, <3>1, <3>2, <3>6 DEF TypeOK
    <3>9. InTime(b, w) => InTime(b, w)'
      BY <2>1, <2>2, <3>1, <3>7 DEF TypeOK, InTime
    <3>10. QED
      BY <2>1, <3>1, <3>5, <3>8, <3>9 DEF Told, CtxDone
  <2>7. CASE LoopEnd(a)
    <3>1. /\ loop[a] = "reading" /\ loop' = [loop EXCEPT ![a] = "cleanup"]
          /\ read'[b] = read[b] \/ b = a
          /\ toVisit' = [toVisit EXCEPT ![a] = Stored(a)]
          /\ UNCHANGED <<chan, requests, wire, sock, owner, over, visited>>
      BY <2>2, <2>7 DEF TypeOK, LoopEnd
    <3>2. Told(w)
      BY <2>2, <3>1
    <3>3. visited[a] = {}
      BY <3>1 DEF OneFrameInv, Loops
    <3>4. CASE b = a
      <4>1. i \in Stored(a)
        BY <2>2, <3>2, <3>4 DEF Told, Stored
      <4>2. loop'[b] = "cleanup" /\ i \in toVisit'[b] \ visited'[b]
        BY <2>2, <3>1, <3>3, <3>4, <4>1 DEF TypeOK
      <4>3. QED
        BY <2>1, <3>1, <3>2, <4>2 DEF Told
    <3>5. CASE b # a
      <4>1. loop'[b] = loop[b] /\ toVisit'[b] = toVisit[b] /\ read'[b] = read[b]
        BY <2>2, <3>1, <3>5 DEF TypeOK
      <4>2. QED
        BY <2>1, <3>1, <3>2, <4>1 DEF Told, InTime, CtxDone
    <3>6. QED
      BY <3>4, <3>5
  <2>8. CASE Panic(a)
    <3>1. /\ loop' = [loop EXCEPT ![a] = "panicked"]
          /\ UNCHANGED <<chan, requests, read, wire, sock, owner, over, toVisit, visited>>
      BY <2>8 DEF Panic
    <3>2. loop'[b] = loop[b] \/ loop'[b] = "panicked"
      BY <2>2, <3>1 DEF TypeOK
    <3>3. QED
      BY <2>1, <2>2, <3>1, <3>2 DEF Told, InTime, CtxDone
  <2>9. CASE Cleanup(a)
    <3>1. PICK k \in Stored(a) :
            /\ loop[a] = "cleanup"
            /\ chan' = [chan EXCEPT ![requests[a][k]] = Append(@, Blank)]
            /\ visited' = [visited EXCEPT ![a] = @ \cup {k}]
            /\ UNCHANGED <<requests, loop, read, wire, sock, owner, over, toVisit>>
      BY <2>9 DEF Cleanup
    <3>2. Append(chan[w], Blank) # <<>>
      <4>1. chan[w] \in Seq(Calls \cup {Blank})
        BY DEF TypeOK
      <4>2. QED
        BY <4>1, AppendNotEmpty
    <3>3. requests[a][k] # w /\ chan[w] = <<>>
      BY <3>1, <3>2 DEF TypeOK
    <3>4. Told(w)
      BY <2>2, <3>3
    <3>5. ~(b = a /\ i = k)
      BY <3>3, <3>4 DEF Told
    <3>6. i \notin visited[b] => i \notin visited'[b]
      BY <2>2, <3>1, <3>5 DEF TypeOK
    <3>7. QED
      BY <2>1, <2>2, <3>1, <3>4, <3>6 DEF Told, InTime, CtxDone
  <2>10. CASE AssignErr(a)
    <3>1. /\ loop[a] = "cleanup" /\ toVisit[a] \subseteq visited[a]
          /\ loop' = [loop EXCEPT ![a] = "ended"]
          /\ UNCHANGED <<chan, requests, read, wire, sock, owner, over, toVisit, visited>>
      BY <2>10 DEF AssignErr
    <3>2. Told(w)
      BY <2>2, <3>1
    <3>3. b # a
      BY <3>1, <3>2 DEF Told, InTime
    <3>4. loop'[b] = loop[b]
      BY <2>2, <3>1, <3>3 DEF TypeOK
    <3>5. QED
      BY <2>1, <3>1, <3>2, <3>4 DEF Told, InTime, CtxDone
  <2>11. CASE Break(a)
    <3>1. /\ sock' = [sock EXCEPT ![a] = "broken"] /\ wire' = [wire EXCEPT ![a] = {}]
          /\ UNCHANGED <<chan, requests, read, loop, owner, over, toVisit, visited>>
      BY <2>11 DEF Break
    <3>2. InTime(b, w) => InTime(b, w)'
      BY <2>1, <2>2, <3>1 DEF TypeOK, InTime
    <3>3. QED
      BY <2>1, <2>2, <3>1, <3>2 DEF Told, CtxDone
  <2>12. QED
    BY <1>5, <2>3, <2>4, <2>5, <2>6, <2>7, <2>8, <2>9, <2>10, <2>11 DEF Broker
<1>6. CASE UNCHANGED vars
  BY <1>3, <1>6 DEF vars, clientVars, brokerVars, CtxDone
<1>7. QED
  BY <1>4, <1>5, <1>6 DEF Next

(* A caller whose channel was stored in time, under an id of its own, is   *)
(* never forgotten: it has a frame, or the loop has still to give it one.  *)
THEOREM WaitersAreTold == Spec => []WaiterIsTold
<1>1. Init => WaiterIsTold
  BY DEF Init, WaiterIsTold
<1>2. QED
  BY <1>1, WaiterStep, Typing, OneFrameInvariant, OwnInvariant, PTL DEF Spec

-----------------------------------------------------------------------------
(* broker.err is assigned when the loop has ended, and only then is the    *)
(* connection given up for a new one.                                      *)
ErrAtEnd == \A b \in Brokers : err[b] => loop[b] = "ended"

ReplaceInv == ErrAtEnd /\ ReplacedIsFinished

LEMMA ReplaceStep == TypeOK /\ OneFrameInv /\ ReplaceInv /\ [Next]_vars => ReplaceInv'
<1> USE ConstantsAssumption DEF ConstantsAssumption
<1> SUFFICES ASSUME TypeOK, OneFrameInv, ReplaceInv, [Next]_vars PROVE ErrAtEnd' /\ ReplacedIsFinished'
  BY DEF ReplaceInv
<1> USE DEF ReplaceInv, ErrAtEnd, ReplacedIsFinished
<1>1. ASSUME UNCHANGED <<current, sock, loop, err>> PROVE ErrAtEnd' /\ ReplacedIsFinished'
  BY <1>1
<1>2. ASSUME NEW c \in Calls, Caller(c) PROVE ErrAtEnd' /\ ReplacedIsFinished'
  <2>1. CASE Start(c) \/ Reuse(c) \/ Write(c) \/ WriteFail(c) \/ Store(c) \/ Receive(c)
             \/ Timeout(c) \/ CtxEnd(c)
    BY <1>1, <2>1 DEF Start, Reuse, Write, WriteFail, Store, Receive, Timeout, CtxEnd,
                      clientVars, brokerVars
  <2>2. CASE Dial(c)
    <3>1. PICK n \in Brokers :
            /\ sock[n] = "none"
            /\ sock' = [SocketsAfterClose EXCEPT ![n] = "open"]
            /\ loop' = [loop EXCEPT ![n] = "reading"]
            /\ current' = n
      BY <2>2 DEF Dial
    <3>2. err' = err /\ (current # None => err[current])
      BY <2>2 DEF Dial, NeedsDial
    <3>3. loop[n] = "none"
      BY <3>1 DEF OneFrameInv, Loops
    <3>4. ErrAtEnd'
      BY <3>1, <3>2, <3>3 DEF TypeOK
    <3>5. ASSUME NEW b \in Brokers, b # n PROVE loop'[b] \in {"none", "ended"} /\ sock'[b] # "open"
      <4>1. loop'[b] = loop[b] /\ sock'[b] = SocketsAfterClose[b]
        BY <3>1, <3>5 DEF TypeOK, SocketsAfterClose
      <4>2. CASE b = current
        <5>1. current # None /\ loop[b] = "ended"
          BY <3>2, <4>2
        <5>2. QED
          BY <4>1, <4>2, <5>1 DEF TypeOK, SocketsAfterClose
      <4>3. CASE b # current
        BY <4>1, <4>3 DEF TypeOK, SocketsAfterClose
      <4>4. QED
        BY <4>2, <4>3
    <3>6. QED
      BY <3>1, <3>4, <3>5
  <2>3. CASE DialFail(c)
    <3>1. sock' = SocketsAfterClose /\ current' = None /\ UNCHANGED <<loop, err>>
          /\ (current # None => err[current])
      BY <2>3 DEF DialFail, NeedsDial
    <3>2. \A b \in Brokers : b # current => sock'[b] = sock[b]
      BY <3>1 DEF TypeOK, SocketsAfterClose
    <3>3. \A b \in Brokers : b = current => sock'[b] = "closed" /\ loop[b] = "ended"
      BY <3>1 DEF TypeOK, SocketsAfterClose
    <3>4. QED
      BY <3>1, <3>2, <3>3
  <2>4. QED
    BY <1>2, <2>1, <2>2, <2>3 DEF Caller
<1>3. ASSUME NEW b \in Brokers, Broker(b) \/ Break(b) PROVE ErrAtEnd' /\ ReplacedIsFinished'
  <2>1. CASE (\E c \in Calls : ReadAnswer(b, c)) \/ ReadEnd(b) \/ Dispatch(b) \/ Cleanup(b)
    BY <1>1, <2>1 DEF ReadAnswer, ReadEnd, Dispatch, Cleanup, clientVars
  <2>2. CASE LoopEnd(b)
    BY <2>2 DEF TypeOK, LoopEnd, clientVars
  <2>3. CASE AssignErr(b)
    BY <2>3 DEF TypeOK, AssignErr, clientVars
  <2>4. CASE Break(b)
    BY <2>4 DEF TypeOK, Break, clientVars
  <2>5. CASE ReadFail(b)
    <3>1. UNCHANGED <<current, loop, err>>
      BY <2>5 DEF ReadFail, clientVars
    <3>2. \A a \in Brokers : sock'[a] = "open" => sock[a] = "open"
      BY <2>5 DEF TypeOK, ReadFail
    <3>3. QED
      BY <3>1, <3>2
  <2>6. CASE Panic(b)
    BY <2>6 DEF TypeOK, Panic, clientVars
  <2>7. QED
    BY <1>3, <2>1, <2>2, <2>3, <2>4, <2>5, <2>6 DEF Broker
<1>4. CASE UNCHANGED vars
  BY <1>1, <1>4 DEF vars, clientVars, brokerVars
<1>5. QED
  BY <1>2, <1>3, <1>4 DEF Next

(* However often the connection is lost and dialled again, at most one     *)
(* read loop and one websocket are in use, and the loop of a connection    *)
(* that was replaced has told every call it had to tell.                   *)
THEOREM ReplacedAreFinished == Spec => []ReplacedIsFinished
<1>1. Init => ErrAtEnd /\ ReplacedIsFinished
  BY DEF Init, ErrAtEnd, ReplacedIsFinished
<1>2. QED
  BY <1>1, ReplaceStep, Typing, OneFrameInvariant, PTL DEF Spec, ReplaceInv
=============================================================================
