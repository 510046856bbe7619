--------------------------- MODULE TcpLink_proofs ---------------------------
(***************************************************************************)
(* Theorems about TcpLink for every number of descriptors, every size and  *)
(* fault of an answer, and every range of transaction ids of at least two. *)
(***************************************************************************)
EXTENDS TcpLink, TLAPS


(* What the assumptions on the constants give. *)
LEMMA Facts == MaxTxn \in Nat /\ MaxTxn >= 2 /\ Fds \subseteq Nat /\ BodySizes \subseteq Nat \ {0}
  BY TcpAssumption DEF TcpAssumption

(* The head and the tail of a sequence that is not empty. *)
LEMMA Front ==
  ASSUME NEW S, NEW q \in Seq(S), q # <<>>
  PROVE  /\ Len(q) \in Nat \ {0} /\ Head(q) = q[1] /\ Head(q) \in S
         /\ Tail(q) \in Seq(S) /\ Len(Tail(q)) = Len(q) - 1
         /\ \A i \in 1 .. Len(q) - 1 : Tail(q)[i] = q[i + 1]
  OBVIOUS

(* Appending to a sequence. *)
LEMMA Back ==
  ASSUME NEW S, NEW q \in Seq(S), NEW e \in S
  PROVE  /\ Append(q, e) \in Seq(S) /\ Len(Append(q, e)) = Len(q) + 1 /\ Len(q) \in Nat
         /\ Append(q, e) # <<>>
         /\ \A i \in 1 .. Len(q) : Append(q, e)[i] = q[i]
         /\ Append(q, e)[Len(q) + 1] = e
  OBVIOUS

(* The fields of a connection. *)
LEMMA Fields ==
  ASSUME NEW c \in Connections
  PROVE  /\ c.state \in {"none", "pending", "up", "refused", "closed"} /\ c.blocking \in BOOLEAN
         /\ c.toServer \in Seq(Requests) /\ c.toClient \in Seq(Frames)
         /\ c.taken \in Nat /\ c.latest \in Frames
  BY DEF Connections

(* The placeholders have their types. *)
LEMMA Defaults == NoFrame \in Frames /\ NoConn \in Connections
  BY Facts DEF NoFrame, Frames, NoConn, Connections, Requests

(* The fields of a frame. *)
LEMMA FrameType ==
  ASSUME NEW f \in Frames
  PROVE  f.txn \in 0 .. MaxTxn /\ f.protocol \in Nat /\ f.length \in Nat /\ f.body \in Nat
         /\ f.for \in Nat
  BY DEF Frames

(* The minimum of two numbers. *)
LEMMA MinOfTwo ==
  ASSUME NEW a \in Int, NEW b \in Int
  PROVE  Min({a, b}) \in Int /\ Min({a, b}) <= a /\ Min({a, b}) <= b
<1>1. \E x \in {a, b} : \A y \in {a, b} : x <= y
  OBVIOUS
<1> QED
  BY <1>1 DEF Min

(* How many bytes of the first frame are unread. *)
LEMMA UnreadType ==
  ASSUME NEW c \in Connections
  PROVE  Unread(c) \in Int
<1>1. CASE c.toClient = <<>>
  BY <1>1 DEF Unread
<1>2. CASE c.toClient # <<>>
  <2>0. c.toClient \in Seq(Frames) /\ c.taken \in Nat
    BY Fields
  <2>1. Head(c.toClient) \in Frames
    BY <1>2, <2>0, Front
  <2>2. Head(c.toClient).body \in Nat
    BY <2>1, FrameType
  <2> QED
    BY <1>2, <2>0, <2>2 DEF Unread, kMbapSize
<1> QED
  BY <1>1, <1>2

(* Updates that keep the type of a connection. *)
LEMMA Connecting ==
  ASSUME NEW c \in Connections, NEW b \in BOOLEAN, NEW reqs \in Seq(Requests),
         NEW frames \in Seq(Frames), NEW taken \in Nat, NEW f \in Frames,
         NEW state \in {"none", "pending", "up", "refused", "closed"}
  PROVE  /\ [c EXCEPT !.blocking = b] \in Connections
         /\ [c EXCEPT !.state = state] \in Connections
         /\ [c EXCEPT !.state = state, !.toServer = reqs] \in Connections
         /\ [c EXCEPT !.state = state, !.toServer = reqs, !.toClient = frames, !.taken = taken]
              \in Connections
         /\ [c EXCEPT !.toServer = reqs] \in Connections
         /\ [c EXCEPT !.taken = taken] \in Connections
         /\ [c EXCEPT !.toClient = frames, !.taken = taken] \in Connections
         /\ [c EXCEPT !.toClient = frames, !.latest = f] \in Connections
         /\ [c EXCEPT !.toServer = reqs, !.toClient = frames, !.latest = f] \in Connections
  BY DEF Connections

(* What a step of Receive takes. *)
LEMMA ReceiveTakes ==
  ASSUME TypeOK, Receive
  PROVE  /\ pc \in {"header", "body"} /\ Incoming # <<>>
         /\ \E n \in Nat \ {0} :
              /\ n <= (IF pc = "header" THEN kMbapSize ELSE head.length - 1) - got
              /\ conn.taken + n <= kMbapSize + Head(Incoming).body
              /\ Take(n)
              /\ got' = got + n
              /\ head' = IF pc = "header" THEN Head(Incoming) ELSE head
              /\ pc' = IF got + n < (IF pc = "header" THEN kMbapSize ELSE head.length - 1)
                         \/ pc = "body" THEN pc ELSE "check"
<1> DEFINE wanted == IF pc = "header" THEN kMbapSize ELSE head.length - 1
<1>0. conn \in Connections /\ head \in Frames /\ got \in Nat
  BY DEF TypeOK
<1>1. wanted \in Int
  BY <1>0, FrameType DEF kMbapSize
<1>2. conn.taken \in Nat /\ Unread(conn) \in Int
  BY <1>0, Fields, UnreadType
<1>3. PICK n \in 1 .. Min({wanted - got, Unread(conn)}) :
        /\ Take(n)
        /\ got' = got + n
        /\ head' = IF pc = "header" THEN Head(conn.toClient) ELSE head
        /\ pc' = IF got + n < wanted \/ pc = "body" THEN pc ELSE "check"
  BY DEF Receive
<1>4. n \in Nat \ {0} /\ n <= wanted - got /\ n <= Unread(conn)
  <2> HIDE DEF wanted
  <2>1. wanted - got \in Int
    BY <1>0, <1>1
  <2>2. /\ Min({wanted - got, Unread(conn)}) \in Int
        /\ Min({wanted - got, Unread(conn)}) <= wanted - got
        /\ Min({wanted - got, Unread(conn)}) <= Unread(conn)
    BY <2>1, <1>2, MinOfTwo
  <2> QED
    BY <1>2, <1>3, <2>1, <2>2
<1>5. conn.toClient # <<>>
  BY <1>4 DEF Unread
<1>6. Head(conn.toClient) \in Frames
  BY <1>0, <1>5, Fields, Front
<1>7. conn.taken + n <= kMbapSize + Head(conn.toClient).body
  BY <1>2, <1>4, <1>5, <1>6, FrameType DEF Unread, kMbapSize
<1> QED
  BY <1>3, <1>4, <1>5, <1>7 DEF Receive, Incoming

(* The answers a peer may give: to the first request, and honest. *)
LEMMA AnswerSteps ==
  ASSUME TypeOK, PeerAnswers
  PROVE  /\ conn.state = "up" /\ conn.toServer # <<>>
         /\ \E f \in Frames :
              /\ f.txn = Head(conn.toServer).txn /\ f.for = Head(conn.toServer).for
              /\ Honest(f)
              /\ conn' = [conn EXCEPT !.toServer = Tail(conn.toServer),
                                      !.toClient = Append(conn.toClient, f), !.latest = f]
<1>0. conn \in Connections /\ conn.toServer # <<>> /\ conn.state = "up"
  BY DEF TypeOK, PeerAnswers, Alive
<1>1. Head(conn.toServer) \in Requests
  BY <1>0, Fields, Front
<1> DEFINE req == Head(conn.toServer)
<1>2. req.txn \in 0 .. MaxTxn /\ req.for \in Nat
  BY <1>1, Facts DEF Requests
<1> DEFINE good(body) == [txn |-> req.txn, protocol |-> 0, length |-> 1 + body, body |-> body,
                          for |-> req.for]
           bad(body)  == (IF "protocol" \in Faults
                          THEN {[good(body) EXCEPT !.protocol = 1]} ELSE {})
                         \cup (IF "length" \in Faults
                               THEN {[good(body) EXCEPT !.length = n, !.body = 0] : n \in {0, 1}}
                               ELSE {})
<1>3. PICK body \in BodySizes : \E frame \in {good(body)} \cup bad(body) :
        conn' = [Put(frame, conn) EXCEPT !.toServer = Tail(@)]
  BY DEF PeerAnswers
<1>4. PICK frame \in {good(body)} \cup bad(body) :
        conn' = [Put(frame, conn) EXCEPT !.toServer = Tail(@)]
  BY <1>3
<1>5. body \in Nat
  BY <1>3, Facts
<1>6. frame \in Frames /\ Honest(frame) /\ frame.txn = req.txn /\ frame.for = req.for
  <2>1. CASE frame = good(body)
    BY <2>1, <1>2, <1>5 DEF Frames, Honest
  <2>2. CASE frame = [good(body) EXCEPT !.protocol = 1]
    BY <2>2, <1>2, <1>5 DEF Frames, Honest
  <2>3. CASE \E n \in {0, 1} : frame = [good(body) EXCEPT !.length = n, !.body = 0]
    <3>1. PICK n \in {0, 1} : frame = [good(body) EXCEPT !.length = n, !.body = 0]
      BY <2>3
    <3>2. frame = [txn |-> req.txn, protocol |-> 0, length |-> n, body |-> 0, for |-> req.for]
      BY <3>1
    <3> QED
      BY <3>2, <1>2 DEF Frames, Honest
  <2> QED
    BY <1>4, <2>1, <2>2, <2>3
<1>7. conn' = [conn EXCEPT !.toServer = Tail(conn.toServer),
                           !.toClient = Append(conn.toClient, frame), !.latest = frame]
  BY <1>0, <1>4 DEF Put, Connections
<1> QED
  BY <1>0, <1>6, <1>7

(* Each step keeps the type of the connection. *)
LEMMA ConnectionTyped ==
  ASSUME TypeOK, [Next]_vars
  PROVE  conn' \in Connections
<1> USE DEF link, locals, results, counts, Return, CloseSocket, Fail, NextTxn
<1>0. conn \in Connections /\ NoConn \in Connections /\ Fds \subseteq Nat
  BY Defaults, Facts DEF TypeOK
<1>t. /\ TRUE \in BOOLEAN /\ FALSE \in BOOLEAN /\ <<>> \in Seq(Requests) /\ <<>> \in Seq(Frames)
      /\ 0 \in Nat /\ conn.toServer \in Seq(Requests) /\ conn.toClient \in Seq(Frames)
      /\ conn.latest \in Frames /\ conn.taken \in Nat
  BY <1>0, Fields
<1>1. CASE CallOpen
  BY <1>1, <1>0, <1>t, Connecting DEF CallOpen
<1>2. CASE CallTransact
  BY <1>2, <1>0, <1>t, Connecting DEF CallTransact
<1>3. CASE Close
  BY <1>3, <1>0, <1>t, Connecting DEF Close
<1>4. CASE AlreadyOpen
  BY <1>4, <1>0, <1>t, Connecting DEF AlreadyOpen
<1>5. CASE Socket
  BY <1>5, <1>0, <1>t, Connecting DEF Socket
<1>6. CASE SocketFails
  BY <1>6, <1>0, <1>t, Connecting DEF SocketFails
<1>7. CASE OpenFails
  BY <1>7, <1>0, <1>t, Connecting DEF OpenFails
<1>8. CASE Resolved
  BY <1>8, <1>0, <1>t, Connecting DEF Resolved
<1>9. CASE Connected
  BY <1>9, <1>0, <1>t, Connecting DEF Connected
<1>10. CASE Writable
  <2>1. PICK state \in {"up", "refused"} : conn' = [conn EXCEPT !.state = state]
    BY <1>10 DEF Writable
  <2> QED
    BY <1>0, <1>t, <2>1 DEF Connections
<1>11. CASE Opened
  BY <1>11, <1>0, <1>t, Connecting DEF Opened
<1>12. CASE NotConnected
  BY <1>12, <1>0, <1>t, Connecting DEF NotConnected
<1>13. CASE Send
  <2>1. [txn |-> txnId_, for |-> transacts] \in Requests
    BY DEF TypeOK, Requests
  <2>2. Append(conn.toServer, [txn |-> txnId_, for |-> transacts]) \in Seq(Requests)
    BY <1>t, <2>1, Back
  <2>3. \/ conn' = conn
        \/ conn' = [conn EXCEPT !.toServer = Append(conn.toServer,
                                                    [txn |-> txnId_, for |-> transacts])]
    BY <1>13 DEF Send
  <2> QED
    BY <1>0, <1>t, <2>2, <2>3 DEF Connections
<1>14. CASE SendFails
  BY <1>14, <1>0, <1>t, Connecting DEF SendFails
<1>15. CASE Receive
  <2>1. PICK n \in Nat : Take(n)
    BY <1>15, ReceiveTakes
  <2>2. conn.taken + n \in Nat /\ Tail(conn.toClient) \in Seq(Frames)
    BY <1>15, <1>t, ReceiveTakes, Front DEF Incoming
  <2> QED
    BY <1>0, <1>t, <2>1, <2>2 DEF Take, Connections
<1>16. CASE ReceiveFails
  BY <1>16, <1>0, <1>t, Connecting DEF ReceiveFails
<1>17. CASE Accept
  BY <1>17, <1>0, <1>t, Connecting DEF Accept
<1>18. CASE Reject
  BY <1>18, <1>0, <1>t, Connecting DEF Reject
<1>19. CASE Answered
  BY <1>19, <1>0, <1>t, Connecting DEF Answered
<1>20. CASE PeerAnswers
  <2>1. PICK f \in Frames :
          conn' = [conn EXCEPT !.toServer = Tail(conn.toServer),
                               !.toClient = Append(conn.toClient, f), !.latest = f]
    BY <1>20, AnswerSteps
  <2>2. Append(conn.toClient, f) \in Seq(Frames) /\ Tail(conn.toServer) \in Seq(Requests)
    BY <1>20, <1>t, AnswerSteps, Front, Back
  <2> QED
    BY <1>0, <1>t, <2>1, <2>2 DEF Connections
<1>21. CASE PeerRepeats
  <2>1. Append(conn.toClient, conn.latest) \in Seq(Frames)
    BY <1>t, Back
  <2>2. conn' = [conn EXCEPT !.toClient = Append(conn.toClient, conn.latest),
                             !.latest = conn.latest]
    BY <1>21 DEF PeerRepeats, Put
  <2> QED
    BY <1>0, <1>t, <2>1, <2>2 DEF Connections
<1>22. CASE PeerCloses
  <2>1. \/ conn' = [conn EXCEPT !.state = "closed", !.toServer = <<>>]
        \/ conn' = [conn EXCEPT !.state = "closed", !.toServer = <<>>,
                                 !.toClient = <<>>, !.taken = 0]
    BY <1>22 DEF PeerCloses
  <2> QED
    BY <1>0, <1>t, <2>1 DEF Connections
<1>23. CASE UNCHANGED vars
  BY <1>23, <1>0, <1>t, Connecting DEF vars, link, locals, results, counts
<1> QED
  BY <1>1, <1>2, <1>3, <1>4, <1>5, <1>6, <1>7, <1>8, <1>9, <1>10, <1>11, <1>12, <1>13,
     <1>14, <1>15, <1>16, <1>17, <1>18, <1>19, <1>20, <1>21, <1>22, <1>23
     DEF Next, Caller, OpenStep, TransactStep, Peer

(* Each step keeps the types. *)
LEMMA TypesStep ==
  ASSUME TypeOK, [Next]_vars
  PROVE  TypeOK'
<1> USE Facts, Defaults DEF link, locals, results, counts, Return, CloseSocket, Fail,
      Exchanging, Opening, TypeOK
<1>0. conn' \in Connections
  BY ConnectionTyped
<1>1. CASE CallOpen
  BY <1>1, <1>0 DEF CallOpen
<1>2. CASE CallTransact
  BY <1>2, <1>0 DEF CallTransact, NoReply
<1>3. CASE Close
  BY <1>3, <1>0 DEF Close
<1>4. CASE AlreadyOpen
  BY <1>4, <1>0 DEF AlreadyOpen
<1>5. CASE Socket
  BY <1>5, <1>0 DEF Socket
<1>6. CASE SocketFails
  BY <1>6, <1>0 DEF SocketFails
<1>7. CASE OpenFails
  BY <1>7, <1>0 DEF OpenFails
<1>8. CASE Resolved
  BY <1>8, <1>0 DEF Resolved
<1>9. CASE Connected
  BY <1>9, <1>0 DEF Connected
<1>10. CASE Writable
  BY <1>10, <1>0 DEF Writable
<1>11. CASE Opened
  BY <1>11, <1>0 DEF Opened
<1>12. CASE NotConnected
  BY <1>12, <1>0 DEF NotConnected
<1>13. CASE Send
  <2>1. txnId_' \in 1 .. MaxTxn
    BY <1>13 DEF Send, NextTxn
  <2> QED
    BY <1>13, <1>0, <2>1 DEF Send
<1>14. CASE SendFails
  <2>1. txnId_' \in 1 .. MaxTxn
    BY <1>14 DEF SendFails, NextTxn
  <2> QED
    BY <1>14, <1>0, <2>1 DEF SendFails
<1>15. CASE Receive
  <2>1. PICK n \in Nat : /\ got' = got + n
                         /\ head' \in {Head(Incoming), head}
                         /\ pc' \in {pc, "check"}
    BY <1>15, ReceiveTakes
  <2>2. Head(Incoming) \in Frames
    BY <1>15, ReceiveTakes, Fields, Front DEF Incoming
  <2> QED
    BY <1>15, <1>0, <2>1, <2>2 DEF Receive
<1>16. CASE ReceiveFails
  BY <1>16, <1>0 DEF ReceiveFails
<1>17. CASE Accept
  BY <1>17, <1>0 DEF Accept
<1>18. CASE Reject
  BY <1>18, <1>0 DEF Reject
<1>19. CASE Answered
  <2>1. [for |-> head.for, size |-> head.length - 1] \in [for : Nat, size : Int]
    BY FrameType
  <2> QED
    BY <1>19, <1>0, <2>1 DEF Answered
<1>20. CASE PeerAnswers
  BY <1>20, <1>0 DEF PeerAnswers
<1>21. CASE PeerRepeats
  BY <1>21, <1>0 DEF PeerRepeats
<1>22. CASE PeerCloses
  BY <1>22, <1>0 DEF PeerCloses
<1>23. CASE UNCHANGED vars
  BY <1>23, <1>0 DEF vars, link, locals, results, counts
<1> QED
  BY <1>1, <1>2, <1>3, <1>4, <1>5, <1>6, <1>7, <1>8, <1>9, <1>10, <1>11, <1>12, <1>13,
     <1>14, <1>15, <1>16, <1>17, <1>18, <1>19, <1>20, <1>21, <1>22, <1>23
     DEF Next, Caller, OpenStep, TransactStep, Peer

(* Each step keeps the account of the descriptors. *)
LEMMA DescriptorsStep ==
  ASSUME TypeOK, DescriptorsAreAccounted, PlaceFitsTheSocket, [Next]_vars
  PROVE  DescriptorsAreAccounted'
<1> USE Facts DEF link, locals, results, counts, Return, CloseSocket, Fail, NextTxn, isOpen,
      Opening, Exchanging, Working, Awaiting, None, NoConn, DescriptorsAreAccounted,
      PlaceFitsTheSocket
<1>0. /\ conn \in Connections /\ s \in Fds \cup {None} /\ sockfd_ \in Fds \cup {None}
      /\ None \notin Fds
  BY DEF TypeOK
<1>1. CASE CallOpen
  BY <1>1, <1>0 DEF CallOpen
<1>2. CASE CallTransact
  BY <1>2, <1>0 DEF CallTransact
<1>3. CASE Close
  BY <1>3, <1>0 DEF Close
<1>4. CASE AlreadyOpen
  BY <1>4, <1>0 DEF AlreadyOpen
<1>5. CASE Socket
  BY <1>5, <1>0 DEF Socket
<1>6. CASE SocketFails
  BY <1>6, <1>0 DEF SocketFails
<1>7. CASE OpenFails
  BY <1>7, <1>0 DEF OpenFails
<1>8. CASE Resolved
  BY <1>8, <1>0 DEF Resolved
<1>9. CASE Connected
  BY <1>9, <1>0 DEF Connected
<1>10. CASE Writable
  BY <1>10, <1>0 DEF Writable
<1>11. CASE Opened
  BY <1>11, <1>0 DEF Opened
<1>12. CASE NotConnected
  BY <1>12, <1>0 DEF NotConnected
<1>13. CASE Send
  BY <1>13, <1>0 DEF Send
<1>14. CASE SendFails
  BY <1>14, <1>0 DEF SendFails
<1>15. CASE Receive
  BY <1>15, <1>0, ReceiveTakes DEF Receive, Take, Connections
<1>16. CASE ReceiveFails
  BY <1>16, <1>0 DEF ReceiveFails
<1>17. CASE Accept
  BY <1>17, <1>0 DEF Accept
<1>18. CASE Reject
  BY <1>18, <1>0 DEF Reject
<1>19. CASE Answered
  BY <1>19, <1>0 DEF Answered
<1>20. CASE PeerAnswers
  BY <1>20, <1>0 DEF PeerAnswers, Put, Connections
<1>21. CASE PeerRepeats
  BY <1>21, <1>0 DEF PeerRepeats, Put, Connections
<1>22. CASE PeerCloses
  BY <1>22, <1>0 DEF PeerCloses, Connections
<1>23. CASE UNCHANGED vars
  BY <1>23, <1>0 DEF vars, link, locals, results, counts
<1> QED
  BY <1>1, <1>2, <1>3, <1>4, <1>5, <1>6, <1>7, <1>8, <1>9, <1>10, <1>11, <1>12, <1>13,
     <1>14, <1>15, <1>16, <1>17, <1>18, <1>19, <1>20, <1>21, <1>22, <1>23
     DEF Next, Caller, OpenStep, TransactStep, Peer

(* Each step leaves a socket only where open() works on one, and no        *)
(* connection without a socket.                                            *)
LEMMA PlaceStep ==
  ASSUME TypeOK, DescriptorsAreAccounted, PlaceFitsTheSocket, [Next]_vars
  PROVE  PlaceFitsTheSocket'
<1> USE Facts DEF link, locals, results, counts, Return, CloseSocket, Fail, NextTxn, isOpen,
      Opening, Exchanging, Working, Awaiting, None, DescriptorsAreAccounted,
      PlaceFitsTheSocket
<1>0. /\ conn \in Connections /\ s \in Fds \cup {None} /\ sockfd_ \in Fds \cup {None}
      /\ None \notin Fds /\ conn.state = "up" => conn # NoConn
  BY DEF TypeOK, NoConn
<1>1. CASE CallOpen
  BY <1>1, <1>0 DEF CallOpen
<1>2. CASE CallTransact
  BY <1>2, <1>0 DEF CallTransact
<1>3. CASE Close
  BY <1>3, <1>0 DEF Close
<1>4. CASE AlreadyOpen
  BY <1>4, <1>0 DEF AlreadyOpen
<1>5. CASE Socket
  BY <1>5, <1>0 DEF Socket
<1>6. CASE SocketFails
  BY <1>6, <1>0 DEF SocketFails
<1>7. CASE OpenFails
  BY <1>7, <1>0 DEF OpenFails
<1>8. CASE Resolved
  BY <1>8, <1>0 DEF Resolved
<1>9. CASE Connected
  BY <1>9, <1>0 DEF Connected
<1>10. CASE Writable
  BY <1>10, <1>0 DEF Writable
<1>11. CASE Opened
  BY <1>11, <1>0 DEF Opened
<1>12. CASE NotConnected
  BY <1>12, <1>0 DEF NotConnected
<1>13. CASE Send
  BY <1>13, <1>0 DEF Send
<1>14. CASE SendFails
  BY <1>14, <1>0 DEF SendFails
<1>15. CASE Receive
  BY <1>15, <1>0 DEF Receive
<1>16. CASE ReceiveFails
  BY <1>16, <1>0 DEF ReceiveFails
<1>17. CASE Accept
  BY <1>17, <1>0 DEF Accept
<1>18. CASE Reject
  BY <1>18, <1>0 DEF Reject
<1>19. CASE Answered
  BY <1>19, <1>0 DEF Answered
<1>20. CASE PeerAnswers
  BY <1>20, <1>0 DEF PeerAnswers, Alive
<1>21. CASE PeerRepeats
  BY <1>21, <1>0 DEF PeerRepeats, Alive
<1>22. CASE PeerCloses
  BY <1>22, <1>0 DEF PeerCloses
<1>23. CASE UNCHANGED vars
  BY <1>23, <1>0 DEF vars, link, locals, results, counts
<1> QED
  BY <1>1, <1>2, <1>3, <1>4, <1>5, <1>6, <1>7, <1>8, <1>9, <1>10, <1>11, <1>12, <1>13,
     <1>14, <1>15, <1>16, <1>17, <1>18, <1>19, <1>20, <1>21, <1>22, <1>23
     DEF Next, Caller, OpenStep, TransactStep, Peer

(* Transaction ids run from 1 to MaxTxn, and one differs from the next. *)
LEMMA SuccDiffers ==
  ASSUME NEW txn \in 1 .. MaxTxn
  PROVE  Succ(txn) \in 1 .. MaxTxn /\ Succ(txn) # txn
  BY Facts DEF Succ

(* Frames of an earlier request are told from those of this one. *)
LEMMA PreviousIsNotCurrent ==
  ASSUME NEW f \in Frames
  PROVE  ~ (Current(f) /\ Previous(f)) /\ (f.txn = txnId /\ Known(f) => Current(f))
<1>1. f.txn \in 0 .. MaxTxn
  BY FrameType
<1>2. f.txn >= 1 => Succ(f.txn) # f.txn
  BY <1>1, SuccDiffers, Facts
<1> QED
  BY <1>2 DEF Current, Previous, Known

(* The placeholder for a frame answers no request. *)
LEMMA NoFrameIsNotCurrent == ASSUME txnId >= 1 PROVE ~ Current(NoFrame)
  BY DEF Current, NoFrame

(* The request goes out: what is still unread becomes the past of the one  *)
(* before.                                                                 *)
LEMMA SendStream ==
  ASSUME TypeOK, StreamFitsThePlace, Send
  PROVE  StreamFitsThePlace'
<1>0. /\ conn \in Connections /\ txnId_ \in 1 .. MaxTxn /\ transacts \in Nat
      /\ pc = "send" /\ isOpen /\ pc' = "header" /\ got' = 0 /\ txnId' = txnId_
      /\ txnId_' = Succ(txnId_) /\ transacts' = transacts
  BY DEF TypeOK, Send, NextTxn, Succ, counts
<1>1. AllIsPast
  BY <1>0 DEF StreamFitsThePlace, Quiet
<1>2. /\ conn'.toClient = conn.toClient /\ conn'.taken = 0 /\ conn'.latest = conn.latest
      /\ conn'.toServer \in {<<>>, <<[txn |-> txnId', for |-> transacts']>>}
  <2>1. CASE conn.state = "up"
    <3>1. conn' = [conn EXCEPT !.toServer = <<[txn |-> txnId_, for |-> transacts]>>]
      BY <2>1, <1>1 DEF Send, AllIsPast
    <3> QED
      BY <3>1, <1>0, <1>1 DEF AllIsPast, Connections
  <2>2. CASE conn.state # "up"
    BY <2>2, <1>1 DEF Send, AllIsPast
  <2> QED
    BY <2>1, <2>2
<1>3. \A f \in Frames : Past(f) => /\ Honest(f)
                                    /\ f.txn >= 1 /\ Succ(f.txn) = txnId' /\ f.for < transacts'
                                    /\ f.txn # txnId'
  <2> TAKE f \in Frames
  <2>1. f.for \in Nat /\ f.txn \in 0 .. MaxTxn
    BY FrameType
  <2>2. f.txn >= 1 => Succ(f.txn) # f.txn
    BY <2>1, SuccDiffers, Facts
  <2> QED
    BY <1>0, <2>1, <2>2 DEF Past
<1>4. \A i \in 1 .. Len(conn'.toClient) :
        Known(conn.toClient[i])' /\ ~ Current(conn.toClient[i])'
  <2> TAKE i \in 1 .. Len(conn'.toClient)
  <2>1. conn.toClient[i] \in Frames
    BY <1>0, <1>2, Fields
  <2>2. Past(conn.toClient[i])
    BY <1>1, <1>2 DEF AllIsPast, Incoming
  <2>3. conn'.toClient[i] = conn.toClient[i]
    BY <1>2
  <2> QED
    BY <1>3, <2>1, <2>2, <2>3 DEF Known, Honest, Current, Previous
<1>5. conn.latest # NoFrame => Known(conn.latest)' /\ ~ Current(conn.latest)'
  <2>1. conn.latest \in Frames
    BY <1>0, Fields
  <2> QED
    BY <1>1, <1>2, <1>3, <2>1 DEF AllIsPast, Known, Honest, Current, Previous
<1>6. AnswersAreInOrder'
  BY <1>2, <1>4, <1>5 DEF AnswersAreInOrder, Incoming
<1> QED
  BY <1>0, <1>2, <1>6, SuccDiffers DEF StreamFitsThePlace, Working, Quiet, Awaiting, kMbapSize

(* What the client has not read yet has the fields of a frame. *)
LEMMA IncomingFrames ==
  ASSUME TypeOK
  PROVE  /\ conn \in Connections /\ Incoming \in Seq(Frames) /\ Len(Incoming) \in Nat
         /\ \A i \in 1 .. Len(Incoming) : Incoming[i] \in Frames
         /\ conn.latest \in Frames /\ head \in Frames /\ got \in Nat
         /\ conn.taken \in Nat /\ transacts \in Nat /\ txnId_ \in 1 .. MaxTxn
<1>1. conn \in Connections /\ head \in Frames /\ got \in Nat /\ transacts \in Nat
      /\ txnId_ \in 1 .. MaxTxn
  BY DEF TypeOK
<1>2. Incoming \in Seq(Frames) /\ conn.latest \in Frames /\ conn.taken \in Nat
  BY <1>1, Fields DEF Incoming
<1> QED
  BY <1>1, <1>2

(* A step that reads bytes, within a frame or to its end, leaves the       *)
(* answers in their order.                                                 *)
LEMMA ReadingKeepsOrder ==
  ASSUME TypeOK, AnswersAreInOrder, Incoming # <<>>, NEW n \in Nat, Take(n),
         txnId' = txnId, transacts' = transacts
  PROVE  /\ AnswersAreInOrder'
         /\ conn'.toServer = conn.toServer /\ conn'.latest = conn.latest
         /\ IF conn.taken + n = kMbapSize + Head(Incoming).body
            THEN Incoming' = Tail(Incoming) /\ conn'.taken = 0
            ELSE Incoming' = Incoming /\ conn'.taken = conn.taken + n
<1>1. /\ conn'.toServer = conn.toServer /\ conn'.latest = conn.latest
      /\ IF conn.taken + n = kMbapSize + Head(Incoming).body
         THEN Incoming' = Tail(Incoming) /\ conn'.taken = 0
         ELSE Incoming' = Incoming /\ conn'.taken = conn.taken + n
  BY IncomingFrames DEF Take, Incoming, Connections
<1>2. CASE Incoming' = Incoming
  BY <1>1, <1>2 DEF AnswersAreInOrder, Known, Honest, Current, Previous
<1>3. CASE Incoming' = Tail(Incoming)
  <2>1. /\ Len(Incoming) \in Nat \ {0} /\ Len(Incoming') = Len(Incoming) - 1
        /\ \A i \in 1 .. Len(Incoming) - 1 : Incoming'[i] = Incoming[i + 1]
    BY <1>3, IncomingFrames, Front
  <2>2. \A i \in 1 .. Len(Incoming') :
          i + 1 \in 1 .. Len(Incoming) /\ Incoming'[i] = Incoming[i + 1]
    BY <2>1
  <2>3. /\ \A i \in 1 .. Len(Incoming') : Known(Incoming'[i])
        /\ \A i \in 1 .. Len(Incoming') :
             Current(Incoming'[i]) => conn.toServer = <<>> /\ Current(conn.latest)
    BY <2>2 DEF AnswersAreInOrder
  <2>4. \A i, j \in 1 .. Len(Incoming') : i < j /\ Current(Incoming'[i]) => Current(Incoming'[j])
    <3> SUFFICES ASSUME NEW i \in 1 .. Len(Incoming'), NEW j \in 1 .. Len(Incoming'),
                        i < j, Current(Incoming'[i])
                 PROVE  Current(Incoming'[j])
      OBVIOUS
    <3>1. i + 1 < j + 1 /\ i + 1 \in 1 .. Len(Incoming) /\ j + 1 \in 1 .. Len(Incoming)
      BY <2>1
    <3> QED
      BY <2>2, <3>1 DEF AnswersAreInOrder
  <2> QED
    BY <1>1, <2>3, <2>4 DEF AnswersAreInOrder, Known, Honest, Current, Previous
<1> QED
  BY <1>1, <1>2, <1>3

(* The answer to this request is read: only repetitions of it are behind.  *)
LEMMA HeadOfTheStream ==
  ASSUME TypeOK, AnswersAreInOrder, Incoming # <<>>, txnId >= 1
  PROVE  /\ Known(Incoming[1])
         /\ Current(Incoming[1]) =>
              /\ conn.toServer = <<>>
              /\ conn.latest # NoFrame /\ Current(conn.latest)
              /\ \A i \in 1 .. Len(Incoming) : Current(Incoming[i])
<1>1. 1 \in 1 .. Len(Incoming) /\ Len(Incoming) \in Nat
  BY IncomingFrames, Front
<1>2. \A i \in 1 .. Len(Incoming) : i # 1 => 1 < i
  BY <1>1
<1> QED
  BY <1>1, <1>2, NoFrameIsNotCurrent DEF AnswersAreInOrder

(* Bytes of a header are read. *)
LEMMA HeaderStream ==
  ASSUME TypeOK, StreamFitsThePlace, Receive, pc = "header"
  PROVE  StreamFitsThePlace'
<1>0. /\ AnswersAreInOrder /\ txnId \in 1 .. MaxTxn /\ txnId_ = Succ(txnId)
      /\ got < kMbapSize /\ (Dead \/ conn.taken = got)
  BY DEF StreamFitsThePlace, Awaiting
<1>1. /\ txnId' = txnId /\ txnId_' = txnId_ /\ transacts' = transacts /\ Incoming # <<>>
  BY ReceiveTakes DEF Receive, link, counts
<1>2. PICK n \in Nat \ {0} :
        /\ n <= kMbapSize - got /\ conn.taken + n <= kMbapSize + Head(Incoming).body
        /\ Take(n) /\ got' = got + n /\ head' = Head(Incoming)
        /\ pc' = IF got + n < kMbapSize THEN "header" ELSE "check"
  BY ReceiveTakes
<1>3. conn.taken = got /\ got \in Nat
  BY <1>0, <1>1, IncomingFrames DEF Dead
<1>4. /\ AnswersAreInOrder'
      /\ conn'.toServer = conn.toServer /\ conn'.latest = conn.latest
      /\ IF conn.taken + n = kMbapSize + Head(Incoming).body
         THEN Incoming' = Tail(Incoming) /\ conn'.taken = 0
         ELSE Incoming' = Incoming /\ conn'.taken = conn.taken + n
  BY <1>0, <1>1, <1>2, ReadingKeepsOrder
<1>5. Head(Incoming) = Incoming[1] /\ Incoming[1] \in Frames /\ Incoming[1].body \in Nat
  BY <1>1, IncomingFrames, Front, FrameType
<1>6. CASE got + n < kMbapSize
  <2>1. conn'.taken = got'
    BY <1>2, <1>3, <1>4, <1>5, <1>6 DEF kMbapSize
  <2> QED
    BY <1>0, <1>1, <1>2, <1>4, <1>6, <2>1 DEF StreamFitsThePlace, Working, Quiet, Awaiting
<1>7. CASE ~ (got + n < kMbapSize)
  <2>1. got + n = kMbapSize /\ pc' = "check"
    BY <1>2, <1>3, <1>7 DEF kMbapSize
  <2>2. /\ Known(Incoming[1])
        /\ Current(Incoming[1]) =>
              /\ conn.toServer = <<>>
              /\ conn.latest # NoFrame /\ Current(conn.latest)
              /\ \A i \in 1 .. Len(Incoming) : Current(Incoming[i])
    BY <1>0, <1>1, HeadOfTheStream
  <2>3. \A i \in 1 .. Len(Incoming') : \E j \in 1 .. Len(Incoming) : Incoming'[i] = Incoming[j]
    <3>1. CASE Incoming' = Incoming
      BY <3>1
    <3>2. CASE Incoming' = Tail(Incoming)
      <4>1. /\ Len(Incoming) \in Nat \ {0} /\ Len(Incoming') = Len(Incoming) - 1
            /\ \A i \in 1 .. Len(Incoming) - 1 : Incoming'[i] = Incoming[i + 1]
        BY <1>1, <3>2, IncomingFrames, Front
      <4>2. \A i \in 1 .. Len(Incoming') : i + 1 \in 1 .. Len(Incoming)
        BY <4>1
      <4> QED
        BY <4>1, <4>2
    <3> QED
      BY <1>4, <3>1, <3>2
  <2>4. HeadIsKnown'
    BY <1>1, <1>2, <1>4, <1>5, <2>2, <2>3
       DEF HeadIsKnown, Known, Honest, Current, Previous
  <2>5. Reading(kMbapSize, head.body = 0)'
    <3>1. CASE Incoming[1].body = 0
      BY <1>2, <1>3, <1>4, <1>5, <2>1, <3>1 DEF Reading, kMbapSize
    <3>2. CASE Incoming[1].body # 0
      <4>1. Incoming' = Incoming /\ conn'.taken = kMbapSize
        BY <1>2, <1>3, <1>4, <1>5, <2>1, <3>2 DEF kMbapSize
      <4> QED
        BY <1>1, <1>2, <1>5, <3>2, <4>1 DEF Reading
    <3> QED
      BY <3>1, <3>2
  <2> QED
    BY <1>0, <1>1, <1>4, <2>1, <2>4, <2>5 DEF StreamFitsThePlace, Working, Quiet, Awaiting
<1> QED
  BY <1>6, <1>7

(* Bytes of a body are read. *)
LEMMA BodyStream ==
  ASSUME TypeOK, StreamFitsThePlace, Receive, pc = "body"
  PROVE  StreamFitsThePlace'
<1>0. /\ AnswersAreInOrder /\ txnId \in 1 .. MaxTxn /\ txnId_ = Succ(txnId)
      /\ HeadIsKnown /\ Current(head) /\ head.length >= 2 /\ got <= head.length - 1
      /\ Reading(kMbapSize + got, got = head.length - 1)
  BY DEF StreamFitsThePlace, Awaiting
<1>1. /\ txnId' = txnId /\ txnId_' = txnId_ /\ transacts' = transacts /\ Incoming # <<>>
      /\ got \in Nat /\ got < head.length - 1
  BY ReceiveTakes, IncomingFrames DEF Receive, link, counts
<1>2. PICK n \in Nat \ {0} :
        /\ n <= head.length - 1 - got /\ Take(n) /\ got' = got + n /\ head' = head
        /\ pc' = "body"
  BY ReceiveTakes
<1>h. head.length \in Nat /\ head.body \in Nat /\ head.length = 1 + head.body
  BY <1>0, IncomingFrames, FrameType DEF HeadIsKnown, Known, Honest
<1>3. conn.taken = kMbapSize + got /\ Head(Incoming) = head
  BY <1>0, <1>1, <1>h DEF Reading, Dead
<1>4. /\ AnswersAreInOrder'
      /\ conn'.toServer = conn.toServer /\ conn'.latest = conn.latest
      /\ IF conn.taken + n = kMbapSize + head.body
         THEN Incoming' = Tail(Incoming) /\ conn'.taken = 0
         ELSE Incoming' = Incoming /\ conn'.taken = conn.taken + n
  BY <1>0, <1>1, <1>2, <1>3, ReadingKeepsOrder
<1>5. \A i \in 1 .. Len(Incoming') : \E j \in 1 .. Len(Incoming) : Incoming'[i] = Incoming[j]
  <2>1. CASE Incoming' = Incoming
    BY <2>1
  <2>2. CASE Incoming' = Tail(Incoming)
    <3>1. /\ Len(Incoming) \in Nat \ {0} /\ Len(Incoming') = Len(Incoming) - 1
          /\ \A i \in 1 .. Len(Incoming) - 1 : Incoming'[i] = Incoming[i + 1]
      BY <1>1, <2>2, IncomingFrames, Front
    <3>2. \A i \in 1 .. Len(Incoming') : i + 1 \in 1 .. Len(Incoming)
      BY <3>1
    <3> QED
      BY <3>1, <3>2
  <2> QED
    BY <1>4, <2>1, <2>2
<1>6. HeadIsKnown' /\ Current(head)'
  BY <1>0, <1>1, <1>2, <1>4, <1>5 DEF HeadIsKnown, Known, Honest, Current, Previous
<1>7. Reading(kMbapSize + got, got = head.length - 1)' /\ got' <= head'.length - 1
  <2>1. CASE got + n = head.length - 1
    <3>1. conn'.taken = 0
      BY <1>1, <1>2, <1>3, <1>4, <1>h, <2>1 DEF kMbapSize
    <3> QED
      BY <1>1, <1>2, <1>h, <2>1, <3>1 DEF Reading
  <2>2. CASE got + n # head.length - 1
    <3>0. conn.taken + n # kMbapSize + head.body
      BY <1>1, <1>3, <1>h, <2>2 DEF kMbapSize
    <3>1. conn'.taken = kMbapSize + got' /\ Incoming' = Incoming
      BY <3>0, <1>1, <1>2, <1>3, <1>4 DEF kMbapSize
    <3>2. head' = head /\ Head(Incoming') = head' /\ Incoming' # <<>> /\ got' # head'.length - 1
      BY <1>1, <1>2, <1>3, <2>2, <3>1
    <3>3. got' <= head'.length - 1
      BY <1>1, <1>2, <1>h
    <3> QED
      BY <3>1, <3>2, <3>3 DEF Reading
  <2> QED
    BY <2>1, <2>2
<1> QED
  BY <1>0, <1>1, <1>2, <1>4, <1>6, <1>7 DEF StreamFitsThePlace, Working, Quiet, Awaiting

(* A header is accepted: its frame is an answer to this request. *)
LEMMA AcceptStream ==
  ASSUME TypeOK, StreamFitsThePlace, Accept
  PROVE  StreamFitsThePlace'
<1>0. /\ AnswersAreInOrder /\ txnId \in 1 .. MaxTxn /\ txnId_ = Succ(txnId)
      /\ HeadIsKnown /\ Reading(kMbapSize, head.body = 0)
  BY DEF StreamFitsThePlace, Awaiting, Accept
<1>1. /\ head.txn = txnId /\ head.length >= 2 /\ got' = 0 /\ pc' = "body"
      /\ UNCHANGED <<txnId_, txnId, head, conn, transacts>>
  BY DEF Accept, WellFormed, link, counts
<1>2. head \in Frames /\ head.length \in Nat /\ head.body \in Nat
  BY IncomingFrames, FrameType
<1>3. Current(head)
  BY <1>0, <1>1, <1>2, PreviousIsNotCurrent DEF HeadIsKnown
<1>4. Reading(kMbapSize + got, got = head.length - 1)'
  <2>1. head.length = 1 + head.body /\ head.body # 0
    BY <1>0, <1>1, <1>2 DEF HeadIsKnown, Known, Honest
  <2> QED
    BY <1>0, <1>1, <1>2, <2>1 DEF Reading, Dead, Incoming, kMbapSize
<1>5. AnswersAreInOrder' /\ HeadIsKnown' /\ Current(head)'
  BY <1>0, <1>1, <1>3
     DEF AnswersAreInOrder, HeadIsKnown, Known, Honest, Current, Previous, Incoming
<1> QED
  BY <1>0, <1>1, <1>2, <1>4, <1>5 DEF StreamFitsThePlace, Working, Quiet, Awaiting

(* The answer is complete: nothing but repetitions of it may be unread.    *)
LEMMA AnsweredStream ==
  ASSUME TypeOK, StreamFitsThePlace, Answered
  PROVE  StreamFitsThePlace' /\ reply'.for = transacts'
<1>0. /\ AnswersAreInOrder /\ txnId \in 1 .. MaxTxn /\ txnId_ = Succ(txnId)
      /\ HeadIsKnown /\ Current(head) /\ Reading(kMbapSize + got, got = head.length - 1)
      /\ got = head.length - 1
  BY DEF StreamFitsThePlace, Awaiting, Answered
<1>1. /\ pc' = "idle" /\ UNCHANGED <<txnId_, conn, transacts>>
      /\ reply' = [for |-> head.for, size |-> head.length - 1]
  BY DEF Answered, Return, link, counts
<1>2. conn.taken = 0 /\ conn.toServer = <<>>
  BY <1>0 DEF Reading, Dead, HeadIsKnown
<1>3. \A f \in Frames : Known(f) /\ Current(f) => Past(f)'
  BY <1>0, <1>1, IncomingFrames DEF Known, Honest, Current, Past
<1>4. /\ \A i \in 1 .. Len(Incoming) : Known(Incoming[i]) /\ Current(Incoming[i])
      /\ conn.latest # NoFrame => Known(conn.latest) /\ Current(conn.latest)
  BY <1>0 DEF HeadIsKnown, AnswersAreInOrder
<1>5. AllIsPast'
  BY <1>1, <1>2, <1>3, <1>4, IncomingFrames DEF AllIsPast, Past, Honest, Incoming
<1> QED
  BY <1>0, <1>1, <1>5 DEF StreamFitsThePlace, Working, Quiet, Awaiting, Current

(* The peer sends an answer: the request it answers is the one awaited.    *)
LEMMA AnswerStream ==
  ASSUME TypeOK, PlaceFitsTheSocket, StreamFitsThePlace, PeerAnswers
  PROVE  StreamFitsThePlace'
<1>0. /\ conn.state = "up" /\ conn.toServer # <<>>
      /\ UNCHANGED <<sockfd_, txnId_, pc, txnId, got, head, transacts>>
  BY AnswerSteps DEF PeerAnswers, link, locals, counts
<1>1. conn # NoConn /\ NoConn.toServer = <<>>
  BY <1>0 DEF NoConn
<1>2. pc \in Awaiting
  <2>1. pc \notin Working
    BY <1>0 DEF StreamFitsThePlace, NothingYet
  <2>2. pc \in Quiet => ~isOpen
    BY <1>0 DEF StreamFitsThePlace, AllIsPast
  <2>3. s = None
    BY <2>1 DEF PlaceFitsTheSocket
  <2>4. isOpen
    BY <1>1, <2>3 DEF PlaceFitsTheSocket
  <2> QED
    BY <2>1, <2>2, <2>4 DEF TypeOK, Working, Quiet, Awaiting, Opening, Exchanging
<1>3. AnswersAreInOrder /\ txnId \in 1 .. MaxTxn /\ txnId_ = Succ(txnId)
  BY <1>2 DEF StreamFitsThePlace
<1>4. conn.toServer = <<[txn |-> txnId, for |-> transacts]>>
  BY <1>0, <1>3 DEF AnswersAreInOrder
<1>5. PICK f \in Frames :
        /\ Honest(f) /\ Current(f)
        /\ conn' = [conn EXCEPT !.toServer = <<>>,
                                !.toClient = Append(conn.toClient, f), !.latest = f]
  <2>1. Head(conn.toServer) = [txn |-> txnId, for |-> transacts] /\ Tail(conn.toServer) = <<>>
    BY <1>4
  <2>2. Head(conn.toServer).txn = txnId /\ Head(conn.toServer).for = transacts
    BY <2>1
  <2> QED
    BY <2>1, <2>2, AnswerSteps DEF Current
<1>6. /\ conn'.state = "up" /\ conn'.toServer = <<>> /\ conn'.latest = f
      /\ conn'.taken = conn.taken /\ Incoming' = Append(Incoming, f)
  BY <1>0, <1>5, IncomingFrames DEF Connections, Incoming
<1>7. /\ Len(Incoming) \in Nat /\ Len(Incoming') = Len(Incoming) + 1
      /\ \A i \in 1 .. Len(Incoming) : Incoming'[i] = Incoming[i]
      /\ Incoming'[Len(Incoming) + 1] = f
      /\ Incoming' # <<>>
      /\ Incoming # <<>> => Head(Incoming') = Head(Incoming)
  BY <1>5, <1>6, IncomingFrames, Back
<1>8. \A i \in 1 .. Len(Incoming) : Known(Incoming[i]) /\ ~ Current(Incoming[i])
  BY <1>0, <1>3 DEF AnswersAreInOrder
<1>9. \A i \in 1 .. Len(Incoming') :
        \/ i \in 1 .. Len(Incoming) /\ Incoming'[i] = Incoming[i]
        \/ i = Len(Incoming) + 1 /\ Incoming'[i] = f
  BY <1>7
<1>10. AnswersAreInOrder'
  <2>1. \A i, j \in 1 .. Len(Incoming') : i < j => i \in 1 .. Len(Incoming)
    BY <1>7
  <2>2. \A i \in 1 .. Len(Incoming) : ~ Current(Incoming[i])'
    BY <1>0, <1>7, <1>8 DEF Current
  <2>3. \A i \in 1 .. Len(Incoming') : Known(Incoming[i])'
    <3>1. Known(f) /\ \A i \in 1 .. Len(Incoming') : Known(Incoming'[i])
      BY <1>5, <1>8, <1>9 DEF Known
    <3> QED
      BY <1>0, <3>1 DEF Known, Honest, Current, Previous
  <2>4. Current(conn.latest)' /\ Known(conn.latest)'
    BY <1>0, <1>5, <1>6 DEF Known, Honest, Current, Previous
  <2> QED
    BY <1>6, <2>1, <2>2, <2>3, <2>4 DEF AnswersAreInOrder
<1>11. CASE pc = "header"
  BY <1>0, <1>3, <1>6, <1>10, <1>11
     DEF StreamFitsThePlace, Working, Quiet, Awaiting, Dead
<1>12. CASE pc = "check"
  <2>1. HeadIsKnown /\ ~ Current(head) /\ Reading(kMbapSize, head.body = 0)
    BY <1>0, <1>12 DEF StreamFitsThePlace, HeadIsKnown
  <2>2. HeadIsKnown'
    BY <1>0, <2>1 DEF HeadIsKnown, Known, Honest, Current, Previous
  <2>3. Reading(kMbapSize, head.body = 0)'
    BY <1>0, <1>6, <1>7, <2>1 DEF Reading, Dead
  <2> QED
    BY <1>0, <1>3, <1>10, <1>12, <2>2, <2>3 DEF StreamFitsThePlace, Working, Quiet, Awaiting
<1>13. pc # "body"
  BY <1>0 DEF StreamFitsThePlace, HeadIsKnown
<1> QED
  BY <1>2, <1>11, <1>12, <1>13 DEF Awaiting

(* The peer repeats its last answer. *)
LEMMA RepeatStream ==
  ASSUME TypeOK, PlaceFitsTheSocket, StreamFitsThePlace, PeerRepeats
  PROVE  StreamFitsThePlace'
<1> DEFINE f == conn.latest
<1>0. /\ conn.state = "up" /\ f # NoFrame /\ f \in Frames
      /\ UNCHANGED <<sockfd_, txnId_, pc, txnId, got, head, transacts>>
      /\ conn' = [conn EXCEPT !.toClient = Append(conn.toClient, f), !.latest = f]
  BY IncomingFrames DEF PeerRepeats, Alive, Put, link, locals, counts
<1> HIDE DEF f
<1>1. /\ conn'.state = "up" /\ conn'.toServer = conn.toServer /\ conn'.latest = f /\ f = conn.latest
      /\ conn'.taken = conn.taken /\ Incoming' = Append(Incoming, f)
  BY <1>0, IncomingFrames DEF Connections, Incoming, f
<1>2. /\ Len(Incoming) \in Nat /\ Len(Incoming') = Len(Incoming) + 1
      /\ \A i \in 1 .. Len(Incoming) : Incoming'[i] = Incoming[i]
      /\ Incoming'[Len(Incoming) + 1] = f
      /\ Incoming' # <<>>
      /\ Incoming # <<>> => Head(Incoming') = Head(Incoming)
  BY <1>0, <1>1, IncomingFrames, Back
<1>3. \A i \in 1 .. Len(Incoming') :
        \/ i \in 1 .. Len(Incoming) /\ Incoming'[i] = Incoming[i]
        \/ i = Len(Incoming) + 1 /\ Incoming'[i] = f
  BY <1>2
<1>4. pc \notin Working
  BY <1>0, <1>1 DEF StreamFitsThePlace, NothingYet
<1>5. CASE pc \in Quiet /\ isOpen
  <2>1. AllIsPast /\ Past(f)
    BY <1>0, <1>1, <1>5 DEF StreamFitsThePlace, AllIsPast
  <2>2. \A i \in 1 .. Len(Incoming') : Past(Incoming'[i])
    BY <1>3, <2>1 DEF AllIsPast
  <2>3. AllIsPast'
    BY <1>0, <1>1, <2>1, <2>2 DEF AllIsPast, Past, Honest
  <2> QED
    BY <1>0, <1>5, <2>3 DEF StreamFitsThePlace, Working, Quiet, Awaiting
<1>6. CASE pc \in Quiet /\ ~isOpen
  BY <1>0, <1>6 DEF StreamFitsThePlace, isOpen, Working, Quiet, Awaiting
<1>7. CASE pc \in Awaiting
  <2>1. AnswersAreInOrder /\ txnId \in 1 .. MaxTxn /\ txnId_ = Succ(txnId) /\ Known(f)
    BY <1>0, <1>1, <1>7 DEF StreamFitsThePlace, AnswersAreInOrder
  <2>2. /\ \A i \in 1 .. Len(Incoming) : Current(Incoming[i]) => Current(f)
        /\ Current(f) => conn.toServer = <<>>
    BY <1>0, <1>1, <2>1 DEF AnswersAreInOrder
  <2>3. AnswersAreInOrder'
    <3>1. \A i \in 1 .. Len(Incoming') :
            Known(Incoming'[i]) /\ (Current(Incoming'[i]) => Current(f))
      BY <1>3, <2>1, <2>2 DEF AnswersAreInOrder
    <3>2. \A i, j \in 1 .. Len(Incoming') :
            i < j /\ Current(Incoming'[i]) => Current(Incoming'[j])
      <4> SUFFICES ASSUME NEW i \in 1 .. Len(Incoming'), NEW j \in 1 .. Len(Incoming'),
                          i < j, Current(Incoming'[i])
                   PROVE  Current(Incoming'[j])
        OBVIOUS
      <4>1. i \in 1 .. Len(Incoming) /\ Incoming'[i] = Incoming[i]
        BY <1>2
      <4>2. CASE j = Len(Incoming) + 1
        BY <1>2, <3>1, <4>2
      <4>3. CASE j \in 1 .. Len(Incoming) /\ Incoming'[j] = Incoming[j]
        BY <2>1, <4>1, <4>3 DEF AnswersAreInOrder
      <4> QED
        BY <1>3, <4>2, <4>3
    <3>3. /\ \A i \in 1 .. Len(Incoming') :
               Known(Incoming[i])' /\ (Current(Incoming[i])' => Current(f))
          /\ \A i, j \in 1 .. Len(Incoming') :
               i < j /\ Current(Incoming[i])' => Current(Incoming[j])'
      BY <1>0, <3>1, <3>2 DEF Known, Honest, Current, Previous
    <3>4. Known(conn.latest)' /\ (Current(conn.latest)' <=> Current(f))
      BY <1>0, <1>1, <2>1 DEF Known, Honest, Current, Previous
    <3>5. conn'.toServer \in {<<>>, <<[txn |-> txnId', for |-> transacts']>>}
      BY <1>0, <1>1, <2>1 DEF AnswersAreInOrder
    <3> QED
      BY <1>1, <2>2, <3>3, <3>4, <3>5 DEF AnswersAreInOrder
  <2>4. HeadIsKnown => HeadIsKnown'
    <3> SUFFICES ASSUME HeadIsKnown PROVE HeadIsKnown'
      OBVIOUS
    <3>1. Current(head) => \A i \in 1 .. Len(Incoming') : Current(Incoming'[i])
      BY <1>1, <1>3 DEF HeadIsKnown
    <3> QED
      BY <1>0, <1>1, <3>1 DEF HeadIsKnown, Known, Honest, Current, Previous
  <2>5. Current(head) => Current(head)'
    BY <1>0 DEF Current
  <2>6. ~Dead
    BY <1>0 DEF Dead
  <2>7. /\ Reading(kMbapSize, head.body = 0) => Reading(kMbapSize, head.body = 0)'
        /\ Reading(kMbapSize + got, got = head.length - 1)
             => Reading(kMbapSize + got, got = head.length - 1)'
    BY <1>0, <1>1, <1>2, <2>6 DEF Reading
  <2> QED
    BY <1>0, <1>1, <1>7, <2>1, <2>3, <2>4, <2>5, <2>6, <2>7
       DEF StreamFitsThePlace, Working, Quiet, Awaiting
<1> QED
  BY <1>4, <1>5, <1>6, <1>7 DEF TypeOK, Working, Quiet, Awaiting, Opening, Exchanging

(* The peer closes. *)
LEMMA CloseStream ==
  ASSUME TypeOK, StreamFitsThePlace, PeerCloses
  PROVE  StreamFitsThePlace'
<1>0. /\ UNCHANGED <<sockfd_, txnId_, pc, txnId, got, head, transacts>>
      /\ conn'.state = "closed" /\ conn'.toServer = <<>> /\ conn'.latest = conn.latest
      /\ \/ Incoming' = Incoming /\ conn'.taken = conn.taken
         \/ Incoming' = <<>> /\ conn'.taken = 0
  BY IncomingFrames DEF PeerCloses, link, locals, counts, Connections, Incoming
<1>1. \A i \in 1 .. Len(Incoming') : i \in 1 .. Len(Incoming) /\ Incoming'[i] = Incoming[i]
  <2>1. CASE Incoming' = <<>>
    BY <2>1
  <2>2. CASE Incoming' = Incoming
    BY <2>2
  <2> QED
    BY <1>0, <2>1, <2>2
<1>2. NothingYet => NothingYet'
  BY <1>0 DEF NothingYet
<1>3. AllIsPast => AllIsPast'
  BY <1>0, <1>1 DEF AllIsPast, Past, Honest
<1>4. AnswersAreInOrder => AnswersAreInOrder'
  BY <1>0, <1>1 DEF AnswersAreInOrder, Known, Honest, Current, Previous
<1>5. HeadIsKnown => HeadIsKnown'
  BY <1>0, <1>1 DEF HeadIsKnown, Known, Honest, Current, Previous
<1>6. Current(head) => Current(head)'
  BY <1>0 DEF Current
<1>7. /\ Dead => Dead'
      /\ conn.taken = got => Dead' \/ conn'.taken = got'
      /\ Reading(kMbapSize, head.body = 0) => Reading(kMbapSize, head.body = 0)'
      /\ Reading(kMbapSize + got, got = head.length - 1)
           => Reading(kMbapSize + got, got = head.length - 1)'
  BY <1>0 DEF Reading, Dead
<1> QED
  BY <1>0, <1>2, <1>3, <1>4, <1>5, <1>6, <1>7 DEF StreamFitsThePlace, isOpen

(* A step of the caller that is not about received bytes: the stream       *)
(* becomes the past of the next request, or there is no connection.        *)
LEMMA CallerStream ==
  ASSUME TypeOK, DescriptorsAreAccounted, PlaceFitsTheSocket, StreamFitsThePlace,
         CallOpen \/ CallTransact \/ Close \/ OpenStep \/ NotConnected
           \/ SendFails \/ ReceiveFails \/ Reject
  PROVE  StreamFitsThePlace'
<1> USE DEF Working, Quiet, Awaiting, Opening, Exchanging
<1>0. s # None => ~isOpen
  BY DEF DescriptorsAreAccounted
<1>1. /\ pc \in Working => NothingYet /\ ~isOpen
      /\ isOpen /\ pc \in Quiet => AllIsPast
  BY <1>0 DEF StreamFitsThePlace, PlaceFitsTheSocket
<1>2. /\ Incoming \in Seq(Frames) /\ conn \in Connections
      /\ \A i \in 1 .. Len(Incoming) : Incoming[i] \in Frames
      /\ conn.latest \in Frames /\ transacts \in Nat
      /\ \A f \in Frames : f.for \in Nat
  BY IncomingFrames, FrameType
<1>3. CASE CallOpen
  <2>1. UNCHANGED <<sockfd_, txnId_, conn, transacts>> /\ pc' = "socket"
    BY <1>3 DEF CallOpen, link
  <2>2. isOpen => AllIsPast'
    BY <1>1, <1>3, <2>1 DEF CallOpen, AllIsPast, Past, Honest, Incoming
  <2> QED
    BY <2>1, <2>2 DEF StreamFitsThePlace, isOpen
<1>4. CASE CallTransact
  <2>1. UNCHANGED <<sockfd_, txnId_, conn>> /\ transacts' = transacts + 1 /\ pc' = "send"
    BY <1>4 DEF CallTransact, link
  <2>2. isOpen => AllIsPast
    BY <1>1, <1>4 DEF CallTransact
  <2>3. \A f \in Frames : Past(f) => Past(f)'
    BY <1>2, <2>1 DEF Past, Honest
  <2>4. isOpen => AllIsPast'
    BY <1>2, <2>1, <2>2, <2>3 DEF AllIsPast, Past, Honest, Incoming
  <2> QED
    BY <2>1, <2>4 DEF StreamFitsThePlace, isOpen
<1>5. CASE Close
  BY <1>5 DEF Close, StreamFitsThePlace, isOpen
<1>6. CASE AlreadyOpen
  <2>1. UNCHANGED <<sockfd_, txnId_, conn, transacts>> /\ pc' = "idle"
    BY <1>6 DEF AlreadyOpen, Return, link, counts
  <2>2. AllIsPast'
    BY <1>1, <1>6, <2>1 DEF AlreadyOpen, AllIsPast, Past, Honest, Incoming
  <2> QED
    BY <2>1, <2>2 DEF StreamFitsThePlace
<1>7. CASE Socket
  <2>1. conn' = NoConn /\ pc' = "resolve" /\ sockfd_' = sockfd_ /\ ~isOpen
    BY <1>7 DEF Socket, link
  <2>2. NothingYet'
    BY <2>1 DEF NothingYet, NoConn, Incoming
  <2> QED
    BY <2>1, <2>2 DEF StreamFitsThePlace, isOpen
<1>8. CASE SocketFails \/ NotConnected
  BY <1>8 DEF SocketFails, NotConnected, Return, StreamFitsThePlace, isOpen, link
<1>9. CASE OpenFails
  BY <1>1, <1>9 DEF OpenFails, Return, StreamFitsThePlace, isOpen, link
<1>10. CASE Resolved \/ Connected \/ Writable
  <2>1. /\ sockfd_' = sockfd_ /\ pc' \in Working /\ NothingYet
        /\ ~isOpen
    BY <1>1, <1>10 DEF Resolved, Connected, Writable, link
  <2>2. NothingYet'
    BY <1>2, <1>10, <2>1 DEF Resolved, Connected, Writable, NothingYet, Incoming, Connections
  <2> QED
    BY <2>1, <2>2 DEF StreamFitsThePlace, isOpen
<1>11. CASE Opened
  <2>1. pc' = "idle" /\ NothingYet /\ conn' = [conn EXCEPT !.blocking = TRUE]
    BY <1>1, <1>11 DEF Opened, Return
  <2>2. AllIsPast'
    BY <1>2, <2>1 DEF NothingYet, AllIsPast, Incoming, Connections
  <2> QED
    BY <2>1, <2>2 DEF StreamFitsThePlace
<1>12. CASE SendFails \/ ReceiveFails \/ Reject
  BY <1>12 DEF SendFails, ReceiveFails, Reject, Fail, Return, StreamFitsThePlace, isOpen
<1> QED
  BY <1>3, <1>4, <1>5, <1>6, <1>7, <1>8, <1>9, <1>10, <1>11, <1>12 DEF OpenStep

(* Each step leaves the stream as the place of the caller requires.        *)
LEMMA StreamStep ==
  ASSUME TypeOK, DescriptorsAreAccounted, PlaceFitsTheSocket, StreamFitsThePlace, [Next]_vars
  PROVE  StreamFitsThePlace'
<1>1. CASE Caller \/ OpenStep \/ NotConnected \/ SendFails \/ ReceiveFails \/ Reject
  BY <1>1, CallerStream DEF Caller
<1>2. CASE Send
  BY <1>2, SendStream
<1>3. CASE Receive
  BY <1>3, HeaderStream, BodyStream DEF Receive
<1>4. CASE Accept
  BY <1>4, AcceptStream
<1>5. CASE Answered
  BY <1>5, AnsweredStream
<1>6. CASE Peer
  BY <1>6, AnswerStream, RepeatStream, CloseStream DEF Peer
<1>7. CASE UNCHANGED vars
  BY <1>7 DEF vars, link, locals, results, counts, StreamFitsThePlace, isOpen, NothingYet,
              AllIsPast, Past, Honest, AnswersAreInOrder, HeadIsKnown, Known, Current, Previous,
              Incoming, Reading, Dead
<1> QED
  BY <1>1, <1>2, <1>3, <1>4, <1>5, <1>6, <1>7 DEF Next, TransactStep

(* A reply is kept until the next transact(), which begins without one.    *)
LEMMA ReplyStep ==
  ASSUME TypeOK, StreamFitsThePlace, reply # NoReply => reply.for = transacts, [Next]_vars
  PROVE  (reply # NoReply => reply.for = transacts)'
<1>1. CASE Answered
  BY <1>1, AnsweredStream
<1>2. CASE CallTransact
  BY <1>2 DEF CallTransact, NoReply
<1>3. CASE CallOpen \/ Close \/ OpenStep \/ Peer
  BY <1>3 DEF CallOpen, Close, OpenStep, AlreadyOpen, Socket, SocketFails, OpenFails, Resolved,
              Connected, Writable, Opened, Peer, PeerAnswers, PeerRepeats, PeerCloses,
              results, counts, NoReply
<1>4. CASE NotConnected \/ Send \/ SendFails \/ Receive \/ ReceiveFails \/ Accept \/ Reject
  BY <1>4 DEF NotConnected, Send, SendFails, Receive, ReceiveFails, Accept, Reject, results,
              counts, NoReply
<1>5. CASE UNCHANGED vars
  BY <1>5 DEF vars, results, counts, NoReply
<1> QED
  BY <1>1, <1>2, <1>3, <1>4, <1>5 DEF Next, Caller, TransactStep

(* The link begins in the invariant. *)
LEMMA InitialInv == Init => IInv
<1> SUFFICES ASSUME Init PROVE IInv
  OBVIOUS
<1>1. TypeOK
  BY Facts, Defaults DEF Init, TypeOK, NoReply
<1>2. DescriptorsAreAccounted /\ PlaceFitsTheSocket
  BY DEF Init, DescriptorsAreAccounted, PlaceFitsTheSocket, isOpen, None, Working, Awaiting
<1>3. StreamFitsThePlace
  BY DEF Init, StreamFitsThePlace, isOpen, Working, Quiet, Awaiting
<1> QED
  BY <1>1, <1>2, <1>3 DEF IInv, Init

(* Each step keeps the invariant. *)
LEMMA NextInv == IInv /\ [Next]_vars => IInv'
  BY TypesStep, DescriptorsStep, PlaceStep, StreamStep, ReplyStep DEF IInv

(* The inductive invariant holds in every reachable state.                 *)
THEOREM Invariance == Safety => []IInv
  BY InitialInv, NextInv, PTL DEF Safety

(* Every variable of the link keeps its type: the transaction id stays     *)
(* between 1 and MaxTxn, and a descriptor is one the process may hold.     *)
THEOREM TypeCorrectness == Safety => []TypeOK
<1>1. IInv => TypeOK
  BY DEF IInv
<1> QED
  BY <1>1, Invariance, PTL

(* No path through open(), close() or a failed transact() leaks a          *)
(* descriptor or closes one twice (tcp_link.cpp:63-137).                   *)
THEOREM DescriptorsAreSafe == Safety => []DescriptorsAreAccounted
<1>1. IInv => DescriptorsAreAccounted
  BY DEF IInv
<1> QED
  BY <1>1, Invariance, PTL

(* Whatever the peer sends or repeats, a link that is open between two     *)
(* calls stands at the start of a frame and is owed no answer              *)
(* (tcp_link.cpp:239-274).                                                 *)
THEOREM StreamStaysInSync == Safety => []ExchangesStartInSync
<1>1. IInv => ExchangesStartInSync
  BY DEF IInv, StreamFitsThePlace, ExchangesStartInSync, AllIsPast, Quiet
<1> QED
  BY <1>1, Invariance, PTL

(* transact() never returns an answer to an earlier request, for every     *)
(* range of transaction ids of at least two (tcp_link.cpp:208-209, 252).   *)
THEOREM RepliesAreForTheRequest == Safety => []ReplyIsForThisRequest
<1>1. IInv => ReplyIsForThisRequest
  BY DEF IInv, ReplyIsForThisRequest
<1> QED
  BY <1>1, Invariance, PTL

(* A step of TcpLink is a step of Link, or none of its variables changes.  *)
LEMMA LinkStep == IInv /\ [Next]_vars => [L!LinkNext]_L!linkVars
<1> SUFFICES ASSUME IInv, [Next]_vars PROVE [L!LinkNext]_L!linkVars
  OBVIOUS
<1> DEFINE callOf(p) == CASE p = "idle"       -> "none"
                          [] p \in Opening    -> "open"
                          [] p \in Exchanging -> "transact"
<1>c. /\ callOf("idle") = "none"
      /\ \A p \in Opening : callOf(p) = "open"
      /\ \A p \in Exchanging : callOf(p) = "transact"
  BY DEF Opening, Exchanging
<1>o. pc \in Opening \cup Exchanging \cup {"idle"} /\ s \in Fds \cup {None} /\ None \notin Fds
      /\ (pc \in Working <=> s # None) /\ (s # None => ~isOpen) /\ (pc \in Awaiting => isOpen)
  BY Facts DEF IInv, TypeOK, DescriptorsAreAccounted, PlaceFitsTheSocket, None
<1> HIDE DEF callOf
<1>l. /\ L!linkVars = <<isOpen, callOf(pc), outcome>>
      /\ L!linkVars' = <<isOpen', callOf(pc'), outcome'>>
  BY DEF L!linkVars, callOf
<1> DEFINE Stutters == isOpen' = isOpen /\ callOf(pc') = callOf(pc) /\ outcome' = outcome
<1>s. Stutters => L!linkVars' = L!linkVars
  BY <1>l
<1> USE DEF Opening, Exchanging, Working, Awaiting, link, locals, results, counts
<1>1. CASE CallOpen
  <2>1. callOf(pc) = "none" /\ callOf(pc') = "open" /\ isOpen' = isOpen /\ outcome' = outcome
    BY <1>1, <1>c DEF CallOpen, isOpen
  <2> QED
    BY <2>1 DEF L!LinkNext, L!BeginOpen, callOf
<1>2. CASE CallTransact
  <2>1. callOf(pc) = "none" /\ callOf(pc') = "transact" /\ isOpen' = isOpen /\ outcome' = outcome
    BY <1>2, <1>c DEF CallTransact, isOpen
  <2> QED
    BY <2>1 DEF L!LinkNext, L!BeginTransact, callOf
<1>3. CASE Close
  <2>1. callOf(pc) = "none" /\ callOf(pc') = "none" /\ isOpen' = FALSE /\ outcome' = outcome
    BY <1>3, <1>c DEF Close, isOpen
  <2> QED
    BY <2>1 DEF L!LinkNext, L!Close, callOf
<1>4. CASE AlreadyOpen \/ SocketFails \/ OpenFails \/ Opened
  <2>1. /\ callOf(pc) = "open" /\ callOf(pc') = "none" /\ outcome' \in {"None", "Transport"}
        /\ isOpen' = (outcome' = "None")
    BY <1>4, <1>c, <1>o DEF AlreadyOpen, SocketFails, OpenFails, Opened, Return, isOpen
  <2>2. L!EndOpen(outcome')
    BY <2>1 DEF L!EndOpen, callOf
  <2> QED
    BY <2>1, <2>2 DEF L!LinkNext
<1>5. CASE Socket \/ Resolved \/ Connected \/ Writable
  <2>1. Stutters
    BY <1>5, <1>c DEF Socket, Resolved, Connected, Writable, isOpen
  <2> QED
    BY <2>1, <1>s
<1>6. CASE Send \/ Receive \/ Accept
  <2>1. Stutters
    BY <1>6, <1>c DEF Send, Receive, Accept, NextTxn, isOpen
  <2> QED
    BY <2>1, <1>s
<1>7. CASE NotConnected \/ SendFails \/ ReceiveFails \/ Reject \/ Answered
  <2>1. /\ callOf(pc) = "transact" /\ callOf(pc') = "none"
        /\ outcome' \in {"None", "Transport", "Protocol"}
        /\ ~isOpen => outcome' = "Transport"
        /\ isOpen' = (isOpen /\ outcome' = "None")
    BY <1>7, <1>c, <1>o
       DEF NotConnected, SendFails, ReceiveFails, Reject, Answered, Fail, Return, isOpen
  <2>2. L!EndTransact(outcome')
    BY <2>1 DEF L!EndTransact, callOf
  <2> QED
    BY <2>1, <2>2 DEF L!LinkNext
<1>8. CASE Peer
  <2>1. Stutters
    BY <1>8 DEF Peer, PeerAnswers, PeerRepeats, PeerCloses, isOpen
  <2> QED
    BY <2>1, <1>s
<1>9. CASE UNCHANGED vars
  <2>1. Stutters
    BY <1>9 DEF vars, isOpen
  <2> QED
    BY <2>1, <1>s
<1> QED
  BY <1>1, <1>2, <1>3, <1>4, <1>5, <1>6, <1>7, <1>8, <1>9 DEF Next, Caller, OpenStep, TransactStep

(* TcpLink keeps what ModbusClient relies on in a link: its calls follow   *)
(* one another and every failed transact() closes the connection.          *)
THEOREM TcpLinkIsALink == Safety => L!LinkSafety
<1>1. Init => L!LinkInit
  BY DEF Init, L!LinkInit, isOpen, None, Opening, Exchanging
<1> QED
  BY <1>1, LinkStep, Invariance, PTL DEF Safety, L!LinkSafety
=============================================================================
