------------------------------ MODULE TcpLink ------------------------------
(***************************************************************************)
(* TcpLink (src/tcp_link.cpp): the socket, MBAP framing and the timeouts,  *)
(* with a sequential caller on one side and a TCP peer on the other.       *)
(*                                                                         *)
(* TCP delivers bytes in order and cuts them anywhere, so the bytes on     *)
(* their way to the client are a sequence of frames and recv() takes any   *)
(* number of them.  A frame is what the code reads of it: the three fields *)
(* of the MBAP header, the number of bytes after the 7-byte header and,    *)
(* as history, the transact() the peer made it for.  A timeout may strike  *)
(* whenever the code waits, and after the last byte as well, since recvAll *)
(* looks at its deadline once more when it has everything.                 *)
(*                                                                         *)
(* The peer may answer late, repeat its last answer, send a frame with a   *)
(* wrong protocol or length field, and close at any time.  It is honest    *)
(* about how many bytes follow a header.                                   *)
(***************************************************************************)
EXTENDS Integers, Sequences, FiniteSetsExt

CONSTANTS
  MaxTxn,          \* the largest transaction id, 65535 in the code
  Fds,             \* descriptors the process may hold
  BodySizes,       \* bytes after the MBAP header in an answer
  Faults,          \* what a faulty peer does: "repeat", "protocol", "length"
  MaxTransacts, MaxOpens, MaxUnread       \* bounds

ASSUME TcpAssumption ==
  /\ MaxTxn \in Nat /\ MaxTxn >= 2
  /\ Fds # {} /\ Fds \subseteq Nat
  /\ BodySizes \subseteq Nat \ {0}
  /\ MaxTransacts \in Nat /\ MaxOpens \in Nat /\ MaxUnread \in Nat

VARIABLES
  sockfd_, txnId_,
  pc,              \* where the caller is
  s, txnId, got, head,       \* locals of open(), transact() and recvAll()
  outcome, reply,  \* what the last call returned
  held,            \* the descriptors the process has not closed
  conn,            \* the connection of the latest socket
  transacts, opens

link    == <<sockfd_, txnId_>>
locals  == <<s, txnId, got, head>>
results == <<outcome, reply>>
counts  == <<transacts, opens>>
vars    == <<link, pc, locals, results, held, conn, counts>>

None      == -1                      \* no descriptor
NoFrame   == [txn |-> 0, protocol |-> 0, length |-> 0, body |-> 0, for |-> 0]
NoReply   == [for |-> 0, size |-> 0]
NoConn    == [state |-> "none", blocking |-> TRUE, toServer |-> <<>>,
              toClient |-> <<>>, taken |-> 0, latest |-> NoFrame]

Opening    == {"socket", "resolve", "connect", "select", "opened"}
Exchanging == {"send", "header", "check", "body"}

kMbapSize == 7
Unread(c) == IF c.toClient = <<>> THEN 0 ELSE kMbapSize + Head(c.toClient).body - c.taken

isOpen == sockfd_ # None

Init ==
  /\ sockfd_ = None /\ txnId_ = 1
  /\ pc = "idle"
  /\ s = None /\ txnId = 0 /\ got = 0 /\ head = NoFrame
  /\ outcome = "None" /\ reply = NoReply
  /\ held = {} /\ conn = NoConn
  /\ transacts = 0 /\ opens = 0

-----------------------------------------------------------------------------
(* A call ends. *)
Return(category) ==
  /\ pc' = "idle"
  /\ outcome' = category
  /\ txnId' = 0 /\ got' = 0 /\ head' = NoFrame

CloseSocket(fd) ==
  /\ held' = held \ {fd}
  /\ conn' = NoConn

-----------------------------------------------------------------------------
(* open() *)
CallOpen ==
  /\ pc = "idle" /\ opens < MaxOpens
  /\ opens' = opens + 1
  /\ pc' = "socket"
  /\ UNCHANGED <<link, locals, results, held, conn, transacts>>

AlreadyOpen ==
  /\ pc = "socket" /\ isOpen
  /\ Return("None")
  /\ UNCHANGED <<link, s, reply, held, conn, counts>>

Socket ==
  /\ pc = "socket" /\ ~isOpen
  /\ \E fd \in Fds \ held :
       /\ s' = fd
       /\ held' = held \cup {fd}
  /\ conn' = NoConn
  /\ pc' = "resolve"
  /\ UNCHANGED <<link, txnId, got, head, results, counts>>

SocketFails ==
  /\ pc = "socket" /\ ~isOpen
  /\ Return("Transport")
  /\ UNCHANGED <<link, s, reply, held, conn, counts>>

(* Mutant: the error path of getaddrinfo() keeps the socket. *)
OpenFails_Leaks ==
  /\ pc \in {"resolve", "connect", "select"}
  /\ IF pc = "resolve" THEN UNCHANGED <<held, conn>> ELSE CloseSocket(s)
  /\ s' = None
  /\ Return("Transport")
  /\ UNCHANGED <<link, reply, counts>>

(* getaddrinfo() fails; connect() fails at once; select() fails or reports *)
(* nothing within connectTimeout: each path closes the socket.             *)
OpenFails ==
  /\ pc \in {"resolve", "connect", "select"}
  /\ CloseSocket(s)
  /\ s' = None
  /\ Return("Transport")
  /\ UNCHANGED <<link, reply, counts>>

(* The host is resolved and the socket made non-blocking. *)
Resolved ==
  /\ pc = "resolve"
  /\ conn' = [conn EXCEPT !.blocking = FALSE]
  /\ pc' = "connect"
  /\ UNCHANGED <<link, locals, results, held, counts>>

(* connect() succeeds at once, or is under way. *)
Connected ==
  /\ pc = "connect"
  /\ \/ conn' = [conn EXCEPT !.state = "up"] /\ pc' = "opened"
     \/ conn' = [conn EXCEPT !.state = "pending"] /\ pc' = "select"
  /\ UNCHANGED <<link, locals, results, held, counts>>

(* select() reports the socket writable: it does so when the handshake is  *)
(* over, whether it succeeded or failed, and SO_ERROR is not read.         *)
Writable ==
  /\ pc = "select"
  /\ \E state \in {"up", "refused"} : conn' = [conn EXCEPT !.state = state]
  /\ pc' = "opened"
  /\ UNCHANGED <<link, locals, results, held, counts>>

Opened ==
  /\ pc = "opened"
  /\ conn' = [conn EXCEPT !.blocking = TRUE]
  /\ sockfd_' = s
  /\ txnId_' = 1
  /\ s' = None
  /\ Return("None")
  /\ UNCHANGED <<reply, held, counts>>

(* close(), also called by the destructor. *)
Close ==
  /\ pc = "idle"
  /\ IF isOpen THEN CloseSocket(sockfd_) ELSE UNCHANGED <<held, conn>>
  /\ sockfd_' = None
  /\ UNCHANGED <<txnId_, pc, locals, results, counts>>

-----------------------------------------------------------------------------
(* transact() *)
CallTransact ==
  /\ pc = "idle" /\ transacts < MaxTransacts
  /\ transacts' = transacts + 1
  /\ reply' = NoReply
  /\ pc' = "send"
  /\ UNCHANGED <<link, locals, outcome, held, conn, opens>>

NotConnected ==
  /\ pc = "send" /\ ~isOpen
  /\ Return("Transport")
  /\ UNCHANGED <<link, s, reply, held, conn, counts>>

(* txnId_++ of a uint16_t, which skips 0. *)
NextTxn == txnId_' = (txnId_ % MaxTxn) + 1

(* The whole request is handed to TCP; it arrives if the peer is there. *)
Send ==
  /\ pc = "send" /\ isOpen
  /\ conn.state # "refused"
  /\ txnId' = txnId_
  /\ NextTxn
  /\ conn' = IF conn.state = "up"
             THEN [conn EXCEPT !.toServer = Append(@, [txn |-> txnId_, for |-> transacts])]
             ELSE conn
  /\ got' = 0
  /\ pc' = "header"
  /\ UNCHANGED <<sockfd_, s, head, results, held, counts>>

(* Every error of transact() that follows closes the socket. *)
Fail(category) ==
  /\ CloseSocket(sockfd_)
  /\ sockfd_' = None
  /\ Return(category)

SendFails ==
  /\ pc = "send" /\ isOpen
  /\ conn.state # "up"
  /\ NextTxn
  /\ Fail("Transport")
  /\ UNCHANGED <<s, reply, counts>>

(* recv() hands over n of the bytes the current recvAll() still wants. *)
Take(n) ==
  LET first == Head(conn.toClient)
      taken == conn.taken + n
  IN  conn' = IF taken = kMbapSize + first.body
              THEN [conn EXCEPT !.toClient = Tail(@), !.taken = 0]
              ELSE [conn EXCEPT !.taken = taken]

(* A part of what the peer has sent, within the deadline.  head is the     *)
(* frame the header belongs to: its fields are parsed in Accept.           *)
Receive ==
  LET wanted == IF pc = "header" THEN kMbapSize ELSE head.length - 1
  IN  /\ pc \in {"header", "body"}
      /\ got < wanted
      /\ \E n \in 1 .. Min({wanted - got, Unread(conn)}) :
           /\ Take(n)
           /\ got' = got + n
           /\ head' = IF pc = "header" THEN Head(conn.toClient) ELSE head
           /\ pc' = IF got + n < wanted \/ pc = "body" THEN pc ELSE "check"
      /\ UNCHANGED <<link, s, txnId, results, held, counts>>

(* Mutant: a receive that times out leaves the connection open. *)
ReceiveFails_KeepsOpen ==
  /\ pc \in {"header", "check", "body"}
  /\ Return("Transport")
  /\ UNCHANGED <<link, s, reply, held, conn, counts>>

(* The deadline passes, before or after the last byte, or the peer has     *)
(* closed and there is nothing left to read.                               *)
ReceiveFails ==
  /\ pc \in {"header", "check", "body"}
  /\ Fail("Transport")
  /\ UNCHANGED <<txnId_, s, reply, counts>>

(* Mutant: the transaction id of the reply is not compared. *)
WellFormed_IgnoresTxn == head.protocol = 0 /\ head.length >= 2

(* The three tests on the MBAP header of a reply. *)
WellFormed == head.protocol = 0 /\ head.txn = txnId /\ head.length >= 2

Accept ==
  /\ pc = "check"
  /\ WellFormed
  /\ got' = 0
  /\ pc' = "body"
  /\ UNCHANGED <<link, s, txnId, head, results, held, conn, counts>>

(* Mutant: an error in the header leaves the connection open. *)
Reject_KeepsOpen ==
  /\ pc = "check"
  /\ ~WellFormed
  /\ Return("Protocol")
  /\ UNCHANGED <<link, s, reply, held, conn, counts>>

Reject ==
  /\ pc = "check"
  /\ ~WellFormed
  /\ Fail("Protocol")
  /\ UNCHANGED <<txnId_, s, reply, counts>>

Answered ==
  /\ pc = "body" /\ got = head.length - 1
  /\ reply' = [for |-> head.for, size |-> head.length - 1]
  /\ Return("None")
  /\ UNCHANGED <<link, s, held, conn, counts>>

-----------------------------------------------------------------------------
(* The peer. *)
Alive == conn.state = "up" /\ Len(conn.toClient) < MaxUnread

Put(frame, c) == [c EXCEPT !.toClient = Append(@, frame), !.latest = frame]

(* An answer to a request, in good order or with a faulty header. *)
PeerAnswers ==
  /\ Alive /\ conn.toServer # <<>>
  /\ \E body \in BodySizes :
       LET req  == Head(conn.toServer)
           good == [txn |-> req.txn, protocol |-> 0, length |-> 1 + body, body |-> body,
                    for |-> req.for]
           bad  == (IF "protocol" \in Faults THEN {[good EXCEPT !.protocol = 1]} ELSE {})
                   \cup (IF "length" \in Faults
                         THEN {[good EXCEPT !.length = n, !.body = 0] : n \in {0, 1}} ELSE {})
       IN  \E frame \in {good} \cup bad :
             conn' = [Put(frame, conn) EXCEPT !.toServer = Tail(@)]
  /\ UNCHANGED <<link, pc, locals, results, held, counts>>

PeerRepeats ==
  /\ "repeat" \in Faults
  /\ Alive /\ conn.latest # NoFrame
  /\ conn' = Put(conn.latest, conn)
  /\ UNCHANGED <<link, pc, locals, results, held, counts>>

(* The peer closes, with or without what it had sent still to be read. *)
PeerCloses ==
  /\ conn.state = "up"
  /\ \/ conn' = [conn EXCEPT !.state = "closed", !.toServer = <<>>]
     \/ conn' = [conn EXCEPT !.state = "closed", !.toServer = <<>>,
                             !.toClient = <<>>, !.taken = 0]
  /\ UNCHANGED <<link, pc, locals, results, held, counts>>

-----------------------------------------------------------------------------
OpenStep  == AlreadyOpen \/ Socket \/ SocketFails \/ OpenFails \/ Resolved
             \/ Connected \/ Writable \/ Opened
TransactStep == NotConnected \/ Send \/ SendFails \/ Receive \/ ReceiveFails
                \/ Accept \/ Reject \/ Answered
Caller == CallOpen \/ CallTransact \/ Close
Peer   == PeerAnswers \/ PeerRepeats \/ PeerCloses

Next == Caller \/ OpenStep \/ TransactStep \/ Peer

Safety == Init /\ [][Next]_vars

(* The code runs on and its waits end: connect, select and recv have       *)
(* timeouts, and send() has room for a request of at most 260 bytes.       *)
Spec == Safety /\ WF_vars(OpenStep) /\ WF_vars(TransactStep)

-----------------------------------------------------------------------------
Frames      == [txn : 0 .. MaxTxn, protocol : Nat, length : Nat, body : Nat, for : Nat]
Requests    == [txn : 1 .. MaxTxn, for : Nat]
Connections == [state : {"none", "pending", "up", "refused", "closed"}, blocking : BOOLEAN,
                toServer : Seq(Requests), toClient : Seq(Frames), taken : Nat,
                latest : Frames]

TypeOK ==
  /\ sockfd_ \in Fds \cup {None}
  /\ txnId_ \in 1 .. MaxTxn
  /\ pc \in {"idle"} \cup Opening \cup Exchanging
  /\ s \in Fds \cup {None}
  /\ txnId \in 0 .. MaxTxn
  /\ got \in Nat
  /\ head \in Frames
  /\ outcome \in {"None", "Transport", "Protocol"}
  /\ reply \in [for : Nat, size : Int]
  /\ held \subseteq Fds
  /\ conn \in Connections
  /\ transacts \in Nat /\ opens \in Nat

(* The process holds the socket of the open link, or the one open() is     *)
(* working on, and no other: no error path leaks one or closes one twice,  *)
(* and a link in use has its socket back in blocking mode.                 *)
(* (tcp_link.cpp:63-128, 132-137.)                                         *)
DescriptorsAreAccounted ==
  /\ held = {sockfd_, s} \ {None}
  /\ s # None => ~isOpen /\ pc \in Opening
  /\ isOpen => conn.blocking

(* Between two calls an open link is in step with its peer: the stream     *)
(* stands at the start of a frame, so that no reply, refused header or     *)
(* timeout leaves part of a frame for the next transact() to take for a    *)
(* header; and the peer owes no answer, since a request that was given up  *)
(* takes its connection with it.  (tcp_link.cpp:239-274.)                  *)
ExchangesStartInSync ==
  isOpen /\ pc \in {"idle", "send"} => conn.taken = 0 /\ conn.toServer = <<>>

(* A PDU that transact() returns was sent in answer to the request of that *)
(* same transact(), even by a peer that repeats its answers and after the  *)
(* ids have wrapped.  (tcp_link.cpp:208-209, 252.)                         *)
ReplyIsForThisRequest ==
  pc = "idle" /\ reply # NoReply => reply.for = transacts

(* TcpLink is a Link that closes on every failed transact(), and each of   *)
(* its calls ends.  (What ModbusClient builds on; link.hpp:12-23.)         *)
L == INSTANCE Link WITH
       KeepsOpen   <- {},
       linkOpen    <- isOpen,
       linkCall    <- CASE pc = "idle"        -> "none"
                        [] pc \in Opening     -> "open"
                        [] pc \in Exchanging  -> "transact",
       linkOutcome <- outcome

ImplementsLink == L!LinkSpec

(* error.hpp:12 lists "connect failed" under Transport: open() answers ok  *)
(* only when the peer accepted the connection.                             *)
OpenMeansConnected == isOpen => conn.state # "refused"

-----------------------------------------------------------------------------
(* The strengthening that makes the invariants above inductive.            *)
Working  == {"resolve", "connect", "select", "opened"}
Quiet    == {"idle", "socket", "send"}
Awaiting == {"header", "check", "body"}

(* open() has a socket exactly between socket() and its end, and a closed  *)
(* link has no connection.                                                 *)
PlaceFitsTheSocket ==
  /\ pc \in Working <=> s # None
  /\ ~isOpen /\ s = None => conn = NoConn
  /\ pc \in Awaiting => isOpen

(* The peer says how many bytes follow a header, unless it is faulty.      *)
Honest(f) == f.length = 1 + f.body \/ (f.length \in {0, 1} /\ f.body = 0)

Succ(txn) == (txn % MaxTxn) + 1

(* An answer to the request in progress, or to the one before it on the    *)
(* same connection.                                                        *)
Current(f)  == f.txn = txnId /\ f.for = transacts
Previous(f) == f.txn >= 1 /\ Succ(f.txn) = txnId /\ f.for < transacts

Known(f)    == Honest(f) /\ (Current(f) \/ Previous(f))
Past(f)     == Honest(f) /\ f.txn >= 1 /\ Succ(f.txn) = txnId_ /\ f.for <= transacts
                         /\ (pc = "send" => f.for < transacts)

Incoming == conn.toClient

NothingYet ==
  conn.toServer = <<>> /\ Incoming = <<>> /\ conn.latest = NoFrame /\ conn.taken = 0

AllIsPast ==
  /\ conn.toServer = <<>> /\ conn.taken = 0
  /\ \A i \in 1 .. Len(Incoming) : Past(Incoming[i])
  /\ conn.latest # NoFrame => Past(conn.latest)

(* Behind an answer to this request there are only repetitions of it.      *)
AnswersAreInOrder ==
  /\ \A i \in 1 .. Len(Incoming) : Known(Incoming[i])
  /\ conn.latest # NoFrame => Known(conn.latest)
  /\ \A i, j \in 1 .. Len(Incoming) : i < j /\ Current(Incoming[i]) => Current(Incoming[j])
  /\ \A i \in 1 .. Len(Incoming) :
       Current(Incoming[i]) => conn.toServer = <<>> /\ Current(conn.latest)
  /\ conn.latest # NoFrame /\ Current(conn.latest) => conn.toServer = <<>>
  /\ conn.toServer \in {<<>>, <<[txn |-> txnId, for |-> transacts]>>}

(* The frame whose header was read, and what is behind it.                 *)
HeadIsKnown ==
  /\ Known(head)
  /\ Current(head) => /\ conn.toServer = <<>>
                      /\ conn.latest # NoFrame /\ Current(conn.latest)
                      /\ \A i \in 1 .. Len(Incoming) : Current(Incoming[i])

(* The peer closed and what it had sent was lost: no byte comes any more.  *)
Dead == conn.state # "up" /\ Incoming = <<>> /\ conn.taken = 0

(* n bytes of head were taken, all it has when last holds.                 *)
Reading(n, last) ==
  \/ Dead
  \/ last /\ conn.taken = 0
  \/ ~last /\ conn.taken = n /\ Incoming # <<>> /\ Head(Incoming) = head

StreamFitsThePlace ==
  /\ pc \in Working => NothingYet
  /\ isOpen /\ pc \in Quiet => AllIsPast
  /\ pc \in Awaiting => txnId \in 1 .. MaxTxn /\ txnId_ = Succ(txnId) /\ AnswersAreInOrder
  /\ pc = "header" => got < kMbapSize /\ (Dead \/ conn.taken = got)
  /\ pc = "check"  => HeadIsKnown /\ Reading(kMbapSize, head.body = 0)
  /\ pc = "body"   => /\ HeadIsKnown /\ Current(head) /\ head.length >= 2
                      /\ got <= head.length - 1
                      /\ Reading(kMbapSize + got, got = head.length - 1)

IInv ==
  /\ TypeOK
  /\ DescriptorsAreAccounted
  /\ PlaceFitsTheSocket
  /\ StreamFitsThePlace
  /\ reply # NoReply => reply.for = transacts
=============================================================================
