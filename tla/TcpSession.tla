----------------------------- MODULE TcpSession -----------------------------
(***************************************************************************)
(* ModbusClient over TCP connections to the threaded server of             *)
(* tests/modbus_test_server.py: what its retries and reconnections do to   *)
(* the device behind the connection.                                       *)
(*                                                                         *)
(* The client is module ModbusClient; its link is reduced to what TcpLink  *)
(* is shown to guarantee (a Link that closes on every failed transact(),   *)
(* ExchangesStartInSync, ReplyIsForThisRequest); its outcomes come from the *)
(* connection.  Every connection has a thread of the server.  A request    *)
(* whose connection the client has closed still lies in front of its       *)
(* thread, and is late: it is executed at any time after, in any order     *)
(* with the requests of other connections, or lost with its connection.    *)
(*                                                                         *)
(* The server executes and answers in one step, since the client cannot    *)
(* tell a reply that is not sent from one that does not arrive.            *)
(***************************************************************************)
EXTENDS ModbusClient, TestServer, SequencesExt

(* The link is a TcpLink.                                                  *)
ASSUME TcpLinkAssumption == KeepsOpen = {}

VARIABLES
  conn,       \* the connection of the open link
  late,       \* requests on connections that the client has closed
  memory,     \* the tables of the server
  executed,   \* history: the transactions it has executed, in order
  answered,   \* history: the transactions whose answer the client took, in order
  trouble     \* what the call that holds the mutex met: see Troubles

session == <<conn, late, memory, executed, answered, trouble>>

(* A transaction: the try-th of a call of a thread. *)
Transaction(t, try) == [thread |-> t, call |-> calls[t], try |-> try]

(* up: the server's end is open; the client may not have noticed yet.      *)
NoConn == [up |-> FALSE, requests |-> <<>>, replies |-> <<>>]
Dialled(up) == [NoConn EXCEPT !.up = up]

(* "stale": when the call got the mutex, the server had already left the   *)
(* connection of the open link.  "some": since then a connection was lost, *)
(* could not be made or was refused, or an answer did not come in time.    *)
Troubles == {"none", "stale", "some"}

SessionInit ==
  /\ Init
  /\ conn = NoConn /\ late = {}
  /\ memory = [coils |-> [i \in 0 .. Size - 1 |-> FALSE],
               holding_regs |-> [i \in 0 .. Size - 1 |-> 0]]
  /\ executed = <<>> /\ answered = <<>>
  /\ trouble = "none"

-----------------------------------------------------------------------------
(* The client closes its end. *)
HangUp ==
  /\ conn' = NoConn
  /\ late' = late \cup ToSet(conn.requests)

Takes(t) ==
  /\ Lock(t)
  /\ trouble' = IF linkOpen /\ ~conn.up THEN "stale" ELSE "none"
  /\ UNCHANGED <<conn, late, memory, executed, answered>>

(* Steps of the client that do not touch the connection. *)
Computes(t) ==
  /\ \/ Invoke(t) \/ Connect(t) \/ Set(t) \/ Build(t) \/ Exhausted(t) \/ NotConnected(t)
     \/ AlreadyOpen(t) \/ StartReopening(t) \/ Backoff(t) \/ Pause(t) \/ Return(t)
  /\ UNCHANGED session

(* open() succeeds: the link was open already, or there is a connection,   *)
(* which the server may have refused (see OpenMeansConnected of TcpLink).  *)
Opens(t) ==
  /\ Connected(t) \/ Reopened(t)
  /\ linkOutcome' = "None"
  /\ IF linkOpen
     THEN UNCHANGED <<conn, trouble>>
     ELSE \E up \in BOOLEAN :
            /\ conn' = Dialled(up)
            /\ trouble' = IF up THEN trouble ELSE "some"
  /\ UNCHANGED <<late, memory, executed, answered>>

FailsToOpen(t) ==
  /\ Connected(t) \/ ReopenFailed(t)
  /\ ~linkOpen /\ linkOutcome' = "Transport"
  /\ trouble' = "some"
  /\ UNCHANGED <<conn, late, memory, executed, answered>>

Disconnects(t) ==
  /\ Disconnect(t)
  /\ HangUp
  /\ UNCHANGED <<memory, executed, answered, trouble>>

(* The request is sent, and gets lost when nobody is there. *)
Sends(t) ==
  /\ Send(t)
  /\ conn' = IF conn.up
             THEN [conn EXCEPT !.requests = Append(@, [id  |-> Transaction(t, sent[t] + 1),
                                                       pdu |-> build(call[t]).value])]
             ELSE conn
  /\ UNCHANGED <<late, memory, executed, answered, trouble>>

(* Mutant: an exception reply is tried again like a lost one. *)
Receives_RetriesExceptions(t) ==
  /\ conn.replies # <<>>
  /\ LET first == Head(conn.replies)
     IN  IF isExceptionResponse(first.pdu)
         THEN Failed(t) /\ HangUp /\ answered' = Append(answered, first.id)
         ELSE /\ Answered(t) /\ reply'[t] = first.pdu
              /\ conn' = [conn EXCEPT !.replies = Tail(@)]
              /\ answered' = Append(answered, first.id)
              /\ UNCHANGED late
  /\ UNCHANGED <<memory, executed, trouble>>

(* The link takes the next reply: the answer, or one whose transaction id  *)
(* does not fit, which is a Protocol error and closes the connection.      *)
Receives(t) ==
  /\ conn.replies # <<>>
  /\ LET first == Head(conn.replies)
     IN  IF first.id = Transaction(t, sent[t])
         THEN /\ Answered(t) /\ reply'[t] = first.pdu
              /\ conn' = [conn EXCEPT !.replies = Tail(@)]
              /\ answered' = Append(answered, first.id)
              /\ UNCHANGED late
         ELSE Malformed(t) /\ HangUp /\ UNCHANGED answered
  /\ UNCHANGED <<memory, executed, trouble>>

(* Mutant: the link stays open after a timeout. *)
GivesUp_KeepsOpen(t) ==
  /\ pc[t] = "transact"
  /\ linkCall' = "none" /\ linkOutcome' = "Transport"
  /\ attempts' = [attempts EXCEPT ![t] = @ + 1]
  /\ Goto(t, IF attempts'[t] <= retries_ THEN "pause" ELSE "check")
  /\ trouble' = IF conn.up THEN "some" ELSE trouble
  /\ UNCHANGED <<mutex_, config, flags, linkOpen, call, rcA, delay, reply, result, history,
                 conn, late, memory, executed, answered>>

(* The deadline passes, or the server is found to have left: the link      *)
(* closes the connection.                                                  *)
GivesUp(t) ==
  /\ Failed(t)
  /\ HangUp
  /\ trouble' = IF conn.up THEN "some" ELSE trouble
  /\ UNCHANGED <<memory, executed, answered>>

-----------------------------------------------------------------------------
(* Mutant: the server answers and leaves the execution for later. *)
Serves_AnswersFirst ==
  /\ conn.up /\ conn.requests # <<>>
  /\ LET first  == Head(conn.requests)
         answer == _process(memory, first.pdu)
     IN  /\ late' = late \cup {first}
         /\ conn' = [conn EXCEPT !.requests = Tail(@),
                                 !.replies = Append(@, [id |-> first.id, pdu |-> answer.reply])]
  /\ UNCHANGED <<vars, memory, executed, answered, trouble>>

(* The thread of the open connection. *)
Serves ==
  /\ conn.up /\ conn.requests # <<>>
  /\ LET first  == Head(conn.requests)
         answer == _process(memory, first.pdu)
     IN  /\ memory' = answer.memory
         /\ executed' = Append(executed, first.id)
         /\ conn' = [conn EXCEPT !.requests = Tail(@),
                                 !.replies = Append(@, [id |-> first.id, pdu |-> answer.reply])]
  /\ UNCHANGED <<vars, late, answered, trouble>>

(* The thread of a connection that the client has closed: it reads what is *)
(* there, and its reply goes nowhere.                                      *)
ServesLate ==
  \E request \in late :
    /\ late' = late \ {request}
    /\ memory' = _process(memory, request.pdu).memory
    /\ executed' = Append(executed, request.id)
    /\ UNCHANGED <<vars, conn, answered, trouble>>

(* ... or it ends before. *)
LosesLate ==
  \E request \in late :
    /\ late' = late \ {request}
    /\ UNCHANGED <<vars, conn, memory, executed, answered, trouble>>

(* The server leaves the open connection (idle for 300 s, stopped, or the  *)
(* network is gone): requests are lost, replies may be.                    *)
Leaves ==
  /\ conn.up
  /\ \E replies \in {<<>>, conn.replies} :
       conn' = [conn EXCEPT !.up = FALSE, !.requests = <<>>, !.replies = replies]
  /\ trouble' = "some"
  /\ UNCHANGED <<vars, late, memory, executed, answered>>

SessionDone == Done /\ UNCHANGED session

SessionNext ==
  \/ \E t \in Threads : \/ Takes(t) \/ Computes(t) \/ Opens(t) \/ FailsToOpen(t)
                        \/ Disconnects(t) \/ Sends(t) \/ Receives(t) \/ GivesUp(t)
  \/ Serves \/ ServesLate \/ LosesLate \/ Leaves \/ SessionDone

SessionSpec == SessionInit /\ [][SessionNext]_<<vars, session>>

-----------------------------------------------------------------------------
(* What the callers were told of is what the device did: the transactions  *)
(* that were answered are among those it executed, each of them once and   *)
(* in the order of the answers, whatever late requests it executed between *)
(* them.  So an acknowledged write stands until a write that was sent      *)
(* after it, or one that was given up before.                              *)
(* (client.cpp:81-84 over tcp_link.cpp:208-281.)                           *)
AnsweredWritesStand ==
  \A i \in DOMAIN answered :
    \E k \in DOMAIN executed :
      /\ executed[k] = answered[i]
      /\ \A j \in 1 .. i, l \in DOMAIN executed :
           executed[l] = answered[j] => l < k \/ (l = k /\ j = i)

(* The transactions that the server has executed or may still execute. *)
Requested ==
  ToSet(executed) \cup {request.id : request \in late \cup ToSet(conn.requests)}

(* An answered call is never sent again, not even when the answer is an    *)
(* exception: of the transactions of a call only those before the answered *)
(* one, all of them given up, can be repetitions.  (client.cpp:82-83.)     *)
AnswersAreFinal ==
  \A i \in DOMAIN answered : \A id \in Requested :
    id.thread = answered[i].thread /\ id.call = answered[i].call => id.try <= answered[i].try

(* A call is answered when nothing goes wrong while it runs.  When the     *)
(* server has left before, isOpen() still says that the link is open: the  *)
(* first transaction is lost, and a single retry is enough.                *)
(* (client.cpp:58-88.)                                                     *)
CallsSucceedWithoutTrouble ==
  \A t \in Threads :
    /\ pc[t] = "return" /\ call[t].name \in Operations /\ result[t].from # "Build"
    /\ autoReconnect_ /\ ~intentionalDisconnect_
    /\ \/ trouble = "none" /\ Budget >= 1
       \/ trouble = "stale" /\ Budget >= 2
    => result[t].from = "Reply"

-----------------------------------------------------------------------------
(* The strengthening that makes AnswersAreFinal inductive.                 *)
Transactions == [thread : Threads, call : Nat, try : Nat]
Requests     ==
  [id : Transactions, pdu : {build(c).value : c \in {d \in Calls : d.name \in Operations}}]

SessionTypeOK ==
  /\ conn = [up |-> conn.up, requests |-> conn.requests, replies |-> conn.replies]
  /\ conn.requests \in Seq(Requests)
  /\ late \subseteq Requests
  /\ executed \in Seq(Transactions)
  /\ answered \in Seq(Transactions)

(* A transaction belongs to a call that was made, and to the current call  *)
(* only when that has sent as many.                                        *)
IsNumbered(id) ==
  /\ id.try > 0 /\ id.call <= calls[id.thread]
  /\ id.call = calls[id.thread] /\ pc[id.thread] # "idle" => id.try <= sent[id.thread]

(* A call that was answered is at its end. *)
IsOver(id) ==
  /\ id.call <= calls[id.thread]
  /\ id.call = calls[id.thread] => pc[id.thread] \in {"return", "idle"}

SessionInv ==
  /\ IInv /\ SessionTypeOK
  /\ \A id \in Requested : IsNumbered(id)
  /\ \A i \in DOMAIN answered : IsOver(answered[i])
  /\ AnswersAreFinal

(* The strengthening that makes AnsweredWritesStand inductive.  On the     *)
(* open connection there is at most the request of the thread that is      *)
(* inside transact(), or the answer to it.                                 *)
Only(t, queue) == \E item \in ToSet(queue) : queue = <<item>> /\ item.id = Transaction(t, sent[t])

OneExchange ==
  \/ conn.requests = <<>> /\ conn.replies = <<>>
  \/ \E t \in Threads :
       /\ pc[t] = "transact"
       /\ \/ Only(t, conn.requests) /\ conn.replies = <<>>
          \/ Only(t, conn.replies) /\ conn.requests = <<>>

(* No transaction is executed twice, or is on its way twice.               *)
Waiting == late \cup ToSet(conn.requests)

EachOnce ==
  /\ \A k, l \in DOMAIN executed : executed[k] = executed[l] => k = l
  /\ \A request \in Waiting : request.id \notin ToSet(executed)
  /\ \A request, other \in Waiting : request.id = other.id => request = other
  /\ late \cap ToSet(conn.requests) = {}

(* What answers the open connection holds was executed after everything    *)
(* that was answered before.                                               *)
AnswerIsLast ==
  conn.replies # <<>> =>
    \E k \in DOMAIN executed :
      /\ executed[k] = Head(conn.replies).id
      /\ \A i \in DOMAIN answered, l \in DOMAIN executed : executed[l] = answered[i] => l < k

OrderInv == OneExchange /\ EachOnce /\ AnswerIsLast /\ AnsweredWritesStand

(* The strengthening that makes CallsSucceedWithoutTrouble inductive: with *)
(* no trouble an open link has a server and nothing was sent in vain; with *)
(* a connection that was stale, that costs one transaction.                *)
OpenMeansUp == trouble = "none" /\ linkOpen => conn.up

FitsFor(t) ==
  /\ pc[t] = "locked" /\ trouble = "stale" => linkOpen /\ ~conn.up
  /\ pc[t] \in {"send", "transact"} => linkOpen
  /\ pc[t] \in Running /\ trouble = "none" => attempts[t] = 0
  /\ pc[t] \in Running /\ trouble = "stale" =>
       \/ attempts[t] = 0 /\ linkOpen /\ ~conn.up /\ conn.replies = <<>>
       \/ attempts[t] = 1 /\ (linkOpen => conn.up)

TroubleInv ==
  OpenMeansUp /\ (\A t \in Threads : FitsFor(t)) /\ CallsSucceedWithoutTrouble
=============================================================================
