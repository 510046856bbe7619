-------------------------- MODULE TcpSession_proofs --------------------------
(***************************************************************************)
(* Theorems about TcpSession for any number of threads, calls and          *)
(* connections: what was answered is not sent again, what callers are told *)
(* is what the device did, and calls succeed when nothing goes wrong.      *)
(***************************************************************************)
EXTENDS TcpSession, ModbusClient_proofs

(* The elements of a sequence that grows at its end.                       *)
LEMMA ToSetAppend ==
  ASSUME NEW S, NEW s \in Seq(S), NEW e \in S
  PROVE  Append(s, e) \in Seq(S) /\ ToSet(Append(s, e)) = ToSet(s) \cup {e}
<1>1. /\ Append(s, e) \in Seq(S) /\ Len(s) \in Nat /\ DOMAIN s = 1 .. Len(s)
      /\ DOMAIN Append(s, e) = 1 .. Len(s) + 1
      /\ Append(s, e)[Len(s) + 1] = e
      /\ \A i \in 1 .. Len(s) : Append(s, e)[i] = s[i]
  OBVIOUS
<1>2. ToSet(Append(s, e)) \subseteq ToSet(s) \cup {e}
  <2> SUFFICES ASSUME NEW i \in 1 .. Len(s) + 1
               PROVE  Append(s, e)[i] \in ToSet(s) \cup {e}
    BY <1>1 DEF ToSet
  <2>1. i \in 1 .. Len(s) \/ i = Len(s) + 1
    BY <1>1
  <2> QED
    BY <1>1, <2>1 DEF ToSet
<1>3. ToSet(s) \cup {e} \subseteq ToSet(Append(s, e))
  <2>1. e \in ToSet(Append(s, e))
    <3>1. Len(s) + 1 \in DOMAIN Append(s, e)
      BY <1>1
    <3> QED
      BY <1>1, <3>1 DEF ToSet
  <2>2. ASSUME NEW i \in 1 .. Len(s)
        PROVE  s[i] \in ToSet(Append(s, e))
    <3>1. i \in DOMAIN Append(s, e) /\ Append(s, e)[i] = s[i]
      BY <1>1, <2>2
    <3> QED
      BY <3>1 DEF ToSet
  <2> QED
    BY <1>1, <2>1, <2>2 DEF ToSet
<1> QED
  BY <1>1, <1>2, <1>3

(* The elements of a sequence that shrinks at its head.                    *)
LEMMA ToSetTail ==
  ASSUME NEW S, NEW s \in Seq(S), s # <<>>
  PROVE  /\ Head(s) \in S /\ Head(s) \in ToSet(s)
         /\ Tail(s) \in Seq(S) /\ ToSet(Tail(s)) \subseteq ToSet(s)
<1>1. /\ Len(s) \in Nat \ {0} /\ DOMAIN s = 1 .. Len(s) /\ Head(s) = s[1]
      /\ Tail(s) \in Seq(S) /\ DOMAIN Tail(s) = 1 .. Len(s) - 1
      /\ \A i \in 1 .. Len(s) - 1 : Tail(s)[i] = s[i + 1]
  OBVIOUS
<1>2. 1 \in DOMAIN s /\ s[1] \in S
  BY <1>1
<1>3. ASSUME NEW i \in DOMAIN Tail(s)
      PROVE  Tail(s)[i] \in ToSet(s)
  <2>1. i + 1 \in DOMAIN s /\ Tail(s)[i] = s[i + 1]
    BY <1>1, <1>3
  <2> QED
    BY <2>1 DEF ToSet
<1>4. ToSet(Tail(s)) \subseteq ToSet(s)
  BY <1>3 DEF ToSet
<1> QED
  BY <1>1, <1>2, <1>4 DEF ToSet

(* The elements of a sequence over a set are in the set.                   *)
LEMMA ToSetTypes ==
  ASSUME NEW S, NEW s \in Seq(S)
  PROVE  ToSet(s) \subseteq S
BY DEF ToSet

(* The empty sequence has no elements.                                     *)
LEMMA ToSetEmpty == ToSet(<<>>) = {}
BY DEF ToSet

-----------------------------------------------------------------------------
(* A step of a session is a step of the client or leaves it alone.         *)
LEMMA ClientStep ==
  ASSUME [SessionNext]_<<vars, session>>
  PROVE  [Next]_vars
<1>1. ASSUME NEW t \in Threads, Takes(t) \/ Computes(t) \/ Opens(t) \/ FailsToOpen(t)
      PROVE  Invoke(t) \/ Lock(t) \/ Work(t)
  BY <1>1 DEF Takes, Computes, Opens, FailsToOpen, Work
<1>2. ASSUME NEW t \in Threads, Disconnects(t) \/ Sends(t) \/ Receives(t) \/ GivesUp(t)
      PROVE  Work(t)
  BY <1>2 DEF Disconnects, Sends, Receives, GivesUp, Work
<1>3. CASE Serves \/ ServesLate \/ LosesLate \/ Leaves \/ SessionDone
  BY <1>3 DEF Serves, ServesLate, LosesLate, Leaves, SessionDone, Done
<1>4. CASE UNCHANGED <<vars, session>>
  BY <1>4
<1> QED
  BY <1>1, <1>2, <1>3, <1>4 DEF SessionNext, Next

(* What a step of the client does to the place and the counters of one     *)
(* thread.                                                                 *)
ThreadStays(u)   == pc'[u] = pc[u] /\ sent'[u] = sent[u] /\ calls'[u] = calls[u]
ThreadInvokes(u) == pc[u] = "idle" /\ calls'[u] = calls[u] + 1
ThreadWorks(u)   == pc[u] \notin {"idle", "return"} /\ sent'[u] >= sent[u] /\ calls'[u] = calls[u]
ThreadReturns(u) == pc[u] = "return" /\ pc'[u] = "idle" /\ calls'[u] = calls[u]

LEMMA ThreadStep ==
  ASSUME IInv, [Next]_vars, NEW u \in Threads
  PROVE  ThreadStays(u) \/ ThreadInvokes(u) \/ ThreadWorks(u) \/ ThreadReturns(u)
<1>1. TypeOK
  BY DEF IInv
<1>2. CASE UNCHANGED vars \/ OpenProceeds
  BY <1>2 DEF ThreadStays, vars, OpenProceeds, history
<1>3. ASSUME NEW t \in Threads, Invoke(t) \/ Lock(t) \/ Work(t), u # t
      PROVE  ThreadStays(u)
  <2>1. calls'[u] = calls[u]
    <3>1. CASE Invoke(t)
      BY <1>1, <1>3, <3>1 DEF Invoke, TypeOK
    <3>2. CASE Lock(t)
      BY <3>2 DEF Lock, history
    <3>3. CASE Work(t)
      BY <3>3 DEF Work, Connect, Connected, Disconnect, Set, Build, Exhausted, NotConnected,
                  AlreadyOpen, StartReopening, Reopened, ReopenFailed, Backoff, Send, Answered,
                  Malformed, Failed, Pause, Return, history
    <3> QED
      BY <1>3, <3>1, <3>2, <3>3
  <2> QED
    BY <1>1, <1>3, <2>1, OthersStay DEF ThreadStays
<1>4. CASE Invoke(u)
  BY <1>1, <1>4 DEF Invoke, ThreadInvokes, TypeOK
<1>5. CASE Lock(u)
  BY <1>1, <1>5 DEF Lock, ThreadWorks, TypeOK, history
<1>6. CASE Return(u)
  BY <1>1, <1>6 DEF Return, ThreadReturns, Goto, TypeOK
<1>7. CASE Send(u)
  <2>1. pc[u] = "send" /\ sent'[u] = sent[u] + 1 /\ calls' = calls /\ sent[u] \in Nat
    BY <1>1, <1>7 DEF Send, CallTransact, TypeOK
  <2> QED
    BY <2>1 DEF ThreadWorks
<1>8. CASE Work(u) /\ ~Return(u) /\ ~Send(u)
  <2>1. pc[u] \notin {"idle", "return"}
    BY <1>8 DEF Work, Connect, Connected, Disconnect, Set, Build, Exhausted, NotConnected,
                AlreadyOpen, StartReopening, Reopened, ReopenFailed, Backoff, Answered,
                Malformed, Failed, Pause
  <2>2. sent' = sent /\ calls' = calls /\ sent[u] \in Nat
    BY <1>1, <1>8
       DEF Work, Connect, Connected, Disconnect, Set, Build, Exhausted, NotConnected,
           AlreadyOpen, StartReopening, Reopened, ReopenFailed, Backoff, Answered,
           Malformed, Failed, Pause, history, CallOpen, TypeOK
  <2> QED
    BY <2>1, <2>2 DEF ThreadWorks
<1> QED
  BY <1>2, <1>3, <1>4, <1>5, <1>6, <1>7, <1>8, StepCases

(* A transaction stays numbered and a call stays over, whatever step the   *)
(* client takes.                                                           *)
LEMMA NumbersStay ==
  ASSUME IInv, [Next]_vars, NEW id \in Transactions
  PROVE  /\ IsNumbered(id) => IsNumbered(id)'
         /\ IsOver(id) => IsOver(id)'
<1> DEFINE u == id.thread
<1>1. u \in Threads /\ id.call \in Nat /\ id.try \in Nat
  BY DEF Transactions
<1>2. calls[u] \in Nat /\ sent[u] \in Nat /\ sent'[u] \in Nat
  BY <1>1, TypeStep DEF IInv, TypeOK
<1>3. ThreadStays(u) \/ ThreadInvokes(u) \/ ThreadWorks(u) \/ ThreadReturns(u)
  BY <1>1, ThreadStep
<1> QED
  BY <1>1, <1>2, <1>3
     DEF IsNumbered, IsOver, ThreadStays, ThreadInvokes, ThreadWorks, ThreadReturns

-----------------------------------------------------------------------------
(* Hanging up keeps what is requested and the types.                       *)
LEMMA HangUpKeeps ==
  ASSUME SessionTypeOK, HangUp, executed' = executed, answered' \in Seq(Transactions)
  PROVE  SessionTypeOK' /\ Requested' \subseteq Requested
<1>1. /\ conn'.requests = <<>> /\ late' = late \cup ToSet(conn.requests)
      /\ conn' = [up |-> conn'.up, requests |-> conn'.requests, replies |-> conn'.replies]
  BY DEF HangUp, NoConn
<1>2. late' \subseteq Requests
  BY <1>1, ToSetTypes DEF SessionTypeOK
<1>3. ToSet(conn'.requests) = {}
  BY <1>1, ToSetEmpty
<1> QED
  BY <1>1, <1>2, <1>3 DEF SessionTypeOK, Requested

(* The steps that neither send a request nor take an answer.               *)
Quiet(t) == \/ Takes(t) \/ Computes(t) \/ Opens(t) \/ FailsToOpen(t)
            \/ Disconnects(t) \/ GivesUp(t)

LEMMA QuietSteps ==
  ASSUME SessionTypeOK, [SessionNext]_<<vars, session>>
  PROVE  \/ SessionTypeOK' /\ Requested' \subseteq Requested /\ answered' = answered
         \/ \E t \in Threads : Sends(t) \/ Receives(t)
<1> DEFINE Goal == SessionTypeOK' /\ Requested' \subseteq Requested /\ answered' = answered
<1>1. ASSUME UNCHANGED <<conn, late, executed, answered>>
      PROVE  Goal
  BY <1>1 DEF SessionTypeOK, Requested
<1>2. ASSUME NEW t \in Threads, Quiet(t)
      PROVE  Goal
  <2>1. CASE Takes(t) \/ Computes(t) \/ FailsToOpen(t)
    BY <1>1, <2>1 DEF Takes, Computes, FailsToOpen, session
  <2>2. CASE Opens(t)
    <3>1. CASE linkOpen
      BY <1>1, <2>2, <3>1 DEF Opens
    <3>2. CASE ~linkOpen
      <4>1. /\ conn'.requests = <<>> /\ UNCHANGED <<late, executed, answered>>
            /\ conn' = [up |-> conn'.up, requests |-> conn'.requests, replies |-> conn'.replies]
        BY <2>2, <3>2 DEF Opens, Dialled, NoConn
      <4> QED
        BY <4>1, ToSetEmpty DEF SessionTypeOK, Requested
    <3> QED
      BY <3>1, <3>2
  <2>3. CASE Disconnects(t) \/ GivesUp(t)
    BY <2>3, HangUpKeeps DEF Disconnects, GivesUp, SessionTypeOK
  <2> QED
    BY <1>2, <2>1, <2>2, <2>3 DEF Quiet
<1>3. CASE Serves
  <2> DEFINE first == Head(conn.requests)
  <2>1. /\ conn.requests # <<>> /\ late' = late /\ answered' = answered
        /\ executed' = Append(executed, first.id)
        /\ conn'.requests = Tail(conn.requests)
        /\ conn' = [up |-> conn'.up, requests |-> conn'.requests, replies |-> conn'.replies]
    BY <1>3 DEF Serves, SessionTypeOK
  <2>2. /\ first \in Requests /\ first \in ToSet(conn.requests)
        /\ conn'.requests \in Seq(Requests)
        /\ ToSet(conn'.requests) \subseteq ToSet(conn.requests)
    BY <2>1, ToSetTail DEF SessionTypeOK
  <2>3. first.id \in Transactions
    BY <2>2 DEF Requests
  <2>4. executed' \in Seq(Transactions) /\ ToSet(executed') = ToSet(executed) \cup {first.id}
    BY <2>1, <2>3, ToSetAppend DEF SessionTypeOK
  <2> HIDE DEF first
  <2>5. Requested' \subseteq Requested
    BY <2>1, <2>2, <2>4 DEF Requested
  <2> QED
    BY <2>1, <2>2, <2>4, <2>5 DEF SessionTypeOK
<1>4. CASE ServesLate
  <2>1. PICK request \in late :
          /\ late' = late \ {request} /\ executed' = Append(executed, request.id)
          /\ UNCHANGED <<conn, answered>>
    BY <1>4 DEF ServesLate
  <2>2. request.id \in Transactions
    BY DEF SessionTypeOK, Requests
  <2>3. executed' \in Seq(Transactions) /\ ToSet(executed') = ToSet(executed) \cup {request.id}
    BY <2>1, <2>2, ToSetAppend DEF SessionTypeOK
  <2>4. Requested' \subseteq Requested
    BY <2>1, <2>3 DEF Requested
  <2> QED
    BY <2>1, <2>3, <2>4 DEF SessionTypeOK
<1>5. CASE LosesLate
  <2>1. late' \subseteq late /\ UNCHANGED <<conn, executed, answered>>
    BY <1>5 DEF LosesLate
  <2> QED
    BY <2>1 DEF SessionTypeOK, Requested
<1>6. CASE Leaves
  <2>1. /\ conn'.requests = <<>> /\ UNCHANGED <<late, executed, answered>>
        /\ conn' = [up |-> conn'.up, requests |-> conn'.requests, replies |-> conn'.replies]
    BY <1>6 DEF Leaves, SessionTypeOK
  <2> QED
    BY <2>1, ToSetEmpty DEF SessionTypeOK, Requested
<1>7. CASE SessionDone \/ UNCHANGED <<vars, session>>
  BY <1>1, <1>7 DEF SessionDone, session
<1> QED
  BY <1>2, <1>3, <1>4, <1>5, <1>6, <1>7 DEF SessionNext, Quiet

(* A request that is sent is the next of its call.                         *)
LEMMA SendsStep ==
  ASSUME IInv, SessionTypeOK, NEW t \in Threads, Sends(t)
  PROVE  LET id == Transaction(t, sent[t] + 1)
         IN  /\ SessionTypeOK' /\ answered' = answered
             /\ id \in Transactions /\ Requested' \subseteq Requested \cup {id}
             /\ pc[t] = "send" /\ sent'[t] = sent[t] + 1 /\ calls' = calls
<1> DEFINE id      == Transaction(t, sent[t] + 1)
           request == [id |-> id, pdu |-> build(call[t]).value]
<1>1. /\ pc[t] = "send" /\ sent'[t] = sent[t] + 1 /\ calls' = calls
      /\ sent[t] \in Nat /\ calls[t] \in Nat
  BY DEF Sends, Send, CallTransact, IInv, TypeOK
<1>2. id \in Transactions
  BY <1>1 DEF Transaction, Transactions
<1>3. request \in Requests
  <2>1. call[t] \in Calls /\ call[t].name \in Operations
    BY <1>1 DEF IInv, TypeOK, PlaceFitsTheCall, Running, Exchanging, NoCall, Operations,
                BitReads, RegisterReads, Writes
  <2> QED
    BY <1>2, <2>1 DEF Requests
<1>4. UNCHANGED <<late, executed, answered>>
  BY DEF Sends
<1>5. /\ conn' = [up |-> conn'.up, requests |-> conn'.requests, replies |-> conn'.replies]
      /\ conn'.requests \in {conn.requests, Append(conn.requests, request)}
  BY DEF Sends, SessionTypeOK
<1> HIDE DEF request
<1>6. /\ conn'.requests \in Seq(Requests)
      /\ ToSet(conn'.requests) \subseteq ToSet(conn.requests) \cup {request}
  <2>1. conn.requests \in Seq(Requests)
    BY DEF SessionTypeOK
  <2>2. CASE conn'.requests = conn.requests
    BY <2>1, <2>2
  <2>3. CASE conn'.requests = Append(conn.requests, request)
    BY <1>3, <2>1, <2>3, ToSetAppend
  <2> QED
    BY <1>5, <2>2, <2>3
<1>7. request.id = id
  BY DEF request
<1>8. Requested' \subseteq Requested \cup {id}
  BY <1>4, <1>6, <1>7 DEF Requested
<1> QED
  BY <1>1, <1>2, <1>4, <1>5, <1>6, <1>8 DEF SessionTypeOK

(* A reply that is taken answers the last transaction of the call, or the  *)
(* connection is closed.                                                   *)
LEMMA ReceivesStep ==
  ASSUME IInv, SessionTypeOK, NEW t \in Threads, Receives(t)
  PROVE  LET id == Transaction(t, sent[t])
         IN  /\ SessionTypeOK' /\ Requested' \subseteq Requested
             /\ id \in Transactions /\ pc[t] = "transact" /\ pc'[t] = "return"
             /\ sent' = sent /\ calls' = calls
             /\ answered' \in {answered, Append(answered, id)}
<1> DEFINE id == Transaction(t, sent[t])
<1>1. /\ pc[t] = "transact" /\ pc'[t] = "return" /\ sent' = sent /\ calls' = calls
      /\ sent[t] \in Nat /\ calls[t] \in Nat
  BY DEF Receives, Answered, Malformed, Goto, Finish, history, IInv, TypeOK
<1>2. id \in Transactions
  BY <1>1 DEF Transaction, Transactions
<1>3. executed' = executed
  BY DEF Receives
<1>4. CASE Head(conn.replies).id = id
  <2>1. /\ answered' = Append(answered, id) /\ late' = late
        /\ conn'.requests = conn.requests
        /\ conn' = [up |-> conn'.up, requests |-> conn'.requests, replies |-> conn'.replies]
    BY <1>4 DEF Receives, SessionTypeOK
  <2>2. answered' \in Seq(Transactions)
    BY <1>2, <2>1, ToSetAppend DEF SessionTypeOK
  <2> QED
    BY <1>1, <1>2, <1>3, <2>1, <2>2 DEF SessionTypeOK, Requested
<1>5. CASE Head(conn.replies).id # id
  <2>1. HangUp /\ answered' = answered
    BY <1>5 DEF Receives
  <2>2. SessionTypeOK' /\ Requested' \subseteq Requested
    BY <1>3, <2>1, HangUpKeeps DEF SessionTypeOK
  <2> QED
    BY <1>1, <1>2, <2>1, <2>2
<1> QED
  BY <1>4, <1>5

-----------------------------------------------------------------------------
(* Everything requested is typed.                                          *)
LEMMA RequestedTypes ==
  ASSUME SessionTypeOK
  PROVE  Requested \subseteq Transactions
<1>1. ToSet(executed) \subseteq Transactions /\ ToSet(conn.requests) \subseteq Requests
  BY ToSetTypes DEF SessionTypeOK
<1>2. \A request \in Requests : request.id \in Transactions
  BY DEF Requests
<1> QED
  BY <1>1, <1>2 DEF SessionTypeOK, Requested

(* The answers taken so far, and one more.                                 *)
LEMMA AnsweredGrows ==
  ASSUME NEW id \in Transactions, SessionTypeOK, answered' = Append(answered, id)
  PROVE  \A i \in DOMAIN answered' :
           answered'[i] = id \/ (i \in DOMAIN answered /\ answered'[i] = answered[i])
BY DEF SessionTypeOK

LEMMA SessionStep == SessionInv /\ [SessionNext]_<<vars, session>> => SessionInv'
<1> SUFFICES ASSUME SessionInv, [SessionNext]_<<vars, session>> PROVE SessionInv'
  OBVIOUS
<1>1. /\ IInv /\ SessionTypeOK /\ AnswersAreFinal
      /\ \A id \in Requested : IsNumbered(id)
      /\ \A i \in DOMAIN answered : IsOver(answered[i])
  BY DEF SessionInv
<1>2. [Next]_vars
  BY ClientStep
<1>3. IInv'
  BY <1>1, <1>2, NextInv
<1>4. \A id \in Requested : IsNumbered(id)'
  BY <1>1, <1>2, NumbersStay, RequestedTypes
<1>5. \A a \in Transactions : IsOver(a) => IsOver(a)'
  BY <1>1, <1>2, NumbersStay
<1>9. ASSUME answered' = answered
      PROVE  \A i \in DOMAIN answered' : IsOver(answered[i])'
  <2> SUFFICES ASSUME NEW i \in DOMAIN answered' PROVE IsOver(answered[i])'
    OBVIOUS
  <2>1. PICK a \in Transactions : a = answered[i]
    BY <1>1, <1>9 DEF SessionTypeOK
  <2>2. IsOver(a)' /\ a = answered'[i]
    BY <1>1, <1>5, <1>9, <2>1
  <2> QED
    BY <2>2 DEF IsOver
<1>6. CASE SessionTypeOK' /\ Requested' \subseteq Requested /\ answered' = answered
  <2>1. AnswersAreFinal'
    BY <1>1, <1>6 DEF AnswersAreFinal
  <2> QED
    BY <1>3, <1>4, <1>6, <1>9, <2>1 DEF SessionInv
<1>7. ASSUME NEW t \in Threads, Sends(t)
      PROVE  SessionInv'
  <2>1. PICK id \in Transactions :
          /\ id = Transaction(t, sent[t] + 1)
          /\ SessionTypeOK' /\ answered' = answered
          /\ Requested' \subseteq Requested \cup {id}
          /\ pc[t] = "send" /\ sent'[t] = sent[t] + 1 /\ calls' = calls
    BY <1>1, <1>7, SendsStep
  <2>2. sent[t] \in Nat /\ calls[t] \in Nat
    BY <1>1 DEF IInv, TypeOK
  <2>3. id.thread = t /\ id.call = calls[t] /\ id.try = sent[t] + 1
    BY <2>1 DEF Transaction
  <2>4. IsNumbered(id)'
    BY <2>1, <2>2, <2>3 DEF IsNumbered
  <2>5. \A i \in DOMAIN answered : ~(id.thread = answered[i].thread /\ id.call = answered[i].call)
    BY <1>1, <2>1, <2>3 DEF IsOver
  <2>6. AnswersAreFinal'
    BY <1>1, <2>1, <2>5 DEF AnswersAreFinal
  <2> QED
    BY <1>3, <1>4, <1>9, <2>1, <2>4, <2>6 DEF SessionInv
<1>8. ASSUME NEW t \in Threads, Receives(t)
      PROVE  SessionInv'
  <2>1. PICK id \in Transactions :
          /\ id = Transaction(t, sent[t])
          /\ SessionTypeOK' /\ Requested' \subseteq Requested
          /\ pc[t] = "transact" /\ pc'[t] = "return"
          /\ sent' = sent /\ calls' = calls
          /\ answered' \in {answered, Append(answered, id)}
    BY <1>1, <1>8, ReceivesStep
  <2>2. calls[t] \in Nat
    BY <1>1 DEF IInv, TypeOK
  <2>3. id.thread = t /\ id.call = calls[t] /\ id.try = sent[t]
    BY <2>1 DEF Transaction
  <2>4. CASE answered' = answered
    BY <1>6, <2>1, <2>4
  <2>5. CASE answered' = Append(answered, id)
    <3>1. \A i \in DOMAIN answered' :
            answered'[i] = id \/ (i \in DOMAIN answered /\ answered'[i] = answered[i])
      BY <1>1, <2>1, <2>5, AnsweredGrows
    <3>2. IsOver(id)'
      BY <2>1, <2>2, <2>3 DEF IsOver
    <3>3. \A i \in DOMAIN answered' : IsOver(answered[i])'
      <4> SUFFICES ASSUME NEW i \in DOMAIN answered' PROVE IsOver(answered[i])'
        OBVIOUS
      <4>1. PICK a \in Transactions : a = answered'[i] /\ IsOver(a)'
        <5>1. CASE answered'[i] = id
          BY <3>2, <5>1
        <5>2. CASE answered'[i] # id
          <6>1. i \in DOMAIN answered /\ answered'[i] = answered[i]
            BY <3>1, <5>2
          <6>2. PICK a \in Transactions : a = answered[i]
            BY <1>1, <6>1 DEF SessionTypeOK
          <6> QED
            BY <1>1, <1>5, <6>1, <6>2
        <5> QED
          BY <5>1, <5>2
      <4> QED
        BY <4>1 DEF IsOver
    <3>4. \A other \in Requested :
            other.thread = id.thread /\ other.call = id.call => other.try <= id.try
      BY <1>1, <2>1, <2>3 DEF IsNumbered
    <3>5. AnswersAreFinal'
      BY <1>1, <2>1, <3>1, <3>4 DEF AnswersAreFinal
    <3> QED
      BY <1>3, <1>4, <2>1, <3>3, <3>5 DEF SessionInv
  <2> QED
    BY <2>1, <2>4, <2>5
<1> QED
  BY <1>1, <1>6, <1>7, <1>8, QuietSteps

(* A new session has asked for nothing.                                    *)
LEMMA SessionInitial == SessionInit => SessionInv
<1> SUFFICES ASSUME SessionInit PROVE SessionInv
  OBVIOUS
<1>1. IInv
  BY InitialInv DEF SessionInit
<1>2. SessionTypeOK
  BY DEF SessionInit, SessionTypeOK, NoConn
<1>3. Requested = {} /\ DOMAIN answered = {}
  BY ToSetEmpty DEF SessionInit, Requested, NoConn
<1> QED
  BY <1>1, <1>2, <1>3 DEF SessionInv, AnswersAreFinal

-----------------------------------------------------------------------------
(* The kinds of steps on what is requested, executed and answered.         *)
Loses ==
  /\ Waiting' \subseteq Waiting /\ late' \cap ToSet(conn'.requests) = {}
  /\ conn'.replies \in {<<>>, conn.replies}
  /\ UNCHANGED <<executed, answered>>

Asks(request) ==
  /\ request.id \notin Requested
  /\ conn.requests = <<>> /\ conn'.requests = <<request>>
  /\ conn'.replies = <<>>
  /\ UNCHANGED <<late, executed, answered>>

Executes(request) ==
  /\ request \in Waiting
  /\ Waiting' \subseteq Waiting \ {request} /\ late' \cap ToSet(conn'.requests) = {}
  /\ executed' = Append(executed, request.id)
  /\ conn'.replies = conn.replies \/ Head(conn'.replies).id = request.id
  /\ UNCHANGED answered

Collects(id) ==
  /\ conn.replies # <<>> /\ Head(conn.replies).id = id /\ conn'.replies = <<>>
  /\ answered' = Append(answered, id)
  /\ UNCHANGED <<late, executed>> /\ conn'.requests = conn.requests

LEMMA ToSetOne == \A e : ToSet(<<e>>) = {e}
BY DEF ToSet

(* Steps that execute nothing and take no answer.                          *)
LEMMA LosesKeepsOrder ==
  ASSUME EachOnce, AnswerIsLast, AnsweredWritesStand, Loses
  PROVE  EachOnce' /\ AnswerIsLast' /\ AnsweredWritesStand'
<1>1. EachOnce'
  BY DEF Loses, EachOnce
<1>2. AnswerIsLast'
  BY DEF Loses, AnswerIsLast
<1>3. AnsweredWritesStand'
  BY DEF Loses, AnsweredWritesStand
<1> QED
  BY <1>1, <1>2, <1>3

LEMMA AsksKeepsOrder ==
  ASSUME EachOnce, AnswerIsLast, AnsweredWritesStand, NEW request, Asks(request)
  PROVE  EachOnce' /\ AnswerIsLast' /\ AnsweredWritesStand'
<1>1. ToSet(conn.requests) = {} /\ ToSet(conn'.requests) = {request}
  BY ToSetEmpty, ToSetOne DEF Asks
<1>2. Waiting' = Waiting \cup {request}
  BY <1>1 DEF Asks, Waiting
<1>3. /\ request.id \notin ToSet(executed)
      /\ \A other \in Waiting : other.id # request.id
  BY <1>1 DEF Asks, Requested, Waiting
<1>4. EachOnce'
  BY <1>1, <1>2, <1>3 DEF Asks, EachOnce, Waiting
<1>5. AnswerIsLast'
  BY DEF Asks, AnswerIsLast
<1>6. AnsweredWritesStand'
  BY DEF Asks, AnsweredWritesStand
<1> QED
  BY <1>4, <1>5, <1>6

LEMMA ExecutesKeepsOrder ==
  ASSUME SessionTypeOK, EachOnce, AnswerIsLast, AnsweredWritesStand,
         NEW request, request.id \in Transactions, Executes(request)
  PROVE  EachOnce' /\ AnswerIsLast' /\ AnsweredWritesStand'
<1> DEFINE n == Len(executed)
<1>1. /\ n \in Nat /\ DOMAIN executed = 1 .. n /\ DOMAIN executed' = 1 .. n + 1
      /\ executed'[n + 1] = request.id
      /\ \A k \in 1 .. n : executed'[k] = executed[k]
  BY DEF SessionTypeOK, Executes
<1>2. ToSet(executed') = ToSet(executed) \cup {request.id}
  BY ToSetAppend DEF SessionTypeOK, Executes
<1>3. request.id \notin ToSet(executed) /\ \A k \in 1 .. n : executed[k] # request.id
  <2>1. request.id \notin ToSet(executed)
    BY DEF Executes, EachOnce
  <2> QED
    BY <1>1, <2>1 DEF ToSet
<1>4. /\ answered \in Seq(Transactions) /\ answered' = answered
      /\ \A i \in DOMAIN answered : answered[i] # request.id
  <2>1. \A i \in DOMAIN answered : \E k \in 1 .. n : executed[k] = answered[i]
    BY <1>1 DEF AnsweredWritesStand
  <2> QED
    BY <1>3, <2>1 DEF SessionTypeOK, Executes
<1> HIDE DEF n
<1>5. EachOnce'
  <2>1. \A k, l \in DOMAIN executed' : executed'[k] = executed'[l] => k = l
    <3> SUFFICES ASSUME NEW k \in 1 .. n + 1, NEW l \in 1 .. n + 1, executed'[k] = executed'[l]
                 PROVE  k = l
      BY <1>1
    <3>1. k \in 1 .. n \/ k = n + 1
      BY <1>1
    <3>2. l \in 1 .. n \/ l = n + 1
      BY <1>1
    <3>3. CASE k \in 1 .. n /\ l \in 1 .. n
      BY <1>1, <3>3 DEF EachOnce
    <3> QED
      BY <1>1, <1>3, <3>1, <3>2, <3>3
  <2>2. \A other \in Waiting' : other.id \notin ToSet(executed')
    BY <1>2 DEF EachOnce, Executes
  <2>3. \A other, third \in Waiting' : other.id = third.id => other = third
    BY DEF EachOnce, Executes
  <2>4. late' \cap ToSet(conn'.requests) = {}
    BY DEF Executes
  <2> QED
    BY <2>1, <2>2, <2>3, <2>4 DEF EachOnce
<1>6. ASSUME NEW i \in DOMAIN answered, NEW l \in DOMAIN executed', executed'[l] = answered[i]
      PROVE  l \in 1 .. n /\ executed[l] = answered[i]
  BY <1>1, <1>4, <1>6
<1>7. AnswerIsLast'
  <2> SUFFICES ASSUME conn'.replies # <<>> PROVE AnswerIsLast'
    BY DEF AnswerIsLast
  <2>1. CASE conn'.replies = conn.replies
    <3>1. PICK k \in 1 .. n :
            /\ executed[k] = Head(conn.replies).id
            /\ \A i \in DOMAIN answered, l \in 1 .. n : executed[l] = answered[i] => l < k
      BY <1>1, <2>1 DEF AnswerIsLast
    <3>2. k \in DOMAIN executed' /\ executed'[k] = Head(conn'.replies).id
      BY <1>1, <2>1, <3>1
    <3> QED
      BY <1>4, <1>6, <3>1, <3>2 DEF AnswerIsLast
  <2>2. CASE Head(conn'.replies).id = request.id
    <3>1. n + 1 \in DOMAIN executed' /\ executed'[n + 1] = Head(conn'.replies).id
      BY <1>1, <2>2
    <3>2. \A i \in DOMAIN answered', l \in DOMAIN executed' :
            executed'[l] = answered'[i] => l < n + 1
      BY <1>1, <1>4, <1>6
    <3> QED
      BY <3>1, <3>2 DEF AnswerIsLast
  <2> QED
    BY <2>1, <2>2 DEF Executes
<1>8. AnsweredWritesStand'
  <2> SUFFICES ASSUME NEW i \in DOMAIN answered
               PROVE  \E k \in DOMAIN executed' :
                        /\ executed'[k] = answered[i]
                        /\ \A j \in 1 .. i, l \in DOMAIN executed' :
                             executed'[l] = answered[j] => l < k \/ (l = k /\ j = i)
    BY <1>4 DEF AnsweredWritesStand
  <2>1. PICK k \in 1 .. n :
          /\ executed[k] = answered[i]
          /\ \A j \in 1 .. i, l \in 1 .. n :
               executed[l] = answered[j] => l < k \/ (l = k /\ j = i)
    BY <1>1 DEF AnsweredWritesStand
  <2>2. k \in DOMAIN executed' /\ executed'[k] = answered[i]
    BY <1>1, <2>1
  <2>3. \A j \in 1 .. i : j \in DOMAIN answered
    BY <1>4
  <2> QED
    BY <1>6, <2>1, <2>2, <2>3
<1> QED
  BY <1>5, <1>7, <1>8

(* The answer that is taken was executed last of those taken.              *)
LEMMA CollectsKeepsOrder ==
  ASSUME SessionTypeOK, EachOnce, AnswerIsLast, AnsweredWritesStand,
         NEW id \in Transactions, Collects(id)
  PROVE  EachOnce' /\ AnswerIsLast' /\ AnsweredWritesStand'
<1> DEFINE m == Len(answered)
<1>1. /\ m \in Nat /\ DOMAIN answered = 1 .. m /\ DOMAIN answered' = 1 .. m + 1
      /\ answered'[m + 1] = id
      /\ \A i \in 1 .. m : answered'[i] = answered[i]
  BY DEF SessionTypeOK, Collects
<1>2. executed' = executed /\ executed \in Seq(Transactions)
  BY DEF SessionTypeOK, Collects
<1> HIDE DEF m
<1>3. EachOnce'
  BY DEF EachOnce, Collects, Waiting
<1>4. AnswerIsLast'
  BY DEF AnswerIsLast, Collects
<1>5. PICK k \in DOMAIN executed :
        /\ executed[k] = id
        /\ \A i \in 1 .. m, l \in DOMAIN executed : executed[l] = answered[i] => l < k
  BY <1>1 DEF AnswerIsLast, Collects
<1>6. ASSUME NEW i \in 1 .. m + 1
      PROVE  \E h \in DOMAIN executed :
               /\ executed[h] = answered'[i]
               /\ \A j \in 1 .. i, l \in DOMAIN executed :
                    executed[l] = answered'[j] => l < h \/ (l = h /\ j = i)
  <2>1. CASE i = m + 1
    <3>1. executed[k] = answered'[i]
      BY <1>1, <1>5, <2>1
    <3>2. ASSUME NEW j \in 1 .. i, NEW l \in DOMAIN executed, executed[l] = answered'[j]
          PROVE  l < k \/ (l = k /\ j = i)
      <4>1. CASE j = m + 1
        <5>1. executed[l] = executed[k]
          BY <1>1, <1>5, <3>2, <4>1
        <5> QED
          BY <2>1, <4>1, <5>1 DEF EachOnce
      <4>2. CASE j # m + 1
        <5>1. j \in 1 .. m
          BY <1>1, <2>1, <4>2
        <5> QED
          BY <1>1, <1>5, <3>2, <5>1
      <4> QED
        BY <4>1, <4>2
    <3> QED
      BY <3>1, <3>2
  <2>2. CASE i # m + 1
    <3>1. i \in DOMAIN answered /\ \A j \in 1 .. i : j \in 1 .. m
      BY <1>1, <2>2
    <3>2. PICK h \in DOMAIN executed :
            /\ executed[h] = answered[i]
            /\ \A j \in 1 .. i, l \in DOMAIN executed :
                 executed[l] = answered[j] => l < h \/ (l = h /\ j = i)
      BY <3>1 DEF AnsweredWritesStand
    <3>3. answered'[i] = answered[i] /\ \A j \in 1 .. i : answered'[j] = answered[j]
      BY <1>1, <3>1
    <3> QED
      BY <3>2, <3>3
  <2> QED
    BY <2>1, <2>2
<1>7. AnsweredWritesStand'
  BY <1>1, <1>2, <1>6 DEF AnsweredWritesStand
<1> QED
  BY <1>3, <1>4, <1>7

(* A thread inside transact() is not disturbed by steps that are not its   *)
(* own exchange.                                                           *)
LEMMA TransactGoesOn ==
  ASSUME IInv, NEW t \in Threads, pc[t] = "transact",
         NEW u \in Threads, Takes(u) \/ Computes(u) \/ Opens(u) \/ FailsToOpen(u)
  PROVE  pc'[t] = "transact" /\ sent'[t] = sent[t] /\ calls'[t] = calls[t]
<1>1. TypeOK
  BY DEF IInv
<1>2. Invoke(u) \/ Lock(u) \/ Work(u)
  BY DEF Takes, Computes, Opens, FailsToOpen, Work
<1>3. u # t
  BY DEF Takes, Lock, Computes, Invoke, Connect, Set, Build, Exhausted, NotConnected,
         AlreadyOpen, StartReopening, Backoff, Pause, Return, Opens, FailsToOpen, Connected,
         Reopened, ReopenFailed
<1>4. pc'[t] = pc[t] /\ sent'[t] = sent[t]
  BY <1>1, <1>2, <1>3, OthersStay
<1>5. [Next]_vars
  BY <1>2 DEF Next
<1>6. calls'[t] = calls[t]
  BY <1>4, <1>5, ThreadStep DEF ThreadStays, ThreadInvokes, ThreadWorks, ThreadReturns
<1> QED
  BY <1>4, <1>6

(* An exchange in progress goes on while its thread is in transact().      *)
LEMMA ExchangeGoesOn ==
  ASSUME OneExchange, conn'.requests = conn.requests, conn'.replies = conn.replies,
         \A t \in Threads : pc[t] = "transact" =>
           pc'[t] = "transact" /\ sent'[t] = sent[t] /\ calls'[t] = calls[t]
  PROVE  OneExchange'
<1>1. CASE conn.requests = <<>> /\ conn.replies = <<>>
  BY <1>1 DEF OneExchange
<1>2. ASSUME NEW t \in Threads, pc[t] = "transact",
             \/ Only(t, conn.requests) /\ conn.replies = <<>>
             \/ Only(t, conn.replies) /\ conn.requests = <<>>
      PROVE  OneExchange'
  <2>1. pc'[t] = "transact" /\ Transaction(t, sent[t]) = Transaction(t, sent[t])'
    BY <1>2 DEF Transaction
  <2> QED
    BY <1>2, <2>1 DEF OneExchange, Only
<1> QED
  BY <1>1, <1>2 DEF OneExchange

(* The connection that is hung up carries nothing any more.                *)
LEMMA HangUpLoses ==
  ASSUME HangUp, UNCHANGED <<executed, answered>>
  PROVE  OneExchange' /\ Loses
<1>1. conn'.requests = <<>> /\ conn'.replies = <<>> /\ late' = late \cup ToSet(conn.requests)
  BY DEF HangUp, NoConn
<1>2. ToSet(conn'.requests) = {}
  BY <1>1, ToSetEmpty
<1> QED
  BY <1>1, <1>2 DEF OneExchange, Loses, Waiting

LEMMA ExchangeStep ==
  ASSUME SessionInv, OneExchange, EachOnce, [SessionNext]_<<vars, session>>
  PROVE  /\ OneExchange'
         /\ \/ Loses
            \/ \E request \in Requests : Asks(request) \/ Executes(request)
            \/ \E id \in Transactions : Collects(id)
<1>1. IInv /\ TypeOK /\ SessionTypeOK /\ \A id \in Requested : IsNumbered(id)
  BY DEF SessionInv, IInv
<1>2. late \cap ToSet(conn.requests) = {}
  BY DEF EachOnce
<1>3. ASSUME UNCHANGED session,
             \A t \in Threads : pc[t] = "transact" =>
               pc'[t] = "transact" /\ sent'[t] = sent[t] /\ calls'[t] = calls[t]
      PROVE  OneExchange' /\ Loses
  BY <1>2, <1>3, ExchangeGoesOn DEF session, Loses, Waiting
<1>4. ASSUME NEW u \in Threads, Takes(u) \/ Computes(u) \/ Opens(u) \/ FailsToOpen(u)
      PROVE  OneExchange' /\ Loses
  <2>1. \A t \in Threads : pc[t] = "transact" =>
          pc'[t] = "transact" /\ sent'[t] = sent[t] /\ calls'[t] = calls[t]
    BY <1>1, <1>4, TransactGoesOn
  <2>2. UNCHANGED <<late, executed, answered>>
    BY <1>4 DEF Takes, Computes, Opens, FailsToOpen, session
  <2>3. CASE UNCHANGED conn
    BY <1>2, <2>1, <2>2, <2>3, ExchangeGoesOn DEF Loses, Waiting
  <2>4. CASE conn'.requests = <<>> /\ conn'.replies = <<>>
    BY <2>2, <2>4, ToSetEmpty DEF OneExchange, Loses, Waiting
  <2>5. UNCHANGED conn \/ (conn'.requests = <<>> /\ conn'.replies = <<>>)
    BY <1>4 DEF Takes, Computes, Opens, FailsToOpen, session, Dialled, NoConn
  <2> QED
    BY <2>3, <2>4, <2>5
<1>5. ASSUME NEW t \in Threads, Disconnects(t) \/ GivesUp(t)
      PROVE  OneExchange' /\ Loses
  BY <1>5, HangUpLoses DEF Disconnects, GivesUp
<1>6. ASSUME NEW t \in Threads, Sends(t)
      PROVE  OneExchange' /\ (Loses \/ \E request \in Requests : Asks(request))
  <2> DEFINE request == [id |-> Transaction(t, sent[t] + 1), pdu |-> build(call[t]).value]
  <2>1. /\ pc[t] = "send" /\ pc'[t] = "transact"
        /\ sent'[t] = sent[t] + 1 /\ calls' = calls
        /\ sent[t] \in Nat /\ UNCHANGED <<late, executed, answered>>
    BY <1>1, <1>6 DEF Sends, Send, CallTransact, Goto, TypeOK
  <2>2. \A u \in Threads : pc[u] # "transact"
    BY <1>1, <2>1 DEF IInv, MutexCoversTheLink, Holding, Exchanging
  <2>3. conn.requests = <<>> /\ conn.replies = <<>>
    BY <2>2 DEF OneExchange
  <2>4. CASE ~conn.up
    BY <1>2, <1>6, <2>3, <2>4 DEF Sends, OneExchange, Loses, Waiting
  <2>5. CASE conn.up
    <3>1. conn'.requests = <<request>> /\ conn'.replies = <<>>
      BY <1>1, <1>6, <2>3, <2>5 DEF Sends, SessionTypeOK
    <3>2. request.id \in Transactions /\ request \in Requests
      <4>1. call[t] \in Calls /\ call[t].name \in Operations
        BY <1>1, <2>1 DEF IInv, TypeOK, PlaceFitsTheCall, Running, Exchanging, NoCall,
                          Operations, BitReads, RegisterReads, Writes
      <4>2. calls[t] \in Nat
        BY <1>1 DEF TypeOK
      <4> QED
        BY <2>1, <4>1, <4>2 DEF Transaction, Transactions, Requests
    <3>3. request.id \notin Requested
      BY <1>1, <2>1 DEF IsNumbered, Transaction
    <3>4. Asks(request)
      BY <2>1, <2>3, <3>1, <3>3 DEF Asks
    <3>5. Only(t, conn.requests)'
      <4>1. request \in ToSet(conn'.requests) /\ request.id = Transaction(t, sent[t])'
        BY <2>1, <3>1, ToSetOne DEF Transaction
      <4> QED
        BY <3>1, <4>1 DEF Only
    <3>6. OneExchange'
      BY <2>1, <3>1, <3>5 DEF OneExchange
    <3> QED
      BY <3>2, <3>4, <3>6
  <2> QED
    BY <2>4, <2>5
<1>7. ASSUME NEW t \in Threads, Receives(t)
      PROVE  OneExchange' /\ (Loses \/ \E id \in Transactions : Collects(id))
  <2>1. conn.replies # <<>> /\ executed' = executed /\ pc[t] = "transact"
    BY <1>7 DEF Receives, Answered, Malformed
  <2>2. PICK u \in Threads : pc[u] = "transact" /\ Only(u, conn.replies) /\ conn.requests = <<>>
    BY <2>1 DEF OneExchange
  <2>3. u = t
    BY <1>1, <2>1, <2>2 DEF IInv, MutexCoversTheLink, Holding, Exchanging
  <2>4. PICK item \in ToSet(conn.replies) :
          conn.replies = <<item>> /\ item.id = Transaction(t, sent[t])
    BY <2>2, <2>3 DEF Only
  <2>5. Head(conn.replies) = item /\ Tail(conn.replies) = <<>>
    BY <2>4
  <2>6. /\ conn' = [conn EXCEPT !.replies = Tail(@)]
        /\ answered' = Append(answered, item.id) /\ late' = late
    BY <1>7, <2>4, <2>5 DEF Receives
  <2>7. conn'.replies = <<>> /\ conn'.requests = conn.requests
    BY <1>1, <2>5, <2>6 DEF SessionTypeOK
  <2>8. item.id \in Transactions
    BY <1>1, <2>4 DEF Transaction, Transactions, TypeOK
  <2>9. Collects(item.id)
    BY <2>1, <2>5, <2>6, <2>7 DEF Collects
  <2> QED
    BY <2>2, <2>7, <2>8, <2>9 DEF OneExchange
<1>8. CASE Serves
  <2>1. conn.requests # <<>>
    BY <1>8 DEF Serves
  <2>2. PICK t \in Threads : pc[t] = "transact" /\ Only(t, conn.requests) /\ conn.replies = <<>>
    BY <2>1 DEF OneExchange
  <2>3. PICK request \in ToSet(conn.requests) :
          conn.requests = <<request>> /\ request.id = Transaction(t, sent[t])
    BY <2>2 DEF Only
  <2>4. Head(conn.requests) = request /\ Tail(conn.requests) = <<>> /\ request \in Requests
    BY <1>1, <2>3, ToSetTypes DEF SessionTypeOK
  <2> DEFINE item == [id |-> request.id, pdu |-> _process(memory, request.pdu).reply]
  <2>5. /\ conn' = [conn EXCEPT !.requests = <<>>, !.replies = Append(@, item)]
        /\ executed' = Append(executed, request.id)
        /\ UNCHANGED <<vars, late, answered>>
    BY <1>8, <2>4 DEF Serves
  <2>6. conn'.requests = <<>> /\ conn'.replies = <<item>>
    BY <1>1, <2>2, <2>5 DEF SessionTypeOK
  <2>7. Executes(request)
    <3>1. Head(conn'.replies).id = request.id
      BY <2>6
    <3>2. request \in Waiting /\ Waiting' \subseteq Waiting \ {request}
      BY <1>2, <2>3, <2>5, <2>6, ToSetEmpty DEF Waiting
    <3> QED
      BY <2>5, <2>6, <3>1, <3>2, ToSetEmpty DEF Executes
  <2>8. Only(t, conn.replies)'
    <3>1. item \in ToSet(conn'.replies) /\ item.id = Transaction(t, sent[t])'
      BY <2>3, <2>5, <2>6, ToSetOne DEF Transaction, vars, history
    <3> QED
      BY <2>6, <3>1 DEF Only
  <2>9. pc' = pc
    BY <2>5 DEF vars
  <2> QED
    BY <2>2, <2>4, <2>6, <2>7, <2>8, <2>9 DEF OneExchange
<1>9. ASSUME ServesLate \/ LosesLate
      PROVE  OneExchange' /\ (Loses \/ \E request \in Requests : Executes(request))
  <2>1. conn' = conn /\ UNCHANGED <<vars, answered>>
    BY <1>9 DEF ServesLate, LosesLate
  <2>2. OneExchange'
    BY <2>1, ExchangeGoesOn DEF vars, history
  <2>3. CASE LosesLate
    <3>1. late' \subseteq late /\ executed' = executed
      BY <2>3 DEF LosesLate
    <3> QED
      BY <1>2, <2>1, <2>2, <3>1 DEF Loses, Waiting
  <2>4. CASE ServesLate
    <3>1. PICK request \in late :
            late' = late \ {request} /\ executed' = Append(executed, request.id)
      BY <2>4 DEF ServesLate
    <3>2. request \in Requests /\ request \in Waiting
      BY <1>1 DEF SessionTypeOK, Waiting
    <3>3. Executes(request)
      BY <1>2, <2>1, <3>1, <3>2 DEF Executes, Waiting
    <3> QED
      BY <2>2, <3>2, <3>3
  <2> QED
    BY <1>9, <2>3, <2>4
<1>10. ASSUME Leaves
       PROVE  OneExchange' /\ Loses
  <2>1. /\ conn'.requests = <<>> /\ conn'.replies \in {<<>>, conn.replies}
        /\ UNCHANGED <<vars, late, executed, answered>>
    BY <1>1, <1>10 DEF Leaves, SessionTypeOK
  <2>2. Loses
    BY <2>1, ToSetEmpty DEF Loses, Waiting
  <2>3. OneExchange'
    <3>1. CASE conn'.replies = <<>>
      BY <2>1, <3>1 DEF OneExchange
    <3>2. CASE conn'.replies = conn.replies /\ conn.replies # <<>>
      <4>1. conn.requests = <<>>
        BY <3>2 DEF OneExchange
      <4> QED
        BY <2>1, <3>2, <4>1, ExchangeGoesOn DEF vars, history
    <3> QED
      BY <2>1, <3>1, <3>2
  <2> QED
    BY <2>2, <2>3
<1>11. CASE SessionDone \/ UNCHANGED <<vars, session>>
  BY <1>3, <1>11 DEF SessionDone, Done, vars, history
<1> QED
  BY <1>4, <1>5, <1>6, <1>7, <1>8, <1>9, <1>10, <1>11 DEF SessionNext

(* All that AnsweredWritesStand rests on is kept by every step.            *)
LEMMA OrderStep ==
  SessionInv /\ OrderInv /\ [SessionNext]_<<vars, session>> => OrderInv'
<1> SUFFICES ASSUME SessionInv, OrderInv, [SessionNext]_<<vars, session>> PROVE OrderInv'
  OBVIOUS
<1>1. OneExchange /\ EachOnce /\ AnswerIsLast /\ AnsweredWritesStand /\ SessionTypeOK
  BY DEF OrderInv, SessionInv
<1>2. OneExchange'
  BY <1>1, ExchangeStep
<1>3. CASE Loses
  BY <1>1, <1>2, <1>3, LosesKeepsOrder DEF OrderInv
<1>4. ASSUME NEW request \in Requests, Asks(request)
      PROVE  OrderInv'
  BY <1>1, <1>2, <1>4, AsksKeepsOrder DEF OrderInv
<1>5. ASSUME NEW request \in Requests, Executes(request)
      PROVE  OrderInv'
  <2>1. request.id \in Transactions
    BY DEF Requests
  <2> QED
    BY <1>1, <1>2, <1>5, <2>1, ExecutesKeepsOrder DEF OrderInv
<1>6. ASSUME NEW id \in Transactions, Collects(id)
      PROVE  OrderInv'
  BY <1>1, <1>2, <1>6, CollectsKeepsOrder DEF OrderInv
<1> QED
  BY <1>1, <1>3, <1>4, <1>5, <1>6, ExchangeStep

LEMMA OrderInitial == SessionInit => OrderInv
BY ToSetEmpty
   DEF SessionInit, OrderInv, OneExchange, EachOnce, AnswerIsLast, AnsweredWritesStand, NoConn,
       Waiting

-----------------------------------------------------------------------------
(* What CallsSucceedWithoutTrouble says of one thread.                     *)
SucceedsFor(t) ==
  /\ pc[t] = "return" /\ call[t].name \in Operations /\ result[t].from # "Build"
  /\ autoReconnect_ /\ ~intentionalDisconnect_
  /\ \/ trouble = "none" /\ Budget >= 1
     \/ trouble = "stale" /\ Budget >= 2
  => result[t].from = "Reply"

LEMMA TroubleParts ==
  TroubleInv <=> OpenMeansUp /\ \A t \in Threads : FitsFor(t) /\ SucceedsFor(t)
BY DEF TroubleInv, CallsSucceedWithoutTrouble, SucceedsFor

(* When one thread works, or gets the mutex, the others have none.         *)
LEMMA OthersHaveNone ==
  ASSUME IInv, NEW t \in Threads, Lock(t) \/ Work(t), NEW u \in Threads, u # t
  PROVE  pc'[u] \in {"idle", "wait"}
<1>1. TypeOK /\ MutexCoversTheLink
  BY DEF IInv
<1>2. pc'[u] = pc[u]
  BY <1>1, OthersStay
<1>3. CASE Lock(t)
  BY <1>1, <1>2, <1>3, ThreadAssumption
     DEF Lock, MutexCoversTheLink, TypeOK, Places, ThreadAssumption
<1>4. CASE Work(t)
  BY <1>1, <1>2, <1>4, OthersWait
<1> QED
  BY <1>3, <1>4

(* A thread that has no mutex makes no claim.                              *)
LEMMA OnlyTheHolder ==
  ASSUME NEW u \in Threads, pc'[u] \in {"idle", "wait"}
  PROVE  FitsFor(u)' /\ SucceedsFor(u)'
BY DEF FitsFor, SucceedsFor, Running, Reopening, Exchanging

(* The steps of the client that do not touch the connection.               *)
LEMMA ComputesFits ==
  ASSUME IInv, OneExchange, OpenMeansUp, NEW t \in Threads, FitsFor(t), SucceedsFor(t),
         Computes(t), ~Invoke(t)
  PROVE  OpenMeansUp' /\ FitsFor(t)' /\ SucceedsFor(t)'
<1>1. TypeOK /\ MutexCoversTheLink /\ UNCHANGED <<conn, trouble>>
  BY DEF IInv, Computes, session
<1>2. attempts[t] \in Nat /\ retries_ \in Int
  BY <1>1, ValueAssumption DEF TypeOK, ValueAssumption
<1> USE <1>1 DEF Goto, Finish, TypeOK, OpenMeansUp, FitsFor, SucceedsFor, Running, Reopening,
                 Exchanging, Outcome
<1>3. CASE Connect(t)
  BY <1>3 DEF Connect, CallOpen
<1>4. CASE Set(t)
  <2>1. call[t].name \notin Operations /\ pc'[t] = "return" /\ call' = call /\ linkOpen' = linkOpen
    BY <1>4 DEF Set, Operations, BitReads, RegisterReads, Writes, linkVars
  <2> QED
    BY <2>1
<1>5. CASE Build(t)
  <2>1. conn.replies = <<>>
    <3>1. \A u \in Threads : pc[u] # "transact"
      BY <1>5 DEF Build, MutexCoversTheLink, Holding
    <3> QED
      BY <3>1 DEF OneExchange
  <2> QED
    BY <1>5, <2>1 DEF Build, linkVars
<1>6. CASE Exhausted(t)
  BY <1>2, <1>6 DEF Exhausted, linkVars, config, Budget
<1>7. CASE NotConnected(t)
  BY <1>7 DEF NotConnected, linkVars, config, flags
<1>8. CASE AlreadyOpen(t)
  BY <1>8 DEF AlreadyOpen, linkVars, locals
<1>9. CASE StartReopening(t)
  BY <1>9 DEF StartReopening, CallOpen
<1>10. CASE Backoff(t)
  BY <1>10 DEF Backoff, CallOpen
<1>11. CASE Pause(t)
  BY <1>11 DEF Pause, linkVars, locals
<1>12. CASE Return(t)
  BY <1>12 DEF Return, linkVars
<1> QED
  BY <1>3, <1>4, <1>5, <1>6, <1>7, <1>8, <1>9, <1>10, <1>11, <1>12 DEF Computes

(* The steps of the client that open, close or use the connection.         *)
LEMMA UsesFits ==
  ASSUME IInv, SessionTypeOK, OneExchange, OpenMeansUp, NEW t \in Threads,
         FitsFor(t), SucceedsFor(t),
         Opens(t) \/ FailsToOpen(t) \/ Disconnects(t) \/ Sends(t) \/ Receives(t) \/ GivesUp(t)
  PROVE  OpenMeansUp' /\ FitsFor(t)' /\ SucceedsFor(t)'
<1>1. TypeOK /\ MutexCoversTheLink /\ PlaceFitsTheCall /\ KeepsOpen = {}
  BY TcpLinkAssumption DEF IInv, TcpLinkAssumption
<1> USE <1>1 DEF Goto, Finish, TypeOK, OpenMeansUp, FitsFor, SucceedsFor, Running, Reopening,
                 Exchanging, Outcome
<1>2. CASE Opens(t)
  <2>1. /\ linkOpen' = TRUE
        /\ \/ linkOpen /\ UNCHANGED <<conn, trouble>>
           \/ ~linkOpen /\ ((conn'.up /\ trouble' = trouble) \/ trouble' = "some")
    BY <1>2 DEF Opens, Connected, Reopened, L!EndOpen, Dialled, NoConn
  <2>2. CASE Connected(t)
    <3>1. call[t].name \notin Operations /\ pc'[t] = "return" /\ call' = call
      BY <2>2 DEF Connected, PlaceFitsTheCall, Connecting, Operations, BitReads,
                  RegisterReads, Writes
    <3> QED
      BY <2>1, <3>1
  <2>3. CASE Reopened(t)
    <3>1. pc[t] = "reopen" /\ pc'[t] = "send" /\ attempts' = attempts
      BY <2>3 DEF Reopened, locals
    <3> QED
      BY <2>1, <3>1
  <2> QED
    BY <1>2, <2>2, <2>3 DEF Opens
<1>3. CASE FailsToOpen(t)
  <2>1. trouble' = "some" /\ pc'[t] \notin {"send", "transact"}
    BY <1>3 DEF FailsToOpen, Connected, ReopenFailed
  <2> QED
    BY <2>1
<1>4. CASE Disconnects(t)
  <2>1. call[t].name = "disconnect" /\ call' = call /\ pc'[t] = "return" /\ linkOpen' = FALSE
    BY <1>4 DEF Disconnects, Disconnect, CallClose
  <2> QED
    BY <2>1 DEF Operations, BitReads, RegisterReads, Writes
<1>5. CASE Sends(t)
  <2>1. /\ pc[t] = "send" /\ pc'[t] = "transact" /\ attempts' = attempts
        /\ linkOpen' = linkOpen /\ trouble' = trouble
    BY <1>5 DEF Sends, Send, CallTransact, locals
  <2>2. conn'.up = conn.up /\ conn'.replies = conn.replies
    BY <1>5 DEF Sends, SessionTypeOK
  <2> QED
    BY <2>1, <2>2
<1>6. CASE Receives(t)
  <2>1. conn.replies # <<>> /\ pc[t] = "transact" /\ trouble' = trouble
    BY <1>6 DEF Receives, Answered, Malformed
  <2>2. PICK u \in Threads : pc[u] = "transact" /\ Only(u, conn.replies)
    BY <2>1 DEF OneExchange
  <2>3. u = t
    BY <2>1, <2>2 DEF MutexCoversTheLink, Holding
  <2>4. Head(conn.replies).id = Transaction(t, sent[t])
    BY <2>2, <2>3 DEF Only
  <2>5. Answered(t) /\ conn' = [conn EXCEPT !.replies = Tail(@)]
    BY <1>6, <2>4 DEF Receives
  <2>6. conn'.up = conn.up /\ linkOpen' = linkOpen
    BY <2>5 DEF SessionTypeOK, Answered, L!EndTransact
  <2>7. pc'[t] = "return" /\ result'[t].from = "Reply"
    BY <2>5 DEF Answered
  <2> QED
    BY <2>1, <2>6, <2>7
<1>7. CASE GivesUp(t)
  <2>1. /\ pc[t] = "transact" /\ pc'[t] \in {"pause", "check"}
        /\ attempts'[t] = attempts[t] + 1 /\ linkOpen' = FALSE
        /\ trouble' = IF conn.up THEN "some" ELSE trouble
    BY <1>7 DEF GivesUp, Failed, L!EndTransact
  <2>2. OpenMeansUp' /\ SucceedsFor(t)'
    BY <2>1
  <2>3. linkOpen /\ attempts[t] \in Nat
    BY <2>1
  <2>4. CASE conn.up
    <3>1. trouble' = "some" /\ pc'[t] \notin {"locked", "send", "transact"}
      BY <2>1, <2>4
    <3> QED
      BY <2>2, <3>1
  <2>5. CASE ~conn.up
    <3>1. trouble' = trouble /\ trouble # "none"
      BY <2>1, <2>3, <2>5
    <3>2. trouble = "stale" => attempts[t] = 0
      BY <2>1, <2>3, <2>5
    <3>3. FitsFor(t)'
      BY <2>1, <2>3, <3>1, <3>2
    <3> QED
      BY <2>2, <3>3
  <2> QED
    BY <2>4, <2>5
<1> QED
  BY <1>2, <1>3, <1>4, <1>5, <1>6, <1>7

(* All that CallsSucceedWithoutTrouble rests on is kept by every step.     *)
LEMMA TroubleStep ==
  SessionInv /\ OneExchange /\ TroubleInv /\ [SessionNext]_<<vars, session>> => TroubleInv'
<1> SUFFICES ASSUME SessionInv, OneExchange, TroubleInv, [SessionNext]_<<vars, session>>
             PROVE  TroubleInv'
  OBVIOUS
<1>1. /\ IInv /\ TypeOK /\ SessionTypeOK
      /\ OpenMeansUp /\ \A t \in Threads : FitsFor(t) /\ SucceedsFor(t)
  BY TroubleParts DEF SessionInv, IInv
<1> SUFFICES OpenMeansUp' /\ \A t \in Threads : FitsFor(t)' /\ SucceedsFor(t)'
  BY DEF TroubleInv, CallsSucceedWithoutTrouble, SucceedsFor
<1>2. ASSUME NEW t \in Threads, Lock(t) \/ Work(t),
             OpenMeansUp' /\ FitsFor(t)' /\ SucceedsFor(t)'
      PROVE  OpenMeansUp' /\ \A u \in Threads : FitsFor(u)' /\ SucceedsFor(u)'
  BY <1>1, <1>2, OthersHaveNone, OnlyTheHolder
<1>3. ASSUME NEW t \in Threads, Takes(t)
      PROVE  OpenMeansUp' /\ FitsFor(t)' /\ SucceedsFor(t)'
  <2>1. /\ pc'[t] = "locked" /\ UNCHANGED <<linkOpen, conn>>
        /\ trouble' = IF linkOpen /\ ~conn.up THEN "stale" ELSE "none"
    BY <1>1, <1>3 DEF Takes, Lock, Goto, linkVars, TypeOK
  <2> QED
    BY <2>1 DEF OpenMeansUp, FitsFor, SucceedsFor, Running, Reopening, Exchanging
<1>4. ASSUME NEW t \in Threads, Invoke(t), UNCHANGED session, NEW u \in Threads
      PROVE  OpenMeansUp' /\ FitsFor(u)' /\ SucceedsFor(u)'
  <2>1. UNCHANGED <<linkOpen, conn, trouble, autoReconnect_, intentionalDisconnect_, retries_>>
    BY <1>4 DEF Invoke, linkVars, config, flags, session
  <2>2. CASE u = t
    <3>1. pc'[u] = "wait"
      BY <1>1, <1>4, <2>2 DEF Invoke, Goto, TypeOK
    <3> QED
      BY <1>1, <2>1, <3>1, OnlyTheHolder DEF OpenMeansUp
  <2>3. CASE u # t
    <3>1. /\ pc'[u] = pc[u] /\ call'[u] = call[u] /\ attempts'[u] = attempts[u]
          /\ result'[u] = result[u]
      BY <1>1, <1>4, <2>3, OthersStay
    <3> QED
      BY <1>1, <2>1, <3>1 DEF OpenMeansUp, FitsFor, SucceedsFor, Budget
  <2> QED
    BY <2>2, <2>3
<1>5. ASSUME NEW t \in Threads, Computes(t), ~Invoke(t)
      PROVE  OpenMeansUp' /\ FitsFor(t)' /\ SucceedsFor(t)' /\ Work(t)
  BY <1>1, <1>5, ComputesFits DEF Computes, Work
<1>6. ASSUME NEW t \in Threads,
             Opens(t) \/ FailsToOpen(t) \/ Disconnects(t) \/ Sends(t) \/ Receives(t) \/ GivesUp(t)
      PROVE  OpenMeansUp' /\ FitsFor(t)' /\ SucceedsFor(t)' /\ Work(t)
  <2>1. Work(t)
    BY <1>6 DEF Opens, FailsToOpen, Disconnects, Sends, Receives, GivesUp, Work
  <2> QED
    BY <1>1, <1>6, <2>1, UsesFits
<1>7. ASSUME UNCHANGED vars, conn'.up = conn.up \/ trouble' = "some",
             trouble' = trouble \/ trouble' = "some",
             conn.up \/ trouble' = "some" \/ conn'.replies = conn.replies
      PROVE  OpenMeansUp' /\ \A t \in Threads : FitsFor(t)' /\ SucceedsFor(t)'
  <2>1. /\ UNCHANGED <<linkOpen, autoReconnect_, intentionalDisconnect_, retries_>>
        /\ UNCHANGED <<pc, call, attempts, result>>
    BY <1>7 DEF vars, linkVars, config, flags, locals
  <2>2. OpenMeansUp'
    BY <1>1, <1>7, <2>1 DEF OpenMeansUp
  <2>3. ASSUME NEW t \in Threads
        PROVE  FitsFor(t)'
    BY <1>1, <1>7, <2>1, <2>3 DEF FitsFor
  <2>4. ASSUME NEW t \in Threads
        PROVE  SucceedsFor(t)'
    BY <1>1, <1>7, <2>1, <2>4 DEF SucceedsFor, Budget
  <2> QED
    BY <2>2, <2>3, <2>4
<1>8. CASE Serves \/ ServesLate \/ LosesLate \/ Leaves
  <2>1. UNCHANGED vars
    BY <1>8 DEF Serves, ServesLate, LosesLate, Leaves
  <2>2. CASE Serves
    <3>1. conn'.up = conn.up /\ conn.up /\ trouble' = trouble
      BY <1>1, <2>2 DEF Serves, SessionTypeOK
    <3> QED
      BY <1>7, <2>1, <3>1
  <2>3. CASE ServesLate \/ LosesLate
    BY <1>7, <2>1, <2>3 DEF ServesLate, LosesLate
  <2>4. CASE Leaves
    BY <1>7, <2>1, <2>4 DEF Leaves
  <2> QED
    BY <1>8, <2>2, <2>3, <2>4
<1>9. CASE SessionDone \/ UNCHANGED <<vars, session>>
  BY <1>7, <1>9 DEF SessionDone, Done, session
<1>10. ASSUME NEW t \in Threads, Takes(t) \/ Computes(t)
       PROVE  OpenMeansUp' /\ \A u \in Threads : FitsFor(u)' /\ SucceedsFor(u)'
  <2>1. CASE Takes(t)
    BY <1>2, <1>3, <2>1 DEF Takes
  <2>2. CASE Computes(t) /\ Invoke(t)
    BY <1>4, <2>2 DEF Computes
  <2>3. CASE Computes(t) /\ ~Invoke(t)
    BY <1>2, <1>5, <2>3
  <2> QED
    BY <1>10, <2>1, <2>2, <2>3
<1> QED
  BY <1>2, <1>6, <1>8, <1>9, <1>10 DEF SessionNext

LEMMA TroubleInitial == SessionInit => TroubleInv
BY DEF SessionInit, Init, L!LinkInit, TroubleInv, OpenMeansUp, FitsFor,
       CallsSucceedWithoutTrouble, Running, Reopening, Exchanging

-----------------------------------------------------------------------------
(* A call that was answered, even by an exception, is never sent again:    *)
(* nothing that the server executes or may still execute comes after its   *)
(* answered transaction, for any number of threads, calls, retries and     *)
(* lost connections (client.cpp:82-83 over tcp_link.cpp:208-281).          *)
THEOREM AnsweredIsFinal == SessionSpec => []AnswersAreFinal
<1>1. SessionInv => AnswersAreFinal
  BY DEF SessionInv
<1> QED
  BY <1>1, SessionInitial, SessionStep, PTL DEF SessionSpec

(* What the callers were told is what the device did: each answered        *)
(* transaction was executed once, in the order of the answers, for any     *)
(* number of threads and calls and whatever requests of lost connections   *)
(* are executed in between (client.cpp:81-84 over tcp_link.cpp:208-281).   *)
THEOREM WritesStand == SessionSpec => []AnsweredWritesStand
<1>1. OrderInv => AnsweredWritesStand
  BY DEF OrderInv
<1> QED
  BY <1>1, SessionInitial, SessionStep, OrderInitial, OrderStep, PTL DEF SessionSpec

(* A call is answered when nothing goes wrong while it runs, and after the *)
(* server has left unnoticed a single retry is enough, for any number of   *)
(* threads, whatever their calls do in between (client.cpp:58-88).         *)
THEOREM CallsSucceed == SessionSpec => []CallsSucceedWithoutTrouble
<1>1. OrderInv => OneExchange
  BY DEF OrderInv
<1>2. TroubleInv => CallsSucceedWithoutTrouble
  BY DEF TroubleInv
<1> QED
  BY <1>1, <1>2, SessionInitial, SessionStep, OrderInitial, OrderStep, TroubleInitial,
     TroubleStep, PTL DEF SessionSpec
=============================================================================
