------------------------ MODULE ModbusClient_proofs ------------------------
(***************************************************************************)
(* Theorems about ModbusClient for every set of threads, calls, replies    *)
(* and settings.                                                           *)
(***************************************************************************)
EXTENDS ModbusClient, Functions, FiniteSetTheorems, FunctionTheorems, TLAPS

(* A builder answers what its quantity check answers.                      *)
LEMMA CheckedCategory ==
  ASSUME NEW check, NEW pdu
  PROVE  Checked(check, pdu).category = check.category
BY DEF Checked, ok, isOk

(* A quantity check answers None or Usage.                                 *)
LEMMA InRangeCategory ==
  ASSUME NEW quantity, NEW last
  PROVE  InRange(quantity, last).category \in {"None", "Usage"}
BY DEF InRange, ok, Error

(* What the caller of an operation is told when its request is not built.  *)
LEMMA BuildCategory ==
  ASSUME NEW o, o.name \in Operations
  PROVE  build(o).category \in {"None", "Usage"}
<1> USE CheckedCategory, InRangeCategory
          DEF validateCoilQuantity, validateRegisterQuantity,
              validateWriteMultipleCoilQuantity, validateWriteMultipleRegisterQuantity
<1>1. CASE o.name = "readCoils"
  BY <1>1 DEF build, buildReadCoils
<1>2. CASE o.name = "readDiscreteInputs"
  BY <1>2 DEF build, buildReadDiscreteInputs
<1>3. CASE o.name = "readHoldingRegisters"
  BY <1>3 DEF build, buildReadHoldingRegisters
<1>4. CASE o.name = "readInputRegisters"
  BY <1>4 DEF build, buildReadInputRegisters
<1>5. CASE o.name = "writeSingleCoil"
  BY <1>5 DEF build, buildWriteSingleCoil, ok
<1>6. CASE o.name = "writeSingleRegister"
  BY <1>6 DEF build, buildWriteSingleRegister, ok
<1>7. CASE o.name = "writeMultipleCoils"
  BY <1>7 DEF build, buildWriteMultipleCoils
<1>8. CASE o.name = "writeMultipleRegisters"
  BY <1>8 DEF build, buildWriteMultipleRegisters
<1> QED
  BY <1>1, <1>2, <1>3, <1>4, <1>5, <1>6, <1>7, <1>8
     DEF Operations, BitReads, RegisterReads, Writes

(* What the caller of an operation is told about an answer.                *)
LEMMA FinishCategory ==
  ASSUME NEW o, NEW req, NEW resp, o.name \in Operations
  PROVE  /\ finish(o, req, resp).category \in Categories
         /\ isExceptionResponse(resp) =>
              finish(o, req, resp).category \in {"Device", "Protocol"}
<1>1. parseException(resp).category \in {"Device", "Protocol"}
  BY DEF parseException, Error
<1>2. parseReadBitsResponse(req, resp).category \in {"None", "Protocol"}
  BY DEF parseReadBitsResponse, Error, ok
<1>3. parseReadRegistersResponse(req, resp).category \in {"None", "Protocol"}
  BY DEF parseReadRegistersResponse, Error, ok
<1>4. ok(<<>>).category = "None"
  BY DEF ok
<1> QED
  BY <1>1, <1>2, <1>3, <1>4
     DEF finish, Operations, BitReads, RegisterReads, Writes, Categories

-----------------------------------------------------------------------------
(* The steps of one thread, to split Next by.                              *)
LEMMA StepCases ==
  ASSUME [Next]_vars
  PROVE  \/ UNCHANGED vars
         \/ OpenProceeds
         \/ \E t \in Threads : Invoke(t) \/ Lock(t) \/ Work(t)
BY DEF Next, Done

(* Of two naturals, Min picks one that exceeds neither.                    *)
LEMMA MinOfTwo ==
  ASSUME NEW a \in Nat, NEW b \in Nat
  PROVE  Min({a, b}) \in {a, b} /\ Min({a, b}) <= a /\ Min({a, b}) <= b
BY DEF Min

(* A back-off is a pair of times.                                          *)
LEMMA BackoffsAreNat ==
  ASSUME NEW b \in Backoffs
  PROVE  b[1] \in Nat /\ b[2] \in Nat
BY ValueAssumption DEF ValueAssumption

(* A new client has its types.                                             *)
LEMMA TypeInit == Init => TypeOK
<1> SUFFICES ASSUME Init PROVE TypeOK
  OBVIOUS
<1>1. /\ mutex_ \in Threads \cup {NoThread} /\ unitId_ \in UnitIds /\ timeout_ \in Timeouts
      /\ retries_ \in RetryValues /\ autoReconnect_ \in BOOLEAN /\ reconnectMs_ \in Backoffs
      /\ intentionalDisconnect_ \in BOOLEAN /\ reconnecting_ \in BOOLEAN
  BY DEF Init
<1>2. L!LinkTypeOK
  BY DEF Init, L!LinkInit, L!LinkTypeOK
<1>3. pc \in [Threads -> Places] /\ call \in [Threads -> Calls \cup {NoCall}]
  BY DEF Init, Places
<1>4. attempts \in [Threads -> Nat] /\ rcA \in [Threads -> Nat] /\ delay \in [Threads -> Nat]
  BY DEF Init
<1>5. reply \in [Threads -> Replies \cup {NoReply}] /\ result \in [Threads -> Outcomes]
  BY DEF Init, Outcomes, NoResult, Categories
<1>6. sent \in [Threads -> Nat] /\ opens \in [Threads -> Nat] /\ calls \in [Threads -> Nat]
  BY DEF Init
<1>7. addressed \in [Threads -> SUBSET (UnitIds \X Timeouts)]
  BY DEF Init
<1> QED
  BY <1>1, <1>2, <1>3, <1>4, <1>5, <1>6, <1>7 DEF TypeOK

(* A method whose request is accepted goes on to the retry loop, one whose *)
(* request is refused returns the builder's error.  (client.cpp:92-93.)    *)
LEMMA BuildAccepts ==
  ASSUME NEW t \in Threads, Build(t), isOk(build(call[t]))
  PROVE  /\ pc' = [pc EXCEPT ![t] = "check"] /\ attempts' = [attempts EXCEPT ![t] = 0]
         /\ result' = result
BY DEF Build, Goto

LEMMA BuildRefuses ==
  ASSUME NEW t \in Threads, Build(t), ~isOk(build(call[t]))
  PROVE  /\ pc' = [pc EXCEPT ![t] = "return"] /\ attempts' = attempts
         /\ result' = [result EXCEPT ![t] = Outcome(build(call[t]).category, "Build")]
BY DEF Build, Goto, Finish

(* Every variable keeps its type, whatever the calls, the replies and the  *)
(* order of the threads.                                                   *)
LEMMA TypeStep ==
  ASSUME TypeOK, PlaceFitsTheCall, [Next]_vars
  PROVE  TypeOK'
<1>1. CASE UNCHANGED vars
  BY <1>1 DEF TypeOK, vars, config, flags, linkVars, locals, history, L!LinkTypeOK
<1>2. ASSUME NEW t \in Threads, Invoke(t) \/ Lock(t) \/ Work(t)
      PROVE  TypeOK'
  <2> USE DEF TypeOK, L!LinkTypeOK, config, flags, linkVars, locals, history,
              Goto, Finish, Outcome, Outcomes, Categories, Places, Holding,
              Connecting, Reopening, Exchanging
  <2>1. CASE Invoke(t)
    BY <2>1 DEF Invoke
  <2>2. CASE Lock(t)
    BY <2>2 DEF Lock
  <2>3. CASE Connect(t)
    <3>1. pc' \in [Threads -> Places] /\ opens' \in [Threads -> Nat]
      BY <2>3 DEF Connect, CallOpen
    <3>2. /\ intentionalDisconnect_' \in BOOLEAN /\ reconnecting_' \in BOOLEAN
          /\ L!LinkTypeOK'
      BY <2>3 DEF Connect, CallOpen
    <3> QED
      BY <2>3, <3>1, <3>2 DEF Connect
  <2>4. CASE Connected(t)
    BY <2>4 DEF Connected, L!EndOpen
  <2>5. CASE Disconnect(t)
    BY <2>5 DEF Disconnect, CallClose
  <2>6. CASE Set(t)
    <3>1. pc' \in [Threads -> Places] /\ call[t] \in Calls
      BY <2>6 DEF Set, NoCall
    <3>2. /\ unitId_' \in UnitIds /\ timeout_' \in Timeouts /\ retries_' \in RetryValues
          /\ autoReconnect_' \in BOOLEAN /\ reconnectMs_' \in Backoffs
      BY <2>6, <3>1, CallAssumption DEF Set
    <3> QED
      BY <2>6, <3>1, <3>2 DEF Set
  <2>7. CASE Build(t)
    <3>1. CASE isOk(build(call[t]))
      <4>1. /\ pc' = [pc EXCEPT ![t] = "check"] /\ attempts' = [attempts EXCEPT ![t] = 0]
            /\ result' = result
        BY <2>7, <3>1, BuildAccepts
      <4> QED
        BY <2>7, <4>1 DEF Build
    <3>2. CASE ~isOk(build(call[t]))
      <4>1. build(call[t]).category \in Categories
        BY <2>7, BuildCategory DEF Build
      <4>2. /\ pc' = [pc EXCEPT ![t] = "return"] /\ attempts' = attempts
            /\ result' = [result EXCEPT ![t] = Outcome(build(call[t]).category, "Build")]
        BY <2>7, <3>2, BuildRefuses
      <4>3. result' \in [Threads -> Outcomes]
        BY <4>1, <4>2
      <4>4. pc' \in [Threads -> Places]
        BY <4>2
      <4> QED
        BY <2>7, <4>2, <4>3, <4>4 DEF Build
    <3> QED
      BY <3>1, <3>2
  <2>8. CASE Exhausted(t)
    BY <2>8 DEF Exhausted
  <2>9. CASE NotConnected(t)
    BY <2>9 DEF NotConnected
  <2>10. CASE AlreadyOpen(t)
    BY <2>10 DEF AlreadyOpen
  <2>11. CASE StartReopening(t)
    <3>1. pc' \in [Threads -> Places] /\ opens' \in [Threads -> Nat] /\ rcA' \in [Threads -> Nat]
      BY <2>11 DEF StartReopening, CallOpen
    <3>2. delay' \in [Threads -> Nat]
      BY <2>11, ValueAssumption DEF StartReopening, ValueAssumption
    <3>3. reconnecting_' \in BOOLEAN /\ L!LinkTypeOK'
      BY <2>11 DEF StartReopening, CallOpen
    <3> QED
      BY <2>11, <3>1, <3>2, <3>3 DEF StartReopening
  <2>12. CASE Reopened(t)
    BY <2>12 DEF Reopened, L!EndOpen
  <2>13. CASE ReopenFailed(t)
    <3>1. rcA' \in [Threads -> Nat] /\ L!LinkTypeOK'
      BY <2>13 DEF ReopenFailed, L!EndOpen
    <3>2. CASE rcA'[t] <= retries_
      <4>1. pc' \in [Threads -> Places] /\ UNCHANGED <<reconnecting_, result>>
        BY <2>13, <3>2 DEF ReopenFailed
      <4> QED
        BY <2>13, <3>1, <4>1 DEF ReopenFailed
    <3>3. CASE ~(rcA'[t] <= retries_)
      <4>1. pc' \in [Threads -> Places] /\ reconnecting_' \in BOOLEAN
        BY <2>13, <3>3 DEF ReopenFailed
      <4>2. result' \in [Threads -> Outcomes]
        BY <2>13, <3>3 DEF ReopenFailed
      <4> QED
        BY <2>13, <3>1, <4>1, <4>2 DEF ReopenFailed
    <3> QED
      BY <3>2, <3>3
  <2>14. CASE Backoff(t)
    <3>1. /\ pc' \in [Threads -> Places] /\ opens' \in [Threads -> Nat]
          /\ L!LinkTypeOK'
      BY <2>14 DEF Backoff, CallOpen
    <3>2. Min({2 * delay[t], reconnectMs_[2]}) \in Nat
      <4>1. delay[t] \in Nat /\ reconnectMs_ \in Backoffs
        OBVIOUS
      <4>2. reconnectMs_[2] \in Nat
        BY <4>1, BackoffsAreNat
      <4>3. 2 * delay[t] \in Nat
        BY <4>1
      <4> HIDE DEF TypeOK, L!LinkTypeOK
      <4> QED
        BY <4>2, <4>3, MinOfTwo
    <3>3. delay' \in [Threads -> Nat]
      BY <2>14, <3>2 DEF Backoff
    <3> QED
      BY <2>14, <3>1, <3>3 DEF Backoff
  <2>15. CASE Send(t)
    BY <2>15 DEF Send, CallTransact
  <2>16. CASE Answered(t)
    <3>1. pc' \in [Threads -> Places] /\ L!LinkTypeOK'
      BY <2>16 DEF Answered, L!EndTransact
    <3>2. reply' \in [Threads -> Replies \cup {NoReply}]
      BY <2>16 DEF Answered
    <3>3. PICK resp \in Replies :
            result' = [result EXCEPT ![t] =
                         Outcome(finish(call[t], build(call[t]).value, resp).category, "Reply")]
      BY <2>16 DEF Answered
    <3>4. finish(call[t], build(call[t]).value, resp).category \in Categories
      <4>1. call[t].name \in Operations
        BY <2>16 DEF Answered, PlaceFitsTheCall, Running
      <4> QED
        BY <4>1, FinishCategory
    <3>5. result' \in [Threads -> Outcomes]
      BY <3>3, <3>4
    <3> QED
      BY <2>16, <3>1, <3>2, <3>5 DEF Answered
  <2>17. CASE Malformed(t)
    BY <2>17 DEF Malformed, L!EndTransact
  <2>18. CASE Failed(t)
    BY <2>18 DEF Failed, L!EndTransact
  <2>19. CASE Pause(t)
    BY <2>19 DEF Pause
  <2>20. CASE Return(t)
    <3>1. /\ pc' \in [Threads -> Places] /\ call' \in [Threads -> Calls \cup {NoCall}]
          /\ mutex_' \in Threads \cup {NoThread}
      BY <2>20 DEF Return
    <3>2. /\ attempts' \in [Threads -> Nat] /\ rcA' \in [Threads -> Nat]
          /\ delay' \in [Threads -> Nat] /\ sent' \in [Threads -> Nat]
          /\ opens' \in [Threads -> Nat]
      BY <2>20 DEF Return
    <3>3. /\ reply' \in [Threads -> Replies \cup {NoReply}]
          /\ result' \in [Threads -> Outcomes]
          /\ addressed' \in [Threads -> SUBSET (UnitIds \X Timeouts)]
      BY <2>20 DEF Return, NoResult
    <3> QED
      BY <2>20, <3>1, <3>2, <3>3 DEF Return
  <2> QED
    BY <1>2, <2>1, <2>2, <2>3, <2>4, <2>5, <2>6, <2>7, <2>8, <2>9, <2>10, <2>11, <2>12,
       <2>13, <2>14, <2>15, <2>16, <2>17, <2>18, <2>19, <2>20 DEF Work
<1>3. CASE OpenProceeds
  BY <1>3 DEF TypeOK, OpenProceeds, L!OpenProceeds, config, flags, locals, history, L!LinkTypeOK
<1> QED
  BY <1>1, <1>2, <1>3, StepCases

-----------------------------------------------------------------------------
(* A thread at work holds the mutex and gives it back or moves on; the     *)
(* link is in the call its new place stands for.                           *)
LEMMA HolderStep ==
  ASSUME TypeOK, MutexCoversTheLink, NEW t \in Threads, Work(t)
  PROVE  /\ pc[t] \in Holding /\ mutex_ = t
         /\ \/ pc' = [pc EXCEPT ![t] = "idle"] /\ mutex_' = NoThread
            \/ \E place \in Holding : pc' = [pc EXCEPT ![t] = place] /\ mutex_' = t
         /\ linkCall' = CallAt(pc'[t])
<1>1. pc[t] \in Holding
  BY DEF Work, Connect, Connected, Disconnect, Set, Build, Exhausted, NotConnected,
         AlreadyOpen, StartReopening, Reopened, ReopenFailed, Backoff, Send, Answered,
         Malformed, Failed, Pause, Return, Holding, Connecting, Reopening, Exchanging
<1>2. mutex_ = t /\ linkCall = CallAt(pc[t])
  BY <1>1, ThreadAssumption DEF MutexCoversTheLink, ThreadAssumption
<1> USE <1>2 DEF TypeOK, Goto, Finish, CallAt, Holding, Connecting, Reopening, Exchanging,
                 linkVars
<1>3. CASE Connect(t)
  BY <1>3 DEF Connect, CallOpen
<1>4. CASE Connected(t)
  BY <1>4 DEF Connected, L!EndOpen
<1>5. CASE Disconnect(t)
  BY <1>5 DEF Disconnect, CallClose
<1>6. CASE Set(t)
  BY <1>6 DEF Set
<1>7. CASE Build(t)
  BY <1>7 DEF Build
<1>8. CASE Exhausted(t)
  BY <1>8 DEF Exhausted
<1>9. CASE NotConnected(t)
  BY <1>9 DEF NotConnected
<1>10. CASE AlreadyOpen(t)
  BY <1>10 DEF AlreadyOpen
<1>11. CASE StartReopening(t)
  BY <1>11 DEF StartReopening, CallOpen
<1>12. CASE Reopened(t)
  BY <1>12 DEF Reopened, L!EndOpen
<1>13. CASE ReopenFailed(t)
  BY <1>13 DEF ReopenFailed, L!EndOpen
<1>14. CASE Backoff(t)
  BY <1>14 DEF Backoff, CallOpen
<1>15. CASE Send(t)
  BY <1>15 DEF Send, CallTransact
<1>16. CASE Answered(t)
  BY <1>16 DEF Answered, L!EndTransact
<1>17. CASE Malformed(t)
  BY <1>17 DEF Malformed, L!EndTransact
<1>18. CASE Failed(t)
  BY <1>18 DEF Failed, L!EndTransact
<1>19. CASE Pause(t)
  BY <1>19 DEF Pause
<1>20. CASE Return(t)
  BY <1>20 DEF Return
<1> QED
  BY <1>1, <1>3, <1>4, <1>5, <1>6, <1>7, <1>8, <1>9, <1>10, <1>11, <1>12, <1>13, <1>14,
     <1>15, <1>16, <1>17, <1>18, <1>19, <1>20 DEF Work

(* The mutex keeps covering the link.                                      *)
LEMMA MutexStep ==
  ASSUME TypeOK, MutexCoversTheLink, [Next]_vars
  PROVE  MutexCoversTheLink'
<1>1. CASE UNCHANGED vars
  BY <1>1 DEF MutexCoversTheLink, CallAt, vars, linkVars
<1>2. ASSUME NEW t \in Threads, Invoke(t)
      PROVE  MutexCoversTheLink'
  <2>1. /\ pc[t] = "idle" /\ pc' = [pc EXCEPT ![t] = "wait"]
        /\ mutex_' = mutex_ /\ linkCall' = linkCall /\ mutex_ # t
    BY <1>2, ThreadAssumption
       DEF Invoke, Goto, linkVars, MutexCoversTheLink, Holding, Connecting, Reopening,
           Exchanging
  <2>2. \A u \in Threads : pc'[u] \in Holding <=> pc[u] \in Holding
    BY <2>1 DEF TypeOK, Holding, Connecting, Reopening, Exchanging
  <2>3. mutex_ # NoThread => CallAt(pc'[mutex_]) = CallAt(pc[mutex_])
    BY <2>1 DEF TypeOK, CallAt
  <2> QED
    BY <2>1, <2>2, <2>3 DEF MutexCoversTheLink
<1>3. ASSUME NEW t \in Threads, Lock(t)
      PROVE  MutexCoversTheLink'
  <2>1. /\ pc' = [pc EXCEPT ![t] = "locked"] /\ mutex_ = NoThread /\ mutex_' = t
        /\ linkCall' = linkCall
    BY <1>3 DEF Lock, Goto, linkVars
  <2>2. \A u \in Threads : pc[u] \notin Holding
    BY <2>1, ThreadAssumption DEF MutexCoversTheLink, ThreadAssumption
  <2>3. \A u \in Threads : pc'[u] \in Holding <=> mutex_' = u
    BY <2>1, <2>2 DEF TypeOK, Holding
  <2>4. linkCall' = CallAt(pc'[t])
    BY <2>1 DEF MutexCoversTheLink, TypeOK, CallAt
  <2> QED
    BY <2>1, <2>3, <2>4, ThreadAssumption DEF MutexCoversTheLink, ThreadAssumption, CallAt
<1>4. ASSUME NEW t \in Threads, Work(t)
      PROVE  MutexCoversTheLink'
  <2>1. \A u \in Threads \ {t} : pc[u] \notin Holding
    BY <1>4, HolderStep DEF MutexCoversTheLink
  <2>2. CASE pc' = [pc EXCEPT ![t] = "idle"] /\ mutex_' = NoThread
    <3>1. \A u \in Threads : pc'[u] \notin Holding
      BY <2>1, <2>2 DEF TypeOK, Holding, Connecting, Reopening, Exchanging
    <3>2. linkCall' = "none"
      BY <1>4, <2>2, HolderStep DEF TypeOK, CallAt
    <3> QED
      BY <2>2, <3>1, <3>2, ThreadAssumption DEF MutexCoversTheLink, ThreadAssumption
  <2>3. ASSUME NEW place \in Holding, pc' = [pc EXCEPT ![t] = place], mutex_' = t
        PROVE  MutexCoversTheLink'
    <3>1. \A u \in Threads : pc'[u] \in Holding <=> mutex_' = u
      BY <2>1, <2>3 DEF TypeOK
    <3>2. linkCall' = CallAt(pc'[t])
      BY <1>4, HolderStep
    <3> QED
      BY <2>3, <3>1, <3>2, ThreadAssumption DEF MutexCoversTheLink, ThreadAssumption, CallAt
  <2> QED
    BY <1>4, <2>2, <2>3, HolderStep
<1>5. CASE OpenProceeds
  BY <1>5 DEF MutexCoversTheLink, CallAt, OpenProceeds, L!OpenProceeds
<1> QED
  BY <1>1, <1>2, <1>3, <1>4, <1>5, StepCases

(* The other threads are outside the lock and nothing of theirs changes.   *)
LEMMA OthersStay ==
  ASSUME TypeOK, NEW t \in Threads, Invoke(t) \/ Lock(t) \/ Work(t),
         NEW u \in Threads, u # t
  PROVE  /\ pc'[u] = pc[u] /\ call'[u] = call[u]
         /\ attempts'[u] = attempts[u] /\ rcA'[u] = rcA[u] /\ result'[u] = result[u]
         /\ sent'[u] = sent[u] /\ opens'[u] = opens[u]
<1> USE DEF TypeOK, Goto, Finish, locals, history
<1>1. CASE Invoke(t)
  BY <1>1 DEF Invoke
<1>2. CASE Lock(t)
  BY <1>2 DEF Lock
<1>3. CASE Connect(t)
  BY <1>3 DEF Connect, CallOpen
<1>4. CASE Connected(t)
  BY <1>4 DEF Connected
<1>5. CASE Disconnect(t)
  BY <1>5 DEF Disconnect
<1>6. CASE Set(t)
  BY <1>6 DEF Set
<1>7. CASE Build(t)
  BY <1>7 DEF Build
<1>8. CASE Exhausted(t)
  BY <1>8 DEF Exhausted
<1>9. CASE NotConnected(t)
  BY <1>9 DEF NotConnected
<1>10. CASE AlreadyOpen(t)
  BY <1>10 DEF AlreadyOpen
<1>11. CASE StartReopening(t)
  BY <1>11 DEF StartReopening, CallOpen
<1>12. CASE Reopened(t)
  BY <1>12 DEF Reopened
<1>13. CASE ReopenFailed(t)
  BY <1>13 DEF ReopenFailed
<1>14. CASE Backoff(t)
  BY <1>14 DEF Backoff, CallOpen
<1>15. CASE Send(t)
  BY <1>15 DEF Send, CallTransact
<1>16. CASE Answered(t)
  BY <1>16 DEF Answered
<1>17. CASE Malformed(t)
  BY <1>17 DEF Malformed
<1>18. CASE Failed(t)
  BY <1>18 DEF Failed
<1>19. CASE Pause(t)
  BY <1>19 DEF Pause
<1>20. CASE Return(t)
  BY <1>20 DEF Return
<1> QED
  BY <1>1, <1>2, <1>3, <1>4, <1>5, <1>6, <1>7, <1>8, <1>9, <1>10, <1>11, <1>12, <1>13,
     <1>14, <1>15, <1>16, <1>17, <1>18, <1>19, <1>20 DEF Work

(* While one thread works the others are idle or wait for the mutex.       *)
LEMMA OthersWait ==
  ASSUME TypeOK, MutexCoversTheLink, NEW t \in Threads, Work(t),
         NEW u \in Threads, u # t
  PROVE  pc[u] \in {"idle", "wait"}
BY HolderStep DEF MutexCoversTheLink, TypeOK, Places

(* A thread stays in the kind of method its place belongs to.              *)
LEMMA PlaceStep ==
  ASSUME TypeOK, PlaceFitsTheCall, [Next]_vars
  PROVE  PlaceFitsTheCall'
<1>1. CASE UNCHANGED vars
  BY <1>1 DEF PlaceFitsTheCall, vars
<1>2. ASSUME NEW t \in Threads, Invoke(t) \/ Lock(t) \/ Work(t)
      PROVE  PlaceFitsTheCall'
  <2> DEFINE Fits(u) == /\ pc[u] \in Running => call[u].name \in Operations
                        /\ pc[u] \in Connecting => call[u].name = "connect"
  <2>1. ASSUME NEW u \in Threads, u # t
        PROVE  Fits(u)'
    BY <1>2, <2>1, OthersStay DEF PlaceFitsTheCall
  <2>2. Fits(t)'
    <3> USE DEF TypeOK, Goto, Finish, PlaceFitsTheCall, Running, Connecting, Reopening,
                Exchanging
    <3>1. CASE Invoke(t)
      BY <3>1 DEF Invoke
    <3>2. CASE Lock(t)
      BY <3>2 DEF Lock
    <3>3. CASE Connect(t)
      BY <3>3 DEF Connect
    <3>4. CASE Connected(t)
      BY <3>4 DEF Connected
    <3>5. CASE Disconnect(t)
      BY <3>5 DEF Disconnect
    <3>6. CASE Set(t)
      BY <3>6 DEF Set
    <3>7. CASE Build(t)
      BY <3>7 DEF Build
    <3>8. CASE Exhausted(t)
      BY <3>8 DEF Exhausted
    <3>9. CASE NotConnected(t)
      BY <3>9 DEF NotConnected
    <3>10. CASE AlreadyOpen(t)
      BY <3>10 DEF AlreadyOpen
    <3>11. CASE StartReopening(t)
      BY <3>11 DEF StartReopening
    <3>12. CASE Reopened(t)
      BY <3>12 DEF Reopened
    <3>13. CASE ReopenFailed(t)
      BY <3>13 DEF ReopenFailed
    <3>14. CASE Backoff(t)
      BY <3>14 DEF Backoff
    <3>15. CASE Send(t)
      BY <3>15 DEF Send
    <3>16. CASE Answered(t)
      BY <3>16 DEF Answered
    <3>17. CASE Malformed(t)
      BY <3>17 DEF Malformed
    <3>18. CASE Failed(t)
      BY <3>18 DEF Failed
    <3>19. CASE Pause(t)
      BY <3>19 DEF Pause
    <3>20. CASE Return(t)
      BY <3>20 DEF Return
    <3> QED
      BY <1>2, <3>1, <3>2, <3>3, <3>4, <3>5, <3>6, <3>7, <3>8, <3>9, <3>10, <3>11, <3>12,
         <3>13, <3>14, <3>15, <3>16, <3>17, <3>18, <3>19, <3>20 DEF Work
  <2> QED
    BY <2>1, <2>2 DEF PlaceFitsTheCall
<1>3. CASE OpenProceeds
  BY <1>3 DEF PlaceFitsTheCall, OpenProceeds
<1> QED
  BY <1>1, <1>2, <1>3, StepCases

(* isReconnecting() is true exactly inside a reopening loop.               *)
LEMMA ReconnectingStep ==
  ASSUME TypeOK, MutexCoversTheLink, ReconnectingIsVisible, [Next]_vars
  PROVE  ReconnectingIsVisible'
<1>1. CASE UNCHANGED vars
  BY <1>1 DEF ReconnectingIsVisible, vars, flags
<1>2. ASSUME NEW t \in Threads, Invoke(t) \/ Lock(t)
      PROVE  ReconnectingIsVisible'
  <2>1. reconnecting_' = reconnecting_
    BY <1>2 DEF Invoke, Lock, flags
  <2>2. \A u \in Threads : pc'[u] \in Reopening <=> pc[u] \in Reopening
    BY <1>2 DEF Invoke, Lock, Goto, Reopening, TypeOK
  <2> QED
    BY <2>1, <2>2 DEF ReconnectingIsVisible
<1>3. ASSUME NEW t \in Threads, Work(t)
      PROVE  ReconnectingIsVisible'
  <2>1. \A u \in Threads \ {t} : pc[u] \notin Reopening /\ pc'[u] \notin Reopening
    BY <1>3, OthersWait, OthersStay DEF Reopening
  <2>2. reconnecting_ <=> pc[t] \in Reopening
    BY <2>1 DEF ReconnectingIsVisible
  <2> HIDE DEF ReconnectingIsVisible
  <2>3. reconnecting_' <=> pc'[t] \in Reopening
    <3> USE <2>2 DEF TypeOK, Goto, Finish, Reopening, flags
    <3>1. CASE Connect(t)
      BY <3>1 DEF Connect
    <3>2. CASE Connected(t)
      BY <3>2 DEF Connected
    <3>3. CASE Disconnect(t)
      BY <3>3 DEF Disconnect
    <3>4. CASE Set(t)
      BY <3>4 DEF Set
    <3>5. CASE Build(t)
      BY <3>5 DEF Build
    <3>6. CASE Exhausted(t)
      BY <3>6 DEF Exhausted
    <3>7. CASE NotConnected(t)
      BY <3>7 DEF NotConnected
    <3>8. CASE AlreadyOpen(t)
      BY <3>8 DEF AlreadyOpen
    <3>9. CASE StartReopening(t)
      BY <3>9 DEF StartReopening
    <3>10. CASE Reopened(t)
      BY <3>10 DEF Reopened
    <3>11. CASE ReopenFailed(t)
      BY <3>11 DEF ReopenFailed
    <3>12. CASE Backoff(t)
      BY <3>12 DEF Backoff
    <3>13. CASE Send(t)
      BY <3>13 DEF Send
    <3>14. CASE Answered(t)
      BY <3>14 DEF Answered
    <3>15. CASE Malformed(t)
      BY <3>15 DEF Malformed
    <3>16. CASE Failed(t)
      BY <3>16 DEF Failed
    <3>17. CASE Pause(t)
      BY <3>17 DEF Pause
    <3>18. CASE Return(t)
      BY <3>18 DEF Return
    <3> QED
      BY <1>3, <3>1, <3>2, <3>3, <3>4, <3>5, <3>6, <3>7, <3>8, <3>9, <3>10, <3>11, <3>12,
         <3>13, <3>14, <3>15, <3>16, <3>17, <3>18 DEF Work
  <2> QED
    BY <2>1, <2>3 DEF ReconnectingIsVisible
<1>4. CASE OpenProceeds
  BY <1>4 DEF ReconnectingIsVisible, OpenProceeds, flags
<1> QED
  BY <1>1, <1>2, <1>3, <1>4, StepCases

(* The arithmetic of nested retry loops: a attempts of b openings each.    *)
LEMMA Products ==
  ASSUME NEW a \in Nat, NEW b \in Nat
  PROVE  /\ a * b \in Nat /\ 0 <= b * b
         /\ (a + 1) * b = a * b + b
         /\ a <= b => a * b <= b * b
         /\ a + 1 <= b => a * b + b <= b * b
<1>1. a * b \in Nat /\ b * b \in Nat
  OBVIOUS
<1>2. (a + 1) * b = a * b + b
  OBVIOUS
<1>3. ASSUME a <= b PROVE a * b <= b * b
  BY <1>3
<1>4. ASSUME a + 1 <= b PROVE a * b + b <= b * b
  <2>1. (a + 1) * b <= b * b
    BY <1>4
  <2> QED
    BY <2>1, <1>2
<1> QED
  BY <1>1, <1>2, <1>3, <1>4

(* The budget is retries_ + 1 and, for a negative retries_, nothing.       *)
LEMMA BudgetIsNat == ASSUME TypeOK PROVE Budget \in Nat /\ (retries_ >= 0 => Budget = retries_ + 1)
BY ValueAssumption DEF TypeOK, ValueAssumption, Budget

(* attempts, sent, opens and rcA keep counting what they stand for.        *)
LEMMA CountsStep ==
  ASSUME TypeOK, MutexCoversTheLink, PlaceFitsTheCall, CountsAgree, [Next]_vars
  PROVE  CountsAgree'
<1>0. retries_ \in Int /\ Budget \in Nat /\ (retries_ >= 0 => Budget = retries_ + 1)
  BY BudgetIsNat, ValueAssumption DEF TypeOK, ValueAssumption
<1>1. CASE UNCHANGED vars
  BY <1>1 DEF CountsAgree, CountsAgreeFor, Budget, vars, config, locals, history
<1>2. ASSUME NEW t \in Threads, Invoke(t) \/ Lock(t)
      PROVE  CountsAgree'
  <2>1. retries_' = retries_ /\ Budget' = Budget
    BY <1>2 DEF Invoke, Lock, config, Budget
  <2>2. ASSUME NEW u \in Threads, u # t
        PROVE  CountsAgreeFor(u)'
    <3>1. CountsAgreeFor(u)
      BY DEF CountsAgree
    <3> QED
      BY <1>2, <2>1, <2>2, <3>1, OthersStay DEF CountsAgreeFor
  <2>3. CountsAgreeFor(t)'
    <3>1. sent[t] = 0 /\ opens[t] = 0 /\ sent' = sent /\ opens' = opens
      BY <1>2 DEF Invoke, Lock, CountsAgree, CountsAgreeFor, Fresh, history
    <3>2. pc'[t] \in {"wait", "locked"}
      BY <1>2 DEF Invoke, Lock, Goto, TypeOK
    <3> QED
      BY <3>1, <3>2 DEF CountsAgreeFor, Fresh, Running, Reopening, Exchanging
  <2> QED
    BY <2>2, <2>3 DEF CountsAgree
<1>3. ASSUME NEW t \in Threads, Work(t)
      PROVE  CountsAgree'
  <2>1. ASSUME NEW u \in Threads, u # t
        PROVE  CountsAgreeFor(u)'
    <3>1. pc'[u] \in {"idle", "wait"} /\ pc'[u] = pc[u]
      BY <1>3, <2>1, OthersWait, OthersStay
    <3>2. sent'[u] = 0 /\ opens'[u] = 0
      BY <1>3, <2>1, <3>1, OthersStay DEF CountsAgree, CountsAgreeFor, Fresh
    <3> QED
      BY <3>1, <3>2 DEF CountsAgreeFor, Fresh, Running, Reopening, Exchanging
  <2>2. CountsAgreeFor(t)
    BY DEF CountsAgree
  <2>3. /\ attempts[t] \in Nat /\ rcA[t] \in Nat /\ sent[t] \in Nat
        /\ opens[t] \in Nat
    BY DEF TypeOK
  <2>4. /\ attempts[t] * Budget \in Nat /\ 0 <= Budget * Budget
        /\ (attempts[t] + 1) * Budget = attempts[t] * Budget + Budget
        /\ attempts[t] <= Budget => attempts[t] * Budget <= Budget * Budget
        /\ attempts[t] + 1 <= Budget => attempts[t] * Budget + Budget <= Budget * Budget
    BY <1>0, <2>3, Products
  <2>5. CASE Set(t)
    <3>1. pc[t] = "locked" /\ pc'[t] = "return" /\ sent' = sent /\ opens' = opens
          /\ call' = call /\ call[t].name \in Setters
      BY <2>5 DEF Set, Goto, TypeOK, history, Setters
    <3>2. call'[t].name \notin Operations
      BY <3>1 DEF Setters, Operations, BitReads, RegisterReads, Writes
    <3> QED
      BY <2>1, <3>1, <3>2 DEF CountsAgree, CountsAgreeFor, Fresh, Running, Reopening,
                              Exchanging
  <2>6. ASSUME ~Set(t)
        PROVE  retries_' = retries_ /\ Budget' = Budget
    BY <1>3, <2>6 DEF Work, Connect, Connected, Disconnect, Build, Exhausted, NotConnected,
         AlreadyOpen, StartReopening, Reopened, ReopenFailed, Backoff, Send, Answered,
         Malformed, Failed, Pause, Return, config, Budget
  <2>7. ASSUME ~Set(t)
        PROVE  CountsAgreeFor(t)'
    <3>1. CASE Connect(t)
      <4>1. /\ pc[t] = "locked" /\ pc'[t] = "connecting"
        BY <3>1 DEF Connect, TypeOK, Goto, Finish, locals, history
      <4> QED
        BY <1>0, <2>2, <2>3, <2>4, <2>6, <2>7, <4>1
           DEF CountsAgreeFor, Fresh, Running, Reopening, Exchanging
    <3>2. CASE Connected(t)
      <4>1. /\ pc[t] = "connecting" /\ pc'[t] = "return" /\ call' = call
            /\ call[t].name = "connect"
        BY <3>2 DEF Connected, TypeOK, Goto, Finish, PlaceFitsTheCall, Connecting
      <4> QED
        BY <4>1 DEF CountsAgreeFor, Fresh, Running, Reopening, Exchanging, Operations,
                    BitReads, RegisterReads, Writes
    <3>3. CASE Disconnect(t)
      <4>1. /\ pc[t] = "locked" /\ pc'[t] = "return" /\ sent' = sent /\ opens' = opens
        BY <3>3 DEF Disconnect, TypeOK, Goto, Finish, locals, history, CallClose
      <4> QED
        BY <1>0, <2>2, <2>3, <2>4, <2>6, <2>7, <4>1
           DEF CountsAgreeFor, Fresh, Running, Reopening, Exchanging
    <3>4. CASE Build(t)
      <4>1. /\ pc[t] = "locked" /\ pc'[t] \in {"check", "return"}
            /\ sent' = sent /\ opens' = opens
            /\ pc'[t] = "check" => attempts'[t] = 0
        BY <3>4 DEF Build, TypeOK, Goto, Finish, locals, history
      <4> QED
        BY <1>0, <2>2, <2>3, <2>4, <2>6, <2>7, <4>1
           DEF CountsAgreeFor, Fresh, Running, Reopening, Exchanging
    <3>5. CASE Exhausted(t)
      <4>1. /\ pc[t] = "check" /\ pc'[t] = "return" /\ sent' = sent /\ opens' = opens
        BY <3>5 DEF Exhausted, TypeOK, Goto, Finish, locals, history
      <4> QED
        BY <1>0, <2>2, <2>3, <2>4, <2>6, <2>7, <4>1
           DEF CountsAgreeFor, Fresh, Running, Reopening, Exchanging
    <3>6. CASE NotConnected(t)
      <4>1. /\ pc[t] = "check" /\ pc'[t] = "return" /\ sent' = sent /\ opens' = opens
        BY <3>6 DEF NotConnected, TypeOK, Goto, Finish, locals, history
      <4> QED
        BY <1>0, <2>2, <2>3, <2>4, <2>6, <2>7, <4>1
           DEF CountsAgreeFor, Fresh, Running, Reopening, Exchanging
    <3>7. CASE AlreadyOpen(t)
      <4>1. /\ pc[t] = "check" /\ pc'[t] = "send" /\ sent' = sent /\ opens' = opens /\ attempts' = attempts
            /\ attempts[t] <= retries_
        BY <3>7 DEF AlreadyOpen, TypeOK, Goto, Finish, locals, history
      <4> QED
        BY <1>0, <2>2, <2>3, <2>4, <2>6, <2>7, <4>1
           DEF CountsAgreeFor, Fresh, Running, Reopening, Exchanging
    <3>8. CASE StartReopening(t)
      <4>1. /\ pc[t] = "check" /\ pc'[t] = "reopen" /\ attempts' = attempts /\ sent' = sent
            /\ opens'[t] = opens[t] + 1 /\ rcA'[t] = 0 /\ attempts[t] <= retries_
        BY <3>8 DEF StartReopening, TypeOK, Goto, Finish, locals, history, CallOpen
      <4> QED
        BY <1>0, <2>2, <2>3, <2>4, <2>6, <2>7, <4>1
           DEF CountsAgreeFor, Fresh, Running, Reopening, Exchanging
    <3>9. CASE Reopened(t)
      <4>1. /\ pc[t] = "reopen" /\ pc'[t] = "send" /\ sent' = sent /\ opens' = opens /\ attempts' = attempts
        BY <3>9 DEF Reopened, TypeOK, Goto, Finish, locals, history
      <4> QED
        BY <1>0, <2>2, <2>3, <2>4, <2>6, <2>7, <4>1
           DEF CountsAgreeFor, Fresh, Running, Reopening, Exchanging
    <3>10. CASE ReopenFailed(t)
      <4>1. /\ pc[t] = "reopen" /\ sent' = sent /\ opens' = opens /\ attempts' = attempts /\ rcA'[t] = rcA[t] + 1
            /\ \/ pc'[t] = "backoff" /\ rcA'[t] <= retries_
               \/ pc'[t] = "return"
        BY <3>10 DEF ReopenFailed, TypeOK, Goto, Finish, locals, history
      <4> QED
        BY <1>0, <2>2, <2>3, <2>4, <2>6, <2>7, <4>1
           DEF CountsAgreeFor, Fresh, Running, Reopening, Exchanging
    <3>11. CASE Backoff(t)
      <4>1. /\ pc[t] = "backoff" /\ pc'[t] = "reopen" /\ attempts' = attempts /\ sent' = sent
            /\ opens'[t] = opens[t] + 1 /\ rcA' = rcA
        BY <3>11 DEF Backoff, TypeOK, Goto, Finish, locals, history, CallOpen
      <4> QED
        BY <1>0, <2>2, <2>3, <2>4, <2>6, <2>7, <4>1
           DEF CountsAgreeFor, Fresh, Running, Reopening, Exchanging
    <3>12. CASE Send(t)
      <4>1. /\ pc[t] = "send" /\ pc'[t] = "transact" /\ attempts' = attempts /\ opens' = opens
            /\ sent'[t] = sent[t] + 1
        BY <3>12 DEF Send, TypeOK, Goto, Finish, locals, history, CallTransact
      <4> QED
        BY <1>0, <2>2, <2>3, <2>4, <2>6, <2>7, <4>1
           DEF CountsAgreeFor, Fresh, Running, Reopening, Exchanging
    <3>13. CASE Answered(t)
      <4>1. /\ pc[t] = "transact" /\ pc'[t] = "return" /\ sent' = sent /\ opens' = opens
        BY <3>13 DEF Answered, TypeOK, Goto, Finish, locals, history
      <4> QED
        BY <1>0, <2>2, <2>3, <2>4, <2>6, <2>7, <4>1
           DEF CountsAgreeFor, Fresh, Running, Reopening, Exchanging
    <3>14. CASE Malformed(t)
      <4>1. /\ pc[t] = "transact" /\ pc'[t] = "return" /\ sent' = sent /\ opens' = opens
        BY <3>14 DEF Malformed, TypeOK, Goto, Finish, locals, history
      <4> QED
        BY <1>0, <2>2, <2>3, <2>4, <2>6, <2>7, <4>1
           DEF CountsAgreeFor, Fresh, Running, Reopening, Exchanging
    <3>15. CASE Failed(t)
      <4>1. /\ pc[t] = "transact" /\ sent' = sent /\ opens' = opens /\ attempts'[t] = attempts[t] + 1
            /\ \/ pc'[t] = "pause" /\ attempts'[t] <= retries_
               \/ pc'[t] = "check"
        BY <3>15 DEF Failed, TypeOK, Goto, Finish, locals, history
      <4> QED
        BY <1>0, <2>2, <2>3, <2>4, <2>6, <2>7, <4>1
           DEF CountsAgreeFor, Fresh, Running, Reopening, Exchanging
    <3>16. CASE Pause(t)
      <4>1. /\ pc[t] = "pause" /\ pc'[t] = "check" /\ sent' = sent /\ opens' = opens /\ attempts' = attempts
        BY <3>16 DEF Pause, TypeOK, Goto, Finish, locals, history
      <4> QED
        BY <1>0, <2>2, <2>3, <2>4, <2>6, <2>7, <4>1
           DEF CountsAgreeFor, Fresh, Running, Reopening, Exchanging
    <3>17. CASE Return(t)
      <4>1. /\ pc[t] = "return" /\ pc'[t] = "idle" /\ sent'[t] = 0 /\ opens'[t] = 0
        BY <3>17 DEF Return, TypeOK, Goto, Finish, locals, history
      <4> QED
        BY <1>0, <2>2, <2>3, <2>4, <2>6, <2>7, <4>1
           DEF CountsAgreeFor, Fresh, Running, Reopening, Exchanging
    <3> QED
      BY <1>3, <2>7, <3>1, <3>2, <3>3, <3>4, <3>5, <3>6, <3>7, <3>8,
         <3>9, <3>10, <3>11, <3>12, <3>13, <3>14, <3>15, <3>16, <3>17 DEF Work
  <2> QED
    BY <2>1, <2>5, <2>7 DEF CountsAgree
<1>4. CASE OpenProceeds
  BY <1>4 DEF CountsAgree, CountsAgreeFor, Budget, OpenProceeds, config, locals, history
<1> QED
  BY <1>1, <1>2, <1>3, <1>4, StepCases

(* While the client is disconnected on purpose, nobody leaves the quiet.   *)
LEMMA QuietStep ==
  ASSUME TypeOK, MutexCoversTheLink, CountsAgree, DisconnectedIsQuiet, [Next]_vars
  PROVE  DisconnectedIsQuiet'
<1>1. CASE UNCHANGED vars
  BY <1>1 DEF DisconnectedIsQuiet, QuietFor, vars, flags, linkVars, locals, history
<1>2. ASSUME NEW t \in Threads, Invoke(t) \/ Lock(t), intentionalDisconnect_'
      PROVE  ~linkOpen' /\ \A u \in Threads : QuietFor(u)'
  <2>1. intentionalDisconnect_ /\ linkOpen' = linkOpen
    BY <1>2 DEF Invoke, Lock, flags, linkVars
  <2>2. ~linkOpen /\ \A u \in Threads : QuietFor(u)
    BY <2>1 DEF DisconnectedIsQuiet
  <2>3. ASSUME NEW u \in Threads, u # t
        PROVE  QuietFor(u)'
    BY <1>2, <2>2, <2>3, OthersStay DEF QuietFor
  <2>4. QuietFor(t)'
    <3>1. pc'[t] \in {"wait", "locked"} /\ sent' = sent /\ opens' = opens
      BY <1>2 DEF Invoke, Lock, Goto, TypeOK, history
    <3>2. sent[t] = 0 /\ opens[t] = 0
      BY <2>2 DEF QuietFor
    <3> QED
      BY <3>1, <3>2 DEF QuietFor, Fresh
  <2> QED
    BY <2>1, <2>2, <2>3, <2>4
<1>3. ASSUME NEW t \in Threads, Work(t), intentionalDisconnect_'
      PROVE  ~linkOpen' /\ \A u \in Threads : QuietFor(u)'
  <2>1. ASSUME NEW u \in Threads, u # t
        PROVE  QuietFor(u)'
    <3>1. pc'[u] \in {"idle", "wait"} /\ pc'[u] = pc[u]
      BY <1>3, <2>1, OthersWait, OthersStay
    <3>2. sent'[u] = 0 /\ opens'[u] = 0
      BY <1>3, <2>1, <3>1, OthersStay DEF CountsAgree, CountsAgreeFor, Fresh
    <3> QED
      BY <3>1, <3>2 DEF QuietFor, Fresh
  <2>2. ~linkOpen' /\ QuietFor(t)'
    <3>1. CASE Disconnect(t)
      <4>1. /\ pc[t] = "locked" /\ pc'[t] = "return" /\ call' = call
            /\ call[t].name = "disconnect" /\ sent' = sent /\ opens' = opens
            /\ linkOpen' = FALSE
        BY <3>1 DEF Disconnect, CallClose, Goto, TypeOK, history
      <4>2. sent[t] = 0 /\ opens[t] = 0
        BY <4>1 DEF CountsAgree, CountsAgreeFor, Fresh
      <4> QED
        BY <4>1, <4>2 DEF QuietFor, Operations, BitReads, RegisterReads, Writes
    <3>2. ASSUME ~Disconnect(t)
          PROVE  intentionalDisconnect_
      BY <1>3, <3>2 DEF Work, Connect, Connected, Set, Build, Exhausted, NotConnected,
         AlreadyOpen, StartReopening, Reopened, ReopenFailed, Backoff, Send, Answered,
         Malformed, Failed, Pause, Return, flags
    <3>3. ASSUME ~Disconnect(t)
          PROVE  ~linkOpen /\ pc[t] \in Fresh \cup {"check", "return"}
                 /\ sent[t] = 0 /\ opens[t] = 0
      BY <3>2, <3>3 DEF DisconnectedIsQuiet, QuietFor
    <3> USE DEF TypeOK, Goto, Finish, linkVars, locals, history, QuietFor, Fresh
    <3>4. CASE Set(t)
      <4>1. /\ pc[t] = "locked" /\ pc'[t] = "return" /\ call' = call
            /\ call[t].name \in Setters
            /\ sent' = sent /\ opens' = opens /\ linkOpen' = linkOpen
        BY <3>4 DEF Set, Setters
      <4>2. ~Disconnect(t)
        BY <4>1 DEF Disconnect, Setters
      <4> QED
        BY <3>3, <4>1, <4>2 DEF Setters, Operations, BitReads, RegisterReads, Writes
    <3>5. CASE Build(t)
      <4>1. /\ pc[t] = "locked" /\ sent' = sent /\ opens' = opens /\ linkOpen' = linkOpen
            /\ \/ pc'[t] = "check"
               \/ pc'[t] = "return" /\ result'[t].category # "None"
        BY <3>5 DEF Build, Outcome, isOk
      <4>2. ~Disconnect(t)
        BY <3>5 DEF Build, Disconnect, Operations, BitReads, RegisterReads, Writes
      <4> QED
        BY <3>3, <4>1, <4>2
    <3>6. CASE Exhausted(t) \/ NotConnected(t)
      <4>1. /\ pc[t] = "check" /\ pc'[t] = "return" /\ result'[t].category = "Transport"
            /\ sent' = sent /\ opens' = opens /\ linkOpen' = linkOpen
        BY <3>6 DEF Exhausted, NotConnected, Outcome
      <4>2. ~Disconnect(t)
        BY <4>1 DEF Disconnect
      <4> QED
        BY <3>3, <4>1, <4>2
    <3>7. CASE Return(t)
      <4>1. /\ pc[t] = "return" /\ pc'[t] = "idle" /\ sent'[t] = 0 /\ opens'[t] = 0
            /\ linkOpen' = linkOpen
        BY <3>7 DEF Return
      <4>2. ~Disconnect(t)
        BY <4>1 DEF Disconnect
      <4> QED
        BY <3>3, <4>1, <4>2
    <3>8. CASE Connect(t)
      BY <1>3, <3>8 DEF Connect
    <3>9. CASE AlreadyOpen(t) \/ StartReopening(t)
      <4>1. pc[t] = "check" /\ (linkOpen \/ ~intentionalDisconnect_)
        BY <3>9 DEF AlreadyOpen, StartReopening
      <4> QED
        BY <3>2, <3>3, <4>1 DEF Disconnect
    <3>10. CASE \/ Connected(t) \/ Reopened(t) \/ ReopenFailed(t) \/ Backoff(t) \/ Send(t)
                \/ Answered(t) \/ Malformed(t) \/ Failed(t) \/ Pause(t)
      <4>1. pc[t] \in {"connecting", "reopen", "backoff", "send", "transact", "pause"}
        BY <3>10 DEF Connected, Reopened, ReopenFailed, Backoff, Send, Answered, Malformed,
                     Failed, Pause
      <4> QED
        BY <3>3, <4>1 DEF Disconnect
    <3> QED
      BY <1>3, <3>1, <3>4, <3>5, <3>6, <3>7, <3>8, <3>9, <3>10 DEF Work
  <2> QED
    BY <2>1, <2>2
<1>4. CASE OpenProceeds
  <2>1. ASSUME intentionalDisconnect_
        PROVE  FALSE
    <3>1. \A u \in Threads : CallAt(pc[u]) = "none"
      BY <2>1 DEF DisconnectedIsQuiet, QuietFor, Fresh, CallAt
    <3>2. linkCall = "none"
      BY <3>1 DEF MutexCoversTheLink, TypeOK
    <3> QED
      BY <1>4, <3>2 DEF OpenProceeds, L!OpenProceeds
  <2> QED
    BY <1>4, <2>1 DEF DisconnectedIsQuiet, OpenProceeds, flags
<1> QED
  BY <1>1, <1>2, <1>3, <1>4, StepCases DEF DisconnectedIsQuiet

-----------------------------------------------------------------------------
(* The invariant holds of a new client.                                    *)
LEMMA InitialInv == Init => IInv
<1> SUFFICES ASSUME Init PROVE IInv
  OBVIOUS
<1>1. TypeOK
  BY TypeInit
<1>2. PlaceFitsTheCall
  BY DEF Init, PlaceFitsTheCall, Running, Connecting, Reopening, Exchanging
<1>3. MutexCoversTheLink
  BY ThreadAssumption
     DEF Init, ThreadAssumption, L!LinkInit, MutexCoversTheLink, Holding, Connecting,
         Reopening, Exchanging
<1>4. CountsAgree
  BY DEF Init, CountsAgree, CountsAgreeFor, Fresh, Running, Reopening, Exchanging
<1>5. DisconnectedIsQuiet /\ ReconnectingIsVisible
  BY DEF Init, DisconnectedIsQuiet, ReconnectingIsVisible, Reopening
<1> QED
  BY <1>1, <1>2, <1>3, <1>4, <1>5 DEF IInv

(* The invariant is inductive.                                             *)
LEMMA NextInv == IInv /\ [Next]_vars => IInv'
BY TypeStep, PlaceStep, MutexStep, CountsStep, QuietStep, ReconnectingStep DEF IInv

(* The invariant from which the theorems below follow: in every run every  *)
(* variable has its type, the mutex covers the link, the counters agree    *)
(* with the places of the threads, and the flags say what they stand for.  *)
THEOREM Invariance == Safety => []IInv
BY InitialInv, NextInv, PTL DEF Safety

(* Every variable of the client keeps its type, whatever the calls, the    *)
(* replies, the settings and the order of the threads (client.hpp:43-52).  *)
THEOREM TypeCorrectness == Safety => []TypeOK
<1>1. IInv => TypeOK
  BY DEF IInv
<1> QED
  BY <1>1, Invariance, PTL

(* At most one thread is past its lock_guard, and the link is in exactly   *)
(* the call that thread is waiting for (client.cpp:10-167).                *)
THEOREM MutexCovers == Safety => []MutexCoversTheLink
<1>1. IInv => MutexCoversTheLink
  BY DEF IInv
<1> QED
  BY <1>1, Invariance, PTL

(* isReconnecting() is true exactly while an operation is in its reopening *)
(* loop (client.cpp:65, 75).                                               *)
THEOREM ReconnectingIsTrue == Safety => []ReconnectingIsVisible
<1>1. IInv => ReconnectingIsVisible
  BY DEF IInv
<1> QED
  BY <1>1, Invariance, PTL

(* After disconnect() and until the next connect() the link stays closed   *)
(* and every operation fails (client.cpp:18, 62).                          *)
THEOREM DisconnectSticks == Safety => []IntentionalDisconnectSticks
<1>1. IInv => IntentionalDisconnectSticks
  <2> SUFFICES ASSUME IInv, intentionalDisconnect_
               PROVE  /\ ~linkOpen /\ linkCall = "none"
                      /\ \A t \in Threads :
                           /\ sent[t] = 0 /\ opens[t] = 0
                           /\ pc[t] = "return" /\ call[t].name \in Operations =>
                                result[t].category # "None"
    BY DEF IntentionalDisconnectSticks
  <2>1. ~linkOpen /\ \A t \in Threads : QuietFor(t)
    BY DEF IInv, DisconnectedIsQuiet
  <2>2. ASSUME mutex_ # NoThread
        PROVE  CallAt(pc[mutex_]) = "none"
    <3>1. mutex_ \in Threads
      BY <2>2 DEF IInv, TypeOK
    <3>2. pc[mutex_] \in Fresh \cup {"check", "return"}
      BY <2>1, <3>1 DEF QuietFor
    <3> QED
      BY <3>2 DEF CallAt, Fresh
  <2>3. linkCall = "none"
    BY <2>2 DEF IInv, MutexCoversTheLink
  <2> QED
    BY <2>1, <2>3 DEF QuietFor
<1> QED
  BY <1>1, Invariance, PTL

(* An operation sends its request at most retries_ + 1 times and opens the *)
(* link at most (retries_ + 1) squared times, for every value of retries_, *)
(* the negative ones included (client.cpp:60, 68).                         *)
THEOREM RetriesAreBounded == Safety => []RetryBudget
<1>1. IInv => RetryBudget
  <2> SUFFICES ASSUME IInv, NEW t \in Threads, pc[t] \in Holding,
                      call[t].name \in Operations
               PROVE  sent[t] <= Budget /\ opens[t] <= Budget * Budget
    BY DEF RetryBudget
  <2>1. TypeOK /\ CountsAgreeFor(t) /\ (pc[t] \in Connecting => call[t].name = "connect")
    BY DEF IInv, CountsAgree, PlaceFitsTheCall
  <2>2. retries_ \in Int /\ Budget \in Nat /\ (retries_ >= 0 => Budget = retries_ + 1)
    BY <2>1, BudgetIsNat, ValueAssumption DEF TypeOK, ValueAssumption
  <2>3. /\ attempts[t] \in Nat /\ rcA[t] \in Nat /\ sent[t] \in Nat
        /\ opens[t] \in Nat
    BY <2>1 DEF TypeOK
  <2>4. /\ attempts[t] * Budget \in Nat /\ 0 <= Budget * Budget
        /\ attempts[t] <= Budget => attempts[t] * Budget <= Budget * Budget
        /\ attempts[t] + 1 <= Budget => attempts[t] * Budget + Budget <= Budget * Budget
    BY <2>2, <2>3, Products
  <2>5. CASE pc[t] \in {"locked", "return"}
    BY <2>1, <2>2, <2>4, <2>5 DEF CountsAgreeFor, Fresh
  <2>6. CASE pc[t] = "check"
    BY <2>1, <2>2, <2>3, <2>4, <2>6 DEF CountsAgreeFor, Running
  <2>7. CASE pc[t] \in Reopening \cup Exchanging
    BY <2>1, <2>2, <2>3, <2>4, <2>7 DEF CountsAgreeFor, Running, Reopening, Exchanging
  <2>8. pc[t] \notin Connecting
    BY <2>1 DEF Operations, BitReads, RegisterReads, Writes
  <2> QED
    BY <2>5, <2>6, <2>7, <2>8 DEF Holding
<1> QED
  BY <1>1, Invariance, PTL

-----------------------------------------------------------------------------
(* A step of the client is a step of its link or leaves the link alone.    *)
LEMMA LinkStep == IInv /\ [Next]_vars => [L!LinkNext]_(L!linkVars)
<1> SUFFICES ASSUME IInv, [Next]_vars PROVE [L!LinkNext]_(L!linkVars)
  OBVIOUS
<1> USE DEF L!LinkNext, L!linkVars
<1>1. CASE UNCHANGED vars
  BY <1>1 DEF vars, linkVars
<1>2. ASSUME NEW t \in Threads, Invoke(t) \/ Lock(t)
      PROVE  UNCHANGED L!linkVars
  BY <1>2 DEF Invoke, Lock, linkVars
<1>3. ASSUME NEW t \in Threads, Work(t)
      PROVE  [L!LinkNext]_(L!linkVars)
  <2>1. linkCall = CallAt(pc[t])
    BY <1>3, HolderStep, ThreadAssumption DEF IInv, MutexCoversTheLink, ThreadAssumption
  <2>2. CASE Connect(t)
    BY <2>1, <2>2 DEF Connect, CallOpen, CallAt, L!BeginOpen
  <2>3. CASE StartReopening(t)
    BY <2>1, <2>3 DEF StartReopening, CallOpen, CallAt, L!BeginOpen
  <2>4. CASE Backoff(t)
    BY <2>1, <2>4 DEF Backoff, CallOpen, CallAt, L!BeginOpen
  <2>5. CASE Disconnect(t)
    BY <2>1, <2>5 DEF Disconnect, CallClose, CallAt, L!Close
  <2>6. CASE Send(t)
    BY <2>1, <2>6 DEF Send, CallTransact, CallAt, L!BeginTransact
  <2>7. CASE Connected(t) \/ Reopened(t) \/ ReopenFailed(t)
    BY <2>7 DEF Connected, Reopened, ReopenFailed
  <2>8. CASE Answered(t) \/ Malformed(t) \/ Failed(t)
    BY <2>8 DEF Answered, Malformed, Failed
  <2>9. CASE \/ Set(t) \/ Build(t) \/ Exhausted(t) \/ NotConnected(t) \/ AlreadyOpen(t)
             \/ Pause(t) \/ Return(t)
    BY <2>9 DEF Set, Build, Exhausted, NotConnected, AlreadyOpen, Pause, Return, linkVars
  <2> QED
    BY <1>3, <2>2, <2>3, <2>4, <2>5, <2>6, <2>7, <2>8, <2>9 DEF Work
<1>4. CASE OpenProceeds
  BY <1>4 DEF OpenProceeds
<1> QED
  BY <1>1, <1>2, <1>3, <1>4, StepCases

(* Any number of threads that share a client use its link as one           *)
(* sequential caller: what they do to it is a run of module Link, in which *)
(* no call meets another (lock_guard in every method of client.cpp).       *)
THEOREM LinkIsUsedSequentially == Safety => UsesTheLinkSequentially
<1>1. Init => L!LinkInit
  BY DEF Init
<1> QED
  BY <1>1, LinkStep, Invariance, PTL DEF Safety, UsesTheLinkSequentially, L!LinkSafety

-----------------------------------------------------------------------------
(* What one call does and tells its caller: its retries, its settings and  *)
(* its verdict.                                                            *)

(* A thread that is not scheduled keeps what its call has recorded.        *)
LEMMA OthersKeep ==
  ASSUME TypeOK, NEW t \in Threads, Invoke(t) \/ Lock(t) \/ Work(t),
         NEW u \in Threads, u # t
  PROVE  addressed'[u] = addressed[u] /\ reply'[u] = reply[u]
<1> USE DEF TypeOK, locals, history
<1>1. CASE Invoke(t) \/ Lock(t)
  BY <1>1 DEF Invoke, Lock
<1>2. CASE Connect(t) \/ Connected(t) \/ Disconnect(t) \/ Set(t) \/ Build(t)
  BY <1>2 DEF Connect, Connected, Disconnect, Set, Build
<1>3. CASE Exhausted(t) \/ NotConnected(t) \/ AlreadyOpen(t) \/ StartReopening(t)
  BY <1>3 DEF Exhausted, NotConnected, AlreadyOpen, StartReopening
<1>4. CASE Reopened(t) \/ ReopenFailed(t) \/ Backoff(t) \/ Pause(t)
  BY <1>4 DEF Reopened, ReopenFailed, Backoff, Pause
<1>5. CASE Send(t)
  BY <1>5 DEF Send, CallTransact
<1>6. CASE Answered(t)
  BY <1>6 DEF Answered
<1>7. CASE Malformed(t) \/ Failed(t)
  BY <1>7 DEF Malformed, Failed
<1>8. CASE Return(t)
  BY <1>8 DEF Return
<1> QED
  BY <1>1, <1>2, <1>3, <1>4, <1>5, <1>6, <1>7, <1>8 DEF Work

(* A thread at work is alone: the others wait, and have done nothing yet.  *)
LEMMA OthersAreFresh ==
  ASSUME IInv, CallsProgress, NEW t \in Threads, Work(t), NEW u \in Threads, u # t
  PROVE  /\ pc'[u] \in {"idle", "wait"} /\ pc[u] = pc'[u]
         /\ sent'[u] = 0 /\ addressed'[u] = {}
<1>1. pc[u] \in {"idle", "wait"} /\ pc'[u] = pc[u] /\ sent'[u] = sent[u]
  BY OthersWait, OthersStay DEF IInv
<1>2. sent[u] = 0
  BY <1>1 DEF IInv, CountsAgree, CountsAgreeFor, Fresh
<1>3. addressed[u] = {}
  BY <1>1 DEF CallsProgress, ProgressFor, Fresh
<1> QED
  BY <1>1, <1>2, <1>3, OthersKeep DEF IInv

(* Nobody opens the link while a method is at its end.                     *)
LEMMA NoOpenAtTheEnd ==
  ASSUME IInv, OpenProceeds, NEW t \in Threads
  PROVE  pc[t] \in Holding => pc[t] \in {"connecting", "reopen"}
<1>1. linkCall = "open"
  BY DEF OpenProceeds, L!OpenProceeds
<1>2. ASSUME pc[t] \in Holding
      PROVE  linkCall = CallAt(pc[t])
  BY <1>2, ThreadAssumption DEF IInv, MutexCoversTheLink, ThreadAssumption
<1> QED
  BY <1>1, <1>2 DEF CallAt

-----------------------------------------------------------------------------
(* A call goes round its loop after Transport errors only.                 *)
LEMMA ProgressStep ==
  ASSUME IInv, CallsProgress, [Next]_vars
  PROVE  CallsProgress'
<1> USE DEF Fresh, Connecting
<1>1. CASE UNCHANGED vars
  BY <1>1 DEF CallsProgress, ProgressFor, vars, linkVars, locals, history
<1>2. ASSUME NEW t \in Threads, Invoke(t) \/ Lock(t), NEW u \in Threads
      PROVE  ProgressFor(u)'
  <2>1. linkOutcome' = linkOutcome /\ ProgressFor(u)
    BY <1>2 DEF Invoke, Lock, linkVars, CallsProgress
  <2>2. CASE u # t
    BY <1>2, <2>1, <2>2, OthersStay, OthersKeep DEF ProgressFor, IInv
  <2>3. CASE u = t
    <3>1. pc[t] \in {"idle", "wait"} /\ pc'[t] \in {"wait", "locked"} /\ addressed' = addressed
      BY <1>2 DEF Invoke, Lock, Goto, IInv, TypeOK, history
    <3> QED
      BY <2>1, <2>3, <3>1 DEF ProgressFor
  <2> QED
    BY <2>2, <2>3
<1>3. ASSUME NEW t \in Threads, Work(t), NEW u \in Threads
      PROVE  ProgressFor(u)'
  <2>1. CASE u # t
    BY <1>3, <2>1, OthersAreFresh DEF ProgressFor
  <2>2. CASE u = t
    <3>1. TypeOK /\ ProgressFor(t) /\ CountsAgreeFor(t)
      BY DEF IInv, CallsProgress, CountsAgree
    <3> SUFFICES ProgressFor(t)'
      BY <2>2
    <3> HIDE DEF Fresh, Connecting
    <3> USE DEF TypeOK, Goto, Finish, linkVars, locals, history, ProgressFor
    <3>2. CASE Connect(t)
      <4>1. pc[t] = "locked" /\ pc'[t] = "connecting" /\ sent' = sent
        BY <3>1, <3>2 DEF Connect, CallOpen
      <4> QED
        BY <3>1, <4>1 DEF CountsAgreeFor, Fresh
    <3>3. CASE \/ Connected(t) \/ Disconnect(t) \/ Set(t) \/ Exhausted(t) \/ NotConnected(t)
               \/ Answered(t) \/ Malformed(t)
      <4>1. pc'[t] = "return"
        BY <3>1, <3>3 DEF Connected, Disconnect, Set, Exhausted, NotConnected, Answered, Malformed
      <4> QED
        BY <4>1 DEF Fresh, Connecting
    <3>4. CASE Build(t)
      <4>1. pc[t] = "locked" /\ pc'[t] \in {"check", "return"} /\ sent' = sent
        BY <3>1, <3>4 DEF Build
      <4> QED
        BY <3>1, <4>1 DEF CountsAgreeFor, Fresh, Connecting
    <3>5. CASE AlreadyOpen(t) \/ Reopened(t) \/ Send(t)
      <4>1. pc'[t] \in {"send", "transact"}
        BY <3>1, <3>5 DEF AlreadyOpen, Reopened, Send
      <4> QED
        BY <4>1 DEF Fresh, Connecting
    <3>6. CASE StartReopening(t)
      <4>1. pc'[t] = "reopen" /\ rcA'[t] = 0 /\ opens'[t] = opens[t] + 1 /\ opens[t] \in Nat
        BY <3>1, <3>6 DEF StartReopening, CallOpen
      <4> QED
        BY <4>1 DEF Fresh, Connecting
    <3>7. CASE ReopenFailed(t)
      <4>1. /\ pc[t] = "reopen" /\ pc'[t] \in {"backoff", "return"}
            /\ rcA'[t] = rcA[t] + 1 /\ opens' = opens
        BY <3>1, <3>7 DEF ReopenFailed
      <4>2. rcA[t] < opens[t] /\ rcA[t] \in Nat /\ opens[t] \in Nat
        BY <3>1, <4>1
      <4> QED
        BY <4>1, <4>2 DEF Fresh, Connecting
    <3>8. CASE Backoff(t)
      <4>1. pc[t] = "backoff" /\ pc'[t] = "reopen" /\ rcA' = rcA /\ opens'[t] = opens[t] + 1
        BY <3>1, <3>8 DEF Backoff, CallOpen
      <4>2. rcA[t] <= opens[t] /\ rcA[t] \in Nat /\ opens[t] \in Nat
        BY <3>1, <4>1
      <4> QED
        BY <4>1, <4>2 DEF Fresh, Connecting
    <3>9. CASE Failed(t)
      <4>1. pc'[t] \in {"pause", "check"} /\ linkOutcome' = "Transport"
        BY <3>1, <3>9 DEF Failed, L!EndTransact
      <4> QED
        BY <4>1 DEF Fresh, Connecting
    <3>10. CASE Pause(t)
      <4>1. pc[t] = "pause" /\ pc'[t] = "check" /\ sent' = sent /\ linkOutcome' = linkOutcome
        BY <3>1, <3>10 DEF Pause
      <4> QED
        BY <3>1, <4>1 DEF Fresh, Connecting
    <3>11. CASE Return(t)
      <4>1. pc'[t] = "idle" /\ addressed'[t] = {}
        BY <3>1, <3>11 DEF Return
      <4> QED
        BY <4>1 DEF Fresh, Connecting
    <3> QED
      BY <1>3, <3>2, <3>3, <3>4, <3>5, <3>6, <3>7, <3>8, <3>9, <3>10, <3>11 DEF Work
  <2> QED
    BY <2>1, <2>2
<1>4. ASSUME OpenProceeds, NEW u \in Threads
      PROVE  ProgressFor(u)'
  BY <1>4 DEF CallsProgress, ProgressFor, OpenProceeds, L!OpenProceeds, locals, history
<1> QED
  BY <1>1, <1>2, <1>3, <1>4, StepCases DEF CallsProgress

(* A setter runs only when no other call is under way.                     *)
LEMMA SettingsStep ==
  ASSUME IInv, CallsProgress, SettingsHoldThroughACall, [Next]_vars
  PROVE  SettingsHoldThroughACall'
<1>1. CASE UNCHANGED vars
  BY <1>1 DEF SettingsHoldThroughACall, vars, config, history
<1>2. ASSUME NEW t \in Threads, Invoke(t) \/ Lock(t)
      PROVE  SettingsHoldThroughACall'
  BY <1>2 DEF SettingsHoldThroughACall, Invoke, Lock, config, history
<1>3. ASSUME NEW t \in Threads, Work(t), NEW u \in Threads
      PROVE  addressed'[u] \subseteq {<<unitId_', timeout_'>>}
  <2>1. CASE u # t
    BY <1>3, <2>1, OthersAreFresh
  <2>2. CASE u = t
    <3>1. TypeOK /\ ProgressFor(t) /\ addressed[t] \subseteq {<<unitId_, timeout_>>}
      BY DEF IInv, CallsProgress, SettingsHoldThroughACall
    <3> USE DEF TypeOK, Goto, Finish, config, history
    <3>2. CASE Set(t)
      <4>1. pc[t] = "locked" /\ addressed' = addressed
        BY <3>2 DEF Set
      <4> QED
        BY <2>2, <3>1, <4>1 DEF ProgressFor, Fresh
    <3>3. CASE Send(t)
      <4>1. /\ addressed'[t] = addressed[t] \cup {<<unitId_, timeout_>>}
            /\ unitId_' = unitId_ /\ timeout_' = timeout_
        BY <3>1, <3>3 DEF Send, CallTransact
      <4> QED
        BY <2>2, <3>1, <4>1
    <3>4. CASE Return(t)
      <4>1. addressed'[t] = {}
        BY <3>1, <3>4 DEF Return
      <4> QED
        BY <2>2, <4>1
    <3>5. CASE \/ Connect(t) \/ Connected(t) \/ Disconnect(t) \/ Build(t) \/ Exhausted(t)
               \/ NotConnected(t) \/ AlreadyOpen(t) \/ StartReopening(t) \/ Reopened(t)
      <4>1. addressed' = addressed /\ unitId_' = unitId_ /\ timeout_' = timeout_
        BY <3>5 DEF Connect, Connected, Disconnect, Build, Exhausted, NotConnected, AlreadyOpen,
                    StartReopening, Reopened
      <4> QED
        BY <2>2, <3>1, <4>1
    <3>6. CASE \/ ReopenFailed(t) \/ Backoff(t) \/ Answered(t) \/ Malformed(t) \/ Failed(t)
               \/ Pause(t)
      <4>1. addressed' = addressed /\ unitId_' = unitId_ /\ timeout_' = timeout_
        BY <3>6 DEF ReopenFailed, Backoff, Answered, Malformed, Failed, Pause
      <4> QED
        BY <2>2, <3>1, <4>1
    <3> QED
      BY <1>3, <3>2, <3>3, <3>4, <3>5, <3>6 DEF Work
  <2> QED
    BY <2>1, <2>2
<1>4. CASE OpenProceeds
  BY <1>4 DEF SettingsHoldThroughACall, OpenProceeds, config, history
<1> QED
  BY <1>1, <1>2, <1>3, <1>4, StepCases DEF SettingsHoldThroughACall

-----------------------------------------------------------------------------
(* What VerdictExplained asks of one thread.                               *)
Explained(t) ==
  CASE result[t].from = "Build" ->
         result[t].category = "Usage" /\ sent[t] = 0 /\ opens[t] = 0
    [] result[t].from = "NotConnected" ->
         /\ ~linkOpen /\ sent[t] < Budget
         /\ ~autoReconnect_ \/ intentionalDisconnect_
    [] result[t].from = "ReconnectFailed" ->
         /\ ~linkOpen /\ sent[t] < Budget
         /\ rcA[t] = Budget /\ opens[t] >= Budget
    [] result[t].from = "Exhausted" -> sent[t] = Budget
    [] result[t].from = "Link"      -> sent[t] \in 1 .. Budget
    [] result[t].from = "Reply"     ->
         /\ sent[t] \in 1 .. Budget
         /\ linkOpen /\ linkOutcome = "None"
         /\ isExceptionResponse(reply[t]) => result[t].category \in {"Device", "Protocol"}
    [] OTHER -> FALSE

ExplainedFor(t) == pc[t] = "return" /\ call[t].name \in Operations => Explained(t)

(* VerdictExplained says that every thread is explained.                   *)
LEMMA VerdictsAreExplained == VerdictExplained <=> \A t \in Threads : ExplainedFor(t)
BY DEF VerdictExplained, ExplainedFor, Explained

(* A verdict is given for what the call has done, and stands until the     *)
(* method returns.                                                         *)
LEMMA VerdictStep ==
  ASSUME IInv, CallsProgress, VerdictExplained, [Next]_vars
  PROVE  VerdictExplained'
<1>0. \A u \in Threads : ExplainedFor(u)
  BY VerdictsAreExplained
<1>1. CASE UNCHANGED vars
  BY <1>1 DEF VerdictExplained, vars, config, flags, linkVars, locals, history, Budget
<1>2. ASSUME NEW t \in Threads, Invoke(t) \/ Lock(t), NEW u \in Threads
      PROVE  ExplainedFor(u)'
  <2>1. CASE u = t
    <3>1. pc'[t] \in {"wait", "locked"}
      BY <1>2 DEF Invoke, Lock, Goto, IInv, TypeOK
    <3> QED
      BY <2>1, <3>1 DEF ExplainedFor
  <2>2. CASE u # t
    <3>1. /\ pc'[u] = pc[u] /\ call'[u] = call[u] /\ UNCHANGED <<config, flags, linkVars>>
          /\ UNCHANGED <<locals, sent, opens>>
      BY <1>2, <2>2, OthersStay DEF IInv, Invoke, Lock, history
    <3> QED
      BY <1>0, <3>1 DEF ExplainedFor, Explained, config, flags, linkVars, locals, Budget
  <2> QED
    BY <2>1, <2>2
<1>3. ASSUME NEW t \in Threads, Work(t), NEW u \in Threads
      PROVE  ExplainedFor(u)'
  <2>1. CASE u # t
    BY <1>3, <2>1, OthersAreFresh DEF ExplainedFor
  <2>2. CASE u = t
    <3>1. /\ TypeOK /\ ProgressFor(t) /\ CountsAgreeFor(t) /\ PlaceFitsTheCall
          /\ retries_ \in Int /\ Budget \in Nat /\ (retries_ >= 0 => Budget = retries_ + 1)
          /\ (~(retries_ >= 0) => Budget = 0)
      BY BudgetIsNat, ValueAssumption
         DEF IInv, CallsProgress, CountsAgree, TypeOK, ValueAssumption, Budget
    <3>2. /\ attempts[t] \in Nat /\ rcA[t] \in Nat /\ sent[t] \in Nat /\ opens[t] \in Nat
          /\ result \in [Threads -> Outcomes] /\ reply \in [Threads -> Replies \cup {NoReply}]
          /\ pc \in [Threads -> Places] /\ rcA \in [Threads -> Nat]
      BY <3>1 DEF TypeOK
    <3> SUFFICES ExplainedFor(t)'
      BY <2>2
    <3> USE DEF Goto, Finish, config, flags, linkVars, locals, history
    <3>3. CASE \/ Connect(t) \/ AlreadyOpen(t) \/ StartReopening(t) \/ Reopened(t)
               \/ Backoff(t) \/ Send(t) \/ Failed(t) \/ Pause(t) \/ Return(t)
      <4>1. pc'[t] # "return"
        BY <3>2, <3>3 DEF Connect, AlreadyOpen, StartReopening, Reopened, Backoff, Send, Failed,
                          Pause, Return
      <4> QED
        BY <4>1 DEF ExplainedFor
    <3>4. CASE Connected(t)
      <4>1. call'[t].name = "connect"
        BY <3>1, <3>4 DEF Connected, PlaceFitsTheCall, Connecting
      <4> QED
        BY <4>1 DEF ExplainedFor, Operations, BitReads, RegisterReads, Writes
    <3>5. CASE Disconnect(t) \/ Set(t)
      <4>1. call'[t].name \in {"disconnect"} \cup Setters
        BY <3>5 DEF Disconnect, Set, Setters
      <4> QED
        BY <4>1 DEF ExplainedFor, Setters, Operations, BitReads, RegisterReads, Writes
    <3>6. CASE Build(t)
      <4>1. CASE isOk(build(call[t]))
        BY <3>2, <3>6, <4>1, BuildAccepts DEF ExplainedFor
      <4>2. CASE ~isOk(build(call[t]))
        <5>1. build(call[t]).category = "Usage"
          BY <3>6, <4>2, BuildCategory DEF Build, isOk
        <5>2. result'[t].from = "Build" /\ result'[t].category = "Usage"
          BY <3>2, <3>6, <4>2, <5>1, BuildRefuses DEF Outcome
        <5>3. sent'[t] = 0 /\ opens'[t] = 0
          BY <3>1, <3>6 DEF Build, CountsAgreeFor, Fresh
        <5> QED
          BY <5>2, <5>3 DEF ExplainedFor, Explained
      <4> QED
        BY <4>1, <4>2
    <3>7. CASE Exhausted(t)
      <4>1. /\ pc[t] = "check" /\ attempts[t] > retries_ /\ sent' = sent /\ retries_' = retries_
            /\ result'[t].from = "Exhausted"
        BY <3>2, <3>7 DEF Exhausted, Outcome
      <4>2. sent[t] = attempts[t] /\ attempts[t] <= Budget
        BY <3>1, <4>1 DEF CountsAgreeFor, Running
      <4>3. sent'[t] = Budget'
        BY <3>1, <3>2, <4>1, <4>2 DEF Budget
      <4> QED
        BY <4>1, <4>3 DEF ExplainedFor, Explained
    <3>8. CASE NotConnected(t)
      <4>1. /\ pc[t] = "check" /\ attempts[t] <= retries_ /\ sent' = sent /\ retries_' = retries_
            /\ result'[t].from = "NotConnected" /\ ~linkOpen'
            /\ ~autoReconnect_' \/ intentionalDisconnect_'
        BY <3>2, <3>8 DEF NotConnected, Outcome
      <4>2. sent[t] = attempts[t]
        BY <3>1, <4>1 DEF CountsAgreeFor, Running
      <4>3. sent'[t] < Budget'
        BY <3>1, <3>2, <4>1, <4>2 DEF Budget
      <4> QED
        BY <4>1, <4>3 DEF ExplainedFor, Explained
    <3>9. CASE ReopenFailed(t)
      <4>1. /\ pc[t] = "reopen" /\ ~linkOpen' /\ rcA'[t] = rcA[t] + 1
            /\ sent' = sent /\ opens' = opens /\ retries_' = retries_
        BY <3>2, <3>9 DEF ReopenFailed, L!EndOpen
      <4>2. CASE rcA'[t] <= retries_
        <5>1. pc'[t] = "backoff"
          BY <3>2, <3>9, <4>2 DEF ReopenFailed
        <5> QED
          BY <5>1 DEF ExplainedFor
      <4>3. CASE ~(rcA'[t] <= retries_)
        <5>1. result'[t].from = "ReconnectFailed"
          BY <3>2, <3>9, <4>3 DEF ReopenFailed, Outcome
        <5>2. /\ sent[t] = attempts[t] /\ attempts[t] <= retries_ /\ rcA[t] <= retries_
              /\ rcA[t] < opens[t]
          BY <3>1, <4>1 DEF CountsAgreeFor, ProgressFor, Running, Reopening
        <5>3. sent'[t] < Budget' /\ rcA'[t] = Budget' /\ opens'[t] >= Budget'
          BY <3>1, <3>2, <4>1, <4>3, <5>2 DEF Budget
        <5> QED
          BY <4>1, <5>1, <5>3 DEF ExplainedFor, Explained
      <4> QED
        BY <4>2, <4>3
    <3>10. ASSUME pc[t] = "transact", UNCHANGED <<sent, retries_>>
           PROVE  sent'[t] \in 1 .. Budget'
      <4>1. sent[t] = attempts[t] + 1 /\ attempts[t] <= retries_
        BY <3>1, <3>10 DEF CountsAgreeFor, Running, Exchanging
      <4> QED
        BY <3>1, <3>2, <3>10, <4>1 DEF Budget
    <3>11. CASE Malformed(t)
      <4>1. pc[t] = "transact" /\ UNCHANGED <<sent, retries_>> /\ result'[t].from = "Link"
        BY <3>2, <3>11 DEF Malformed, Outcome
      <4> QED
        BY <3>10, <4>1 DEF ExplainedFor, Explained
    <3>12. CASE Answered(t)
      <4>1. pc[t] = "transact" /\ UNCHANGED <<sent, retries_>> /\ linkOpen' /\ linkOutcome' = "None"
        BY <3>1, <3>12 DEF Answered, L!EndTransact, TypeOK, L!LinkTypeOK
      <4>2. PICK resp \in Replies :
              /\ reply' = [reply EXCEPT ![t] = resp]
              /\ result' = [result EXCEPT ![t] =
                   Outcome(finish(call[t], build(call[t]).value, resp).category, "Reply")]
        BY <3>12 DEF Answered
      <4>3. call[t].name \in Operations
        BY <3>1, <4>1 DEF PlaceFitsTheCall, Running, Exchanging
      <4>4. isExceptionResponse(reply'[t]) => result'[t].category \in {"Device", "Protocol"}
        BY <3>2, <4>2, <4>3, FinishCategory DEF Outcome
      <4>5. result'[t].from = "Reply"
        BY <3>2, <4>2 DEF Outcome
      <4> QED
        BY <3>10, <4>1, <4>4, <4>5 DEF ExplainedFor, Explained
    <3> QED
      BY <1>3, <3>3, <3>4, <3>5, <3>6, <3>7, <3>8, <3>9, <3>11, <3>12 DEF Work
  <2> QED
    BY <2>1, <2>2
<1>4. ASSUME OpenProceeds, NEW u \in Threads
      PROVE  ExplainedFor(u)'
  <2>1. pc' = pc /\ (pc[u] # "return")
    BY <1>4, NoOpenAtTheEnd DEF OpenProceeds, Holding
  <2> QED
    BY <2>1 DEF ExplainedFor
<1>5. CASE \A u \in Threads : ExplainedFor(u)'
  BY <1>5, VerdictsAreExplained DEF VerdictExplained, ExplainedFor, Explained
<1> QED
  BY <1>1, <1>2, <1>3, <1>4, <1>5, StepCases

-----------------------------------------------------------------------------
(* Before the first call there is nothing to explain.                      *)
LEMMA InitialCallInv == Init => CallInv
BY DEF Init, CallInv, CallsProgress, ProgressFor, Connecting, SettingsHoldThroughACall,
       VerdictExplained

(* What a call has done and what it tells stay in agreement, for any       *)
(* number of threads.                                                      *)
THEOREM CallInvariance == Safety => []CallInv
<1>1. IInv /\ CallInv /\ [Next]_vars => CallInv'
  BY ProgressStep, SettingsStep, VerdictStep DEF CallInv
<1> QED
  BY <1>1, InitialCallInv, Invariance, PTL DEF Safety

(* All transactions of a call go to the unit and have the timeout that     *)
(* were set when it got the mutex, whatever setters other threads call     *)
(* meanwhile (client.cpp:32, 37, 81).                                      *)
THEOREM SettingsHold == Safety => []SettingsHoldThroughACall
<1>1. CallInv => SettingsHoldThroughACall
  BY DEF CallInv
<1> QED
  BY <1>1, CallInvariance, PTL

(* Every error and every success of an operation is explained by what its  *)
(* transactions and reopening attempts did (client.cpp:63, 77, 83, 87).    *)
THEOREM VerdictsAreTrue == Safety => []VerdictExplained
<1>1. CallInv => VerdictExplained
  BY DEF CallInv
<1> QED
  BY <1>1, CallInvariance, PTL

(* An operation sends its request again after a Transport error and after  *)
(* nothing else, so an answered request is never repeated                  *)
(* (client.cpp:82-84).                                                     *)
THEOREM AnsweredIsNotRetried == Safety => []OnlyTransportErrorsAreRetried
<1>1. ASSUME IInv, CallInv, NEW t \in Threads, sent[t] > 0
      PROVE  /\ pc[t] \in {"pause", "check"} => linkOutcome = "Transport"
             /\ sent[t] = attempts[t] \/ pc[t] \in {"transact", "return"}
  <2>1. ProgressFor(t) /\ CountsAgreeFor(t) /\ pc[t] \in Places /\ sent[t] \in Nat
    BY <1>1 DEF IInv, CallInv, CallsProgress, CountsAgree, TypeOK
  <2>2. pc[t] \notin Fresh \cup Connecting
    BY <1>1, <2>1 DEF ProgressFor, CountsAgreeFor
  <2> QED
    BY <1>1, <2>1, <2>2
       DEF ProgressFor, CountsAgreeFor, Places, Holding, Fresh, Running, Connecting
<1>2. IInv /\ CallInv => OnlyTransportErrorsAreRetried
  BY <1>1 DEF OnlyTransportErrorsAreRetried
<1> QED
  BY <1>2, Invariance, CallInvariance, PTL
-----------------------------------------------------------------------------
(* The sleeps between the attempts to reopen the link.                     *)

(* There are 2 ^ n sets of numbers from 1 to n: what the library proves    *)
(* about powers of two.                                                    *)
LEMMA SubsetsOf ==
  ASSUME NEW n \in Nat
  PROVE  /\ IsFiniteSet(SUBSET (1 .. n))
         /\ Cardinality(SUBSET (1 .. n)) = 2 ^ n
<1>1. IsFiniteSet(1 .. n) /\ Cardinality(1 .. n) = IF 1 > n THEN 0 ELSE n - 1 + 1
  BY FS_Interval
<1>2. Cardinality(1 .. n) = n
  BY <1>1
<1> QED
  BY <1>1, <1>2, FS_SUBSET

(* A power of two is a natural number.                                     *)
LEMMA PowerIsNat ==
  ASSUME NEW n \in Nat
  PROVE  2 ^ n \in Nat
BY SubsetsOf, FS_CardinalityType

(* A power of two doubles with its exponent: each subset of 1 .. n is one  *)
(* of 1 .. n + 1, and another one with n + 1 added to it.                  *)
LEMMA PowerDoubles ==
  ASSUME NEW n \in Nat
  PROVE  2 ^ (n + 1) = 2 * 2 ^ n
<1> DEFINE S == SUBSET (1 .. n)
           W(a) == a \cup {n + 1}
           f == [a \in S |-> W(a)]
           T == {W(a) : a \in S}
<1>1. IsFiniteSet(S) /\ Cardinality(S) = 2 ^ n
  BY SubsetsOf
<1>2. f \in Bijection(S, T)
  <2>1. f \in [S -> T]
    OBVIOUS
  <2>2. \A a, b \in S : f[a] = f[b] => a = b
    OBVIOUS
  <2>3. \A c \in T : \E a \in S : f[a] = c
    OBVIOUS
  <2> QED
    BY <2>1, <2>2, <2>3, Fun_IsBij
<1>3. ExistsBijection(S, T)
  BY <1>2 DEF ExistsBijection
<1>4. IsFiniteSet(T) /\ Cardinality(T) = Cardinality(S)
  BY <1>1, <1>3, FS_Bijection
<1>5. S \cup T = SUBSET (1 .. n + 1)
  <2>1. ASSUME NEW c \in SUBSET (1 .. n + 1), n + 1 \in c
        PROVE  c \in T
    <3>1. c \ {n + 1} \in S /\ c = W(c \ {n + 1})
      BY <2>1
    <3> QED
      BY <3>1
  <2>2. ASSUME NEW c \in SUBSET (1 .. n + 1), n + 1 \notin c
        PROVE  c \in S
    BY <2>2
  <2>3. 1 .. n \subseteq 1 .. n + 1 /\ n + 1 \in 1 .. n + 1
    OBVIOUS
  <2>4. S \subseteq SUBSET (1 .. n + 1)
    BY <2>3
  <2>5. ASSUME NEW a \in S PROVE W(a) \in SUBSET (1 .. n + 1)
    BY <2>3
  <2>6. T \subseteq SUBSET (1 .. n + 1)
    <3> HIDE DEF S, W
    <3> QED
      BY <2>5
  <2>7. ASSUME NEW c \in SUBSET (1 .. n + 1) PROVE c \in S \cup T
    BY <2>1, <2>2
  <2> HIDE DEF S, T
  <2> QED
    BY <2>4, <2>6, <2>7
<1>6. S \cap T = {}
  OBVIOUS
<1>7. Cardinality({}) = 0
  BY FS_EmptySet
<1>8. Cardinality(S \cup T) = Cardinality(S) + Cardinality(T) - Cardinality(S \cap T)
  BY <1>1, <1>4, FS_Union
<1>9. n + 1 \in Nat
  OBVIOUS
<1>10. Cardinality(S \cup T) = 2 ^ (n + 1)
  BY <1>5, <1>9, SubsetsOf
<1>11. 2 ^ n \in Nat
  BY PowerIsNat
<1>12. Cardinality(S \cap T) = 0
  BY <1>6, <1>7
<1>13. 2 ^ (n + 1) = 2 ^ n + 2 ^ n - 0
  BY <1>1, <1>4, <1>8, <1>10, <1>12
<1> QED
  BY <1>11, <1>13
(* Doubling once more, and cutting off, what was doubled and cut off.      *)
LEMMA DoubledAgain ==
  ASSUME TypeOK, NEW k \in Nat
  PROVE  Min({2 * Doubled(k), reconnectMs_[2]}) = Doubled(k + 1)
<1> DEFINE low == reconnectMs_[1]
           high == reconnectMs_[2]
           p == 2 ^ k
<1>1. low \in Nat /\ high \in Nat
  BY BackoffsAreNat DEF TypeOK
<1>2. p \in Nat /\ 2 ^ (k + 1) = 2 * p
  BY PowerIsNat, PowerDoubles
<1>3. low * p \in Nat /\ low * (2 * p) = 2 * (low * p)
  BY <1>1, <1>2
<1>4. Doubled(k + 1) = Min({2 * (low * p), high})
  BY <1>2, <1>3 DEF Doubled
<1>5. CASE k = 0
  <2>1. low * (2 * p) = 2 * low
    BY <1>1, <1>5
  <2> QED
    BY <1>3, <1>4, <1>5, <2>1 DEF Doubled
<1>6. CASE k # 0
  <2>1. Doubled(k) = Min({low * p, high})
    BY <1>6 DEF Doubled
  <2> HIDE DEF low, high, p
  <2>2. Doubled(k) \in {low * p, high} /\ Doubled(k) <= low * p /\ Doubled(k) <= high
    BY <1>1, <1>3, <2>1, MinOfTwo
  <2>3. 2 * Doubled(k) \in Nat /\ 2 * (low * p) \in Nat
    BY <1>1, <1>3, <2>2
  <2> DEFINE a == Min({2 * Doubled(k), high})
             b == Min({2 * (low * p), high})
  <2>4. a \in {2 * Doubled(k), high} /\ a <= 2 * Doubled(k) /\ a <= high
    BY <1>1, <2>3, MinOfTwo
  <2>5. b \in {2 * (low * p), high} /\ b <= 2 * (low * p) /\ b <= high
    BY <1>1, <2>3, MinOfTwo
  <2> HIDE DEF a, b
  <2>6. a = b
    BY <1>1, <1>3, <2>2, <2>3, <2>4, <2>5
  <2> QED
    BY <1>4, <2>6 DEF a, b, high
<1> QED
  BY <1>5, <1>6

(* A thread that is not scheduled keeps its delay.                         *)
LEMMA OthersKeepDelay ==
  ASSUME TypeOK, NEW t \in Threads, Invoke(t) \/ Lock(t) \/ Work(t),
         NEW u \in Threads, u # t
  PROVE  delay'[u] = delay[u]
<1> USE DEF TypeOK, locals
<1>1. CASE Invoke(t) \/ Lock(t)
  BY <1>1 DEF Invoke, Lock
<1>2. CASE Connect(t) \/ Connected(t) \/ Disconnect(t) \/ Set(t) \/ Build(t)
  BY <1>2 DEF Connect, Connected, Disconnect, Set, Build
<1>3. CASE Exhausted(t) \/ NotConnected(t) \/ AlreadyOpen(t)
  BY <1>3 DEF Exhausted, NotConnected, AlreadyOpen
<1>4. CASE StartReopening(t) \/ Reopened(t) \/ ReopenFailed(t) \/ Pause(t)
  BY <1>4 DEF StartReopening, Reopened, ReopenFailed, Pause
<1>5. CASE Backoff(t)
  BY <1>5 DEF Backoff
<1>6. CASE Send(t) \/ Answered(t) \/ Malformed(t) \/ Failed(t)
  BY <1>6 DEF Send, Answered, Malformed, Failed
<1>7. CASE Return(t)
  BY <1>7 DEF Return
<1> QED
  BY <1>1, <1>2, <1>3, <1>4, <1>5, <1>6, <1>7 DEF Work

(* The delay of a thread doubles in step with rcA.  The limits it depends  *)
(* on change in a setter only, and then nobody is in a reopening loop.     *)
LEMMA DelayStep ==
  ASSUME IInv, DelaysAgree, [Next]_vars
  PROVE  DelaysAgree'
<1>0. TypeOK
  BY DEF IInv
<1>1. CASE UNCHANGED vars
  BY <1>1 DEF DelaysAgree, DelayAgreesFor, Doubled, vars, config, locals
<1>2. ASSUME NEW t \in Threads, Invoke(t) \/ Lock(t), NEW u \in Threads
      PROVE  DelayAgreesFor(u)'
  <2>1. /\ DelayAgreesFor(u) /\ delay' = delay /\ rcA' = rcA
        /\ reconnectMs_' = reconnectMs_
    BY <1>2 DEF Invoke, Lock, config, locals, DelaysAgree
  <2>2. pc'[u] = pc[u] \/ pc'[u] \in {"wait", "locked"}
    BY <1>0, <1>2 DEF Invoke, Lock, Goto, TypeOK
  <2> QED
    BY <2>1, <2>2 DEF DelayAgreesFor, Doubled
<1>3. ASSUME NEW t \in Threads, Work(t), NEW u \in Threads
      PROVE  DelayAgreesFor(u)'
  <2>1. CASE u # t
    <3>1. pc[u] \in {"idle", "wait"} /\ pc'[u] = pc[u]
      BY <1>3, <2>1, OthersWait, OthersStay DEF IInv
    <3> QED
      BY <3>1 DEF DelayAgreesFor
  <2>2. CASE u = t
    <3>1. DelayAgreesFor(t)
      BY DEF DelaysAgree
    <3> SUFFICES DelayAgreesFor(t)'
      BY <2>2
    <3>2. ASSUME pc'[t] \notin Reopening
          PROVE  DelayAgreesFor(t)'
      BY <3>2 DEF DelayAgreesFor, Reopening
    <3> USE DEF TypeOK, Goto, Finish
    <3>3. CASE StartReopening(t)
      <4>1. pc'[t] = "reopen" /\ rcA'[t] = 0 /\ delay'[t] = reconnectMs_[1]
            /\ reconnectMs_' = reconnectMs_
        BY <1>0, <3>3 DEF StartReopening, config
      <4> QED
        BY <4>1 DEF DelayAgreesFor, Doubled
    <3>4. CASE ReopenFailed(t)
      <4>1. /\ pc[t] = "reopen" /\ pc'[t] \in {"backoff", "return"}
            /\ rcA'[t] = rcA[t] + 1 /\ rcA[t] \in Nat /\ delay' = delay
            /\ reconnectMs_' = reconnectMs_
        BY <1>0, <3>4 DEF ReopenFailed, config
      <4>2. rcA'[t] > 0 /\ rcA'[t] - 1 = rcA[t]
        BY <4>1
      <4> QED
        BY <3>1, <4>1, <4>2 DEF DelayAgreesFor, Doubled
    <3>5. CASE Backoff(t)
      <4>1. /\ pc[t] = "backoff" /\ pc'[t] = "reopen" /\ rcA'[t] = rcA[t] /\ rcA[t] \in Nat
            /\ delay'[t] = Min({2 * delay[t], reconnectMs_[2]})
            /\ reconnectMs_' = reconnectMs_
        BY <1>0, <3>5 DEF Backoff, config
      <4>2. rcA[t] > 0 /\ delay[t] = Doubled(rcA[t] - 1)
        BY <3>1, <4>1 DEF DelayAgreesFor
      <4>3. rcA[t] - 1 \in Nat /\ rcA[t] - 1 + 1 = rcA[t]
        BY <4>1, <4>2
      <4>4. delay'[t] = Doubled(rcA[t])
        BY <1>0, <4>1, <4>2, <4>3, DoubledAgain
      <4> QED
        BY <4>1, <4>4 DEF DelayAgreesFor, Doubled
    <3>6. CASE \/ Connect(t) \/ Connected(t) \/ Disconnect(t) \/ Set(t) \/ Build(t)
               \/ Exhausted(t) \/ NotConnected(t) \/ AlreadyOpen(t) \/ Reopened(t)
      <4>1. pc'[t] \notin Reopening
        BY <1>0, <3>6 DEF Connect, Connected, Disconnect, Set, Build, Exhausted, NotConnected,
                          AlreadyOpen, Reopened, Reopening
      <4> QED
        BY <3>2, <4>1
    <3>7. CASE Send(t) \/ Answered(t) \/ Malformed(t) \/ Failed(t) \/ Pause(t) \/ Return(t)
      <4>1. pc'[t] \notin Reopening
        BY <1>0, <3>7 DEF Send, Answered, Malformed, Failed, Pause, Return, Reopening
      <4> QED
        BY <3>2, <4>1
    <3> QED
      BY <1>3, <3>3, <3>4, <3>5, <3>6, <3>7 DEF Work
  <2> QED
    BY <2>1, <2>2
<1>4. ASSUME OpenProceeds, NEW u \in Threads
      PROVE  DelayAgreesFor(u)'
  BY <1>4 DEF DelaysAgree, DelayAgreesFor, Doubled, OpenProceeds, config, locals
<1> QED
  BY <1>1, <1>2, <1>3, <1>4, StepCases DEF DelaysAgree

(* The k-th repetition of open() comes after a sleep of the minimum        *)
(* doubled k - 1 times and cut off at the maximum, for every pair of       *)
(* limits and any number of retries (client.cpp:66-72).                    *)
THEOREM BackoffIsBounded == Safety => []BackoffGrowsToTheMaximum
<1>1. Init => DelaysAgree
  BY DEF Init, DelaysAgree, DelayAgreesFor
<1>2. IInv /\ DelaysAgree /\ [Next]_vars => DelaysAgree'
  BY DelayStep
<1>3. DelaysAgree => BackoffGrowsToTheMaximum
  BY DEF DelaysAgree, DelayAgreesFor, BackoffGrowsToTheMaximum
<1> QED
  BY <1>1, <1>2, <1>3, Invariance, PTL DEF Safety
=============================================================================
