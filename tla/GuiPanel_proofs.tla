--------------------------- MODULE GuiPanel_proofs ---------------------------
(***************************************************************************)
(* Theorems about GuiPanel for every set of addresses and units, and any   *)
(* number of calls under way.                                              *)
(***************************************************************************)
EXTENDS GuiPanel, TLAPS

(* What the assumptions on the constants give. *)
LEMMA Facts == null \notin Addresses /\ NoUnit \notin Units
  BY PanelAssumption DEF PanelAssumption

(* The head and the tail of a sequence that is not empty. *)
LEMMA Front ==
  ASSUME NEW S, NEW q \in Seq(S), q # <<>>
  PROVE  /\ Len(q) \in Nat \ {0} /\ Head(q) = q[1] /\ Head(q) \in S
         /\ Tail(q) \in Seq(S) /\ Len(Tail(q)) = Len(q) - 1
         /\ \A i \in 1 .. Len(q) - 1 : Tail(q)[i] = q[i + 1]
         /\ Tail(q) = <<>> => Len(q) = 1
<1>1. /\ Len(q) \in Nat \ {0} /\ Head(q) = q[1] /\ Head(q) \in S
      /\ Tail(q) \in Seq(S) /\ Len(Tail(q)) = Len(q) - 1
      /\ \A i \in 1 .. Len(q) - 1 : Tail(q)[i] = q[i + 1]
  OBVIOUS
<1>2. Len(<<>>) = 0
  OBVIOUS
<1> QED
  BY <1>1, <1>2

(* Appending to a sequence. *)
LEMMA Back ==
  ASSUME NEW S, NEW q \in Seq(S), NEW e \in S
  PROVE  /\ Append(q, e) \in Seq(S) /\ Len(Append(q, e)) = Len(q) + 1 /\ Len(q) \in Nat
         /\ Append(q, e) # <<>>
         /\ \A i \in 1 .. Len(q) : Append(q, e)[i] = q[i]
         /\ Append(q, e)[Len(q) + 1] = e
  OBVIOUS

(* A call that is posted is not the placeholder. *)
LEMMA CallFields ==
  ASSUME NEW c \in CallTypes
  PROVE  /\ c # NoCall /\ c.kind \in {"read", "write"} /\ c.unit \in Units \cup {NoUnit}
         /\ c.ok \in BOOLEAN
         /\ Stale(c) \in CallTypes /\ ~ Valid(Stale(c))
         /\ \A ok \in BOOLEAN : /\ [c EXCEPT !.ok = ok] \in CallTypes
                                /\ [c EXCEPT !.ok = ok].unit = c.unit
<1>1. c.kind \in {"read", "write"} /\ c.unit \in Units \cup {NoUnit} /\ c.ok \in BOOLEAN
  BY DEF CallTypes
<1>2. c # NoCall
  BY <1>1 DEF NoCall
<1>3. Stale(c) \in CallTypes /\ ~ Valid(Stale(c))
  BY DEF CallTypes, Stale, Valid
<1>4. \A ok \in BOOLEAN : /\ [c EXCEPT !.ok = ok] \in CallTypes
                          /\ [c EXCEPT !.ok = ok].unit = c.unit
  BY DEF CallTypes
<1> QED
  BY <1>1, <1>2, <1>3, <1>4

(* A new call is valid. *)
LEMMA NewCalls ==
  ASSUME NEW kind \in {"read", "write"}, NEW unit \in Units
  PROVE  NewCall(kind, unit) \in CallTypes /\ Valid(NewCall(kind, unit))
         /\ NewCall(kind, unit).unit = unit
<1>1. NewCall(kind, unit) \in CallTypes /\ NewCall(kind, unit).unit = unit
  BY DEF NewCall, CallTypes
<1> QED
  BY <1>1, CallFields, Facts DEF Valid

(* A handler posts a call that it has made for the client it has. *)
LEMMA Posts ==
  ASSUME (\E kind \in {"read", "write"} : OnRequest(kind)) \/ OnPollTick
  PROVE  /\ next' \in CallTypes /\ Valid(next') /\ gui = "loop" /\ gui' = "locking"
         /\ client_ # null
         /\ UNCHANGED <<client_, leaving, clientVars, workerVars, results, outside>>
<1>1. PICK kind \in {"read", "write"} : \E unit \in Units : next' = NewCall(kind, unit)
  BY DEF OnRequest, OnPollTick
<1>2. next' \in CallTypes /\ Valid(next')
  BY <1>1, NewCalls
<1> QED
  BY <1>2 DEF OnRequest, OnPollTick, connected, panelVars, clientVars, workerVars, outside

(* The client is deleted: what was posted for it is overdue. *)
LEMMA Deleted ==
  ASSUME TypeOK, Delete
  PROVE  /\ queue' \in Seq(CallTypes) /\ (queue' = <<>> <=> queue = <<>>)
         /\ \A i \in 1 .. Len(queue') : ~ Valid(queue'[i])
         /\ queue' # <<>> => ~ Valid(queue'[Len(queue')])
         /\ call' \in CallTypes \cup {NoCall} /\ (call' = NoCall <=> call = NoCall)
         /\ ~ Valid(call')
         /\ call' # NoCall => call'.unit = NoUnit
         /\ orphan' \in BOOLEAN /\ UNCHANGED <<worker, workerClient>>
<1>1. queue \in Seq(CallTypes) /\ call \in CallTypes \cup {NoCall} /\ orphan \in BOOLEAN
  BY DEF TypeOK
<1>2. /\ queue' = [i \in DOMAIN queue |-> Stale(queue[i])]
      /\ call' = IF call = NoCall THEN NoCall ELSE Stale(call)
      /\ orphan' = (orphan \/ (client_ # null /\ worker \in OnClient))
      /\ UNCHANGED <<worker, workerClient>>
  BY DEF Delete
<1>3. \A i \in DOMAIN queue : queue[i] \in CallTypes
  BY <1>1
<1>4. \A i \in DOMAIN queue : Stale(queue[i]) \in CallTypes /\ ~ Valid(Stale(queue[i]))
  BY <1>3, CallFields
<1>5. Len(queue) \in Nat /\ DOMAIN queue = 1 .. Len(queue)
  BY <1>1
<1>6. queue' \in Seq(CallTypes) /\ Len(queue') = Len(queue)
      /\ \A i \in 1 .. Len(queue') : ~ Valid(queue'[i])
  BY <1>2, <1>4, <1>5
<1>7. queue' = <<>> <=> queue = <<>>
  BY <1>1, <1>6
<1>8. queue' # <<>> => Len(queue') \in 1 .. Len(queue')
  BY <1>6, Front
<1>9. /\ call' \in CallTypes \cup {NoCall} /\ (call' = NoCall <=> call = NoCall)
      /\ ~ Valid(call')
  BY <1>1, <1>2, CallFields DEF Valid
<1> QED
  BY <1>1, <1>2, <1>6, <1>7, <1>8, <1>9 DEF Valid

(* The fields of what is posted and running. *)
LEMMA Posted ==
  ASSUME TypeOK
  PROVE  /\ queue \in Seq(CallTypes) /\ Len(queue) \in Nat
         /\ \A i \in 1 .. Len(queue) : queue[i] \in CallTypes
         /\ call \in CallTypes \cup {NoCall} /\ next \in CallTypes \cup {NoCall}
         /\ orphan \in BOOLEAN /\ gui \in GuiPlaces /\ worker \in WorkerPlaces
         /\ client_ \in Addresses \cup {null} /\ workerClient \in Addresses \cup {null}
         /\ unitId_ \in Units \cup {NoUnit}
  BY DEF TypeOK

(* The worker takes the first of the calls, or drops it. *)
LEMMA Takes ==
  ASSUME TypeOK, Take
  PROVE  /\ worker = "idle" /\ queue # <<>> /\ queue' = Tail(queue) /\ queue' \in Seq(CallTypes)
         /\ Len(queue) \in Nat \ {0} /\ Len(queue') = Len(queue) - 1
         /\ \A i \in 1 .. Len(queue) - 1 : queue'[i] = queue[i + 1]
         /\ queue' = <<>> => Len(queue) = 1
         /\ queue' # <<>> => Len(queue') \in Nat \ {0}
         /\ queue[1] \in CallTypes /\ 1 \in 1 .. Len(queue)
         /\ \/ UNCHANGED <<worker, call, orphan>>
            \/ /\ workerClient # null /\ worker' = "lock" /\ call' = queue[1]
               /\ orphan' = (workerClient # client_)
         /\ orphan' \in BOOLEAN
<1>1. queue \in Seq(CallTypes) /\ queue # <<>> /\ worker = "idle" /\ queue' = Tail(queue)
  BY Posted DEF Take
<1>2. /\ Len(queue) \in Nat \ {0} /\ Head(queue) = queue[1] /\ Head(queue) \in CallTypes
      /\ queue' \in Seq(CallTypes) /\ Len(queue') = Len(queue) - 1
      /\ \A i \in 1 .. Len(queue) - 1 : queue'[i] = queue[i + 1]
      /\ queue' = <<>> => Len(queue) = 1
  BY <1>1, Front
<1>3. queue' # <<>> => Len(queue') \in Nat \ {0}
  BY <1>2, Front
<1>4. CASE workerClient = null
  <2>1. UNCHANGED <<worker, call, orphan>> /\ orphan' \in BOOLEAN
    BY <1>4, Posted DEF Take
  <2> QED
    BY <1>1, <1>2, <1>3, <2>1
<1>5. CASE workerClient # null
  <2>1. /\ worker' = "lock" /\ call' = queue[1] /\ orphan' = (workerClient # client_)
    BY <1>2, <1>5 DEF Take
  <2>2. orphan' \in BOOLEAN
    BY <2>1
  <2> QED
    BY <1>1, <1>2, <1>3, <1>5, <2>1, <2>2
<1> QED
  BY <1>4, <1>5

(* A call that goes on in the client changes in its result only. *)
LEMMA CallGoesOn ==
  ASSUME TypeOK, PlacesFit, Lock \/ Reopen \/ Transact \/ UseDeleted
  PROVE  /\ worker \in OnClient /\ call \in CallTypes /\ call' \in CallTypes
         /\ call'.unit = call.unit
         /\ worker' \in {"reopen", "transact", "emit", "stuck", worker}
         /\ UNCHANGED <<client_, guiVars, unitId_, workerClient, queue, orphan, results>>
         /\ worker' \in OnClient => worker' = worker \/ ~orphan
<1>1. call \in CallTypes /\ worker \in OnClient
  BY Posted DEF PlacesFit, Lock, Reopen, Transact, UseDeleted, OnClient
<1>2. call' = call \/ \E ok \in BOOLEAN : call' = [call EXCEPT !.ok = ok]
  <2>1. CASE Lock
    BY <2>1 DEF Lock, Return
  <2>2. CASE Reopen \/ Transact
    BY <2>2 DEF Reopen, Transact, Return
  <2>3. CASE UseDeleted
    BY <2>3 DEF UseDeleted
  <2> QED
    BY <2>1, <2>2, <2>3
<1>3. call' \in CallTypes /\ call'.unit = call.unit
  BY <1>1, <1>2, CallFields
<1> QED
  BY <1>1, <1>3 DEF Lock, Reopen, Transact, UseDeleted, Return, OnClient, panelVars, guiVars,
                    clientVars

(* Each step keeps the types. *)
LEMMA TypesStep ==
  ASSUME TypeOK, PlacesFit, CallsFit, [Next]_vars
  PROVE  TypeOK'
<1> USE DEF panelVars, guiVars, clientVars, workerVars, outside, TypeOK, GuiPlaces,
      Handling, WorkerPlaces, OnClient
<1>1. CASE OnConnect
  <2>1. /\ queue' \in Seq(CallTypes) /\ call' \in CallTypes \cup {NoCall}
        /\ orphan' \in BOOLEAN /\ UNCHANGED <<worker, workerClient>>
    BY <1>1, Deleted DEF OnConnect
  <2>2. /\ open' \in BOOLEAN /\ mutex_' \in {"free", "gui"} /\ unitId_' \in Units \cup {NoUnit}
        /\ reconnecting_' \in BOOLEAN /\ intentionalDisconnect_' \in BOOLEAN
    BY <1>1 DEF OnConnect, Fresh
  <2> QED
    BY <1>1, <2>1, <2>2 DEF OnConnect, setDisconnected
<1>2. CASE OnDisconnect
  BY <1>2 DEF OnDisconnect
<1>3. CASE OnClose
  <2>1. polling_' \in BOOLEAN /\ leaving' \in BOOLEAN
    BY <1>3 DEF OnClose
  <2> QED
    BY <1>3, <2>1 DEF OnClose
<1>4. CASE OnPoll
  BY <1>4 DEF OnPoll
<1>5. CASE \E kind \in {"read", "write"} : OnRequest(kind)
  <2>1. next' \in CallTypes
    BY <1>5, Posts
  <2> QED
    BY <1>5, <2>1 DEF OnRequest
<1>6. CASE Connected
  BY <1>6 DEF Connected
<1>7. CASE ConnectFailed
  <2>1. /\ queue' \in Seq(CallTypes) /\ call' \in CallTypes \cup {NoCall}
        /\ orphan' \in BOOLEAN /\ UNCHANGED <<worker, workerClient>>
    BY <1>7, Deleted DEF ConnectFailed
  <2>2. /\ open' \in BOOLEAN /\ mutex_' \in {"free", "gui"} /\ unitId_' \in Units \cup {NoUnit}
        /\ reconnecting_' \in BOOLEAN /\ intentionalDisconnect_' \in BOOLEAN
    BY <1>7 DEF ConnectFailed, Fresh
  <2> QED
    BY <1>7, <2>1, <2>2 DEF ConnectFailed, setDisconnected
<1>8. CASE Disconnect
  BY <1>8 DEF Disconnect
<1>9. CASE Reset
  <2>1. /\ queue' \in Seq(CallTypes) /\ call' \in CallTypes \cup {NoCall}
        /\ orphan' \in BOOLEAN /\ UNCHANGED <<worker, workerClient>>
    BY <1>9, Deleted DEF Reset
  <2>2. /\ open' \in BOOLEAN /\ mutex_' \in {"free", "gui"} /\ unitId_' \in Units \cup {NoUnit}
        /\ reconnecting_' \in BOOLEAN /\ intentionalDisconnect_' \in BOOLEAN
    BY <1>9 DEF Reset, Fresh
  <2> QED
    BY <1>9, <2>1, <2>2 DEF Reset, setDisconnected
<1>10. CASE InvokeMethod
  <2>1. Append(queue, next) \in Seq(CallTypes)
    BY <1>10, Back DEF InvokeMethod, CallsFit, Valid
  <2> QED
    BY <1>10, <2>1 DEF InvokeMethod
<1>11. CASE Destructor
  BY <1>11 DEF Destructor
<1>12. CASE Joined
  <2>1. <<>> \in Seq(CallTypes) /\ <<>> \in Seq([kind : {"read", "write"}, ok : BOOLEAN])
    OBVIOUS
  <2> QED
    BY <1>12, <2>1 DEF Joined
<1>13. CASE ClientDisconnect
  <2>1. /\ open' \in BOOLEAN /\ intentionalDisconnect_' \in BOOLEAN /\ reconnecting_' \in BOOLEAN
    BY <1>13 DEF ClientDisconnect
  <2> QED
    BY <1>13, <2>1 DEF ClientDisconnect
<1>14. CASE SetUnitId
  <2>1. next \in CallTypes
    BY <1>14 DEF SetUnitId, CallsFit, Valid
  <2> QED
    BY <1>14, <2>1, CallFields DEF SetUnitId
<1>15. CASE OnPollTick
  <2>1. next' \in CallTypes
    BY <1>15, Posts
  <2> QED
    BY <1>15, <2>1 DEF OnPollTick
<1>16. CASE ShowResult
  <2>1. Tail(results) \in Seq([kind : {"read", "write"}, ok : BOOLEAN])
    BY <1>16, Front DEF ShowResult
  <2> QED
    BY <1>16, <2>1 DEF ShowResult, setDisconnected
<1>17. CASE Take
  <2>1. /\ queue' \in Seq(CallTypes) /\ call' \in CallTypes \cup {NoCall}
        /\ orphan' \in BOOLEAN /\ worker' \in WorkerPlaces
    BY <1>17, Takes, Posted
  <2> QED
    BY <1>17, <2>1 DEF Take
<1>18. CASE Reopen
  <2>1. call' \in CallTypes /\ worker' \in WorkerPlaces
    BY <1>18, CallGoesOn
  <2>2. /\ open' \in BOOLEAN /\ reconnecting_' \in BOOLEAN /\ crashed' \in BOOLEAN
        /\ mutex_' \in {"free", "gui", "worker"}
    BY <1>18 DEF Reopen, Return
  <2>3. UNCHANGED <<panelVars, guiVars, unitId_, intentionalDisconnect_, workerClient, queue,
                    orphan, results, device>>
    BY <1>18 DEF Reopen, Return
  <2> QED
    BY <2>1, <2>2, <2>3
<1>19. CASE Transact
  <2>1. call' \in CallTypes /\ worker' \in WorkerPlaces
    BY <1>19, CallGoesOn
  <2>2. /\ open' \in BOOLEAN /\ reconnecting_' \in BOOLEAN /\ crashed' \in BOOLEAN
        /\ mutex_' \in {"free", "gui", "worker"}
    BY <1>19 DEF Transact, Return
  <2>3. UNCHANGED <<panelVars, guiVars, unitId_, intentionalDisconnect_, workerClient, queue,
                    orphan, results, device>>
    BY <1>19 DEF Transact, Return
  <2> QED
    BY <2>1, <2>2, <2>3
<1>20. CASE UseDeleted
  <2>1. call' \in CallTypes /\ worker' \in WorkerPlaces
    BY <1>20, CallGoesOn
  <2>2. /\ open' \in BOOLEAN /\ reconnecting_' \in BOOLEAN /\ crashed' \in BOOLEAN
        /\ mutex_' \in {"free", "gui", "worker"}
    BY <1>20 DEF UseDeleted
  <2>3. UNCHANGED <<panelVars, guiVars, unitId_, intentionalDisconnect_, workerClient, queue,
                    orphan, results, device>>
    BY <1>20 DEF UseDeleted
  <2> QED
    BY <2>1, <2>2, <2>3
<1>21. CASE Emit
  <2>1. call \in CallTypes
    BY <1>21, Posted DEF Emit, PlacesFit
  <2>2. [kind |-> call.kind, ok |-> call.ok] \in [kind : {"read", "write"}, ok : BOOLEAN]
    BY <2>1, CallFields
  <2>3. Append(results, [kind |-> call.kind, ok |-> call.ok])
          \in Seq([kind : {"read", "write"}, ok : BOOLEAN])
    BY <2>2, Back
  <2>4. orphan' \in BOOLEAN /\ worker' \in WorkerPlaces /\ call' \in CallTypes \cup {NoCall}
    BY <1>21 DEF Emit
  <2> QED
    BY <1>21, <2>3, <2>4 DEF Emit
<1>22. CASE End
  BY <1>22 DEF End
<1>23. CASE Lock
  <2>1. call' \in CallTypes /\ worker' \in WorkerPlaces
    BY <1>23, CallGoesOn
  <2>2. /\ open' \in BOOLEAN /\ reconnecting_' \in BOOLEAN /\ crashed' \in BOOLEAN
        /\ mutex_' \in {"free", "gui", "worker"}
    BY <1>23 DEF Lock, Return
  <2>3. UNCHANGED <<panelVars, guiVars, unitId_, intentionalDisconnect_, workerClient, queue,
                    orphan, results, device>>
    BY <1>23 DEF Lock, Return
  <2> QED
    BY <2>1, <2>2, <2>3
<1>24. CASE DeviceChanges
  BY <1>24 DEF DeviceChanges
<1>25. CASE UNCHANGED vars
  BY <1>25 DEF vars
<1> QED
  BY <1>1, <1>2, <1>3, <1>4, <1>5, <1>6, <1>7, <1>8, <1>9, <1>10, <1>11, <1>12, <1>13,
     <1>14, <1>15, <1>16, <1>17, <1>18, <1>19, <1>20, <1>21, <1>22, <1>23, <1>24, <1>25
     DEF Next, User, Handler, WaitsInGui, Slot, Over

(* Each step leaves the threads where their data belongs. *)
LEMMA PlacesStep ==
  ASSUME TypeOK, WorkerHasTheClient, PlacesFit, [Next]_vars
  PROVE  PlacesFit'
<1> USE DEF panelVars, guiVars, clientVars, workerVars, outside, GuiPlaces, Handling,
      WorkerPlaces, OnClient, PlacesFit, connected
<1>0. /\ gui \in GuiPlaces /\ worker \in WorkerPlaces /\ null \notin Addresses
      /\ queue # <<>> => workerClient # null \/ gui = "gone"
  BY Posted, Facts DEF WorkerHasTheClient
<1>1. CASE OnConnect
  <2>1. /\ UNCHANGED <<worker, workerClient>> /\ (call' = NoCall <=> call = NoCall)
        /\ (queue' = <<>> <=> queue = <<>>)
    BY <1>1, Deleted DEF OnConnect
  <2> QED
    BY <1>1, <1>0, <2>1 DEF OnConnect
<1>2. CASE OnDisconnect
  BY <1>2, <1>0 DEF OnDisconnect
<1>3. CASE OnClose
  BY <1>3, <1>0 DEF OnClose
<1>4. CASE OnPoll
  BY <1>4, <1>0 DEF OnPoll
<1>5. CASE \E kind \in {"read", "write"} : OnRequest(kind)
  BY <1>5, <1>0, Posts
<1>6. CASE Connected
  BY <1>6, <1>0 DEF Connected
<1>7. CASE ConnectFailed
  <2>1. /\ UNCHANGED <<worker, workerClient>> /\ (call' = NoCall <=> call = NoCall)
        /\ (queue' = <<>> <=> queue = <<>>)
    BY <1>7, Deleted DEF ConnectFailed
  <2> QED
    BY <1>7, <1>0, <2>1 DEF ConnectFailed
<1>8. CASE Disconnect
  BY <1>8, <1>0 DEF Disconnect
<1>9. CASE Reset
  <2>1. /\ UNCHANGED <<worker, workerClient>> /\ (call' = NoCall <=> call = NoCall)
        /\ (queue' = <<>> <=> queue = <<>>)
    BY <1>9, Deleted DEF Reset
  <2> QED
    BY <1>9, <1>0, <2>1 DEF Reset
<1>10. CASE InvokeMethod
  BY <1>10, <1>0 DEF InvokeMethod
<1>11. CASE Destructor
  BY <1>11, <1>0 DEF Destructor
<1>12. CASE Joined
  BY <1>12, <1>0 DEF Joined
<1>13. CASE ClientDisconnect
  BY <1>13, <1>0 DEF ClientDisconnect
<1>14. CASE SetUnitId
  BY <1>14, <1>0 DEF SetUnitId
<1>15. CASE OnPollTick
  BY <1>15, <1>0, Posts
<1>16. CASE ShowResult
  BY <1>16, <1>0 DEF ShowResult
<1>17. CASE Take
  <2>1. queue[1] # NoCall
    BY <1>17, Takes, CallFields
  <2> QED
    BY <1>17, <1>0, <2>1, Takes DEF Take
<1>18. CASE Reopen
  <2>1. call' # NoCall
    BY <1>18, CallGoesOn, CallFields
  <2> QED
    BY <1>18, <1>0, <2>1, CallGoesOn
<1>19. CASE Transact
  <2>1. call' # NoCall
    BY <1>19, CallGoesOn, CallFields
  <2> QED
    BY <1>19, <1>0, <2>1, CallGoesOn
<1>20. CASE UseDeleted
  <2>1. call' # NoCall
    BY <1>20, CallGoesOn, CallFields
  <2> QED
    BY <1>20, <1>0, <2>1, CallGoesOn
<1>21. CASE Emit
  BY <1>21, <1>0 DEF Emit
<1>22. CASE End
  BY <1>22, <1>0 DEF End
<1>23. CASE Lock
  <2>1. call' # NoCall
    BY <1>23, CallGoesOn, CallFields
  <2> QED
    BY <1>23, <1>0, <2>1, CallGoesOn
<1>24. CASE DeviceChanges
  BY <1>24, <1>0 DEF DeviceChanges
<1>25. CASE UNCHANGED vars
  BY <1>25, <1>0 DEF vars
<1> QED
  BY <1>1, <1>2, <1>3, <1>4, <1>5, <1>6, <1>7, <1>8, <1>9, <1>10, <1>11, <1>12, <1>13,
     <1>14, <1>15, <1>16, <1>17, <1>18, <1>19, <1>20, <1>21, <1>22, <1>23, <1>24, <1>25
     DEF Next, User, Handler, WaitsInGui, Slot, Over

(* Each step leaves the worker with the client of the panel. *)
LEMMA ClientStep ==
  ASSUME TypeOK, WorkerHasTheClient, PlacesFit, [Next]_vars
  PROVE  WorkerHasTheClient'
<1> USE DEF panelVars, guiVars, clientVars, workerVars, outside, WorkerHasTheClient
<1>0. /\ gui \in {"connecting", "locking", "queueing"} => client_ # null
      /\ gui \in {"left", "joining", "gone"} => client_ = null
  BY DEF PlacesFit
<1>1. CASE OnConnect
  <2>1. UNCHANGED workerClient /\ (queue' = <<>> <=> queue = <<>>)
    BY <1>1, Deleted DEF OnConnect
  <2> QED
    BY <1>1, <1>0, <2>1 DEF OnConnect
<1>2. CASE OnDisconnect
  BY <1>2, <1>0 DEF OnDisconnect
<1>3. CASE OnClose
  BY <1>3, <1>0 DEF OnClose
<1>4. CASE OnPoll
  BY <1>4, <1>0 DEF OnPoll
<1>5. CASE \E kind \in {"read", "write"} : OnRequest(kind)
  BY <1>5, <1>0, Posts
<1>6. CASE Connected
  BY <1>6, <1>0 DEF Connected
<1>7. CASE ConnectFailed
  <2>1. UNCHANGED workerClient /\ (queue' = <<>> <=> queue = <<>>)
    BY <1>7, Deleted DEF ConnectFailed
  <2> QED
    BY <1>7, <1>0, <2>1 DEF ConnectFailed
<1>8. CASE Disconnect
  BY <1>8, <1>0 DEF Disconnect
<1>9. CASE Reset
  <2>1. UNCHANGED workerClient /\ (queue' = <<>> <=> queue = <<>>)
    BY <1>9, Deleted DEF Reset
  <2> QED
    BY <1>9, <1>0, <2>1 DEF Reset
<1>10. CASE InvokeMethod
  BY <1>10, <1>0 DEF InvokeMethod
<1>11. CASE Destructor
  BY <1>11, <1>0 DEF Destructor
<1>12. CASE Joined
  BY <1>12, <1>0 DEF Joined
<1>13. CASE ClientDisconnect
  BY <1>13, <1>0 DEF ClientDisconnect
<1>14. CASE SetUnitId
  BY <1>14, <1>0 DEF SetUnitId
<1>15. CASE OnPollTick
  BY <1>15, <1>0, Posts
<1>16. CASE ShowResult
  BY <1>16, <1>0 DEF ShowResult
<1>17. CASE Take
  <2>1. queue # <<>> /\ UNCHANGED <<client_, gui, workerClient>>
    BY <1>17 DEF Take
  <2> QED
    BY <2>1
<1>18. CASE Reopen
  BY <1>18, <1>0, CallGoesOn
<1>19. CASE Transact
  BY <1>19, <1>0, CallGoesOn
<1>20. CASE UseDeleted
  BY <1>20, <1>0, CallGoesOn
<1>21. CASE Emit
  BY <1>21, <1>0 DEF Emit
<1>22. CASE End
  BY <1>22, <1>0 DEF End
<1>23. CASE Lock
  BY <1>23, <1>0, CallGoesOn
<1>24. CASE DeviceChanges
  BY <1>24, <1>0 DEF DeviceChanges
<1>25. CASE UNCHANGED vars
  BY <1>25, <1>0 DEF vars
<1> QED
  BY <1>1, <1>2, <1>3, <1>4, <1>5, <1>6, <1>7, <1>8, <1>9, <1>10, <1>11, <1>12, <1>13,
     <1>14, <1>15, <1>16, <1>17, <1>18, <1>19, <1>20, <1>21, <1>22, <1>23, <1>24, <1>25
     DEF Next, User, Handler, WaitsInGui, Slot, Over

(* Each step leaves valid calls only to a client that is there. *)
LEMMA CallsStep ==
  ASSUME TypeOK, WorkerHasTheClient, PlacesFit, CallsFit, [Next]_vars
  PROVE  CallsFit'
<1> USE DEF panelVars, guiVars, clientVars, workerVars, outside, CallsFit
<1>0. /\ gui \in {"locking", "queueing"} => Valid(next)
      /\ \A i \in 1 .. Len(queue) : Valid(queue[i]) => client_ # null /\ gui # "connecting"
      /\ Valid(call) => client_ # null /\ gui # "connecting"
  OBVIOUS
<1>1. CASE OnConnect
  <2>1. (\A i \in 1 .. Len(queue') : ~ Valid(queue'[i])) /\ ~ Valid(call')
    BY <1>1, Deleted DEF OnConnect
  <2>2. gui' \notin {"locking", "queueing"}
    BY <1>1 DEF OnConnect
  <2> QED
    BY <2>1, <2>2 DEF Valid
<1>2. CASE OnDisconnect
  <2>1. UNCHANGED <<queue, call, next, client_>> /\ gui' = "disconnecting"
    BY <1>2 DEF OnDisconnect
  <2> QED
    BY <1>0, <2>1 DEF Valid
<1>3. CASE OnClose
  <2>1. UNCHANGED <<queue, call, next, client_>> /\ gui' = "disconnecting"
    BY <1>3 DEF OnClose
  <2> QED
    BY <1>0, <2>1 DEF Valid
<1>4. CASE OnPoll
  <2>1. UNCHANGED <<queue, call, next, client_>> /\ gui' = gui
    BY <1>4 DEF OnPoll
  <2> QED
    BY <1>0, <2>1 DEF Valid
<1>5. CASE \E kind \in {"read", "write"} : OnRequest(kind)
  <2>1. UNCHANGED <<queue, call, client_>> /\ Valid(next') /\ client_ # null /\ gui' = "locking"
    BY <1>5, Posts
  <2> QED
    BY <1>0, <2>1 DEF Valid
<1>6. CASE Connected
  <2>1. UNCHANGED <<queue, call, next, client_>> /\ gui' = "loop"
    BY <1>6 DEF Connected
  <2> QED
    BY <1>0, <2>1 DEF Valid
<1>7. CASE ConnectFailed
  <2>1. (\A i \in 1 .. Len(queue') : ~ Valid(queue'[i])) /\ ~ Valid(call')
    BY <1>7, Deleted DEF ConnectFailed
  <2>2. gui' \notin {"locking", "queueing"}
    BY <1>7 DEF ConnectFailed
  <2> QED
    BY <2>1, <2>2 DEF Valid
<1>8. CASE Disconnect
  <2>1. UNCHANGED <<queue, call, next, client_>> /\ gui' \in {"closing", "deleting"}
    BY <1>8 DEF Disconnect
  <2> QED
    BY <1>0, <2>1 DEF Valid
<1>9. CASE Reset
  <2>1. (\A i \in 1 .. Len(queue') : ~ Valid(queue'[i])) /\ ~ Valid(call')
    BY <1>9, Deleted DEF Reset
  <2>2. gui' \notin {"locking", "queueing"}
    BY <1>9 DEF Reset
  <2> QED
    BY <2>1, <2>2 DEF Valid
<1>10. CASE InvokeMethod
  <2>1. UNCHANGED <<call, client_>> /\ gui' = "loop" /\ queue' = Append(queue, next)
        /\ Valid(next) /\ next \in CallTypes /\ client_ # null
    BY <1>10, Posted DEF InvokeMethod, PlacesFit, Valid
  <2>2. Len(queue') = Len(queue) + 1 /\ Len(queue) \in Nat
        /\ \A i \in 1 .. Len(queue) : queue'[i] = queue[i]
    BY <2>1, Posted, Back
  <2> QED
    BY <2>1, <2>2 DEF Valid
<1>11. CASE Destructor
  <2>1. UNCHANGED <<queue, call, next, client_>> /\ gui' = "joining"
    BY <1>11 DEF Destructor
  <2> QED
    BY <1>0, <2>1 DEF Valid
<1>12. CASE Joined
  <2>1. queue' = <<>> /\ UNCHANGED <<call, next, client_>> /\ gui' = "gone"
    BY <1>12 DEF Joined
  <2> QED
    BY <1>0, <2>1 DEF Valid
<1>13. CASE ClientDisconnect
  <2>1. UNCHANGED <<queue, call, next, client_>> /\ gui' = "deleting"
    BY <1>13 DEF ClientDisconnect
  <2> QED
    BY <1>0, <2>1 DEF Valid
<1>14. CASE SetUnitId
  <2>1. UNCHANGED <<queue, call, next, client_>> /\ gui = "locking" /\ gui' = "queueing"
    BY <1>14 DEF SetUnitId
  <2> QED
    BY <1>0, <2>1 DEF Valid
<1>15. CASE OnPollTick
  <2>1. UNCHANGED <<queue, call, client_>> /\ Valid(next') /\ client_ # null /\ gui' = "locking"
    BY <1>15, Posts
  <2> QED
    BY <1>0, <2>1 DEF Valid
<1>16. CASE ShowResult
  <2>1. UNCHANGED <<queue, call, next, client_>> /\ gui' = gui
    BY <1>16 DEF ShowResult
  <2> QED
    BY <1>0, <2>1 DEF Valid
<1>17. CASE Take
  <2>1. queue # <<>> /\ UNCHANGED <<next, client_, gui>> /\ queue' = Tail(queue)
        /\ call' \in {call, Head(queue)}
    BY <1>17 DEF Take
  <2>2. Len(queue) \in Nat \ {0} /\ Head(queue) = queue[1] /\ Len(queue') = Len(queue) - 1
        /\ \A i \in 1 .. Len(queue) - 1 : queue'[i] = queue[i + 1]
    BY <2>1, Posted, Front
  <2> QED
    BY <1>0, <2>1, <2>2 DEF Valid
<1>18. CASE Reopen
  <2>1. UNCHANGED <<queue, next, client_, gui>> /\ (Valid(call') => Valid(call))
    BY <1>18, CallGoesOn, CallFields DEF Valid
  <2> QED
    BY <1>0, <2>1 DEF Valid
<1>19. CASE Transact
  <2>1. UNCHANGED <<queue, next, client_, gui>> /\ (Valid(call') => Valid(call))
    BY <1>19, CallGoesOn, CallFields DEF Valid
  <2> QED
    BY <1>0, <2>1 DEF Valid
<1>20. CASE UseDeleted
  <2>1. UNCHANGED <<queue, next, client_, gui>> /\ (Valid(call') => Valid(call))
    BY <1>20, CallGoesOn, CallFields DEF Valid
  <2> QED
    BY <1>0, <2>1 DEF Valid
<1>21. CASE Emit
  <2>1. UNCHANGED <<queue, next, client_, gui>> /\ call' = NoCall
    BY <1>21 DEF Emit
  <2> QED
    BY <1>0, <2>1 DEF Valid
<1>22. CASE End
  <2>1. UNCHANGED <<queue, call, next, client_>> /\ gui' = gui
    BY <1>22 DEF End
  <2> QED
    BY <1>0, <2>1 DEF Valid
<1>23. CASE Lock
  <2>1. UNCHANGED <<queue, next, client_, gui>> /\ (Valid(call') => Valid(call))
    BY <1>23, CallGoesOn, CallFields DEF Valid
  <2> QED
    BY <1>0, <2>1 DEF Valid
<1>24. CASE DeviceChanges
  <2>1. UNCHANGED <<queue, call, next, client_>> /\ gui' = gui
    BY <1>24 DEF DeviceChanges
  <2> QED
    BY <1>0, <2>1 DEF Valid
<1>25. CASE UNCHANGED vars
  BY <1>25 DEF vars, Valid
<1> QED
  BY <1>1, <1>2, <1>3, <1>4, <1>5, <1>6, <1>7, <1>8, <1>9, <1>10, <1>11, <1>12, <1>13,
     <1>14, <1>15, <1>16, <1>17, <1>18, <1>19, <1>20, <1>21, <1>22, <1>23, <1>24, <1>25
     DEF Next, User, Handler, WaitsInGui, Slot, Over

(* Each step leaves only overdue calls without a client. *)
LEMMA OrphanStep ==
  ASSUME TypeOK, WorkerHasTheClient, OnlyOverdueCallsAreOrphans, PlacesFit, CallsFit, [Next]_vars
  PROVE  OnlyOverdueCallsAreOrphans'
<1> USE DEF panelVars, guiVars, clientVars, workerVars, outside, OnClient,
      OnlyOverdueCallsAreOrphans
<1>0. /\ worker \in OnClient => call # NoCall
      /\ Valid(call) => client_ # null /\ gui # "connecting"
      /\ client_ # null /\ gui # "connecting" => workerClient = client_
  BY DEF PlacesFit, CallsFit, WorkerHasTheClient
<1>1. CASE OnConnect
  <2>1. UNCHANGED worker /\ (call' = NoCall <=> call = NoCall)
        /\ (call' # NoCall => call'.unit = NoUnit)
    BY <1>1, Deleted DEF OnConnect
  <2> QED
    BY <1>0, <2>1
<1>2. CASE OnDisconnect
  BY <1>2, <1>0 DEF OnDisconnect
<1>3. CASE OnClose
  BY <1>3, <1>0 DEF OnClose
<1>4. CASE OnPoll
  BY <1>4, <1>0 DEF OnPoll
<1>5. CASE \E kind \in {"read", "write"} : OnRequest(kind)
  BY <1>5, <1>0, Posts DEF workerVars
<1>6. CASE Connected
  <2>1. gui = "connecting" /\ UNCHANGED <<worker, call>>
    BY <1>6 DEF Connected
  <2> QED
    BY <1>0, <2>1 DEF Valid
<1>7. CASE ConnectFailed
  <2>1. UNCHANGED worker /\ (call' = NoCall <=> call = NoCall)
        /\ (call' # NoCall => call'.unit = NoUnit)
    BY <1>7, Deleted DEF ConnectFailed
  <2> QED
    BY <1>0, <2>1
<1>8. CASE Disconnect
  BY <1>8, <1>0 DEF Disconnect
<1>9. CASE Reset
  <2>1. UNCHANGED worker /\ (call' = NoCall <=> call = NoCall)
        /\ (call' # NoCall => call'.unit = NoUnit)
    BY <1>9, Deleted DEF Reset
  <2> QED
    BY <1>0, <2>1
<1>10. CASE InvokeMethod
  BY <1>10, <1>0 DEF InvokeMethod
<1>11. CASE Destructor
  BY <1>11, <1>0 DEF Destructor
<1>12. CASE Joined
  <2>1. worker = "ended" /\ UNCHANGED worker
    BY <1>12 DEF Joined
  <2> QED
    BY <2>1
<1>13. CASE ClientDisconnect
  BY <1>13, <1>0 DEF ClientDisconnect
<1>14. CASE SetUnitId
  BY <1>14, <1>0 DEF SetUnitId
<1>15. CASE OnPollTick
  BY <1>15, <1>0, Posts DEF workerVars
<1>16. CASE ShowResult
  BY <1>16, <1>0 DEF ShowResult
<1>17. CASE Take
  <2>1. UNCHANGED <<client_, workerClient, gui>>
    BY <1>17 DEF Take
  <2>2. queue[1].unit # NoUnit => client_ # null /\ gui # "connecting"
    BY <1>17, Takes, CallFields DEF CallsFit, Valid
  <2> QED
    BY <1>17, <1>0, <2>1, <2>2, Takes
<1>18. CASE Reopen
  BY <1>18, <1>0, CallGoesOn
<1>19. CASE Transact
  BY <1>19, <1>0, CallGoesOn
<1>20. CASE UseDeleted
  BY <1>20, <1>0, CallGoesOn
<1>21. CASE Emit
  BY <1>21, <1>0 DEF Emit
<1>22. CASE End
  BY <1>22, <1>0 DEF End
<1>23. CASE Lock
  BY <1>23, <1>0, CallGoesOn
<1>24. CASE DeviceChanges
  BY <1>24, <1>0 DEF DeviceChanges
<1>25. CASE UNCHANGED vars
  BY <1>25, <1>0 DEF vars
<1> QED
  BY <1>1, <1>2, <1>3, <1>4, <1>5, <1>6, <1>7, <1>8, <1>9, <1>10, <1>11, <1>12, <1>13,
     <1>14, <1>15, <1>16, <1>17, <1>18, <1>19, <1>20, <1>21, <1>22, <1>23, <1>24, <1>25
     DEF Next, User, Handler, WaitsInGui, Slot, Over

(* Each step leaves the unit id to the last call posted. *)
LEMMA UnitsStep ==
  ASSUME TypeOK, PlacesFit, CallsFit, UnitsFit, WorkerHasTheClient, [Next]_vars
  PROVE  UnitsFit'
<1> USE DEF panelVars, guiVars, clientVars, workerVars, outside, UnitsFit
<1>0. /\ gui = "queueing" => next.unit = unitId_
      /\ gui # "queueing" => LET last == IF queue = <<>> THEN call ELSE queue[Len(queue)]
                             IN  Valid(last) => last.unit = unitId_
  OBVIOUS
<1>1. CASE OnConnect
  <2>1. (queue' # <<>> => ~ Valid(queue'[Len(queue')])) /\ ~ Valid(call')
    BY <1>1, Deleted DEF OnConnect
  <2>2. gui' # "queueing"
    BY <1>1 DEF OnConnect
  <2> QED
    BY <2>1, <2>2 DEF Valid
<1>2. CASE OnDisconnect
  <2>1. UNCHANGED <<queue, call, next, unitId_>> /\ gui' = "disconnecting"
        /\ gui = "loop"
    BY <1>2 DEF OnDisconnect
  <2> QED
    BY <1>0, <2>1 DEF Valid
<1>3. CASE OnClose
  <2>1. UNCHANGED <<queue, call, next, unitId_>> /\ gui' = "disconnecting"
        /\ gui = "loop"
    BY <1>3 DEF OnClose
  <2> QED
    BY <1>0, <2>1 DEF Valid
<1>4. CASE OnPoll
  <2>1. UNCHANGED <<queue, call, next, unitId_>> /\ gui' = gui
    BY <1>4 DEF OnPoll
  <2> QED
    BY <1>0, <2>1 DEF Valid
<1>5. CASE \E kind \in {"read", "write"} : OnRequest(kind)
  <2>1. gui = "loop" /\ gui' = "locking" /\ UNCHANGED <<queue, call, unitId_>>
    BY <1>5, Posts
  <2> QED
    BY <1>0, <2>1 DEF Valid
<1>6. CASE Connected
  <2>1. UNCHANGED <<queue, call, next, unitId_>> /\ gui' = "loop"
        /\ gui = "connecting"
    BY <1>6 DEF Connected
  <2> QED
    BY <1>0, <2>1 DEF Valid
<1>7. CASE ConnectFailed
  <2>1. (queue' # <<>> => ~ Valid(queue'[Len(queue')])) /\ ~ Valid(call')
    BY <1>7, Deleted DEF ConnectFailed
  <2>2. gui' # "queueing"
    BY <1>7 DEF ConnectFailed
  <2> QED
    BY <2>1, <2>2 DEF Valid
<1>8. CASE Disconnect
  <2>1. UNCHANGED <<queue, call, next, unitId_>> /\ gui' \in {"closing", "deleting"}
        /\ gui = "disconnecting"
    BY <1>8 DEF Disconnect
  <2> QED
    BY <1>0, <2>1 DEF Valid
<1>9. CASE Reset
  <2>1. (queue' # <<>> => ~ Valid(queue'[Len(queue')])) /\ ~ Valid(call')
    BY <1>9, Deleted DEF Reset
  <2>2. gui' # "queueing"
    BY <1>9 DEF Reset
  <2> QED
    BY <2>1, <2>2 DEF Valid
<1>10. CASE InvokeMethod
  <2>1. gui = "queueing" /\ gui' = "loop" /\ queue' = Append(queue, next) /\ unitId_' = unitId_
        /\ next \in CallTypes
    BY <1>10, Posted DEF InvokeMethod, CallsFit, Valid
  <2>2. queue' # <<>> /\ queue'[Len(queue')] = next
    BY <2>1, Posted, Back
  <2> QED
    BY <1>0, <2>1, <2>2
<1>11. CASE Destructor
  <2>1. UNCHANGED <<queue, call, next, unitId_>> /\ gui' = "joining"
        /\ gui = "left"
    BY <1>11 DEF Destructor
  <2> QED
    BY <1>0, <2>1 DEF Valid
<1>12. CASE Joined
  <2>1. queue' = <<>> /\ call' = call /\ worker = "ended" /\ gui' = "gone"
    BY <1>12 DEF Joined
  <2> QED
    BY <2>1 DEF PlacesFit, Valid
<1>13. CASE ClientDisconnect
  <2>1. UNCHANGED <<queue, call, next, unitId_>> /\ gui' = "deleting"
        /\ gui = "closing"
    BY <1>13 DEF ClientDisconnect
  <2> QED
    BY <1>0, <2>1 DEF Valid
<1>14. CASE SetUnitId
  <2>1. gui' = "queueing" /\ unitId_' = next.unit /\ next' = next
    BY <1>14 DEF SetUnitId
  <2> QED
    BY <2>1
<1>15. CASE OnPollTick
  <2>1. gui = "loop" /\ gui' = "locking" /\ UNCHANGED <<queue, call, unitId_>>
    BY <1>15, Posts
  <2> QED
    BY <1>0, <2>1 DEF Valid
<1>16. CASE ShowResult
  <2>1. UNCHANGED <<queue, call, next, unitId_>> /\ gui' = gui
    BY <1>16 DEF ShowResult
  <2> QED
    BY <1>0, <2>1 DEF Valid
<1>17. CASE Take
  <2>1. UNCHANGED <<next, unitId_, gui>>
    BY <1>17 DEF Take
  <2>2. /\ queue # <<>> /\ Len(queue) \in Nat \ {0} /\ Len(queue') = Len(queue) - 1
        /\ \A i \in 1 .. Len(queue) - 1 : queue'[i] = queue[i + 1]
        /\ (queue' = <<>> => Len(queue) = 1) /\ (queue' # <<>> => Len(queue') \in Nat \ {0})
        /\ call' \in {queue[1], NoCall}
    BY <1>17, Takes DEF PlacesFit
  <2>3. CASE queue' = <<>>
    <3>1. Len(queue) = 1
      BY <2>2, <2>3
    <3>2. Valid(call') => call' = queue[1]
      BY <2>2 DEF Valid
    <3> QED
      BY <1>0, <2>1, <2>2, <2>3, <3>1, <3>2 DEF Valid
  <2>4. CASE queue' # <<>>
    <3>1. queue'[Len(queue')] = queue[Len(queue)]
      <4>1. Len(queue) - 1 \in 1 .. Len(queue) - 1
        BY <2>2, <2>4
      <4>2. queue'[Len(queue) - 1] = queue[Len(queue) - 1 + 1]
        BY <2>2, <4>1
      <4> QED
        BY <2>2, <4>2
    <3> QED
      BY <1>0, <2>1, <2>2, <2>4, <3>1 DEF Valid
  <2> QED
    BY <2>3, <2>4
<1>18. CASE Reopen
  <2>1. UNCHANGED <<queue, next, unitId_, gui>> /\ call'.unit = call.unit
        /\ (Valid(call') => Valid(call))
    BY <1>18, CallGoesOn, CallFields DEF Valid
  <2> QED
    BY <1>0, <2>1 DEF Valid
<1>19. CASE Transact
  <2>1. UNCHANGED <<queue, next, unitId_, gui>> /\ call'.unit = call.unit
        /\ (Valid(call') => Valid(call))
    BY <1>19, CallGoesOn, CallFields DEF Valid
  <2> QED
    BY <1>0, <2>1 DEF Valid
<1>20. CASE UseDeleted
  <2>1. UNCHANGED <<queue, next, unitId_, gui>> /\ call'.unit = call.unit
        /\ (Valid(call') => Valid(call))
    BY <1>20, CallGoesOn, CallFields DEF Valid
  <2> QED
    BY <1>0, <2>1 DEF Valid
<1>21. CASE Emit
  <2>1. UNCHANGED <<queue, next, unitId_, gui>> /\ call' = NoCall
    BY <1>21 DEF Emit
  <2> QED
    BY <1>0, <2>1 DEF Valid
<1>22. CASE End
  <2>1. UNCHANGED <<queue, call, next, unitId_>> /\ gui' = gui
    BY <1>22 DEF End
  <2> QED
    BY <1>0, <2>1 DEF Valid
<1>23. CASE Lock
  <2>1. UNCHANGED <<queue, next, unitId_, gui>> /\ call'.unit = call.unit
        /\ (Valid(call') => Valid(call))
    BY <1>23, CallGoesOn, CallFields DEF Valid
  <2> QED
    BY <1>0, <2>1 DEF Valid
<1>24. CASE DeviceChanges
  <2>1. UNCHANGED <<queue, call, next, unitId_>> /\ gui' = gui
    BY <1>24 DEF DeviceChanges
  <2> QED
    BY <1>0, <2>1 DEF Valid
<1>25. CASE UNCHANGED vars
  BY <1>25 DEF vars, Valid
<1> QED
  BY <1>1, <1>2, <1>3, <1>4, <1>5, <1>6, <1>7, <1>8, <1>9, <1>10, <1>11, <1>12, <1>13,
     <1>14, <1>15, <1>16, <1>17, <1>18, <1>19, <1>20, <1>21, <1>22, <1>23, <1>24, <1>25
     DEF Next, User, Handler, WaitsInGui, Slot, Over

(* The panel begins in the invariant. *)
LEMMA InitialInv == Init => IInv
<1> SUFFICES ASSUME Init PROVE IInv
  OBVIOUS
<1>0. <<>> \in Seq(CallTypes) /\ <<>> \in Seq([kind : {"read", "write"}, ok : BOOLEAN])
  OBVIOUS
<1>1. TypeOK
  BY <1>0 DEF Init, TypeOK, GuiPlaces, WorkerPlaces
<1>2. WorkerHasTheClient /\ OnlyOverdueCallsAreOrphans /\ PlacesFit
  BY DEF Init, WorkerHasTheClient, OnlyOverdueCallsAreOrphans, PlacesFit, OnClient
<1>3. CallsFit /\ UnitsFit
  BY DEF Init, CallsFit, UnitsFit, Valid
<1> QED
  BY <1>1, <1>2, <1>3 DEF IInv

(* Each step keeps the invariant. *)
LEMMA NextInv == IInv /\ [Next]_vars => IInv'
  BY TypesStep, PlacesStep, ClientStep, CallsStep, OrphanStep, UnitsStep DEF IInv

(* The inductive invariant holds in every reachable state. *)
THEOREM Invariance == Spec => []IInv
  BY InitialInv, NextInv, PTL DEF Spec

(* Every variable of the panel and its worker keeps its type. *)
THEOREM TypeCorrectness == Spec => []TypeOK
<1>1. IInv => TypeOK
  BY DEF IInv
<1> QED
  BY <1>1, Invariance, PTL

(* As long as the panel has a client and is not replacing it, the worker   *)
(* points to it (connection_panel.cpp:92-97, 109, 117, 130).               *)
THEOREM WorkerFollows == Spec => []WorkerHasTheClient
<1>1. IInv => WorkerHasTheClient
  BY DEF IInv
<1> QED
  BY <1>1, Invariance, PTL

(* A client that is deleted takes only calls with it that were posted      *)
(* before (connection_panel.cpp:83, 92, 97).                               *)
THEOREM NewCallsAreSafe == Spec => []OnlyOverdueCallsAreOrphans
<1>1. IInv => OnlyOverdueCallsAreOrphans
  BY DEF IInv
<1> QED
  BY <1>1, Invariance, PTL

(* The last call posted goes to the unit its user chose                    *)
(* (connection_panel.cpp:110, 118, 130).                                   *)
THEOREM LastCallIsAddressed == Spec => []LastCallHasItsUnit
<1>1. IInv => LastCallHasItsUnit
  <2> SUFFICES ASSUME IInv, worker \in {"reopen", "transact"}, call.unit # NoUnit,
                      queue = <<>>, gui # "queueing"
               PROVE  unitId_ = call.unit
    BY DEF LastCallHasItsUnit
  <2>1. Valid(call)
    BY DEF IInv, PlacesFit, OnClient, Valid
  <2> QED
    BY <2>1 DEF IInv, UnitsFit
<1> QED
  BY <1>1, Invariance, PTL
=============================================================================
