------------------------------ MODULE GuiPanel ------------------------------
(***************************************************************************)
(* A tab of the GUI: ConnectionPanel and ModbusWorker                      *)
(* (tools/connection_panel.cpp) and closePanel of tools/modbus_gui.cpp.    *)
(*                                                                         *)
(* The GUI thread runs one handler after another and is inside one while   *)
(* gui is not "loop": handlers wait for the client's mutex (setUnitId,     *)
(* disconnect) or for connect().  Reads and writes are posted to a worker  *)
(* thread, which runs them one by one and posts their results back.        *)
(*                                                                         *)
(* A client is known by its address.  The panel owns the one at client_;   *)
(* the worker keeps a plain pointer, which nobody clears.  A call whose    *)
(* client is deleted under it is an orphan; what it does from then on is   *)
(* undefined: it ends the program, blocks for ever in a mutex that is      *)
(* gone, or returns something.                                             *)
(*                                                                         *)
(* The client is reduced to what the panel sees of it.  The GUI never      *)
(* calls setRetries or setAutoReconnect, so a call opens a closed link     *)
(* once and transacts once.                                                *)
(***************************************************************************)
EXTENDS Naturals, Sequences

CONSTANTS
  Addresses,     \* where clients may be allocated
  null,          \* the null pointer
  Units,         \* values of the unit id field
  NoUnit,        \* unitId_ while there is no client
  MaxPending     \* bound: calls posted, running, or answered and not yet shown

ASSUME PanelAssumption ==
  null \notin Addresses /\ NoUnit \notin Units /\ MaxPending \in Nat \ {0}

VARIABLES
  client_, polling_, statusLbl_, connBtn_,   \* the panel
  gui,           \* where the GUI thread is
  leaving,       \* whether it is inside closePanel, or past it
  next,          \* the call a handler is about to post
  open, mutex_, unitId_, reconnecting_, intentionalDisconnect_,   \* the client at client_
  worker,        \* where the worker thread is
  workerClient,  \* ModbusWorker::client_
  queue,         \* calls posted to the worker
  call,          \* the call it runs
  orphan,        \* whether the client of that call is gone
  results,       \* results posted to the panel
  device, crashed

panelVars  == <<client_, polling_, statusLbl_, connBtn_>>
guiVars    == <<gui, leaving, next>>
clientVars == <<open, mutex_, unitId_, reconnecting_, intentionalDisconnect_>>
workerVars == <<worker, workerClient, queue, call, orphan>>
outside    == <<device, crashed>>
vars == <<panelVars, guiVars, clientVars, workerVars, results, outside>>

(* A posted call: ok is what it will return; unit is history, the unit its *)
(* user chose, or NoUnit when the client it was posted for is deleted.     *)
CallTypes == [kind : {"read", "write"}, unit : Units \cup {NoUnit}, ok : BOOLEAN]
NoCall    == [kind |-> "none"]
NewCall(kind, unit) == [kind |-> kind, unit |-> unit, ok |-> FALSE]

Stale(c)  == [c EXCEPT !.unit = NoUnit]

(* The device, or the network to it: it "answers" a request, "refuses" it  *)
(* with an exception, is "silent", or is "unreachable".  Only the last     *)
(* makes open() fail: a serial port opens whether or not somebody listens  *)
(* on the line, a TCP peer may take a connection and never answer, and a   *)
(* refused one is not noticed (see TcpLink): all these are "silent".       *)
Devices == {"answers", "refuses", "silent", "unreachable"}

(* Places of a handler; "left" is after closePanel, before deleteLater()    *)
(* reaches the destructor.                                                 *)
Handling == {"connecting", "locking", "queueing", "disconnecting", "closing", "deleting"}
GuiPlaces == Handling \cup {"loop", "left", "joining", "gone"}

OnClient == {"lock", "reopen", "transact"}
WorkerPlaces == OnClient \cup {"idle", "emit", "stuck", "ended"}

Pending == Len(queue) + Len(results) + (IF call = NoCall THEN 0 ELSE 1)

-----------------------------------------------------------------------------
Init ==
  /\ client_ = null /\ polling_ = FALSE
  /\ statusLbl_ = "Disconnected" /\ connBtn_ = "Connect"
  /\ gui = "loop" /\ leaving = FALSE /\ next = NoCall
  /\ open = FALSE /\ mutex_ = "free" /\ unitId_ = NoUnit
  /\ reconnecting_ = FALSE /\ intentionalDisconnect_ = FALSE
  /\ worker = "idle" /\ workerClient = null
  /\ queue = <<>> /\ call = NoCall /\ orphan = FALSE /\ results = <<>>
  /\ device \in Devices /\ crashed = FALSE

(* client_ && client_->connected(), which takes no lock. *)
connected == client_ # null /\ open

(* The client at client_ is deleted, if there is one. *)
Delete ==
  /\ orphan' = (orphan \/ (client_ # null /\ worker \in OnClient))
  /\ queue' = [i \in DOMAIN queue |-> Stale(queue[i])]
  /\ call' = IF call = NoCall THEN NoCall ELSE Stale(call)
  /\ UNCHANGED <<worker, workerClient>>

(* A client that is new, or none. *)
Fresh(holder, unit) ==
  /\ open' = FALSE /\ mutex_' = holder /\ unitId_' = unit
  /\ reconnecting_' = FALSE /\ intentionalDisconnect_' = FALSE

setDisconnected == statusLbl_' = "Disconnected" /\ connBtn_' = "Connect"

-----------------------------------------------------------------------------
(* onConn of a panel that is not connected: a new client takes the place   *)
(* of one that may still be there, then connect() blocks the GUI thread.   *)
(* The mutex is taken twice (94, 95); nobody else knows the client yet.    *)
OnConnect ==
  /\ gui = "loop" /\ ~connected
  /\ \E address \in Addresses \ {client_} : client_' = address
  /\ Delete
  /\ \E unit \in Units : Fresh("gui", unit)
  /\ gui' = "connecting"
  /\ UNCHANGED <<polling_, statusLbl_, connBtn_, leaving, next, results, outside>>

(* Mutant: the worker is not told of the new client. *)
Connected_NoSetClient ==
  /\ gui = "connecting" /\ device # "unreachable"
  /\ open' = TRUE /\ mutex_' = "free"
  /\ statusLbl_' = "Connected" /\ connBtn_' = "Disconnect"
  /\ gui' = "loop"
  /\ UNCHANGED <<client_, polling_, leaving, next, unitId_, reconnecting_,
                 intentionalDisconnect_, workerVars, results, outside>>

Connected ==
  /\ gui = "connecting" /\ device # "unreachable"
  /\ open' = TRUE /\ mutex_' = "free"
  /\ statusLbl_' = "Connected" /\ connBtn_' = "Disconnect"
  /\ workerClient' = client_
  /\ gui' = "loop"
  /\ UNCHANGED <<client_, polling_, leaving, next, unitId_, reconnecting_,
                 intentionalDisconnect_, worker, queue, call, orphan, results, outside>>

(* The label and the button stay as they were. *)
ConnectFailed ==
  /\ gui = "connecting" /\ device = "unreachable"
  /\ client_' = null /\ Delete /\ Fresh("free", NoUnit)
  /\ gui' = "loop"
  /\ UNCHANGED <<polling_, statusLbl_, connBtn_, leaving, next, results, outside>>

(* onConn of a connected panel calls disconnect(). *)
OnDisconnect ==
  /\ gui = "loop" /\ connected
  /\ gui' = "disconnecting"
  /\ UNCHANGED <<panelVars, leaving, next, clientVars, workerVars, results, outside>>

(* closePanel, once confirmed: stopPoll() and disconnect(). *)
OnClose ==
  /\ gui = "loop"
  /\ polling_' = FALSE
  /\ leaving' = TRUE
  /\ gui' = "disconnecting"
  /\ UNCHANGED <<client_, statusLbl_, connBtn_, next, clientVars, workerVars, results,
                 outside>>

(* disconnect() looks at connected() itself, perhaps for the second time:  *)
(* only a connected client is told to disconnect before it is deleted.     *)
Disconnect ==
  /\ gui = "disconnecting"
  /\ gui' = IF connected THEN "closing" ELSE "deleting"
  /\ UNCHANGED <<panelVars, leaving, next, clientVars, workerVars, results, outside>>

(* client_->disconnect(), which waits for the mutex. *)
ClientDisconnect ==
  /\ gui = "closing" /\ mutex_ = "free"
  /\ open' = FALSE /\ intentionalDisconnect_' = TRUE /\ reconnecting_' = FALSE
  /\ gui' = "deleting"
  /\ UNCHANGED <<panelVars, leaving, next, mutex_, unitId_, workerVars, results, outside>>

(* client_.reset(), setDisconnected() and the end of the handler. *)
Reset ==
  /\ gui = "deleting"
  /\ client_' = null /\ Delete /\ Fresh("free", NoUnit) /\ setDisconnected
  /\ gui' = IF leaving THEN "left" ELSE "loop"
  /\ UNCHANGED <<polling_, leaving, next, results, outside>>

(* deleteLater() reaches the destructor.  stopPoll() and disconnect() have *)
(* nothing left to do; quit() asks the worker's event loop to end.         *)
Destructor ==
  /\ gui = "left"
  /\ gui' = "joining"
  /\ UNCHANGED <<panelVars, leaving, next, clientVars, workerVars, results, outside>>

(* wait() returns and the worker is deleted, with what was posted to it    *)
(* and to the panel.                                                       *)
Joined ==
  /\ gui = "joining" /\ worker = "ended"
  /\ gui' = "gone"
  /\ workerClient' = null /\ queue' = <<>> /\ results' = <<>>
  /\ UNCHANGED <<panelVars, leaving, next, clientVars, worker, call, orphan, outside>>

-----------------------------------------------------------------------------
(* onRead and onWrite of a connected panel: setUnitId(), which waits for   *)
(* the mutex, and then the call is posted to the worker.                   *)
OnRequest(kind) ==
  /\ gui = "loop" /\ connected /\ Pending < MaxPending
  /\ \E unit \in Units : next' = NewCall(kind, unit)
  /\ gui' = "locking"
  /\ UNCHANGED <<panelVars, leaving, clientVars, workerVars, results, outside>>

(* onPoll.  A disconnect leaves polling_ as it is, so that a later connect *)
(* goes on polling.                                                        *)
OnPoll ==
  /\ gui = "loop" /\ (polling_ \/ connected)
  /\ polling_' = ~polling_
  /\ UNCHANGED <<client_, statusLbl_, connBtn_, guiVars, clientVars, workerVars, results,
                 outside>>

(* Mutant: a tick does not look whether there is a client. *)
OnPollTick_NoCheck ==
  /\ gui = "loop" /\ polling_ /\ Pending < MaxPending
  /\ statusLbl_' = IF connected THEN statusLbl_ ELSE "Reconnecting..."
  /\ \E unit \in Units : next' = NewCall("read", unit)
  /\ gui' = "locking"
  /\ UNCHANGED <<client_, polling_, connBtn_, leaving, clientVars, workerVars, results,
                 outside>>

(* Mutant: a tick reads only while the link is up. *)
OnPollTick_OnlyConnected ==
  /\ gui = "loop" /\ polling_ /\ connected /\ Pending < MaxPending
  /\ \E unit \in Units : next' = NewCall("read", unit)
  /\ gui' = "locking"
  /\ UNCHANGED <<panelVars, leaving, clientVars, workerVars, results, outside>>

OnPollTick ==
  /\ gui = "loop" /\ polling_ /\ client_ # null /\ Pending < MaxPending
  /\ statusLbl_' = IF connected THEN statusLbl_ ELSE "Reconnecting..."
  /\ \E unit \in Units : next' = NewCall("read", unit)
  /\ gui' = "locking"
  /\ UNCHANGED <<client_, polling_, connBtn_, leaving, clientVars, workerVars, results,
                 outside>>

(* Mutant: the unit id is set when the panel connects and never again. *)
SetUnitId_Forgotten ==
  /\ gui = "locking" /\ mutex_ = "free"
  /\ gui' = "queueing"
  /\ UNCHANGED <<panelVars, leaving, next, clientVars, workerVars, results, outside>>

SetUnitId ==
  /\ gui = "locking" /\ mutex_ = "free"
  /\ unitId_' = next.unit
  /\ gui' = "queueing"
  /\ UNCHANGED <<panelVars, leaving, next, open, mutex_, reconnecting_,
                 intentionalDisconnect_, workerVars, results, outside>>

InvokeMethod ==
  /\ gui = "queueing"
  /\ queue' = Append(queue, next)
  /\ next' = NoCall
  /\ gui' = "loop"
  /\ UNCHANGED <<panelVars, leaving, clientVars, worker, workerClient, call, orphan, results,
                 outside>>
-----------------------------------------------------------------------------
(* The worker takes the next call.  Without a client it drops it. *)
Take ==
  /\ worker = "idle" /\ queue # <<>>
  /\ queue' = Tail(queue)
  /\ IF workerClient = null
     THEN UNCHANGED <<worker, call, orphan>>
     ELSE /\ worker' = "lock"
          /\ call' = Head(queue)
          /\ orphan' = (workerClient # client_)
  /\ UNCHANGED <<panelVars, guiVars, clientVars, workerClient, results, outside>>

(* Mutant: a call that fails returns without giving the mutex back. *)
Return_KeepsMutex(ok) ==
  /\ mutex_' = IF ok THEN "free" ELSE mutex_
  /\ call' = [call EXCEPT !.ok = ok]
  /\ worker' = "emit"

(* The call is over and its lock_guard frees the mutex. *)
Return(ok) ==
  /\ mutex_' = "free"
  /\ call' = [call EXCEPT !.ok = ok]
  /\ worker' = "emit"

(* The call has the mutex and the link is up, down, or down for good. *)
Lock ==
  /\ worker = "lock" /\ ~orphan /\ mutex_ = "free"
  /\ \/ /\ open
        /\ mutex_' = "worker" /\ worker' = "transact"
        /\ UNCHANGED <<reconnecting_, call>>
     \/ /\ ~open /\ ~intentionalDisconnect_
        /\ mutex_' = "worker" /\ worker' = "reopen" /\ reconnecting_' = TRUE
        /\ UNCHANGED call
     \/ /\ ~open /\ intentionalDisconnect_
        /\ Return(FALSE)
        /\ UNCHANGED reconnecting_
  /\ UNCHANGED <<panelVars, guiVars, open, unitId_, intentionalDisconnect_, workerClient,
                 queue, orphan, results, outside>>

Reopen ==
  /\ worker = "reopen" /\ ~orphan
  /\ reconnecting_' = FALSE
  /\ IF device = "unreachable"
     THEN Return(FALSE) /\ UNCHANGED open
     ELSE open' = TRUE /\ worker' = "transact" /\ UNCHANGED <<mutex_, call>>
  /\ UNCHANGED <<panelVars, guiVars, unitId_, intentionalDisconnect_, workerClient, queue,
                 orphan, results, outside>>

(* No answer is a Transport error, which closes the link; an exception     *)
(* reply is an error that leaves it open.                                  *)
Transact ==
  /\ worker = "transact" /\ ~orphan
  /\ Return(device = "answers")
  /\ open' = (device \in {"answers", "refuses"})
  /\ UNCHANGED <<panelVars, guiVars, unitId_, reconnecting_, intentionalDisconnect_,
                 workerClient, queue, orphan, results, outside>>

(* A call goes on with a client that is deleted. *)
UseDeleted ==
  /\ worker \in OnClient /\ orphan
  /\ \/ crashed' = TRUE /\ UNCHANGED <<worker, call>>
     \/ worker' = "stuck" /\ UNCHANGED <<call, crashed>>
     \/ /\ \E ok \in BOOLEAN : call' = [call EXCEPT !.ok = ok]
        /\ worker' = "emit"
        /\ UNCHANGED crashed
  /\ UNCHANGED <<panelVars, guiVars, clientVars, workerClient, queue, orphan, results, device>>

(* emit readDone or writeDone *)
Emit ==
  /\ worker = "emit"
  /\ results' = Append(results, [kind |-> call.kind, ok |-> call.ok])
  /\ call' = NoCall /\ orphan' = FALSE
  /\ worker' = "idle"
  /\ UNCHANGED <<panelVars, guiVars, clientVars, workerClient, queue, outside>>

(* Mutant: quit() is called after wait(). *)
End_QuitAfterWait ==
  /\ worker = "idle" /\ gui = "gone"
  /\ worker' = "ended"
  /\ UNCHANGED <<panelVars, guiVars, clientVars, workerClient, queue, call, orphan, results,
                 outside>>

(* The worker's event loop ends, perhaps after more of what was posted. *)
End ==
  /\ worker = "idle" /\ gui = "joining"
  /\ worker' = "ended"
  /\ UNCHANGED <<panelVars, guiVars, clientVars, workerClient, queue, call, orphan, results,
                 outside>>

-----------------------------------------------------------------------------
(* A failed read's text starts with "Err:", a failed write's does not. *)
StartsWithErr(result) == result.kind = "read" /\ ~result.ok

(* onR and onW, which are the same. *)
ShowResult ==
  /\ gui \in {"loop", "left"} /\ results # <<>>
  /\ results' = Tail(results)
  /\ LET failed == StartsWithErr(Head(results))
     IN  \/ /\ failed /\ client_ # null /\ reconnecting_
            /\ statusLbl_' = "Reconnecting..." /\ UNCHANGED connBtn_
         \/ /\ failed /\ client_ # null /\ ~reconnecting_ /\ ~open
            /\ setDisconnected
         \/ /\ ~failed /\ statusLbl_ \in {"Reconnecting...", "Disconnected"}
            /\ statusLbl_' = "Connected" /\ connBtn_' = "Disconnect"
         \/ /\ IF failed THEN client_ = null \/ (~reconnecting_ /\ open)
                         ELSE statusLbl_ = "Connected"
            /\ UNCHANGED <<statusLbl_, connBtn_>>
  /\ UNCHANGED <<client_, polling_, guiVars, clientVars, workerVars, outside>>

(* External: the device, or the network to it, changes. *)
DeviceChanges ==
  /\ \E d \in Devices \ {device} : device' = d
  /\ UNCHANGED <<panelVars, guiVars, clientVars, workerVars, results, crashed>>

(* The panel is gone, or the program. *)
Over == (crashed \/ gui = "gone") /\ UNCHANGED vars

Handler    == Connected \/ ConnectFailed \/ Disconnect \/ Reset \/ InvokeMethod
              \/ Destructor \/ Joined
WaitsInGui == ClientDisconnect \/ SetUnitId
Slot       == Take \/ Reopen \/ Transact \/ UseDeleted \/ Emit \/ End
User       == OnConnect \/ OnDisconnect \/ OnClose \/ OnPoll
              \/ \E kind \in {"read", "write"} : OnRequest(kind)

Next ==
  \/ /\ ~crashed /\ gui # "gone"
     /\ \/ User \/ Handler \/ WaitsInGui \/ OnPollTick \/ ShowResult
        \/ Slot \/ Lock \/ DeviceChanges
  \/ Over

Running(A) == ~crashed /\ gui # "gone" /\ A

(* Both threads run, the timer fires and posted events are delivered.  A   *)
(* free mutex is taken by somebody, not by anybody in particular.          *)
Spec ==
  /\ Init /\ [][Next]_vars
  /\ WF_vars(Running(Handler)) /\ WF_vars(Running(Slot))
  /\ WF_vars(Running(WaitsInGui \/ Lock))
  /\ WF_vars(Running(OnPollTick)) /\ WF_vars(Running(ShowResult))

-----------------------------------------------------------------------------
TypeOK ==
  /\ client_ \in Addresses \cup {null} /\ workerClient \in Addresses \cup {null}
  /\ polling_ \in BOOLEAN /\ leaving \in BOOLEAN
  /\ statusLbl_ \in {"Connected", "Disconnected", "Reconnecting..."}
  /\ connBtn_ \in {"Connect", "Disconnect"}
  /\ gui \in GuiPlaces /\ worker \in WorkerPlaces
  /\ next \in CallTypes \cup {NoCall} /\ call \in CallTypes \cup {NoCall}
  /\ open \in BOOLEAN /\ reconnecting_ \in BOOLEAN /\ intentionalDisconnect_ \in BOOLEAN
  /\ mutex_ \in {"free", "gui", "worker"} /\ unitId_ \in Units \cup {NoUnit}
  /\ queue \in Seq(CallTypes) /\ orphan \in BOOLEAN
  /\ results \in Seq([kind : {"read", "write"}, ok : BOOLEAN])
  /\ device \in Devices /\ crashed \in BOOLEAN

(* No call is dropped or sent to the wrong client when it is posted: as    *)
(* long as the panel has a client and is not replacing it, it is the one   *)
(* the worker points to; and the worker does not start without one.        *)
(* (connection_panel.cpp:92-97, 109, 117, 130 and the check at 7.)         *)
WorkerHasTheClient ==
  /\ client_ # null /\ gui # "connecting" => workerClient = client_
  /\ queue # <<>> => workerClient # null \/ gui = "gone"

(* The panel deletes clients under the worker (83, 92, 97), and only calls *)
(* it had posted before can be hit: a call posted since runs on the client *)
(* it was meant for, from its start to its end.                            *)
OnlyOverdueCallsAreOrphans ==
  worker \in OnClient /\ call.unit # NoUnit => ~orphan /\ workerClient = client_

(* The unit id is set on the client when a call is posted and looked at    *)
(* when it runs, so a call may go to the unit of a later one; the last     *)
(* call posted goes to its own.  (connection_panel.cpp:110, 118, 130.)     *)
LastCallHasItsUnit ==
  /\ worker \in {"reopen", "transact"} /\ call.unit # NoUnit
  /\ queue = <<>> /\ gui # "queueing"
  => unitId_ = call.unit

Damaged == crashed \/ worker = "stuck"

(* The GUI thread waits for connect() and for the mutex of a client whose  *)
(* worker may be in a call of seconds: for no longer than the calls that   *)
(* were posted, since a thread that waits posts no more.                   *)
PanelComesBack == gui \in Handling ~> gui \in {"loop", "left", "gone"} \/ crashed

(* A panel that is closed goes away, whatever the worker is doing, unless  *)
(* a deleted client blocked it.  (modbus_gui.cpp:68-79, ~ConnectionPanel.) *)
ClosedPanelGoes == gui = "left" ~> gui = "gone" \/ Damaged

Watched == polling_ /\ client_ # null /\ ~Damaged

(* Polling shows the state of the link.  When the device answers again,    *)
(* the panel reconnects, shows that it is connected and goes on showing    *)
(* it, whatever was posted before; when it is out of reach for good, the   *)
(* panel stops showing "Connected", although a failed write sets it (33,   *)
(* 134).  Nothing is claimed of a device that takes connections and never  *)
(* answers: each call opens the link again, so that the user may write and *)
(* each failed write sets "Connected".                                     *)
(* (connection_panel.cpp:130, 132; client.cpp:61-79.)                      *)
PollingShowsTheLink ==
  /\ <>[](Watched /\ device = "answers") => <>[](connected /\ statusLbl_ = "Connected")
  /\ <>[](Watched /\ device = "unreachable") => <>[](statusLbl_ # "Connected")

-----------------------------------------------------------------------------
(* The strengthening that makes the invariants above inductive.            *)
PlacesFit ==
  /\ gui \in {"connecting", "locking", "queueing"} => client_ # null
  /\ gui \in {"left", "joining", "gone"} => client_ = null
  /\ worker \in OnClient \cup {"emit"} => call # NoCall
  /\ worker \in {"idle", "ended"} => call = NoCall

(* A call posted for the client that the panel has, if it has one.         *)
Valid(c) == c # NoCall /\ c.unit # NoUnit

CallsFit ==
  /\ gui \in {"locking", "queueing"} => Valid(next)
  /\ \A i \in 1 .. Len(queue) : Valid(queue[i]) => client_ # null /\ gui # "connecting"
  /\ Valid(call) => client_ # null /\ gui # "connecting"

(* The last call posted is the one the unit id was set for.                *)
UnitsFit ==
  /\ gui = "queueing" => next.unit = unitId_
  /\ gui # "queueing" =>
       LET last == IF queue = <<>> THEN call ELSE queue[Len(queue)]
       IN  Valid(last) => last.unit = unitId_

IInv ==
  /\ TypeOK /\ WorkerHasTheClient /\ OnlyOverdueCallsAreOrphans
  /\ PlacesFit /\ CallsFit /\ UnitsFit
=============================================================================
