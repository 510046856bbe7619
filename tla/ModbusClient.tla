---------------------------- MODULE ModbusClient ----------------------------
(***************************************************************************)
(* ModbusClient (include/modbuscpp/client.hpp, src/client.cpp) shared by   *)
(* several threads over one IModbusLink.                                   *)
(*                                                                         *)
(* A thread invokes a method, waits for mutex_, runs the method step by    *)
(* step and returns, which releases mutex_.  Every open() and transact()   *)
(* of the link is two steps, since it lasts up to a timeout: the call and  *)
(* its outcome.  connected() and isReconnecting() take no lock: they read  *)
(* linkOpen and reconnecting_ between any two steps.                       *)
(*                                                                         *)
(* The link is the contract of module Link.  The client's actions set      *)
(* linkCall without looking at it: that a call never meets another is what *)
(* the client has to guarantee, not something it can test.                 *)
(*                                                                         *)
(* sent, opens and addressed are history: how many transactions and open() *)
(* calls the current method has made, and with which unit and timeout.     *)
(***************************************************************************)
EXTENDS ClientOps, FiniteSetsExt

CONSTANTS
  Threads,          \* the threads that share the client
  NoThread,         \* mutex_ when nobody holds it
  Calls,            \* the method calls they make, see Setters and Operations
  Replies,          \* the response PDUs a device or a gateway may send
  UnitIds,          \* values of unitId_
  Timeouts,         \* values of timeout_
  RetryValues,      \* values of retries_, an int that setRetries() does not check
  Backoffs,         \* pairs of reconnectMinMs_ and reconnectMaxMs_
  KeepsOpen,        \* see Link
  MaxCalls          \* bound: method calls per thread

VARIABLES
  mutex_, unitId_, timeout_, retries_, autoReconnect_, intentionalDisconnect_,
  reconnectMs_,     \* the pair of reconnectMinMs_ and reconnectMaxMs_
  reconnecting_,
  linkOpen, linkCall, linkOutcome,
  pc, call,         \* where each thread is, and in which method call
  attempts, rcA, delay, reply, result,       \* locals of transactWithRetry
  sent, opens, addressed, calls

config   == <<unitId_, timeout_, retries_, autoReconnect_, reconnectMs_>>
flags    == <<intentionalDisconnect_, reconnecting_>>
linkVars == <<linkOpen, linkCall, linkOutcome>>
locals   == <<attempts, rcA, delay, reply, result>>
history  == <<sent, opens, addressed, calls>>
vars     == <<mutex_, config, flags, linkVars, pc, call, locals, history>>

L == INSTANCE Link

Setters == {"setUnitId", "setTimeout", "setRetries", "setAutoReconnect",
            "setReconnectBackoff"}
Operations == BitReads \cup RegisterReads \cup Writes

(* Where the thread that holds mutex_ can be, and where it is in a call of *)
(* the link.                                                               *)
Connecting == {"connecting"}
Reopening  == {"reopen", "backoff"}
Exchanging == {"send", "transact", "pause"}
Holding    == {"locked", "check", "return"} \cup Connecting \cup Reopening \cup Exchanging
Places     == {"idle", "wait"} \cup Holding

CallAt(place) == CASE place \in {"connecting", "reopen"} -> "open"
                   [] place = "transact" -> "transact"
                   [] OTHER -> "none"

NoCall    == [name |-> "none"]
NoReply   == Pdu(0, <<>>)
NoResult  == [category |-> "None", from |-> "nothing"]
Outcomes  == [category : Categories,
              from : {"nothing", "Build", "Open", "NotConnected", "ReconnectFailed",
                      "Exhausted", "Link", "Reply"}]
Outcome(category, from) == [category |-> category, from |-> from]

ASSUME ThreadAssumption == NoThread \notin Threads

(* A caller passes arguments of the types client.hpp declares. *)
ASSUME CallAssumption ==
  \A c \in Calls :
    /\ c.name \in {"connect", "disconnect"} \cup Setters \cup Operations
    /\ c.name = "setUnitId" => c.unitId \in UnitIds
    /\ c.name = "setTimeout" => c.timeout \in Timeouts
    /\ c.name = "setRetries" => c.retries \in RetryValues
    /\ c.name = "setAutoReconnect" => c.on \in BOOLEAN
    /\ c.name = "setReconnectBackoff" => c.backoff \in Backoffs

ASSUME ValueAssumption ==
  /\ RetryValues \subseteq Int
  /\ Backoffs \subseteq Nat \X Nat
  /\ \A resp \in Replies : resp.functionCode \in Byte /\ resp.data \in Seq(Byte)
  /\ MaxCalls \in Nat

-----------------------------------------------------------------------------
(* A new client, whose owner may have configured it before sharing it. *)
Init ==
  /\ mutex_ = NoThread
  /\ unitId_ \in UnitIds
  /\ timeout_ \in Timeouts
  /\ retries_ \in RetryValues
  /\ autoReconnect_ \in BOOLEAN
  /\ reconnectMs_ \in Backoffs
  /\ intentionalDisconnect_ = FALSE
  /\ reconnecting_ = FALSE
  /\ L!LinkInit
  /\ pc = [t \in Threads |-> "idle"]
  /\ call = [t \in Threads |-> NoCall]
  /\ attempts = [t \in Threads |-> 0]
  /\ rcA = [t \in Threads |-> 0]
  /\ delay = [t \in Threads |-> 0]
  /\ reply = [t \in Threads |-> NoReply]
  /\ result = [t \in Threads |-> NoResult]
  /\ sent = [t \in Threads |-> 0]
  /\ opens = [t \in Threads |-> 0]
  /\ addressed = [t \in Threads |-> {}]
  /\ calls = [t \in Threads |-> 0]

(* The unlocked readers. *)
connected      == linkOpen
isReconnecting == reconnecting_

-----------------------------------------------------------------------------
Goto(t, place) == pc' = [pc EXCEPT ![t] = place]

Finish(t, outcome) ==
  /\ result' = [result EXCEPT ![t] = outcome]
  /\ Goto(t, "return")

(* Calls into the link. *)
CallOpen(t) ==
  /\ linkCall' = "open"
  /\ opens' = [opens EXCEPT ![t] = @ + 1]
  /\ UNCHANGED <<linkOpen, linkOutcome>>

CallTransact(t) ==
  /\ linkCall' = "transact"
  /\ sent' = [sent EXCEPT ![t] = @ + 1]
  /\ addressed' = [addressed EXCEPT ![t] = @ \cup {<<unitId_, timeout_>>}]
  /\ UNCHANGED <<linkOpen, linkOutcome>>

CallClose ==
  /\ linkOpen' = FALSE
  /\ UNCHANGED <<linkCall, linkOutcome>>

Invoke(t) ==
  /\ pc[t] = "idle"
  /\ calls[t] < MaxCalls
  /\ \E c \in Calls : call' = [call EXCEPT ![t] = c]
  /\ calls' = [calls EXCEPT ![t] = @ + 1]
  /\ Goto(t, "wait")
  /\ UNCHANGED <<mutex_, config, flags, linkVars, locals, sent, opens, addressed>>

(* Mutant: a method that does not wait for the mutex. *)
Lock_NoWait(t) ==
  /\ pc[t] = "wait"
  /\ mutex_' = t
  /\ Goto(t, "locked")
  /\ UNCHANGED <<config, flags, linkVars, call, locals, history>>

(* lock_guard: acquired here, released by Return. *)
Lock(t) ==
  /\ pc[t] = "wait"
  /\ mutex_ = NoThread
  /\ mutex_' = t
  /\ Goto(t, "locked")
  /\ UNCHANGED <<config, flags, linkVars, call, locals, history>>

Connect(t) ==
  /\ pc[t] = "locked"
  /\ call[t].name = "connect"
  /\ intentionalDisconnect_' = FALSE
  /\ reconnecting_' = FALSE
  /\ CallOpen(t)
  /\ Goto(t, "connecting")
  /\ UNCHANGED <<mutex_, config, call, locals, sent, addressed, calls>>

Connected(t) ==
  /\ pc[t] = "connecting"
  /\ \E outcome \in {"None", "Transport"} :
       /\ L!EndOpen(outcome)
       /\ Finish(t, Outcome(outcome, "Open"))
  /\ UNCHANGED <<mutex_, config, flags, call, attempts, rcA, delay, reply, history>>

(* Mutant: disconnect() without its lock_guard. *)
Disconnect_Unlocked(t) ==
  /\ pc[t] = "wait"
  /\ call[t].name = "disconnect"
  /\ intentionalDisconnect_' = TRUE
  /\ reconnecting_' = FALSE
  /\ CallClose
  /\ Goto(t, "idle")
  /\ UNCHANGED <<mutex_, config, call, locals, history>>

Disconnect(t) ==
  /\ pc[t] = "locked"
  /\ call[t].name = "disconnect"
  /\ intentionalDisconnect_' = TRUE
  /\ reconnecting_' = FALSE
  /\ CallClose
  /\ Goto(t, "return")
  /\ UNCHANGED <<mutex_, config, call, locals, history>>

(* Mutant: setUnitId() without its lock_guard. *)
Set_Unlocked(t) ==
  /\ pc[t] = "wait"
  /\ call[t].name = "setUnitId"
  /\ unitId_' = call[t].unitId
  /\ Goto(t, "idle")
  /\ UNCHANGED <<mutex_, timeout_, retries_, autoReconnect_, reconnectMs_, flags,
                 linkVars, call, locals, history>>

Set(t) ==
  /\ pc[t] = "locked"
  /\ \/ /\ call[t].name = "setUnitId"
        /\ unitId_' = call[t].unitId
        /\ UNCHANGED <<timeout_, retries_, autoReconnect_, reconnectMs_>>
     \/ /\ call[t].name = "setTimeout"
        /\ timeout_' = call[t].timeout
        /\ UNCHANGED <<unitId_, retries_, autoReconnect_, reconnectMs_>>
     \/ /\ call[t].name = "setRetries"
        /\ retries_' = call[t].retries
        /\ UNCHANGED <<unitId_, timeout_, autoReconnect_, reconnectMs_>>
     \/ /\ call[t].name = "setAutoReconnect"
        /\ autoReconnect_' = call[t].on
        /\ UNCHANGED <<unitId_, timeout_, retries_, reconnectMs_>>
     \/ /\ call[t].name = "setReconnectBackoff"
        /\ reconnectMs_' = call[t].backoff
        /\ UNCHANGED <<unitId_, timeout_, retries_, autoReconnect_>>
  /\ Goto(t, "return")
  /\ UNCHANGED <<mutex_, flags, linkVars, call, locals, history>>

(* An operation builds its request; a bad one returns before the link. *)
Build(t) ==
  /\ pc[t] = "locked"
  /\ call[t].name \in Operations
  /\ LET built == build(call[t])
     IN  \/ /\ ~isOk(built)
            /\ Finish(t, Outcome(built.category, "Build"))
            /\ UNCHANGED attempts
         \/ /\ isOk(built)
            /\ attempts' = [attempts EXCEPT ![t] = 0]
            /\ Goto(t, "check")
            /\ UNCHANGED result
  /\ UNCHANGED <<mutex_, config, flags, linkVars, call, rcA, delay, reply, history>>

-----------------------------------------------------------------------------
(* Mutant: the loop ends one transaction too early. *)
Exhausted_OffByOne(t) ==
  /\ pc[t] = "check"
  /\ attempts[t] >= retries_
  /\ Finish(t, Outcome("Transport", "Exhausted"))
  /\ UNCHANGED <<mutex_, config, flags, linkVars, call, attempts, rcA, delay, reply, history>>

(* transactWithRetry: the head of its loop, in the order of the code. *)
Exhausted(t) ==
  /\ pc[t] = "check"
  /\ attempts[t] > retries_
  /\ Finish(t, Outcome("Transport", "Exhausted"))
  /\ UNCHANGED <<mutex_, config, flags, linkVars, call, attempts, rcA, delay, reply, history>>

NotConnected(t) ==
  /\ pc[t] = "check"
  /\ attempts[t] <= retries_
  /\ ~linkOpen
  /\ ~autoReconnect_ \/ intentionalDisconnect_
  /\ Finish(t, Outcome("Transport", "NotConnected"))
  /\ UNCHANGED <<mutex_, config, flags, linkVars, call, attempts, rcA, delay, reply, history>>

AlreadyOpen(t) ==
  /\ pc[t] = "check"
  /\ attempts[t] <= retries_
  /\ linkOpen
  /\ Goto(t, "send")
  /\ UNCHANGED <<mutex_, config, flags, linkVars, call, locals, history>>

(* Mutant: reopens after an intentional disconnect. *)
StartReopening_IgnoresIntent(t) ==
  /\ pc[t] = "check"
  /\ attempts[t] <= retries_
  /\ ~linkOpen
  /\ autoReconnect_
  /\ reconnecting_' = TRUE
  /\ delay' = [delay EXCEPT ![t] = reconnectMs_[1]]
  /\ rcA' = [rcA EXCEPT ![t] = 0]
  /\ CallOpen(t)
  /\ Goto(t, "reopen")
  /\ UNCHANGED <<mutex_, config, intentionalDisconnect_, call, attempts, reply, result,
                 sent, addressed, calls>>

(* The reopening loop starts; its first open() comes without a delay. *)
StartReopening(t) ==
  /\ pc[t] = "check"
  /\ attempts[t] <= retries_
  /\ ~linkOpen
  /\ autoReconnect_ /\ ~intentionalDisconnect_
  /\ reconnecting_' = TRUE
  /\ delay' = [delay EXCEPT ![t] = reconnectMs_[1]]
  /\ rcA' = [rcA EXCEPT ![t] = 0]
  /\ CallOpen(t)
  /\ Goto(t, "reopen")
  /\ UNCHANGED <<mutex_, config, intentionalDisconnect_, call, attempts, reply, result,
                 sent, addressed, calls>>

Reopened(t) ==
  /\ pc[t] = "reopen"
  /\ L!EndOpen("None")
  /\ reconnecting_' = FALSE
  /\ Goto(t, "send")
  /\ UNCHANGED <<mutex_, config, intentionalDisconnect_, call, locals, history>>

(* Mutant: one open() too many. *)
ReopenFailed_OffByOne(t) ==
  /\ pc[t] = "reopen"
  /\ L!EndOpen("Transport")
  /\ rcA' = [rcA EXCEPT ![t] = @ + 1]
  /\ IF rcA'[t] <= retries_ + 1
     THEN /\ Goto(t, "backoff")
          /\ UNCHANGED <<reconnecting_, result>>
     ELSE /\ reconnecting_' = FALSE
          /\ Finish(t, Outcome("Transport", "ReconnectFailed"))
  /\ UNCHANGED <<mutex_, config, intentionalDisconnect_, call, attempts, delay, reply,
                 history>>

(* Mutant: reconnecting_ is left set when the loop gives up. *)
ReopenFailed_StaysReconnecting(t) ==
  /\ pc[t] = "reopen"
  /\ L!EndOpen("Transport")
  /\ rcA' = [rcA EXCEPT ![t] = @ + 1]
  /\ IF rcA'[t] <= retries_
     THEN Goto(t, "backoff") /\ UNCHANGED result
     ELSE Finish(t, Outcome("Transport", "ReconnectFailed"))
  /\ UNCHANGED <<mutex_, config, flags, call, attempts, delay, reply, history>>

ReopenFailed(t) ==
  /\ pc[t] = "reopen"
  /\ L!EndOpen("Transport")
  /\ rcA' = [rcA EXCEPT ![t] = @ + 1]
  /\ IF rcA'[t] <= retries_
     THEN /\ Goto(t, "backoff")
          /\ UNCHANGED <<reconnecting_, result>>
     ELSE /\ reconnecting_' = FALSE
          /\ Finish(t, Outcome("Transport", "ReconnectFailed"))
  /\ UNCHANGED <<mutex_, config, intentionalDisconnect_, call, attempts, delay, reply,
                 history>>

(* Mutant: the delay doubles without a limit. *)
Backoff_Unlimited(t) ==
  /\ pc[t] = "backoff"
  /\ delay' = [delay EXCEPT ![t] = 2 * @]
  /\ CallOpen(t)
  /\ Goto(t, "reopen")
  /\ UNCHANGED <<mutex_, config, flags, call, attempts, rcA, reply, result, sent,
                 addressed, calls>>

(* sleep_for(delay), after which the delay doubles up to the maximum. *)
Backoff(t) ==
  /\ pc[t] = "backoff"
  /\ delay' = [delay EXCEPT ![t] = Min({2 * @, reconnectMs_[2]})]
  /\ CallOpen(t)
  /\ Goto(t, "reopen")
  /\ UNCHANGED <<mutex_, config, flags, call, attempts, rcA, reply, result, sent,
                 addressed, calls>>

Send(t) ==
  /\ pc[t] = "send"
  /\ CallTransact(t)
  /\ Goto(t, "transact")
  /\ UNCHANGED <<mutex_, config, flags, call, locals, opens, calls>>

(* An answer, whatever it says, ends the operation: it is an exception or  *)
(* parsed, and never retried.                                              *)
Answered(t) ==
  /\ pc[t] = "transact"
  /\ L!EndTransact("None")
  /\ \E resp \in Replies :
       /\ reply' = [reply EXCEPT ![t] = resp]
       /\ Finish(t, Outcome(finish(call[t], build(call[t]).value, resp).category, "Reply"))
  /\ UNCHANGED <<mutex_, config, flags, call, attempts, rcA, delay, history>>

(* Mutant: a Protocol error is retried like a Transport error. *)
Malformed_Retried(t) ==
  /\ pc[t] = "transact"
  /\ L!EndTransact("Protocol")
  /\ attempts' = [attempts EXCEPT ![t] = @ + 1]
  /\ Goto(t, "check")
  /\ UNCHANGED <<mutex_, config, flags, call, rcA, delay, reply, result, history>>

Malformed(t) ==
  /\ pc[t] = "transact"
  /\ L!EndTransact("Protocol")
  /\ Finish(t, Outcome("Protocol", "Link"))
  /\ UNCHANGED <<mutex_, config, flags, call, attempts, rcA, delay, reply, history>>

(* Mutant: attempts counts the wrong way. *)
Failed_CountsDown(t) ==
  /\ pc[t] = "transact"
  /\ L!EndTransact("Transport")
  /\ attempts' = [attempts EXCEPT ![t] = @ - 1]
  /\ Goto(t, "check")
  /\ UNCHANGED <<mutex_, config, flags, call, rcA, delay, reply, result, history>>

(* Only a Transport error is retried, after 10 ms unless it was the last. *)
Failed(t) ==
  /\ pc[t] = "transact"
  /\ L!EndTransact("Transport")
  /\ attempts' = [attempts EXCEPT ![t] = @ + 1]
  /\ Goto(t, IF attempts'[t] <= retries_ THEN "pause" ELSE "check")
  /\ UNCHANGED <<mutex_, config, flags, call, rcA, delay, reply, result, history>>

Pause(t) ==
  /\ pc[t] = "pause"
  /\ Goto(t, "check")
  /\ UNCHANGED <<mutex_, config, flags, linkVars, call, locals, history>>

(* Mutant: a mutex unlocked by hand is forgotten when the request could    *)
(* not be built.                                                           *)
Return_KeepsMutex(t) ==
  /\ pc[t] = "return"
  /\ mutex_' = IF result[t].from = "Build" THEN mutex_ ELSE NoThread
  /\ Goto(t, "idle")
  /\ call' = [call EXCEPT ![t] = NoCall]
  /\ attempts' = [attempts EXCEPT ![t] = 0]
  /\ rcA' = [rcA EXCEPT ![t] = 0]
  /\ delay' = [delay EXCEPT ![t] = 0]
  /\ reply' = [reply EXCEPT ![t] = NoReply]
  /\ result' = [result EXCEPT ![t] = NoResult]
  /\ sent' = [sent EXCEPT ![t] = 0]
  /\ opens' = [opens EXCEPT ![t] = 0]
  /\ addressed' = [addressed EXCEPT ![t] = {}]
  /\ UNCHANGED <<config, flags, linkVars, calls>>

(* The method returns its result and the lock_guard releases mutex_. *)
Return(t) ==
  /\ pc[t] = "return"
  /\ mutex_' = NoThread
  /\ Goto(t, "idle")
  /\ call' = [call EXCEPT ![t] = NoCall]
  /\ attempts' = [attempts EXCEPT ![t] = 0]
  /\ rcA' = [rcA EXCEPT ![t] = 0]
  /\ delay' = [delay EXCEPT ![t] = 0]
  /\ reply' = [reply EXCEPT ![t] = NoReply]
  /\ result' = [result EXCEPT ![t] = NoResult]
  /\ sent' = [sent EXCEPT ![t] = 0]
  /\ opens' = [opens EXCEPT ![t] = 0]
  /\ addressed' = [addressed EXCEPT ![t] = {}]
  /\ UNCHANGED <<config, flags, linkVars, calls>>

(* What the thread that holds mutex_ does next. *)
Work(t) ==
  \/ Connect(t) \/ Connected(t) \/ Disconnect(t) \/ Set(t) \/ Build(t)
  \/ Exhausted(t) \/ NotConnected(t) \/ AlreadyOpen(t)
  \/ StartReopening(t) \/ Reopened(t) \/ ReopenFailed(t) \/ Backoff(t)
  \/ Send(t) \/ Answered(t) \/ Malformed(t) \/ Failed(t) \/ Pause(t)
  \/ Return(t)

(* The link works on an open(): connected() may see it open or closed. *)
OpenProceeds ==
  /\ L!OpenProceeds
  /\ UNCHANGED <<mutex_, config, flags, pc, call, locals, history>>

(* Every thread has made its calls: nothing is left to do. *)
Done ==
  /\ \A t \in Threads : pc[t] = "idle" /\ calls[t] = MaxCalls
  /\ UNCHANGED vars

Next == (\E t \in Threads : Invoke(t) \/ Lock(t) \/ Work(t)) \/ OpenProceeds \/ Done

Safety == Init /\ [][Next]_vars

(* The holder runs, sleeps end and link calls end with a timeout at the    *)
(* latest.  std::mutex promises a waiter nothing but that some waiter gets *)
(* it: with MaxCalls calls per thread that is enough for all.              *)
Spec ==
  /\ Safety
  /\ \A t \in Threads : WF_vars(Work(t))
  /\ WF_vars(\E t \in Threads : Lock(t))

-----------------------------------------------------------------------------
TypeOK ==
  /\ mutex_ \in Threads \cup {NoThread}
  /\ unitId_ \in UnitIds
  /\ timeout_ \in Timeouts
  /\ retries_ \in RetryValues
  /\ autoReconnect_ \in BOOLEAN
  /\ reconnectMs_ \in Backoffs
  /\ intentionalDisconnect_ \in BOOLEAN
  /\ reconnecting_ \in BOOLEAN
  /\ L!LinkTypeOK
  /\ pc \in [Threads -> Places]
  /\ call \in [Threads -> Calls \cup {NoCall}]
  /\ attempts \in [Threads -> Nat]
  /\ rcA \in [Threads -> Nat]
  /\ delay \in [Threads -> Nat]
  /\ reply \in [Threads -> Replies \cup {NoReply}]
  /\ result \in [Threads -> Outcomes]
  /\ sent \in [Threads -> Nat]
  /\ opens \in [Threads -> Nat]
  /\ addressed \in [Threads -> SUBSET (UnitIds \X Timeouts)]
  /\ calls \in [Threads -> Nat]

(* The mutex covers the link: a thread is past the lock exactly while it   *)
(* holds mutex_, and the call in progress in the link is the one the       *)
(* holder is waiting for.  (lock_guard in every method of client.cpp.)     *)
MutexCoversTheLink ==
  /\ \A t \in Threads : pc[t] \in Holding <=> mutex_ = t
  /\ linkCall = IF mutex_ = NoThread THEN "none" ELSE CallAt(pc[mutex_])

(* The threads together use the link as one sequential caller would: no    *)
(* open(), close() or transact() meets a call in progress.  (link.hpp has  *)
(* no locking of its own; client.cpp:10-167.)                              *)
UsesTheLinkSequentially == L!LinkSafety

(* After disconnect() and until the next connect() the link stays closed,  *)
(* no thread opens it or sends anything, and every operation fails; an     *)
(* operation that was waiting for the mutex does not reopen the link.      *)
(* (client.cpp:16-21 and 62.)                                              *)
IntentionalDisconnectSticks ==
  intentionalDisconnect_ =>
    /\ ~linkOpen /\ linkCall = "none"
    /\ \A t \in Threads :
         /\ sent[t] = 0 /\ opens[t] = 0
         /\ pc[t] = "return" /\ call[t].name \in Operations => result[t].category # "None"

(* isReconnecting() tells the truth to a thread that holds no lock: it is  *)
(* true while some operation is in its reopening loop and at no other      *)
(* time, whatever way the loop was left.  (client.cpp:65, 75.)             *)
ReconnectingIsVisible ==
  reconnecting_ <=> \E t \in Threads : pc[t] \in Reopening

Budget == IF retries_ >= 0 THEN retries_ + 1 ELSE 0

(* An operation runs at most retries_ + 1 transactions and none when       *)
(* retries_ is negative; every one of them may be preceded by a reopening  *)
(* loop of retries_ + 1 attempts, so that a call opens the link up to      *)
(* (retries_ + 1) squared times.  (client.cpp:60, 68.)                     *)
RetryBudget ==
  \A t \in Threads : pc[t] \in Holding /\ call[t].name \in Operations =>
    sent[t] <= Budget /\ opens[t] <= Budget * Budget

(* Only a Transport error is retried: when a call goes round its loop      *)
(* again, its last transaction ended with one, and so did all before it;   *)
(* a request the device has answered, or whose answer was malformed, is    *)
(* never sent again.  (client.cpp:82-84.)                                  *)
OnlyTransportErrorsAreRetried ==
  \A t \in Threads : sent[t] > 0 =>
    /\ pc[t] \in {"pause", "check"} => linkOutcome = "Transport"
    /\ sent[t] = attempts[t] \/ pc[t] \in {"transact", "return"}

(* What the caller is told fits what the call did: see each verdict of     *)
(* transactWithRetry (client.cpp:63, 77, 87) and of the operations.        *)
VerdictExplained ==
  \A t \in Threads : pc[t] = "return" /\ call[t].name \in Operations =>
    CASE result[t].from = "Build" ->
           result[t].category = "Usage" /\ sent[t] = 0 /\ opens[t] = 0
      [] result[t].from = "NotConnected" ->
           /\ ~linkOpen /\ sent[t] < Budget
           /\ ~autoReconnect_ \/ intentionalDisconnect_
      [] result[t].from = "ReconnectFailed" ->
           /\ ~linkOpen /\ sent[t] < Budget
           /\ rcA[t] = Budget /\ opens[t] >= Budget
      [] result[t].from = "Exhausted" -> sent[t] = Budget
      [] result[t].from = "Link"      -> sent[t] \in 1 .. Budget
      [] result[t].from = "Reply"     ->
           /\ sent[t] \in 1 .. Budget
           /\ linkOpen /\ linkOutcome = "None"
           /\ isExceptionResponse(reply[t]) => result[t].category \in {"Device", "Protocol"}
      [] OTHER -> FALSE

(* One call addresses one unit with one timeout in all its transactions:   *)
(* the settings in force when it got the mutex, even if another thread     *)
(* called setUnitId() or setTimeout() meanwhile.  (client.cpp:81, 32, 37.) *)
SettingsHoldThroughACall ==
  \A t \in Threads : addressed[t] \subseteq {<<unitId_, timeout_>>}

(* The delay after it has doubled k times: cut off at the maximum from the  *)
(* first doubling on.                                                      *)
Doubled(k) == IF k = 0 THEN reconnectMs_[1]
              ELSE Min({reconnectMs_[1] * 2 ^ k, reconnectMs_[2]})

(* Before the k-th repetition of open() the caller sleeps the minimum      *)
(* doubled k - 1 times, cut off at the maximum from the second on; the     *)
(* first sleep is the minimum even if it exceeds the maximum.              *)
(* (client.cpp:66-72.)                                                     *)
BackoffGrowsToTheMaximum ==
  \A t \in Threads : pc[t] = "backoff" => delay[t] = Doubled(rcA[t] - 1)

(* Every method call returns, however the calls of the others interleave:  *)
(* nobody keeps the mutex for ever, retries, sleeps and reopening loops    *)
(* included.  (client.cpp:58-88.)                                          *)
MethodsReturn == \A t \in Threads : pc[t] = "wait" ~> pc[t] = "idle"

-----------------------------------------------------------------------------
(* The strengthening that makes the invariants above inductive.            *)
Fresh   == {"idle", "wait", "locked"}
Running == {"check"} \cup Reopening \cup Exchanging

(* The place of a thread says which kind of method it is in. *)
PlaceFitsTheCall ==
  \A t \in Threads :
    /\ pc[t] \in Running => call[t].name \in Operations
    /\ pc[t] \in Connecting => call[t].name = "connect"

(* attempts counts the transactions that are over, and opens stays within  *)
(* a reopening loop for each of them and for the one to come.              *)
CountsAgreeFor(t) ==
  /\ pc[t] \in Fresh => sent[t] = 0 /\ opens[t] = 0
  /\ pc[t] \in Running \ {"transact"} => sent[t] = attempts[t]
  /\ pc[t] = "transact" => sent[t] = attempts[t] + 1
  /\ pc[t] = "check" => attempts[t] <= Budget
  /\ pc[t] \in Running \ {"check"} => attempts[t] <= retries_
  /\ pc[t] \in {"check", "pause"} => opens[t] <= attempts[t] * Budget
  /\ pc[t] = "reopen" => /\ rcA[t] <= retries_
                         /\ opens[t] <= attempts[t] * Budget + rcA[t] + 1
  /\ pc[t] = "backoff" => /\ rcA[t] <= retries_
                          /\ opens[t] <= attempts[t] * Budget + rcA[t]
  /\ pc[t] \in {"send", "transact"} => opens[t] <= attempts[t] * Budget + Budget
  /\ pc[t] = "return" /\ call[t].name \in Operations =>
       sent[t] <= Budget /\ opens[t] <= Budget * Budget

CountsAgree == \A t \in Threads : CountsAgreeFor(t)

(* While intentionalDisconnect_ is set nobody is on the way to the link.   *)
QuietFor(t) ==
  /\ pc[t] \in Fresh \cup {"check", "return"}
  /\ sent[t] = 0 /\ opens[t] = 0
  /\ pc[t] = "return" /\ call[t].name \in Operations => result[t].category # "None"

DisconnectedIsQuiet ==
  intentionalDisconnect_ => ~linkOpen /\ \A t \in Threads : QuietFor(t)

(* How far a thread has got, in the terms its verdict is given in: before  *)
(* its first transaction nothing was sent to anyone, it comes round its    *)
(* loop again after a Transport error only, and its reopening loop counts  *)
(* open() calls.                                                           *)
ProgressFor(t) ==
  /\ pc[t] \in Fresh => addressed[t] = {}
  /\ pc[t] \in Connecting => sent[t] = 0
  /\ pc[t] \in {"pause", "check"} /\ sent[t] > 0 => linkOutcome = "Transport"
  /\ pc[t] = "reopen" => rcA[t] < opens[t]
  /\ pc[t] = "backoff" => rcA[t] <= opens[t]

CallsProgress == \A t \in Threads : ProgressFor(t)

(* In a reopening loop rcA counts the doublings of delay, but for the one   *)
(* that comes after the next sleep.                                        *)
DelayAgreesFor(t) ==
  /\ pc[t] = "reopen" => delay[t] = Doubled(rcA[t])
  /\ pc[t] = "backoff" => rcA[t] > 0 /\ delay[t] = Doubled(rcA[t] - 1)

DelaysAgree == \A t \in Threads : DelayAgreesFor(t)

CallInv == CallsProgress /\ SettingsHoldThroughACall /\ VerdictExplained

IInv ==
  /\ TypeOK
  /\ PlaceFitsTheCall
  /\ MutexCoversTheLink
  /\ CountsAgree
  /\ DisconnectedIsQuiet
  /\ ReconnectingIsVisible
=============================================================================
