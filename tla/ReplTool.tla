------------------------------ MODULE ReplTool ------------------------------
(***************************************************************************)
(* tools/modbus_tool.cpp: the command line tool.  The main thread reads    *)
(* one command at a time; "poll" starts a thread that reads the device     *)
(* until a flag is cleared.  Both use one ModbusClient, which the main     *)
(* thread replaces when the user connects again.                           *)
(*                                                                         *)
(* A method of the client is reduced to what the tool can see of it: it    *)
(* holds the client's mutex, and while it does the link may go down and    *)
(* come up again (the retry loop of ModbusClient.tla).  "tcp" and "rtu"    *)
(* are one command here, and so are "read" and "write"; a command with bad *)
(* arguments prints its usage and changes nothing.                         *)
(***************************************************************************)
EXTENDS Naturals

CONSTANT MaxCommands    \* bound on the commands the user types

ASSUME CommandsAssumption == MaxCommands \in Nat

VARIABLES pc,         \* where the main thread is
          cmd,        \* the command it works on
          client,     \* the client object, 0 for none; objects are numbered
          up,         \* the client's link is open
          polling,    \* the flag of the poll thread
          poller,     \* where the poll thread is; "none": not joinable
          using,      \* the object whose method the poll thread is in, or 0
          mutex,      \* who is inside the client: "free", "main" or "poller"
          typed       \* commands typed so far

vars == <<pc, cmd, client, up, polling, poller, using, mutex, typed>>

Commands == {"connect", "call", "poll", "stop", "quit", "eof"}

TypeOK ==
  /\ pc \in {"prompt", "joining", "connecting", "starting", "locking", "calling", "ended"}
  /\ cmd \in Commands \union {"none"}
  /\ client \in 0 .. MaxCommands /\ using \in 0 .. client
  /\ up \in BOOLEAN /\ polling \in BOOLEAN
  /\ poller \in {"none", "test", "locking", "calling", "sleeping", "returned"}
  /\ mutex \in {"free", "main", "poller"}
  /\ typed \in 0 .. MaxCommands

Init ==
  /\ pc = "prompt" /\ cmd = "none" /\ client = 0 /\ up = FALSE
  /\ polling = FALSE /\ poller = "none" /\ using = 0 /\ mutex = "free" /\ typed = 0

-----------------------------------------------------------------------------
(* The main thread                                                         *)

connected == client # 0 /\ up

(* The commands that are carried out whether or not the client is connected. *)
Always == {"connect", "quit", "eof"}

Type(c) ==
  /\ pc = "prompt"
  /\ IF c = "eof" THEN UNCHANGED typed ELSE typed < MaxCommands /\ typed' = typed + 1
  /\ cmd' = c

(* "Not connected. Use: ..." *)
Refuse(c) ==
  /\ Type(c) /\ c \notin Always /\ ~ connected
  /\ UNCHANGED <<pc, client, up, polling, poller, using, mutex>>

(* Mutant: the flag is left set. *)
StopPoller_FlagSet(c) ==
  /\ Type(c) /\ c # "call"
  /\ c \in Always \/ connected
  /\ pc' = "joining"
  /\ UNCHANGED <<polling, client, up, poller, using, mutex>>

(* Every command but a read or a write first asks the poll thread to end. *)
StopPoller(c) ==
  /\ Type(c) /\ c # "call"
  /\ c \in Always \/ connected
  /\ pc' = "joining" /\ polling' = FALSE
  /\ UNCHANGED <<client, up, poller, using, mutex>>

StartCall ==
  /\ Type("call") /\ connected
  /\ pc' = "locking"
  /\ UNCHANGED <<client, up, polling, poller, using, mutex>>

AfterJoin == [connect |-> "connecting", poll |-> "starting", stop |-> "prompt",
              quit |-> "ended", eof |-> "ended"]

(* Mutant: the thread is not waited for. *)
Join_NoWait ==
  /\ pc = "joining"
  /\ pc' = AfterJoin[cmd]
  /\ up' = (up /\ pc' # "ended")
  /\ UNCHANGED <<cmd, client, polling, poller, using, mutex, typed>>

(* if (pollThread.joinable()) pollThread.join(), at six places of main; at *)
(* its end the client is disconnected.                                     *)
Join ==
  /\ pc = "joining" /\ poller \in {"none", "returned"}
  /\ poller' = "none" /\ pc' = AfterJoin[cmd]
  /\ up' = (up /\ pc' # "ended")
  /\ UNCHANGED <<cmd, client, polling, using, mutex, typed>>

(* client = make_unique...; client->connect() *)
Connect ==
  /\ pc = "connecting"
  /\ client' = client + 1 /\ up' \in BOOLEAN /\ pc' = "prompt"
  /\ UNCHANGED <<cmd, polling, poller, using, mutex, typed>>

StartPoller ==
  /\ pc = "starting"
  /\ polling' = TRUE /\ poller' = "test" /\ pc' = "prompt"
  /\ UNCHANGED <<cmd, client, up, using, mutex, typed>>

Lock ==
  /\ pc = "locking" /\ mutex = "free"
  /\ mutex' = "main" /\ pc' = "calling"
  /\ UNCHANGED <<cmd, client, up, polling, poller, using, typed>>

Return ==
  /\ pc = "calling"
  /\ mutex' = "free" /\ pc' = "prompt"
  /\ UNCHANGED <<cmd, client, up, polling, poller, using, typed>>

-----------------------------------------------------------------------------
(* The poll thread: while (polling) { read; print; sleep }                 *)

Poll ==
  /\ poller = "test"
  /\ IF polling THEN poller' = "locking" /\ using' = client
                ELSE poller' = "returned" /\ UNCHANGED using
  /\ UNCHANGED <<pc, cmd, client, up, polling, mutex, typed>>

PollLock ==
  /\ poller = "locking" /\ mutex = "free"
  /\ mutex' = "poller" /\ poller' = "calling"
  /\ UNCHANGED <<pc, cmd, client, up, polling, using, typed>>

PollReturn ==
  /\ poller = "calling"
  /\ mutex' = "free" /\ poller' = "sleeping" /\ using' = 0
  /\ UNCHANGED <<pc, cmd, client, up, polling, typed>>

(* Mutant: the loop ends when the link is down. *)
Wake_WhileUp ==
  /\ poller = "sleeping"
  /\ poller' = IF up THEN "test" ELSE "returned"
  /\ UNCHANGED <<pc, cmd, client, up, polling, using, mutex, typed>>

(* The rest of the period, if there is any, has passed. *)
Wake ==
  /\ poller = "sleeping"
  /\ poller' = "test"
  /\ UNCHANGED <<pc, cmd, client, up, polling, using, mutex, typed>>

(* The method that is running closes the link after an error or opens it again. *)
LinkChanges ==
  /\ mutex # "free"
  /\ up' = ~ up
  /\ UNCHANGED <<pc, cmd, client, polling, poller, using, mutex, typed>>

Done == pc = "ended" /\ UNCHANGED vars

-----------------------------------------------------------------------------
Main == Join \/ Connect \/ StartPoller \/ Return

Poller == Poll \/ PollReturn \/ Wake

Next ==
  \/ \E c \in Commands : Refuse(c) \/ StopPoller(c)
  \/ StartCall \/ Lock \/ PollLock
  \/ Main \/ Poller
  \/ LinkChanges \/ Done

(* Threads run, methods return (ModbusClient.tla), and a free mutex that   *)
(* somebody wants is taken by somebody: std::mutex does not promise who.   *)
(* The user need not type anything.                                        *)
Fairness == WF_vars(Main) /\ WF_vars(Poller) /\ WF_vars(Lock \/ PollLock)

Spec == Init /\ [][Next]_vars /\ Fairness

-----------------------------------------------------------------------------
(* A poll thread has ended and been joined whenever its client is replaced *)
(* (modbus_tool.cpp:47, 60), another thread is assigned over it (111) or   *)
(* main returns (129): a std::thread that is still joinable then aborts    *)
(* the program, and a client still in use would be freed under the thread. *)
JoinedWhenItMatters == pc \in {"connecting", "starting", "ended"} => poller = "none"

(* The poll thread is never inside a client that has been replaced.        *)
(* (modbus_tool.cpp:113-116: the lambda keeps a reference to the pointer.) *)
PollsTheCurrentClient ==
  /\ using # 0 => using = client
  /\ mutex = "poller" => using # 0 /\ pc # "calling"

(* At the prompt the flag tells the truth: while it is set the thread      *)
(* keeps polling, through any failure of the link, and when it is cleared  *)
(* there is no thread.  (modbus_tool.cpp:41, 47, 60, 111-112, 125.)        *)
FlagTellsTheThread ==
  pc = "prompt" => (polling <=> poller # "none") /\ poller # "returned"

(* A command that has been accepted ends and the prompt comes back, or the *)
(* program ends; a read or a write does if nobody polls: a poll thread     *)
(* without pause may take the mutex every time.  (modbus_tool.cpp:33-131.) *)
CommandsEnd ==
  (pc # "prompt" /\ (cmd = "call" => ~ polling)) ~> pc \in {"prompt", "ended"}

(* modbus_tool.cpp:121 "Polling started. Type 'stop' to end." *)
StopEndsPolling == pc = "prompt" /\ cmd = "stop" => poller = "none"
=============================================================================
