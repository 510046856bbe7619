-------------------------- MODULE ReplTool_proofs --------------------------
(***************************************************************************)
(* The three safety invariants of ReplTool.tla hold for any number of      *)
(* commands.  None of them is inductive alone: that a joined thread stays  *)
(* away until "starting" needs the flag to be clear on the way there, and  *)
(* that the thread uses the current client needs that it is joined before  *)
(* the client is replaced.  IInv says both, place by place.                *)
(***************************************************************************)
EXTENDS ReplTool, TLAPS

(* The command the main thread works on at each place, and that an object  *)
(* is made only for a command that was typed.                              *)
CommandFits ==
  /\ pc = "joining" => cmd \in DOMAIN AfterJoin
  /\ pc = "connecting" => cmd = "connect"
  /\ client + (IF pc \in {"joining", "connecting"} /\ cmd = "connect" THEN 1 ELSE 0) <= typed

(* Who holds the mutex is inside a method. *)
MutexFits ==
  /\ mutex = "main" <=> pc = "calling"
  /\ mutex = "poller" <=> poller = "calling"

(* The flag and the thread, place by place. *)
FlagFits ==
  /\ pc \in {"joining", "connecting", "starting", "ended"} => ~ polling
  /\ pc \in {"prompt", "locking", "calling"} =>
       (polling <=> poller # "none") /\ poller # "returned"

(* The thread is in a method of the current client or in none. *)
ObjectFits ==
  /\ poller \in {"locking", "calling"} => using = client
  /\ poller \notin {"locking", "calling"} => using = 0
  /\ poller # "none" \/ pc = "starting" => client # 0
  /\ pc = "joining" /\ cmd = "poll" => client # 0

IInv ==
  /\ TypeOK
  /\ CommandFits
  /\ MutexFits
  /\ FlagFits
  /\ ObjectFits
  /\ JoinedWhenItMatters

-----------------------------------------------------------------------------
(* main starts without a client and without a thread. *)
LEMMA InitEstablishes == Init => IInv
<1> SUFFICES ASSUME Init PROVE IInv
  OBVIOUS
<1> USE CommandsAssumption DEF Init
<1>1. TypeOK
  <2>1. up \in BOOLEAN /\ polling \in BOOLEAN
    OBVIOUS
  <2>2. client \in 0 .. MaxCommands /\ using \in 0 .. client /\ typed \in 0 .. MaxCommands
    OBVIOUS
  <2> QED
    BY <2>1, <2>2 DEF TypeOK
<1>2. CommandFits
  BY DEF CommandFits
<1>3. MutexFits /\ FlagFits /\ ObjectFits /\ JoinedWhenItMatters
  BY DEF MutexFits, FlagFits, ObjectFits, JoinedWhenItMatters
<1> QED
  BY <1>1, <1>2, <1>3 DEF IInv

(* Each step of the main thread and of the poll thread preserves IInv. *)
LEMMA StepPreserves == IInv /\ [Next]_vars => IInv'
<1> SUFFICES ASSUME IInv, [Next]_vars PROVE IInv'
  OBVIOUS
<1> USE CommandsAssumption
     DEF IInv, TypeOK, CommandFits, MutexFits, FlagFits, ObjectFits, JoinedWhenItMatters,
         AfterJoin, Commands
<1>1. ASSUME NEW c \in Commands, Refuse(c) PROVE IInv'
  BY <1>1 DEF Refuse, Type, Always, connected
<1>2. ASSUME NEW c \in Commands, StopPoller(c) PROVE IInv'
  <2>1. c \in {"connect", "poll", "stop", "quit", "eof"}
    BY <1>2 DEF StopPoller, Type
  <2>2. c = "eof" => typed' = typed
    BY <1>2 DEF StopPoller, Type
  <2>3. c # "eof" => typed < MaxCommands /\ typed' = typed + 1
    BY <1>2 DEF StopPoller, Type
  <2>4. /\ pc = "prompt" /\ pc' = "joining" /\ cmd' = c /\ polling' = FALSE
        /\ c \in {"connect", "quit", "eof"} \/ client # 0
        /\ UNCHANGED <<client, up, poller, using, mutex>>
    BY <1>2 DEF StopPoller, Type, Always, connected
  <2>5. TypeOK'
    <3>1. up' \in BOOLEAN /\ polling' \in BOOLEAN
      BY <2>4
    <3>2. typed' \in 0 .. MaxCommands
      BY <2>2, <2>3
    <3>3. client' \in 0 .. MaxCommands /\ using' \in 0 .. client'
      BY <2>4
    <3> QED
      BY <2>1, <2>4, <3>1, <3>2, <3>3
  <2>6. CommandFits'
    BY <2>1, <2>2, <2>3, <2>4
  <2>7. MutexFits' /\ FlagFits' /\ ObjectFits' /\ JoinedWhenItMatters'
    BY <2>1, <2>4
  <2> QED
    BY <2>5, <2>6, <2>7
<1>3. CASE StartCall
  BY <1>3 DEF StartCall, Type, connected
<1>4. CASE Lock
  BY <1>4 DEF Lock
<1>5. CASE PollLock
  BY <1>5 DEF PollLock
<1>6. CASE Join
  <2>1. cmd \in DOMAIN AfterJoin /\ pc' = AfterJoin[cmd] /\ ~ polling
    BY <1>6 DEF Join
  <2>2. cmd = "connect" /\ pc' = "connecting" => IInv'
    BY <1>6 DEF Join
  <2>3. cmd = "poll" /\ pc' = "starting" => IInv'
    BY <1>6 DEF Join
  <2>4. cmd = "stop" /\ pc' = "prompt" => IInv'
    BY <1>6 DEF Join
  <2>5. cmd \in {"quit", "eof"} /\ pc' = "ended" => IInv'
    BY <1>6 DEF Join
  <2> QED
    BY <2>1, <2>2, <2>3, <2>4, <2>5
<1>7. CASE Connect
  BY <1>7 DEF Connect
<1>8. CASE StartPoller
  BY <1>8 DEF StartPoller
<1>9. CASE Return
  BY <1>9 DEF Return
<1>10. CASE Poll
  BY <1>10 DEF Poll
<1>11. CASE PollReturn
  BY <1>11 DEF PollReturn
<1>12. CASE Wake
  BY <1>12 DEF Wake
<1>13. CASE LinkChanges
  BY <1>13 DEF LinkChanges
<1>14. CASE UNCHANGED vars
  BY <1>14 DEF vars
<1> QED
  BY <1>1, <1>2, <1>3, <1>4, <1>5, <1>6, <1>7, <1>8, <1>9, <1>10, <1>11, <1>12, <1>13, <1>14
     DEF Next, Main, Poller, Done

(* IInv is an invariant of the tool. *)
LEMMA Invariance == Spec => []IInv
  BY InitEstablishes, StepPreserves, PTL DEF Spec

-----------------------------------------------------------------------------
(* No thread is assigned over a joinable one, no client replaced under a   *)
(* running thread and main never returns with one.  (modbus_tool.cpp:47,   *)
(* 60, 111, 129.)                                                          *)
THEOREM ThreadIsJoined == Spec => []JoinedWhenItMatters
<1>1. IInv => JoinedWhenItMatters
  BY DEF IInv
<1> QED
  BY <1>1, Invariance, PTL

(* The poll thread is only ever inside the current client.                 *)
(* (modbus_tool.cpp:113-116.)                                              *)
THEOREM CurrentClientIsPolled == Spec => []PollsTheCurrentClient
<1>1. IInv => PollsTheCurrentClient
  BY DEF IInv, ObjectFits, MutexFits, PollsTheCurrentClient
<1> QED
  BY <1>1, Invariance, PTL

(* At the prompt the polling flag is set exactly while a poll thread runs. *)
(* (modbus_tool.cpp:111-112, 125.)                                         *)
THEOREM FlagIsTrue == Spec => []FlagTellsTheThread
<1>1. IInv => FlagTellsTheThread
  BY DEF IInv, FlagFits, FlagTellsTheThread
<1> QED
  BY <1>1, Invariance, PTL

(* Every variable keeps its type.  (modbus_tool.cpp:26-29.) *)
THEOREM TypeCorrectness == Spec => []TypeOK
<1>1. IInv => TypeOK
  BY DEF IInv
<1> QED
  BY <1>1, Invariance, PTL
=============================================================================
