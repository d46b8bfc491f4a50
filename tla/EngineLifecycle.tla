--------------------------- MODULE EngineLifecycle ---------------------------
(***************************************************************************)
(* The threads of the desktop engine around EnginePersistence: the         *)
(* subscription thread that reads the daemon's message stream, the thread  *)
(* that calls stop, and the operation thread that replaces the one and is  *)
(* joined by the other (room_engine.cpp: subscription_loop, reconnect_impl,*)
(* connect_impl, stop; veilknit.cpp: MessageSubscription).                 *)
(*                                                                         *)
(* A step here is a step of EnginePersistence with the state of the        *)
(* threads added, or a step of the threads alone, so its theorems hold of  *)
(* this module too (EngineProofs).                                         *)
(*                                                                         *)
(* On Linux MessageSubscription::close, called by another thread, closes   *)
(* the descriptor while recv sleeps on it: recv goes on sleeping until the *)
(* daemon sends something or ends the stream.                              *)
(***************************************************************************)
EXTENDS EnginePersistence

VARIABLES
  subscription,  \* subscription_: null, or the state of its stream
  listener,      \* subscription_thread_: where it is; "done" may be joined
  stage,         \* where reconnect_impl is, beyond what pc says
  reconnecting,  \* reconnecting_
  heartbeat,     \* heartbeat_thread_: "done" may be joined
  stopper,       \* where the thread that called stop is
  missed         \* history: a stream ended and reconnecting_ hid it

threads == <<subscription, listener, stage, reconnecting, heartbeat, stopper, missed>>
lifecycleVars == <<vars, threads>>

LifecycleTypeOK ==
  /\ TypeOK
  /\ subscription \in {"none", "open", "broken", "closed"}
  /\ listener \in {"none", "check", "next", "recv", "handle", "report", "enqueue", "done"}
  /\ stage \in {"", "join", "spawn", "sync"}
  /\ stage = "join" => pc = "close"
  /\ stage \in {"spawn", "sync"} => pc = "idle"
  /\ reconnecting \in BOOLEAN
  /\ heartbeat \in {"none", "running", "done"}
  /\ stopper \in {"off", "close", "holding", "dangling", "join", "joinListener",
                 "joinHeartbeat", "returned", "crashed"}
  /\ missed \in BOOLEAN

LifecycleInit ==
  /\ Init
  /\ subscription = "none"
  /\ listener = "none"
  /\ stage = ""
  /\ reconnecting = FALSE
  /\ heartbeat = "none"
  /\ stopper = "off"
  /\ missed = FALSE

-----------------------------------------------------------------------------
(* MessageSubscription::close.  A stream the daemon has ended stays so for *)
(* its reader, which returns from recv by itself.                          *)
Closing == IF subscription = "open" THEN "closed" ELSE subscription

(* The operation thread.  A slip: the stream is left open.                 *)
MarkReconnectOnly ==
  /\ pc = "close"
  /\ stage = ""
  /\ stage' = "join"
  /\ reconnecting' = TRUE
  /\ missed' = FALSE
  /\ UNCHANGED <<vars, subscription, listener, heartbeat, stopper>>

(* reconnect_impl first marks the reconnect and closes the stream, under   *)
(* the mutex.                                                              *)
MarkReconnect ==
  /\ pc = "close"
  /\ stage = ""
  /\ stage' = "join"
  /\ reconnecting' = TRUE
  /\ subscription' = Closing
  /\ missed' = FALSE
  /\ UNCHANGED <<vars, listener, heartbeat, stopper>>

(* A slip: the old thread is not joined.                                   *)
JoinAndDropUnjoined ==
  /\ stage = "join"
  /\ DropClient
  /\ stage' = ""
  /\ subscription' = "none"
  /\ stopper' = IF stopper = "holding" THEN "dangling" ELSE stopper
  /\ UNCHANGED <<listener, reconnecting, heartbeat, missed>>

(* Then it joins the subscription thread, and destroys the subscription    *)
(* stop may be about to close.                                             *)
JoinAndDrop ==
  /\ stage = "join"
  /\ listener \in {"none", "done"}
  /\ DropClient
  /\ stage' = ""
  /\ subscription' = "none"
  /\ listener' = "none"
  /\ stopper' = IF stopper = "holding" THEN "dangling" ELSE stopper
  /\ UNCHANGED <<reconnecting, heartbeat, missed>>

InstallSession ==
  /\ InstallRooms
  /\ subscription' = "open"
  /\ stage' = "spawn"
  /\ UNCHANGED <<listener, reconnecting, heartbeat, stopper, missed>>

(* The heartbeat thread is started once and outlives reconnects.           *)
SpawnListener ==
  /\ stage = "spawn"
  /\ listener' = "check"
  /\ heartbeat' = IF heartbeat = "none" THEN "running" ELSE heartbeat
  /\ stage' = "sync"
  /\ UNCHANGED <<vars, subscription, reconnecting, stopper, missed>>

(* The syncs and join requests of connect_impl catch what they throw.      *)
FinishConnect ==
  /\ stage = "sync"
  /\ stage' = ""
  /\ reconnecting' = FALSE
  /\ UNCHANGED <<vars, subscription, listener, heartbeat, stopper, missed>>

ConnectThrows ==
  /\ ConnectFails
  /\ reconnecting' = FALSE
  /\ UNCHANGED <<subscription, listener, stage, heartbeat, stopper, missed>>

(* A slip: the next operation is taken while connect_impl synchronizes.    *)
BetweenOperationsEarly ==
  /\ TakeOperation \/ Exit
  /\ UNCHANGED threads

(* The other steps of the operation thread, between two operations or      *)
(* inside one.                                                             *)
BetweenOperations ==
  /\ stage = ""
  /\ TakeOperation \/ Exit
  /\ UNCHANGED threads

InsideOperation ==
  /\ \/ PersistCopy \/ PersistDropped \/ PersistWrite \/ PersistFails \/ PersistCheck
     \/ ClearRooms \/ LoadRooms
  /\ UNCHANGED threads

-----------------------------------------------------------------------------
(* The subscription thread: stopping_ and the pointer are read under the   *)
(* mutex, next is called without it.                                       *)
ListenerChecks ==
  /\ listener = "check"
  /\ listener' = IF stopping \/ subscription = "none" THEN "done" ELSE "next"
  /\ UNCHANGED <<vars, subscription, stage, reconnecting, heartbeat, stopper, missed>>

(* next throws on a closed subscription; otherwise recv blocks.            *)
ListenerCallsNext ==
  /\ listener = "next"
  /\ listener' = IF subscription = "closed" THEN "report" ELSE "recv"
  /\ UNCHANGED <<vars, subscription, stage, reconnecting, heartbeat, stopper, missed>>

(* A message; handle_wire_message lets no exception out.                   *)
ListenerReceives ==
  /\ listener = "recv"
  /\ subscription = "open"
  /\ listener' = "handle"
  /\ UNCHANGED <<vars, subscription, stage, reconnecting, heartbeat, stopper, missed>>

(* A message next cannot parse, or of another protocol: it throws.         *)
ListenerThrows ==
  /\ listener = "recv"
  /\ subscription = "open"
  /\ listener' = "report"
  /\ UNCHANGED <<vars, subscription, stage, reconnecting, heartbeat, stopper, missed>>

ListenerHandles ==
  /\ listener = "handle"
  /\ listener' = "check"
  /\ UNCHANGED <<vars, subscription, stage, reconnecting, heartbeat, stopper, missed>>

(* The stream has ended.                                                   *)
ListenerSeesEnd ==
  /\ listener = "recv"
  /\ subscription = "broken"
  /\ listener' = "report"
  /\ UNCHANGED <<vars, subscription, stage, reconnecting, heartbeat, stopper, missed>>

(* The subscription thread sleeps in recv on a descriptor that was closed. *)
Asleep == listener = "recv" /\ subscription = "closed"

(* The daemon sends something on the closed stream: a whole message is     *)
(* still handled, otherwise the next recv fails.                           *)
ListenerSeesClose ==
  /\ Asleep
  /\ listener' \in {"handle", "report"}
  /\ UNCHANGED <<vars, subscription, stage, reconnecting, heartbeat, stopper, missed>>

(* A slip: the reconnect of a stream that ends is left to the user.        *)
ListenerReportsNothing ==
  /\ listener = "report"
  /\ listener' = "done"
  /\ missed' = (missed \/ (reconnecting /\ stage # "join"))
  /\ UNCHANGED <<vars, subscription, stage, reconnecting, heartbeat, stopper>>

(* The catch block: a reconnect already running is taken for the cause.    *)
ListenerReports ==
  /\ listener = "report"
  /\ listener' = IF stopping \/ reconnecting THEN "done" ELSE "enqueue"
  /\ missed' = (missed \/ (reconnecting /\ stage # "join"))
  /\ UNCHANGED <<vars, subscription, stage, reconnecting, heartbeat, stopper>>

(* enqueue drops the operation once the engine is stopping.                *)
ListenerEnqueues ==
  /\ listener = "enqueue"
  /\ IF stopping THEN UNCHANGED vars ELSE RequestReconnect
  /\ listener' = "done"
  /\ UNCHANGED <<subscription, stage, reconnecting, heartbeat, stopper, missed>>

StreamBreaks ==
  /\ subscription = "open"
  /\ subscription' = "broken"
  /\ UNCHANGED <<vars, listener, stage, reconnecting, heartbeat, stopper, missed>>

-----------------------------------------------------------------------------
(* stop: the flag under the mutex, then the pointer without it.            *)
CallStop ==
  /\ Stop
  /\ stopper' = "close"
  /\ UNCHANGED <<subscription, listener, stage, reconnecting, heartbeat, missed>>

StopReadsPointer ==
  /\ stopper = "close"
  /\ stopper' = IF subscription = "none" THEN "join" ELSE "holding"
  /\ UNCHANGED <<vars, subscription, listener, stage, reconnecting, heartbeat, missed>>

StopCloses ==
  /\ stopper = "holding"
  /\ subscription' = Closing
  /\ stopper' = "join"
  /\ UNCHANGED <<vars, listener, stage, reconnecting, heartbeat, missed>>

(* The subscription was destroyed after the pointer was read: close runs   *)
(* on freed memory.  What the process does after a crash does not matter.  *)
StopUsesDestroyed ==
  /\ stopper = "dangling"
  /\ stopper' \in {"join", "crashed"}
  /\ UNCHANGED <<vars, subscription, listener, stage, reconnecting, heartbeat, missed>>

StopJoinsOperations ==
  /\ stopper = "join"
  /\ pc = "exited"
  /\ stopper' = "joinListener"
  /\ UNCHANGED <<vars, subscription, listener, stage, reconnecting, heartbeat, missed>>

StopJoinsListener ==
  /\ stopper = "joinListener"
  /\ listener \in {"none", "done"}
  /\ stopper' = "joinHeartbeat"
  /\ UNCHANGED <<vars, subscription, listener, stage, reconnecting, heartbeat, missed>>

StopReturns ==
  /\ stopper = "joinHeartbeat"
  /\ heartbeat \in {"none", "done"}
  /\ stopper' = "returned"
  /\ UNCHANGED <<vars, subscription, listener, stage, reconnecting, heartbeat, missed>>

(* heartbeat_loop looks at stopping_ every second.                         *)
HeartbeatEnds ==
  /\ heartbeat = "running"
  /\ stopping
  /\ heartbeat' = "done"
  /\ UNCHANGED <<vars, subscription, listener, stage, reconnecting, stopper, missed>>

-----------------------------------------------------------------------------
(* The user leaves room in the bound for the listener's reconnect.         *)
UserReconnects ==
  /\ Len(SelectSeq(ops, LAMBDA o : o = "reconnect")) + 1 < MaxReconnects
  /\ RequestReconnect
  /\ UNCHANGED threads

RoomsChange == Change /\ UNCHANGED threads

DemoStarts == StartDemo /\ UNCHANGED threads

(* The daemon that is restarted for another account ends its streams.      *)
DaemonRestarts(p) ==
  /\ SwitchAccount(p)
  /\ subscription' = IF subscription = "none" THEN "none" ELSE "broken"
  /\ UNCHANGED <<listener, stage, reconnecting, heartbeat, stopper, missed>>

OperationSteps ==
  \/ BetweenOperations \/ InsideOperation
  \/ MarkReconnect \/ JoinAndDrop \/ InstallSession \/ SpawnListener \/ FinishConnect
  \/ ConnectThrows

ListenerSteps ==
  \/ ListenerChecks \/ ListenerCallsNext \/ ListenerHandles \/ ListenerSeesEnd
  \/ ListenerReports \/ ListenerEnqueues

StopSteps ==
  \/ StopReadsPointer \/ StopCloses \/ StopUsesDestroyed \/ StopJoinsOperations
  \/ StopJoinsListener \/ StopReturns

Finished == stopper \in {"returned", "crashed"} /\ UNCHANGED lifecycleVars

LifecycleNext ==
  \/ OperationSteps \/ ListenerSteps \/ StopSteps \/ HeartbeatEnds
  \/ ListenerReceives \/ ListenerThrows \/ ListenerSeesClose
  \/ StreamBreaks \/ UserReconnects \/ RoomsChange \/ DemoStarts \/ CallStop
  \/ \E p \in Profiles : DaemonRestarts(p)
  \/ Finished

LifecycleSpec == LifecycleInit /\ [][LifecycleNext]_lifecycleVars

(* Every thread keeps running, and a request to the daemon is answered or  *)
(* its socket closes.  Nothing is assumed of the daemon's stream: it may   *)
(* send nothing and never end, so ListenerReceives, ListenerThrows and     *)
(* ListenerSeesClose have no fairness.                                     *)
ThreadsRun ==
  /\ WF_lifecycleVars(OperationSteps)
  /\ WF_lifecycleVars(ListenerSteps)
  /\ WF_lifecycleVars(StopSteps)
  /\ WF_lifecycleVars(HeartbeatEnds)

FairLifecycle == LifecycleSpec /\ ThreadsRun

-----------------------------------------------------------------------------
(* connect_impl assigns subscription_thread_: a joinable thread there      *)
(* would end the process.                                                  *)
ThreadNotReplaced == stage = "spawn" => listener = "none"

(* The subscription the listener reads is not destroyed under it.          *)
ListenerHasSession ==
  listener \in {"next", "recv", "handle"} => subscription # "none"

(* Replacing the session, reconnect_impl and connect_impl leave the thread *)
(* that reads the old one nothing it could still touch.                    *)
ListenerIntact == ThreadNotReplaced /\ ListenerHasSession

ReconnectComing == pc = "close" \/ \E i \in DOMAIN ops : ops[i] = "reconnect"

(* While connected, the stream is being read, or a reconnect is on its     *)
(* way.  The exception is a stream that ends while connect_impl still      *)
(* runs: reconnecting_ hides it from the listener's catch block.           *)
ConnectedListens ==
  client # NoProfile /\ ~stopping /\ ~missed
    => \/ listener \notin {"none", "done"}
       \/ stage # ""
       \/ ReconnectComing

(* Nobody waits on everybody: reconnect_impl, joining the subscription     *)
(* thread, and stop, joining all of them, get through, whatever the order  *)
(* of their flags, closes and joins, or they wait for good on the one      *)
(* thread that the daemon must wake.  (A crash of stop, which              *)
(* StopUsesDestroyed allows, is not a wait.)                               *)
OnlyDaemonDelays ==
  /\ <>[](stage = "join") => <>[]Asleep
  /\ <>[](stopping /\ stopper \notin {"returned", "crashed"}) => <>[]Asleep

(* "`/reconnect` closes the current API connection and reconnects"         *)
(* (USER_GUIDE.md): reconnect_impl gets past the join of the subscription  *)
(* thread.  With a daemon that sends nothing after the close it does not.  *)
JoinEnds == stage = "join" ~> stage # "join"

(* stop closes a subscription that is still there.  Without the mutex it   *)
(* may close one that reconnect_impl has destroyed.                        *)
StopClosesItsOwn == stopper # "dangling"

=============================================================================
