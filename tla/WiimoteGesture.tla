--------------------------- MODULE WiimoteGesture ----------------------------
(***************************************************************************)
(* The WiimoteGesture plugin (impl_plugin/WiimoteGesture): OnSecondChange   *)
(* on the host's thread opens the device and starts a thread, the thread    *)
(* reads it and tells the ghosts by send_sstp, and goes when the device     *)
(* fails or unload says so.                                                 *)
(*                                                                          *)
(* The windows of the ghosts belong to the host's thread.  While that       *)
(* thread is inside the plugin no window answers, and each SendMessage-     *)
(* Timeout takes its whole second; time is counted in these seconds.        *)
(* thread_lock is not modelled: only ThreadProc takes it.                   *)
(***************************************************************************)
EXTENDS PluginSstp

CONSTANTS JoinLimit,    \* 5: seconds unload waits for the thread
          MaxLoads      \* bound: objects, one after the other

ASSUME WiimoteAssumption == JoinLimit \in Nat /\ MaxLoads \in Nat

VARIABLES host,            \* where the host's thread is
          event,           \* the GhostEvent it is in
          waited,          \* seconds it has waited in unload
          detaching,       \* does unload run in DllMain, with the loader lock held?
          loads,           \* objects so far
          timer_count,
          thread_active,
          thread_running,
          thread_handle,   \* 0 is NULL
          worker,          \* worker[t]: where thread t is
          sends            \* sends[t]: calls of send_sstp before it in this round

hosting == <<host, event, waited, detaching, loads>>
flags   == <<timer_count, thread_active, thread_running, thread_handle>>
vars    == <<hosting, flags, worker, sends, sstp>>

NULL     == 0
HostPc   == {"none", "idle", "list", "reap", "timer", "join"}
WorkerPc == {"none", "loop", "body", "send", "close", "end", "ended", "killed"}
Alive    == {"loop", "body", "send", "close", "end"}

NoEvent == [ghost |-> "none", runs |-> FALSE]

Init ==
  /\ host = "none" /\ event = NoEvent /\ waited = 0 /\ detaching = FALSE /\ loads = 0
  /\ timer_count = 255 /\ thread_active = TRUE /\ thread_running = FALSE
  /\ thread_handle = NULL
  /\ worker = [t \in Threads |-> "none"] /\ sends = [t \in Threads |-> 0]
  /\ SstpInit

-----------------------------------------------------------------------------
(* The host's thread. *)

\* A new object, and its load.
load ==
  /\ host = "none" /\ loads < MaxLoads
  /\ host' = "idle" /\ loads' = loads + 1
  /\ timer_count' = 255 /\ thread_active' = TRUE /\ thread_running' = FALSE
  /\ thread_handle' = NULL
  /\ SstpNew
  /\ UNCHANGED <<event, waited, detaching, worker, sends>>

\* An event about a ghost: exec_before wants the lock.
OnGhost(e) ==
  /\ host = "idle"
  /\ host' = "list" /\ event' = e
  /\ UNCHANGED <<waited, detaching, loads, flags, worker, sends, sstp>>

OnGhostListed ==
  /\ host = "list" /\ ListGhost(event)
  /\ host' = "idle" /\ event' = NoEvent
  /\ UNCHANGED <<waited, detaching, loads, flags, worker, sends>>

\* A bug for a mutant: the old thread is not waited for.
OnSecondChangeUnreaped ==
  /\ host = "idle" /\ ~thread_running
  /\ host' = "timer"
  /\ UNCHANGED <<event, waited, detaching, loads, flags, worker, sends, sstp>>

OnSecondChange ==
  /\ host = "idle" /\ ~thread_running
  /\ host' = IF thread_handle = NULL THEN "timer" ELSE "reap"
  /\ UNCHANGED <<event, waited, detaching, loads, flags, worker, sends, sstp>>

\* The old thread has ended, or is killed because it does not.
Reap(killed) ==
  /\ host = "reap"
  /\ IF killed THEN worker[thread_handle] = "end" ELSE worker[thread_handle] = "ended"
  /\ worker' = IF killed THEN [worker EXCEPT ![thread_handle] = "killed"] ELSE worker
  /\ thread_handle' = NULL
  /\ host' = "timer"
  /\ UNCHANGED <<event, waited, detaching, loads, timer_count, thread_active, thread_running,
                 sends, sstp>>

\* The second is not yet there, or there is no device.
NotOpened ==
  /\ host = "timer"
  /\ timer_count' = IF timer_count + 1 >= 3 THEN 0 ELSE timer_count + 1
  /\ host' = "idle"
  /\ UNCHANGED <<event, waited, detaching, loads, thread_active, thread_running, thread_handle,
                 worker, sends, sstp>>

\* The device opens, and thread t starts.
Opened(t) ==
  /\ host = "timer" /\ timer_count + 1 >= 3
  /\ worker[t] = "none"
  /\ timer_count' = 0
  /\ thread_running' = TRUE /\ thread_handle' = t
  /\ worker' = [worker EXCEPT ![t] = "loop"]
  /\ host' = "idle"
  /\ UNCHANGED <<event, waited, detaching, loads, thread_active, sends, sstp>>

\* The device opens, and no thread starts: thread_running stays true.
OpenedInVain ==
  /\ host = "timer" /\ timer_count + 1 >= 3
  /\ timer_count' = 0
  /\ thread_running' = TRUE /\ thread_handle' = NULL
  /\ host' = "idle"
  /\ UNCHANGED <<event, waited, detaching, loads, thread_active, worker, sends, sstp>>

\* unload(), by the host's call or from DllMain.
Unload(detach) ==
  /\ host = "idle"
  /\ host' = "join" /\ detaching' = detach /\ waited' = 0
  /\ thread_active' = FALSE
  /\ UNCHANGED <<event, loads, timer_count, thread_running, thread_handle, worker, sends, sstp>>

\* The wait ends, at once when there is no thread; the object is deleted.
Joined ==
  /\ host = "join" /\ thread_handle \in {NULL} \cup {t \in Threads : worker[t] = "ended"}
  /\ host' = "none" /\ thread_handle' = NULL
  /\ UNCHANGED <<event, waited, detaching, loads, timer_count, thread_active, thread_running,
                 worker, sends, sstp>>

\* Five seconds are over, or the thread cannot end because of the loader lock.
Late == waited >= JoinLimit \/ worker[thread_handle] = "end"

\* A bug for a mutant: a late thread is left alone.
JoinTimeoutLeaves ==
  /\ host = "join" /\ thread_handle # NULL /\ worker[thread_handle] # "ended" /\ Late
  /\ host' = "none" /\ thread_handle' = NULL
  /\ UNCHANGED <<event, waited, detaching, loads, timer_count, thread_active, thread_running,
                 worker, sends, sstp>>

\* A bug for a mutant: the wait has no end.
JoinForever == FALSE /\ UNCHANGED vars

\* The thread is killed, wherever it is.
JoinTimeout ==
  /\ host = "join" /\ thread_handle # NULL /\ worker[thread_handle] # "ended" /\ Late
  /\ worker' = [worker EXCEPT ![thread_handle] = "killed"]
  /\ host' = "none" /\ thread_handle' = NULL
  /\ UNCHANGED <<event, waited, detaching, loads, timer_count, thread_active, thread_running,
                 sends, sstp>>

-----------------------------------------------------------------------------
(* ThreadProc of thread t. *)

\* A bug for a mutant: thread_active is not looked at.
LoopOn(t, n) ==
  /\ worker[t] = "loop"
  /\ worker' = [worker EXCEPT ![t] = "body"] /\ sends' = [sends EXCEPT ![t] = n]
  /\ UNCHANGED <<hosting, flags, sstp>>

\* A report comes from the device; n of the gesture and the buttons are news.
Loop(t, n) ==
  /\ worker[t] = "loop" /\ thread_active
  /\ worker' = [worker EXCEPT ![t] = "body"] /\ sends' = [sends EXCEPT ![t] = n]
  /\ UNCHANGED <<hosting, flags, sstp>>

\* The loop ends: unload, or a device that is gone.
Break(t) ==
  /\ worker[t] = "loop"
  /\ worker' = [worker EXCEPT ![t] = "close"]
  /\ UNCHANGED <<hosting, flags, sends, sstp>>

StartSend(t) ==
  /\ worker[t] = "body" /\ sends[t] > 0 /\ EnterSend(t)
  /\ worker' = [worker EXCEPT ![t] = "send"] /\ sends' = [sends EXCEPT ![t] = @ - 1]
  /\ UNCHANGED <<hosting, flags>>

\* The window of g answers, or does not for a second: always so while the host
\* is in unload.
Send(t, g) ==
  /\ worker[t] = "send" /\ AskGhost(g)
  /\ IF host = "join" THEN waited < JoinLimit /\ waited' = waited + 1 ELSE waited' = waited
  /\ UNCHANGED <<host, event, detaching, loads, flags, worker, sends>>

EndSend(t) ==
  /\ worker[t] = "send" /\ LeaveSend
  /\ worker' = [worker EXCEPT ![t] = "body"]
  /\ UNCHANGED <<hosting, flags, sends>>

\* Nothing more to tell: Sleep, and the next round.
Sleep(t) ==
  /\ worker[t] = "body" /\ sends[t] = 0
  /\ worker' = [worker EXCEPT ![t] = "loop"]
  /\ UNCHANGED <<hosting, flags, sends, sstp>>

\* The device is closed; the last thing ThreadProc does.
Close(t) ==
  /\ worker[t] = "close"
  /\ thread_running' = FALSE
  /\ worker' = [worker EXCEPT ![t] = "end"]
  /\ UNCHANGED <<hosting, timer_count, thread_active, thread_handle, sends, sstp>>

\* A thread that ends needs the loader lock.
End(t) ==
  /\ worker[t] = "end" /\ ~(detaching /\ host = "join")
  /\ worker' = [worker EXCEPT ![t] = "ended"]
  /\ UNCHANGED <<hosting, flags, sends, sstp>>

-----------------------------------------------------------------------------

TimerStep == NotOpened \/ OpenedInVain \/ \E t \in Threads : Opened(t)
JoinStep  == Joined \/ JoinTimeout
ReapStep  == \E killed \in BOOLEAN : Reap(killed)
WorkerStep(t) ==
  \/ \E n \in 0 .. 2 : Loop(t, n)
  \/ Break(t) \/ StartSend(t) \/ (\E g \in Ghosts : Send(t, g)) \/ EndSend(t)
  \/ Sleep(t) \/ Close(t) \/ End(t)

Next == \/ load \/ OnGhostListed \/ OnSecondChange
        \/ \E e \in GhostEvent : OnGhost(e)
        \/ \E detach \in BOOLEAN : Unload(detach)
        \/ ReapStep \/ TimerStep \/ JoinStep
        \/ \E t \in Threads : WorkerStep(t)

\* The threads run.  The lock is free while the worker sleeps, 20 ms of each
\* round: a host that waits for it gets it.
Fairness == /\ WF_vars(JoinStep) /\ WF_vars(ReapStep) /\ WF_vars(TimerStep)
            /\ SF_vars(OnGhostListed)
            /\ \A t \in Threads : WF_vars(WorkerStep(t))

Spec == Init /\ [][Next]_vars /\ Fairness

-----------------------------------------------------------------------------
(* Properties. *)

TypeOK ==
  /\ host \in HostPc /\ event \in GhostEvent \cup {NoEvent}
  /\ waited \in 0 .. JoinLimit /\ detaching \in BOOLEAN /\ loads \in 0 .. MaxLoads
  /\ timer_count \in {0, 1, 2, 255}
  /\ thread_active \in BOOLEAN /\ thread_running \in BOOLEAN
  /\ thread_handle \in Threads \cup {NULL}
  /\ worker \in [Threads -> WorkerPc] /\ sends \in [Threads -> 0 .. 2]
  /\ ghost_map \subseteq Ghosts /\ asking \subseteq Ghosts
  /\ sstp_thread_lock \in Threads \cup {FREE}

(***************************************************************************)
(* One thread at most is in the object, the one thread_handle names, and    *)
(* none when the object is gone: the device and its buffers have no lock    *)
(* (wiimotegesture.cpp 69-80, 337, 357-371).                                *)
(***************************************************************************)
OneThread == \A t \in Threads : worker[t] \in Alive => t = thread_handle /\ host # "none"

(***************************************************************************)
(* While a thread goes through the list no ghost is taken out of it, and    *)
(* whoever has the lock is a thread that will leave it: a thread killed     *)
(* with the lock leaves no object behind (cplugin.cpp 88, 113, 153-171,     *)
(* wiimotegesture.cpp 73, 360).                                             *)
(***************************************************************************)
ListIsGuarded ==
  (host # "none" /\ sstp_thread_lock # FREE) =>
    worker[sstp_thread_lock] = "send" /\ asking \subseteq ghost_map

(***************************************************************************)
(* unload kills a thread at work only if the ghosts are so many that two    *)
(* rounds of one-second timeouts, the most a thread has before it when it   *)
(* next looks at thread_active, take longer than unload waits               *)
(* (cplugin.cpp 166-170, wiimotegesture.cpp 71-74, 153).                    *)
(***************************************************************************)
KilledOnlyAmongMany ==
  [][\A t \in Threads :
       (worker'[t] = "killed" /\ worker[t] \notin {"end", "killed"}) =>
         2 * Cardinality(ghost_map) >= JoinLimit]_vars

(***************************************************************************)
(* An event about a ghost comes back, although it waits for the lock of a   *)
(* thread that waits for an answer of the same host.                        *)
(***************************************************************************)
GhostEventReturns == (host = "list") ~> (host = "idle")

(***************************************************************************)
(* unload comes back, also from DllMain, where the thread cannot end.       *)
(***************************************************************************)
UnloadReturns == (host = "join") ~> (host = "none")

=============================================================================
