------------------------ MODULE WiimoteGestureProofs -------------------------
(***************************************************************************)
(* The safety properties of WiimoteGesture for any number of ghosts,        *)
(* threads and objects.                                                     *)
(***************************************************************************)
EXTENDS WiimoteGesture, FiniteSetTheorems, TLAPS

HostTyped ==
  /\ host \in HostPc /\ event \in GhostEvent \cup {NoEvent}
  /\ waited \in 0 .. JoinLimit /\ detaching \in BOOLEAN /\ loads \in 0 .. MaxLoads
FlagsTyped ==
  /\ timer_count \in {0, 1, 2, 255}
  /\ thread_active \in BOOLEAN /\ thread_running \in BOOLEAN
  /\ thread_handle \in Threads \cup {NULL}
WorkerTyped == worker \in [Threads -> WorkerPc] /\ sends \in [Threads -> 0 .. 2]
SstpTyped ==
  /\ ghost_map \subseteq Ghosts /\ asking \subseteq Ghosts
  /\ sstp_thread_lock \in Threads \cup {FREE}

LEMMA Parts ==
  /\ TypeOK <=> HostTyped /\ FlagsTyped /\ WorkerTyped /\ SstpTyped
  /\ TypeOK' <=> HostTyped' /\ FlagsTyped' /\ WorkerTyped' /\ SstpTyped'
  BY DEF TypeOK, HostTyped, FlagsTyped, WorkerTyped, SstpTyped

(* What a step leaves alone keeps its type.                                 *)
LEMMA Kept ==
  /\ HostTyped /\ UNCHANGED hosting => HostTyped'
  /\ FlagsTyped /\ UNCHANGED flags => FlagsTyped'
  /\ WorkerTyped /\ UNCHANGED <<worker, sends>> => WorkerTyped'
  /\ SstpTyped /\ UNCHANGED sstp => SstpTyped'
  BY DEF HostTyped, FlagsTyped, WorkerTyped, SstpTyped, hosting, flags, sstp

LEMMA InitTypes == Init => TypeOK
  <1> SUFFICES ASSUME Init
               PROVE  TypeOK
    OBVIOUS
  <1>1. HostTyped
    <2>1. waited \in 0 .. JoinLimit /\ loads \in 0 .. MaxLoads
      BY WiimoteAssumption DEF Init
    <2>2. host \in HostPc /\ event \in GhostEvent \cup {NoEvent} /\ detaching \in BOOLEAN
      BY DEF Init, HostPc
    <2> QED
      BY <2>1, <2>2 DEF HostTyped
  <1>2. FlagsTyped
    BY DEF Init, FlagsTyped
  <1>3. WorkerTyped
    BY DEF Init, WorkerTyped, WorkerPc
  <1>4. SstpTyped
    BY DEF Init, SstpInit, SstpTyped
  <1> QED
    BY <1>1, <1>2, <1>3, <1>4, Parts

(* The host's steps.                                                        *)
LEMMA HostTypes ==
  ASSUME TypeOK,
         \/ load \/ OnGhostListed \/ OnSecondChange
         \/ \E e \in GhostEvent : OnGhost(e)
         \/ \E detach \in BOOLEAN : Unload(detach)
         \/ ReapStep \/ TimerStep \/ JoinStep
  PROVE  TypeOK'
  <1>1. HostTyped /\ FlagsTyped /\ WorkerTyped /\ SstpTyped
    BY Parts
  <1>2. CASE load
    <2>1. HostTyped'
      BY <1>1, <1>2, WiimoteAssumption DEF load, HostTyped, HostPc
    <2>2. FlagsTyped' /\ SstpTyped'
      BY <1>2 DEF load, FlagsTyped, SstpNew, SstpTyped
    <2> QED
      BY <1>1, <1>2, <2>1, <2>2, Kept, Parts DEF load
  <1>3. CASE OnGhostListed
    <2>1. HostTyped'
      BY <1>1, <1>3 DEF OnGhostListed, HostTyped, HostPc
    <2>2. event \in GhostEvent \cup {NoEvent} /\ ghost_map \subseteq Ghosts
      BY <1>1 DEF HostTyped, SstpTyped
    <2>3. ghost_map' = IF event.runs THEN ghost_map \cup {event.ghost}
                                     ELSE ghost_map \ {event.ghost}
      BY <1>3 DEF OnGhostListed, ListGhost
    <2>4. ghost_map' \subseteq Ghosts
      <3>1. CASE event \in GhostEvent
        BY <2>2, <2>3, <3>1 DEF GhostEvent
      <3>2. CASE event = NoEvent
        BY <2>2, <2>3, <3>2 DEF NoEvent
      <3> QED
        BY <2>2, <3>1, <3>2
    <2>5. SstpTyped'
      BY <1>1, <1>3, <2>4 DEF OnGhostListed, ListGhost, SstpTyped
    <2> QED
      BY <1>1, <1>3, <2>1, <2>5, Kept, Parts DEF OnGhostListed
  <1>4. CASE OnSecondChange
    <2>1. HostTyped'
      BY <1>1, <1>4 DEF OnSecondChange, HostTyped, HostPc
    <2> QED
      BY <1>1, <1>4, <2>1, Kept, Parts DEF OnSecondChange
  <1>5. ASSUME NEW e \in GhostEvent, OnGhost(e)
        PROVE  TypeOK'
    <2>1. HostTyped'
      BY <1>1, <1>5 DEF OnGhost, HostTyped, HostPc
    <2> QED
      BY <1>1, <1>5, <2>1, Kept, Parts DEF OnGhost
  <1>6. ASSUME NEW detach \in BOOLEAN, Unload(detach)
        PROVE  TypeOK'
    <2>1. HostTyped'
      BY <1>1, <1>6, WiimoteAssumption DEF Unload, HostTyped, HostPc
    <2>2. FlagsTyped'
      BY <1>1, <1>6 DEF Unload, FlagsTyped
    <2> QED
      BY <1>1, <1>6, <2>1, <2>2, Kept, Parts DEF Unload
  <1>7. ASSUME NEW killed \in BOOLEAN, Reap(killed)
        PROVE  TypeOK'
    <2>1. HostTyped'
      BY <1>1, <1>7 DEF Reap, HostTyped, HostPc
    <2>2. FlagsTyped'
      BY <1>1, <1>7 DEF Reap, FlagsTyped
    <2>3. WorkerTyped'
      BY <1>1, <1>7 DEF Reap, WorkerTyped, WorkerPc
    <2> QED
      BY <1>1, <1>7, <2>1, <2>2, <2>3, Kept, Parts DEF Reap
  <1>8. CASE NotOpened
    <2>1. HostTyped'
      BY <1>1, <1>8 DEF NotOpened, HostTyped, HostPc
    <2>2. timer_count' \in {0, 1, 2, 255}
      BY <1>1, <1>8 DEF NotOpened, FlagsTyped
    <2>3. FlagsTyped'
      BY <1>1, <1>8, <2>2 DEF NotOpened, FlagsTyped
    <2> QED
      BY <1>1, <1>8, <2>1, <2>3, Kept, Parts DEF NotOpened
  <1>9. CASE OpenedInVain
    <2>1. HostTyped'
      BY <1>1, <1>9 DEF OpenedInVain, HostTyped, HostPc
    <2>2. FlagsTyped'
      BY <1>1, <1>9 DEF OpenedInVain, FlagsTyped
    <2> QED
      BY <1>1, <1>9, <2>1, <2>2, Kept, Parts DEF OpenedInVain
  <1>10. ASSUME NEW t \in Threads, Opened(t)
         PROVE  TypeOK'
    <2>1. HostTyped'
      BY <1>1, <1>10 DEF Opened, HostTyped, HostPc
    <2>2. FlagsTyped'
      BY <1>1, <1>10 DEF Opened, FlagsTyped
    <2>3. WorkerTyped'
      BY <1>1, <1>10 DEF Opened, WorkerTyped, WorkerPc
    <2> QED
      BY <1>1, <1>10, <2>1, <2>2, <2>3, Kept, Parts DEF Opened
  <1>11. CASE Joined \/ JoinTimeout
    <2>1. HostTyped'
      BY <1>1, <1>11 DEF Joined, JoinTimeout, HostTyped, HostPc
    <2>2. FlagsTyped'
      BY <1>1, <1>11 DEF Joined, JoinTimeout, FlagsTyped
    <2>3. WorkerTyped'
      BY <1>1, <1>11 DEF Joined, JoinTimeout, WorkerTyped, WorkerPc
    <2> QED
      BY <1>1, <1>11, <2>1, <2>2, <2>3, Kept, Parts DEF Joined, JoinTimeout
  <1> QED
    BY <1>2, <1>3, <1>4, <1>5, <1>6, <1>7, <1>8, <1>9, <1>10, <1>11
    DEF ReapStep, TimerStep, JoinStep

(* The steps of ThreadProc.                                                 *)
LEMMA WorkerTypes == ASSUME TypeOK, NEW t \in Threads, WorkerStep(t) PROVE TypeOK'
  <1>1. HostTyped /\ FlagsTyped /\ WorkerTyped /\ SstpTyped
    BY Parts
  <1>2. ASSUME NEW n \in 0 .. 2, Loop(t, n)
        PROVE  TypeOK'
    <2>1. WorkerTyped'
      BY <1>1, <1>2 DEF Loop, WorkerTyped, WorkerPc
    <2> QED
      BY <1>1, <1>2, <2>1, Kept, Parts DEF Loop
  <1>3. CASE Break(t) \/ Sleep(t) \/ End(t)
    <2>1. WorkerTyped'
      BY <1>1, <1>3 DEF Break, Sleep, End, WorkerTyped, WorkerPc
    <2> QED
      BY <1>1, <1>3, <2>1, Kept, Parts DEF Break, Sleep, End
  <1>4. CASE StartSend(t)
    <2>1. WorkerTyped'
      BY <1>1, <1>4 DEF StartSend, WorkerTyped, WorkerPc
    <2>2. SstpTyped'
      BY <1>1, <1>4 DEF StartSend, EnterSend, SstpTyped
    <2> QED
      BY <1>1, <1>4, <2>1, <2>2, Kept, Parts DEF StartSend
  <1>5. ASSUME NEW g \in Ghosts, Send(t, g)
        PROVE  TypeOK'
    <2>1. waited' \in 0 .. JoinLimit
      BY <1>1, <1>5, WiimoteAssumption DEF Send, HostTyped
    <2>2. HostTyped'
      BY <1>1, <1>5, <2>1 DEF Send, HostTyped
    <2>3. SstpTyped'
      BY <1>1, <1>5 DEF Send, AskGhost, SstpTyped
    <2> QED
      BY <1>1, <1>5, <2>2, <2>3, Kept, Parts DEF Send
  <1>6. CASE EndSend(t)
    <2>1. WorkerTyped'
      BY <1>1, <1>6 DEF EndSend, WorkerTyped, WorkerPc
    <2>2. SstpTyped'
      BY <1>1, <1>6 DEF EndSend, LeaveSend, SstpTyped
    <2> QED
      BY <1>1, <1>6, <2>1, <2>2, Kept, Parts DEF EndSend
  <1>7. CASE Close(t)
    <2>1. WorkerTyped'
      BY <1>1, <1>7 DEF Close, WorkerTyped, WorkerPc
    <2>2. FlagsTyped'
      BY <1>1, <1>7 DEF Close, FlagsTyped
    <2> QED
      BY <1>1, <1>7, <2>1, <2>2, Kept, Parts DEF Close
  <1> QED
    BY <1>2, <1>3, <1>4, <1>5, <1>6, <1>7 DEF WorkerStep

(***************************************************************************)
(* Type correctness.                                                        *)
(***************************************************************************)
THEOREM TypeCorrect == Spec => []TypeOK
  <1>1. TypeOK /\ [Next]_vars => TypeOK'
    <2> SUFFICES ASSUME TypeOK, [Next]_vars
                 PROVE  TypeOK'
      OBVIOUS
    <2>1. CASE UNCHANGED vars
      BY <2>1, Kept, Parts DEF vars
    <2>2. CASE Next
      BY <2>2, HostTypes, WorkerTypes DEF Next
    <2> QED
      BY <2>1, <2>2
  <1> QED
    BY <1>1, InitTypes, PTL DEF Spec

-----------------------------------------------------------------------------
(* One thread, and a guarded list. *)

\* A thread whose flag is off has nothing left to do in the object.
AtItsEnd == (host # "none" /\ ~thread_running /\ thread_handle # NULL) =>
              worker[thread_handle] \in {"end", "ended"}

\* The old thread is waited for, and forgotten, before a new one starts.
Reaping == /\ host = "reap" => ~thread_running /\ thread_handle # NULL
           /\ host = "timer" => ~thread_running /\ thread_handle = NULL

IInv == TypeOK /\ OneThread /\ AtItsEnd /\ Reaping /\ ListIsGuarded

LEMMA NullIsNoThread == NULL \notin Threads /\ FREE \notin Threads
  BY SstpAssumption DEF NULL, FREE

LEMMA InitIInv == Init => IInv
  BY InitTypes DEF Init, SstpInit, IInv, OneThread, AtItsEnd, Reaping, ListIsGuarded, Alive

(* A thread that is killed or forgotten is the only one there was, so no     *)
(* thread is left when thread_handle becomes NULL.                          *)
LEMMA NoneLeft ==
  ASSUME IInv, thread_handle \in {NULL} \cup {t \in Threads : worker[t] = "ended"}
  PROVE  \A t \in Threads : worker[t] \notin Alive
  BY NullIsNoThread DEF IInv, OneThread, Alive

LEMMA HostIInv ==
  ASSUME IInv,
         \/ load \/ OnGhostListed \/ OnSecondChange
         \/ \E e \in GhostEvent : OnGhost(e)
         \/ \E detach \in BOOLEAN : Unload(detach)
         \/ ReapStep \/ TimerStep \/ JoinStep
  PROVE  IInv'
  <1>1. TypeOK' /\ worker \in [Threads -> WorkerPc] /\ thread_handle \in Threads \cup {NULL}
    BY HostTypes DEF IInv, TypeOK
  <1>2. CASE load
    <2>1. host = "none" /\ host' = "idle" /\ worker' = worker /\ sstp_thread_lock' = FREE
          /\ thread_handle' = NULL
      BY <1>2 DEF load, SstpNew
    <2>2. \A t \in Threads : worker[t] \notin Alive
      BY <2>1 DEF IInv, OneThread
    <2> QED
      BY <1>1, <2>1, <2>2 DEF IInv, OneThread, AtItsEnd, Reaping, ListIsGuarded
  <1>3. CASE OnGhostListed
    <2>1. host = "list" /\ host' = "idle" /\ sstp_thread_lock = FREE
          /\ UNCHANGED <<worker, thread_handle, thread_running, sstp_thread_lock>>
      BY <1>3 DEF OnGhostListed, ListGhost, flags
    <2> QED
      BY <1>1, <2>1 DEF IInv, OneThread, AtItsEnd, Reaping, ListIsGuarded
  <1>4. CASE OnSecondChange \/ \E e \in GhostEvent : OnGhost(e)
    <2>1. host = "idle" /\ host' \in {"timer", "reap", "list"}
          /\ UNCHANGED <<worker, thread_handle, thread_running, ghost_map, sstp_thread_lock, asking>>
      BY <1>4 DEF OnSecondChange, OnGhost, flags, sstp
    <2>2. host' = "reap" => ~thread_running /\ thread_handle # NULL
      BY <1>4 DEF OnSecondChange, OnGhost
    <2>3. host' = "timer" => ~thread_running /\ thread_handle = NULL
      BY <1>4 DEF OnSecondChange, OnGhost
    <2> QED
      BY <1>1, <2>1, <2>2, <2>3 DEF IInv, OneThread, AtItsEnd, Reaping, ListIsGuarded
  <1>5. CASE \E detach \in BOOLEAN : Unload(detach)
    <2>1. host = "idle" /\ host' = "join"
          /\ UNCHANGED <<worker, thread_handle, thread_running, ghost_map, sstp_thread_lock, asking>>
      BY <1>5 DEF Unload, sstp
    <2> QED
      BY <1>1, <2>1 DEF IInv, OneThread, AtItsEnd, Reaping, ListIsGuarded
  <1>6. ASSUME NEW killed \in BOOLEAN, Reap(killed)
        PROVE  IInv'
    <2>1. host = "reap" /\ host' = "timer" /\ thread_handle' = NULL
          /\ UNCHANGED <<thread_running, ghost_map, sstp_thread_lock, asking>>
      BY <1>6 DEF Reap, sstp
    <2>2. thread_handle \in Threads /\ ~thread_running
      BY <1>1, <2>1 DEF IInv, Reaping
    <2>3. worker[thread_handle] \in {"end", "ended"}
          /\ worker' \in {worker, [worker EXCEPT ![thread_handle] = "killed"]}
      BY <1>6, <2>1, <2>2 DEF Reap
    <2>4. worker'[thread_handle] \notin {"loop", "body", "send", "close", "end"}
          /\ \A t \in Threads : t # thread_handle => worker'[t] = worker[t]
      BY <1>1, <1>6, <2>2, <2>3 DEF Reap
    <2>5. \A t \in Threads : worker'[t] \notin Alive
      BY <2>4 DEF IInv, OneThread, Alive
    <2>6. ListIsGuarded'
      <3>1. CASE sstp_thread_lock # FREE
        <4>1. worker[sstp_thread_lock] = "send" /\ asking \subseteq ghost_map
              /\ sstp_thread_lock \in Threads
          BY <2>1, <3>1 DEF IInv, ListIsGuarded, TypeOK
        <4>2. worker'[sstp_thread_lock] = "send"
          BY <2>3, <2>4, <4>1
        <4> QED
          BY <2>1, <4>1, <4>2 DEF ListIsGuarded
      <3> QED
        BY <2>1, <3>1 DEF ListIsGuarded
    <2> QED
      BY <1>1, <2>1, <2>2, <2>5, <2>6 DEF IInv, OneThread, AtItsEnd, Reaping
  <1>7. CASE NotOpened \/ OpenedInVain
    <2>1. host = "timer" /\ host' = "idle" /\ thread_handle = NULL /\ thread_handle' = NULL
          /\ UNCHANGED <<worker, ghost_map, sstp_thread_lock, asking>>
      BY <1>7 DEF NotOpened, OpenedInVain, sstp, IInv, Reaping
    <2> QED
      BY <1>1, <2>1 DEF IInv, OneThread, AtItsEnd, Reaping, ListIsGuarded
  <1>8. ASSUME NEW t \in Threads, Opened(t)
        PROVE  IInv'
    <2>1. host = "timer" /\ host' = "idle" /\ thread_handle = NULL /\ worker[t] = "none"
          /\ thread_handle' = t /\ thread_running' = TRUE
          /\ worker' = [worker EXCEPT ![t] = "loop"]
          /\ UNCHANGED <<ghost_map, sstp_thread_lock, asking>>
      BY <1>8 DEF Opened, sstp, IInv, Reaping
    <2>2. \A u \in Threads : worker[u] \notin Alive
      BY <2>1, NoneLeft
    <2>3. \A u \in Threads : u # t => worker'[u] = worker[u]
      BY <1>1, <2>1
    <2>4. sstp_thread_lock = FREE
      BY <2>1, <2>2 DEF IInv, TypeOK, ListIsGuarded, Alive
    <2> QED
      BY <1>1, <2>1, <2>2, <2>3, <2>4 DEF IInv, OneThread, AtItsEnd, Reaping, ListIsGuarded
  <1>9. CASE Joined
    <2>1. host' = "none" /\ worker' = worker
          /\ thread_handle \in {NULL} \cup {t \in Threads : worker[t] = "ended"}
      BY <1>9 DEF Joined
    <2> QED
      BY <1>1, <2>1, NoneLeft DEF IInv, OneThread, AtItsEnd, Reaping, ListIsGuarded
  <1>10. CASE JoinTimeout
    <2>1. host = "join" /\ host' = "none" /\ thread_handle \in Threads
          /\ worker' = [worker EXCEPT ![thread_handle] = "killed"]
      BY <1>1, <1>10 DEF JoinTimeout
    <2>2. \A t \in Threads : worker'[t] \notin Alive
      BY <1>1, <2>1 DEF IInv, OneThread, Alive
    <2> QED
      BY <1>1, <2>1, <2>2 DEF IInv, OneThread, AtItsEnd, Reaping, ListIsGuarded
  <1> QED
    BY <1>2, <1>3, <1>4, <1>5, <1>6, <1>7, <1>8, <1>9, <1>10 DEF ReapStep, TimerStep, JoinStep

(* A thread goes on from one place to another: it is thread_handle's, and    *)
(* its flag stays on unless it closes the device.                           *)
LEMMA WorkerGoesOn ==
  ASSUME IInv, NEW t \in Threads, NEW from \in Alive, NEW to \in WorkerPc,
         worker[t] = from, worker' = [worker EXCEPT ![t] = to],
         UNCHANGED <<host, thread_handle>>,
         thread_running' = thread_running \/ to = "end",
         from = "end" => to = "ended"
  PROVE  /\ OneThread' /\ AtItsEnd' /\ Reaping'
         /\ t = thread_handle /\ host # "none"
         /\ worker'[t] = to /\ \A u \in Threads : u # t => worker'[u] = worker[u]
  <1>1. worker \in [Threads -> WorkerPc]
    BY DEF IInv, TypeOK
  <1>2. t = thread_handle /\ host # "none" /\ thread_handle # NULL
    BY NullIsNoThread DEF IInv, OneThread
  <1>3. worker'[t] = to /\ \A u \in Threads : u # t => worker'[u] = worker[u]
    BY <1>1
  <1>4. OneThread'
    BY <1>2, <1>3 DEF IInv, OneThread
  <1>5. AtItsEnd'
    <2>1. CASE to = "end"
      BY <1>2, <1>3, <2>1 DEF AtItsEnd
    <2>2. CASE thread_running' = thread_running
      <3>1. ~thread_running => from = "end"
        BY <1>2 DEF IInv, AtItsEnd, Alive
      <3> QED
        BY <1>2, <1>3, <2>2, <3>1 DEF AtItsEnd
    <2> QED
      BY <2>1, <2>2
  <1>6. Reaping'
    <2>1. CASE to = "end"
      <3>1. from # "end"
        BY <2>1
      <3>2. host # "timer"
        BY <1>2 DEF IInv, Reaping
      <3>3. host # "reap"
        BY <1>2, <3>1 DEF IInv, Reaping, AtItsEnd, Alive
      <3> QED
        BY <3>2, <3>3 DEF Reaping
    <2>2. CASE thread_running' = thread_running
      BY <2>2 DEF IInv, Reaping
    <2> QED
      BY <2>1, <2>2
  <1> QED
    BY <1>2, <1>3, <1>4, <1>5, <1>6

LEMMA WorkerIInv == ASSUME IInv, NEW t \in Threads, WorkerStep(t) PROVE IInv'
  <1>1. TypeOK'
    BY WorkerTypes DEF IInv
  <1>2. sstp_thread_lock \in Threads \cup {FREE}
    BY DEF IInv, TypeOK
  \* The steps outside send_sstp.
  <1>3. ASSUME NEW from \in Alive \ {"send"}, NEW to \in WorkerPc,
               worker[t] = from, worker' = [worker EXCEPT ![t] = to],
               UNCHANGED <<host, thread_handle, sstp>>,
               thread_running' = thread_running \/ to = "end",
               from = "end" => to = "ended"
        PROVE  IInv'
    <2>1. /\ OneThread' /\ AtItsEnd' /\ Reaping'
          /\ worker'[t] = to /\ \A u \in Threads : u # t => worker'[u] = worker[u]
      BY <1>3, WorkerGoesOn
    <2>2. ListIsGuarded'
      BY <1>2, <1>3, <2>1 DEF IInv, ListIsGuarded, sstp
    <2> QED
      BY <1>1, <2>1, <2>2 DEF IInv
  <1>4. ASSUME NEW n \in 0 .. 2, Loop(t, n)
        PROVE  IInv'
    BY <1>3, <1>4 DEF Loop, hosting, flags, Alive, WorkerPc
  <1>5. CASE Break(t) \/ Sleep(t) \/ End(t)
    BY <1>3, <1>5 DEF Break, Sleep, End, hosting, flags, Alive, WorkerPc
  <1>6. CASE Close(t)
    BY <1>3, <1>6 DEF Close, hosting, Alive, WorkerPc
  <1>7. CASE StartSend(t)
    <2>1. /\ worker[t] = "body" /\ worker' = [worker EXCEPT ![t] = "send"]
          /\ UNCHANGED <<host, thread_handle, thread_running>>
          /\ sstp_thread_lock' = t /\ asking' = ghost_map /\ ghost_map' = ghost_map
      BY <1>7 DEF StartSend, EnterSend, hosting, flags
    <2>2. OneThread' /\ AtItsEnd' /\ Reaping' /\ worker'[t] = "send"
      BY <2>1, WorkerGoesOn DEF Alive, WorkerPc
    <2> QED
      BY <1>1, <2>1, <2>2 DEF IInv, ListIsGuarded
  <1>8. ASSUME NEW g \in Ghosts, Send(t, g)
        PROVE  IInv'
    <2>1. /\ UNCHANGED <<host, thread_handle, thread_running, worker, ghost_map, sstp_thread_lock>>
          /\ asking' \subseteq asking
      BY <1>8 DEF Send, AskGhost, flags
    <2> QED
      BY <1>1, <2>1 DEF IInv, OneThread, AtItsEnd, Reaping, ListIsGuarded
  <1>9. CASE EndSend(t)
    <2>1. /\ worker[t] = "send" /\ worker' = [worker EXCEPT ![t] = "body"]
          /\ UNCHANGED <<host, thread_handle, thread_running>> /\ sstp_thread_lock' = FREE
      BY <1>9 DEF EndSend, LeaveSend, hosting, flags
    <2>2. OneThread' /\ AtItsEnd' /\ Reaping'
      BY <2>1, WorkerGoesOn DEF Alive, WorkerPc
    <2> QED
      BY <1>1, <2>1, <2>2 DEF IInv, ListIsGuarded
  <1> QED
    BY <1>4, <1>5, <1>6, <1>7, <1>8, <1>9 DEF WorkerStep

(* The invariant, in every state.                                           *)
THEOREM Invariance == Spec => []IInv
  <1>1. IInv /\ [Next]_vars => IInv'
    <2> SUFFICES ASSUME IInv, [Next]_vars
                 PROVE  IInv'
      OBVIOUS
    <2>1. CASE UNCHANGED vars
      <3>1. TypeOK'
        BY <2>1, Kept, Parts DEF vars, IInv
      <3> QED
        BY <2>1, <3>1 DEF vars, hosting, flags, sstp, IInv, OneThread, AtItsEnd, Reaping,
                          ListIsGuarded
    <2>2. CASE Next
      BY <2>2, HostIInv, WorkerIInv DEF Next
    <2> QED
      BY <2>1, <2>2
  <1> QED
    BY <1>1, InitIInv, PTL DEF Spec

(***************************************************************************)
(* At most one thread uses the device and the buffers, and none does when   *)
(* the object is gone, however the threads end: by themselves, reaped, or   *)
(* killed (wiimotegesture.cpp 69-80, 337, 357-371).                         *)
(***************************************************************************)
THEOREM OnlyOneThread == Spec => []OneThread
  <1>1. IInv => OneThread
    BY DEF IInv
  <1> QED
    BY <1>1, Invariance, PTL

(***************************************************************************)
(* The list a thread goes through is the list of the ghosts, and whoever    *)
(* holds the lock of a living object is on its way to give it back          *)
(* (cplugin.cpp 88, 113, 153-171).                                          *)
(***************************************************************************)
THEOREM TheListIsGuarded == Spec => []ListIsGuarded
  <1>1. IInv => ListIsGuarded
    BY DEF IInv
  <1> QED
    BY <1>1, Invariance, PTL

-----------------------------------------------------------------------------
(* Who is killed. *)

\* Cardinality as a number only: what the steps need of it is lemma Sizes.
Size(S) == Cardinality(S)
Rounds(k) == IF k = 0 THEN 0 ELSE IF k = 1 THEN Size(ghost_map)
                                  ELSE Size(ghost_map) + Size(ghost_map)

\* Whoever asks has the lock, and at most one more round before it.
Asked == \A t \in Threads : worker[t] = "send" => sstp_thread_lock = t /\ sends[t] <= 1

\* The seconds that thread t may still cost before it looks at thread_active.
Left(t) == IF worker[t] = "body" THEN Rounds(sends[t])
           ELSE IF worker[t] = "send" THEN Rounds(sends[t]) + Size(asking)
           ELSE 0

Patience == host = "join" =>
              /\ ~thread_active /\ waited <= 2 * Size(ghost_map)
              /\ \A t \in Threads : worker[t] \in Alive =>
                   waited + Left(t) <= 2 * Size(ghost_map)

KInv == IInv /\ Asked /\ Patience

LEMMA Sizes ==
  ASSUME TypeOK
  PROVE  /\ Size(ghost_map) \in Nat /\ Size(asking) \in Nat
         /\ asking \subseteq ghost_map => Size(asking) <= Size(ghost_map)
         /\ \A g \in asking : Size(asking \ {g}) = Size(asking) - 1
  <1>1. IsFiniteSet(ghost_map) /\ IsFiniteSet(asking)
    BY SstpAssumption, FS_Subset DEF TypeOK
  <1> QED
    BY <1>1, FS_CardinalityType, FS_Subset, FS_RemoveElement DEF Size

(* A thread at work has at most two rounds before it.                       *)
LEMMA TwoRounds ==
  ASSUME IInv, Asked, NEW t \in Threads, worker[t] \in Alive
  PROVE  Left(t) \in Nat /\ Left(t) <= 2 * Size(ghost_map)
  <1>1. Size(ghost_map) \in Nat /\ Size(asking) \in Nat /\ sends[t] \in 0 .. 2
    BY Sizes DEF IInv, TypeOK
  <1>2. CASE worker[t] = "send"
    <2>1. host # "none" /\ sstp_thread_lock = t /\ t # FREE /\ sends[t] <= 1
      BY <1>2, NullIsNoThread DEF IInv, OneThread, Asked
    <2>2. asking \subseteq ghost_map
      BY <2>1 DEF IInv, ListIsGuarded
    <2>3. Size(asking) <= Size(ghost_map)
      BY <2>2, Sizes DEF IInv
    <2>4. Left(t) = Rounds(sends[t]) + Size(asking)
      BY <1>2 DEF Left
    <2>5. Rounds(sends[t]) \in Nat /\ Rounds(sends[t]) <= Size(ghost_map)
      BY <1>1, <2>1 DEF Rounds
    <2> QED
      BY <1>1, <2>3, <2>4, <2>5
  <1>3. CASE worker[t] = "body"
    <2>1. Left(t) = Rounds(sends[t])
      BY <1>3 DEF Left
    <2> QED
      BY <1>1, <2>1 DEF Rounds
  <1>4. CASE worker[t] \notin {"body", "send"}
    <2>1. Left(t) = 0
      BY <1>4 DEF Left
    <2> QED
      BY <1>1, <2>1
  <1> QED
    BY <1>2, <1>3, <1>4

LEMMA HostKInv ==
  ASSUME KInv,
         \/ load \/ OnGhostListed \/ OnSecondChange
         \/ \E e \in GhostEvent : OnGhost(e)
         \/ \E detach \in BOOLEAN : Unload(detach)
         \/ ReapStep \/ TimerStep \/ JoinStep
  PROVE  Asked' /\ Patience'
  <1>1. IInv /\ Asked /\ worker \in [Threads -> WorkerPc]
    BY DEF KInv, IInv, TypeOK
  \* Only Opened sets a thread to work, and only Reap and JoinTimeout stop one.
  <1>2. ASSUME UNCHANGED <<sends, sstp_thread_lock>>,
               \A t \in Threads : worker'[t] = "send" => worker[t] = "send"
        PROVE  Asked'
    BY <1>1, <1>2 DEF Asked
  <1>3. CASE load
    <2>1. host = "none" /\ host' = "idle" /\ worker' = worker
      BY <1>3 DEF load
    <2>2. \A t \in Threads : worker'[t] # "send"
      BY <1>1, <2>1 DEF IInv, OneThread, Alive
    <2> QED
      BY <2>1, <2>2 DEF Asked, Patience
  <1>4. CASE OnGhostListed
    BY <1>1, <1>2, <1>4 DEF OnGhostListed, ListGhost, Patience
  <1>5. CASE OnSecondChange \/ \E e \in GhostEvent : OnGhost(e)
    BY <1>1, <1>2, <1>5 DEF OnSecondChange, OnGhost, sstp, Patience
  <1>6. CASE \E detach \in BOOLEAN : Unload(detach)
    <2>1. /\ waited' = 0 /\ ~thread_active' /\ UNCHANGED <<worker, sends>>
          /\ UNCHANGED <<ghost_map, sstp_thread_lock, asking>>
      BY <1>6 DEF Unload, sstp
    <2>2. ASSUME NEW t \in Threads, worker'[t] \in Alive
          PROVE  waited' + Left(t)' <= 2 * Size(ghost_map)'
      <3>1. worker[t] \in Alive
        BY <2>1, <2>2
      <3>2. Left(t)' = Left(t) /\ Size(ghost_map)' = Size(ghost_map)
        BY <2>1 DEF Left, Rounds, Size
      <3>3. Left(t) \in Nat /\ Left(t) <= 2 * Size(ghost_map)
        BY <1>1, <3>1, TwoRounds
      <3> QED
        BY <2>1, <3>2, <3>3
    <2>3. waited' <= 2 * Size(ghost_map)'
      <3>1. Size(ghost_map) \in Nat /\ Size(ghost_map)' = Size(ghost_map)
        BY <1>1, <2>1, Sizes DEF IInv, Size
      <3> QED
        BY <2>1, <3>1
    <2>4. Asked'
      BY <1>2, <2>1
    <2>5. Patience'
      BY <2>1, <2>2, <2>3 DEF Patience
    <2> QED
      BY <2>4, <2>5
  <1>7. ASSUME NEW killed \in BOOLEAN, Reap(killed)
        PROVE  Asked' /\ Patience'
    <2>1. /\ host' = "timer" /\ UNCHANGED <<sends, sstp_thread_lock>>
          /\ worker' \in {worker, [worker EXCEPT ![thread_handle] = "killed"]}
      BY <1>7 DEF Reap, sstp
    <2>2. \A t \in Threads : worker'[t] = "send" => worker[t] = "send"
      BY <1>1, <2>1
    <2> QED
      BY <1>2, <2>1, <2>2 DEF Patience
  <1>8. CASE NotOpened \/ OpenedInVain
    BY <1>1, <1>2, <1>8 DEF NotOpened, OpenedInVain, sstp, Patience
  <1>9. ASSUME NEW t \in Threads, Opened(t)
        PROVE  Asked' /\ Patience'
    <2>1. host' = "idle" /\ UNCHANGED <<sends, sstp_thread_lock>>
          /\ worker' = [worker EXCEPT ![t] = "loop"]
      BY <1>9 DEF Opened, sstp
    <2>2. \A u \in Threads : worker'[u] = "send" => worker[u] = "send"
      BY <1>1, <2>1
    <2> QED
      BY <1>2, <2>1, <2>2 DEF Patience
  <1>10. CASE Joined \/ JoinTimeout
    <2>1. /\ host' = "none" /\ UNCHANGED <<sends, sstp_thread_lock>>
          /\ worker' \in {worker, [worker EXCEPT ![thread_handle] = "killed"]}
      BY <1>10 DEF Joined, JoinTimeout, sstp
    <2>2. \A t \in Threads : worker'[t] = "send" => worker[t] = "send"
      BY <1>1, <2>1
    <2> QED
      BY <1>2, <2>1, <2>2 DEF Patience
  <1> QED
    BY <1>3, <1>4, <1>5, <1>6, <1>7, <1>8, <1>9, <1>10 DEF ReapStep, TimerStep, JoinStep

LEMMA WorkerKInv == ASSUME KInv, NEW t \in Threads, WorkerStep(t) PROVE Asked' /\ Patience'
  <1>1. IInv /\ Asked /\ Patience /\ worker \in [Threads -> WorkerPc]
        /\ sends \in [Threads -> 0 .. 2] /\ waited \in Nat
        /\ Size(ghost_map) \in Nat /\ Size(asking) \in Nat
    BY Sizes, WiimoteAssumption DEF KInv, IInv, TypeOK
  \* Only t is at work, and takes one step: in the join it is nearer to the end.
  <1>2. worker[t] \in Alive /\ \A u \in Threads : worker[u] \in Alive => u = t
    <2>1. worker[t] \in Alive
      BY DEF WorkerStep, Loop, Break, StartSend, Send, EndSend, Sleep, Close, End, Alive
    <2> QED
      BY <1>1, <2>1 DEF IInv, OneThread
  <1>3. /\ host' = host /\ ghost_map' = ghost_map /\ thread_active' = thread_active
        /\ \A u \in Threads : u # t => worker'[u] = worker[u] /\ sends'[u] = sends[u]
    <2>1. host' = host /\ thread_active' = thread_active
      BY DEF WorkerStep, Loop, Break, StartSend, Send, EndSend, Sleep, Close, End, hosting, flags
    <2>2. ghost_map' = ghost_map
      BY DEF WorkerStep, Loop, Break, StartSend, Send, EndSend, Sleep, Close, End, EnterSend,
             AskGhost, LeaveSend, sstp
    <2>3. \A u \in Threads : u # t => worker'[u] = worker[u] /\ sends'[u] = sends[u]
      BY <1>1 DEF WorkerStep, Loop, Break, StartSend, Send, EndSend, Sleep, Close, End
    <2> QED
      BY <2>1, <2>2, <2>3
  <1>4. Size(ghost_map)' = Size(ghost_map)
    BY <1>3 DEF Size
  <1>5. \A u \in Threads : worker'[u] \in Alive => u = t
    BY <1>2, <1>3
  <1>6. ASSUME worker'[t] = "send" => sstp_thread_lock' = t /\ sends'[t] <= 1
        PROVE  Asked'
    BY <1>5, <1>6 DEF Asked, Alive
  <1>7. ASSUME host = "join" =>
                 \/ waited' + Left(t)' <= waited + Left(t)
                 \/ waited' = waited /\ Left(t)' = 0
        PROVE  Patience'
    <2>1. SUFFICES ASSUME host = "join"
                   PROVE  waited' + Left(t)' <= 2 * Size(ghost_map)
                          /\ waited' <= 2 * Size(ghost_map)
      BY <1>1, <1>3, <1>4, <1>5 DEF Patience
    <2>2. waited + Left(t) <= 2 * Size(ghost_map) /\ Left(t) \in Nat
      BY <1>1, <1>2, <2>1, TwoRounds DEF Patience
    <2>3. Left(t)' \in Nat /\ waited' \in Nat
      <3>1. IInv'
        BY <1>1, WorkerIInv
      <3>2. Size(ghost_map)' \in Nat /\ Size(asking)' \in Nat
        <4>1. TypeOK'
          BY <3>1 DEF IInv
        <4> QED
          BY <4>1, SstpAssumption, FS_Subset, FS_CardinalityType DEF TypeOK, Size
      <3>3. sends'[t] \in 0 .. 2 /\ waited' \in Nat
        BY <3>1, WiimoteAssumption DEF IInv, TypeOK
      <3> QED
        BY <3>2, <3>3 DEF Left, Rounds
    <2>4. waited <= 2 * Size(ghost_map)
      BY <1>1, <2>1 DEF Patience
    <2> QED
      BY <1>1, <1>7, <2>1, <2>2, <2>3, <2>4
  \* In the join the loop is not entered again.
  <1>8. ASSUME NEW n \in 0 .. 2, Loop(t, n)
        PROVE  Asked' /\ Patience'
    <2>1. host # "join" /\ worker'[t] = "body"
      BY <1>1, <1>8 DEF Loop, Patience
    <2> QED
      BY <1>6, <1>7, <2>1
  <1>9. CASE Break(t) \/ Sleep(t) \/ Close(t) \/ End(t)
    <2>1. worker'[t] \notin {"send", "body"} /\ waited' = waited
      BY <1>1, <1>9 DEF Break, Sleep, Close, End, hosting
    <2>2. Left(t)' = 0
      BY <2>1 DEF Left
    <2> QED
      BY <1>6, <1>7, <2>1, <2>2
  \* One round becomes the windows of all ghosts.
  <1>10. CASE StartSend(t)
    <2>1. /\ worker[t] = "body" /\ worker'[t] = "send" /\ waited' = waited
          /\ sends[t] > 0 /\ sends'[t] = sends[t] - 1
          /\ sstp_thread_lock' = t /\ asking' = ghost_map
      BY <1>1, <1>10 DEF StartSend, EnterSend, hosting
    <2>2. sends[t] \in {1, 2} /\ sends'[t] <= 1
      BY <1>1, <2>1
    <2>3. Left(t) = Rounds(sends[t]) /\ Left(t)' = Rounds(sends[t])
      <3>1. Left(t) = Rounds(sends[t])
        BY <2>1 DEF Left
      <3>2. Left(t)' = (IF sends'[t] = 0 THEN 0 ELSE Size(ghost_map)) + Size(ghost_map)
        BY <1>4, <2>1, <2>2 DEF Left, Rounds, Size
      <3> QED
        BY <1>1, <2>1, <2>2, <3>1, <3>2 DEF Rounds
    <2>4. Left(t) \in Nat
      BY <1>1, <1>2, TwoRounds
    <2>5. waited' + Left(t)' <= waited + Left(t)
      BY <1>1, <2>1, <2>3, <2>4
    <2>6. Asked'
      BY <1>6, <2>1, <2>2
    <2> QED
      BY <1>7, <2>5, <2>6
  \* A window takes a second at most.
  <1>11. ASSUME NEW g \in Ghosts, Send(t, g)
         PROVE  Asked' /\ Patience'
    <2>1. /\ worker[t] = "send" /\ UNCHANGED <<worker, sends, sstp_thread_lock>>
          /\ g \in asking /\ asking' = asking \ {g}
          /\ waited' = waited \/ waited' = waited + 1
      BY <1>11 DEF Send, AskGhost
    <2>2. Left(t) = Rounds(sends[t]) + Size(asking)
          /\ Left(t)' = Rounds(sends[t]) + Size(asking \ {g})
      BY <1>3, <2>1 DEF Left, Rounds, Size
    <2>3. Size(asking \ {g}) = Size(asking) - 1
      BY <1>1, <2>1, Sizes DEF IInv
    <2>4. Rounds(sends[t]) \in Nat
      BY <1>1 DEF Rounds
    <2>5. waited' + Left(t)' <= waited + Left(t)
      BY <1>1, <2>1, <2>2, <2>3, <2>4
    <2>6. sstp_thread_lock' = t /\ sends'[t] <= 1
      BY <1>1, <2>1 DEF Asked
    <2>7. Asked'
      BY <1>6, <2>6
    <2> QED
      BY <1>7, <2>5, <2>7
  <1>12. CASE EndSend(t)
    <2>1. /\ worker[t] = "send" /\ worker'[t] = "body" /\ sends' = sends /\ waited' = waited
      BY <1>1, <1>12 DEF EndSend, hosting
    <2>2. Left(t) = Rounds(sends[t]) + Size(asking) /\ Left(t)' = Rounds(sends[t])
      BY <1>3, <2>1 DEF Left, Rounds, Size
    <2>3. Rounds(sends[t]) \in Nat
      BY <1>1 DEF Rounds
    <2>4. waited' + Left(t)' <= waited + Left(t)
      BY <1>1, <2>1, <2>2, <2>3
    <2>5. Asked'
      BY <1>6, <2>1
    <2> QED
      BY <1>7, <2>4, <2>5
  <1> QED
    BY <1>8, <1>9, <1>10, <1>11, <1>12 DEF WorkerStep

(* In a step that kills a thread at work, unload has lost its patience.     *)
LEMMA Killing ==
  ASSUME KInv, [Next]_vars, NEW t \in Threads, worker'[t] = "killed",
         worker[t] \notin {"end", "killed"}
  PROVE  2 * Size(ghost_map) >= JoinLimit
  <1>1. worker \in [Threads -> WorkerPc] /\ thread_handle \in Threads \cup {NULL} /\ waited \in Nat
        /\ Size(ghost_map) \in Nat /\ JoinLimit \in Nat
    BY Sizes, WiimoteAssumption DEF KInv, IInv, TypeOK
  <1>2. worker' # worker
    OBVIOUS
  <1>3. ASSUME NEW u \in Threads, WorkerStep(u)
        PROVE  FALSE
    BY <1>1, <1>3 DEF WorkerStep, Loop, Break, StartSend, Send, EndSend, Sleep, Close, End
  <1>4. ASSUME NEW u \in Threads, Opened(u)
        PROVE  FALSE
    BY <1>1, <1>4 DEF Opened
  <1>5. ASSUME NEW killed \in BOOLEAN, Reap(killed)
        PROVE  FALSE
    BY <1>1, <1>5 DEF Reap
  <1>6. CASE JoinTimeout
    <2>1. /\ host = "join" /\ thread_handle \in Threads /\ worker[thread_handle] # "ended" /\ Late
          /\ worker' = [worker EXCEPT ![thread_handle] = "killed"]
      BY <1>1, <1>6 DEF JoinTimeout
    <2>2. t = thread_handle
      BY <1>1, <2>1
    <2>3. waited >= JoinLimit
      BY <2>1, <2>2 DEF Late
    <2>4. waited <= 2 * Size(ghost_map)
      BY <2>1 DEF KInv, Patience
    <2> QED
      BY <1>1, <2>3, <2>4
  <1>7. load \/ OnGhostListed \/ OnSecondChange \/ (\E e \in GhostEvent : OnGhost(e))
        \/ (\E detach \in BOOLEAN : Unload(detach)) \/ NotOpened \/ OpenedInVain \/ Joined
        \/ UNCHANGED vars => FALSE
    BY <1>2 DEF load, OnGhostListed, OnSecondChange, OnGhost, Unload, NotOpened, OpenedInVain,
                Joined, vars
  <1> QED
    BY <1>3, <1>4, <1>5, <1>6, <1>7 DEF Next, ReapStep, TimerStep, JoinStep

(***************************************************************************)
(* unload kills a thread at work only among so many ghosts that two rounds  *)
(* of one-second timeouts are longer than it waits, whatever their number   *)
(* and its limit (cplugin.cpp 166-170, wiimotegesture.cpp 71-74, 153).      *)
(***************************************************************************)
THEOREM OnlyAmongMany == Spec => KilledOnlyAmongMany
  <1>1. Init => KInv
    BY InitIInv DEF Init, KInv, Asked, Patience
  <1>2. KInv /\ [Next]_vars => KInv'
    <2> SUFFICES ASSUME KInv, [Next]_vars
                 PROVE  KInv'
      OBVIOUS
    <2>1. CASE UNCHANGED vars
      <3>1. IInv'
        <4>1. TypeOK'
          BY <2>1, Kept, Parts DEF vars, KInv, IInv
        <4> QED
          BY <2>1, <4>1 DEF vars, hosting, flags, sstp, KInv, IInv, OneThread, AtItsEnd, Reaping,
                            ListIsGuarded
      <3> QED
        BY <2>1, <3>1 DEF vars, hosting, flags, sstp, KInv, Asked, Patience, Left, Rounds, Size
    <2>2. CASE Next
      <3>1. IInv'
        BY <2>2, HostIInv, WorkerIInv DEF Next, KInv
      <3> QED
        BY <2>2, <3>1, HostKInv, WorkerKInv DEF Next, KInv
    <2> QED
      BY <2>1, <2>2
  <1>3. KInv /\ [Next]_vars =>
          [\A t \in Threads :
             (worker'[t] = "killed" /\ worker[t] \notin {"end", "killed"}) =>
               2 * Cardinality(ghost_map) >= JoinLimit]_vars
    BY Killing DEF Size
  <1> QED
    BY <1>1, <1>2, <1>3, PTL DEF Spec, KilledOnlyAmongMany

=============================================================================
