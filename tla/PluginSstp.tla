----------------------------- MODULE PluginSstp ------------------------------
(***************************************************************************)
(* What CPLUGIN gives every plugin besides its strings (cplugin.cpp): the   *)
(* list of the ghosts that run, kept by exec_before from the host's events, *)
(* and send_sstp, by which a thread of the plugin asks the window of every  *)
(* ghost in turn.  sstp_thread_lock guards the list.                        *)
(*                                                                          *)
(* A ghost is its path, the key of ghost_map; what else the list holds of   *)
(* it is left out.  No plugin gives send_sstp a window of its own.          *)
(***************************************************************************)
EXTENDS Naturals, FiniteSets

CONSTANTS Ghosts,   \* the ghosts of the host
          Threads   \* the threads that may call send_sstp

ASSUME SstpAssumption == IsFiniteSet(Ghosts) /\ Threads \subseteq Nat \ {0}

VARIABLES ghost_map,         \* the ghosts in the list
          sstp_thread_lock,  \* the thread in send_sstp; 0 is none
          asking             \* the ghosts its loop has still before it

FREE == 0
sstp == <<ghost_map, sstp_thread_lock, asking>>

SstpNew == ghost_map' = {} /\ sstp_thread_lock' = FREE /\ asking' = {}

SstpInit == ghost_map = {} /\ sstp_thread_lock = FREE /\ asking = {}

\* An event of the host about a ghost: OnGhostBoot and OnGhostInfoUpdate put
\* it in the list, OnGhostExit takes it out.
GhostEvent == [ghost : Ghosts, runs : BOOLEAN]

\* A bug for a mutant: the list is changed without the lock.
ListGhostUnlocked(e) ==
  /\ ghost_map' = IF e.runs THEN ghost_map \cup {e.ghost} ELSE ghost_map \ {e.ghost}
  /\ UNCHANGED <<sstp_thread_lock, asking>>

\* exec_before.
ListGhost(e) ==
  /\ sstp_thread_lock = FREE
  /\ ghost_map' = IF e.runs THEN ghost_map \cup {e.ghost} ELSE ghost_map \ {e.ghost}
  /\ UNCHANGED <<sstp_thread_lock, asking>>

\* send_sstp: in, a window, out.
EnterSend(t) ==
  /\ sstp_thread_lock = FREE
  /\ sstp_thread_lock' = t /\ asking' = ghost_map
  /\ UNCHANGED ghost_map

AskGhost(g) ==
  /\ g \in asking /\ asking' = asking \ {g}
  /\ UNCHANGED <<ghost_map, sstp_thread_lock>>

\* A bug for a mutant: the lock is kept.
LeaveSendLocked == asking = {} /\ UNCHANGED sstp

LeaveSend ==
  /\ asking = {}
  /\ sstp_thread_lock' = FREE
  /\ UNCHANGED <<ghost_map, asking>>

=============================================================================
