-------------------------- MODULE SharedValueTimer --------------------------
(***************************************************************************)
(* The shared value plugin by the clock: SharedValue, with m_last_time as   *)
(* load, OnSecondChange and unload of                                       *)
(* impl_plugin/shared_value/shared_value.cpp keep it.  Here a save is due   *)
(* or not, and what is on the disk can be compared with what is in memory.  *)
(*                                                                          *)
(* time(NULL) is the clock on the wall, which somebody may set; the         *)
(* properties speak of the time that really passes.                         *)
(***************************************************************************)
EXTENDS SharedValue, Integers

CONSTANTS SaveAfter,   \* 55 in the code
          Interval,    \* secondchangeinterval, 10 in descript.txt
          Jumps,       \* by how much the clock may be set, forward or back
          MaxTime,     \* bound: the time that passes
          MaxMisses    \* bound: saves in a row that fail

ASSUME TimeAssumption ==
  /\ SaveAfter \in Nat \ {0} /\ Interval \in Nat \ {0}
  /\ Jumps \subseteq Int /\ MaxTime \in Nat /\ MaxMisses \in Nat

VARIABLES now,          \* the time
          clock,        \* time(NULL)
          m_last_time,  \* time(NULL) at the last save, or load
          dirty,        \* history: has a ghost written what no save has?
          heard,        \* history: when the last OnSecondChange, or load, came
          tried,        \* history: when m_last_time was taken
          since,        \* history: when the oldest change in dirty was made
          back,         \* history: by how much the clock was set back since tried
          misses        \* history: how many saves have failed since one went well

saving    == <<m_last_time, dirty, tried, back, misses>>
timing    == <<now, clock, heard, since, saving>>
timedVars == <<vars, timing>>

TimedInit ==
  /\ Init /\ dirty = FALSE
  /\ now = 0 /\ clock = 0 /\ m_last_time = 0
  /\ heard = 0 /\ tried = 0 /\ since = 0 /\ back = 0 /\ misses = 0

\* m_last_time is taken first, and whether the file opens or not.
TimedLoad(opens) ==
  /\ load(opens)
  /\ m_last_time' = clock
  /\ dirty' = FALSE /\ misses' = 0
  /\ heard' = now /\ tried' = now /\ back' = 0
  /\ UNCHANGED <<now, clock, since>>

\* unload() saves whatever the time is; what does not get to disk is gone, as in a crash.
TimedEnd ==
  /\ Crash \/ CrashInSave \/ \E how \in {"all", "none", "part"} : unload(how)
  /\ dirty' = FALSE
  /\ UNCHANGED <<now, clock, heard, since, m_last_time, tried, back, misses>>

TimedChange ==
  /\ Change
  /\ dirty' = TRUE
  /\ since' = IF dirty THEN since ELSE now
  /\ UNCHANGED <<now, clock, heard, m_last_time, tried, back, misses>>

TimedQuestion == Question /\ UNCHANGED timing

Due == clock - m_last_time >= SaveAfter

\* m_last_time is taken also when the file does not open, or the disk is full.
SaveNow(how) ==
  /\ OnSecondChange(how)
  /\ m_last_time' = clock
  /\ tried' = now /\ back' = 0
  /\ IF how = "all" THEN dirty' = FALSE /\ misses' = 0
                    ELSE misses < MaxMisses /\ misses' = misses + 1 /\ dirty' = dirty

\* A bug for a mutant: the time of the last event is kept, not of the last save.
TimedSecondResets ==
  /\ heard' = now
  /\ \/ Due /\ \E how \in {"all", "none", "part"} : SaveNow(how)
     \/ ~Due /\ OnSecondChange("none") /\ m_last_time' = clock
        /\ UNCHANGED <<dirty, tried, back, misses>>
  /\ UNCHANGED <<now, clock, since>>

TimedSecond ==
  /\ heard' = now
  /\ \/ Due /\ \E how \in {"all", "none", "part"} : SaveNow(how)
     \/ ~Due /\ OnSecondChange("none") /\ UNCHANGED saving
  /\ UNCHANGED <<now, clock, since>>

\* Time passes; the host raises OnSecondChange at least every Interval.
Tick ==
  /\ now < MaxTime
  /\ up => now - heard < Interval
  /\ now' = now + 1 /\ clock' = clock + 1
  /\ UNCHANGED <<vars, heard, since, saving>>

SetClock(d) ==
  /\ clock' = clock + d
  /\ back' = IF d < 0 THEN back - d ELSE back
  /\ UNCHANGED <<vars, now, heard, since, m_last_time, dirty, tried, misses>>

TimedNext ==
  \/ TimedEnd \/ TimedChange \/ TimedQuestion \/ TimedSecond \/ Tick
  \/ \E opens \in BOOLEAN : TimedLoad(opens)
  \/ \E d \in Jumps : SetClock(d)

TimedSpec == TimedInit /\ [][TimedNext]_timedVars

-----------------------------------------------------------------------------
(* Properties. *)

TimedTypeOK ==
  /\ dirty \in BOOLEAN
  /\ now \in Nat /\ clock \in Int /\ m_last_time \in Int
  /\ heard \in 0 .. now /\ tried \in 0 .. heard /\ since \in 0 .. now
  /\ back \in Nat /\ misses \in 0 .. MaxMisses

\* A crash now loses something: the areas are not those the file brought, and
\* the file is not the one they would make.
Unsaved ==
  /\ up /\ m_ghost_values # <<>>
  /\ m_ghost_values # LoadLines(file) /\ file # SaveLines(m_ghost_values)

(***************************************************************************)
(* The changes a crash can lose are those of the last SaveAfter + Interval  *)
(* seconds, a minute and a bit (405-413), unless a save did not go well,    *)
(* or the clock was set back: each second back is a second more.            *)
(***************************************************************************)
BoundedLoss ==
  Unsaved /\ misses = 0 => dirty /\ now - since <= SaveAfter + Interval - 1 + back

=============================================================================
