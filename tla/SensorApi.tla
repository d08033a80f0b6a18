----------------------------- MODULE SensorApi -------------------------------
(***************************************************************************)
(* The sensorapi plugin (impl_plugin/sensorapi): the list of the sensors    *)
(* it may read and the list of those it is denied, kept under m_lock by     *)
(* the callbacks of the Sensor API and by the thread of the baseware, which *)
(* tells the ghosts of both, one event in every OnSecondChange.             *)
(*                                                                          *)
(* A sensor is its SENSOR_ID, a number in the order of the map; connected   *)
(* again it is another ISensor, told apart by the count of connections.     *)
(* Numbers stand for CSensorAPIData, 0 for no entry.  What is told of a     *)
(* sensor besides its report is left out.                                   *)
(***************************************************************************)
EXTENDS Naturals, Sequences

CONSTANTS Sensors,    \* SENSOR_IDs
          Reports,    \* what a data report says
          Empty,      \* the report of no value
          MaxPlugs,   \* bound on the connections of a sensor
          MaxMoves,   \* bound on what the sensors do
          MaxData     \* bound on new CSensorAPIData

ASSUME SensorAssumption ==
  /\ Sensors \subseteq Nat /\ Empty \in Reports
  /\ MaxPlugs \in Nat \ {0} /\ MaxMoves \in Nat /\ MaxData \in Nat

VARIABLES
  \* the Sensor API
  plug,       \* plug[s]: the connections of s so far
  there,      \* the sensors connected
  state,      \* state[s]: is access to it denied?
  sinks,      \* the ISensors that have m_pSnsEvt as their sink
  managed,    \* the ISensorManager has m_pSnsMngEvt
  events,     \* the calls on their way
  moves,
  \* the plugin
  phase, todo, got,      \* load: the ISensors before it, the one whose state it has
  m_sensorlist, m_sensorlist_denied, m_sensorlist_updated,
  data,       \* the CSensorAPIData there have been
  freed,      \* history: those deleted
  second,     \* OnSecondChange: which of the two it goes for
  \* histories
  known,      \* the sensors the ghosts were told of last
  knownData,  \* knownData[s]: the report they were told last
  heard,      \* heard[s]: the state the plugin was told last
  reentered   \* the sensors that were added to one list when the other had them

os     == <<plug, there, state, managed, events, moves>>
lists  == <<m_sensorlist, m_sensorlist_denied, m_sensorlist_updated, data, freed, sinks>>
host   == <<phase, todo, got, second>>
ghosts == <<known, knownData>>
told   == <<heard, reentered>>
vars   == <<os, lists, host, ghosts, told>>

NONE   == 0
Datas  == DOMAIN data
States == {"ready", "denied"}   \* every state that is not ACCESS_DENIED is as good as READY
ISensor == [id : Sensors, plug : 1 .. MaxPlugs]
This(s) == [id |-> s, plug |-> plug[s]]

NewData(i) == [s |-> i, updated |-> FALSE, data |-> Empty, data_update |-> Empty]

Init ==
  /\ plug \in [Sensors -> {0, 1}] /\ state \in [Sensors -> States]
  /\ there = {s \in Sensors : plug[s] = 1}
  /\ sinks = {} /\ managed = FALSE /\ events = {} /\ moves = 0
  /\ phase = "off" /\ todo = {} /\ got = {}
  /\ m_sensorlist = [s \in Sensors |-> NONE] /\ m_sensorlist_denied = m_sensorlist
  /\ m_sensorlist_updated = FALSE
  /\ data = <<>> /\ freed = {}
  /\ second = "no"
  /\ known = {} /\ knownData = [s \in Sensors |-> Empty]
  /\ heard = [s \in Sensors |-> "ready"] /\ reentered = {}

-----------------------------------------------------------------------------
(* The Sensor API. *)

Moves == moves < MaxMoves /\ moves' = moves + 1
Raise(e) == events' = events \cup {e}
RaiseIf(sunk, e) == IF sunk THEN Raise(e) ELSE UNCHANGED events

Connect(s) ==
  /\ Moves /\ s \notin there /\ plug[s] < MaxPlugs
  /\ plug' = [plug EXCEPT ![s] = @ + 1] /\ there' = there \cup {s}
  /\ \E st \in States :
       /\ state' = [state EXCEPT ![s] = st]
       /\ RaiseIf(managed, [call |-> "OnSensorEnter", sensor |-> This(s)', state |-> st])
  /\ UNCHANGED <<managed, lists, host, ghosts, told>>

Disconnect(s) ==
  /\ Moves /\ s \in there /\ there' = there \ {s}
  /\ RaiseIf(This(s) \in sinks, [call |-> "OnLeave", sensor |-> This(s)])
  /\ UNCHANGED <<plug, state, managed, lists, host, ghosts, told>>

ChangeState(s) ==
  /\ Moves /\ s \in there
  /\ \E st \in States \ {state[s]} :
       /\ state' = [state EXCEPT ![s] = st]
       /\ RaiseIf(This(s) \in sinks,
                  [call |-> "OnStateChanged", sensor |-> This(s), state |-> st])
  /\ UNCHANGED <<plug, there, managed, lists, host, ghosts, told>>

Report(s) ==
  /\ Moves /\ s \in there /\ This(s) \in sinks /\ state[s] = "ready"
  /\ \E r \in Reports : Raise([call |-> "OnDataUpdated", sensor |-> This(s), report |-> r])
  /\ UNCHANGED <<plug, there, state, managed, lists, host, ghosts, told>>

-----------------------------------------------------------------------------
(* Under m_lock: what the callbacks do to the lists. *)

\* A bug for a mutant: a sensor is added whether its access is denied or not.
AddSensorAny(i, st) ==
  LET s == i.id IN
  /\ heard' = [heard EXCEPT ![s] = st]
  /\ IF m_sensorlist[s] # NONE
     THEN /\ data' = [data EXCEPT ![m_sensorlist[s]].s = i]
          /\ UNCHANGED <<m_sensorlist, m_sensorlist_updated, sinks, reentered>>
     ELSE /\ Len(data) < MaxData
          /\ data' = Append(data, NewData(i))
          /\ sinks' = sinks \cup {i}
          /\ m_sensorlist' = [m_sensorlist EXCEPT ![s] = Len(data')] /\ m_sensorlist_updated' = TRUE
          /\ UNCHANGED reentered
  /\ UNCHANGED <<m_sensorlist_denied, freed>>

\* SetSensor gives the entry another ISensor, which gets no sink.
AddSensor(i, st) ==
  LET s    == i.id
      here == IF st = "denied" THEN m_sensorlist_denied ELSE m_sensorlist
      else == IF st = "denied" THEN m_sensorlist ELSE m_sensorlist_denied
  IN /\ heard' = [heard EXCEPT ![s] = st]
     /\ \/ /\ here[s] # NONE
           /\ data' = [data EXCEPT ![here[s]].s = i]
           /\ UNCHANGED <<m_sensorlist, m_sensorlist_denied, m_sensorlist_updated, sinks,
                          reentered>>
        \/ /\ here[s] = NONE
           /\ Len(data) < MaxData
           /\ data' = Append(data, NewData(i))
           /\ sinks' = sinks \cup {i}
           /\ IF st = "denied"
              THEN /\ m_sensorlist_denied' = [m_sensorlist_denied EXCEPT ![s] = Len(data')]
                   /\ UNCHANGED <<m_sensorlist, m_sensorlist_updated>>
              ELSE /\ m_sensorlist' = [m_sensorlist EXCEPT ![s] = Len(data')]
                   /\ m_sensorlist_updated' = TRUE
                   /\ UNCHANGED m_sensorlist_denied
           /\ reentered' = IF else[s] = NONE THEN reentered ELSE reentered \cup {s}
     /\ UNCHANGED freed

UpdateData(d, r) ==
  data' = IF r = data[d].data THEN data
          ELSE [data EXCEPT ![d].data = r, ![d].updated = TRUE]

DataUpdateSensor(i, r) ==
  /\ IF m_sensorlist[i.id] = NONE THEN UNCHANGED data ELSE UpdateData(m_sensorlist[i.id], r)
  /\ UNCHANGED <<m_sensorlist, m_sensorlist_denied, m_sensorlist_updated, freed, sinks, told>>

StateChangeSensor(i, st) ==
  LET s == i.id IN
  /\ heard' = [heard EXCEPT ![s] = st]
  /\ \/ /\ st = "denied" /\ m_sensorlist[s] # NONE
        /\ m_sensorlist_denied' = [m_sensorlist_denied EXCEPT ![s] = m_sensorlist[s]]
        /\ m_sensorlist' = [m_sensorlist EXCEPT ![s] = NONE]
        /\ m_sensorlist_updated' = TRUE
     \/ /\ st # "denied" /\ m_sensorlist_denied[s] # NONE
        /\ m_sensorlist' = [m_sensorlist EXCEPT ![s] = m_sensorlist_denied[s]]
        /\ m_sensorlist_denied' = [m_sensorlist_denied EXCEPT ![s] = NONE]
        /\ m_sensorlist_updated' = TRUE
     \/ /\ (IF st = "denied" THEN m_sensorlist ELSE m_sensorlist_denied)[s] = NONE
        /\ UNCHANGED <<m_sensorlist, m_sensorlist_denied, m_sensorlist_updated>>
  /\ UNCHANGED <<data, freed, sinks, reentered>>

\* A bug for a mutant: what is deleted is looked up in the list of the sensors that may be read.
DeleteSensorListed(s) ==
  /\ freed' = freed \cup {m_sensorlist[s]}
  /\ sinks' = sinks \ {i \in sinks : i.id = s}
  /\ m_sensorlist' = [m_sensorlist EXCEPT ![s] = NONE]
  /\ m_sensorlist_denied' = IF m_sensorlist[s] # NONE THEN m_sensorlist_denied
                            ELSE [m_sensorlist_denied EXCEPT ![s] = NONE]
  /\ m_sensorlist_updated' = (m_sensorlist_updated \/ m_sensorlist[s] # NONE)
  /\ UNCHANGED <<data, told>>

\* ~CSensorAPIData takes the sink from the ISensor it has now.
DeleteSensor(s) ==
  /\ \/ /\ m_sensorlist[s] # NONE
        /\ freed' = freed \cup {m_sensorlist[s]} /\ sinks' = sinks \ {data[m_sensorlist[s]].s}
        /\ m_sensorlist' = [m_sensorlist EXCEPT ![s] = NONE] /\ m_sensorlist_updated' = TRUE
        /\ UNCHANGED m_sensorlist_denied
     \/ /\ m_sensorlist[s] = NONE /\ m_sensorlist_denied[s] # NONE
        /\ freed' = freed \cup {m_sensorlist_denied[s]}
        /\ sinks' = sinks \ {data[m_sensorlist_denied[s]].s}
        /\ m_sensorlist_denied' = [m_sensorlist_denied EXCEPT ![s] = NONE]
        /\ UNCHANGED <<m_sensorlist, m_sensorlist_updated>>
     \/ /\ m_sensorlist[s] = NONE /\ m_sensorlist_denied[s] = NONE
        /\ UNCHANGED <<m_sensorlist, m_sensorlist_denied, m_sensorlist_updated, freed, sinks>>
  /\ UNCHANGED <<data, told>>

\* A call of the Sensor API reaches the plugin.  Once the plugin is gone there is nobody to call.
Callback(e) ==
  /\ phase # "gone" /\ e \in events /\ events' = events \ {e}
  /\ \/ e.call = "OnSensorEnter"  /\ AddSensor(e.sensor, e.state)
     \/ e.call = "OnDataUpdated"  /\ DataUpdateSensor(e.sensor, e.report)
     \/ e.call = "OnStateChanged" /\ StateChangeSensor(e.sensor, e.state)
     \/ e.call = "OnLeave"        /\ DeleteSensor(e.sensor.id)
  /\ UNCHANGED <<plug, there, state, managed, moves, host, ghosts>>

-----------------------------------------------------------------------------
(* load and unload. *)

\* CoCreateInstance may fail, and load with it; the baseware then lets the plugin be.
load ==
  /\ phase = "off"
  /\ \/ phase' = "enum" /\ todo' = {This(s) : s \in there}
     \/ phase' = "gone" /\ UNCHANGED todo
  /\ UNCHANGED <<os, lists, got, second, ghosts, told>>

\* GetState fails for a sensor that has left, and the state is then what the stack had.
GetState ==
  /\ phase = "enum" /\ got = {}
  /\ \E i \in todo, st \in States :
       /\ i.id \in there /\ i = This(i.id) => st = state[i.id]
       /\ todo' = todo \ {i} /\ got' = {[sensor |-> i, state |-> st]}
  /\ UNCHANGED <<os, lists, phase, second, ghosts, told>>

AddFound ==
  /\ phase = "enum" /\ got' = {}
  /\ \E g \in got : AddSensor(g.sensor, g.state)
  /\ UNCHANGED <<os, phase, todo, second, ghosts>>

SetManagerSink ==
  /\ phase = "enum" /\ todo = {} /\ got = {}
  /\ managed' = TRUE /\ phase' = "loaded"
  /\ UNCHANGED <<plug, there, state, events, moves, lists, todo, got, second, ghosts, told>>

Listed(map) == {map[s] : s \in Sensors} \ {NONE}
Held == Listed(m_sensorlist) \cup Listed(m_sensorlist_denied)

\* unload: the lists under m_lock, and the sink of the manager after it.
ClearLists ==
  /\ phase = "loaded" /\ second = "no" /\ phase' = "cleared"
  /\ freed' = freed \cup Held
  /\ sinks' = sinks \ {data[d].s : d \in Held}
  /\ m_sensorlist' = [s \in Sensors |-> NONE] /\ m_sensorlist_denied' = [s \in Sensors |-> NONE]
  /\ UNCHANGED <<os, m_sensorlist_updated, data, todo, got, second, ghosts, told>>

LeaveManager ==
  /\ phase = "cleared" /\ phase' = "gone" /\ managed' = FALSE
  /\ UNCHANGED <<plug, there, state, events, moves, lists, todo, got, second, ghosts, told>>

-----------------------------------------------------------------------------
(* OnSecondChange: the flag is read before the lock is taken. *)

OnSecondChange ==
  /\ phase = "loaded" /\ second = "no"
  /\ second' = IF m_sensorlist_updated THEN "list" ELSE "data"
  /\ UNCHANGED <<os, lists, phase, todo, got, ghosts, told>>

TellList ==
  /\ second = "list" /\ second' = "no"
  /\ known' = {s \in Sensors : m_sensorlist[s] # NONE}
  /\ m_sensorlist_updated' = FALSE
  /\ UNCHANGED <<os, m_sensorlist, m_sensorlist_denied, data, freed, sinks, phase, todo, got,
                 knownData, told>>

\* CheckUpdateAndClear is true for s.
Changed(s) ==
  /\ m_sensorlist[s] # NONE /\ data[m_sensorlist[s]].updated
  /\ data[m_sensorlist[s]].data # data[m_sensorlist[s]].data_update
First(s) == Changed(s) /\ \A r \in Sensors : Changed(r) => s <= r
Clear(D) == [d \in Datas |-> IF d \in D THEN [data[d] EXCEPT !.updated = FALSE] ELSE data[d]]

\* A bug for a mutant: the loop goes on after the sensor it tells of.
TellDataOfAll ==
  /\ second = "data" /\ second' = "no"
  /\ \/ \E s \in Sensors :
          /\ First(s)
          /\ data' = [d \in Datas |->
                        IF d \in Listed(m_sensorlist)
                        THEN [data[d] EXCEPT !.updated = FALSE, !.data_update = data[d].data]
                        ELSE data[d]]
          /\ knownData' = [knownData EXCEPT ![s] = data[m_sensorlist[s]].data]
     \/ /\ \A s \in Sensors : ~Changed(s)
        /\ data' = Clear(Listed(m_sensorlist)) /\ UNCHANGED knownData
  /\ UNCHANGED <<os, m_sensorlist, m_sensorlist_denied, m_sensorlist_updated, freed, sinks,
                 phase, todo, got, known, told>>

\* The first sensor that has something to tell; the flags of those before it are cleared.
TellData ==
  /\ second = "data" /\ second' = "no"
  /\ \/ \E s \in Sensors :
          /\ First(s)
          /\ data' = [Clear({m_sensorlist[r] : r \in {q \in Sensors : q <= s}})
                        EXCEPT ![m_sensorlist[s]].data_update = data[m_sensorlist[s]].data]
          /\ knownData' = [knownData EXCEPT ![s] = data[m_sensorlist[s]].data]
     \/ /\ \A s \in Sensors : ~Changed(s)
        /\ data' = Clear(Listed(m_sensorlist)) /\ UNCHANGED knownData
  /\ UNCHANGED <<os, m_sensorlist, m_sensorlist_denied, m_sensorlist_updated, freed, sinks,
                 phase, todo, got, known, told>>

Sensing == \E s \in Sensors : Connect(s) \/ Disconnect(s) \/ ChangeState(s) \/ Report(s)
Loading  == load \/ GetState \/ AddFound \/ SetManagerSink
Seconds  == OnSecondChange \/ TellList \/ TellData

Next ==
  \/ Sensing
  \/ \E e \in events : Callback(e)
  \/ Loading \/ ClearLists \/ LeaveManager \/ Seconds

\* The baseware goes on in load and unload and raises OnSecondChange, and the Sensor API delivers
\* its calls.  No sensor need do anything.
Fairness ==
  /\ WF_vars(Loading) /\ WF_vars(LeaveManager) /\ WF_vars(Seconds)
  /\ WF_vars(\E e \in events : Callback(e))

Spec == Init /\ [][Next]_vars /\ Fairness

-----------------------------------------------------------------------------
(* Properties. *)

CSensorAPIData == [s : ISensor, updated : BOOLEAN, data : Reports, data_update : Reports]

Call ==
  [call : {"OnSensorEnter", "OnStateChanged"}, sensor : ISensor, state : States]
  \cup [call : {"OnLeave"}, sensor : ISensor]
  \cup [call : {"OnDataUpdated"}, sensor : ISensor, report : Reports]

\* Every variable stays in its type.
TypeOK ==
  /\ plug \in [Sensors -> 0 .. MaxPlugs] /\ there \subseteq Sensors
  /\ state \in [Sensors -> States] /\ sinks \subseteq ISensor /\ managed \in BOOLEAN
  /\ events \subseteq Call /\ moves \in 0 .. MaxMoves
  /\ phase \in {"off", "enum", "loaded", "cleared", "gone"}
  /\ todo \subseteq ISensor /\ got \subseteq [sensor : ISensor, state : States]
  /\ data \in Seq(CSensorAPIData) /\ Len(data) <= MaxData /\ freed \subseteq Datas
  /\ m_sensorlist \in [Sensors -> Datas \cup {NONE}]
  /\ m_sensorlist_denied \in [Sensors -> Datas \cup {NONE}]
  /\ m_sensorlist_updated \in BOOLEAN /\ second \in {"no", "list", "data"}
  /\ known \subseteq Sensors /\ knownData \in [Sensors -> Reports]
  /\ heard \in [Sensors -> States] /\ reentered \subseteq Sensors

\* One entry of one list has a CSensorAPIData, and none that was deleted: the callbacks and unload
\* delete each once.  None is lost, unless a sensor was added to one list while the other had it:
\* the next change of its state then writes one entry over the other.
DataHeldOnce ==
  /\ Held \cap freed = {}
  /\ \A r, s \in Sensors :
       /\ m_sensorlist[r] # NONE => m_sensorlist[r] # m_sensorlist_denied[s]
       /\ r # s /\ m_sensorlist[r] # NONE => m_sensorlist[r] # m_sensorlist[s]
       /\ r # s /\ m_sensorlist_denied[r] # NONE => m_sensorlist_denied[r] # m_sensorlist_denied[s]
  /\ reentered = {} => Held \cup freed = Datas

\* No ghost is told of a sensor that was denied to the plugin by what it heard last, whatever the
\* order in which the callbacks and the loop of load got the lock, unless the sensor was added to
\* one list while the other had it.
DeniedIsSilent ==
  \A s \in Sensors \ reentered : m_sensorlist[s] # NONE => heard[s] # "denied"

\* The lists and what the ghosts were told of them agree.
Told ==
  /\ known = {s \in Sensors : m_sensorlist[s] # NONE}
  /\ \A s \in known : data[m_sensorlist[s]].data \in {Empty, knownData[s]}

\* Once the sensors keep quiet, the ghosts get to know the list and the last report of every sensor
\* in it, though one OnSecondChange tells no more than one sensor, callbacks come in between, and
\* the flag of the list is read without the lock.
Settles == <>[][~Sensing]_vars => <>[](phase = "loaded" => Told)

=============================================================================
