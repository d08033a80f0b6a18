-------------------------- MODULE SensorApiProofs -----------------------------
(***************************************************************************)
(* Proofs about SensorApi: the types, that the two lists of the plugin hold *)
(* every CSensorAPIData once, and that no sensor denied is told of.         *)
(***************************************************************************)
EXTENDS SensorApi, SequenceTheorems, TLAPS

\* TypeOK by the groups of variables.
OsTyped ==
  /\ plug \in [Sensors -> 0 .. MaxPlugs] /\ there \subseteq Sensors
  /\ state \in [Sensors -> States] /\ managed \in BOOLEAN
  /\ events \subseteq Call /\ moves \in 0 .. MaxMoves
DataTyped == data \in Seq(CSensorAPIData) /\ Len(data) <= MaxData /\ freed \subseteq Datas
MapsTyped ==
  /\ m_sensorlist \in [Sensors -> Datas \cup {NONE}]
  /\ m_sensorlist_denied \in [Sensors -> Datas \cup {NONE}]
FlagsTyped == m_sensorlist_updated \in BOOLEAN /\ sinks \subseteq ISensor
HostTyped ==
  /\ phase \in {"off", "enum", "loaded", "cleared", "gone"}
  /\ todo \subseteq ISensor /\ got \subseteq [sensor : ISensor, state : States]
  /\ second \in {"no", "list", "data"}
GhostsTyped == known \subseteq Sensors /\ knownData \in [Sensors -> Reports]
ToldTyped == heard \in [Sensors -> States] /\ reentered \subseteq Sensors

\* A sensor that is there was connected at least once, so that This of it is an ISensor.
ThereIsPlugged == \A s \in there : plug[s] # 0

\* A sensor is in both lists only if it was added to one while the other had it.
BothOnlyReentered ==
  \A s \in Sensors : m_sensorlist[s] # NONE /\ m_sensorlist_denied[s] # NONE => s \in reentered

Typed == TypeOK /\ ThereIsPlugged
Lists == DataHeldOnce /\ BothOnlyReentered /\ DeniedIsSilent

LEMMA Parts ==
  TypeOK <=> OsTyped /\ DataTyped /\ MapsTyped /\ FlagsTyped /\ HostTyped /\ GhostsTyped /\ ToldTyped
BY DEF TypeOK, OsTyped, DataTyped, MapsTyped, FlagsTyped, HostTyped, GhostsTyped, ToldTyped

LEMMA PartsNext ==
  TypeOK' <=> OsTyped' /\ DataTyped' /\ MapsTyped' /\ FlagsTyped' /\ HostTyped' /\ GhostsTyped' /\ ToldTyped'
BY DEF TypeOK, OsTyped, DataTyped, MapsTyped, FlagsTyped, HostTyped, GhostsTyped, ToldTyped

\* A group that does not change keeps its type.
LEMMA OsKept == ASSUME UNCHANGED os, OsTyped, ThereIsPlugged PROVE OsTyped' /\ ThereIsPlugged'
BY DEF os, OsTyped, ThereIsPlugged
LEMMA ListsKept == ASSUME UNCHANGED lists, DataTyped, MapsTyped, FlagsTyped
                   PROVE DataTyped' /\ MapsTyped' /\ FlagsTyped'
BY DEF lists, DataTyped, MapsTyped, FlagsTyped, Datas
LEMMA HostKept == ASSUME UNCHANGED host, HostTyped PROVE HostTyped'
BY DEF host, HostTyped
LEMMA GhostsKept == ASSUME UNCHANGED ghosts, GhostsTyped PROVE GhostsTyped'
BY DEF ghosts, GhostsTyped
LEMMA ToldKept == ASSUME UNCHANGED told, ToldTyped PROVE ToldTyped'
BY DEF told, ToldTyped

-----------------------------------------------------------------------------
(* Sequences. *)

\* The entries of a sequence change, not how many there are.
LEMMA SameLength ==
  ASSUME NEW S, NEW f \in Seq(S), NEW g \in [DOMAIN f -> S]
  PROVE  g \in Seq(S) /\ DOMAIN g = DOMAIN f /\ Len(g) = Len(f)
<1>1. Len(f) \in Nat /\ DOMAIN f = 1 .. Len(f)
  BY LenProperties
<1>2. g \in [1 .. Len(f) -> S]
  BY <1>1
<1>3. g \in Seq(S)
  BY <1>1, <1>2, SeqDef
<1>4. DOMAIN g = 1 .. Len(f)
  BY <1>2
<1>5. Len(g) = Len(f)
  BY <1>1, <1>3, <1>4, LenProperties
<1> QED
  BY <1>1, <1>3, <1>4, <1>5

LEMMA SameData ==
  ASSUME NEW g \in [Datas -> CSensorAPIData], DataTyped, MapsTyped, data' = g,
         UNCHANGED <<freed, m_sensorlist, m_sensorlist_denied>>
  PROVE  DataTyped' /\ MapsTyped' /\ Datas' = Datas
<1>1. g \in Seq(CSensorAPIData) /\ DOMAIN g = DOMAIN data /\ Len(g) = Len(data)
  BY SameLength DEF DataTyped, Datas
<1>2. Datas' = Datas
  BY <1>1 DEF Datas
<1> QED
  BY <1>1, <1>2 DEF DataTyped, MapsTyped

-----------------------------------------------------------------------------
(* What the sensors do. *)

LEMMA ThisTyped ==
  ASSUME OsTyped, ThereIsPlugged, NEW s \in there
  PROVE  This(s) \in ISensor
<1>1. s \in Sensors /\ plug[s] \in 0 .. MaxPlugs /\ plug[s] # 0
  BY DEF OsTyped, ThereIsPlugged
<1>2. plug[s] \in 1 .. MaxPlugs
  BY <1>1, SensorAssumption
<1> QED
  BY <1>1, <1>2 DEF This, ISensor

LEMMA Raised ==
  ASSUME events \subseteq Call, NEW e \in Call, NEW sunk, RaiseIf(sunk, e)
  PROVE  events' \subseteq Call
BY DEF RaiseIf, Raise

LEMMA Moved == ASSUME OsTyped, Moves PROVE moves' \in 0 .. MaxMoves
BY SensorAssumption DEF OsTyped, Moves

LEMMA Sensed ==
  ASSUME OsTyped, ThereIsPlugged, NEW s \in Sensors,
         Connect(s) \/ Disconnect(s) \/ ChangeState(s) \/ Report(s)
  PROVE  OsTyped' /\ ThereIsPlugged' /\ UNCHANGED <<lists, host, ghosts, told>>
<1>1. CASE Connect(s)
  <2>1. /\ Moves /\ plug[s] < MaxPlugs
        /\ plug' = [plug EXCEPT ![s] = @ + 1] /\ there' = there \cup {s}
        /\ UNCHANGED <<managed, lists, host, ghosts, told>>
    BY <1>1 DEF Connect
  <2>2. plug' \in [Sensors -> 0 .. MaxPlugs] /\ plug'[s] \in 1 .. MaxPlugs
    BY <2>1, SensorAssumption DEF OsTyped
  <2>3. ThereIsPlugged'
    <3>1. \A r \in Sensors \ {s} : plug'[r] = plug[r]
      BY <2>1 DEF OsTyped
    <3> QED
      BY <2>1, <2>2, <3>1 DEF ThereIsPlugged, OsTyped
  <2>4. This(s)' \in ISensor
    BY <2>2 DEF This, ISensor
  <2>5. PICK st \in States :
          /\ state' = [state EXCEPT ![s] = st]
          /\ RaiseIf(managed, [call |-> "OnSensorEnter", sensor |-> This(s)', state |-> st])
    BY <1>1 DEF Connect
  <2>6. [call |-> "OnSensorEnter", sensor |-> This(s)', state |-> st] \in Call
    BY <2>4 DEF Call
  <2>7. events' \subseteq Call
    BY <2>5, <2>6, Raised DEF OsTyped
  <2> QED
    BY <2>1, <2>2, <2>3, <2>5, <2>7, Moved DEF OsTyped
<1>2. CASE Disconnect(s)
  <2>1. /\ Moves /\ s \in there /\ there' = there \ {s}
        /\ RaiseIf(This(s) \in sinks, [call |-> "OnLeave", sensor |-> This(s)])
        /\ UNCHANGED <<plug, state, managed, lists, host, ghosts, told>>
    BY <1>2 DEF Disconnect
  <2>2. [call |-> "OnLeave", sensor |-> This(s)] \in Call
    BY <2>1, ThisTyped DEF Call
  <2>3. events' \subseteq Call
    BY <2>1, <2>2, Raised DEF OsTyped
  <2> QED
    BY <2>1, <2>3, Moved DEF OsTyped, ThereIsPlugged
<1>3. CASE ChangeState(s)
  <2>1. Moves /\ s \in there /\ UNCHANGED <<plug, there, managed, lists, host, ghosts, told>>
    BY <1>3 DEF ChangeState
  <2>2. PICK st \in States \ {state[s]} :
          /\ state' = [state EXCEPT ![s] = st]
          /\ RaiseIf(This(s) \in sinks,
                     [call |-> "OnStateChanged", sensor |-> This(s), state |-> st])
    BY <1>3 DEF ChangeState
  <2>3. [call |-> "OnStateChanged", sensor |-> This(s), state |-> st] \in Call
    BY <2>1, ThisTyped DEF Call
  <2>4. events' \subseteq Call
    BY <2>2, <2>3, Raised DEF OsTyped
  <2> QED
    BY <2>1, <2>2, <2>4, Moved DEF OsTyped, ThereIsPlugged
<1>4. CASE Report(s)
  <2>1. Moves /\ s \in there /\ UNCHANGED <<plug, there, state, managed, lists, host, ghosts, told>>
    BY <1>4 DEF Report
  <2>2. PICK r \in Reports :
          events' = events \cup {[call |-> "OnDataUpdated", sensor |-> This(s), report |-> r]}
    BY <1>4 DEF Report, Raise
  <2>3. [call |-> "OnDataUpdated", sensor |-> This(s), report |-> r] \in Call
    BY <2>1, ThisTyped DEF Call
  <2> QED
    BY <2>1, <2>2, <2>3, Moved DEF OsTyped, ThereIsPlugged
<1> QED
  BY <1>1, <1>2, <1>3, <1>4

-----------------------------------------------------------------------------
(* What the callbacks do to the types. *)

LEMMA Added ==
  ASSUME DataTyped, MapsTyped, FlagsTyped, ToldTyped,
         NEW i \in ISensor, NEW st \in States, AddSensor(i, st)
  PROVE  DataTyped' /\ MapsTyped' /\ FlagsTyped' /\ ToldTyped'
<1> DEFINE s == i.id
           here == IF st = "denied" THEN m_sensorlist_denied ELSE m_sensorlist
           else == IF st = "denied" THEN m_sensorlist ELSE m_sensorlist_denied
<1>1. /\ s \in Sensors
      /\ heard' = [heard EXCEPT ![s] = st] /\ UNCHANGED freed
      /\ here \in [Sensors -> Datas \cup {NONE}]
  BY DEF AddSensor, ISensor, MapsTyped
<1>2. heard' \in [Sensors -> States]
  BY <1>1 DEF ToldTyped
<1>3. CASE /\ here[s] # NONE
           /\ data' = [data EXCEPT ![here[s]].s = i]
           /\ UNCHANGED <<m_sensorlist, m_sensorlist_denied, m_sensorlist_updated, sinks, reentered>>
  <2>1. here[s] \in Datas
    BY <1>1, <1>3
  <2>2. data[here[s]] \in CSensorAPIData
    BY <2>1, ElementOfSeq, LenProperties DEF DataTyped, Datas
  <2>3. [data[here[s]] EXCEPT !.s = i] \in CSensorAPIData
    BY <2>2 DEF CSensorAPIData
  <2>4. data \in [Datas -> CSensorAPIData]
    BY SeqDef DEF DataTyped, Datas
  <2>5. data' \in [Datas -> CSensorAPIData]
    BY <1>3, <2>1, <2>3, <2>4
  <2>6. DataTyped' /\ MapsTyped'
    BY <1>1, <1>3, <2>5, SameData
  <2> QED
    BY <1>2, <1>3, <2>6 DEF FlagsTyped, ToldTyped
<1>4. CASE /\ here[s] = NONE
           /\ Len(data) < MaxData
           /\ data' = Append(data, NewData(i))
           /\ sinks' = sinks \cup {i}
           /\ IF st = "denied"
              THEN /\ m_sensorlist_denied' = [m_sensorlist_denied EXCEPT ![s] = Len(data')]
                   /\ UNCHANGED <<m_sensorlist, m_sensorlist_updated>>
              ELSE /\ m_sensorlist' = [m_sensorlist EXCEPT ![s] = Len(data')]
                   /\ m_sensorlist_updated' = TRUE
                   /\ UNCHANGED m_sensorlist_denied
           /\ reentered' = IF else[s] = NONE THEN reentered ELSE reentered \cup {s}
  <2>1. NewData(i) \in CSensorAPIData
    BY SensorAssumption DEF NewData, CSensorAPIData
  <2>2. /\ data' \in Seq(CSensorAPIData) /\ Len(data') = Len(data) + 1
        /\ Len(data) \in Nat
    BY <1>4, <2>1, AppendProperties, LenProperties DEF DataTyped
  <2>3. Datas = 1 .. Len(data) /\ Datas' = 1 .. Len(data')
    BY <2>2, LenProperties DEF DataTyped, Datas
  <2>4. Datas \subseteq Datas' /\ Len(data') \in Datas'
    BY <2>2, <2>3
  <2>5. DataTyped'
    BY <1>1, <1>4, <2>2, <2>4, SensorAssumption DEF DataTyped
  <2>6. MapsTyped'
    BY <1>1, <1>4, <2>4 DEF MapsTyped
  <2>7. FlagsTyped'
    BY <1>4 DEF FlagsTyped
  <2>8. ToldTyped'
    BY <1>1, <1>2, <1>4 DEF ToldTyped
  <2> QED
    BY <2>5, <2>6, <2>7, <2>8
<1> QED
  BY <1>3, <1>4 DEF AddSensor

LEMMA Entry ==
  ASSUME DataTyped, MapsTyped, NEW s \in Sensors, m_sensorlist[s] # NONE
  PROVE  m_sensorlist[s] \in Datas /\ data[m_sensorlist[s]] \in CSensorAPIData
<1>1. m_sensorlist[s] \in Datas
  BY DEF MapsTyped
<1>2. data \in [Datas -> CSensorAPIData]
  BY SeqDef DEF DataTyped, Datas
<1> QED
  BY <1>1, <1>2

LEMMA EntryDenied ==
  ASSUME DataTyped, MapsTyped, NEW s \in Sensors, m_sensorlist_denied[s] # NONE
  PROVE  m_sensorlist_denied[s] \in Datas
BY DEF MapsTyped

LEMMA Updated ==
  ASSUME DataTyped, MapsTyped, FlagsTyped, ToldTyped,
         NEW i \in ISensor, NEW r \in Reports, DataUpdateSensor(i, r)
  PROVE  DataTyped' /\ MapsTyped' /\ FlagsTyped' /\ ToldTyped' /\ Datas' = Datas
<1> DEFINE d == m_sensorlist[i.id]
<1>1. /\ i.id \in Sensors
      /\ UNCHANGED <<m_sensorlist, m_sensorlist_denied, m_sensorlist_updated, freed, sinks, told>>
  BY DEF DataUpdateSensor, ISensor
<1>2. FlagsTyped' /\ ToldTyped'
  BY <1>1, ToldKept DEF FlagsTyped
<1>3. CASE d # NONE /\ data' = [data EXCEPT ![d].data = r, ![d].updated = TRUE]
  <2>1. d \in Datas /\ data[d] \in CSensorAPIData
    BY <1>1, <1>3, Entry
  <2>2. [data[d] EXCEPT !.data = r, !.updated = TRUE] \in CSensorAPIData
    BY <2>1 DEF CSensorAPIData
  <2>3. data \in [Datas -> CSensorAPIData]
    BY SeqDef DEF DataTyped, Datas
  <2>4. data' = [data EXCEPT ![d] = [data[d] EXCEPT !.data = r, !.updated = TRUE]]
    BY <1>3, <2>1, <2>3 DEF CSensorAPIData
  <2>5. data' \in [Datas -> CSensorAPIData]
    BY <2>1, <2>2, <2>3, <2>4
  <2> QED
    BY <1>1, <1>2, <2>5, SameData
<1>4. CASE data' = data
  BY <1>1, <1>2, <1>4 DEF DataTyped, MapsTyped, Datas
<1> QED
  BY <1>3, <1>4 DEF DataUpdateSensor, UpdateData

LEMMA StateChanged ==
  ASSUME DataTyped, MapsTyped, FlagsTyped, ToldTyped,
         NEW i \in ISensor, NEW st \in States, StateChangeSensor(i, st)
  PROVE  DataTyped' /\ MapsTyped' /\ FlagsTyped' /\ ToldTyped' /\ Datas' = Datas
<1>1. i.id \in Sensors /\ heard' = [heard EXCEPT ![i.id] = st] /\ UNCHANGED <<data, freed, sinks, reentered>>
  BY DEF StateChangeSensor, ISensor
<1>2. ToldTyped' /\ DataTyped' /\ Datas' = Datas
  BY <1>1 DEF ToldTyped, DataTyped, Datas
<1>3. MapsTyped' /\ m_sensorlist_updated' \in BOOLEAN
  BY <1>1, <1>2 DEF MapsTyped, FlagsTyped, StateChangeSensor
<1> QED
  BY <1>1, <1>2, <1>3 DEF FlagsTyped

LEMMA Deleted ==
  ASSUME DataTyped, MapsTyped, FlagsTyped, ToldTyped, NEW s \in Sensors, DeleteSensor(s)
  PROVE  DataTyped' /\ MapsTyped' /\ FlagsTyped' /\ ToldTyped' /\ Datas' = Datas
<1>1. UNCHANGED <<data, told>>
  BY DEF DeleteSensor
<1>2. ToldTyped' /\ Datas' = Datas
  BY <1>1, ToldKept DEF Datas
<1>3. freed' \subseteq Datas
  BY Entry, EntryDenied DEF DeleteSensor, DataTyped
<1>4. MapsTyped' /\ FlagsTyped'
  BY <1>2 DEF DeleteSensor, MapsTyped, FlagsTyped
<1> QED
  BY <1>1, <1>2, <1>3, <1>4 DEF DataTyped

\* Every call has the fields of its kind.
LEMMA CallFields ==
  ASSUME NEW e \in Call
  PROVE  /\ e.sensor \in ISensor
         /\ e.call \in {"OnSensorEnter", "OnStateChanged"} => e.state \in States
         /\ e.call = "OnDataUpdated" => e.report \in Reports
BY DEF Call

LEMMA Called ==
  ASSUME Typed, NEW e \in events, Callback(e)
  PROVE  Typed'
<1>1. /\ OsTyped /\ DataTyped /\ MapsTyped /\ FlagsTyped /\ HostTyped /\ GhostsTyped /\ ToldTyped
      /\ ThereIsPlugged
  BY Parts DEF Typed
<1>2. /\ events' = events \ {e}
      /\ UNCHANGED <<plug, there, state, managed, moves, host, ghosts>>
  BY DEF Callback
<1>3. OsTyped' /\ ThereIsPlugged' /\ HostTyped' /\ GhostsTyped'
  BY <1>1, <1>2, HostKept, GhostsKept DEF OsTyped, ThereIsPlugged
<1>4. e \in Call
  BY <1>1 DEF OsTyped
<1>5. e.sensor \in ISensor /\ e.sensor.id \in Sensors
  BY <1>4, CallFields DEF ISensor
<1>6. DataTyped' /\ MapsTyped' /\ FlagsTyped' /\ ToldTyped'
  <2>1. CASE e.call = "OnSensorEnter" /\ AddSensor(e.sensor, e.state)
    BY <1>1, <1>4, <1>5, <2>1, CallFields, Added
  <2>2. CASE e.call = "OnDataUpdated" /\ DataUpdateSensor(e.sensor, e.report)
    BY <1>1, <1>4, <1>5, <2>2, CallFields, Updated
  <2>3. CASE e.call = "OnStateChanged" /\ StateChangeSensor(e.sensor, e.state)
    BY <1>1, <1>4, <1>5, <2>3, CallFields, StateChanged
  <2>4. CASE e.call = "OnLeave" /\ DeleteSensor(e.sensor.id)
    BY <1>1, <1>5, <2>4, Deleted
  <2> QED
    BY <2>1, <2>2, <2>3, <2>4 DEF Callback
<1> QED
  BY <1>3, <1>6, PartsNext DEF Typed

-----------------------------------------------------------------------------
(* The baseware's thread. *)

LEMMA Loaded ==
  ASSUME Typed, Loading
  PROVE  Typed'
<1>1. /\ OsTyped /\ DataTyped /\ MapsTyped /\ FlagsTyped /\ HostTyped /\ GhostsTyped /\ ToldTyped
      /\ ThereIsPlugged
  BY Parts DEF Typed
<1>2. CASE load
  <2>1. UNCHANGED <<os, lists, got, second, ghosts, told>> /\ phase' \in {"enum", "gone"}
    BY <1>2 DEF load
  <2>2. \A s \in there : This(s) \in ISensor
    BY <1>1, ThisTyped
  <2>3. todo' \subseteq ISensor
    BY <1>1, <1>2, <2>2 DEF load, HostTyped
  <2>4. HostTyped'
    BY <1>1, <2>1, <2>3 DEF HostTyped
  <2> QED
    BY <1>1, <2>1, <2>4, OsKept, ListsKept, GhostsKept, ToldKept, PartsNext DEF Typed
<1>3. CASE GetState
  <2>1. UNCHANGED <<os, lists, phase, second, ghosts, told>>
    BY <1>3 DEF GetState
  <2>2. PICK i \in todo, st \in States :
          todo' = todo \ {i} /\ got' = {[sensor |-> i, state |-> st]}
    BY <1>3 DEF GetState
  <2>3. HostTyped'
    BY <1>1, <2>1, <2>2 DEF HostTyped
  <2> QED
    BY <1>1, <2>1, <2>3, OsKept, ListsKept, GhostsKept, ToldKept, PartsNext DEF Typed
<1>4. CASE AddFound
  <2>1. got' = {} /\ UNCHANGED <<os, phase, todo, second, ghosts>>
    BY <1>4 DEF AddFound
  <2>2. PICK g \in got : AddSensor(g.sensor, g.state)
    BY <1>4 DEF AddFound
  <2>3. g.sensor \in ISensor /\ g.state \in States
    BY <1>1 DEF HostTyped
  <2>4. DataTyped' /\ MapsTyped' /\ FlagsTyped' /\ ToldTyped'
    BY <1>1, <2>2, <2>3, Added
  <2>5. HostTyped'
    BY <1>1, <2>1 DEF HostTyped
  <2> QED
    BY <1>1, <2>1, <2>4, <2>5, OsKept, GhostsKept, PartsNext DEF Typed
<1>5. CASE SetManagerSink
  <2>1. /\ managed' = TRUE /\ phase' = "loaded"
        /\ UNCHANGED <<plug, there, state, events, moves, lists, todo, got, second, ghosts, told>>
    BY <1>5 DEF SetManagerSink
  <2>2. OsTyped' /\ ThereIsPlugged' /\ HostTyped'
    BY <1>1, <2>1 DEF OsTyped, ThereIsPlugged, HostTyped
  <2> QED
    BY <1>1, <2>1, <2>2, ListsKept, GhostsKept, ToldKept, PartsNext DEF Typed
<1> QED
  BY <1>2, <1>3, <1>4, <1>5 DEF Loading

LEMMA Unloaded ==
  ASSUME Typed, ClearLists \/ LeaveManager
  PROVE  Typed'
<1>1. /\ OsTyped /\ DataTyped /\ MapsTyped /\ FlagsTyped /\ HostTyped /\ GhostsTyped /\ ToldTyped
      /\ ThereIsPlugged
  BY Parts DEF Typed
<1>2. CASE ClearLists
  <2>1. /\ phase' = "cleared" /\ freed' = freed \cup Held
        /\ sinks' \subseteq sinks
        /\ m_sensorlist' = [s \in Sensors |-> NONE] /\ m_sensorlist_denied' = [s \in Sensors |-> NONE]
        /\ UNCHANGED <<os, m_sensorlist_updated, data, todo, got, second, ghosts, told>>
    BY <1>2 DEF ClearLists
  <2>2. Held \subseteq Datas
    BY <1>1 DEF Held, Listed, MapsTyped
  <2>3. DataTyped' /\ MapsTyped' /\ FlagsTyped'
    BY <1>1, <2>1, <2>2 DEF DataTyped, MapsTyped, FlagsTyped, Datas
  <2>4. HostTyped'
    BY <1>1, <2>1 DEF HostTyped
  <2> QED
    BY <1>1, <2>1, <2>3, <2>4, OsKept, GhostsKept, ToldKept, PartsNext DEF Typed
<1>3. CASE LeaveManager
  <2>1. /\ phase' = "gone" /\ managed' = FALSE
        /\ UNCHANGED <<plug, there, state, events, moves, lists, todo, got, second, ghosts, told>>
    BY <1>3 DEF LeaveManager
  <2>2. OsTyped' /\ ThereIsPlugged' /\ HostTyped'
    BY <1>1, <2>1 DEF OsTyped, ThereIsPlugged, HostTyped
  <2> QED
    BY <1>1, <2>1, <2>2, ListsKept, GhostsKept, ToldKept, PartsNext DEF Typed
<1> QED
  BY <1>2, <1>3

LEMMA Cleared ==
  ASSUME DataTyped, NEW D
  PROVE  Clear(D) \in [Datas -> CSensorAPIData]
<1>1. data \in [Datas -> CSensorAPIData]
  BY SeqDef DEF DataTyped, Datas
<1>2. ASSUME NEW d \in Datas PROVE [data[d] EXCEPT !.updated = FALSE] \in CSensorAPIData
  <2>1. data[d] \in CSensorAPIData
    BY <1>1
  <2> QED
    BY <2>1 DEF CSensorAPIData
<1> QED
  BY <1>1, <1>2 DEF Clear

LEMMA DataTold ==
  ASSUME DataTyped, MapsTyped, GhostsTyped, TellData
  PROVE  /\ data' \in [Datas -> CSensorAPIData] /\ GhostsTyped'
         /\ UNCHANGED <<freed, m_sensorlist, m_sensorlist_denied>>
<1>1. /\ UNCHANGED <<os, m_sensorlist, m_sensorlist_denied, m_sensorlist_updated, freed, sinks,
                     phase, todo, got, known, told>>
  BY DEF TellData
<1>2. ASSUME NEW s \in Sensors, First(s), NEW D,
             data' = [Clear(D) EXCEPT ![m_sensorlist[s]].data_update = data[m_sensorlist[s]].data],
             knownData' = [knownData EXCEPT ![s] = data[m_sensorlist[s]].data]
      PROVE  data' \in [Datas -> CSensorAPIData] /\ GhostsTyped'
  <2> DEFINE d == m_sensorlist[s]
  <2>1. d \in Datas /\ data[d] \in CSensorAPIData
    BY <1>2, Entry DEF First, Changed
  <2>2. data[d].data \in Reports
    BY <2>1 DEF CSensorAPIData
  <2>3. Clear(D) \in [Datas -> CSensorAPIData]
    BY Cleared
  <2>4. Clear(D)[d] \in CSensorAPIData
    BY <2>1, <2>3
  <2>5. [Clear(D)[d] EXCEPT !.data_update = data[d].data] \in CSensorAPIData
    BY <2>2, <2>4 DEF CSensorAPIData
  <2>6. data' = [Clear(D) EXCEPT ![d] = [Clear(D)[d] EXCEPT !.data_update = data[d].data]]
    BY <1>2
  <2>7. data' \in [Datas -> CSensorAPIData]
    BY <2>1, <2>3, <2>5, <2>6
  <2>8. GhostsTyped'
    BY <1>1, <1>2, <2>2 DEF GhostsTyped
  <2> QED
    BY <2>7, <2>8
<1>3. ASSUME data' = Clear(Listed(m_sensorlist)), UNCHANGED knownData
      PROVE  data' \in [Datas -> CSensorAPIData] /\ GhostsTyped'
  BY <1>1, <1>3, Cleared DEF GhostsTyped
<1>4. CASE \E s \in Sensors :
          /\ First(s)
          /\ data' = [Clear({m_sensorlist[r] : r \in {q \in Sensors : q <= s}})
                        EXCEPT ![m_sensorlist[s]].data_update = data[m_sensorlist[s]].data]
          /\ knownData' = [knownData EXCEPT ![s] = data[m_sensorlist[s]].data]
  BY <1>1, <1>2, <1>4
<1> QED
  BY <1>1, <1>3, <1>4 DEF TellData

LEMMA SecondsTyped ==
  ASSUME Typed, Seconds
  PROVE  /\ Typed' /\ Datas' = Datas
         /\ UNCHANGED <<m_sensorlist, m_sensorlist_denied, freed, told>>
<1>1. /\ OsTyped /\ DataTyped /\ MapsTyped /\ FlagsTyped /\ HostTyped /\ GhostsTyped /\ ToldTyped
      /\ ThereIsPlugged
  BY Parts DEF Typed
<1>2. CASE OnSecondChange
  <2>1. second' \in {"list", "data"} /\ UNCHANGED <<os, lists, phase, todo, got, ghosts, told>>
    BY <1>2 DEF OnSecondChange
  <2>2. HostTyped'
    BY <1>1, <2>1 DEF HostTyped
  <2> QED
    BY <1>1, <2>1, <2>2, OsKept, ListsKept, GhostsKept, ToldKept, PartsNext DEF Typed, lists, Datas
<1>3. CASE TellList
  <2>1. /\ second' = "no" /\ m_sensorlist_updated' = FALSE
        /\ known' = {s \in Sensors : m_sensorlist[s] # NONE}
        /\ UNCHANGED <<os, m_sensorlist, m_sensorlist_denied, data, freed, sinks, phase, todo, got,
                       knownData, told>>
    BY <1>3 DEF TellList
  <2>2. HostTyped' /\ GhostsTyped' /\ DataTyped' /\ MapsTyped' /\ FlagsTyped'
    BY <1>1, <2>1 DEF HostTyped, GhostsTyped, DataTyped, MapsTyped, FlagsTyped, Datas
  <2> QED
    BY <1>1, <2>1, <2>2, OsKept, ToldKept, PartsNext DEF Typed, Datas
<1>4. CASE TellData
  <2>1. /\ second' = "no"
        /\ UNCHANGED <<os, m_sensorlist, m_sensorlist_denied, m_sensorlist_updated, freed, sinks,
                       phase, todo, got, known, told>>
    BY <1>4 DEF TellData
  <2>2. GhostsTyped' /\ DataTyped' /\ MapsTyped' /\ Datas' = Datas
    BY <1>1, <1>4, DataTold, SameData
  <2>3. HostTyped' /\ FlagsTyped'
    BY <1>1, <2>1 DEF HostTyped, FlagsTyped
  <2> QED
    BY <1>1, <2>1, <2>2, <2>3, OsKept, ToldKept, PartsNext DEF Typed
<1> QED
  BY <1>2, <1>3, <1>4 DEF Seconds

-----------------------------------------------------------------------------
(* The types. *)

LEMMA InitTyped == Init => Typed
<1> SUFFICES ASSUME Init PROVE Typed
  OBVIOUS
<1>1. OsTyped /\ ThereIsPlugged
  <2>1. plug \in [Sensors -> 0 .. MaxPlugs] /\ there \subseteq Sensors /\ ThereIsPlugged
    BY SensorAssumption DEF Init, ThereIsPlugged
  <2>2. moves \in 0 .. MaxMoves
    BY SensorAssumption DEF Init
  <2>3. state \in [Sensors -> States] /\ managed \in BOOLEAN /\ events \subseteq Call
    BY DEF Init
  <2> QED
    BY <2>1, <2>2, <2>3 DEF OsTyped
<1>2. DataTyped
  BY SensorAssumption DEF Init, DataTyped, Datas
<1>3. MapsTyped /\ FlagsTyped /\ HostTyped
  BY DEF Init, MapsTyped, FlagsTyped, HostTyped
<1>4. GhostsTyped /\ ToldTyped
  BY SensorAssumption DEF Init, GhostsTyped, ToldTyped, States
<1> QED
  BY <1>1, <1>2, <1>3, <1>4, Parts DEF Typed

LEMMA NextTyped == Typed /\ [Next]_vars => Typed'
<1> SUFFICES ASSUME Typed, [Next]_vars PROVE Typed'
  OBVIOUS
<1>1. /\ OsTyped /\ DataTyped /\ MapsTyped /\ FlagsTyped /\ HostTyped /\ GhostsTyped /\ ToldTyped
      /\ ThereIsPlugged
  BY Parts DEF Typed
<1>2. CASE Sensing
  <2>1. OsTyped' /\ ThereIsPlugged' /\ UNCHANGED <<lists, host, ghosts, told>>
    BY <1>1, <1>2, Sensed DEF Sensing
  <2> QED
    BY <1>1, <2>1, ListsKept, HostKept, GhostsKept, ToldKept, PartsNext DEF Typed
<1>3. CASE \E e \in events : Callback(e)
  BY <1>3, Called
<1>4. CASE Loading
  BY <1>4, Loaded
<1>5. CASE ClearLists \/ LeaveManager
  BY <1>5, Unloaded
<1>6. CASE Seconds
  BY <1>6, SecondsTyped
<1>7. CASE UNCHANGED vars
  <2>1. UNCHANGED <<os, lists, host, ghosts, told>>
    BY <1>7 DEF vars
  <2> QED
    BY <1>1, <2>1, OsKept, ListsKept, HostKept, GhostsKept, ToldKept, PartsNext DEF Typed
<1> QED
  BY <1>2, <1>3, <1>4, <1>5, <1>6, <1>7 DEF Next

\* Every variable stays in its type: a sensor's entry is one of the CSensorAPIData there have been.
THEOREM TypeCorrect == Spec => []TypeOK
<1>1. Spec => []Typed
  BY InitTyped, NextTyped, PTL DEF Spec
<1>2. Typed => TypeOK
  BY DEF Typed
<1> QED
  BY <1>1, <1>2, PTL

-----------------------------------------------------------------------------
(* The lists. *)

\* What the invariants of the lists speak of does not change.
LEMMA ListsStay ==
  ASSUME Lists, Datas' = Datas, UNCHANGED <<m_sensorlist, m_sensorlist_denied, freed, told>>
  PROVE  Lists'
<1>1. Held' = Held
  BY DEF Held, Listed
<1>2. reentered' = reentered /\ heard' = heard
  BY DEF told
<1>3. DataHeldOnce'
  BY <1>1, <1>2 DEF Lists, DataHeldOnce
<1> QED
  BY <1>2, <1>3 DEF Lists, BothOnlyReentered, DeniedIsSilent

\* Who holds a CSensorAPIData.
LEMMA HeldBy ==
  \A d : d \in Held <=> /\ d # NONE
                        /\ \E s \in Sensors : m_sensorlist[s] = d \/ m_sensorlist_denied[s] = d
BY DEF Held, Listed

LEMMA HeldByNext ==
  \A d : d \in Held' <=> /\ d # NONE
                         /\ \E s \in Sensors : m_sensorlist'[s] = d \/ m_sensorlist_denied'[s] = d
BY DEF Held, Listed

\* No entry of the two lists has what another has.
Apart ==
  \A r, s \in Sensors :
    /\ m_sensorlist[r] # NONE => m_sensorlist[r] # m_sensorlist_denied[s]
    /\ r # s /\ m_sensorlist[r] # NONE => m_sensorlist[r] # m_sensorlist[s]
    /\ r # s /\ m_sensorlist_denied[r] # NONE => m_sensorlist_denied[r] # m_sensorlist_denied[s]

LEMMA Once ==
  DataHeldOnce <=> /\ Held \cap freed = {} /\ Apart
                   /\ reentered = {} => Held \cup freed = Datas
BY DEF DataHeldOnce, Apart

LEMMA OnceNext ==
  DataHeldOnce' <=> /\ Held' \cap freed' = {} /\ Apart'
                    /\ reentered' = {} => Held' \cup freed' = Datas'
BY DEF DataHeldOnce, Apart

LEMMA ListsAdded ==
  ASSUME DataTyped, MapsTyped, ToldTyped, Lists,
         NEW i \in ISensor, NEW st \in States, AddSensor(i, st)
  PROVE  Lists'
<1> DEFINE s == i.id
           new == Len(data')
           here == IF st = "denied" THEN m_sensorlist_denied ELSE m_sensorlist
           else == IF st = "denied" THEN m_sensorlist ELSE m_sensorlist_denied
<1>1. s \in Sensors /\ heard' = [heard EXCEPT ![s] = st] /\ UNCHANGED freed
  BY DEF AddSensor, ISensor
<1>2. heard'[s] = st /\ \A r \in Sensors \ {s} : heard'[r] = heard[r]
  BY <1>1 DEF ToldTyped
<1>3. CASE /\ here[s] # NONE
           /\ data' = [data EXCEPT ![here[s]].s = i]
           /\ UNCHANGED <<m_sensorlist, m_sensorlist_denied, m_sensorlist_updated, sinks, reentered>>
  <2>1. Datas' = Datas
    BY <1>3 DEF Datas
  <2>2. Held' = Held
    BY <1>3 DEF Held, Listed
  <2>3. DataHeldOnce'
    BY <1>1, <1>3, <2>1, <2>2 DEF Lists, DataHeldOnce
  <2>4. BothOnlyReentered'
    BY <1>3 DEF Lists, BothOnlyReentered
  <2>5. DeniedIsSilent'
    <3> SUFFICES ASSUME NEW r \in Sensors \ reentered, m_sensorlist[r] # NONE
                 PROVE  heard'[r] # "denied"
      BY <1>3 DEF DeniedIsSilent
    <3>1. CASE r # s
      BY <1>2, <3>1 DEF Lists, DeniedIsSilent
    <3>2. CASE r = s
      <4>1. m_sensorlist_denied[s] = NONE
        BY <3>2 DEF Lists, BothOnlyReentered
      <4> QED
        BY <1>2, <1>3, <3>2, <4>1
    <3> QED
      BY <3>1, <3>2
  <2> QED
    BY <2>3, <2>4, <2>5 DEF Lists
<1>4. CASE /\ here[s] = NONE
           /\ Len(data) < MaxData
           /\ data' = Append(data, NewData(i))
           /\ sinks' = sinks \cup {i}
           /\ IF st = "denied"
              THEN /\ m_sensorlist_denied' = [m_sensorlist_denied EXCEPT ![s] = Len(data')]
                   /\ UNCHANGED <<m_sensorlist, m_sensorlist_updated>>
              ELSE /\ m_sensorlist' = [m_sensorlist EXCEPT ![s] = Len(data')]
                   /\ m_sensorlist_updated' = TRUE
                   /\ UNCHANGED m_sensorlist_denied
           /\ reentered' = IF else[s] = NONE THEN reentered ELSE reentered \cup {s}
  <2>1. NewData(i) \in CSensorAPIData
    BY SensorAssumption DEF NewData, CSensorAPIData
  <2>2. data' \in Seq(CSensorAPIData) /\ new = Len(data) + 1 /\ Len(data) \in Nat
    BY <1>4, <2>1, AppendProperties, LenProperties DEF DataTyped
  <2>3. Datas = 1 .. Len(data) /\ Datas' = 1 .. new
    BY <2>2, LenProperties DEF DataTyped, Datas
  <2>4. Datas' = Datas \cup {new} /\ new \notin Datas /\ new # NONE
    BY <2>2, <2>3 DEF NONE
  <2>5. \/ /\ m_sensorlist' = m_sensorlist
           /\ m_sensorlist_denied' = [m_sensorlist_denied EXCEPT ![s] = new]
           /\ st = "denied" /\ m_sensorlist_denied[s] = NONE
        \/ /\ m_sensorlist' = [m_sensorlist EXCEPT ![s] = new]
           /\ m_sensorlist_denied' = m_sensorlist_denied
           /\ st # "denied" /\ m_sensorlist[s] = NONE
    BY <1>4
  <2>6. \A r \in Sensors : /\ m_sensorlist[r] # new /\ m_sensorlist_denied[r] # new
                           /\ r # s => /\ m_sensorlist'[r] = m_sensorlist[r]
                                        /\ m_sensorlist_denied'[r] = m_sensorlist_denied[r]
    BY <2>4, <2>5 DEF MapsTyped
  <2>7. \/ /\ m_sensorlist'[s] = m_sensorlist[s] /\ m_sensorlist_denied'[s] = new
           /\ st = "denied" /\ m_sensorlist_denied[s] = NONE
        \/ /\ m_sensorlist'[s] = new /\ m_sensorlist_denied'[s] = m_sensorlist_denied[s]
           /\ st # "denied" /\ m_sensorlist[s] = NONE
    BY <1>1, <2>5 DEF MapsTyped
  <2>8. Held' = Held \cup {new}
    BY <1>1, <2>4, <2>6, <2>7, HeldBy, HeldByNext
  <2>9. Held' \cap freed' = {}
    BY <1>1, <2>4, <2>8, Once DEF Lists, DataTyped
  <2>10. Apart'
    BY <1>1, <2>4, <2>6, <2>7, Once DEF Lists, Apart
  <2>11. reentered' = {} => Held' \cup freed' = Datas'
    BY <1>1, <1>4, <2>4, <2>8, Once DEF Lists
  <2>12. BothOnlyReentered'
    BY <1>4, <2>6, <2>7 DEF Lists, BothOnlyReentered
  <2>13. DeniedIsSilent'
    <3> SUFFICES ASSUME NEW r \in Sensors \ reentered', m_sensorlist'[r] # NONE
                 PROVE  heard'[r] # "denied"
      BY DEF DeniedIsSilent
    <3>1. r \notin reentered
      BY <1>4
    <3>2. CASE r # s
      BY <1>2, <2>6, <3>1, <3>2 DEF Lists, DeniedIsSilent
    <3>3. CASE r = s
      <4>1. CASE st = "denied"
        <5>1. m_sensorlist[s] # NONE
          BY <2>7, <3>3, <4>1
        <5>2. s \in reentered'
          BY <1>4, <4>1, <5>1
        <5> QED
          BY <3>3, <5>2
      <4> QED
        BY <1>2, <3>3, <4>1
    <3> QED
      BY <3>2, <3>3
  <2> QED
    BY <2>9, <2>10, <2>11, <2>12, <2>13, OnceNext DEF Lists
<1> QED
  BY <1>3, <1>4 DEF AddSensor

LEMMA ListsStateChanged ==
  ASSUME DataTyped, MapsTyped, ToldTyped, Lists,
         NEW i \in ISensor, NEW st \in States, StateChangeSensor(i, st)
  PROVE  Lists'
<1> DEFINE s == i.id
<1>1. /\ s \in Sensors /\ heard' = [heard EXCEPT ![s] = st]
      /\ UNCHANGED <<data, freed, sinks, reentered>> /\ Datas' = Datas
  BY DEF StateChangeSensor, ISensor, Datas
<1>2. heard'[s] = st /\ \A r \in Sensors \ {s} : heard'[r] = heard[r]
  BY <1>1 DEF ToldTyped
<1>3. CASE /\ (IF st = "denied" THEN m_sensorlist ELSE m_sensorlist_denied)[s] = NONE
           /\ UNCHANGED <<m_sensorlist, m_sensorlist_denied, m_sensorlist_updated>>
  <2>1. Held' = Held
    BY <1>3 DEF Held, Listed
  <2>2. DataHeldOnce' /\ BothOnlyReentered'
    BY <1>1, <1>3, <2>1 DEF Lists, DataHeldOnce, BothOnlyReentered
  <2>3. DeniedIsSilent'
    <3> SUFFICES ASSUME NEW r \in Sensors \ reentered, m_sensorlist[r] # NONE
                 PROVE  heard'[r] # "denied"
      BY <1>1, <1>3 DEF DeniedIsSilent
    <3>1. CASE r # s
      BY <1>2, <3>1 DEF Lists, DeniedIsSilent
    <3>2. CASE r = s
      BY <1>2, <1>3, <3>2
    <3> QED
      BY <3>1, <3>2
  <2> QED
    BY <2>2, <2>3 DEF Lists
<1>4. CASE /\ st = "denied" /\ m_sensorlist[s] # NONE
           /\ m_sensorlist_denied' = [m_sensorlist_denied EXCEPT ![s] = m_sensorlist[s]]
           /\ m_sensorlist' = [m_sensorlist EXCEPT ![s] = NONE]
  <2>1. /\ m_sensorlist'[s] = NONE /\ m_sensorlist_denied'[s] = m_sensorlist[s]
        /\ \A r \in Sensors \ {s} : /\ m_sensorlist'[r] = m_sensorlist[r]
                                    /\ m_sensorlist_denied'[r] = m_sensorlist_denied[r]
    BY <1>1, <1>4 DEF MapsTyped
  <2>2. Held' \subseteq Held
    BY <1>1, <2>1, HeldBy, HeldByNext
  <2>3. reentered = {} => Held \subseteq Held'
    <3> SUFFICES ASSUME reentered = {}, NEW d \in Held PROVE d \in Held'
      OBVIOUS
    <3>1. m_sensorlist_denied[s] = NONE
      BY <1>1, <1>4 DEF Lists, BothOnlyReentered
    <3> QED
      BY <1>1, <2>1, <3>1, HeldBy, HeldByNext
  <2>4. Apart'
    BY <1>1, <1>4, <2>1, Once DEF Lists, Apart
  <2>5. DataHeldOnce'
    BY <1>1, <2>2, <2>3, <2>4, Once, OnceNext DEF Lists
  <2>6. BothOnlyReentered' /\ DeniedIsSilent'
    BY <1>1, <1>2, <2>1 DEF Lists, BothOnlyReentered, DeniedIsSilent
  <2> QED
    BY <2>5, <2>6 DEF Lists
<1>5. CASE /\ st # "denied" /\ m_sensorlist_denied[s] # NONE
           /\ m_sensorlist' = [m_sensorlist EXCEPT ![s] = m_sensorlist_denied[s]]
           /\ m_sensorlist_denied' = [m_sensorlist_denied EXCEPT ![s] = NONE]
  <2>1. /\ m_sensorlist_denied'[s] = NONE /\ m_sensorlist'[s] = m_sensorlist_denied[s]
        /\ \A r \in Sensors \ {s} : /\ m_sensorlist'[r] = m_sensorlist[r]
                                    /\ m_sensorlist_denied'[r] = m_sensorlist_denied[r]
    BY <1>1, <1>5 DEF MapsTyped
  <2>2. Held' \subseteq Held
    BY <1>1, <2>1, HeldBy, HeldByNext
  <2>3. reentered = {} => Held \subseteq Held'
    <3> SUFFICES ASSUME reentered = {}, NEW d \in Held PROVE d \in Held'
      OBVIOUS
    <3>1. m_sensorlist[s] = NONE
      BY <1>1, <1>5 DEF Lists, BothOnlyReentered
    <3> QED
      BY <1>1, <2>1, <3>1, HeldBy, HeldByNext
  <2>4. Apart'
    BY <1>1, <1>5, <2>1, Once DEF Lists, Apart
  <2>5. DataHeldOnce'
    BY <1>1, <2>2, <2>3, <2>4, Once, OnceNext DEF Lists
  <2>6. BothOnlyReentered' /\ DeniedIsSilent'
    BY <1>1, <1>2, <1>5, <2>1 DEF Lists, BothOnlyReentered, DeniedIsSilent
  <2> QED
    BY <2>5, <2>6 DEF Lists
<1> QED
  BY <1>3, <1>4, <1>5 DEF StateChangeSensor

LEMMA ListsDeleted ==
  ASSUME DataTyped, MapsTyped, Lists, NEW s \in Sensors, DeleteSensor(s)
  PROVE  Lists'
<1>1. UNCHANGED <<data, told>> /\ UNCHANGED <<heard, reentered>> /\ Datas' = Datas
  BY DEF DeleteSensor, told, Datas
<1>2. CASE /\ m_sensorlist[s] # NONE
           /\ freed' = freed \cup {m_sensorlist[s]}
           /\ m_sensorlist' = [m_sensorlist EXCEPT ![s] = NONE]
           /\ UNCHANGED m_sensorlist_denied
  <2>1. /\ m_sensorlist'[s] = NONE
        /\ \A r \in Sensors \ {s} : m_sensorlist'[r] = m_sensorlist[r]
    BY <1>2 DEF MapsTyped
  <2>2. Held' = Held \ {m_sensorlist[s]}
    <3>1. \A d : d \in Held' => d \in Held /\ d # m_sensorlist[s]
      BY <1>2, <2>1, HeldBy, HeldByNext, Once DEF Lists, Apart
    <3>2. \A d : d \in Held /\ d # m_sensorlist[s] => d \in Held'
      BY <1>2, <2>1, HeldBy, HeldByNext
    <3> QED
      BY <3>1, <3>2
  <2>3. m_sensorlist[s] \in Held
    BY <1>2, HeldBy
  <2>4. DataHeldOnce'
    <3>1. Apart'
      BY <1>2, <2>1, Once DEF Lists, Apart
    <3>2. Held' \cap freed' = {} /\ Held' \cup freed' = Held \cup freed
      BY <1>2, <2>2, <2>3, Once DEF Lists
    <3> QED
      BY <1>1, <3>1, <3>2, Once, OnceNext DEF Lists
  <2>5. BothOnlyReentered' /\ DeniedIsSilent'
    BY <1>1, <1>2, <2>1 DEF Lists, BothOnlyReentered, DeniedIsSilent
  <2> QED
    BY <2>4, <2>5 DEF Lists
<1>3. CASE /\ m_sensorlist[s] = NONE /\ m_sensorlist_denied[s] # NONE
           /\ freed' = freed \cup {m_sensorlist_denied[s]}
           /\ m_sensorlist_denied' = [m_sensorlist_denied EXCEPT ![s] = NONE]
           /\ UNCHANGED m_sensorlist
  <2>1. /\ m_sensorlist_denied'[s] = NONE
        /\ \A r \in Sensors \ {s} : m_sensorlist_denied'[r] = m_sensorlist_denied[r]
    BY <1>3 DEF MapsTyped
  <2>2. Held' = Held \ {m_sensorlist_denied[s]}
    <3>1. \A d : d \in Held' => d \in Held /\ d # m_sensorlist_denied[s]
      BY <1>3, <2>1, HeldBy, HeldByNext, Once DEF Lists, Apart
    <3>2. \A d : d \in Held /\ d # m_sensorlist_denied[s] => d \in Held'
      BY <1>3, <2>1, HeldBy, HeldByNext
    <3> QED
      BY <3>1, <3>2
  <2>3. m_sensorlist_denied[s] \in Held
    BY <1>3, HeldBy
  <2>4. DataHeldOnce'
    <3>1. Apart'
      BY <1>3, <2>1, Once DEF Lists, Apart
    <3>2. Held' \cap freed' = {} /\ Held' \cup freed' = Held \cup freed
      BY <1>3, <2>2, <2>3, Once DEF Lists
    <3> QED
      BY <1>1, <3>1, <3>2, Once, OnceNext DEF Lists
  <2>5. BothOnlyReentered' /\ DeniedIsSilent'
    BY <1>1, <1>3, <2>1 DEF Lists, BothOnlyReentered, DeniedIsSilent
  <2> QED
    BY <2>4, <2>5 DEF Lists
<1>4. CASE UNCHANGED <<m_sensorlist, m_sensorlist_denied, m_sensorlist_updated, freed, sinks>>
  BY <1>1, <1>4, ListsStay
<1> QED
  BY <1>2, <1>3, <1>4 DEF DeleteSensor

\* unload.
LEMMA ListsCleared ==
  ASSUME Lists, ClearLists
  PROVE  Lists'
<1>1. /\ freed' = freed \cup Held
      /\ m_sensorlist' = [s \in Sensors |-> NONE] /\ m_sensorlist_denied' = [s \in Sensors |-> NONE]
      /\ UNCHANGED <<data, told>>
  BY DEF ClearLists
<1>2. \A s \in Sensors : m_sensorlist'[s] = NONE /\ m_sensorlist_denied'[s] = NONE
  BY <1>1
<1>3. Held' = {}
  BY <1>2, HeldByNext
<1>4. Datas' = Datas /\ reentered' = reentered
  BY <1>1 DEF Datas, told
<1>5. DataHeldOnce'
  BY <1>1, <1>2, <1>3, <1>4, Once, OnceNext DEF Lists, Apart
<1> QED
  BY <1>2, <1>5 DEF Lists, BothOnlyReentered, DeniedIsSilent

LEMMA InitLists == Init => Lists
<1> SUFFICES ASSUME Init PROVE Lists
  OBVIOUS
<1>1. /\ m_sensorlist = [s \in Sensors |-> NONE] /\ m_sensorlist_denied = [s \in Sensors |-> NONE]
      /\ data = <<>> /\ freed = {} /\ reentered = {}
  BY DEF Init
<1>2. \A s \in Sensors : m_sensorlist[s] = NONE /\ m_sensorlist_denied[s] = NONE
  BY <1>1
<1>3. Held = {}
  BY <1>2, HeldBy
<1>4. Datas = {}
  BY <1>1 DEF Datas
<1>5. DataHeldOnce
  BY <1>1, <1>2, <1>3, <1>4, Once DEF Apart
<1> QED
  BY <1>2, <1>5 DEF Lists, BothOnlyReentered, DeniedIsSilent

LEMMA NextLists == Typed /\ Lists /\ [Next]_vars => Lists'
<1> SUFFICES ASSUME Typed, Lists, [Next]_vars PROVE Lists'
  OBVIOUS
<1>1. /\ OsTyped /\ DataTyped /\ MapsTyped /\ FlagsTyped /\ HostTyped /\ GhostsTyped /\ ToldTyped
      /\ ThereIsPlugged
  BY Parts DEF Typed
<1>2. ASSUME UNCHANGED <<lists, told>> PROVE Lists'
  <2>1. Datas' = Datas /\ UNCHANGED <<m_sensorlist, m_sensorlist_denied, freed, told>>
    BY <1>2 DEF lists, Datas
  <2> QED
    BY <2>1, ListsStay
<1>3. CASE Sensing
  <2>1. UNCHANGED <<lists, told>>
    BY <1>1, <1>3, Sensed DEF Sensing
  <2> QED
    BY <1>2, <2>1
<1>4. ASSUME NEW e \in events, Callback(e) PROVE Lists'
  <2>1. e \in Call
    BY <1>1 DEF OsTyped
  <2>2. e.sensor \in ISensor /\ e.sensor.id \in Sensors
    BY <2>1, CallFields DEF ISensor
  <2>3. CASE e.call = "OnSensorEnter" /\ AddSensor(e.sensor, e.state)
    BY <1>1, <2>1, <2>2, <2>3, CallFields, ListsAdded
  <2>4. CASE e.call = "OnDataUpdated" /\ DataUpdateSensor(e.sensor, e.report)
    <3>1. Datas' = Datas
      BY <1>1, <2>1, <2>2, <2>4, CallFields, Updated
    <3>2. UNCHANGED <<m_sensorlist, m_sensorlist_denied, freed, told>>
      BY <2>4 DEF DataUpdateSensor
    <3> QED
      BY <3>1, <3>2, ListsStay
  <2>5. CASE e.call = "OnStateChanged" /\ StateChangeSensor(e.sensor, e.state)
    BY <1>1, <2>1, <2>2, <2>5, CallFields, ListsStateChanged
  <2>6. CASE e.call = "OnLeave" /\ DeleteSensor(e.sensor.id)
    BY <1>1, <2>2, <2>6, ListsDeleted
  <2> QED
    BY <1>4, <2>3, <2>4, <2>5, <2>6 DEF Callback
<1>5. CASE AddFound
  <2>1. PICK g \in got : AddSensor(g.sensor, g.state)
    BY <1>5 DEF AddFound
  <2>2. g.sensor \in ISensor /\ g.state \in States
    BY <1>1 DEF HostTyped
  <2> QED
    BY <1>1, <2>1, <2>2, ListsAdded
<1>6. CASE load \/ GetState \/ SetManagerSink \/ LeaveManager
  BY <1>2, <1>6 DEF load, GetState, SetManagerSink, LeaveManager
<1>7. CASE ClearLists
  BY <1>7, ListsCleared
<1>8. CASE Seconds
  BY <1>8, SecondsTyped, ListsStay
<1>9. CASE UNCHANGED vars
  BY <1>2, <1>9 DEF vars
<1> QED
  BY <1>3, <1>4, <1>5, <1>6, <1>7, <1>8, <1>9 DEF Next, Loading

LEMMA AlwaysLists == Spec => []Lists
<1>1. Init => Typed /\ Lists
  BY InitTyped, InitLists
<1>2. (Typed /\ Lists) /\ [Next]_vars => (Typed /\ Lists)'
  BY NextTyped, NextLists
<1> QED
  BY <1>1, <1>2, PTL DEF Spec

\* The two lists hold a CSensorAPIData once, and none that was deleted, for any number of sensors
\* and connections; none is lost as long as no sensor was added to one list while the other had it.
THEOREM DataAlwaysHeldOnce == Spec => []DataHeldOnce
<1>1. Lists => DataHeldOnce
  BY DEF Lists
<1> QED
  BY <1>1, AlwaysLists, PTL

\* A sensor whose access the plugin heard last was denied is in no list the ghosts are told, unless
\* it was added to one list while the other had it.
THEOREM DeniedAlwaysSilent == Spec => []DeniedIsSilent
<1>1. Lists => DeniedIsSilent
  BY DEF Lists
<1> QED
  BY <1>1, AlwaysLists, PTL

=============================================================================
