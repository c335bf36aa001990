-------------------------- MODULE SmsIngest_proofs --------------------------
(***************************************************************************)
(* Proofs about SmsIngest for any messages, object numbers and bounds: a   *)
(* message with a timestamp is stored and forwarded once, and what is      *)
(* deleted from the modem was stored.                                      *)
(***************************************************************************)
EXTENDS SmsIngest, FiniteSetTheorems, TLAPS

(* What the listener reads is an object's number.                           *)
ReadingInv == listener.at \in {"read", "store"} => listener.reading \in Paths

(* A row of a message with a timestamp is found again by its marker,        *)
(* whatever the object's number is by then, and a message is forwarded as   *)
(* its row is written.                                                      *)
OnceInv ==
  \A m \in Msgs \ Untimed :
    /\ rows[m] <= 1
    /\ rows[m] > 0 => <<m, NoPath>> \in marks
    /\ m \in purged \/ forwarded[m] <= rows[m]

(* A marker and a scheduled delete stand for a message that was stored.     *)
StoredInv ==
  /\ \A k \in marks : k[1] \in stored
  /\ \A d \in deletes : d.msg \in stored \cup Legacy
  /\ deleted \subseteq stored \cup mishit \cup Legacy

IInv == TypeOK /\ ReadingInv /\ OnceInv /\ StoredInv

ListenerType ==
  [at : {"find", "scan", "read", "store", "listen"}, modem : Modems, todo : SUBSET Paths,
   reading : 0..NoPath, msg : Msgs \cup {None}, live : BOOLEAN, forward : BOOLEAN,
   back : {"listen", "find"}]

LEMMA PathsAre == Paths \subseteq 0..NoPath /\ NoPath \in 0..NoPath /\ NoPath \notin Paths
BY ConstantsAssumption DEF Paths, NoPath

LEMMA IdleIs ==
  /\ Idle \in ListenerType
  /\ Idle.at = "find" /\ Idle.msg = None /\ Idle.modem = 1
BY PathsAre DEF Idle, ListenerType, Modems

LEMMA IInvAtInit == Init => IInv
<1> SUFFICES ASSUME Init PROVE IInv
  OBVIOUS
<1> USE ConstantsAssumption DEF Init
<1>1. listener \in ListenerType /\ (listener.msg = None <=> listener.at # "store")
  BY IdleIs
<1>2. resync \in BOOLEAN
  BY Zenon
<1>3. TypeOK
  BY <1>1, <1>2 DEF TypeOK, ListenerType, Objects, Modems
<1>4. ReadingInv /\ OnceInv /\ StoredInv
  BY IdleIs DEF ReadingInv, OnceInv, StoredInv
<1> QED BY <1>3, <1>4 DEF IInv

(* The modem holds at most as many objects as there are numbers.            *)
LEMMA ObjectsCount == Cardinality(Objects) \in 0..MaxPath + 1
<1>1. Objects \subseteq 0..MaxPath
  BY DEF Objects, Paths
<1>2. IsFiniteSet(0..MaxPath) /\ Cardinality(0..MaxPath) = MaxPath + 1
  BY ConstantsAssumption, FS_Interval
<1>3. IsFiniteSet(Objects) /\ Cardinality(Objects) <= MaxPath + 1
  BY <1>1, <1>2, FS_Subset
<1> QED BY <1>3, FS_CardinalityType, ConstantsAssumption

LEMMA FaultStep ==
  ASSUME faults \in 0..MaxFaults, Fault \/ UNCHANGED faults
  PROVE  faults' \in 0..MaxFaults
BY ConstantsAssumption DEF Fault

-----------------------------------------------------------------------------
(* A step of the listener that only moves it.                               *)
LEMMA ListenerMoves ==
  ASSUME IInv, NEW l \in ListenerType, listener' = l,
         l.msg = None <=> l.at # "store",
         l.at \in {"read", "store"} => l.reading \in Paths,
         signals' \subseteq Paths, resync' \in BOOLEAN, faults' \in 0..MaxFaults,
         Keep
  PROVE  IInv'
<1>1. TypeOK'
  BY DEF IInv, TypeOK, ListenerType, Keep, device, table, history, Objects
<1>2. ReadingInv' /\ OnceInv' /\ StoredInv'
  BY DEF IInv, ReadingInv, OnceInv, StoredInv, Keep, device, table, history
<1> QED BY <1>1, <1>2 DEF IInv

LEMMA ListenerIs ==
  ASSUME IInv
  PROVE  /\ listener \in ListenerType /\ listener.modem \in Modems
         /\ listener.msg = None <=> listener.at # "store"
         /\ listener.at \in {"read", "store"} => listener.reading \in Paths
         /\ signals \subseteq Paths /\ resync \in BOOLEAN /\ faults \in 0..MaxFaults
         /\ path \in Modems
BY DEF IInv, TypeOK, ReadingInv, ListenerType

LEMMA ScanOfIs ==
  ASSUME NEW modem \in Modems, NEW forward \in BOOLEAN, NEW back \in {"listen", "find"}
  PROVE  /\ ScanOf(modem, forward, back) \in ListenerType
         /\ ScanOf(modem, forward, back).at = "scan"
         /\ ScanOf(modem, forward, back).msg = None
BY IdleIs DEF ScanOf, Idle, ListenerType, Objects

LEMMA RescanStep ==
  ASSUME IInv, NEW forward \in BOOLEAN, Rescan(forward)
  PROVE  listener' \in ListenerType /\ listener'.at = "scan" /\ listener'.msg = None
<1>1. path \in Modems
  BY ListenerIs
<1> QED BY <1>1, ScanOfIs DEF Rescan

LEMMA BreakIs ==
  ASSUME IInv
  PROVE  Break \in ListenerType /\ Break.at = "find" /\ Break.msg = None
BY ListenerIs, IdleIs DEF Break, Idle, ListenerType

LEMMA ResumedIs ==
  ASSUME IInv
  PROVE  /\ Resumed \in ListenerType
         /\ Resumed.at \in {"listen", "scan"} /\ Resumed.msg = None
BY ListenerIs, PathsAre DEF Resumed, ListenerType

LEMMA ListenStep ==
  ASSUME IInv, Find \/ Poll \/ Resync \/ ScanNext \/ Read \/ Lose \/ RequestScan
               \/ \E p \in Paths : Live(p)
  PROVE  IInv'
<1> USE ListenerIs
<1>1. CASE Find
  <2>1. ScanOf(path, FALSE, "listen") \in ListenerType
        /\ ScanOf(path, FALSE, "listen").at = "scan"
        /\ ScanOf(path, FALSE, "listen").msg = None
    BY ScanOfIs
  <2> QED BY <1>1, <2>1, ListenerMoves DEF Find
<1>2. CASE Poll
  BY <1>2, RescanStep, ListenerMoves DEF Poll
<1>3. CASE Resync
  <2>1. Rescan(FALSE) /\ resync' = FALSE /\ UNCHANGED <<signals, faults>> /\ Keep
    BY <1>3 DEF Resync
  <2>2. resync' \in BOOLEAN
    BY <2>1
  <2> QED BY <2>1, <2>2, RescanStep, ListenerMoves
<1>4. CASE ScanNext
  <2>1. UNCHANGED <<signals, resync, faults>> /\ Keep
    BY <1>4 DEF ScanNext
  <2>2. CASE \E p \in listener.todo :
               listener' = [listener EXCEPT !.at = "read", !.todo = @ \ {p}, !.reading = p]
    <3>1. PICK p \in listener.todo :
            listener' = [listener EXCEPT !.at = "read", !.todo = listener.todo \ {p},
                                         !.reading = p]
      BY <2>2
    <3>2. p \in Paths /\ listener.at = "scan"
      BY <1>4 DEF ScanNext, ListenerType
    <3>3. /\ listener' \in ListenerType
          /\ listener'.at = "read" /\ listener'.msg = None /\ listener'.reading \in Paths
      BY <3>1, <3>2, PathsAre DEF ListenerType
    <3> QED BY <2>1, <3>3, ListenerMoves
  <2>3. CASE listener' = IF listener.back = "find" THEN Break
                         ELSE [Idle EXCEPT !.at = "listen", !.modem = listener.modem]
    <3>1. /\ listener' \in ListenerType
          /\ listener'.at \in {"find", "listen"} /\ listener'.msg = None
      BY <2>3, BreakIs, IdleIs DEF Idle, ListenerType
    <3> QED BY <2>1, <3>1, ListenerMoves
  <2> QED BY <1>4, <2>2, <2>3 DEF ScanNext
<1>5. CASE Read
  <2>1. listener.at = "read" /\ UNCHANGED <<signals, resync, faults>> /\ Keep
    BY <1>5 DEF Read
  <2>2. CASE listener.reading \in Objects \ partial
    <3>1. listener' = [listener EXCEPT !.at = "store", !.msg = store[listener.reading]]
      BY <1>5, <2>2 DEF Read
    <3>2. store[listener.reading] \in Msgs /\ listener.reading \in Paths
      BY <2>2 DEF IInv, TypeOK, Objects
    <3>3. store[listener.reading] # None
      BY <3>2, NoneAssumption
    <3>4. /\ listener' \in ListenerType /\ listener'.reading = listener.reading
          /\ listener'.at = "store" /\ listener'.msg = store[listener.reading]
      BY <3>1, <3>2 DEF ListenerType
    <3> QED BY <2>1, <3>2, <3>3, <3>4, ListenerMoves
  <2>3. CASE listener.reading \notin Objects \ partial
    BY <1>5, <2>1, <2>3, ResumedIs, ListenerMoves DEF Read
  <2> QED BY <2>2, <2>3
<1>6. CASE Lose
  <2>1. faults' \in 0..MaxFaults
    BY <1>6, FaultStep DEF Lose
  <2> QED BY <1>6, <2>1, BreakIs, ListenerMoves DEF Lose
<1>7. CASE RequestScan
  <2>1. faults' \in 0..MaxFaults /\ resync' \in BOOLEAN
    BY <1>7, FaultStep DEF RequestScan
  <2> QED BY <1>7, <2>1, ListenerMoves DEF RequestScan
<1>8. ASSUME NEW p \in Paths, Live(p) PROVE IInv'
  <2>1. /\ listener.at = "listen" /\ signals' = signals \ {p}
        /\ listener' = [listener EXCEPT !.at = "read", !.reading = p, !.live = TRUE]
        /\ UNCHANGED <<resync, faults>> /\ Keep
    BY <1>8 DEF Live
  <2>2. /\ listener' \in ListenerType
        /\ listener'.at = "read" /\ listener'.msg = None /\ listener'.reading \in Paths
    BY <2>1, PathsAre DEF ListenerType
  <2> QED BY <2>1, <2>2, ListenerMoves
<1> QED BY <1>1, <1>2, <1>3, <1>4, <1>5, <1>6, <1>7, <1>8

LEMMA MarksAre ==
  ASSUME IInv, NEW m \in Msgs, listener.at = "store"
  PROVE  /\ Mark(m) \in Msgs \X (0..NoPath)
         /\ Mark(m)[1] = m
         /\ m \notin Untimed => Mark(m) = <<m, NoPath>>
BY ListenerIs, PathsAre DEF Mark

LEMMA StoreStep ==
  ASSUME IInv, Store
  PROVE  IInv'
<1> DEFINE m == listener.msg
           d == [modem |-> listener.modem, object |-> listener.reading, msg |-> listener.msg]
<1>1. listener.at = "store" /\ m \in Msgs /\ listener.reading \in Paths
  BY ListenerIs DEF Store, ListenerType
<1>2. d \in [modem : Modems, object : Paths, msg : Msgs] /\ d.msg = m
  BY <1>1, ListenerIs
<1>3. /\ Mark(m) \in Msgs \X (0..NoPath) /\ Mark(m)[1] = m
      /\ m \notin Untimed => Mark(m) = <<m, NoPath>>
  BY <1>1, MarksAre
<1>4. /\ Resumed \in ListenerType
      /\ Resumed.at \in {"listen", "scan"} /\ Resumed.msg = None
  BY ResumedIs
<1>5. /\ listener' = Resumed
      /\ UNCHANGED <<store, partial, next, path, signals, resync, seen, purged, deleted, mishit>>
  BY DEF Store, device
<1>6. ReadingInv'
  BY <1>4, <1>5 DEF ReadingInv
<1>7. faults' \in 0..MaxFaults
  BY ListenerIs, FaultStep DEF Store
<1>8. CASE /\ Known(m) \/ SameSecond(m)
           /\ deletes' = deletes \cup {d} /\ UNCHANGED <<rows, marks, forwarded, stored>>
  <2>1. m \in stored \cup Legacy
    BY <1>1, <1>3, <1>8 DEF Known, SameSecond, IInv, StoredInv, TypeOK
  <2>2. TypeOK'
    BY <1>2, <1>4, <1>5, <1>7, <1>8 DEF IInv, TypeOK, ListenerType, Objects
  <2>3. OnceInv'
    BY <1>5, <1>8 DEF IInv, OnceInv
  <2>4. StoredInv'
    BY <1>2, <1>5, <1>8, <2>1 DEF IInv, StoredInv
  <2> QED BY <1>6, <2>2, <2>3, <2>4 DEF IInv
<1>9. CASE UNCHANGED <<rows, marks, forwarded, stored, deletes>>
  <2>1. TypeOK'
    BY <1>4, <1>5, <1>7, <1>9 DEF IInv, TypeOK, ListenerType, Objects
  <2>2. OnceInv' /\ StoredInv'
    BY <1>5, <1>9 DEF IInv, OnceInv, StoredInv
  <2> QED BY <1>6, <2>1, <2>2 DEF IInv
<1>10. CASE /\ ~Known(m)
            /\ rows' = [rows EXCEPT ![m] = rows[m] + 1]
            /\ marks' = marks \cup {Mark(m)}
            /\ stored' = stored \cup {m}
            /\ forwarded' = [forwarded EXCEPT ![m] = IF Forwards THEN forwarded[m] + 1
                                                     ELSE forwarded[m]]
            /\ deletes' = deletes \cup {d}
  <2>1. rows \in [Msgs -> Nat] /\ forwarded \in [Msgs -> Nat]
    BY DEF IInv, TypeOK
  <2>2. /\ rows' \in [Msgs -> Nat] /\ forwarded' \in [Msgs -> Nat]
        /\ rows'[m] = rows[m] + 1 /\ forwarded'[m] <= forwarded[m] + 1
        /\ \A n \in Msgs \ {m} : rows'[n] = rows[n] /\ forwarded'[n] = forwarded[n]
    BY <1>1, <1>10, <2>1
  <2>3. {n \in Msgs : rows'[n] > 0} \subseteq stored'
    BY <1>10, <2>2 DEF IInv, TypeOK
  <2>4. TypeOK'
    BY <1>2, <1>3, <1>4, <1>5, <1>7, <1>10, <2>2, <2>3 DEF IInv, TypeOK, ListenerType, Objects
  <2>5. OnceInv'
    <3> SUFFICES ASSUME NEW n \in Msgs \ Untimed
                 PROVE  /\ rows'[n] <= 1
                        /\ rows'[n] > 0 => <<n, NoPath>> \in marks'
                        /\ n \in purged' \/ forwarded'[n] <= rows'[n]
      BY DEF OnceInv
    <3>1. /\ rows[n] > 0 => <<n, NoPath>> \in marks
          /\ rows[n] <= 1
          /\ n \in purged \/ forwarded[n] <= rows[n]
      BY DEF IInv, OnceInv
    <3>2. CASE n = m
      <4>1. Mark(m) \notin marks
        BY <1>10 DEF Known
      <4>2. rows[m] = 0
        BY <1>3, <2>1, <3>1, <3>2, <4>1
      <4>3. rows'[n] = 1 /\ <<n, NoPath>> \in marks'
        BY <1>3, <1>10, <2>2, <3>2, <4>2
      <4>4. n \in purged' \/ forwarded'[n] <= 1
        BY <1>5, <2>1, <2>2, <3>1, <3>2, <4>2
      <4> QED BY <4>3, <4>4
    <3>3. CASE n # m
      BY <1>5, <1>10, <2>2, <3>1, <3>3
    <3> QED BY <3>2, <3>3
  <2>6. StoredInv'
    BY <1>2, <1>3, <1>5, <1>10 DEF IInv, StoredInv
  <2> QED BY <1>6, <2>4, <2>5, <2>6 DEF IInv
<1> QED BY <1>8, <1>9, <1>10 DEF Store, ScheduleDelete, table

-----------------------------------------------------------------------------
(* The modem, the delayed deletes, the user and restarts.                   *)
LEMMA DeviceStep ==
  ASSUME IInv, store' \in [Paths -> Msgs \cup {None}], partial' \subseteq Objects',
         next' \in 0..MaxPath + 1, path' \in Modems, signals' \subseteq Paths,
         faults' \in 0..MaxFaults, deletes' \subseteq deletes,
         deleted' \subseteq stored \cup mishit' \cup Legacy,
         UNCHANGED <<listener, resync, table, forwarded, stored, purged>>
  PROVE  IInv'
<1>1. TypeOK'
  BY DEF IInv, TypeOK, table
<1>2. ReadingInv' /\ OnceInv' /\ StoredInv'
  BY DEF IInv, ReadingInv, OnceInv, StoredInv, table
<1> QED BY <1>1, <1>2 DEF IInv

LEMMA IInvStep == IInv /\ [Next]_vars => IInv'
<1> SUFFICES ASSUME IInv, [Next]_vars PROVE IInv'
  OBVIOUS
<1>0. /\ store \in [Paths -> Msgs \cup {None}] /\ partial \subseteq Objects
      /\ next \in 0..MaxPath + 1 /\ path \in Modems /\ signals \subseteq Paths
      /\ faults \in 0..MaxFaults /\ deleted \subseteq stored \cup mishit \cup Legacy
  BY DEF IInv, TypeOK, StoredInv
<1>1. ASSUME NEW m \in Msgs, Arrive(m) PROVE IInv'
  <2>1. next \in Paths /\ next' \in 0..MaxPath + 1
    BY <1>0, <1>1, ConstantsAssumption DEF Arrive, Paths
  <2>2. m # None
    BY NoneAssumption
  <2>3. /\ store' \in [Paths -> Msgs \cup {None}]
        /\ \A p \in Paths : store'[p] = IF p = next THEN m ELSE store[p]
    BY <1>0, <1>1, <2>1 DEF Arrive
  <2>4. partial' \subseteq Objects'
    BY <1>0, <1>1, <2>1, <2>2, <2>3 DEF Arrive, Objects
  <2>5. signals' \subseteq Paths
    BY <1>0, <1>1, <2>1 DEF Arrive
  <2> QED BY <1>0, <1>1, <2>1, <2>3, <2>4, <2>5, DeviceStep DEF Arrive
<1>2. ASSUME NEW m \in Msgs, Purge(m) PROVE IInv'
  <2>1. /\ rows' = [rows EXCEPT ![m] = 0] /\ marks' = {k \in marks : k[1] # m}
        /\ purged' = purged \cup {m}
        /\ UNCHANGED <<device, listener, signals, resync, deletes, forwarded, seen, stored,
                       deleted, mishit>>
    BY <1>2 DEF Purge
  <2>2. faults' \in 0..MaxFaults
    BY <1>0, <1>2, FaultStep DEF Purge
  <2>3. /\ rows' \in [Msgs -> Nat] /\ rows'[m] = 0
        /\ \A n \in Msgs \ {m} : rows'[n] = rows[n]
    BY <2>1 DEF IInv, TypeOK
  <2>4. TypeOK'
    BY <2>1, <2>2, <2>3 DEF IInv, TypeOK, Objects, device
  <2>5. OnceInv'
    BY <2>1, <2>3 DEF IInv, OnceInv
  <2>6. ReadingInv' /\ StoredInv'
    BY <2>1 DEF IInv, ReadingInv, StoredInv
  <2> QED BY <2>4, <2>5, <2>6 DEF IInv
<1>3. ASSUME NEW d \in deletes, Delete(d) PROVE IInv'
  <2>1. /\ deletes' \subseteq deletes
        /\ UNCHANGED <<next, path, listener, signals, resync, table, forwarded, stored, purged>>
    BY <1>3 DEF Delete
  <2>2. CASE /\ d.modem = path /\ d.object \in Objects
             /\ store' = [store EXCEPT ![d.object] = None]
             /\ partial' = partial \ {d.object}
             /\ deleted' = deleted \cup {store[d.object]}
             /\ mishit' = IF store[d.object] = d.msg THEN mishit ELSE mishit \cup {store[d.object]}
             /\ UNCHANGED faults
    <3>1. /\ store' \in [Paths -> Msgs \cup {None}]
          /\ \A p \in Paths \ {d.object} : store'[p] = store[p]
      BY <1>0, <2>2
    <3>2. partial' \subseteq Objects'
      BY <1>0, <2>2, <3>1 DEF Objects
    <3>3. d.msg \in stored \cup Legacy
      BY DEF IInv, StoredInv
    <3>4. deleted' \subseteq stored \cup mishit' \cup Legacy
      BY <1>0, <2>2, <3>3
    <3> QED BY <1>0, <2>1, <2>2, <3>1, <3>2, <3>4, DeviceStep
  <2>3. CASE UNCHANGED <<store, partial, deleted, mishit>> /\ (Fault \/ UNCHANGED faults)
    <3>1. faults' \in 0..MaxFaults
      BY <1>0, <2>3, FaultStep
    <3> QED BY <1>0, <2>1, <2>3, <3>1, DeviceStep DEF Objects
  <2> QED BY <1>3, <2>2, <2>3 DEF Delete
<1>4. CASE Assemble
  BY <1>0, <1>4, DeviceStep DEF Assemble, history
<1>5. CASE Renumber
  <2>1. /\ Fault /\ store' \in [0..MaxPath -> Msgs \cup {None}]
        /\ next' = Cardinality(Objects) /\ partial' = {} /\ path' \in Modems
        /\ UNCHANGED <<listener, signals, resync, deletes, table, forwarded, history>>
    BY <1>5 DEF Renumber
  <2>2. faults' \in 0..MaxFaults /\ next' \in 0..MaxPath + 1
    BY <1>0, <2>1, FaultStep, ObjectsCount
  <2> QED BY <1>0, <2>1, <2>2, DeviceStep DEF Paths, history
<1>6. CASE Listen \/ Lose \/ RequestScan
  BY <1>6, ListenStep, StoreStep DEF Listen
<1>7. CASE Restart
  <2>1. /\ listener' = Idle /\ signals' = {} /\ resync' = FALSE /\ deletes' = {}
        /\ UNCHANGED <<device, table, forwarded, history>>
    BY <1>7 DEF Restart
  <2>2. faults' \in 0..MaxFaults /\ resync' \in BOOLEAN
    BY <1>0, <1>7, <2>1, FaultStep DEF Restart
  <2>3. listener' \in ListenerType /\ listener'.at = "find" /\ listener'.msg = None
    BY <2>1, IdleIs
  <2>4. TypeOK'
    BY <2>1, <2>2, <2>3 DEF IInv, TypeOK, ListenerType, Objects, device, table, history
  <2>5. ReadingInv' /\ OnceInv' /\ StoredInv'
    BY <2>1, <2>3 DEF IInv, ReadingInv, OnceInv, StoredInv, table, history
  <2> QED BY <2>4, <2>5 DEF IInv
<1>8. CASE UNCHANGED vars
  BY <1>8 DEF vars, device, table, history, IInv, TypeOK, Objects, ReadingInv, OnceInv, StoredInv
<1> QED BY <1>1, <1>2, <1>3, <1>4, <1>5, <1>6, <1>7, <1>8 DEF Next

-----------------------------------------------------------------------------
(* A message with a timestamp has one row and is forwarded at most once,    *)
(* whatever reads it, unless the user deleted its row.                      *)
THEOREM MessagesIngestedOnce == Spec => []IngestedOnce
<1>1. ASSUME IInv PROVE IngestedOnce
  <2>1. ASSUME NEW m \in Msgs \ Untimed
        PROVE  rows[m] <= 1 /\ (m \in purged \/ forwarded[m] <= 1)
    <3>1. rows[m] \in Nat /\ forwarded[m] \in Nat
      BY <1>1 DEF IInv, TypeOK
    <3>2. OnceInv
      BY <1>1 DEF IInv
    <3>3. rows[m] <= 1 /\ (m \in purged \/ forwarded[m] <= rows[m])
      BY <3>2 DEF OnceInv
    <3> QED BY <3>1, <3>3
  <2>2. TypeOK
    BY <1>1 DEF IInv
  <2> QED BY <2>1, <2>2 DEF IngestedOnce
<1> QED BY <1>1, IInvAtInit, IInvStep, PTL DEF Spec

(* What is deleted from the modem was stored, is in an older row, or had    *)
(* taken the number of a message that was.                                  *)
THEOREM DeletedWasStored == Spec => []DeletedIsStored
<1>1. IInv => DeletedIsStored
  BY DEF IInv, StoredInv, DeletedIsStored
<1> QED BY <1>1, IInvAtInit, IInvStep, PTL DEF Spec
=============================================================================
