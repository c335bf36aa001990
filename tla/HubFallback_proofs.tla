------------------------ MODULE HubFallback_proofs ------------------------
(***************************************************************************)
(* Proofs about HubFallback for any set of events and any bounds: an event *)
(* is given to the device's rules at most once, and an event that is       *)
(* synced and out of the outbox was taken care of.                         *)
(***************************************************************************)
EXTENDS HubFallback, TLAPS

(* What the Hub's verdict on an event changes.                              *)
HubTakesAs(e, verdict) ==
  /\ \A d \in Events : took'[d] = IF d = e THEN verdict ELSE took[d]
  /\ replies' = replies \cup {<<e, verdict # "unhandled">>}

LEMMA HubTakesStep ==
  ASSUME TypeOK, NEW e \in Events, NEW flag \in {"fresh", "applied"}, HubTakes(e, flag)
  PROVE  /\ \E verdict \in Verdicts(e, flag) : HubTakesAs(e, verdict)
         /\ took' \in [Events -> {"no", "pushed", "unhandled", "told"}]
         /\ replies' \in SUBSET (Events \X BOOLEAN)
<1>1. PICK verdict \in Verdicts(e, flag) :
        /\ took' = [took EXCEPT ![e] = verdict]
        /\ replies' = replies \cup {<<e, verdict # "unhandled">>}
  BY Zenon DEF HubTakes
<1>2. verdict \in {"no", "pushed", "unhandled", "told"}
  BY DEF Verdicts, TypeOK
<1>3. took' \in [Events -> {"no", "pushed", "unhandled", "told"}]
  BY <1>1, <1>2 DEF TypeOK
<1>4. replies' \in SUBSET (Events \X BOOLEAN)
  <2>1. (verdict # "unhandled") \in BOOLEAN
    BY Zenon
  <2>2. \A h \in BOOLEAN : <<e, h>> \in Events \X BOOLEAN
    OBVIOUS
  <2>3. replies \in SUBSET (Events \X BOOLEAN)
    BY DEF TypeOK
  <2> QED BY <1>1, <2>1, <2>2, <2>3, Zenon
<1>5. \A d \in Events : took'[d] = IF d = e THEN verdict ELSE took[d]
  BY <1>1 DEF TypeOK
<1>6. HubTakesAs(e, verdict)
  BY <1>1, <1>5, Zenon DEF HubTakesAs
<1> QED BY <1>3, <1>4, <1>6

LEMMA TypeAtInit == Init => TypeOK
<1> SUFFICES ASSUME Init PROVE TypeOK
  OBVIOUS
<1>1. online \in BOOLEAN
  BY Zenon DEF Init
<1> QED BY <1>1 DEF Init, TypeOK

(* TypeOK holds in every reachable state.                                   *)
THEOREM TypeCorrect == Spec => []TypeOK
<1>1. Init => TypeOK
  BY TypeAtInit
<1>2. TypeOK /\ [Next]_vars => TypeOK'
  <2> SUFFICES ASSUME TypeOK, [Next]_vars PROVE TypeOK'
    OBVIOUS
  <2> USE DEF TypeOK
  <2>1. ASSUME NEW e \in Events, Record(e) PROVE TypeOK'
    BY <2>1 DEF Record, status, net
  <2>2. ASSUME NEW e \in Events, Ages(e) PROVE TypeOK'
    BY <2>2 DEF Ages, status, net
  <2>3. ASSUME NEW e \in Events, Enqueue(e) PROVE TypeOK'
    BY <2>3 DEF Enqueue, table, status, net
  <2>4. ASSUME NEW e \in Events, FallbackClaims(e) PROVE TypeOK'
    BY <2>4 DEF FallbackClaims, status, net
  <2>5. CASE TimeoutElapses
    BY <2>5 DEF TimeoutElapses, table, net
  <2>6. CASE SessionStarts
    BY <2>6 DEF SessionStarts, SetOnline, table, net
  <2>7. CASE SessionEnds
    <3>1. online' \in BOOLEAN
      BY <2>7, Zenon DEF SessionEnds, SetOffline, status
    <3> QED BY <3>1, <2>7 DEF SessionEnds, Disconnect, SetOffline, table, status
  <2>8. CASE GuardReports
    <3>1. online' \in BOOLEAN
      BY <2>8, Zenon DEF GuardReports, SetOffline
    <3> QED BY <3>1, <2>8 DEF GuardReports, SetOffline, table, net
  <2>9. CASE Flush
    BY <2>9 DEF Flush, table, status
  <2>10. ASSUME NEW e \in Events, NEW h \in BOOLEAN, AckSyncs(e, h) PROVE TypeOK'
    BY <2>10 DEF AckSyncs, Reply, status, Steps
  <2>11. ASSUME NEW e \in Events, NEW h \in BOOLEAN, AckUnknown(e, h) PROVE TypeOK'
    BY <2>11 DEF AckUnknown, Reply, status
  <2>12. CASE AckClaims
    BY <2>12 DEF AckClaims, status, net, Steps, Idle
  <2>13. CASE AckRoutes
    BY <2>13 DEF AckRoutes, Route, table, status, net, Steps, Idle
  <2>14. CASE AckRouteFails
    <3>1. online' \in BOOLEAN
      BY <2>14, Zenon DEF AckRouteFails, SetOffline
    <3> QED BY <3>1, <2>14 DEF AckRouteFails, Route, Disconnect, SetOffline, table, Idle
  <2>15. CASE AckSettles
    BY <2>15 DEF AckSettles, table, status, net, Idle
  <2>16. CASE FallbackScans
    BY <2>16 DEF FallbackScans, DueForFallback, table, status, net
  <2>17. CASE FallbackRoutes
    BY <2>17 DEF FallbackRoutes, Route, table, status, net
  <2>18. ASSUME NEW e \in Events, NEW f \in {"fresh", "applied"}, HubTakes(e, f) PROVE TypeOK'
    BY <2>18, HubTakesStep DEF HubTakes, table, status
  <2>19. ASSUME NEW e \in Events, NEW f \in {"fresh", "applied"}, HubSilent(e, f) PROVE TypeOK'
    BY <2>19 DEF HubSilent, table, status
  <2>20. CASE Restart
    <3>1. online' \in BOOLEAN
      BY <2>20, Zenon DEF Restart
    <3> QED BY <3>1, <2>20 DEF Restart, table
  <2>21. CASE UNCHANGED vars
    BY <2>21 DEF vars, table, status, net
  <2> QED
    BY <2>1, <2>2, <2>3, <2>4, <2>5, <2>6, <2>7, <2>8, <2>9, <2>10, <2>11, <2>12, <2>13,
       <2>14, <2>15, <2>16, <2>17, <2>18, <2>19, <2>20, <2>21 DEF Next, AckStep
<1> QED BY <1>1, <1>2, PTL DEF Spec

-----------------------------------------------------------------------------
(* At most one task has claimed an event and not routed it yet, and an      *)
(* event is routed only once claimed: the claim is what decides between the *)
(* session and the fallback task.                                           *)
AckRouting(e) == agent.step = "route" /\ agent.event = e

ClaimInv ==
  \A e \in Events :
    /\ routed[e] <= 1
    /\ routed[e] > 0 => e \in fallback
    /\ task = e => e \in fallback /\ routed[e] = 0
    /\ AckRouting(e) => e \in fallback /\ routed[e] = 0 /\ task # e

(* Every claimed event was routed, is being routed, or was lost.            *)
AccountInv ==
  \A e \in fallback : routed[e] > 0 \/ task = e \/ AckRouting(e) \/ e \in lost

(* Only a claimed event is announced as pushed by the device, and only an   *)
(* event the Hub pushed, or was told of, comes back as handled.             *)
TakenInv ==
  \A e \in Events :
    /\ envelope[e] = "applied" \/ <<e, "applied">> \in wire \/ took[e] = "told"
         => e \in fallback
    /\ <<e, TRUE>> \in replies => took[e] \in {"pushed", "told"}

(* An event is settled only once the Hub pushed it or the device claimed    *)
(* it, and its envelope waits until then.                                   *)
SettleInv ==
  \A e \in Events :
    /\ sync[e] = "synced" /\ envelope[e] = "none" => took[e] = "pushed" \/ e \in fallback
    /\ agent.event = e => envelope[e] # "none"
    /\ agent.event = e /\ agent.step = "settle" => took[e] = "pushed" \/ e \in fallback

IInv == TypeOK /\ ClaimInv /\ AccountInv /\ TakenInv /\ SettleInv

-----------------------------------------------------------------------------
(* The steps that neither claim nor route an event.                         *)
Quiet ==
  /\ UNCHANGED <<fallback, routed>>
  /\ \/ UNCHANGED <<agent, task, lost>>
     \/ UNCHANGED <<task, lost>> /\ agent'.step # "route" /\ agent.step # "route"
     \/ /\ agent' = Idle /\ task' = None
        /\ lost' = lost \cup {e \in Events : Claimed(e)}

LEMMA NextCases ==
  ASSUME TypeOK, [Next]_vars
  PROVE  Quiet \/ AckClaims \/ AckRoutes \/ AckRouteFails \/ FallbackRoutes
         \/ \E e \in Events : FallbackClaims(e)
<1>1. ASSUME NEW e \in Events, Record(e) \/ Ages(e) \/ Enqueue(e) PROVE Quiet
  BY <1>1 DEF Record, Ages, Enqueue, table, Quiet
<1>2. CASE TimeoutElapses \/ SessionStarts \/ GuardReports \/ Flush \/ FallbackScans
  BY <1>2 DEF TimeoutElapses, SessionStarts, GuardReports, Flush, FallbackScans, table, Quiet
<1>3. CASE SessionEnds
  BY <1>3 DEF SessionEnds, Disconnect, table, Quiet, Idle
<1>4. ASSUME NEW e \in Events, NEW h \in BOOLEAN, AckSyncs(e, h) \/ AckUnknown(e, h)
      PROVE  Quiet
  <2>1. UNCHANGED <<fallback, routed, task, lost>> /\ agent = Idle
    BY <1>4 DEF AckSyncs, AckUnknown, Reply
  <2>2. agent' = agent \/ agent'.step # "route"
    BY <1>4 DEF AckSyncs, AckUnknown
  <2> QED BY <2>1, <2>2 DEF Quiet, Idle
<1>5. CASE AckSettles
  BY <1>5 DEF AckSettles, table, Quiet, Idle
<1>6. ASSUME NEW e \in Events, NEW f \in {"fresh", "applied"},
             HubTakes(e, f) \/ HubSilent(e, f)
      PROVE  Quiet
  BY <1>6 DEF HubTakes, HubSilent, table, Quiet
<1>7. CASE Restart
  BY <1>7 DEF Restart, table, Quiet
<1>8. CASE UNCHANGED vars
  BY <1>8 DEF vars, table, Quiet
<1> QED BY <1>1, <1>2, <1>3, <1>4, <1>5, <1>6, <1>7, <1>8 DEF Next, AckStep

(* Quiet steps keep the claims and the account of them.                     *)
LEMMA QuietKeepsClaims ==
  ASSUME TypeOK, ClaimInv, AccountInv, Quiet
  PROVE  ClaimInv' /\ AccountInv'
<1>1. ClaimInv'
  BY NoneAssumption DEF ClaimInv, Quiet, AckRouting, Idle
<1>2. AccountInv'
  BY DEF AccountInv, Quiet, AckRouting, Claimed, TypeOK
<1> QED BY <1>1, <1>2

(* Of two tasks that want to deliver an event only the first one claims it. *)
LEMMA ClaimStep ==
  ASSUME TypeOK, ClaimInv, AccountInv, [Next]_vars
  PROVE  ClaimInv' /\ AccountInv'
<1>1. CASE Quiet
  BY <1>1, QuietKeepsClaims
<1>2. CASE AckClaims
  <2>1. /\ agent.event \in Events
        /\ agent'.event = agent.event
        /\ agent'.step = IF agent.event \in fallback THEN "settle" ELSE "route"
        /\ UNCHANGED <<routed, task, lost>>
    BY <1>2 DEF AckClaims, TypeOK, Idle
  <2> QED BY <1>2, <2>1 DEF AckClaims, ClaimInv, AccountInv, AckRouting, TypeOK
<1>3. CASE AckRoutes
  <2>1. /\ agent.event \in Events /\ agent.step = "route"
        /\ agent'.step = "settle"
        /\ \A e \in Events : routed'[e] = IF e = agent.event THEN routed[e] + 1 ELSE routed[e]
        /\ UNCHANGED <<fallback, task, lost>>
    BY <1>3 DEF AckRoutes, Route, TypeOK, Idle, table
  <2> QED BY <2>1 DEF ClaimInv, AccountInv, AckRouting, TypeOK
<1>4. CASE AckRouteFails
  <2>1. /\ agent.event \in Events /\ agent.step = "route"
        /\ agent'.step = "idle"
        /\ \A e \in Events : routed'[e] = IF e = agent.event THEN routed[e] + 1 ELSE routed[e]
        /\ UNCHANGED <<fallback, task, lost>>
    BY <1>4 DEF AckRouteFails, Disconnect, Route, TypeOK, Idle, table
  <2> QED BY <2>1 DEF ClaimInv, AccountInv, AckRouting, TypeOK
<1>5. CASE FallbackRoutes
  <2>1. /\ task \in Events /\ task' = None
        /\ \A e \in Events : routed'[e] = IF e = task THEN routed[e] + 1 ELSE routed[e]
        /\ UNCHANGED <<fallback, agent, lost>>
    BY <1>5 DEF FallbackRoutes, Route, TypeOK, table
  <2> QED BY <2>1, NoneAssumption DEF ClaimInv, AccountInv, AckRouting, TypeOK
<1>6. ASSUME NEW e \in Events, FallbackClaims(e) PROVE ClaimInv' /\ AccountInv'
  <2>1. /\ fallback' = fallback \cup {e}
        /\ task = None
        /\ task' = IF e \in fallback THEN None ELSE e
        /\ UNCHANGED <<routed, agent, lost>>
    BY <1>6 DEF FallbackClaims
  <2> QED BY <2>1, NoneAssumption DEF ClaimInv, AccountInv, AckRouting, TypeOK
<1> QED BY <1>1, <1>2, <1>3, <1>4, <1>5, <1>6, NextCases

-----------------------------------------------------------------------------
(* What a step may do to the envelopes, the wire and the Hub's answers.     *)
LEMMA TakenStep ==
  ASSUME TypeOK, TakenInv, [Next]_vars
  PROVE  TakenInv'
<1> DEFINE Fewer == wire' \subseteq wire /\ replies' \subseteq replies /\ UNCHANGED took
           Same == UNCHANGED <<envelope, fallback>>
<1>1. ASSUME Fewer, fallback \subseteq fallback',
             \A e \in Events : envelope'[e] = "applied" => envelope[e] = "applied" \/ e \in fallback
      PROVE  TakenInv'
  BY <1>1 DEF TakenInv
<1>2. ASSUME NEW e \in Events, Record(e) \/ Ages(e) \/ FallbackClaims(e) PROVE TakenInv'
  BY <1>2, <1>1 DEF Record, Ages, FallbackClaims, net
<1>3. ASSUME NEW e \in Events, Enqueue(e) PROVE TakenInv'
  <2>1. \A d \in Events : envelope'[d] = "applied" => envelope[d] = "applied" \/ d \in fallback
    BY <1>3 DEF Enqueue, TypeOK
  <2> QED BY <1>3, <2>1, <1>1 DEF Enqueue, table, net
<1>4. CASE TimeoutElapses \/ SessionStarts \/ GuardReports \/ FallbackScans \/ FallbackRoutes
           \/ AckClaims \/ AckRoutes
  BY <1>4, <1>1 DEF TimeoutElapses, SessionStarts, GuardReports, FallbackScans, FallbackRoutes,
     AckClaims, AckRoutes, table, net
<1>5. CASE SessionEnds \/ AckRouteFails \/ Restart
  BY <1>5, <1>1 DEF SessionEnds, AckRouteFails, Disconnect, Restart, table
<1>6. CASE Flush
  <2>1. \A e \in Events : <<e, "applied">> \in wire' =>
          <<e, "applied">> \in wire \/ envelope[e] = "applied"
    BY <1>6 DEF Flush
  <2> QED BY <1>6, <2>1 DEF Flush, TakenInv, table
<1>7. ASSUME NEW e \in Events, NEW h \in BOOLEAN, AckSyncs(e, h) \/ AckUnknown(e, h)
      PROVE  TakenInv'
  BY <1>7, <1>1 DEF AckSyncs, AckUnknown, Reply
<1>8. CASE AckSettles
  <2>1. \A e \in Events : envelope'[e] = "applied" => envelope[e] = "applied"
    BY <1>8 DEF AckSettles, TypeOK
  <2> QED BY <1>8, <2>1, <1>1 DEF AckSettles, table, net
<1>9. ASSUME NEW e \in Events, NEW f \in {"fresh", "applied"}, HubTakes(e, f) PROVE TakenInv'
  <2>1. Same /\ wire' \subseteq wire /\ <<e, f>> \in wire
    BY <1>9 DEF HubTakes, table
  <2>2. PICK verdict \in Verdicts(e, f) : HubTakesAs(e, verdict)
    BY <1>9, HubTakesStep
  <2>3. ASSUME NEW d \in Events, <<d, TRUE>> \in replies' PROVE took'[d] \in {"pushed", "told"}
    <3>1. <<d, TRUE>> \in replies \/ (d = e /\ verdict # "unhandled")
      BY <2>2, <2>3, Zenon DEF HubTakesAs
    <3>2. <<d, TRUE>> \in replies => took[d] \in {"pushed", "told"}
      BY Zenon DEF TakenInv
    <3> QED BY <3>1, <3>2, <2>2 DEF HubTakesAs, Verdicts, TypeOK
  <2>4. ASSUME NEW d \in Events, took'[d] = "told" PROVE d \in fallback
    BY <2>1, <2>2, <2>4 DEF TakenInv, HubTakesAs, Verdicts
  <2> QED BY <2>1, <2>3, <2>4 DEF TakenInv
<1>10. ASSUME NEW e \in Events, NEW f \in {"fresh", "applied"}, HubSilent(e, f) PROVE TakenInv'
  BY <1>10, <1>1 DEF HubSilent, table
<1>11. CASE UNCHANGED vars
  BY <1>11, <1>1 DEF vars, table, net
<1> QED BY <1>2, <1>3, <1>4, <1>5, <1>6, <1>7, <1>8, <1>9, <1>10, <1>11 DEF Next, AckStep

(* Syncing, claiming and settling an event in that order.                   *)
LEMMA SettleStep ==
  ASSUME TypeOK, ClaimInv, TakenInv, SettleInv, [Next]_vars
  PROVE  SettleInv'
<1> DEFINE Kept == UNCHANGED <<sync, envelope, took>> /\ fallback \subseteq fallback'
<1>1. ASSUME Kept, agent' = agent \/ agent' = Idle PROVE SettleInv'
  BY <1>1, NoneAssumption DEF SettleInv, Idle
<1>2. ASSUME NEW e \in Events, Record(e) PROVE SettleInv'
  BY <1>2 DEF Record, SettleInv, TypeOK, net
<1>3. ASSUME NEW e \in Events, Ages(e) \/ FallbackClaims(e) PROVE SettleInv'
  BY <1>3, <1>1 DEF Ages, FallbackClaims, net
<1>4. ASSUME NEW e \in Events, Enqueue(e) PROVE SettleInv'
  BY <1>4 DEF Enqueue, SettleInv, TypeOK, table, net
<1>5. CASE TimeoutElapses \/ SessionStarts \/ GuardReports \/ FallbackScans \/ FallbackRoutes
           \/ Flush
  BY <1>5, <1>1 DEF TimeoutElapses, SessionStarts, GuardReports, FallbackScans, FallbackRoutes,
     Flush, table, net
<1>6. CASE SessionEnds \/ AckRouteFails \/ Restart
  BY <1>6, <1>1 DEF SessionEnds, AckRouteFails, Disconnect, Restart, table
<1>7. ASSUME NEW e \in Events, NEW h \in BOOLEAN, AckSyncs(e, h) PROVE SettleInv'
  <2>1. /\ UNCHANGED <<fallback, envelope, took>> /\ envelope[e] # "none"
        /\ agent'.event = e
        /\ \A d \in Events : d # e => sync'[d] = sync[d]
    BY <1>7 DEF AckSyncs, Reply, TypeOK
  <2>2. agent'.step = "settle" => h = TRUE
    BY <1>7 DEF AckSyncs
  <2>3. h = TRUE => took[e] = "pushed" \/ e \in fallback
    <3>1. <<e, h>> \in replies
      BY <1>7, Zenon DEF AckSyncs, Reply
    <3>2. h = TRUE => took[e] \in {"pushed", "told"}
      BY <3>1, Zenon DEF TakenInv
    <3> QED BY <3>2 DEF TakenInv
  <2> QED BY <2>1, <2>2, <2>3 DEF SettleInv
<1>8. ASSUME NEW e \in Events, NEW h \in BOOLEAN, AckUnknown(e, h) PROVE SettleInv'
  BY <1>8, <1>1 DEF AckUnknown, Reply
<1>9. CASE AckClaims
  <2>1. /\ UNCHANGED <<sync, envelope, took>> /\ fallback' = fallback \cup {agent.event}
        /\ agent'.event = agent.event
    BY <1>9 DEF AckClaims, TypeOK, Idle, net
  <2> QED BY <2>1 DEF SettleInv
<1>10. CASE AckRoutes
  <2>1. /\ UNCHANGED <<sync, envelope, took, fallback>>
        /\ agent'.event = agent.event /\ AckRouting(agent.event)
    BY <1>10 DEF AckRoutes, TypeOK, Idle, table, net, AckRouting
  <2> QED BY <2>1 DEF SettleInv, ClaimInv
<1>11. CASE AckSettles
  <2>1. /\ UNCHANGED <<sync, took, fallback>> /\ agent' = Idle /\ agent.step = "settle"
        /\ \A e \in Events : envelope'[e] = IF e = agent.event THEN "none" ELSE envelope[e]
    BY <1>11 DEF AckSettles, TypeOK, table, net
  <2> QED BY <2>1, NoneAssumption DEF SettleInv, Idle
<1>12. ASSUME NEW e \in Events, NEW f \in {"fresh", "applied"}, HubTakes(e, f)
       PROVE  SettleInv'
  <2>1. /\ UNCHANGED <<sync, envelope, agent, fallback>>
        /\ \A d \in Events : took[d] = "pushed" => took'[d] = "pushed"
    <3>1. PICK verdict \in Verdicts(e, f) : HubTakesAs(e, verdict)
      BY <1>12, HubTakesStep
    <3> QED BY <1>12, <3>1 DEF HubTakes, HubTakesAs, Verdicts, table
  <2> QED BY <2>1 DEF SettleInv
<1>13. ASSUME NEW e \in Events, NEW f \in {"fresh", "applied"}, HubSilent(e, f)
       PROVE  SettleInv'
  BY <1>13, <1>1 DEF HubSilent, table
<1>14. CASE UNCHANGED vars
  BY <1>14, <1>1 DEF vars, table, net
<1> QED BY <1>2, <1>3, <1>4, <1>5, <1>6, <1>7, <1>8, <1>9, <1>10, <1>11, <1>12, <1>13, <1>14
        DEF Next, AckStep

LEMMA InductiveInvariant == Spec => []IInv
<1>1. Init => IInv
  <2> SUFFICES ASSUME Init PROVE ClaimInv /\ AccountInv /\ TakenInv /\ SettleInv /\ TypeOK
    BY DEF IInv
  <2>1. TypeOK
    BY TypeAtInit
  <2>2. ClaimInv /\ AccountInv
    BY NoneAssumption DEF Init, ClaimInv, AccountInv, AckRouting, Idle
  <2>3. TakenInv /\ SettleInv
    BY NoneAssumption DEF Init, TakenInv, SettleInv, Idle
  <2> QED BY <2>1, <2>2, <2>3
<1>2. TypeOK /\ TypeOK' /\ IInv /\ [Next]_vars => IInv'
  BY ClaimStep, TakenStep, SettleStep DEF IInv
<1> QED BY <1>1, <1>2, TypeCorrect, PTL DEF Spec

(* The session and the fallback task never both give an event to the        *)
(* device's rules, nor either of them twice: deliver_queued_hub_event       *)
(* claims it in the table first.                                            *)
THEOREM RoutesOnce == Spec => []RoutedOnce
<1>1. IInv => RoutedOnce
  BY DEF IInv, ClaimInv, RoutedOnce
<1> QED BY <1>1, InductiveInvariant, PTL

(* handle_message_ack lets an event leave the outbox only once somebody     *)
(* pushed it or has claimed it.                                             *)
THEOREM SettledEventsArePushed == Spec => []SettledIsPushed
<1>1. IInv => SettledIsPushed
  BY DEF IInv, AccountInv, SettleInv, SettledIsPushed, AckRouting
<1> QED BY <1>1, InductiveInvariant, PTL
=============================================================================
