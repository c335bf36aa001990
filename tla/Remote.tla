------------------------------- MODULE Remote -------------------------------
(***************************************************************************)
(* The parts of the service that deal with somebody else and share no      *)
(* state: the notification queue with its channel, the rules that choose   *)
(* channels, what runs for a Hub, dynamic DNS with its provider, sessions  *)
(* on the SIM card, calls, what is remembered of SIMs, and the cells the   *)
(* modem hears.  A behaviour is of one of them: area says of which.        *)
(***************************************************************************)
EXTENDS NotificationQueue, HubLifecycle, Ddns, ApduSession, CallLog, SimRecords, Routing, CellScan

VARIABLE area

Areas == {"queue", "hub", "ddns", "card", "calls", "sims", "routing", "cells"}

\* A part that rests is as one of its own behaviours begins.
RemoteTypeOK ==
  /\ area \in Areas
  /\ area = "queue"   => TypeOK
  /\ area = "hub"     => HubTypeOK
  /\ area = "ddns"    => DdnsTypeOK
  /\ area = "card"    => ApduTypeOK
  /\ area = "calls"   => CallTypeOK
  /\ area = "sims"    => SimTypeOK
  /\ area = "routing" => RoutingTypeOK
  /\ area = "cells"   => CellTypeOK

\* What the other parts start with makes no difference.
RemoteInit ==
  /\ area \in Areas
  /\ Init /\ ApduInit /\ CallInit
  /\ HubInit     /\ (area # "hub" => ~hub.enabled /\ saved = NoConfig)
  /\ DdnsInit    /\ (area # "ddns" => ~settings.enabled)
  /\ SimInit     /\ (area # "sims" => fresh = {} /\ chip = CHOOSE c \in FirstChips : TRUE)
  /\ RoutingInit /\ (area # "routing" => plan = CHOOSE p \in Schemes : TRUE)
  /\ CellInit    /\ (area # "cells" => near = Towers /\ camped = (CHOOSE t \in Towers : TRUE) /\ ~oneBand)

\* The others rest.
RemoteNext ==
  /\ UNCHANGED area
  /\ IF area = "queue"   THEN Next        ELSE UNCHANGED vars
  /\ IF area = "hub"     THEN HubNext     ELSE UNCHANGED hubLife
  /\ IF area = "ddns"    THEN DdnsNext    ELSE UNCHANGED ddns
  /\ IF area = "card"    THEN ApduNext    ELSE UNCHANGED simCard
  /\ IF area = "calls"   THEN CallNext    ELSE UNCHANGED callLog
  /\ IF area = "sims"    THEN SimNext     ELSE UNCHANGED simRecords
  /\ IF area = "routing" THEN RoutingNext ELSE UNCHANGED routing
  /\ IF area = "cells"   THEN CellNext    ELSE UNCHANGED cellScan

RemoteSpec ==
  RemoteInit /\ [][RemoteNext]_<<area, vars, hubLife, ddns, simCard, callLog, simRecords,
                                 routing, cellScan>>
=============================================================================
