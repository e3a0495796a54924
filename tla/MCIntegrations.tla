--------------------------- MODULE MCIntegrations ---------------------------
(***************************************************************************)
(* The parts that work with services outside, for TLC: outgoing webhooks,  *)
(* the search of places and the pairing of a phone. They share nothing; a  *)
(* behaviour exercises the part its initial state names.                   *)
(***************************************************************************)
EXTENDS Webhooks, PlaceSearch, WhatsappBridge

VARIABLE part

integrationVars == <<part, webhookVars, placeVars, bridgeVars>>

Init ==
  /\ part \in {"webhooks", "places", "bridge"}
  /\ WebhooksInit /\ PlaceInit /\ BridgeInit

Next ==
  /\ UNCHANGED part
  /\ \/ /\ part = "webhooks" /\ WebhooksNext
        /\ UNCHANGED <<placeVars, bridgeVars>>
     \/ /\ part = "places" /\ PlaceNext
        /\ UNCHANGED <<webhookVars, bridgeVars>>
     \/ /\ part = "bridge" /\ BridgeNext
        /\ UNCHANGED <<webhookVars, placeVars>>

\* PlaceFair and BridgeFair for the part that runs; the others owe
\* no steps.
Spec ==
  /\ Init /\ [][Next]_integrationVars
  /\ WF_placeVars(part = "places" /\ PlaceTick)
  /\ \A q \in Searches : WF_placeVars(part = "places" /\ Serve(q))
  /\ WF_bridgeVars(part = "bridge" /\ ConnectStep)
  /\ WF_bridgeVars(part = "bridge" /\ (ConnectAnswered \/ ConnectFailed))
  /\ WF_bridgeVars(part = "bridge" /\ Poll)
  /\ \A r \in Reads : WF_bridgeVars(part = "bridge" /\ (ReadAnswered(r) \/ ApplyRead(r)))
=============================================================================
