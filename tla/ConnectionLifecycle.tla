------------------------- MODULE ConnectionLifecycle -------------------------
(***************************************************************************)
(* The lifecycle that every connection adapter exposes                     *)
(* (crates/mobarust-core/src/lifecycle.rs): its states, its events, and    *)
(* the transitions apply() accepts.                                        *)
(***************************************************************************)

LifecycleStates ==
    {"created", "resolving", "connecting", "authenticating", "connected",
     "reconnecting", "disconnecting", "disconnected", "cancelled", "failed"}

\* The states that are left by an event.
Busy == {"connecting", "authenticating", "reconnecting"}

Transitions(event) ==
    CASE event = "Resolve" -> [s \in {"created"} |-> "resolving"]
      [] event = "BeginConnect" -> [s \in {"created", "resolving"} |-> "connecting"]
      [] event = "BeginAuthentication" -> [s \in {"connecting"} |-> "authenticating"]
      [] event = "AuthenticationSucceeded" -> [s \in {"authenticating"} |-> "connected"]
      [] event = "ConnectionLost" -> [s \in {"connected"} |-> "reconnecting"]
      [] event = "BeginReconnect" -> [s \in {"reconnecting", "failed"} |-> "connecting"]
      [] event = "DisconnectRequested" ->
            [s \in Busy \cup {"connected", "failed"} |-> "disconnecting"]
      [] event = "Disconnected" -> [s \in {"disconnecting"} |-> "disconnected"]
      [] event = "Cancel" ->
            [s \in Busy \cup {"created", "resolving", "connected"} |-> "cancelled"]
      [] event = "Fail" -> [s \in Busy |-> "failed"]

\* The state after apply(event); an event that is not accepted changes nothing.
Apply(state, event) ==
    IF state \in DOMAIN Transitions(event) THEN Transitions(event)[state] ELSE state
=============================================================================
