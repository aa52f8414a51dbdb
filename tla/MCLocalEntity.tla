--------------------------- MODULE MCLocalEntity ----------------------------
(* LocalEntity with workloads that each concern one part of its state.     *)
EXTENDS LocalEntity

Beats == {"SetLocalFeature", "StartHeartbeat", "StopHeartbeat", "RemoveEntity",
          "GetOrAddFeature"}
Subscriptions == {"SubscribeToRemote", "RemoveRemoteSubscription",
                  "RemoveAllRemoteSubscriptions", "RemoveEntity"}
Bindings == {"BindToRemote", "RemoveRemoteBinding",
             "RemoveAllRemoteBindings"}
Requests == {"RequestRemoteData"}

Parts == {Beats, Subscriptions, Bindings, Requests}
=============================================================================
