----------------------------- MODULE MCDelivery -----------------------------
(* The MPEG-TS fan-out, the lists of a line and the metadata of titles for   *)
(* TLC: components that share nothing in the model, in one run.  A behaviour *)
(* is one of the component chosen at its start while the others rest.        *)
EXTENDS TsFanout, Listing, TitleMetadata

VARIABLE part

deliveryVars == <<part, fanVars, lsVars, tmVars>>

FanningOut(A) == part = "fanout" /\ A /\ UNCHANGED <<part, lsVars, tmVars>>
Syncing(A) == part = "metadata" /\ A /\ UNCHANGED <<part, fanVars, lsVars>>

\* A component that rests does so in one of its initial states.
DeliveryInit ==
  /\ part \in {"fanout", "lists", "metadata"} /\ FanInit /\ LsInit /\ TmInit
  /\ (part # "lists" =>
        /\ movies = {} /\ channel = [c \in LiveIds |-> "none"]
        /\ bouquet = [b \in BouquetIds |-> [f \in Fields |-> {}]])
  /\ (part # "metadata" => titles = <<>> /\ hasKey)

DeliveryNext ==
  \/ part = "fanout" /\ FanNext /\ UNCHANGED <<part, lsVars, tmVars>>
  \/ part = "lists" /\ LsNext /\ UNCHANGED <<part, fanVars, tmVars>>
  \/ part = "metadata" /\ TmNext /\ UNCHANGED <<part, fanVars, lsVars>>

\* The fairness of FanFairSpec and TmFairness.
DeliveryFairness ==
  /\ \A t \in Timers : WF_deliveryVars(FanningOut(IdleTimer(t)))
  /\ \A v \in Clients : /\ WF_deliveryVars(FanningOut(Refuse(v) \/ Attach(v)))
                        /\ WF_deliveryVars(FanningOut(Prebuffered(v)))
  /\ WF_deliveryVars(Syncing(CronStep))

DeliverySpec == DeliveryInit /\ [][DeliveryNext]_deliveryVars /\ DeliveryFairness
=============================================================================
