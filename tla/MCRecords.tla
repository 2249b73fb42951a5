------------------------------ MODULE MCRecords -----------------------------
(* Server rows, imports, bouquets, lines and the options of a channel for    *)
(* TLC: components that share nothing in the model, in one run.  A behaviour *)
(* is one of the component chosen at its start, the others rest.             *)
EXTENDS ServerRegistry, Imports, Catalog, LineLifecycle, ChannelOptions

VARIABLE part

recVars == <<part, srVars, imVars, catVars, llVars, coVars>>

\* All entries of the provider share one URL.
OneUrl == [e \in Entries |-> "url"]

\* Requests that name what decides whether a command can be built.
ShortBodies ==
  {[mpd |-> "hls"], [mpd |-> "dash"], [mpd |-> "dash", keys |-> TRUE],
   [mpd |-> "hls", declared |-> "auto"], [queue |-> {"hls", "dash"}, declared |-> "auto"],
   [format |-> "mpegts"], [multi |-> TRUE, rends |-> 2, mode |-> "transcode"],
   [mark |-> TRUE], [keys |-> FALSE], [profile |-> "p1"],
   [mpd |-> "hls", profile |-> NoProfile]}

\* Components that rest do so in one of their initial states.
RecordsInit ==
  /\ part \in {"servers", "imports", "catalog", "lines", "options"}
  /\ SrInit /\ ImInit /\ CatInit /\ LlInit /\ CoInit
  /\ (part # "servers" => \A s \in Servers : server[s].role # "main")
  /\ (part # "imports" => kind = "movies")
  /\ (part # "catalog" => ever = {} /\ \A b \in Bouquets : ~OnOffer(b))

RecordsNext ==
  /\ UNCHANGED part
  /\ \/ part = "servers" /\ SrNext /\ UNCHANGED <<imVars, catVars, llVars, coVars>>
     \/ part = "imports" /\ ImNext /\ UNCHANGED <<srVars, catVars, llVars, coVars>>
     \/ part = "catalog" /\ CatNext /\ UNCHANGED <<srVars, imVars, llVars, coVars>>
     \/ part = "lines" /\ LlNext /\ UNCHANGED <<srVars, imVars, catVars, coVars>>
     \/ part = "options" /\ CoNext /\ UNCHANGED <<srVars, imVars, catVars, llVars>>

RecordsSpec == RecordsInit /\ [][RecordsNext]_recVars

RecordsTypeOK ==
  SrTypeOK /\ ImTypeOK /\ CatTypeOK /\ LlTypeOK /\ CoTypeOK
=============================================================================
