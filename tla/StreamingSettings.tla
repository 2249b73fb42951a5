-------------------------- MODULE StreamingSettings --------------------------
(* The streaming settings (lib/streaming-settings.js): rows of the table     *)
(* settings, which streams never read; they read a cache, which a refresh    *)
(* replaces after it has read the rows one await at a time.  A timer, every  *)
(* save and every look at the settings page refresh, and nothing keeps two   *)
(* refreshes apart.                                                          *)
(*                                                                           *)
(* A stored value is a number, a word or nothing; sizes are in bytes.        *)
EXTENDS Naturals, Sequences, Bags, BagsExt

CONSTANTS Env,          \* key -> its environment variable, as a stored value
          MoreFlags,    \* the flags read after the ingest style
          Edits,        \* values an administrator may write by key
          MaxSaves, MaxErrors,   \* bounds on saves and on failing reads
          MaxTimers     \* refreshes of the timer under way at a time

SizeKey == "prebuffer_size_mb"
MinKey == "prebuffer_on_demand_min_bytes"
WaitKey == "prebuffer_on_demand_max_wait_ms"
StyleKey == "ingest_style"
Order == <<"prebuffer_enabled", SizeKey, MinKey, WaitKey, StyleKey>> \o MoreFlags
Keys == {Order[i] : i \in 1..Len(Order)}

Blank == [is |-> "blank"]
Num(n) == [is |-> "number", n |-> n]
Word(w) == [is |-> "word", w |-> w]

MB == 1048576
Styles == {"webapp", "xc", "safe"}
Least(m, n) == IF m <= n THEN m ELSE n
Clamp(n, low, high) == IF n < low THEN low ELSE Least(n, high)

ASSUME SettingsAssumption ==
  /\ DOMAIN Env = Keys /\ DOMAIN Edits = Keys
  /\ \A k \in Keys : \A raw \in {Env[k]} \cup Edits[k] :
       raw = Blank \/ raw.is = "word" \/ (raw.is = "number" /\ raw.n \in Nat)
  /\ MaxSaves \in Nat /\ MaxErrors \in Nat /\ MaxTimers \in Nat \ {0}

VARIABLES stored,      \* the rows, by key
          cache,       \* what streams go by
          refreshes,   \* refreshes under way, a bag
          request,     \* the save under way
          form,        \* the inputs of the settings page
          saves, errors

ssVars == <<stored, cache, refreshes, request, form, saves, errors>>

NoRequest == [left |-> <<>>]
NewRefresh(by) == [by |-> by, at |-> "reading", row |-> <<>>]

------------------------------------------------------------------------------
(* Parsing                                                                   *)

ParseNumber(raw, default, low, high) ==
  IF raw.is = "number" THEN Clamp(raw.n, low, high) ELSE default
ParseBool(raw, default) ==
  IF raw = Word("1") THEN TRUE ELSE IF raw = Word("0") THEN FALSE ELSE default

\* buildCacheFromEnvOnly; an environment that says "safe" means "xc", and the
\* least number of bytes has another default than the one DEFAULTS names
FromEnv ==
  LET size == ParseNumber(Env[SizeKey], MB, MB \div 2, 16 * MB) IN
  [k \in Keys |->
     CASE k = SizeKey -> size
       [] k = MinKey -> Least(size, IF Env[k].is = "number" THEN Env[k].n ELSE 2 * MB)
       [] k = WaitKey -> ParseNumber(Env[k], 500, 100, 60000)
       [] k = StyleKey -> IF Env[k] \in {Blank, Word("webapp")} THEN "webapp" ELSE "xc"
       [] OTHER -> ParseBool(Env[k], TRUE)]

\* mergeDbRowIntoCache: what the environment says is in base already
Merge(row, base) ==
  LET size == ParseNumber(row[SizeKey], base[SizeKey], MB \div 2, 16 * MB) IN
  [k \in Keys |->
     CASE k = SizeKey -> size
       [] k = MinKey -> IF row[k].is = "number" THEN Least(size, row[k].n) ELSE base[k]
       [] k = WaitKey -> ParseNumber(row[k], base[k], 100, 60000)
       [] k = StyleKey ->
            IF \E s \in Styles : row[k] = Word(s) THEN row[k].w ELSE base[k]
       [] OTHER -> ParseBool(row[k], base[k])]

\* a fault: rows that are empty leave the cache as it is
StaleBase == cache
Base == FromEnv

------------------------------------------------------------------------------
(* Refreshing                                                                *)

Timers == [f \in {g \in DOMAIN refreshes : g.by = "timer"} |-> refreshes[f]]

\* startPeriodicRefresh: the interval fires whether or not the last is done
TimerFires ==
  /\ BagCardinality(Timers) < MaxTimers
  /\ refreshes' = BagAdd(refreshes, NewRefresh("timer"))
  /\ UNCHANGED <<stored, cache, request, form, saves, errors>>

\* what follows a refresh: the page that saved loads the settings again, the
\* page that loads them is answered
Followed(f) ==
  LET others == BagRemove(refreshes, f) IN
  CASE f.by = "page saves" -> BagAdd(others, NewRefresh("page loads"))
    [] f.by = "page loads" -> BagAdd(others, [f EXCEPT !.at = "answer", !.row = <<>>])
    [] OTHER -> others

\* one row is read, or cannot be and counts as empty; the last replaces the cache
ReadKey(f) ==
  /\ f.at = "reading"
  /\ \E failed \in BOOLEAN :
       /\ failed => errors < MaxErrors
       /\ errors' = IF failed THEN errors + 1 ELSE errors
       /\ LET n == Len(f.row) + 1
              row == Append(f.row, IF failed THEN Blank ELSE stored[Order[n]])
              at(k) == CHOOSE i \in 1..n : Order[i] = k
          IN IF n = Len(Order)
               THEN /\ cache' = Merge([k \in Keys |-> row[at(k)]], Base)
                    /\ refreshes' = Followed(f)
               ELSE /\ refreshes' = BagAdd(BagRemove(refreshes, f), [f EXCEPT !.row = row])
                    /\ UNCHANGED cache
  /\ UNCHANGED <<stored, request, form, saves>>

------------------------------------------------------------------------------
(* The settings page                                                         *)

\* loadStreamingPerformanceSettings shows whole megabytes
Shown(config) ==
  [config EXCEPT ![SizeKey] = MB * Clamp((@ + MB \div 2) \div MB, 1, 16)]

FormLoaded(f) ==
  /\ f.at = "answer"
  /\ form' = Shown(cache)
  /\ refreshes' = BagRemove(refreshes, f)
  /\ UNCHANGED <<stored, cache, request, saves, errors>>

\* applyStreamingPreset
Preset(which) ==
  LET calm == which = "stable" IN
  [k \in Keys |->
     CASE k = SizeKey -> IF calm THEN 8 * MB ELSE 6 * MB
       [] k = MinKey -> IF which = "balanced" THEN MB ELSE 2 * MB
       [] k = WaitKey -> IF calm THEN 8000 ELSE IF which = "balanced" THEN 5000 ELSE 3000
       [] k = StyleKey -> IF calm THEN "safe" ELSE IF which = "balanced" THEN "xc" ELSE "webapp"
       [] k \in {"low_latency_enabled", "minimal_ingest_enabled"} -> ~calm
       [] OTHER -> TRUE]

ApplyPreset(which) ==
  /\ saves < MaxSaves
  /\ form' = Preset(which)
  /\ UNCHANGED <<stored, cache, refreshes, request, saves, errors>>

\* the size typed in is clamped, the wait is not
TypeWait ==
  /\ saves < MaxSaves
  /\ form' = [form EXCEPT ![WaitKey] = 50]
  /\ UNCHANGED <<stored, cache, refreshes, request, saves, errors>>

\* saveStreamingPerformance sends every input
AsRaw(k, v) == IF k \in {SizeKey, MinKey, WaitKey} THEN Num(v)
               ELSE IF k = StyleKey THEN Word(v) ELSE Word(IF v THEN "1" ELSE "0")
SavePage ==
  /\ saves < MaxSaves /\ request = NoRequest
  /\ saves' = saves + 1
  /\ request' = [left |-> [i \in 1..Len(Order) |->
                             [key |-> Order[i], raw |-> AsRaw(Order[i], form[Order[i]])]]]
  /\ UNCHANGED <<stored, cache, refreshes, form, errors>>

\* PUT /settings/streaming-performance: key by key; one that is refused ends
\* it, with those before it stored and no refresh
Accepted(k, raw) ==
  /\ k = SizeKey => raw.n >= MB /\ raw.n <= 16 * MB
  /\ k = WaitKey => raw.n >= 100 /\ raw.n <= 60000

StoreKey ==
  /\ request # NoRequest
  /\ LET first == Head(request.left) IN
     IF Accepted(first.key, first.raw)
       THEN /\ stored' = [stored EXCEPT ![first.key] = first.raw]
            /\ request' = [left |-> Tail(request.left)]
            /\ refreshes' = IF Len(request.left) > 1 THEN refreshes
                            ELSE BagAdd(refreshes, NewRefresh("page saves"))
       ELSE /\ request' = NoRequest
            /\ UNCHANGED <<stored, refreshes>>
  /\ UNCHANGED <<cache, form, saves, errors>>

\* PUT /settings stores what it is sent
EditRaw(k, raw) ==
  /\ saves < MaxSaves
  /\ saves' = saves + 1
  /\ stored' = [stored EXCEPT ![k] = raw]
  /\ refreshes' = BagAdd(refreshes, NewRefresh("edit"))
  /\ UNCHANGED <<cache, request, form, errors>>

------------------------------------------------------------------------------
SsInit ==
  /\ stored \in {[k \in Keys |-> Blank],
                 [k \in Keys |-> AsRaw(k, Preset("balanced")[k])]}
  /\ cache = Merge(stored, FromEnv)
  /\ form = Shown(cache)
  /\ refreshes = EmptyBag /\ request = NoRequest
  /\ saves = 0 /\ errors = 0

UnderRefresh == BagToSet(refreshes)

SsNext ==
  \/ TimerFires
  \/ \E f \in UnderRefresh : ReadKey(f)
  \/ \E f \in UnderRefresh : FormLoaded(f)
  \/ \E which \in {"ultra_fast", "balanced", "stable"} : ApplyPreset(which)
  \/ TypeWait
  \/ SavePage
  \/ StoreKey
  \/ \E k \in Keys : \E raw \in Edits[k] : EditRaw(k, raw)

SsSpec == SsInit /\ [][SsNext]_ssVars

\* The interval fires for ever, and a query is answered or fails.
SsFairness ==
  /\ WF_ssVars(TimerFires)
  /\ WF_ssVars(\E f \in UnderRefresh : ReadKey(f))

------------------------------------------------------------------------------
\* Refreshes that overlap may leave the cache with rows of before a save, and
\* a save that is refused half-way is not followed by one: but once nobody
\* saves any more and queries succeed, streams go by what is stored.
SettingsTakeEffect == <>[](cache = Merge(stored, FromEnv))
=============================================================================
