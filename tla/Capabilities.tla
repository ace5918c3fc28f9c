---------------------------- MODULE Capabilities ----------------------------
(* What is known of the models of one provider: CapabilityDetector of         *)
(* crates/suis-providers, and resolve_capabilities of its registry.           *)
(*                                                                           *)
(* The records are kept in one file, models/<provider>.json, that every       *)
(* running suis reads and writes whole, with no lock and not atomically: a    *)
(* file that is being written, or whose writer died, is read as an empty one. *)
(* Between its load and its save a detector awaits its probes, several at a   *)
(* time, which end in any order.                                              *)
EXTENDS Integers, Sequences, FiniteSets

CONSTANTS
    Detectors,          \* the processes that share the file
    Models,
    Able,               \* what a probe of a model finds
    Told,               \* what the provider tells of a model, if it does
    Fallback,           \* Capabilities::discovery_default
    Offers,             \* what discovery may come up with: models, in their order,
                        \* those that are advertised, and whether there is a key
    Ttl,
    ProbeConcurrency,
    Unknown,            \* a model without a record
    Torn,               \* a file that does not parse
    MaxTime, MaxRuns    \* bounds

ASSUME CapabilitiesAssumption ==
    /\ Able \in [Models -> STRING] /\ Told \in [Models -> STRING] /\ Fallback \in STRING
    /\ \A offer \in Offers : /\ offer.models \in Seq(Models) /\ offer.advertised \subseteq Models
                              /\ offer.keyed \in BOOLEAN
    /\ Ttl \in Nat /\ ProbeConcurrency \in Nat \ {0} /\ MaxTime \in Nat
    /\ Unknown \notin STRING \union [caps : STRING, at : Nat]
    /\ Torn \notin [Models -> [caps : STRING, at : Nat] \union {Unknown}]

VARIABLES
    records,            \* the file
    run,                \* per detector, the resolution under way
    told,               \* per detector, what its registry says of the models
    now,
    runs,               \* resolutions begun
    whole               \* the file as it was last written whole

detectionVars == <<records, run, told, now, runs, whole>>

NoRecords == [m \in Models |-> Unknown]
Record(caps, at) == [caps |-> caps, at |-> at]

\* load_cache.
Parsed(file) == IF file = Torn THEN NoRecords ELSE file

\* is_stale, of a record that is there.
FreshAt(file, m, time) == Parsed(file)[m] # Unknown /\ time - Parsed(file)[m].at < Ttl
Fresh(file, m) == FreshAt(file, m, now)

\* asked, waiting: places of `models`; landed: what the probes came to, as they end.
NoRun == [at |-> "idle", single |-> FALSE, advertised |-> {}, models |-> <<>>, asked |-> {},
          cache |-> NoRecords, waiting |-> {}, landed |-> <<>>, needed |-> FALSE,
          upset |-> FALSE, outrun |-> FALSE, before |-> <<NoRecords, 0>>]

\* The models a resolution asks for.
Asked(r) == {r.models[i] : i \in r.asked}

DetectionInit ==
    /\ records = NoRecords /\ whole = NoRecords
    /\ run = [d \in Detectors |-> NoRun]
    /\ told = [d \in Detectors |-> [m \in Models |-> Unknown]]
    /\ now = 0 /\ runs = 0

-----------------------------------------------------------------------------

\* resolve_capabilities: the models of a keyed provider are asked for only if
\* that takes no probe (is_fresh_cached).  The detector reads the file again, when
\* it loads it.  `needed` is what needs_capability_probe would say.
ResolveModels(d) ==
    /\ run[d].at = "idle" /\ runs < MaxRuns
    /\ \E offer \in Offers :
          LET places == DOMAIN offer.models
              open == {i \in places : /\ offer.models[i] \notin offer.advertised
                                      /\ ~Fresh(records, offer.models[i])}
          IN  run' = [run EXCEPT ![d] =
                 [NoRun EXCEPT !.at = "asked", !.advertised = offer.advertised,
                     !.models = offer.models,
                     !.asked = IF offer.keyed THEN places \ open ELSE places,
                     !.needed = ~offer.keyed /\ open # {},
                     !.before = <<records, now>>]]
    /\ runs' = runs + 1
    /\ UNCHANGED <<records, told, now, whole>>

\* The records a resolution starts with: what is advertised is recorded at once.
StartingWith(r) ==
    [m \in Models |-> IF m \in r.advertised \intersect Asked(r)
                      THEN Record(Told[m], now) ELSE Parsed(records)[m]]

\* resolve_models up to its probes.
Load(d) ==
    /\ run[d].at = "asked"
    /\ LET r == run[d]
           probed(i) == r.models[i] \notin r.advertised /\ ~Fresh(records, r.models[i])
       IN  run' = [run EXCEPT ![d].at = "probing", ![d].cache = StartingWith(r),
                              ![d].waiting = {i \in r.asked : probed(i)},
                              ![d].upset = r.before # <<records, now>>, ![d].before = NoRun.before,
                              ![d].outrun = records = Torn]
    /\ UNCHANGED <<records, told, now, runs, whole>>

\* detect, of one model, once the user has agreed.
Detect(d, m) ==
    /\ run[d].at = "idle" /\ runs < MaxRuns
    /\ IF Fresh(records, m)
       THEN /\ told' = [told EXCEPT ![d][m] = records[m].caps]
            /\ UNCHANGED run
       ELSE /\ run' = [run EXCEPT ![d] =
                  [NoRun EXCEPT !.at = "probing", !.single = TRUE, !.models = <<m>>, !.asked = {1},
                      !.cache = Parsed(records), !.waiting = {1}, !.needed = TRUE,
                      !.outrun = records = Torn]]
            /\ UNCHANGED told
    /\ runs' = runs + 1
    /\ UNCHANGED <<records, now, whole>>

\* buffer_unordered: one of the first probes that wait ends, in an answer or not.
ProbeEnds(d) ==
    /\ run[d].at = "probing"
    /\ \E i \in run[d].waiting : \E caps \in {Able[run[d].models[i]], Unknown} :
          /\ Cardinality({j \in run[d].waiting : j < i}) < ProbeConcurrency
          /\ run' = [run EXCEPT ![d].waiting = @ \ {i},
                        ![d].landed = Append(@, [place |-> i, came |-> caps])]
    /\ UNCHANGED <<records, told, now, runs, whole>>

\* Fault: answers are taken in the order in which they came.
ProbesInOrder(r, m) ==
    LET places == {r.landed[k].place : k \in DOMAIN r.landed}
    IN  {k \in DOMAIN r.landed :
            \E i \in places : r.models[i] = m /\ k = Cardinality({j \in places : j <= i})}

\* The probes that were made of a model, and what they found.
Probes(r, m) == {k \in DOMAIN r.landed : r.models[r.landed[k].place] = m}
FoundOut(r, m) == {r.landed[k].came : k \in Probes(r, m)} \ {Unknown}

\* The records with the answers, of which the fallback is not one.
Recorded(r) ==
    [m \in Models |-> IF FoundOut(r, m) = {} THEN r.cache[m]
                      ELSE Record(CHOOSE caps \in FoundOut(r, m) : TRUE, now)]

\* What is said of the models that were asked for, in their places.
Said(r, known) ==
    [m \in Models |-> IF m \notin Asked(r) THEN known[m]
                      ELSE IF Probes(r, m) = {} THEN r.cache[m].caps
                      ELSE IF FoundOut(r, m) = {} THEN Fallback
                      ELSE CHOOSE caps \in FoundOut(r, m) : TRUE]

\* All answers are in.  The file is opened, and is empty; or that fails, which a
\* single detection reports.  So it does a probe that failed.
StoreAnswers(d) ==
    /\ run[d].at = "probing" /\ run[d].waiting = {}
    /\ LET r == run[d]
           failed == r.single /\ r.landed[1].came = Unknown
       IN  \/ /\ ~failed
              /\ records' = Torn
              /\ run' = [run EXCEPT ![d].at = "writing", ![d].cache = Recorded(r)]
              /\ told' = [told EXCEPT ![d] = Said(r, @)]
           \/ /\ run' = [run EXCEPT ![d] = NoRun]
              /\ told' = IF r.single THEN told ELSE [told EXCEPT ![d] = Said(r, @)]
              /\ UNCHANGED records
    /\ UNCHANGED <<now, runs, whole>>

\* fs::write puts its text over what another process has put there meanwhile, and
\* leaves the end of a longer one.
Write(d) ==
    /\ run[d].at = "writing"
    /\ records' \in (IF records = Torn THEN {} ELSE {Torn}) \union {run[d].cache}
    /\ whole' = IF records' = Torn THEN whole ELSE records'
    /\ run' = [e \in Detectors |-> IF e = d THEN NoRun ELSE [run[e] EXCEPT !.outrun = run[e].at # "idle"]]
    /\ UNCHANGED <<told, now, runs>>

\* The process ends at any moment and another is started.
Die(d) ==
    /\ run[d].at # "idle"
    /\ run' = [run EXCEPT ![d] = NoRun]
    /\ told' = [told EXCEPT ![d] = [m \in Models |-> Unknown]]
    /\ UNCHANGED <<records, now, runs, whole>>

Tick == now < MaxTime /\ now' = now + 1 /\ UNCHANGED <<records, run, told, runs, whole>>

DetectionNext ==
    \/ \E d \in Detectors : ResolveModels(d) \/ Load(d) \/ ProbeEnds(d) \/ StoreAnswers(d) \/ Write(d) \/ Die(d)
    \/ \E d \in Detectors, m \in Models : Detect(d, m)
    \/ Tick

DetectionSpec == DetectionInit /\ [][DetectionNext]_detectionVars

-----------------------------------------------------------------------------
(* Properties; RecordsKept is asked of every step.                           *)

\* What is recorded or said of a model was found out about that model, in
\* whatever order the probes of several end; and a probe that failed is not
\* recorded, so that it is made again.
RecordsTrue ==
    /\ \A m \in Models :
          Parsed(records)[m] # Unknown => Parsed(records)[m].caps \in {Able[m], Told[m]}
    /\ \A d \in Detectors, m \in Models : told[d][m] \in {Unknown, Able[m], Told[m], Fallback}

\* A model whose record is fresh is not probed; "Detecting" is announced if and
\* only if models are probed, and so no model of a keyed provider is probed
\* unasked, unless the file or the clock changed after they were looked at.
ProbesHonest ==
    \A d \in Detectors : run[d].at = "probing" =>
        /\ \A i \in run[d].waiting : ~Fresh(run[d].cache, run[d].models[i])
        /\ run[d].upset \/ run[d].needed = (run[d].waiting # {} \/ run[d].landed # <<>>)

\* A save takes no record away and sets none back, though it is made from a copy
\* of before the probes, unless another process saved since that copy was taken
\* or was saving then.
RecordsKept ==
    whole' # whole =>
        LET d == CHOOSE e \in Detectors : run[e].at = "writing" /\ run'[e].at # "writing"
        IN  run[d].outrun \/ \A m \in Models : whole[m] # Unknown =>
                whole'[m] # Unknown /\ whole'[m].at >= whole[m].at

\* Of the processes that look at a provider's models: what they record and say of
\* each, which they probe, and what their saves keep.
Detected ==
    /\ [](RecordsTrue /\ ProbesHonest)
    /\ [][RecordsKept]_detectionVars
=============================================================================
