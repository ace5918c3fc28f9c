----------------------------- MODULE Providers -----------------------------
(***************************************************************************)
(* The providers of a session: what providers.json says, the model picker, *)
(* the background probes that resolve its rows, the form that adds and     *)
(* edits an entry, the verification of a model's capabilities and the      *)
(* choice of a model, which starts a session.                              *)
(* crates/suis-providers (registry, detection) and the picker's side of    *)
(* crates/suis-cli.                                                        *)
(*                                                                         *)
(* A connection stands for an entry's endpoint, transport and key source.  *)
(* Keys and the results of probes and detections are handled one at a time *)
(* by the event loop, in any order.  The picker's cursor, filter and       *)
(* expansion are left out: any row may be the one a key is about.          *)
(***************************************************************************)
EXTENDS Integers, Sequences, FiniteSets, SequencesExt

CONSTANTS
    Ids,                \* provider ids
    Defaults,           \* DEFAULT_PROVIDER_IDS
    Home,               \* the connection of each default
    Conns,              \* connections
    Usable,             \* those with a known transport and a valid endpoint
    Formed,             \* a connection as the form holds it: without a literal key
    Models,
    Offers,             \* the models that each connection lists
    Scope,              \* the project's model scope
    Advertised,         \* models whose capabilities the provider states
    Able,               \* what a model is in truth capable of
    Failures,           \* outcomes of a probe but "online"
    InitialFiles,       \* providers.json as a session may find it
    Missing, Corrupt,   \* ... or not
    None,
    MaxWork             \* bound: what a run starts, restarts included

Entries == [id : Ids, conn : Conns, enabled : BOOLEAN]
IdsIn(entries) == [i \in DOMAIN entries |-> entries[i].id]

\* What is known of a model, and a row of the picker.
Known == {"assumed", "chat", "tools"}
Statuses == Failures \union {"checking", "online"}
Tables == UNION {[ms -> Known] : ms \in SUBSET Models}
Groups == [conn : Conns, status : Statuses, models : Tables]

\* What the form was opened for, the model of a session, the verification popup.
Forms == [original : Ids \union {None}, taken : SUBSET Ids]
Selections == [id : Ids, conn : Conns, model : Models, caps : Known]
Popups == [entry : Selections, probing : BOOLEAN]

\* A file has no id twice, as the program writes it.
ASSUME ProviderConstants ==
    /\ Defaults \subseteq Ids /\ Usable \subseteq Conns /\ Advertised \subseteq Models
    /\ Home \in [Defaults -> Usable] /\ Formed \in [Conns -> Conns]
    /\ Offers \in [Conns -> SUBSET Models] /\ Scope \subseteq Models
    /\ Able \in [Models -> {"tools", "chat"}]
    /\ Failures \subseteq {"offline", "issue", "auth failed"}
    /\ None \notin Ids \union Conns /\ IsFiniteSet(Ids)
    /\ MaxWork \in Nat
    /\ {Missing, Corrupt} \intersect Seq(Entries) = {}
    /\ None \notin Groups \union Forms \union Selections \union Popups
    /\ \A f \in InitialFiles \ {Missing, Corrupt} : f \in Seq(Entries) /\ IsInjective(IdsIn(f))

VARIABLES
    file,               \* providers.json
    cache,              \* models/<provider>.json: capabilities found by a detection
    picker,             \* model_select.groups
    discovery,          \* state.discovery
    probes,             \* probes that have not reported
    announced,          \* whether the startup discovery is Done
    screen,
    staged,             \* pending_provider_remove
    form,               \* provider_form
    verify,             \* verify_caps
    detections,         \* capability probes that have not reported
    declined,           \* declined_caps
    session,            \* the running session's model
    work,               \* what was started so far
    overtaken           \* ids whose probe a save has overtaken

stored == <<file, cache>>
rows == <<picker, discovery, probes, announced, overtaken>>
overlays == <<screen, staged, form>>
caps == <<verify, detections, declined, session>>
providerVars == <<stored, rows, overlays, caps, work>>

Entry(id, conn, enabled) == [id |-> id, conn |-> conn, enabled |-> enabled]

\* ProviderConfig::load().unwrap_or_default().
Load(f) == IF f \in {Missing, Corrupt} THEN <<>> ELSE f

IdsOf(entries) == {entries[i].id : i \in DOMAIN entries}

\* The entries of some ids, in their order.
EntriesOf(entries, ids) ==
    FlattenSeq([i \in DOMAIN entries |-> IF entries[i].id \in ids THEN <<entries[i]>> ELSE <<>>])
Without(entries, id) == EntriesOf(entries, Ids \ {id})
First(entries, id) == CHOOSE i \in DOMAIN entries :
                        entries[i].id = id /\ \A j \in 1 .. (i - 1) : entries[j].id # id

\* plan_probes: the connection to probe for an id.  The first enabled entry has
\* the say, one that is not usable leaves a default at home, and a disabled entry
\* takes away what came before it.
Target(entries, id) ==
    LET own == EntriesOf(entries, {id})
        claims == {i \in DOMAIN own : own[i].enabled}
        claim == CHOOSE i \in claims : \A j \in claims : i <= j
        off(after) == \E i \in DOMAIN own \ claims : i > after
    IN IF claims # {} /\ ~off(claim) /\ own[claim].conn \in Usable THEN own[claim].conn
       ELSE IF id \in Defaults /\ ~off(0) THEN Home[id]
       ELSE None

Planned(entries) == {id \in Ids : Target(entries, id) # None}

Checking(conn) == [conn |-> conn, status |-> "checking", models |-> <<>>]

\* ModelSelect::from_plan and DiscoveryState::planning.
Skeleton(entries) ==
    [id \in Ids |-> IF id \in Planned(entries) THEN Checking(Target(entries, id)) ELSE None]
Planning(entries) ==
    [planned |-> Planned(entries), found |-> [id \in Ids |-> None],
     status |-> [id \in Ids |-> IF id \in Planned(entries) THEN "checking" ELSE None]]

\* probe_target: how the probe of a connection may end.
Outcomes(id, conn) ==
    [id : {id}, conn : {conn}, status : Failures \union {"online"}]

\* The models of an outcome, as the scope leaves them, with capabilities that are
\* advertised, found in the cache (apply_cached_caps), or assumed.
Seen(id, conn) ==
    [m \in Offers[conn] \intersect Scope |-> IF m \in Advertised THEN Able[m] ELSE cache[id][m]]

\* ModelSelect::apply_outcome.
Resolve(groups, o) ==
    [groups EXCEPT ![o.id] =
        IF @ = None THEN None
        ELSE IF o.status = "online"
        THEN [conn |-> o.conn, status |-> "online", models |-> Seen(o.id, o.conn)]
        ELSE [@ EXCEPT !.status = o.status, !.models = <<>>]]

\* DiscoveryState::apply: also for an id that is not planned.
Record(known, o) ==
    [known EXCEPT !.status[o.id] = o.status,
                  !.found[o.id] = IF o.status = "online" THEN o.conn ELSE None]

-----------------------------------------------------------------------------
(* Start, probes and their outcomes.                                       *)

FirstProbes(entries) ==
    {[id |-> id, conn |-> Target(entries, id), n |-> 0] : id \in Planned(entries)}

ProvidersInit ==
    /\ file \in InitialFiles
    /\ cache = [id \in Ids |-> [m \in Models |-> "assumed"]]
    /\ picker = Skeleton(Load(file)) /\ discovery = Planning(Load(file))
    /\ probes = FirstProbes(Load(file))
    /\ announced = FALSE /\ overtaken = {}
    /\ screen = "picker" /\ staged = None /\ form = None
    /\ verify = None /\ detections = {} /\ declined = {} /\ session = None
    /\ work = 0

Starts == work < MaxWork /\ work' = work + 1

\* The program ends, or is killed, and is started again: the files stay.
Restart ==
    /\ Starts
    /\ picker' = Skeleton(Load(file)) /\ discovery' = Planning(Load(file))
    /\ probes' = FirstProbes(Load(file))
    /\ announced' = FALSE /\ overtaken' = {}
    /\ screen' = "picker" /\ staged' = None /\ form' = None
    /\ verify' = None /\ detections' = {} /\ declined' = {} /\ session' = None
    /\ UNCHANGED stored

ProbeLands(p) ==
    /\ probes' = probes \ {p}
    /\ \E o \in Outcomes(p.id, p.conn) :
          picker' = Resolve(picker, o) /\ discovery' = Record(discovery, o)
    /\ UNCHANGED <<stored, announced, overtaken, overlays, caps, work>>

\* persist_discovered_providers: on the first run, what was found is stored.
DiscoveryDone ==
    /\ ~announced /\ \A p \in probes : p.n # 0
    /\ announced' = TRUE
    /\ LET found == {id \in Ids : discovery.found[id] # None}
       IN file' = IF file = Missing /\ found # {}
                  THEN SetToSeq({Entry(id, discovery.found[id], TRUE) : id \in found})
                  ELSE file
    /\ UNCHANGED <<cache, picker, discovery, probes, overtaken, overlays, caps, work>>

-----------------------------------------------------------------------------
(* The picker's keys.  The verification popup takes every key before it.   *)

OnPicker == screen = "picker" /\ verify = None /\ staged = None

Expandable(group) == group.status = "online" /\ group.models # <<>>

\* Enter on the header of a provider that is not there: try again.
Retry(id) ==
    /\ OnPicker /\ picker[id] # None
    /\ ~Expandable(picker[id]) /\ picker[id].status # "checking"
    /\ Starts
    /\ picker' = [picker EXCEPT ![id].status = "checking"]
    /\ probes' = probes \union {[id |-> id, conn |-> picker[id].conn, n |-> work']}
    /\ UNCHANGED <<stored, discovery, announced, overtaken, overlays, caps>>

\* Ctrl+D on a header, then Esc or Enter.
Stage(id) ==
    /\ OnPicker /\ picker[id] # None
    /\ staged' = id
    /\ UNCHANGED <<stored, rows, screen, form, caps, work>>

Unstage ==
    /\ staged # None /\ screen = "picker" /\ verify = None
    /\ staged' = None
    /\ UNCHANGED <<stored, rows, screen, form, caps, work>>

\* Fault: a default is dropped like any other entry.
RemovedAlike(entries, id, fallback) == Without(entries, id)

\* apply_removal: a default is stored disabled, so that it stays away.
Removed(entries, id, fallback) ==
    IF id \notin Defaults THEN Without(entries, id)
    ELSE IF id \in IdsOf(entries)
    THEN [entries EXCEPT ![First(entries, id)].enabled = FALSE]
    ELSE IF fallback = None THEN entries ELSE Append(entries, Entry(id, fallback.conn, FALSE))

RemoveProvider ==
    /\ staged # None /\ screen = "picker" /\ verify = None
    /\ Starts
    /\ file' = Removed(Load(file), staged, picker[staged])
    /\ picker' = [picker EXCEPT ![staged] = None]
    /\ discovery' = [discovery EXCEPT !.planned = @ \ {staged},
                        !.status[staged] = None, !.found[staged] = None]
    /\ staged' = None
    /\ UNCHANGED <<cache, probes, announced, overtaken, screen, form, caps>>

-----------------------------------------------------------------------------
(* The form.  What is typed, or filled in from a preset, matters when it is  *)
(* saved; a draft that is not valid leaves the form open.                  *)

Shows(original, taken) ==
    /\ form' = [original |-> original, taken |-> taken] /\ screen' = "form"
    /\ UNCHANGED <<stored, rows, staged, caps, work>>

\* open_add_provider_form: taken are the planned and the stored ids.
OpenAdd == OnPicker /\ Shows(None, discovery.planned \union IdsOf(Load(file)))

\* open_edit_form_from_picker: taken are the picker's other ids.
OpenEdit(id) ==
    /\ OnPicker /\ picker[id] # None
    /\ Shows(id, {i \in Ids \ {id} : picker[i] # None})

InForm == screen = "form" /\ verify = None

LeaveForm ==
    /\ InForm
    /\ form' = None /\ screen' = "picker"
    /\ UNCHANGED <<stored, rows, staged, caps, work>>

\* validate.
ValidDraft(id, conn) == id \notin form.taken /\ conn \in Usable

\* upsert_entry: a rename drops the old id, then the entry replaces the first of
\* its id or goes to the end.
Upsert(entries, entry, original) ==
    LET kept == IF original \in {None, entry.id} THEN entries ELSE Without(entries, original)
    IN IF entry.id \in IdsOf(kept) THEN [kept EXCEPT ![First(kept, entry.id)] = entry]
       ELSE Append(kept, entry)

\* save_provider and reprobe: every row is rebuilt, by probes that it waits for;
\* the probes that were under way still land, later.
SaveProvider(id, conn) ==
    /\ InForm /\ ValidDraft(id, conn)
    /\ Starts
    /\ file' = Upsert(Load(file), Entry(id, conn, TRUE), form.original)
    /\ LET skeleton == Skeleton(file')
           all == Planned(file')
       IN \E ends \in [all -> Failures \union {"online"}] :
             LET o == [i \in all |-> [id |-> i, conn |-> skeleton[i].conn, status |-> ends[i]]]
             IN /\ picker' = [i \in Ids |-> IF i \in all THEN Resolve(skeleton, o[i])[i] ELSE None]
                /\ discovery' =
                      [planned |-> all,
                       status |-> [i \in Ids |-> IF i \in all THEN ends[i] ELSE None],
                       found |-> [i \in Ids |-> IF i \in all /\ ends[i] = "online"
                                                THEN o[i].conn ELSE None]]
    /\ overtaken' = overtaken \union
            {p.id : p \in {q \in probes : q.conn # Target(file', q.id)}}
    /\ form' = None /\ screen' = "picker"
    /\ UNCHANGED <<cache, probes, announced, staged, caps>>

-----------------------------------------------------------------------------
(* A model is chosen and verified.                                         *)

\* spawn_session.
Enter(entry) ==
    /\ session' = entry
    /\ screen' = "chat"
    /\ verify' = IF entry.caps = "assumed" /\ <<entry.id, entry.model>> \notin declined
                 THEN [entry |-> entry, probing |-> FALSE] ELSE None

SelectModel(id, m) ==
    /\ OnPicker /\ picker[id] # None /\ m \in DOMAIN picker[id].models
    /\ Enter([id |-> id, conn |-> picker[id].conn, model |-> m, caps |-> picker[id].models[m]])
    /\ UNCHANGED <<stored, rows, staged, form, detections, declined, work>>

\* Esc on the picker of a running session, and /model.
Switch ==
    /\ verify = None /\ session # None
    /\ \/ OnPicker /\ screen' = "chat"
       \/ screen = "chat" /\ screen' = "picker"
    /\ UNCHANGED <<stored, rows, staged, form, caps, work>>

\* Fault: the popup can be dismissed while its probe runs.
CanDismiss == verify # None

\* While the probe runs the popup ignores every key.
CanAnswer == verify # None /\ ~verify.probing

ProbeCaps ==
    /\ CanAnswer
    /\ Starts
    /\ verify' = [verify EXCEPT !.probing = TRUE]
    /\ detections' = detections \union
            {[id |-> verify.entry.id, model |-> verify.entry.model,
              loaded |-> cache[verify.entry.id], n |-> work']}
    /\ UNCHANGED <<stored, rows, overlays, declined, session>>

Decline ==
    /\ CanAnswer
    /\ verify' = None
    /\ declined' = declined \union {<<verify.entry.id, verify.entry.model>>}
    /\ UNCHANGED <<stored, rows, overlays, detections, session, work>>

\* detect and apply_caps_result.  A probe that fails counts as chat only and is
\* not cached; one that succeeds is written with the records loaded before it.
DetectionLands(d) ==
    /\ detections' = detections \ {d}
    /\ \E ok \in BOOLEAN :
          LET known == d.loaded[d.model] # "assumed"
              found == IF known THEN d.loaded[d.model] ELSE IF ok THEN Able[d.model] ELSE "chat"
          IN /\ cache' = IF ok /\ ~known
                         THEN [cache EXCEPT ![d.id] = [d.loaded EXCEPT ![d.model] = found]]
                         ELSE cache
             /\ picker' = IF picker[d.id] # None /\ d.model \in DOMAIN picker[d.id].models
                          THEN [picker EXCEPT ![d.id].models[d.model] = found] ELSE picker
             /\ IF verify = None THEN UNCHANGED <<session, screen, verify>>
                ELSE Enter([verify.entry EXCEPT !.caps = found])
    /\ UNCHANGED <<file, discovery, probes, announced, overtaken, staged, form,
                   declined, work>>

-----------------------------------------------------------------------------
ProbesLand == \E p \in probes : ProbeLands(p)
DetectionsLand == \E d \in detections : DetectionLands(d)

ProvidersNext ==
    \/ ProbesLand \/ DetectionsLand \/ DiscoveryDone
    \/ \E id \in Ids : Retry(id) \/ Stage(id) \/ OpenEdit(id)
    \/ \E id \in Ids, m \in Models : SelectModel(id, m)
    \/ Unstage \/ RemoveProvider
    \/ OpenAdd \/ LeaveForm
    \/ \E id \in Ids, conn \in {Formed[c] : c \in Conns} : SaveProvider(id, conn)
    \/ Switch \/ ProbeCaps \/ Decline
    \/ Restart

ProvidersSpec == ProvidersInit /\ [][ProvidersNext]_providerVars
-----------------------------------------------------------------------------
(* Properties.                                                             *)

\* The picker, the discovery state and providers.json agree, whatever was saved
\* and removed while probes were under way: the same providers, also the ones a
\* restart would plan; a row is being checked only while its probe is to report,
\* and else shows what discovery last recorded; its connection is the stored one,
\* unless a save overtook a probe of it.
PickerAgrees ==
    \A id \in Ids :
        LET group == picker[id]
        IN /\ (group # None) = (id \in discovery.planned)
           /\ (group # None) = (id \in Planned(Load(file)))
           /\ group # None =>
                 /\ IF group.status = "checking" THEN \E p \in probes : p.id = id
                    ELSE group.status = discovery.status[id]
                 /\ id \notin overtaken => group.conn = Target(Load(file), id)

\* A model is offered tools only if it can use them: what a session, a row or a
\* cache record says of a model was found out about that model, though popups,
\* detections and choices of other models interleave.  The popup is about the
\* model of the session that runs, and while it probes, and so holds the
\* keyboard, a detection of that very model is under way to close it.
CapsTrue ==
    /\ session # None => session.caps \in {"assumed", "chat", Able[session.model]}
    /\ \A id \in Ids :
          /\ picker[id] # None => \A m \in DOMAIN picker[id].models :
                picker[id].models[m] \in {"assumed", "chat", Able[m]}
          /\ \A m \in Models : cache[id][m] \in {"assumed", Able[m]}
    /\ verify # None =>
          /\ session = verify.entry
          /\ verify.probing => \E d \in detections :
                <<d.id, d.model>> = <<verify.entry.id, verify.entry.model>>

\* A save or a removal writes whole files from a copy, and what they hold of the
\* other providers in the picker, and of other models, stays as it was, unless the
\* file could not be read.  (A renamed provider may take the id, and the place, of
\* a disabled one, which the picker does not show.)
OthersKept ==
    /\ file' # file =>
         LET subject == IF staged # None THEN staged
                        ELSE IF form # None THEN form.original ELSE None
             others(entries) == EntriesOf(entries, {id \in Ids \ {subject} : picker[id] # None})
         IN file \in {Missing, Corrupt} \/ others(file') = others(file)
    /\ \A id \in Ids, m \in Models :
         cache[id][m] # "assumed" => cache'[id][m] = cache[id][m]

\* What the picker, the discovery, the file and a session say of providers and
\* models is true and agrees, and saving and removing one leaves the others.
ProvidersTrue ==
    /\ [](PickerAgrees /\ CapsTrue)
    /\ [][OthersKept]_providerVars
=============================================================================
