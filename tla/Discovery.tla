------------------------------ MODULE Discovery ------------------------------
(* What becomes of providers.json at a start: the entries that are probed,    *)
(* the requests that probe them, what an answer says of a provider, and the   *)
(* error that a chat makes of the same answer.                                *)
(*                                                                           *)
(* An entry has an id, a place (its endpoint, Nowhere if it is not one), a    *)
(* wire (Strange if the name is unknown), a name, the environment variable    *)
(* that holds its key, a key of its own, and whether it is enabled.           *)
EXTENDS Integers, Sequences, SequencesExt, FiniteSets

CONSTANTS
    BuiltIn,            \* id -> the place and wire of the local defaults
    Nowhere, Strange,
    NotSet               \* a name, variable or key that is not there

ASSUME DiscoveryAssumption == NotSet \notin DOMAIN BuiltIn

Or(value, other) == IF value = NotSet THEN other ELSE value

-----------------------------------------------------------------------------
(* Entries and providers.                                                    *)

\* resolve_api_key.
ResolveKey(env, entry) ==
    IF entry.env # NotSet /\ env[entry.env] # NotSet THEN env[entry.env] ELSE entry.key

\* from_entry.
FromEntry(env, entry) ==
    [id |-> entry.id, place |-> entry.place, enabled |-> entry.enabled, env |-> entry.env,
     wire |-> IF entry.wire = Strange THEN "openai" ELSE entry.wire,
     name |-> Or(entry.name, entry.id), key |-> ResolveKey(env, entry)]

\* Fault: the key that was found in the environment is stored.
ToEntryResolved(provider) ==
    [provider EXCEPT !.name = IF @ = provider.id THEN NotSet ELSE @]

\* to_entry.
ToEntry(provider) ==
    [provider EXCEPT !.name = IF @ = provider.id THEN NotSet ELSE @,
                     !.key = IF provider.env = NotSet THEN @ ELSE NotSet]

\* An entry that has been read and written again means what it did, and a key of
\* the environment is in no file.  (A key of its own is lost if it stood in for a
\* variable, and a wire of an unknown name becomes OpenAI's.)
RoundTrip(env, entry) ==
    LET again == ToEntry(FromEntry(env, entry))
    IN  /\ FromEntry(env, [again EXCEPT !.key = entry.key]) = FromEntry(env, entry)
        /\ entry.env = NotSet => FromEntry(env, again) = FromEntry(env, entry)
        /\ again.key \in {NotSet, entry.key}

-----------------------------------------------------------------------------
(* plan_probes.                                                              *)

Named(id) == IF id \in DOMAIN BuiltIn THEN <<"default", id>> ELSE id

Default(id) ==
    [id |-> id, place |-> BuiltIn[id].place, wire |-> BuiltIn[id].wire, name |-> Named(id),
     key |-> NotSet, env |-> NotSet]

\* endpoint_problem and TransportType::parse: the field at fault, if any.
Fault(entry, seen) ==
    CASE entry.id \in seen -> "id"
      [] entry.wire = Strange -> "transport"
      [] entry.place = Nowhere -> "endpoint"
      [] OTHER -> "none"

\* An entry takes the place of the target of its id, whose name it may keep.
TargetOf(env, entry, targets) ==
    LET before == {t \in targets : t.id = entry.id}
        name == IF before = {} THEN entry.id ELSE (CHOOSE t \in before : TRUE).name
    IN  [id |-> entry.id, place |-> entry.place, wire |-> entry.wire,
         name |-> Or(entry.name, name), key |-> ResolveKey(env, entry), env |-> entry.env]

\* Fault: a disabled entry leaves the default of its id to be probed.
PlanEntryLeavingDefault(env, plan, entry) ==
    IF ~entry.enabled THEN plan
    ELSE LET fault == Fault(entry, plan.seen)
         IN  [seen |-> plan.seen \union {entry.id},
              issues |-> IF fault = "none" THEN plan.issues
                         ELSE Append(plan.issues, [id |-> entry.id, field |-> fault]),
              targets |-> IF fault # "none" THEN plan.targets
                          ELSE {t \in plan.targets : t.id # entry.id}
                               \union {TargetOf(env, entry, plan.targets)}]

PlanEntry(env, plan, entry) ==
    LET others == {t \in plan.targets : t.id # entry.id}
        fault == Fault(entry, plan.seen)
    IN  IF ~entry.enabled THEN [plan EXCEPT !.targets = others]
        ELSE [seen |-> plan.seen \union {entry.id},
              issues |-> IF fault = "none" THEN plan.issues
                         ELSE Append(plan.issues, [id |-> entry.id, field |-> fault]),
              targets |-> IF fault # "none" THEN plan.targets
                          ELSE others \union {TargetOf(env, entry, plan.targets)}]

Plan(env, entries) ==
    FoldLeft(LAMBDA plan, entry : PlanEntry(env, plan, entry),
             [targets |-> {Default(id) : id \in DOMAIN BuiltIn}, issues |-> <<>>, seen |-> {}],
             entries)

\* probe_one_with: what a connection test of one entry probes.
TargetOfTest(env, entry) == TargetOf(env, entry, {})

\* A provider is probed at one place, the one its first enabled entry names or
\* else its default's, and not at all if it has been disabled after that; every
\* other enabled entry is reported, in the order of the file; and what a test of
\* an entry has reached, the plan reaches too.
PlanSound(env, entries) ==
    LET plan == Plan(env, entries)
        enabled == {i \in DOMAIN entries : entries[i].enabled}
        firsts == {i \in enabled : \A j \in enabled : j < i => entries[j].id # entries[i].id}
        off(id, from) == \E i \in DOMAIN entries \ enabled : i > from /\ entries[i].id = id
        valid(i) == entries[i].place # Nowhere /\ entries[i].wire # Strange
        claims == {i \in firsts : valid(i) /\ ~off(entries[i].id, i)}
        reach(t) == [id |-> t.id, place |-> t.place, wire |-> t.wire, key |-> t.key, env |-> t.env]
    IN  /\ {reach(t) : t \in plan.targets} =
              {reach(TargetOfTest(env, entries[i])) : i \in claims}
                \union {reach(Default(id)) : id \in
                          {d \in DOMAIN BuiltIn : ~off(d, 0) /\ \A i \in claims : entries[i].id # d}}
        /\ \A s, t \in plan.targets : s.id = t.id => s = t
        /\ LET told == SelectSeq([i \in DOMAIN entries |-> i],
                                 LAMBDA i : i \in enabled /\ ~(i \in firsts /\ valid(i)))
           IN  [k \in DOMAIN told |-> entries[told[k]].id] = [k \in DOMAIN plan.issues |-> plan.issues[k].id]

-----------------------------------------------------------------------------
(* Answers.  A request is refused, is not answered in time or breaks, or it   *)
(* has a status and a body: as expected, a JSON object without the expected   *)
(* fields, what no field of it can be read from, or cut off.                  *)

Unanswered == {"refused", "timeout", "broken"}
Statuses == {"200", "401", "403", "404", "429", "500"}
Bodies == {"expected", "object", "unreadable", "cut"}
NoAnswer(how) == [net |-> how, status |-> "none", body |-> "none"]
Answers ==
    {NoAnswer(how) : how \in Unanswered} \union [net : {"answered"}, status : Statuses, body : Bodies]

\* classify_send_error.
SendError(how) ==
    CASE how = "timeout" -> "Timeout" [] how = "refused" -> "NotRunning" [] OTHER -> "RequestError"

\* The list of models is empty if the object has none.
BodyError(body) ==
    CASE body = "cut" -> "RequestError" [] body = "unreadable" -> "ParseError" [] OTHER -> "none"

\* OllamaDiscovery::probe, which takes a refused key for any other status.
OllamaProbe(answer) ==
    CASE answer.net # "answered" -> SendError(answer.net)
      [] answer.status # "200" -> "RequestError"
      [] OTHER -> BodyError(answer.body)

\* probe_v1_models.
V1Probe(answer) ==
    IF answer.net = "answered" /\ answer.status \in {"401", "403"} THEN "AuthFailed" ELSE OllamaProbe(answer)

\* anthropic::probe_models: the same in its own words.
AnthropicProbe(answer) == V1Probe(answer)

ProbeError(wire, answer) ==
    CASE wire = "ollama" -> OllamaProbe(answer)
      [] wire = "openai" -> V1Probe(answer)
      [] wire = "anthropic" -> AnthropicProbe(answer)

\* failure_outcome and ProbeOutcome::status: what the rows say.
RowStatus(error) ==
    CASE error = "none" -> "online"
      [] error = "AuthFailed" -> "auth failed"
      [] error = "NotRunning" -> "offline"
      [] OTHER -> "connection issue"

\* status_error of the transports.
StatusError(wire, status) ==
    CASE wire = "ollama" -> "RequestError"
      [] status \in {"401", "403"} -> "AuthFailed"
      [] status = "404" -> "ModelNotFound"
      [] status = "429" -> "RateLimited"
      [] OTHER -> "RequestError"

\* parse_full and parse_line: an object of another kind is an empty reply, but for
\* OpenAI's, which has to offer a choice.
ReplyError(wire, body) ==
    IF wire = "openai" /\ body = "object" THEN "ParseError" ELSE BodyError(body)

\* chat: map_reqwest_error takes a timeout for a provider that is not there.
ChatError(wire, answer) ==
    CASE answer.net = "broken" -> "RequestError"
      [] answer.net # "answered" -> "NotRunning"
      [] answer.status # "200" -> StatusError(wire, answer.status)
      [] OTHER -> ReplyError(wire, answer.body)

\* is_transient.
Transient(error) == error \in {"Timeout", "NotRunning", "RateLimited", "RequestError"}

\* A chat succeeds only where the row says online, and wherever the row says so of
\* a list that was there; a row that says offline or auth failed is one whose chat
\* says so; and a request is not sent again just where the same would come of it.
\* (Ollama's statuses have no classes, there a 401 or 404 is taken for a passing
\* fault.)  An online row may be one of no list at all, though a body that is not of
\* the expected protocol is to be Unparsable.
VerdictSound(wire, answer) ==
    LET row == RowStatus(ProbeError(wire, answer))
        error == ChatError(wire, answer)
        lasting == \/ answer.status \in {"401", "403", "404"} /\ wire # "ollama"
                   \/ answer.status = "200" /\ answer.body = "unreadable"
                   \/ answer.status = "200" /\ answer.body = "object" /\ wire = "openai"
    IN  /\ error = "none" => row = "online"
        /\ row = "online" /\ answer.body # "object" => error = "none"
        /\ (row = "auth failed") = (error = "AuthFailed")
        /\ row = "offline" => error = "NotRunning" /\ Transient(error)
        /\ error # "none" => Transient(error) = ~lasting

-----------------------------------------------------------------------------
(* What discovery finds.                                                     *)

\* probe_target: the key goes with the provider that was found, but for Ollama's
\* wire, which has none.
FoundProvider(t) == IF t.wire = "ollama" THEN [t EXCEPT !.key = NotSet, !.env = NotSet] ELSE t

\* discover_with: the providers that answered and those that refused the key.
Discovered(targets, errors) ==
    [found |-> {FoundProvider(t) : t \in {u \in targets : errors[u.id] = "none"}},
     authFailed |-> {t.id : t \in {u \in targets : errors[u.id] = "AuthFailed"}}]

\* merge.
Merge(env, found, entries) ==
    LET live(id) == {t \in found : t.id = id}
        place(entry) == IF live(entry.id) = {} THEN entry.place ELSE (CHOOSE t \in live(entry.id) : TRUE).place
        kept == [i \in DOMAIN entries |->
                   [FromEntry(env, entries[i]) EXCEPT !.enabled = live(entries[i].id) # {},
                                                      !.place = place(entries[i])]]
        added == {t \in found : \A i \in DOMAIN entries : entries[i].id # t.id}
        shown(t) == [id |-> t.id, place |-> t.place, wire |-> t.wire, name |-> t.name,
                     key |-> t.key, env |-> t.env, enabled |-> TRUE]
    IN  kept \o [i \in 1 .. Cardinality(added) |-> shown(SetToSeq(added)[i])]

\* Every provider that answered is listed, enabled, at the place where it
\* answered, and with the wire and key it was probed with, unless the file names
\* its id twice, or not validly, and it answered at its default's; nothing else is
\* enabled; and every entry keeps its place in the list.
MergeSound(env, entries, errors) ==
    LET plan == Plan(env, entries)
        d == Discovered(plan.targets, errors)
        merged == Merge(env, d.found, entries)
        on == {i \in DOMAIN merged : merged[i].enabled}
        probed == {t \in plan.targets : errors[t.id] = "none"}
    IN  /\ \A t \in probed : \E i \in on :
              <<merged[i].id, merged[i].place>> = <<t.id, t.place>>
                /\ \/ merged[i].key = t.key /\ merged[i].wire = t.wire
                   \/ \E j \in DOMAIN entries :
                         entries[j].id = t.id /\ (j # i \/ Fault(entries[j], {}) # "none")
        /\ \A i \in on : \E t \in probed : <<merged[i].id, merged[i].place>> = <<t.id, t.place>>
        /\ \A i \in DOMAIN entries : merged[i].id = entries[i].id
        /\ d.authFailed \intersect {t.id : t \in probed} = {}
=============================================================================
