------------------------------- MODULE Router -------------------------------
(***************************************************************************)
(* The router process (router.py): concurrent runs of the proxy handler    *)
(* over one AffinityMap, the bounded LRU-with-expiry index that sends a    *)
(* follow-up on a response to the engine holding that response.  Handlers  *)
(* interleave where the code awaits: for the request's body, for the       *)
(* engine's answer, and between two chunks of a stream.                    *)
(***************************************************************************)
EXTENDS Integers, FiniteSets

CONSTANTS
    Engines,
    Ids,            \* response identifiers the engines will hand out
    Requests,       \* requests in progress at a time
    Maximum,        \* AffinityMap.maximum
    TTL,            \* AffinityMap.ttl_seconds
    MaxClock,       \* bound on time.monotonic()
    Unnamed,        \* no model in the request
    Unknown,        \* a model the registry has not
    Nobody

ASSUME MaximumAssumption == Maximum \in Nat \ {0}
ASSUME TTLAssumption == TTL \in Nat \ {0}
ASSUME ClockAssumption == MaxClock \in Nat
ASSUME DistinctAssumption ==
    /\ Engines \intersect Ids = {}
    /\ {Unnamed, Unknown, Nobody} \intersect (Engines \union Ids) = {}

VARIABLES
    file,       \* engine states in the file the supervisor publishes
    items,      \* AffinityMap._items: a dictionary and the order of its keys
    req,        \* the handlers' local variables
    owner,      \* which engine holds the response (the engines' own state)
    clock,
    known,      \* identifiers a client has received
    since,      \* history: what was used since the last use of each identifier
    deadline    \* history: when the last put of an identifier expires

vars == <<file, items, req, owner, clock, known, since, deadline>>

Models == Engines \union {Unnamed, Unknown}     \* whose engine's, or no engine's
Targets == Models \union Ids
Published == [Engines -> {"loading", "ready", "down"}]
Idle == [at |-> "idle"]
\* A handler at work: the state it has read, what its request is routed by, and
\* the engine it selected.
Handlers == [at : {"body", "sent", "stream"}, seen : Published,
             target : Targets, engine : Engines \union {Nobody},
             id : Ids \union {Nobody}]

\* An entry of the OrderedDict: its value, and the keys that come after its own.
Entries == [engine : Engines, deadline : Nat, newer : SUBSET Ids]

\* What the variables hold; the index never has more than its maximum of entries
\* (router.py:52-57).
TypeOK ==
    /\ file \in Published
    /\ DOMAIN items \subseteq Ids /\ items \in [DOMAIN items -> Entries]
    /\ IsFiniteSet(DOMAIN items) /\ Cardinality(DOMAIN items) <= Maximum
    /\ req \in [Requests -> Handlers \union {Idle}]
    /\ owner \in [Ids -> Engines \union {Nobody}]
    /\ clock \in 0..MaxClock
    /\ known \subseteq Ids
    /\ since \in [Ids -> SUBSET Ids]
    /\ deadline \in [Ids -> Nat]

Init ==
    /\ file = [e \in Engines |-> "loading"]
    /\ items = [i \in {} |-> {}]
    /\ req = [r \in Requests |-> Idle]
    /\ owner = [i \in Ids |-> Nobody]
    /\ clock = 0
    /\ known = {}
    /\ since = [i \in Ids |-> {}]
    /\ deadline = [i \in Ids |-> 0]

---------------------------------------------------------------------------
(* AffinityMap: every operation first drops what has expired.              *)

\* The dictionary without its other keys, and with a key put or moved to its end.
Only(s, ids) == [i \in ids |-> [s[i] EXCEPT !.newer = @ \intersect ids]]
AtEnd(s, i, e, d) ==
    [j \in DOMAIN s \union {i} |->
        IF j = i THEN [engine |-> e, deadline |-> d, newer |-> {}]
        ELSE [s[j] EXCEPT !.newer = @ \union {i}]]

Live_OldestOnly(s) ==
    {i \in DOMAIN s : s[i].deadline > clock
                        \/ Cardinality(s[i].newer) < Cardinality(DOMAIN s) - 1}
Live(s) == {i \in DOMAIN s : s[i].deadline > clock}
Expired(s) == Only(s, Live(s))

\* popitem(last=False) until the maximum holds.
Evict_Late(s) == Only(s, {i \in DOMAIN s : Cardinality(s[i].newer) <= Maximum})
Evict(s) == Only(s, {i \in DOMAIN s : Cardinality(s[i].newer) < Maximum})

Put(s, i, e) == Evict(AtEnd(Expired(s), i, e, clock + TTL))

\* get: what it finds becomes the most recently used; its deadline stays.
Found(s, i) == {s[j].engine : j \in {i} \intersect Live(s)}
Touch_Stays(s, i) == Expired(s)
Touch(s, i) ==
    IF i \in Live(s) THEN AtEnd(Expired(s), i, s[i].engine, s[i].deadline) ELSE Expired(s)

Use(i) == since' = [j \in Ids |-> IF j = i THEN {} ELSE since[j] \union {i}]

---------------------------------------------------------------------------
(* proxy, from await to await.                                             *)

\* What a request is routed by: the model it names (extract_model), and only
\* without one the response in its path; the index is not asked for the others.
Target(model, path) == IF model = Unnamed /\ path # Nobody THEN path ELSE model

\* The state file is read first, the body awaited after.
Arrive(r, model, path) ==
    /\ req[r] = Idle
    /\ req' = [req EXCEPT ![r] = [at |-> "body", seen |-> file,
                                  target |-> Target(model, path),
                                  engine |-> Nobody, id |-> Nobody]]
    /\ UNCHANGED <<file, items, owner, clock, known, since, deadline>>

\* The model's engine, the affinity of the path's response, or the only engine.
Selected_FallsThrough(t) ==
    IF t \in Engines THEN {t}
    ELSE IF t \in Ids /\ Found(items, t) # {} THEN Found(items, t)
    ELSE IF t # Unknown THEN {CHOOSE e \in Engines : TRUE} ELSE {}
Selected(t) ==
    CASE t \in Engines -> {t}
      [] t \in Ids -> Found(items, t)
      [] t = Unnamed -> IF Cardinality(Engines) = 1 THEN Engines ELSE {}
      [] t = Unknown -> {}

\* 404, 400 or 503 when no engine is selected, or it was not ready in the state
\* read on arrival; else the request goes out.
Route(r) ==
    /\ req[r].at = "body"
    /\ LET t == req[r].target
           chosen == {e \in Selected(t) : req[r].seen[e] = "ready"}
       IN /\ req' = [req EXCEPT ![r] =
                        IF chosen = {} THEN Idle
                        ELSE [@ EXCEPT !.at = "sent", !.engine = CHOOSE e \in chosen : TRUE]]
          /\ IF t \in Ids
             THEN /\ items' = Touch(items, t)
                  /\ IF Found(items, t) # {} THEN Use(t) ELSE UNCHANGED since
             ELSE UNCHANGED <<items, since>>
    /\ UNCHANGED <<file, owner, clock, known, deadline>>

\* The engine makes a new response, or shows one of its own: the one of the path
\* may be another's where the request was routed by its model.
Answers(r, i) ==
    IF req[r].target \in Ids
    THEN i = req[r].target /\ owner[i] = req[r].engine
    ELSE owner[i] \in {Nobody, req[r].engine}

Remember(r, i) ==
    /\ owner' = [owner EXCEPT ![i] = req[r].engine]
    /\ items' = Put(items, i, req[r].engine)
    /\ Use(i)
    /\ deadline' = [deadline EXCEPT ![i] = clock + TTL]

\* The whole JSON body is in: remember_response_id, then the response.
Json(r, i) ==
    /\ req[r].at = "sent" /\ Answers(r, i)
    /\ Remember(r, i)
    /\ known' = known \union {i}
    /\ req' = [req EXCEPT ![r] = Idle]
    /\ UNCHANGED <<file, clock>>

StreamStarts(r) ==
    /\ req[r].at = "sent"
    /\ req' = [req EXCEPT ![r].at = "stream"]
    /\ UNCHANGED <<file, items, owner, clock, known, since, deadline>>

\* A chunk completes an event that carries the response's identifier: the parser
\* is fed before the chunk is yielded.  Every such event of the stream puts again.
Event(r, i) ==
    /\ req[r].at = "stream" /\ Answers(r, i) /\ req[r].id \in {Nobody, i}
    /\ Remember(r, i)
    /\ known' = known \union {i}
    /\ req' = [req EXCEPT ![r].id = i]
    /\ UNCHANGED <<file, clock>>

\* The client leaves, the engine cannot be reached or breaks off, the stream is
\* over, or the answer carries no response identifier.
Ends(r) ==
    /\ req[r] # Idle
    /\ req' = [req EXCEPT ![r] = Idle]
    /\ UNCHANGED <<file, items, owner, clock, known, since, deadline>>

---------------------------------------------------------------------------
(* The supervisor's file, and time.                                        *)

Publish(e, s) ==
    /\ \/ file[e] = "loading" /\ s \in {"ready", "down"}
       \/ file[e] = "ready" /\ s = "down"
    /\ file' = [file EXCEPT ![e] = s]
    /\ UNCHANGED <<items, req, owner, clock, known, since, deadline>>

Tick ==
    /\ clock < MaxClock /\ clock' = clock + 1
    /\ UNCHANGED <<file, items, req, owner, known, since, deadline>>

Proxy(r) ==
    \/ \E model \in Models, path \in known \union {Nobody} : Arrive(r, model, path)
    \/ Route(r) \/ StreamStarts(r) \/ Ends(r)
    \/ \E i \in Ids : Json(r, i) \/ Event(r, i)

Next ==
    \/ \E r \in Requests : Proxy(r)
    \/ \E e \in Engines, s \in {"ready", "down"} : Publish(e, s)
    \/ Tick
Spec == Init /\ [][Next]_vars

---------------------------------------------------------------------------

\* An identifier a client has received is in the index (router.py:265, 279-280:
\* it is put before the bytes that carry it go out) until its deadline passes or
\* at least Maximum other identifiers have been used since: neither a slow
\* concurrent stream nor the expiry of others makes the router forget it early.
NothingForgottenEarly ==
    \A i \in known :
        \/ i \in DOMAIN items
        \/ deadline[i] <= clock
        \/ Cardinality(since[i]) >= Maximum

\* A follow-up on a response that names no model only ever goes to the engine that
\* holds it, however many streams of other engines fill the index meanwhile
\* (router.py:182-192).
FollowUpsReachOwner ==
    \A r \in Requests :
        req[r] # Idle /\ req[r].at # "body" /\ req[r].target \in Ids
            => req[r].engine = owner[req[r].target]

\* A get moves an entry but does not renew it, so the order of use is not the
\* order of expiry: still no follow-up is routed by an entry past its deadline
\* (router.py:60-71).
NoExpiredRoute ==
    [][\A r \in Requests :
        req[r] # Idle /\ req[r].target \in Ids /\ req[r].at = "body"
        /\ req'[r] # Idle /\ req'[r].at = "sent"
            => deadline[req[r].target] > clock]_vars
=============================================================================
