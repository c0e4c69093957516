---------------------------- MODULE RouterProofs ----------------------------
(***************************************************************************)
(* Theorems about Router, for any engines, any number of identifiers and   *)
(* of concurrent requests, any maximum and any time to live: what the      *)
(* index remembers, and where a follow-up goes.  Then about SSEIds, for    *)
(* any streams and sizes: the parser finds every identifier.               *)
(***************************************************************************)
EXTENDS Router, SSEIds, FiniteSetTheorems, SequenceTheorems, WellFoundedInduction, TLAPS

USE MaximumAssumption, TTLAssumption, ClockAssumption, DistinctAssumption

---------------------------------------------------------------------------
(* The dictionary.                                                         *)

\* "Newer" is a strict total order on the keys.
Ordered(s) ==
    /\ \A i \in DOMAIN s : s[i].newer \subseteq DOMAIN s /\ i \notin s[i].newer
    /\ \A i, j \in DOMAIN s : i = j \/ j \in s[i].newer \/ i \in s[j].newer
    /\ \A i \in DOMAIN s : \A j \in s[i].newer : s[j].newer \subseteq s[i].newer

Dictionary(s) ==
    /\ DOMAIN s \subseteq Ids /\ IsFiniteSet(DOMAIN s) /\ s \in [DOMAIN s -> Entries]
    /\ Ordered(s)

\* An entry with other newer keys.
LEMMA NewerChanged ==
    ASSUME NEW x \in Entries, NEW n \in SUBSET Ids, NEW y, y = [x EXCEPT !.newer = n]
    PROVE  y \in Entries /\ y.engine = x.engine /\ y.deadline = x.deadline /\ y.newer = n
BY DEF Entries

\* A dictionary without some of its keys.
LEMMA OnlyFacts ==
    ASSUME NEW s, Dictionary(s), NEW ids \in SUBSET DOMAIN s
    PROVE  /\ Dictionary(Only(s, ids)) /\ DOMAIN Only(s, ids) = ids
           /\ \A j \in ids : /\ Only(s, ids)[j].engine = s[j].engine
                             /\ Only(s, ids)[j].deadline = s[j].deadline
                             /\ Only(s, ids)[j].newer = s[j].newer \intersect ids
<1> DEFINE t == Only(s, ids)
<1>1. DOMAIN t = ids
      BY DEF Only
<1>2. \A j \in ids : s[j] \in Entries /\ t[j] = [s[j] EXCEPT !.newer = @ \intersect ids]
      BY DEF Only, Dictionary
<1>3. ASSUME NEW j \in ids
      PROVE  /\ t[j] \in Entries
             /\ t[j].engine = s[j].engine /\ t[j].deadline = s[j].deadline
             /\ t[j].newer = s[j].newer \intersect ids
  <2> DEFINE n == s[j].newer \intersect ids
  <2>1. n \in SUBSET Ids /\ s[j] \in Entries
        BY <1>2 DEF Entries
  <2>2. t[j] = [s[j] EXCEPT !.newer = n]
        BY <1>2
  <2> HIDE DEF n, t
  <2>3. /\ t[j] \in Entries /\ t[j].newer = n
        /\ t[j].engine = s[j].engine /\ t[j].deadline = s[j].deadline
        BY <2>1, <2>2, NewerChanged DEF Entries
  <2> QED BY <2>3 DEF n
<1>4. t \in [DOMAIN t -> Entries]
  <2>1. t = [j \in ids |-> t[j]]
        BY DEF Only
  <2> QED BY <1>1, <1>3, <2>1
<1> HIDE DEF t
<1>5. Ordered(t)
      BY <1>1, <1>3 DEF Dictionary, Ordered
<1>6. ids \subseteq Ids /\ IsFiniteSet(ids)
      BY FS_Subset DEF Dictionary
<1>7. Dictionary(t)
      BY <1>1, <1>4, <1>5, <1>6 DEF Dictionary
<1> QED BY <1>1, <1>3, <1>7 DEF t

\* A dictionary with a key put, or moved, to its end.
Extended(t, s, ids, i, e, d) ==
    /\ Dictionary(t) /\ DOMAIN t = ids \union {i}
    /\ t[i].engine = e /\ t[i].deadline = d /\ t[i].newer = {}
    /\ \A j \in ids \ {i} :
          /\ t[j].engine = s[j].engine /\ t[j].deadline = s[j].deadline
          /\ t[j].newer = (s[j].newer \intersect ids) \union {i}

LEMMA AtEndFacts ==
    ASSUME NEW s, Dictionary(s), NEW i \in Ids, NEW e \in Engines, NEW d \in Nat
    PROVE  Extended(AtEnd(s, i, e, d), s, DOMAIN s, i, e, d)
<1> DEFINE t == AtEnd(s, i, e, d)
<1>1. DOMAIN t = DOMAIN s \union {i} /\ DOMAIN s \subseteq Ids
      BY DEF AtEnd, Dictionary
<1>2. t[i] = [engine |-> e, deadline |-> d, newer |-> {}]
      BY DEF AtEnd
<1>3. \A j \in DOMAIN s \ {i} :
          s[j] \in Entries /\ t[j] = [s[j] EXCEPT !.newer = @ \union {i}]
      BY DEF AtEnd, Dictionary
<1>4. ASSUME NEW j \in DOMAIN s \ {i}
      PROVE  /\ t[j] \in Entries
             /\ t[j].engine = s[j].engine /\ t[j].deadline = s[j].deadline
             /\ t[j].newer = s[j].newer \union {i}
  <2> DEFINE n == s[j].newer \union {i}
  <2>1. n \in SUBSET Ids /\ s[j] \in Entries
        BY <1>3 DEF Entries
  <2>2. t[j] = [s[j] EXCEPT !.newer = n]
        BY <1>3
  <2> HIDE DEF n, t
  <2>3. /\ t[j] \in Entries /\ t[j].newer = n
        /\ t[j].engine = s[j].engine /\ t[j].deadline = s[j].deadline
        BY <2>1, <2>2, NewerChanged DEF Entries
  <2> QED BY <2>3 DEF n
<1>5. t \in [DOMAIN t -> Entries]
  <2>1. t = [j \in DOMAIN s \union {i} |-> t[j]]
        BY DEF AtEnd
  <2>2. t[i] \in Entries
        BY <1>2 DEF Entries
  <2> QED BY <1>1, <1>4, <2>1, <2>2
<1> HIDE DEF t
<1>6. t[i].engine = e /\ t[i].deadline = d /\ t[i].newer = {}
      BY <1>2
<1>7. Ordered(t)
  <2>1. \A j \in DOMAIN t : t[j].newer \subseteq DOMAIN t /\ j \notin t[j].newer
        BY <1>1, <1>4, <1>6 DEF Dictionary, Ordered
  <2>2. \A j, k \in DOMAIN t : j = k \/ k \in t[j].newer \/ j \in t[k].newer
        BY <1>1, <1>4 DEF Dictionary, Ordered
  <2>3. \A j \in DOMAIN t : \A k \in t[j].newer : t[k].newer \subseteq t[j].newer
        BY <1>1, <1>4, <1>6 DEF Dictionary, Ordered
  <2> QED BY <2>1, <2>2, <2>3 DEF Ordered
<1>8. IsFiniteSet(DOMAIN t) /\ DOMAIN t \subseteq Ids
      BY <1>1, FS_AddElement DEF Dictionary
<1>9. Dictionary(t)
      BY <1>1, <1>5, <1>7, <1>8 DEF Dictionary
<1>10. \A j \in DOMAIN s : s[j].newer \intersect DOMAIN s = s[j].newer
       BY DEF Dictionary, Ordered
<1>11. Extended(t, s, DOMAIN s, i, e, d)
       BY <1>1, <1>4, <1>6, <1>9, <1>10 DEF Extended
<1> QED BY <1>11 DEF t

---------------------------------------------------------------------------
(* The maximum.                                                            *)

\* Of finitely many counts one is the greatest.
LEMMA Greatest ==
    ASSUME NEW K, K # {}, NEW b \in Nat, NEW f \in [K -> 0..b]
    PROVE  \E m \in K : \A j \in K : f[j] <= f[m]
<1> DEFINE R == OpToRel(<, Nat)
           S == {b - f[j] : j \in K}
<1>1. IsWellFoundedOn(R, Nat)
      BY NatLessThanWellFounded
<1>2. \A x, y \in Nat : x < y => <<x, y>> \in R
      BY DEF OpToRel
<1>3. \A j \in K : f[j] \in Nat /\ b - f[j] \in Nat
      OBVIOUS
<1>4. S \in SUBSET Nat /\ S # {}
      BY <1>3
<1> HIDE DEF R
<1>5. PICK x \in S : \A y \in S : ~ (<<y, x>> \in R)
      BY <1>1, <1>4, WFMin
<1>6. PICK m \in K : x = b - f[m]
      BY <1>5
<1>7. ASSUME NEW j \in K PROVE f[j] <= f[m]
  <2>1. b - f[j] \in S /\ b - f[m] \in Nat /\ b - f[j] \in Nat
        BY <1>3
  <2>2. ~ (b - f[j] < b - f[m])
        BY <1>2, <1>5, <1>6, <2>1
  <2> QED BY <1>3, <2>2
<1> QED BY <1>7

\* popitem until the maximum holds: the entries kept are the oldest of them and
\* fewer than the maximum that are newer.
LEMMA EvictBound ==
    ASSUME NEW s, Dictionary(s)
    PROVE  Cardinality(DOMAIN Evict(s)) <= Maximum
<1> DEFINE K == {i \in DOMAIN s : Cardinality(s[i].newer) < Maximum}
           f == [i \in K |-> Cardinality(s[i].newer)]
<1>1. DOMAIN Evict(s) = K
      BY OnlyFacts DEF Evict
<1> HIDE DEF K
<1>2. CASE K = {}
  <2>1. Cardinality(K) = 0
        BY <1>2, FS_EmptySet
  <2> QED BY <1>1, <2>1
<1> USE DEF K
<1>3. CASE K # {}
  <2>1. \A i \in K : /\ IsFiniteSet(s[i].newer) /\ Cardinality(s[i].newer) \in Nat
                     /\ Cardinality(s[i].newer) < Maximum
    <3>1. \A i \in K : IsFiniteSet(s[i].newer)
          BY FS_Subset DEF Dictionary, Ordered
    <3> QED BY <3>1, FS_CardinalityType
  <2>2. f \in [K -> 0..Maximum]
        BY <2>1
  <2> HIDE DEF f
  <2>3. PICK m \in K : \A j \in K : f[j] <= f[m]
        BY <1>3, <2>2, Greatest
  <2>4. \A j \in K : Cardinality(s[j].newer) <= Cardinality(s[m].newer)
        BY <2>3 DEF f
  <2>5. ASSUME NEW j \in K, j # m PROVE j \in s[m].newer
    <3> SUFFICES ASSUME j \notin s[m].newer PROVE FALSE
        OBVIOUS
    <3>1. m \in s[j].newer /\ s[m].newer \subseteq s[j].newer /\ m \notin s[m].newer
          BY <2>5 DEF Dictionary, Ordered
    <3>2. s[m].newer \union {m} \in SUBSET s[j].newer
          BY <3>1
    <3>3. Cardinality(s[m].newer \union {m}) = Cardinality(s[m].newer) + 1
          BY <2>1, <3>1, FS_AddElement
    <3>4. Cardinality(s[m].newer) + 1 <= Cardinality(s[j].newer)
          BY <2>1, <3>2, <3>3, FS_Subset
    <3> QED BY <2>1, <2>4, <3>4
  <2>6. K \in SUBSET (s[m].newer \union {m})
        BY <2>5
  <2>7. /\ IsFiniteSet(s[m].newer \union {m})
        /\ Cardinality(s[m].newer \union {m}) <= Cardinality(s[m].newer) + 1
        BY <2>1, FS_AddElement
  <2>8. IsFiniteSet(K) /\ Cardinality(K) <= Cardinality(s[m].newer \union {m})
        BY <2>6, <2>7, FS_Subset
  <2>9. Cardinality(K) \in Nat /\ Cardinality(s[m].newer \union {m}) \in Nat
        BY <2>7, <2>8, FS_CardinalityType
  <2> QED BY <1>1, <2>1, <2>7, <2>8, <2>9
<1> HIDE DEF K
<1> QED BY <1>2, <1>3

---------------------------------------------------------------------------
(* put and get.                                                            *)

LEMMA ExpiredFacts ==
    ASSUME NEW s, Dictionary(s)
    PROVE  /\ Dictionary(Expired(s)) /\ DOMAIN Expired(s) = Live(s)
           /\ Live(s) \subseteq DOMAIN s
           /\ \A j \in Live(s) : /\ Expired(s)[j].engine = s[j].engine
                                 /\ Expired(s)[j].deadline = s[j].deadline
                                 /\ Expired(s)[j].newer = s[j].newer \intersect Live(s)
<1>1. Live(s) \in SUBSET DOMAIN s
      BY DEF Live
<1> QED BY <1>1, OnlyFacts DEF Expired

\* The entries that are live, with one of them or another at the end.
LEMMA MoveFacts ==
    ASSUME NEW s, Dictionary(s), NEW i \in Ids, NEW e \in Engines, NEW d \in Nat
    PROVE  Extended(AtEnd(Expired(s), i, e, d), s, Live(s), i, e, d)
<1> DEFINE live == Expired(s)
           t == AtEnd(live, i, e, d)
<1>1. /\ Dictionary(live) /\ DOMAIN live = Live(s)
      /\ \A j \in Live(s) : /\ live[j].engine = s[j].engine
                            /\ live[j].deadline = s[j].deadline
                            /\ live[j].newer = s[j].newer \intersect Live(s)
      BY ExpiredFacts
<1>2. Dictionary(live)
      BY <1>1
<1> HIDE DEF live
<1>3. Extended(t, live, DOMAIN live, i, e, d)
      BY <1>2, AtEndFacts
<1> HIDE DEF t
<1>4. Extended(t, s, Live(s), i, e, d)
      BY <1>1, <1>3 DEF Extended
<1> QED BY <1>4 DEF t, live

\* A put entry is in the index.  Another one may fall out of it because it has
\* expired or because a maximum of others are newer, and nothing else changes.
LEMMA PutFacts ==
    ASSUME NEW s, Dictionary(s), NEW i \in Ids, NEW e \in Engines, clock \in Nat
    PROVE  /\ Dictionary(Put(s, i, e)) /\ Cardinality(DOMAIN Put(s, i, e)) <= Maximum
           /\ i \in DOMAIN Put(s, i, e) /\ Put(s, i, e)[i].newer = {}
           /\ Put(s, i, e)[i].engine = e /\ Put(s, i, e)[i].deadline = clock + TTL
           /\ \A j \in DOMAIN Put(s, i, e) \ {i} :
                 /\ j \in DOMAIN s
                 /\ Put(s, i, e)[j].engine = s[j].engine
                 /\ Put(s, i, e)[j].deadline = s[j].deadline
                 /\ Put(s, i, e)[j].newer \subseteq s[j].newer \union {i}
           /\ \A j \in DOMAIN s \ {i} :
                 \/ j \in DOMAIN Put(s, i, e)
                 \/ j \notin Live(s)
                 \/ ~(Cardinality((s[j].newer \intersect Live(s)) \union {i}) < Maximum)
<1> DEFINE d == clock + TTL
           all == AtEnd(Expired(s), i, e, d)
           K == {j \in DOMAIN all : Cardinality(all[j].newer) < Maximum}
           t == Only(all, K)
<1>1. Put(s, i, e) = Evict(all) /\ Evict(all) = t
      BY DEF Put, Evict
<1>2. Live(s) \subseteq DOMAIN s
      BY ExpiredFacts
<1>3. d \in Nat
      OBVIOUS
<1> HIDE DEF d
<1>4. Extended(all, s, Live(s), i, e, d)
      BY <1>3, MoveFacts
<1> HIDE DEF all
<1>5. Dictionary(all)
      BY <1>4 DEF Extended
<1>6. K \in SUBSET DOMAIN all
      OBVIOUS
<1>7. /\ Dictionary(t) /\ DOMAIN t = K
      /\ \A j \in K : /\ t[j].engine = all[j].engine
                      /\ t[j].deadline = all[j].deadline
                      /\ t[j].newer = all[j].newer \intersect K
      BY <1>6, <1>5, OnlyFacts
<1>8. Cardinality(DOMAIN t) <= Maximum
      BY <1>1, <1>5, EvictBound
<1>9. i \in K
  <2>1. all[i].newer = {} /\ i \in DOMAIN all
        BY <1>4 DEF Extended
  <2>2. Cardinality(all[i].newer) = 0
        BY <2>1, FS_EmptySet
  <2> QED BY <2>1, <2>2
<1> HIDE DEF t
<1>10. t[i].newer = {} /\ t[i].engine = e /\ t[i].deadline = d
      BY <1>4, <1>7, <1>9 DEF Extended
<1>11. ASSUME NEW j \in DOMAIN t \ {i}
       PROVE  /\ j \in DOMAIN s
              /\ t[j].engine = s[j].engine /\ t[j].deadline = s[j].deadline
              /\ t[j].newer \subseteq s[j].newer \union {i}
      BY <1>2, <1>4, <1>7 DEF Extended
<1>12. ASSUME NEW j \in DOMAIN s \ {i}, j \notin DOMAIN t, j \in Live(s)
       PROVE  ~(Cardinality((s[j].newer \intersect Live(s)) \union {i}) < Maximum)
  <2>1. j \in DOMAIN all /\ all[j].newer = (s[j].newer \intersect Live(s)) \union {i}
        BY <1>2, <1>4, <1>12 DEF Extended
  <2>2. ~(Cardinality(all[j].newer) < Maximum)
        BY <1>7, <1>12, <2>1
  <2> QED BY <2>1, <2>2
<1> HIDE DEF K
<1> QED BY <1>1, <1>7, <1>8, <1>9, <1>10, <1>11, <1>12 DEF d

\* get drops what has expired, and moves what it finds to the end.
LEMMA TouchFacts ==
    ASSUME NEW s, Dictionary(s), NEW i \in Ids
    PROVE  /\ Dictionary(Touch(s, i)) /\ DOMAIN Touch(s, i) = Live(s)
           /\ Live(s) \subseteq DOMAIN s
           /\ \A j \in Live(s) :
                 /\ Touch(s, i)[j].engine = s[j].engine
                 /\ Touch(s, i)[j].deadline = s[j].deadline
                 /\ j = i => Touch(s, i)[j].newer = {}
                 /\ Touch(s, i)[j].newer
                       \subseteq s[j].newer \union (IF i \in Live(s) THEN {i} ELSE {})
<1>1. /\ Dictionary(Expired(s)) /\ DOMAIN Expired(s) = Live(s)
      /\ Live(s) \subseteq DOMAIN s
      /\ \A j \in Live(s) : /\ Expired(s)[j].engine = s[j].engine
                            /\ Expired(s)[j].deadline = s[j].deadline
                            /\ Expired(s)[j].newer = s[j].newer \intersect Live(s)
      BY ExpiredFacts
<1>2. CASE i \notin Live(s)
      BY <1>1, <1>2 DEF Touch
<1>3. CASE i \in Live(s)
  <2> DEFINE e == s[i].engine
             d == s[i].deadline
             t == AtEnd(Expired(s), i, e, d)
  <2>1. s[i] \in Entries
        BY <1>1, <1>3 DEF Dictionary
  <2>2. e \in Engines /\ d \in Nat
        BY <2>1 DEF Entries
  <2>3. Touch(s, i) = t
        BY <1>3 DEF Touch
  <2> HIDE DEF e, d
  <2>4. Extended(t, s, Live(s), i, e, d)
        BY <2>2, MoveFacts
  <2> HIDE DEF t
  <2> QED BY <1>1, <1>3, <2>3, <2>4 DEF e, d, Extended
<1> QED BY <1>2, <1>3

---------------------------------------------------------------------------
(* The inductive invariant.                                                *)

\* An entry names the engine that holds the response and the deadline of its
\* last put; the entries that come after its own have been used since.
EntriesTrue ==
    \A i \in DOMAIN items :
        /\ items[i].engine = owner[i] /\ items[i].deadline = deadline[i]
        /\ items[i].newer \subseteq since[i]

SinceFinite == \A i \in Ids : IsFiniteSet(since[i])

\* The index and its history.
IndexInv ==
    /\ Dictionary(items) /\ Cardinality(DOMAIN items) <= Maximum
    /\ owner \in [Ids -> Engines \union {Nobody}] /\ known \subseteq Ids
    /\ since \in [Ids -> SUBSET Ids] /\ deadline \in [Ids -> Nat]
    /\ EntriesTrue /\ SinceFinite /\ NothingForgottenEarly

\* A request that has gone out has gone to an engine.
AllSelected ==
    \A r \in Requests :
        req[r] # Idle /\ req[r].at # "body" => req[r].engine \in Engines

\* The handlers, the file they read and the time.
HandlerInv ==
    /\ file \in Published /\ clock \in 0..MaxClock
    /\ req \in [Requests -> Handlers \union {Idle}]
    /\ AllSelected /\ FollowUpsReachOwner

RouterInv == IndexInv /\ HandlerInv

\* An idle handler is at none of the others' places, which are three.
LEMMA HandlerFacts ==
    ASSUME HandlerInv, NEW r \in Requests
    PROVE  /\ req[r] = Idle => req[r].at = "idle"
           /\ req[r] # Idle => /\ req[r] \in Handlers /\ req[r].target \in Targets
                               /\ req[r].at \in {"body", "sent", "stream"}
<1>1. req[r] = Idle => req[r].at = "idle"
      BY DEF Idle
<1>2. req[r] # Idle => req[r] \in Handlers
      BY DEF HandlerInv
<1>3. req[r] \in Handlers => /\ req[r].target \in Targets
                             /\ req[r].at \in {"body", "sent", "stream"}
      BY DEF Handlers
<1> QED BY <1>1, <1>2, <1>3

\* A handler with other fields: the stream starts, an event names its response.
LEMMA HandlerStreams ==
    ASSUME NEW x \in Handlers, NEW y, y = [x EXCEPT !.at = "stream"]
    PROVE  y \in Handlers /\ y.target = x.target /\ y.engine = x.engine
BY DEF Handlers

LEMMA HandlerNamed ==
    ASSUME NEW x \in Handlers, NEW i \in Ids, NEW y, y = [x EXCEPT !.id = i]
    PROVE  y \in Handlers /\ y.target = x.target /\ y.engine = x.engine
BY DEF Handlers

\* Init: an empty index, and no handler.
LEMMA RouterInit == Init => RouterInv
<1> SUFFICES ASSUME Init PROVE RouterInv
    OBVIOUS
<1>1. DOMAIN items = {} /\ IsFiniteSet({}) /\ Cardinality({}) = 0
      BY FS_EmptySet DEF Init
<1>2. items \in [DOMAIN items -> Entries]
      BY <1>1 DEF Init
<1>3. Dictionary(items)
      BY <1>1, <1>2 DEF Dictionary, Ordered
<1>4. Cardinality(DOMAIN items) <= Maximum
      BY <1>1
<1>5. /\ owner \in [Ids -> Engines \union {Nobody}]
      /\ known \subseteq Ids /\ since \in [Ids -> SUBSET Ids]
      BY DEF Init
<1>6. clock \in 0..MaxClock /\ deadline \in [Ids -> Nat]
      BY DEF Init
<1>7. EntriesTrue /\ SinceFinite
      BY <1>1 DEF Init, EntriesTrue, SinceFinite
<1>8. AllSelected /\ FollowUpsReachOwner /\ NothingForgottenEarly
      BY DEF Init, AllSelected, FollowUpsReachOwner, NothingForgottenEarly
<1>9. file \in Published /\ req \in [Requests -> Handlers \union {Idle}]
      BY DEF Init, Published
<1> QED BY <1>3, <1>4, <1>5, <1>6, <1>7, <1>8, <1>9
        DEF RouterInv, IndexInv, HandlerInv

---------------------------------------------------------------------------
(* The index keeps its part of the invariant.                              *)

\* More is used since: what was finite stays so, what counted still counts.
LEMMA UseFacts ==
    ASSUME since \in [Ids -> SUBSET Ids], SinceFinite, NEW i \in Ids, Use(i)
    PROVE  /\ since' \in [Ids -> SUBSET Ids] /\ SinceFinite'
           /\ since'[i] = {}
           /\ \A j \in Ids \ {i} : /\ since'[j] = since[j] \union {i}
                                   /\ Cardinality(since[j]) <= Cardinality(since'[j])
<1>1. since' \in [Ids -> SUBSET Ids]
      BY DEF Use
<1>2. since'[i] = {} /\ \A j \in Ids \ {i} : since'[j] = since[j] \union {i}
      BY DEF Use
<1>3. ASSUME NEW j \in Ids \ {i}
      PROVE  /\ IsFiniteSet(since'[j])
             /\ Cardinality(since[j]) <= Cardinality(since'[j])
  <2>1. IsFiniteSet(since[j])
        BY DEF SinceFinite
  <2>2. IsFiniteSet(since[j] \union {i})
        BY <2>1, FS_AddElement
  <2>3. since[j] \in SUBSET (since[j] \union {i})
        OBVIOUS
  <2>4. Cardinality(since[j]) <= Cardinality(since[j] \union {i})
        BY <2>2, <2>3, FS_Subset
  <2> QED BY <1>2, <2>2, <2>4
<1>4. IsFiniteSet(since'[i])
      BY <1>2, FS_EmptySet
<1>5. SinceFinite'
      BY <1>3, <1>4 DEF SinceFinite
<1> QED BY <1>1, <1>2, <1>3, <1>5

\* Counts of finite sets of identifiers are numbers.
LEMMA SinceCount ==
    ASSUME SinceFinite, NEW j \in Ids
    PROVE  Cardinality(since[j]) \in Nat
BY FS_CardinalityType DEF SinceFinite

\* A put (remember_response_id): the response is the engine's from now on, and a
\* known identifier that falls out has expired or was followed by a maximum of
\* others.
LEMMA RememberKeepsIndex ==
    ASSUME IndexInv, clock \in 0..MaxClock, NEW r \in Requests, NEW i \in Ids,
           req[r].engine \in Engines, owner[i] \in {Nobody, req[r].engine},
           Remember(r, i), known' = known \union {i}, clock' = clock
    PROVE  /\ IndexInv'
           /\ \A j \in Ids : owner[j] # Nobody => owner'[j] = owner[j]
<1> DEFINE e == req[r].engine
<1>1. e \in Engines /\ clock \in Nat
      OBVIOUS
<1>2. /\ owner' = [owner EXCEPT ![i] = e] /\ items' = Put(items, i, e)
      /\ Use(i) /\ deadline' = [deadline EXCEPT ![i] = clock + TTL]
      /\ owner[i] \in {Nobody, e}
      BY DEF Remember
<1> HIDE DEF e
<1> DEFINE t == Put(items, i, e)
<1>3. Dictionary(items)
      BY DEF IndexInv
<1>4. /\ Dictionary(t) /\ Cardinality(DOMAIN t) <= Maximum
      /\ i \in DOMAIN t /\ t[i].newer = {}
      /\ t[i].engine = e /\ t[i].deadline = clock + TTL
      /\ \A j \in DOMAIN t \ {i} :
            /\ j \in DOMAIN items
            /\ t[j].engine = items[j].engine /\ t[j].deadline = items[j].deadline
            /\ t[j].newer \subseteq items[j].newer \union {i}
      /\ \A j \in DOMAIN items \ {i} :
            \/ j \in DOMAIN t
            \/ j \notin Live(items)
            \/ ~(Cardinality((items[j].newer \intersect Live(items)) \union {i}) < Maximum)
      BY <1>1, <1>3, PutFacts
<1> HIDE DEF t
<1>5. items' = t
      BY <1>2 DEF t
<1>6. Dictionary(items)'
      BY <1>4, <1>5 DEF Dictionary, Ordered
<1>7. /\ owner' \in [Ids -> Engines \union {Nobody}] /\ known' \subseteq Ids
      /\ owner'[i] = e /\ \A j \in Ids \ {i} : owner'[j] = owner[j]
      BY <1>1, <1>2 DEF IndexInv
<1>8. /\ deadline' \in [Ids -> Nat]
      /\ deadline'[i] = clock + TTL /\ \A j \in Ids \ {i} : deadline'[j] = deadline[j]
      BY <1>1, <1>2 DEF IndexInv
<1>9. /\ since' \in [Ids -> SUBSET Ids] /\ SinceFinite'
      /\ \A j \in Ids \ {i} : /\ since'[j] = since[j] \union {i}
                              /\ Cardinality(since[j]) <= Cardinality(since'[j])
      BY <1>2, UseFacts DEF IndexInv
<1>10. DOMAIN t \subseteq Ids /\ DOMAIN items \subseteq Ids
       BY <1>3, <1>4 DEF Dictionary
<1>11. EntriesTrue'
  <2>1. /\ t[i].engine = owner'[i] /\ t[i].deadline = deadline'[i]
        /\ t[i].newer \subseteq since'[i]
        BY <1>4, <1>7, <1>8
  <2>2. ASSUME NEW j \in DOMAIN t \ {i}
        PROVE  /\ t[j].engine = owner'[j] /\ t[j].deadline = deadline'[j]
               /\ t[j].newer \subseteq since'[j]
    <3>1. j \in DOMAIN items /\ j \in Ids \ {i}
          BY <1>4, <1>10
    <3>2. /\ items[j].engine = owner[j] /\ items[j].deadline = deadline[j]
          /\ items[j].newer \subseteq since[j]
          BY <3>1 DEF IndexInv, EntriesTrue
    <3> QED BY <1>4, <1>7, <1>8, <1>9, <3>1, <3>2
  <2> QED BY <1>5, <2>1, <2>2 DEF EntriesTrue
<1>12. NothingForgottenEarly'
  <2> SUFFICES ASSUME NEW j \in known'
               PROVE  \/ j \in DOMAIN t
                      \/ deadline'[j] <= clock
                      \/ Cardinality(since'[j]) >= Maximum
      BY <1>5 DEF NothingForgottenEarly
  <2> SUFFICES ASSUME j # i, j \notin DOMAIN t
               PROVE  deadline'[j] <= clock \/ Cardinality(since'[j]) >= Maximum
      BY <1>4
  <2>1. j \in known /\ j \in Ids \ {i}
        BY DEF IndexInv
  <2>2. Cardinality(since[j]) \in Nat /\ Cardinality(since'[j]) \in Nat
    <3>1. Cardinality(since[j]) \in Nat
          BY <2>1, SinceCount DEF IndexInv
    <3>2. IsFiniteSet(since'[j])
          BY <1>9, <2>1 DEF SinceFinite
    <3> QED BY <3>1, <3>2, FS_CardinalityType
  <2>3. \/ j \in DOMAIN items
        \/ deadline[j] <= clock
        \/ Cardinality(since[j]) >= Maximum
        BY <2>1 DEF IndexInv, NothingForgottenEarly
  <2>4. CASE deadline[j] <= clock
        BY <1>8, <2>1, <2>4
  <2>5. CASE Cardinality(since[j]) >= Maximum
        BY <1>9, <2>1, <2>2, <2>5
  <2>6. CASE j \in DOMAIN items /\ j \notin Live(items)
    <3>1. ~(items[j].deadline > clock) /\ items[j].deadline = deadline[j]
          BY <2>6 DEF Live, IndexInv, EntriesTrue
    <3>2. deadline[j] \in Nat
          BY <2>1 DEF IndexInv
    <3> QED BY <1>1, <1>8, <2>1, <3>1, <3>2
  <2>7. CASE j \in DOMAIN items /\ j \in Live(items)
    <3> DEFINE others == (items[j].newer \intersect Live(items)) \union {i}
    <3>1. ~(Cardinality(others) < Maximum)
          BY <1>4, <2>7
    <3>2. others \in SUBSET since'[j]
      <4>1. items[j].newer \subseteq since[j]
            BY <2>7 DEF IndexInv, EntriesTrue
      <4> QED BY <1>9, <2>1, <4>1
    <3>3. IsFiniteSet(since'[j])
          BY <1>9, <2>1 DEF SinceFinite
    <3> HIDE DEF others
    <3>4. /\ IsFiniteSet(others)
          /\ Cardinality(others) <= Cardinality(since'[j])
          BY <3>2, <3>3, FS_Subset
    <3>5. Cardinality(others) \in Nat
          BY <3>4, FS_CardinalityType
    <3> QED BY <2>2, <3>1, <3>4, <3>5
  <2> QED BY <2>3, <2>4, <2>5, <2>6, <2>7
<1>13. \A j \in Ids : owner[j] # Nobody => owner'[j] = owner[j]
       BY <1>2, <1>7
<1>14. IndexInv'
  <2>1. (Cardinality(DOMAIN items) <= Maximum)'
        BY <1>4, <1>5
  <2> QED BY <1>6, <1>7, <1>8, <1>9, <1>11, <1>12, <2>1 DEF IndexInv
<1> QED BY <1>13, <1>14

\* A get (engine_for): what it drops has expired, and what it finds goes on to be
\* the engine's.
LEMMA TouchKeepsIndex ==
    ASSUME IndexInv, clock \in 0..MaxClock, NEW i \in Ids,
           items' = Touch(items, i),
           IF Found(items, i) # {} THEN Use(i) ELSE UNCHANGED since,
           UNCHANGED <<owner, clock, known, deadline>>
    PROVE  IndexInv'
<1> DEFINE t == Touch(items, i)
<1>1. Dictionary(items) /\ clock \in Nat
      BY DEF IndexInv
<1>2. /\ Dictionary(t) /\ DOMAIN t = Live(items) /\ Live(items) \subseteq DOMAIN items
      /\ \A j \in Live(items) :
            /\ t[j].engine = items[j].engine /\ t[j].deadline = items[j].deadline
            /\ j = i => t[j].newer = {}
            /\ t[j].newer \subseteq
                  items[j].newer \union (IF i \in Live(items) THEN {i} ELSE {})
      BY <1>1, TouchFacts
<1> HIDE DEF t
<1>3. items' = t
      BY DEF t
<1>4. Dictionary(items)'
      BY <1>2, <1>3 DEF Dictionary, Ordered
<1>5. Cardinality(DOMAIN items') <= Maximum
  <2>1. Live(items) \in SUBSET DOMAIN items /\ IsFiniteSet(DOMAIN items)
        BY <1>1, <1>2 DEF Dictionary
  <2>2. /\ IsFiniteSet(Live(items))
        /\ Cardinality(Live(items)) <= Cardinality(DOMAIN items)
        BY <2>1, FS_Subset
  <2>3. Cardinality(Live(items)) \in Nat /\ Cardinality(DOMAIN items) \in Nat
        BY <2>1, <2>2, FS_CardinalityType
  <2>4. DOMAIN items' = Live(items)
        BY <1>2, <1>3
  <2>5. Cardinality(DOMAIN items) <= Maximum
        BY DEF IndexInv
  <2>6. Cardinality(DOMAIN items') = Cardinality(Live(items))
        BY <2>4
  <2> QED BY <2>2, <2>3, <2>5, <2>6
<1>6. Found(items, i) # {} <=> i \in Live(items)
      BY DEF Found
<1>7. /\ since' \in [Ids -> SUBSET Ids] /\ SinceFinite'
      /\ i \in Live(items) => \A j \in Ids \ {i} : since'[j] = since[j] \union {i}
      /\ i \notin Live(items) => since' = since
      /\ \A j \in Ids \ {i} : Cardinality(since[j]) <= Cardinality(since'[j])
  <2>1. since \in [Ids -> SUBSET Ids] /\ SinceFinite
        BY DEF IndexInv
  <2>2. CASE i \in Live(items)
        BY <1>6, <2>1, <2>2, UseFacts
  <2>3. CASE i \notin Live(items)
    <3>1. since' = since
          BY <1>6, <2>3
    <3>2. \A j \in Ids : Cardinality(since[j]) \in Nat
          BY <2>1, SinceCount
    <3> QED BY <2>1, <2>3, <3>1, <3>2 DEF SinceFinite
  <2> QED BY <2>2, <2>3
<1>8. DOMAIN items \subseteq Ids
      BY <1>1 DEF Dictionary
<1>9. EntriesTrue'
  <2>1. ASSUME NEW j \in Live(items)
        PROVE  /\ t[j].engine = owner[j] /\ t[j].deadline = deadline[j]
               /\ t[j].newer \subseteq since'[j]
    <3>1. /\ items[j].engine = owner[j] /\ items[j].deadline = deadline[j]
          /\ items[j].newer \subseteq since[j] /\ j \in Ids
          BY <1>2, <1>8 DEF IndexInv, EntriesTrue
    <3>2. t[j].newer \subseteq since'[j]
      <4>1. CASE j = i
            BY <1>2, <4>1
      <4>2. CASE j # i
            BY <1>2, <1>7, <3>1, <4>2
      <4> QED BY <4>1, <4>2
    <3> QED BY <1>2, <3>1, <3>2
  <2> QED BY <1>2, <1>3, <2>1 DEF EntriesTrue
<1>10. NothingForgottenEarly'
  <2> SUFFICES ASSUME NEW j \in known
               PROVE  \/ j \in Live(items)
                      \/ deadline[j] <= clock
                      \/ Cardinality(since'[j]) >= Maximum
      BY <1>2, <1>3 DEF NothingForgottenEarly
  <2> SUFFICES ASSUME j \notin Live(items)
               PROVE  deadline[j] <= clock \/ Cardinality(since'[j]) >= Maximum
      OBVIOUS
  <2>1. j \in Ids
        BY DEF IndexInv
  <2>2. \/ j \in DOMAIN items
        \/ deadline[j] <= clock
        \/ Cardinality(since[j]) >= Maximum
        BY DEF IndexInv, NothingForgottenEarly
  <2>3. CASE j \in DOMAIN items
    <3>1. ~(items[j].deadline > clock) /\ items[j].deadline = deadline[j]
          BY <2>3 DEF Live, IndexInv, EntriesTrue
    <3>2. deadline[j] \in Nat
          BY <2>1 DEF IndexInv
    <3> QED BY <1>1, <3>1, <3>2
  <2>4. CASE Cardinality(since[j]) >= Maximum
    <3>1. Cardinality(since[j]) \in Nat /\ Cardinality(since'[j]) \in Nat
      <4>1. IsFiniteSet(since[j]) /\ IsFiniteSet(since'[j])
            BY <1>7, <2>1 DEF IndexInv, SinceFinite
      <4> QED BY <4>1, FS_CardinalityType
    <3>2. CASE j = i
          BY <1>7, <2>4, <3>2
    <3>3. CASE j # i
          BY <1>7, <2>1, <2>4, <3>1, <3>3
    <3> QED BY <3>2, <3>3
  <2> QED BY <2>2, <2>3, <2>4
<1> QED BY <1>4, <1>5, <1>7, <1>9, <1>10 DEF IndexInv

\* Nothing happens to the index, but time passes.
LEMMA TimeKeepsIndex ==
    ASSUME IndexInv, clock \in Nat, clock' \in Nat, clock' >= clock,
           UNCHANGED <<items, owner, known, since, deadline>>
    PROVE  IndexInv'
<1>1. Dictionary(items)' /\ (Cardinality(DOMAIN items) <= Maximum)'
      BY DEF IndexInv, Dictionary, Ordered
<1>2. EntriesTrue' /\ SinceFinite'
      BY DEF IndexInv, EntriesTrue, SinceFinite
<1>3. ASSUME NEW j \in known, deadline[j] <= clock
      PROVE  deadline[j] <= clock'
  <2>1. deadline[j] \in Nat
        BY DEF IndexInv
  <2> QED BY <1>3, <2>1
<1>4. NothingForgottenEarly'
      BY <1>3 DEF IndexInv, NothingForgottenEarly
<1> QED BY <1>1, <1>2, <1>4 DEF IndexInv

---------------------------------------------------------------------------
(* The steps.                                                              *)

\* One handler goes on, to nothing or to a handler whose request, once out, is
\* at an engine and a follow-up at its owner; no response changes its owner.
LEMMA HandlerKeeps ==
    ASSUME HandlerInv, NEW r \in Requests, NEW y,
           req' = [req EXCEPT ![r] = y],
           \/ y = Idle
           \/ y \in Handlers /\ (y.at # "body" =>
                 /\ y.engine \in Engines
                 /\ y.target \in Ids => y.engine = owner'[y.target]),
           \A j \in Ids : owner[j] # Nobody => owner'[j] = owner[j],
           UNCHANGED <<file, clock>>
    PROVE  HandlerInv'
<1>1. req' \in [Requests -> Handlers \union {Idle}]
      BY DEF HandlerInv
<1>2. req'[r] = y /\ \A q \in Requests \ {r} : req'[q] = req[q]
      BY DEF HandlerInv
<1>3. \A j \in Ids : owner[j] \in Engines => owner'[j] = owner[j]
      BY DistinctAssumption
<1>4. AllSelected'
      BY <1>2 DEF HandlerInv, AllSelected
<1>5. FollowUpsReachOwner'
  <2> SUFFICES ASSUME NEW q \in Requests, req'[q] # Idle, req'[q].at # "body",
                      req'[q].target \in Ids
               PROVE  req'[q].engine = owner'[req'[q].target]
      BY DEF FollowUpsReachOwner
  <2>1. CASE q = r
        BY <1>2, <2>1
  <2>2. CASE q # r
    <3>1. req'[q] = req[q]
          BY <1>2, <2>2
    <3>2. req[q].engine \in Engines /\ req[q].engine = owner[req[q].target]
          BY <3>1 DEF HandlerInv, AllSelected, FollowUpsReachOwner
    <3> QED BY <1>3, <3>1, <3>2
  <2> QED BY <2>1, <2>2
<1> QED BY <1>1, <1>4, <1>5 DEF HandlerInv

\* What is selected is an engine; for a follow-up, by a live entry, the owner.
LEMMA SelectedFacts ==
    ASSUME RouterInv, NEW t \in Targets, NEW e \in Selected(t)
    PROVE  /\ e \in Engines
           /\ t \in Ids => e = owner[t] /\ t \in Live(items) /\ deadline[t] > clock
<1>1. CASE t \in Engines
      BY <1>1, DistinctAssumption DEF Selected
<1>2. CASE t \in Ids
  <2>1. Selected(t) = Found(items, t)
        BY <1>2, DistinctAssumption DEF Selected
  <2>2. t \in Live(items) /\ e = items[t].engine
        BY <2>1 DEF Found
  <2>3. t \in DOMAIN items /\ items[t].deadline > clock
        BY <2>2 DEF Live
  <2>4. items[t].engine = owner[t] /\ items[t].deadline = deadline[t]
        BY <2>3 DEF RouterInv, IndexInv, EntriesTrue
  <2>5. items[t] \in Entries
        BY <2>3 DEF RouterInv, IndexInv, Dictionary
  <2>6. items[t].engine \in Engines
        BY <2>5 DEF Entries
  <2> QED BY <2>2, <2>3, <2>4, <2>6
<1>3. CASE t = Unnamed
  <2>1. t \notin Engines /\ t \notin Ids
        BY <1>3, DistinctAssumption
  <2>2. e \in Engines
        BY <1>3, <2>1 DEF Selected
  <2> QED BY <2>1, <2>2
<1>4. CASE t = Unknown /\ t # Unnamed
  <2>1. t \notin Engines /\ t \notin Ids
        BY <1>4, DistinctAssumption
  <2>2. Selected(t) = {}
        BY <1>4, <2>1 DEF Selected
  <2> QED BY <2>2
<1> QED BY <1>1, <1>2, <1>3, <1>4 DEF Targets, Models

\* A request arrives.
LEMMA ArriveStep ==
    ASSUME RouterInv, NEW r \in Requests, NEW model \in Models,
           NEW path \in known \union {Nobody}, Arrive(r, model, path)
    PROVE  RouterInv'
<1> DEFINE y == [at |-> "body", seen |-> file, target |-> Target(model, path),
                 engine |-> Nobody, id |-> Nobody]
<1>0. Target(model, path) \in Targets
      BY DEF Target, Targets, RouterInv, IndexInv
<1>1. y \in Handlers
      BY <1>0 DEF Handlers, RouterInv, HandlerInv
<1>2. y.at = "body" /\ req' = [req EXCEPT ![r] = y]
      BY DEF Arrive
<1>3. UNCHANGED <<file, items, owner, clock, known, since, deadline>>
      BY DEF Arrive
<1> HIDE DEF y
<1>4. HandlerInv'
      BY <1>1, <1>2, <1>3, HandlerKeeps DEF RouterInv
<1>5. clock \in Nat /\ clock' \in Nat /\ clock' >= clock
      BY <1>3 DEF RouterInv, HandlerInv
<1>6. IndexInv'
      BY <1>3, <1>5, TimeKeepsIndex DEF RouterInv
<1> QED BY <1>4, <1>6 DEF RouterInv

\* A request is routed, or turned away.
LEMMA RouteStep ==
    ASSUME RouterInv, NEW r \in Requests, Route(r)
    PROVE  RouterInv'
<1> DEFINE t == req[r].target
           chosen == {e \in Selected(t) : req[r].seen[e] = "ready"}
           e == CHOOSE x \in chosen : TRUE
           y == [req[r] EXCEPT !.at = "sent", !.engine = e]
<1>1. req[r].at = "body" /\ UNCHANGED <<file, owner, clock, known, deadline>>
      BY DEF Route
<1>2. req[r] \in Handlers /\ t \in Targets
      BY <1>1, HandlerFacts DEF RouterInv
<1>3. req' = [req EXCEPT ![r] = IF chosen = {} THEN Idle ELSE y]
      BY DEF Route
<1>4. t \in Ids => /\ items' = Touch(items, t)
                   /\ IF Found(items, t) # {} THEN Use(t) ELSE UNCHANGED since
      BY DEF Route
<1>5. t \notin Ids => UNCHANGED <<items, since>>
      BY DEF Route
<1>6. chosen # {} => e \in Selected(t)
      OBVIOUS
<1>7. chosen # {} => e \in Engines /\ (t \in Ids => e = owner[t])
      BY <1>2, <1>6, SelectedFacts
<1>8. y = [req[r] EXCEPT !.at = "sent", !.engine = e]
      OBVIOUS
<1> HIDE DEF e, y
<1>9. chosen # {} => y \in Handlers /\ y.target = t /\ y.engine = e
  <2> SUFFICES ASSUME chosen # {} PROVE y \in Handlers /\ y.target = t /\ y.engine = e
      OBVIOUS
  <2>1. e \in Engines /\ req[r] \in Handlers
        BY <1>2, <1>7
  <2> HIDE DEF chosen
  <2>2. y \in Handlers /\ y.target = req[r].target /\ y.engine = e
        BY <1>8, <2>1 DEF Handlers
  <2> QED BY <2>2
<1> HIDE DEF t, chosen
<1>10. clock \in 0..MaxClock /\ clock \in Nat /\ clock' \in Nat /\ clock' >= clock
       BY <1>1 DEF RouterInv, HandlerInv
<1>11. IndexInv'
  <2>1. CASE t \in Ids
        BY <1>1, <1>4, <1>10, <2>1, TouchKeepsIndex DEF RouterInv
  <2>2. CASE t \notin Ids
        BY <1>1, <1>5, <1>10, <2>2, TimeKeepsIndex DEF RouterInv
  <2> QED BY <2>1, <2>2
<1>12. HandlerInv'
  <2>1. CASE chosen = {}
    <3>1. req' = [req EXCEPT ![r] = Idle]
          BY <1>3, <2>1
    <3> QED BY <1>1, <3>1, HandlerKeeps DEF RouterInv
  <2>2. CASE chosen # {}
    <3>1. req' = [req EXCEPT ![r] = y]
          BY <1>3, <2>2
    <3>2. y.engine \in Engines /\ (y.target \in Ids => y.engine = owner'[y.target])
          BY <1>1, <1>7, <1>9, <2>2
    <3>3. y \in Handlers
          BY <1>9, <2>2
    <3> QED BY <1>1, <3>1, <3>2, <3>3, HandlerKeeps DEF RouterInv
  <2> QED BY <2>1, <2>2
<1> QED BY <1>11, <1>12 DEF RouterInv

\* An answer in full, with the response's identifier.
LEMMA JsonStep ==
    ASSUME RouterInv, NEW r \in Requests, NEW i \in Ids, Json(r, i)
    PROVE  RouterInv'
<1>1. /\ req[r].at = "sent" /\ Answers(r, i) /\ Remember(r, i)
      /\ known' = known \union {i} /\ req' = [req EXCEPT ![r] = Idle]
      /\ UNCHANGED <<file, clock>>
      BY DEF Json
<1>2. req[r] # Idle /\ req[r].engine \in Engines
      BY <1>1, HandlerFacts DEF RouterInv, HandlerInv, AllSelected
<1>3. owner[i] \in {Nobody, req[r].engine}
      BY <1>1 DEF Answers
<1>4. clock \in 0..MaxClock
      BY DEF RouterInv, HandlerInv
<1>5. IndexInv' /\ \A j \in Ids : owner[j] # Nobody => owner'[j] = owner[j]
      BY <1>1, <1>2, <1>3, <1>4, RememberKeepsIndex DEF RouterInv
<1>6. HandlerInv'
      BY <1>1, <1>5, HandlerKeeps DEF RouterInv
<1> QED BY <1>5, <1>6 DEF RouterInv

\* An event of a stream, with the response's identifier.
LEMMA EventStep ==
    ASSUME RouterInv, NEW r \in Requests, NEW i \in Ids, Event(r, i)
    PROVE  RouterInv'
<1> DEFINE y == [req[r] EXCEPT !.id = i]
<1>1. /\ req[r].at = "stream" /\ Answers(r, i) /\ Remember(r, i)
      /\ known' = known \union {i} /\ req' = [req EXCEPT ![r] = y]
      /\ UNCHANGED <<file, clock>>
      BY DEF Event
<1>2. req[r] # Idle /\ req[r].engine \in Engines /\ req[r] \in Handlers
      BY <1>1, HandlerFacts DEF RouterInv, HandlerInv, AllSelected
<1>3. owner[i] \in {Nobody, req[r].engine}
      BY <1>1 DEF Answers
<1>4. clock \in 0..MaxClock
      BY DEF RouterInv, HandlerInv
<1>5. IndexInv' /\ \A j \in Ids : owner[j] # Nobody => owner'[j] = owner[j]
      BY <1>1, <1>2, <1>3, <1>4, RememberKeepsIndex DEF RouterInv
<1>6. y = [req[r] EXCEPT !.id = i]
      OBVIOUS
<1> HIDE DEF y
<1>7. y \in Handlers /\ y.target = req[r].target /\ y.engine = req[r].engine
      BY <1>2, <1>6, HandlerNamed
<1>8. y.target \in Ids => y.engine = owner'[y.target]
  <2>1. req[r].target \in Ids => req[r].engine = owner[req[r].target]
        BY <1>1, <1>2 DEF RouterInv, HandlerInv, FollowUpsReachOwner
  <2>2. Nobody \notin Engines
        BY DistinctAssumption
  <2> QED BY <1>2, <1>5, <1>7, <2>1, <2>2
<1>9. HandlerInv'
      BY <1>1, <1>2, <1>5, <1>7, <1>8, HandlerKeeps DEF RouterInv
<1> QED BY <1>5, <1>9 DEF RouterInv

\* A stream starts.
LEMMA StreamStartsStep ==
    ASSUME RouterInv, NEW r \in Requests, StreamStarts(r)
    PROVE  RouterInv'
<1> DEFINE y == [req[r] EXCEPT !.at = "stream"]
<1>1. /\ req[r].at = "sent" /\ req' = [req EXCEPT ![r] = y]
      /\ UNCHANGED <<file, items, owner, clock, known, since, deadline>>
      BY DEF StreamStarts
<1>2. req[r] # Idle /\ req[r].engine \in Engines /\ req[r] \in Handlers
      BY <1>1, HandlerFacts DEF RouterInv, HandlerInv, AllSelected
<1>3. y = [req[r] EXCEPT !.at = "stream"]
      OBVIOUS
<1> HIDE DEF y
<1>4. y \in Handlers /\ y.target = req[r].target /\ y.engine = req[r].engine
      BY <1>2, <1>3, HandlerStreams
<1>5. y.target \in Ids => y.engine = owner'[y.target]
      BY <1>1, <1>2, <1>4 DEF RouterInv, HandlerInv, FollowUpsReachOwner
<1>6. HandlerInv'
      BY <1>1, <1>2, <1>4, <1>5, HandlerKeeps DEF RouterInv
<1>7. clock \in Nat /\ clock' \in Nat /\ clock' >= clock
      BY <1>1 DEF RouterInv, HandlerInv
<1>8. IndexInv'
      BY <1>1, <1>7, TimeKeepsIndex DEF RouterInv
<1> QED BY <1>6, <1>8 DEF RouterInv

\* A handler ends.
LEMMA EndsStep ==
    ASSUME RouterInv, NEW r \in Requests, Ends(r)
    PROVE  RouterInv'
<1>1. /\ req' = [req EXCEPT ![r] = Idle]
      /\ UNCHANGED <<file, items, owner, clock, known, since, deadline>>
      BY DEF Ends
<1>2. HandlerInv'
      BY <1>1, HandlerKeeps DEF RouterInv
<1>3. clock \in Nat /\ clock' \in Nat /\ clock' >= clock
      BY <1>1 DEF RouterInv, HandlerInv
<1>4. IndexInv'
      BY <1>1, <1>3, TimeKeepsIndex DEF RouterInv
<1> QED BY <1>2, <1>4 DEF RouterInv

\* The supervisor publishes, time passes, or nothing happens.
LEMMA OtherStep ==
    ASSUME RouterInv,
           \/ \E e \in Engines, s \in {"ready", "down"} : Publish(e, s)
           \/ Tick
           \/ UNCHANGED vars
    PROVE  RouterInv'
<1>1. UNCHANGED <<items, req, owner, known, since, deadline>>
      BY DEF Publish, Tick, vars
<1>2. file' \in Published
      BY DEF RouterInv, HandlerInv, Publish, Published, Tick, vars
<1>3. clock \in Nat /\ clock' \in 0..MaxClock /\ clock' \in Nat /\ clock' >= clock
      BY DEF RouterInv, HandlerInv, Publish, Tick, vars
<1>4. IndexInv'
      BY <1>1, <1>3, TimeKeepsIndex DEF RouterInv
<1>5. HandlerInv'
      BY <1>1, <1>2, <1>3
         DEF RouterInv, HandlerInv, AllSelected, FollowUpsReachOwner
<1> QED BY <1>4, <1>5 DEF RouterInv

\* Every step keeps the invariant.
LEMMA RouterStep == RouterInv /\ [Next]_vars => RouterInv'
<1> SUFFICES ASSUME RouterInv, [Next]_vars PROVE RouterInv'
    OBVIOUS
<1>1. ASSUME NEW r \in Requests, Proxy(r) PROVE RouterInv'
      BY <1>1, ArriveStep, RouteStep, JsonStep, EventStep, StreamStartsStep, EndsStep
         DEF Proxy
<1> QED BY <1>1, OtherStep DEF Next

LEMMA RouterInvariant == Spec => []RouterInv
BY RouterInit, RouterStep, PTL DEF Spec

---------------------------------------------------------------------------
(* The theorems.                                                           *)

\* The index never holds more than its maximum, and every variable what it should
\* (router.py:46-57).
THEOREM RouterTypeCorrect == Spec => []TypeOK
<1>1. RouterInv => TypeOK
      BY DEF RouterInv, IndexInv, HandlerInv, Dictionary, TypeOK
<1> QED BY <1>1, RouterInvariant, PTL

\* A received identifier is in the index until its deadline or until a maximum of
\* others have been used since (router.py:46-71, 265, 279-280).
THEOREM NothingForgottenHolds == Spec => []NothingForgottenEarly
<1>1. RouterInv => NothingForgottenEarly
      BY DEF RouterInv, IndexInv
<1> QED BY <1>1, RouterInvariant, PTL

\* A follow-up goes to the engine that holds its response (router.py:182-192).
THEOREM FollowUpsHolds == Spec => []FollowUpsReachOwner
<1>1. RouterInv => FollowUpsReachOwner
      BY DEF RouterInv, HandlerInv
<1> QED BY <1>1, RouterInvariant, PTL

\* No follow-up is routed by an expired entry (router.py:60-71).
THEOREM NoExpiredRouteHolds == Spec => NoExpiredRoute
<1> DEFINE Fresh ==
        \A r \in Requests :
            req[r] # Idle /\ req[r].target \in Ids /\ req[r].at = "body"
            /\ req'[r] # Idle /\ req'[r].at = "sent"
                => deadline[req[r].target] > clock
<1>1. ASSUME RouterInv, [Next]_vars, NEW r \in Requests,
             req[r] # Idle, req[r].target \in Ids, req[r].at = "body",
             req'[r] # Idle, req'[r].at = "sent"
      PROVE  deadline[req[r].target] > clock
  <2>1. req \in [Requests -> Handlers \union {Idle}]
        BY <1>1 DEF RouterInv, HandlerInv
  <2>2. CASE Route(r)
    <3> DEFINE t == req[r].target
               chosen == {e \in Selected(t) : req[r].seen[e] = "ready"}
    <3>1. req'[r] = Idle \/ chosen # {}
          BY <2>1, <2>2 DEF Route
    <3>2. PICK e \in Selected(t) : TRUE
          BY <1>1, <3>1
    <3>3. t \in Targets
          BY <1>1 DEF Targets, Models
    <3> QED BY <1>1, <3>2, <3>3, SelectedFacts
  <2>3. req'[r] = req[r] \/ Proxy(r)
    <3>1. ASSUME NEW q \in Requests, Proxy(q), q # r PROVE req'[r] = req[r]
          BY <2>1, <3>1 DEF Proxy, Arrive, Route, StreamStarts, Ends, Json, Event
    <3>2. ASSUME \/ \E e \in Engines, s \in {"ready", "down"} : Publish(e, s)
                 \/ Tick
                 \/ UNCHANGED vars
          PROVE  req'[r] = req[r]
          BY <3>2 DEF Publish, Tick, vars
    <3> QED BY <1>1, <3>1, <3>2 DEF Next
  <2>4. ASSUME Proxy(r), ~ Route(r) PROVE FALSE
    <3>1. CASE \E model \in Models, path \in known \union {Nobody} : Arrive(r, model, path)
          BY <1>1, <3>1 DEF Arrive
    <3>2. CASE StreamStarts(r)
          BY <1>1, <3>2 DEF StreamStarts
    <3>3. CASE Ends(r)
          BY <1>1, <2>1, <3>3 DEF Ends
    <3>4. CASE \E i \in Ids : Json(r, i) \/ Event(r, i)
          BY <1>1, <3>4 DEF Json, Event
    <3> QED BY <2>4, <3>1, <3>2, <3>3, <3>4 DEF Proxy
  <2> QED BY <1>1, <2>2, <2>3, <2>4
<1>2. RouterInv /\ [Next]_vars => Fresh
      BY <1>1
<1>3. RouterInv /\ [Next]_vars => [Fresh]_vars
      BY <1>2
<1>4. Spec => [][Fresh]_vars
      BY <1>3, RouterInvariant, PTL DEF Spec
<1> QED BY <1>4 DEF NoExpiredRoute

---------------------------------------------------------------------------
(* The parser of streams: what the buffer holds once the events up to c    *)
(* are gone is the rest of the stream without the CRs of its line ends.    *)

USE SizesAssumption

Kept(s, c) ==
    {p \in (c + 1)..Len(s) : ~(s[p] = "cr" /\ p < Len(s) /\ s[p + 1] = "lf")}

\* No event is complete.
NoEvent(s, text) ==
    \A p, q \in text : Adjacent(text, p, q) => ~(s[p] = "lf" /\ s[q] = "lf")

\* The chunk's line ends are normalised as if they had come with the buffer's.
LEMMA NormalisedKept ==
    ASSUME NEW s \in Seq(Symbols), NEW t \in Seq(Symbols), Len(s) < Len(t),
           \A p \in 1..Len(s) : t[p] = s[p],
           WellFormed(t), NEW c \in 0..Len(s)
    PROVE  Normalised(t, Kept(s, c) \union (Len(s) + 1)..Len(t)) = Kept(t, c)
<1> DEFINE text == Kept(s, c) \union (Len(s) + 1)..Len(t)
<1>1. Len(s) \in Nat /\ Len(t) \in Nat
      OBVIOUS
<1>2. text \subseteq (c + 1)..Len(t)
      BY <1>1 DEF Kept
<1>3. ASSUME NEW p \in (c + 1)..Len(t), p \notin text
      PROVE  p < Len(s) /\ s[p] = "cr" /\ s[p + 1] = "lf"
      BY <1>1, <1>3 DEF Kept
<1>4. ASSUME NEW p \in (c + 1)..Len(t), p \notin text
      PROVE  p < Len(t) /\ t[p] = "cr" /\ t[p + 1] = "lf"
      BY <1>1, <1>3, <1>4
<1>5. ASSUME NEW p \in Normalised(t, text) PROVE p \in Kept(t, c)
  <2>1. p \in text /\ p \in (c + 1)..Len(t)
        BY <1>2 DEF Normalised
  <2>2. ASSUME t[p] = "cr", p < Len(t), t[p + 1] = "lf" PROVE FALSE
    <3>1. p + 1 \in text
      <4>1. p + 1 \in (c + 1)..Len(t)
            BY <1>1, <2>1, <2>2
      <4> QED BY <1>4, <2>2, <4>1
    <3>2. Adjacent(text, p, p + 1)
          BY <1>1, <1>2, <2>1 DEF Adjacent
    <3> QED BY <2>2, <3>1, <3>2 DEF Normalised
  <2> QED BY <2>1, <2>2 DEF Kept
<1>6. ASSUME NEW p \in Kept(t, c) PROVE p \in Normalised(t, text)
  <2>1. p \in (c + 1)..Len(t) /\ ~(t[p] = "cr" /\ p < Len(t) /\ t[p + 1] = "lf")
        BY DEF Kept
  <2>2. p \in text
        BY <1>4, <2>1
  <2>3. ASSUME t[p] = "cr", NEW q \in text, Adjacent(text, p, q), t[q] = "lf"
        PROVE  FALSE
    <3>1. q \in (c + 1)..Len(t) /\ p < q
          BY <1>2, <2>3 DEF Adjacent
    <3>2. p + 1 \in 1..Len(t) /\ p + 1 # 1 /\ p + 1 \in (c + 1)..Len(t)
          BY <1>1, <2>1, <3>1
    <3>3. MayFollow(t[p], t[p + 1])
      <4>1. (p + 1) - 1 = p
            BY <2>1
      <4> QED BY <3>2, <4>1 DEF WellFormed
    <3>4. t[p + 1] = "lf"
          BY <2>3, <3>3 DEF MayFollow
    <3> QED BY <1>1, <2>1, <2>3, <3>1, <3>4
  <2> QED BY <2>2, <2>3 DEF Normalised
<1> QED BY <1>5, <1>6

\* Two adjacent LFs of the buffer end an empty line of the stream.
LEMMA AdjacentEmpty ==
    ASSUME NEW s \in Seq(Symbols), NEW c \in 0..Len(s),
           NEW q \in Kept(s, c), s[q] = "lf",
           NEW r \in Kept(s, c), r < q,
           \A x \in Kept(s, c) : r <= x /\ x < q => s[x] = "lf"
    PROVE  q \in EmptyLines(s)
<1>1. Len(s) \in Nat /\ q \in 2..Len(s) /\ r \in (c + 1)..Len(s) /\ r \in 1..Len(s)
      BY DEF Kept
<1>2. CASE q - 1 \in Kept(s, c)
  <2>1. s[q - 1] = "lf"
        BY <1>1, <1>2
  <2> QED BY <1>1, <2>1 DEF EmptyLines
<1>3. CASE q - 1 \notin Kept(s, c)
  <2>1. s[q - 1] = "cr" /\ r # q - 1
        BY <1>1, <1>3 DEF Kept
  <2>2. q - 2 \in (c + 1)..Len(s) /\ q # 2 /\ r <= q - 2 /\ q - 2 < q
        BY <1>1, <2>1
  <2>3. q - 2 \in Kept(s, c)
    <3>1. (q - 2) + 1 = q - 1
          BY <1>1
    <3> QED BY <2>1, <2>2, <3>1 DEF Kept
  <2>4. s[q - 2] = "lf"
        BY <2>2, <2>3
  <2> QED BY <1>1, <2>1, <2>4 DEF EmptyLines
<1> QED BY <1>2, <1>3

\* Where no event is complete, an empty line is the buffer's first byte if it is
\* in the buffer at all.
LEMMA EmptyFirst ==
    ASSUME NEW s \in Seq(Symbols), NEW c \in 0..Len(s), NoEvent(s, Kept(s, c)),
           NEW e \in EmptyLines(s), NEW p \in Kept(s, c)
    PROVE  e <= p
<1> SUFFICES ASSUME p < e PROVE FALSE
    BY DEF Kept, EmptyLines
<1>1. /\ Len(s) \in Nat /\ e \in 2..Len(s) /\ p \in (c + 1)..Len(s)
      /\ s[e] = "lf"
      BY DEF Kept, EmptyLines
<1>2. e \in Kept(s, c)
      BY <1>1 DEF Kept
<1>3. CASE s[e - 1] = "lf"
  <2>1. e - 1 \in Kept(s, c)
        BY <1>1, <1>3 DEF Kept
  <2>2. Adjacent(Kept(s, c), e - 1, e)
        BY <1>1 DEF Adjacent, Kept
  <2> QED BY <1>1, <1>2, <1>3, <2>1, <2>2 DEF NoEvent
<1>4. CASE s[e - 1] = "cr" /\ (e = 2 \/ s[e - 2] = "lf")
  <2>1. e - 1 \notin Kept(s, c)
    <3>1. (e - 1) + 1 = e /\ e - 1 < Len(s)
          BY <1>1
    <3> QED BY <1>1, <1>4, <3>1 DEF Kept
  <2>2. p # e - 1
        BY <2>1
  <2>3. e - 2 \in (c + 1)..Len(s) /\ e # 2
        BY <1>1, <2>2
  <2>4. s[e - 2] = "lf" /\ e - 2 \in Kept(s, c)
        BY <1>4, <2>3 DEF Kept
  <2>5. Adjacent(Kept(s, c), e - 2, e)
    <3>1. \A x \in Kept(s, c) : x \in Int /\ x # e - 1
          BY <1>1, <2>1 DEF Kept
    <3> QED BY <1>1, <3>1 DEF Adjacent
  <2> QED BY <1>1, <1>2, <2>4, <2>5 DEF NoEvent
<1> QED BY <1>3, <1>4 DEF EmptyLines

\* What follows the last complete event has no complete one.
LEMMA RemainingNoEvent ==
    ASSUME NEW s, NEW text \in SUBSET Nat, IsFiniteSet(text)
    PROVE  NoEvent(s, Remaining(s, text))
<1> DEFINE rest == Remaining(s, text)
<1> SUFFICES ASSUME NEW p \in rest, NEW q \in rest, Adjacent(rest, p, q),
                    s[p] = "lf", s[q] = "lf"
             PROVE  FALSE
    BY DEF NoEvent
<1>1. p \in text /\ q \in text /\ p < q
      BY DEF Remaining, Adjacent
<1>2. ASSUME NEW x \in text, p < x PROVE x \in rest
  <2>1. \A e \in EventEnds(s, text) : e \in text /\ e < p
        BY DEF Remaining, EventEnds
  <2>2. p \in Nat /\ x \in Nat /\ p < x
        BY <1>1, <1>2
  <2>3. ASSUME NEW e \in EventEnds(s, text) PROVE e < x
    <3>1. e \in Nat /\ e < p
          BY <2>1
    <3> QED BY <2>2, <3>1
  <2> QED BY <2>3 DEF Remaining
<1>3. \A x \in text : x <= p \/ q <= x
      BY <1>1, <1>2 DEF Adjacent
<1>4. p \notin EventEnds(s, text) /\ q \notin EventEnds(s, text)
      BY <1>1 DEF Remaining
<1> HIDE DEF rest
<1>5. RunBefore(s, text, q) = RunBefore(s, text, p) \union {p}
  <2>1. ASSUME NEW r \in RunBefore(s, text, q), r # p
        PROVE  r \in RunBefore(s, text, p)
        BY <1>1, <1>3, <2>1 DEF RunBefore
  <2>2. ASSUME NEW r \in RunBefore(s, text, p)
        PROVE  r \in RunBefore(s, text, q)
    <3>1. r \in text /\ r < p /\ \A x \in text : r <= x /\ x < p => s[x] = "lf"
          BY DEF RunBefore
    <3>2. ASSUME NEW x \in text, r <= x, x < q PROVE s[x] = "lf"
      <4>1. x <= p
            BY <1>1, <1>3, <3>2
      <4>2. CASE x = p
            BY <4>2
      <4>3. CASE x < p
            BY <3>1, <3>2, <4>3
      <4> QED BY <1>1, <4>1, <4>2, <4>3
    <3> QED BY <1>1, <3>1, <3>2 DEF RunBefore
  <2>3. p \in RunBefore(s, text, q)
    <3>1. ASSUME NEW x \in text, p <= x, x < q PROVE s[x] = "lf"
      <4>1. x = p
            BY <1>1, <1>3, <3>1
      <4> QED BY <4>1
    <3> QED BY <1>1, <3>1 DEF RunBefore
  <2> QED BY <2>1, <2>2, <2>3
<1>6. RunBefore(s, text, p) \in SUBSET text /\ p \notin RunBefore(s, text, p)
      BY <1>1 DEF RunBefore
<1>7. /\ IsFiniteSet(RunBefore(s, text, p))
      /\ Cardinality(RunBefore(s, text, p)) \in Nat
      BY <1>6, FS_Subset, FS_CardinalityType
<1>8. Cardinality(RunBefore(s, text, q)) = Cardinality(RunBefore(s, text, p)) + 1
      BY <1>5, <1>6, <1>7, FS_AddElement
<1> DEFINE n == Cardinality(RunBefore(s, text, p))
           m == Cardinality(RunBefore(s, text, q))
<1>9. n % 2 # 1 /\ m % 2 # 1
      BY <1>1, <1>4 DEF EventEnds
<1>10. n \in Nat /\ m = n + 1
      BY <1>7, <1>8
<1> HIDE DEF n, m
<1> QED BY <1>9, <1>10

\* An event ends with an empty line of the stream.
LEMMA EndsEmpty ==
    ASSUME NEW s \in Seq(Symbols), NEW c \in 0..Len(s),
           NEW e \in EventEnds(s, Kept(s, c))
    PROVE  e \in EmptyLines(s) /\ e \in Kept(s, c)
<1> DEFINE run == RunBefore(s, Kept(s, c), e)
<1>1. e \in Kept(s, c) /\ s[e] = "lf" /\ Cardinality(run) % 2 = 1
      BY DEF EventEnds
<1>2. run # {}
  <2> SUFFICES ASSUME run = {} PROVE FALSE
      OBVIOUS
  <2>1. Cardinality(run) = 0
        BY FS_EmptySet
  <2> HIDE DEF run
  <2> QED BY <1>1, <2>1
<1>3. PICK r \in run : TRUE
      BY <1>2
<1>4. /\ r \in Kept(s, c) /\ r < e
      /\ \A x \in Kept(s, c) : r <= x /\ x < e => s[x] = "lf"
      BY <1>3 DEF RunBefore
<1> QED BY <1>1, <1>4, AdjacentEmpty

\* A set of positions has a last one, and a first one.
LEMMA LastPosition ==
    ASSUME NEW b \in Nat, NEW S \in SUBSET (0..b), S # {}
    PROVE  \E m \in S : \A x \in S : x <= m
<1> DEFINE f == [x \in S |-> x]
<1>1. f \in [S -> 0..b]
      OBVIOUS
<1> HIDE DEF f
<1>2. PICK m \in S : \A x \in S : f[x] <= f[m]
      BY <1>1, Greatest
<1> QED BY <1>2 DEF f

LEMMA FirstPosition ==
    ASSUME NEW b \in Nat, NEW S \in SUBSET (0..b), S # {}
    PROVE  \E m \in S : \A x \in S : m <= x
<1> DEFINE f == [x \in S |-> b - x]
<1>1. f \in [S -> 0..b]
      OBVIOUS
<1> HIDE DEF f
<1>2. PICK m \in S : \A x \in S : f[x] <= f[m]
      BY <1>1, Greatest
<1>3. ASSUME NEW x \in S PROVE m <= x
  <2>1. b - x <= b - m
        BY <1>2 DEF f
  <2> QED BY <2>1
<1> QED BY <1>3

\* A set of positions is finite.
LEMMA PositionsFinite ==
    ASSUME NEW b \in Nat, NEW S \in SUBSET (1..b)
    PROVE  IsFiniteSet(S) /\ Cardinality(S) \in Nat
<1>1. IsFiniteSet(1..b)
      BY FS_Interval
<1> QED BY <1>1, FS_Subset, FS_CardinalityType

\* A trimmed buffer is bounded, whatever it was.
LEMMA TrimmedBound ==
    ASSUME NEW b \in Nat, NEW text \in SUBSET (1..b)
    PROVE  /\ Trimmed(text) \in SUBSET text
           /\ Cardinality(Trimmed(text)) <= 2 * Keep
           /\ Cardinality(text) <= 2 * Keep => Trimmed(text) = text
<1>1. IsFiniteSet(text) /\ Cardinality(text) \in Nat
      BY PositionsFinite
<1>2. CASE ~(Cardinality(text) > 2 * Keep)
      BY <1>1, <1>2 DEF Trimmed
<1>3. CASE Cardinality(text) > 2 * Keep
  <2> DEFINE K == {p \in text : Cardinality({q \in text : p <= q}) <= Keep}
  <2>1. Trimmed(text) = K
        BY <1>3 DEF Trimmed
  <2>2. CASE K = {}
    <3>1. Cardinality(K) = 0
          BY <2>2, FS_EmptySet
    <3> HIDE DEF K
    <3> QED BY <1>1, <1>3, <2>1, <2>2, <3>1
  <2>3. CASE K # {}
    <3>1. \A x \in K : x \in text
          OBVIOUS
    <3> HIDE DEF K
    <3>8. ASSUME NEW x \in K PROVE x \in 0..b
      <4>1. x \in 1..b
            BY <3>1
      <4> QED BY <4>1
    <3>9. K \in SUBSET (0..b)
          BY <3>8
    <3>2. PICK m \in K : \A x \in K : m <= x
          BY <2>3, <3>9, FirstPosition
    <3> DEFINE last == {q \in text : m <= q}
    <3>3. Cardinality(last) <= Keep /\ last \in SUBSET text
          BY DEF K
    <3>4. K \in SUBSET last
          BY <3>2 DEF K
    <3> HIDE DEF last
    <3>5. IsFiniteSet(last) /\ Cardinality(last) \in Nat
          BY <1>1, <3>3, FS_Subset, FS_CardinalityType
    <3>6. /\ IsFiniteSet(K) /\ Cardinality(K) \in Nat
          /\ Cardinality(K) <= Cardinality(last)
          BY <3>4, <3>5, FS_Subset, FS_CardinalityType
    <3>7. Cardinality(K) <= 2 * Keep
          BY <3>3, <3>5, <3>6
    <3> QED BY <1>1, <1>3, <2>1, <3>1, <3>7
  <2> QED BY <2>2, <2>3
<1> QED BY <1>2, <1>3

\* The buffer is what follows an empty line, and has no complete event; the
\* identifiers before that line have been reported once and no others.
CaughtUp(s, text, counts, c) ==
    /\ text = Kept(s, c) /\ NoEvent(s, text)
    /\ counts = [p \in 1..MaxStream |-> IF p <= c /\ s[p] = "id" THEN 1 ELSE 0]

\* A chunk adds empty lines behind the old ones.
LEMMA EmptyGrow ==
    ASSUME NEW s \in Seq(Symbols), NEW t \in Seq(Symbols), Len(s) < Len(t),
           \A p \in 1..Len(s) : t[p] = s[p]
    PROVE  /\ EmptyLines(s) \subseteq EmptyLines(t)
           /\ \A e \in EmptyLines(t) : e <= Len(s) => e \in EmptyLines(s)
           /\ EventsFit(t) => EventsFit(s)
<1>1. Len(s) \in Nat /\ Len(t) \in Nat
      OBVIOUS
<1>2. ASSUME NEW e \in 2..Len(s) PROVE e \in EmptyLines(s) <=> e \in EmptyLines(t)
  <2>1. e \in 1..Len(s) /\ e - 1 \in 1..Len(s) /\ e \in 2..Len(t)
        BY <1>1
  <2>2. t[e] = s[e] /\ t[e - 1] = s[e - 1]
        BY <2>1
  <2>3. e # 2 => t[e - 2] = s[e - 2]
    <3>1. e # 2 => e - 2 \in 1..Len(s)
          BY <1>1
    <3> QED BY <3>1
  <2> QED BY <2>1, <2>2, <2>3 DEF EmptyLines
<1>3. \A e \in EmptyLines(s) : e \in 2..Len(s)
      BY DEF EmptyLines
<1>4. \A e \in EmptyLines(t) : e \in 2..Len(t) /\ (e <= Len(s) => e \in 2..Len(s))
      BY <1>1 DEF EmptyLines
<1>5. EmptyLines(s) \subseteq EmptyLines(t)
      BY <1>2, <1>3
<1>6. \A e \in EmptyLines(t) : e <= Len(s) => e \in EmptyLines(s)
      BY <1>2, <1>4
<1>7. ASSUME EventsFit(t) PROVE EventsFit(s)
  <2> SUFFICES ASSUME NEW p \in 1..Len(s)
               PROVE  \E q \in EmptyLines(s) \union {0} : q < p /\ p - q <= Keep
      BY DEF EventsFit
  <2>1. p \in 1..Len(t)
        BY <1>1
  <2>2. PICK q \in EmptyLines(t) \union {0} : q < p /\ p - q <= Keep
        BY <1>7, <2>1 DEF EventsFit
  <2>3. q \in EmptyLines(s) \union {0}
    <3>1. q # 0 => q \in 2..Len(t)
          BY <1>4, <2>2
    <3>2. q <= Len(s)
          BY <1>1, <2>2, <3>1
    <3> QED BY <1>6, <2>2, <3>2
  <2> QED BY <2>2, <2>3
<1> QED BY <1>5, <1>6, <1>7

\* Where events fit, no buffer is trimmed.
LEMMA NothingTrimmed ==
    ASSUME NEW s \in Seq(Symbols), NEW t \in Seq(Symbols), Len(s) < Len(t),
           Len(t) - Len(s) <= Keep, \A p \in 1..Len(s) : t[p] = s[p],
           EventsFit(t), NEW c \in 0..Len(s), NoEvent(s, Kept(s, c))
    PROVE  /\ Kept(t, c) \in SUBSET (1..Len(t))
           /\ Cardinality(Kept(t, c)) <= 2 * Keep
<1>1. Len(s) \in Nat /\ Len(t) \in Nat /\ Len(s) + 1 \in 1..Len(t)
      OBVIOUS
<1>2. PICK e \in EmptyLines(t) \union {0} :
          e < Len(s) + 1 /\ (Len(s) + 1) - e <= Keep
      BY <1>1 DEF EventsFit
<1>3. e \in 0..Len(s) /\ (e = 0 \/ e \in EmptyLines(s))
  <2>1. e = 0 \/ e \in 2..Len(t)
        BY <1>2 DEF EmptyLines
  <2>2. e <= Len(s)
        BY <1>1, <1>2, <2>1
  <2> QED BY <1>1, <1>2, <2>1, <2>2, EmptyGrow
<1>4. ASSUME NEW p \in Kept(t, c) PROVE p \in 1..Len(t) /\ p \in e..Len(t)
  <2>1. p \in (c + 1)..Len(t) /\ ~(t[p] = "cr" /\ p < Len(t) /\ t[p + 1] = "lf")
        BY DEF Kept
  <2>2. p \in 1..Len(t)
        BY <1>1, <2>1
  <2>3. CASE p <= Len(s)
    <3>1. p \in Kept(s, c)
      <4>1. p \in (c + 1)..Len(s)
            BY <1>1, <2>1, <2>3
      <4>2. ASSUME s[p] = "cr", p < Len(s), s[p + 1] = "lf" PROVE FALSE
        <5>1. p \in 1..Len(s) /\ p + 1 \in 1..Len(s)
              BY <1>1, <2>2, <4>2
        <5>2. t[p] = "cr" /\ t[p + 1] = "lf" /\ p < Len(t)
              BY <1>1, <4>2, <5>1
        <5> QED BY <2>1, <5>2
      <4> QED BY <4>1, <4>2 DEF Kept
    <3>2. e <= p
      <4>1. CASE e = 0
            BY <2>2, <4>1
      <4>2. CASE e \in EmptyLines(s)
            BY <3>1, <4>2, EmptyFirst
      <4> QED BY <1>3, <4>1, <4>2
    <3> QED BY <1>1, <1>3, <2>2, <3>2
  <2>4. CASE ~(p <= Len(s))
        BY <1>1, <1>3, <2>2, <2>4
  <2> QED BY <2>3, <2>4
<1>5. Kept(t, c) \in SUBSET (e..Len(t)) /\ Kept(t, c) \in SUBSET (1..Len(t))
      BY <1>4
<1>6. /\ IsFiniteSet(e..Len(t))
      /\ Cardinality(e..Len(t)) = Len(t) - e + 1
      BY <1>1, <1>3, FS_Interval
<1>7. Cardinality(Kept(t, c)) <= Len(t) - e + 1 /\ Cardinality(Kept(t, c)) \in Nat
      BY <1>5, <1>6, FS_Subset, FS_CardinalityType
<1>8. Len(t) - e + 1 <= 2 * Keep
      BY <1>1, <1>2, <1>3
<1> QED BY <1>1, <1>3, <1>5, <1>7, <1>8

\* The rest of what follows an empty line is what follows the last of its events.
LEMMA RemainingKept ==
    ASSUME NEW t \in Seq(Symbols), NEW c \in 0..Len(t), c = 0 \/ c \in EmptyLines(t)
    PROVE  \E d \in EmptyLines(t) \union {0} :
              d >= c /\ d <= Len(t) /\ Remaining(t, Kept(t, c)) = Kept(t, d)
<1> DEFINE text == Kept(t, c)
           ends == EventEnds(t, text)
<1>1. Len(t) \in Nat /\ c \in Nat
      OBVIOUS
<1>2. ends \subseteq text /\ text \subseteq (c + 1)..Len(t)
      BY DEF EventEnds, Kept
<1>3. CASE ends = {}
  <2>1. Remaining(t, text) = text
        BY <1>3 DEF Remaining
  <2> QED BY <1>1, <2>1
<1>4. CASE ends # {}
  <2>1. \A x \in ends : x \in 0..Len(t)
        BY <1>1, <1>2
  <2>2. ends \in SUBSET (0..Len(t))
        BY <2>1
  <2> HIDE DEF ends
  <2>3. PICK d \in ends : \A x \in ends : x <= d
        BY <1>1, <1>4, <2>2, LastPosition
  <2>4. d \in EmptyLines(t) /\ d \in text
        BY <2>3, EndsEmpty DEF ends
  <2>5. d \in (c + 1)..Len(t)
        BY <1>2, <2>4
  <2>6. \A p \in Nat : p \in Kept(t, d) <=> p \in text /\ d < p
        BY <1>1, <2>5 DEF Kept
  <2>7. ASSUME NEW p \in text PROVE p \in Remaining(t, text) <=> d < p
    <3>1. p \in Nat /\ \A x \in ends : x \in Nat
          BY <1>1, <1>2
    <3>2. \A x \in ends : d < p => x < p
          BY <2>3, <3>1
    <3> QED BY <2>3, <3>2 DEF Remaining, ends
  <2>8. \A p \in Kept(t, d) : p \in Nat
        BY <1>1, <2>5 DEF Kept
  <2>9. \A p \in text : p \in Nat
        BY <1>1, <1>2
  <2>10. Remaining(t, text) \subseteq text
         BY DEF Remaining
  <2>11. Remaining(t, text) = Kept(t, d)
         BY <2>6, <2>7, <2>8, <2>9, <2>10
  <2> QED BY <1>1, <2>4, <2>5, <2>11
<1> QED BY <1>3, <1>4

\* What feed makes of a buffer, a count and a stream with a new chunk.
Text(s, t, text) == Trimmed(Normalised(t, text \union (Len(s) + 1)..Len(t)))
Counts(t, text, counts) ==
    [p \in 1..MaxStream |->
        IF p \in text \ Remaining(t, text) /\ t[p] = "id" THEN counts[p] + 1 ELSE counts[p]]

\* feed keeps up with the stream.
LEMMA FeedCatchesUp ==
    ASSUME NEW s \in Seq(Symbols), NEW t \in Seq(Symbols), Len(s) < Len(t),
           Len(t) - Len(s) <= Keep, \A p \in 1..Len(s) : t[p] = s[p],
           WellFormed(t), EventsFit(t),
           NEW text, NEW counts, NEW c \in EmptyLines(s) \union {0},
           CaughtUp(s, text, counts, c)
    PROVE  \E d \in EmptyLines(t) \union {0} :
              CaughtUp(t, Remaining(t, Text(s, t, text)),
                       Counts(t, Text(s, t, text), counts), d)
<1>1. Len(s) \in Nat /\ Len(t) \in Nat
      OBVIOUS
<1>2. c \in 0..Len(s) /\ c \in 0..Len(t) /\ (c = 0 \/ c \in EmptyLines(t))
  <2>1. c \in 0..Len(s)
        BY <1>1 DEF EmptyLines
  <2> QED BY <1>1, <2>1, EmptyGrow
<1>3. text = Kept(s, c) /\ NoEvent(s, Kept(s, c))
      BY DEF CaughtUp
<1>4. Normalised(t, text \union (Len(s) + 1)..Len(t)) = Kept(t, c)
      BY <1>2, <1>3, NormalisedKept
<1>5. Kept(t, c) \in SUBSET (1..Len(t)) /\ Cardinality(Kept(t, c)) <= 2 * Keep
      BY <1>2, <1>3, NothingTrimmed
<1>6. Trimmed(Kept(t, c)) = Kept(t, c)
      BY <1>1, <1>5, TrimmedBound
<1>7. Text(s, t, text) = Kept(t, c)
      BY <1>4, <1>6 DEF Text
<1>8. PICK d \in EmptyLines(t) \union {0} :
          d >= c /\ d <= Len(t) /\ Remaining(t, Kept(t, c)) = Kept(t, d)
      BY <1>2, RemainingKept
<1>9. d \in Nat
      BY DEF EmptyLines
<1>10. NoEvent(t, Kept(t, d))
  <2>1. \A p \in Kept(t, c) : p \in Nat
        BY <1>1, <1>5
  <2>2. Kept(t, c) \in SUBSET Nat
        BY <2>1
  <2>3. IsFiniteSet(Kept(t, c))
        BY <1>1, <1>5, PositionsFinite
  <2>4. NoEvent(t, Remaining(t, Kept(t, c)))
        BY <2>2, <2>3, RemainingNoEvent
  <2> QED BY <1>8, <2>4
<1>11. Counts(t, Kept(t, c), counts)
          = [p \in 1..MaxStream |-> IF p <= d /\ t[p] = "id" THEN 1 ELSE 0]
  <2>1. ASSUME NEW p \in 1..MaxStream
        PROVE  (IF p \in Kept(t, c) \ Kept(t, d) /\ t[p] = "id"
                THEN counts[p] + 1 ELSE counts[p])
                  = IF p <= d /\ t[p] = "id" THEN 1 ELSE 0
    <3>1. counts[p] = IF p <= c /\ s[p] = "id" THEN 1 ELSE 0
          BY DEF CaughtUp
    <3>2. p <= c => s[p] = t[p] /\ p <= d /\ p \notin Kept(t, c)
          BY <1>1, <1>2, <1>8, <1>9 DEF Kept
    <3>3. ~(p <= c) /\ p <= d /\ t[p] = "id" => p \in Kept(t, c) \ Kept(t, d)
          BY <1>1, <1>2, <1>8, <1>9 DEF Kept
    <3>4. ~(p <= d) => p \notin Kept(t, c) \ Kept(t, d) /\ ~(p <= c)
          BY <1>1, <1>2, <1>8, <1>9 DEF Kept
    <3>5. CASE p <= c
          BY <3>1, <3>2, <3>5
    <3>6. CASE ~(p <= c) /\ p <= d
          BY <3>1, <3>3, <3>6
    <3>7. CASE ~(p <= d)
          BY <3>1, <3>4, <3>7
    <3> QED BY <3>5, <3>6, <3>7
  <2> QED BY <1>8, <2>1 DEF Counts
<1>12. CaughtUp(t, Kept(t, d), Counts(t, Kept(t, c), counts), d)
       BY <1>10, <1>11 DEF CaughtUp
<1> QED BY <1>7, <1>8, <1>12

ParserInv ==
    /\ ParserTypeOK
    /\ EventsFit(stream) =>
          \E c \in EmptyLines(stream) \union {0} : CaughtUp(stream, buffer, found, c)

\* Init: nothing has come.
LEMMA ParserStarts == ParserInit => ParserInv
<1> SUFFICES ASSUME ParserInit PROVE ParserInv
    OBVIOUS
<1>1. /\ stream \in Seq(Symbols) /\ Len(stream) = 0 /\ buffer = {}
      /\ found = [p \in 1..MaxStream |-> 0]
      BY DEF ParserInit
<1>2. Cardinality(buffer) <= 2 * Keep
  <2>1. Cardinality(buffer) = 0
        BY <1>1, FS_EmptySet
  <2> QED BY <2>1
<1>3. ParserTypeOK
      BY <1>1, <1>2 DEF ParserTypeOK
<1>4. Kept(stream, 0) = {}
      BY <1>1 DEF Kept
<1>5. CaughtUp(stream, buffer, found, 0)
      BY <1>1, <1>4 DEF CaughtUp, NoEvent
<1> QED BY <1>3, <1>5 DEF ParserInv

\* A chunk arrives.
LEMMA ArrivesStep ==
    ASSUME ParserInv, NEW k \in 1..Chunk, Arrives(k)
    PROVE  ParserInv'
<1>1. PICK chunk \in [1..k -> Symbols] :
          /\ WellFormed(stream \o chunk) /\ stream' = stream \o chunk
          /\ Feed(stream \o chunk)
      BY DEF Arrives
<1> DEFINE t == stream \o chunk
           text == Text(stream, t, buffer)
<1>2. chunk \in Seq(Symbols) /\ Len(chunk) = k
      OBVIOUS
<1>3. stream \in Seq(Symbols) /\ Len(stream) \in Nat
      BY DEF ParserInv, ParserTypeOK
<1>4. /\ t \in Seq(Symbols) /\ Len(t) = Len(stream) + k
      /\ \A p \in 1..Len(stream) : t[p] = stream[p]
      BY <1>2, <1>3, ConcatProperties
<1>5. /\ stream' = t /\ buffer' = Remaining(t, text)
      /\ found' = Counts(t, text, found)
      BY <1>1 DEF Feed, Text, Counts
<1>6. WellFormed(t) /\ Len(stream) + k <= MaxStream
      BY <1>1 DEF Arrives
<1> HIDE DEF t
<1>7. /\ Len(stream) < Len(t) /\ Len(t) - Len(stream) <= Keep
      /\ Len(t) <= MaxStream /\ Len(t) \in Nat
      BY <1>3, <1>4, <1>6
<1>8. /\ text \in SUBSET (1..Len(t))
      /\ Cardinality(text) <= 2 * Keep
  <2> DEFINE all == Normalised(t, buffer \union (Len(stream) + 1)..Len(t))
  <2>1. \A p \in buffer : p \in 1..Len(t)
        BY <1>3, <1>4 DEF ParserInv, ParserTypeOK
  <2>2. \A p \in all : p \in 1..Len(t)
        BY <1>3, <1>4, <2>1 DEF Normalised
  <2>3. all \in SUBSET (1..Len(t))
        BY <2>2
  <2>4. text = Trimmed(all)
        BY DEF Text
  <2> HIDE DEF all, text
  <2>5. Trimmed(all) \in SUBSET all /\ Cardinality(Trimmed(all)) <= 2 * Keep
        BY <1>7, <2>3, TrimmedBound
  <2> QED BY <2>3, <2>4, <2>5
<1> HIDE DEF text
<1>9. /\ buffer' \in SUBSET (1..Len(t))
      /\ Cardinality(buffer') <= 2 * Keep
  <2>1. Remaining(t, text) \in SUBSET text
        BY DEF Remaining
  <2>2. IsFiniteSet(text) /\ Cardinality(text) \in Nat
        BY <1>7, <1>8, PositionsFinite
  <2>3. /\ Cardinality(Remaining(t, text)) <= Cardinality(text)
        /\ Cardinality(Remaining(t, text)) \in Nat
        BY <2>1, <2>2, FS_Subset, FS_CardinalityType
  <2>4. Cardinality(Remaining(t, text)) <= 2 * Keep
        BY <1>8, <2>2, <2>3
  <2>5. Remaining(t, text) \in SUBSET (1..Len(t))
        BY <1>8, <2>1
  <2> QED BY <1>5, <2>4, <2>5
<1>10. found' \in [1..MaxStream -> Nat]
  <2>1. found \in [1..MaxStream -> Nat]
        BY DEF ParserInv, ParserTypeOK
  <2>2. Counts(t, text, found) \in [1..MaxStream -> Nat]
        BY <2>1 DEF Counts
  <2> QED BY <1>5, <2>2
<1>11. ParserTypeOK'
  <2>1. stream' \in Seq(Symbols) /\ Len(stream') = Len(t) /\ Len(stream') <= MaxStream
        BY <1>4, <1>5, <1>7
  <2>2. buffer' \subseteq 1..Len(stream')
        BY <1>9, <2>1
  <2> QED BY <1>9, <1>10, <2>1, <2>2 DEF ParserTypeOK
<1>12. ASSUME EventsFit(t)
       PROVE  \E d \in EmptyLines(t) \union {0} : CaughtUp(t, buffer', found', d)
  <2>1. EventsFit(stream)
        BY <1>3, <1>4, <1>7, <1>12, EmptyGrow
  <2>2. PICK c \in EmptyLines(stream) \union {0} : CaughtUp(stream, buffer, found, c)
        BY <2>1 DEF ParserInv
  <2>3. \E d \in EmptyLines(t) \union {0} :
           CaughtUp(t, Remaining(t, Text(stream, t, buffer)),
                    Counts(t, Text(stream, t, buffer), found), d)
        BY <1>3, <1>4, <1>6, <1>7, <1>12, <2>2, FeedCatchesUp
  <2> QED BY <1>5, <2>3 DEF text
<1>13. EventsFit(stream') =>
          \E c \in EmptyLines(stream') \union {0} : CaughtUp(stream', buffer', found', c)
       BY <1>5, <1>12
<1> QED BY <1>11, <1>13 DEF ParserInv

LEMMA ParserInvariant == ParserSpec => []ParserInv
<1>1. ParserInv /\ UNCHANGED parserVars => ParserInv'
      BY DEF ParserInv, ParserTypeOK, parserVars
<1>2. ParserInv /\ [ParserNext]_parserVars => ParserInv'
      BY <1>1, ArrivesStep DEF ParserNext
<1> QED BY <1>2, ParserStarts, PTL DEF ParserSpec

\* The buffer is bounded whatever the engine sends (router.py:85-86).
THEOREM ParserTypeCorrect == ParserSpec => []ParserTypeOK
<1>1. ParserInv => ParserTypeOK
      BY DEF ParserInv
<1> QED BY <1>1, ParserInvariant, PTL

\* The identifiers of complete events are reported once each, wherever the stream
\* is cut (router.py:79-92).
THEOREM EveryIdHolds == ParserSpec => []EveryIdFound
<1>1. ASSUME ParserInv PROVE EveryIdFound
  <2> SUFFICES ASSUME EventsFit(stream), NEW p \in 1..MaxStream
               PROVE  found[p] = IF /\ \E e \in EmptyLines(stream) : p < e
                                    /\ stream[p] = "id"
                                 THEN 1 ELSE 0
      BY DEF EveryIdFound
  <2>1. PICK c \in EmptyLines(stream) \union {0} : CaughtUp(stream, buffer, found, c)
        BY <1>1 DEF ParserInv
  <2>2. stream \in Seq(Symbols) /\ Len(stream) \in Nat
        BY <1>1 DEF ParserInv, ParserTypeOK
  <2>3. /\ found[p] = IF p <= c /\ stream[p] = "id" THEN 1 ELSE 0
        /\ NoEvent(stream, Kept(stream, c))
        BY <2>1 DEF CaughtUp
  <2>4. c \in 0..Len(stream) /\ (c # 0 => c \in EmptyLines(stream) /\ stream[c] = "lf")
        BY <2>2 DEF EmptyLines
  <2>5. ASSUME p <= c, stream[p] = "id"
        PROVE  \E e \in EmptyLines(stream) : p < e
        BY <2>4, <2>5
  <2>6. ASSUME NEW e \in EmptyLines(stream), p < e, stream[p] = "id", ~(p <= c)
        PROVE  FALSE
    <3>1. e \in 2..Len(stream)
          BY DEF EmptyLines
    <3>2. p \in (c + 1)..Len(stream)
          BY <2>2, <2>4, <2>6, <3>1
    <3>3. p \in Kept(stream, c)
          BY <2>6, <3>2 DEF Kept
    <3>4. e <= p
          BY <2>2, <2>3, <2>4, <3>3, EmptyFirst
    <3> QED BY <2>6, <3>1, <3>4
  <2> QED BY <2>3, <2>5, <2>6
<1> QED BY <1>1, ParserInvariant, PTL
=============================================================================
