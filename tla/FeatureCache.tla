----------------------------- MODULE FeatureCache -----------------------------
(***************************************************************************)
(* kv_cache for one client: the consumers of all topics and the handlers of *)
(* the API each read a group's rows, and write what they computed some time *)
(* later, with no lock and no version check in between.  Only expiry bounds *)
(* what an old value that overwrites a new one can do.                      *)
(*                                                                         *)
(* A value is known by what it misses: the age of the oldest row committed  *)
(* to its group's table after the value's rows were read.                   *)
(***************************************************************************)
EXTENDS Integers

CONSTANTS
    Groups,         \* feature groups, one per topic
    Consumers,      \* consumer processes
    OwnGroup,       \* OwnGroup[c]: the group of the topic that c consumes
    Requests,       \* goroutines of the API that serve a group of the client
    NoValue,        \* no entry, or nothing computed
    Ttl,            \* Ttl[g]: ttl_seconds in Postgres, and TTL in loader.go
    MaxDelay,       \* longest time from reading the rows to the write
    MaxSkew,        \* how far the clocks of a writer and of the API are apart
    MaxEvents       \* bound on the number of upserts

ASSUME CacheAssumption ==
    /\ OwnGroup \in [Consumers -> Groups]
    /\ Consumers \intersect Requests = {}
    /\ Ttl \in [Groups -> Nat \ {0}] /\ MaxDelay \in Nat /\ MaxSkew \in Nat /\ MaxEvents \in Nat

Workers == Consumers \union Requests

\* The longest a row committed to g may be missing from what is served.
Horizon(g) == Ttl[g] + MaxDelay + MaxSkew

Complete == -1          \* "misses nothing"
Expired  == -1
Misses   == Nat \union {Complete}

\* left is the time to expires_at on the API's clock.
Entry  == [miss : Misses, left : Nat \union {Expired}]
Value  == [group : Groups, miss : Misses, age : 0 .. MaxDelay]
Answer == [group : Groups, miss : Misses]

ASSUME NoValueAssumption == NoValue \notin Entry \union Value \union Answer

VARIABLES
    cache,          \* cache[g]: the row of kv_cache for the client and g
    todo,           \* todo[c]: groups c has yet to recompute for its batch
    value,          \* value[w]: what w has computed and not yet written
    served,         \* served[r]: what r is answering from the cache
    events

vars == <<cache, todo, value, served, events>>

TypeOK ==
    /\ cache \in [Groups -> Entry \union {NoValue}]
    /\ \A g \in Groups : cache[g] # NoValue => cache[g].left <= Ttl[g] + MaxSkew
    /\ todo \in [Consumers -> SUBSET Groups]
    /\ value \in [Workers -> Value \union {NoValue}]
    /\ served \in [Requests -> Answer \union {NoValue}]
    /\ events \in 0 .. MaxEvents

Init ==
    /\ cache = [g \in Groups |-> NoValue]
    /\ todo = [c \in Consumers |-> {}]
    /\ value = [w \in Workers |-> NoValue]
    /\ served = [r \in Requests |-> NoValue]
    /\ events = 0

-----------------------------------------------------------------------------
Missing(x) == IF x.miss = Complete THEN [x EXCEPT !.miss = 0] ELSE x

\* The rows of the client and group g as of now.
Read(w, g) == value' = [value EXCEPT ![w] = [group |-> g, miss |-> Complete, age |-> 0]]

\* expires_at was taken from the writer's clock between the read and now.
Expiries(v) ==
    {l \in 0 .. (Ttl[v.group] + MaxSkew) : l >= Ttl[v.group] - v.age - MaxSkew}

\* Variant: the new lifetime is added to what is left of the old one.
WriteAddsUp(w) ==
    LET v == value[w] IN
    cache' = [cache EXCEPT ![v.group] = [miss |-> v.miss,
                 left |-> Ttl[v.group] + (IF cache[v.group] = NoValue THEN 0 ELSE cache[v.group].left)]]

\* INSERT ... ON DUPLICATE KEY UPDATE of write_kv_cache and SetCache.
Write(w) ==
    LET v == value[w] IN
    \E l \in Expiries(v) : cache' = [cache EXCEPT ![v.group] = [miss |-> v.miss, left |-> l]]

-----------------------------------------------------------------------------
\* upsert_batch commits rows of the client: what was read before misses them.
Upsert(c) ==
    LET g == OwnGroup[c] IN
    /\ todo[c] = {} /\ events < MaxEvents
    /\ events' = events + 1
    /\ cache' = IF cache[g] = NoValue THEN cache ELSE [cache EXCEPT ![g] = Missing(@)]
    /\ value' = [w \in Workers |-> IF value[w] # NoValue /\ value[w].group = g
                                     THEN Missing(value[w]) ELSE value[w]]
    /\ todo' = [todo EXCEPT ![c] = Groups]
    /\ UNCHANGED served

\* compute_and_cache: every group, not only that of the topic.  Their order is
\* the operator's (feature_groups.priority).
Aggregate(c, g) ==
    /\ g \in todo[c] /\ value[c] = NoValue
    /\ Read(c, g)
    /\ UNCHANGED <<cache, todo, served, events>>

WriteKvCache(c) ==
    /\ value[c] # NoValue
    /\ Write(c)
    /\ todo' = [todo EXCEPT ![c] = @ \ {value[c].group}]
    /\ value' = [value EXCEPT ![c] = NoValue]
    /\ UNCHANGED <<served, events>>

\* A group without a query is passed over.  (The aggregations have no GROUP BY, so
\* that they always return a row.)
SkipGroup(c, g) ==
    /\ g \in todo[c] /\ value[c] = NoValue
    /\ todo' = [todo EXCEPT ![c] = @ \ {g}]
    /\ UNCHANGED <<cache, value, served, events>>

\* An exception ends the recompute of the batch, as does a crash.
RecomputeFails(c) ==
    /\ todo[c] # {}
    /\ todo' = [todo EXCEPT ![c] = {}]
    /\ value' = [value EXCEPT ![c] = NoValue]
    /\ UNCHANGED <<cache, served, events>>

-----------------------------------------------------------------------------
\* GetFromCache: a hit unless the row is missing or expired.
Valid(g) == cache[g] # NoValue /\ cache[g].left # Expired

Idle(r) == served[r] = NoValue /\ value[r] = NoValue

AnswerFromCache(r, g) == served' = [served EXCEPT ![r] = [group |-> g, miss |-> cache[g].miss]]

\* Variants: expires_at is not looked at; a hit extends the entry's life.
HitUnlessMissing(r, g) ==
    /\ Idle(r) /\ cache[g] # NoValue
    /\ AnswerFromCache(r, g)
    /\ UNCHANGED <<cache, todo, value, events>>

HitExtends(r, g) ==
    /\ Idle(r) /\ Valid(g)
    /\ AnswerFromCache(r, g)
    /\ cache' = [cache EXCEPT ![g].left = Ttl[g]]
    /\ UNCHANGED <<todo, value, events>>

Hit(r, g) ==
    /\ Idle(r) /\ Valid(g)
    /\ AnswerFromCache(r, g)
    /\ UNCHANGED <<cache, todo, value, events>>

\* A miss, or an error of the lookup, which counts as one: Compute reads the rows.
Compute(r, g) ==
    /\ Idle(r)
    /\ Read(r, g)
    /\ UNCHANGED <<cache, todo, served, events>>

\* SetCache; its error is only logged.  The computed value is the answer.
SetCache(r) ==
    /\ value[r] # NoValue
    /\ Write(r) \/ UNCHANGED cache
    /\ value' = [value EXCEPT ![r] = NoValue]
    /\ UNCHANGED <<todo, served, events>>

Respond(r) ==
    /\ served[r] # NoValue
    /\ served' = [served EXCEPT ![r] = NoValue]
    /\ UNCHANGED <<cache, todo, value, events>>

\* DELETE /v1/risk-profile/:client_id/cache
InvalidateCache ==
    /\ cache' = [g \in Groups |-> NoValue]
    /\ UNCHANGED <<todo, value, served, events>>

-----------------------------------------------------------------------------
\* Ages stop counting beyond the horizon.
Older(g, m) == IF m = Complete \/ m > Horizon(g) THEN m ELSE m + 1

Tick ==
    /\ \A w \in Workers : value[w] # NoValue => value[w].age < MaxDelay
    /\ cache' = [g \in Groups |->
          IF cache[g] = NoValue THEN NoValue
          ELSE [miss |-> Older(g, cache[g].miss),
                left |-> IF cache[g].left = Expired THEN Expired ELSE cache[g].left - 1]]
    /\ value' = [w \in Workers |->
          IF value[w] = NoValue THEN NoValue
          ELSE [value[w] EXCEPT !.miss = Older(value[w].group, @), !.age = @ + 1]]
    /\ UNCHANGED <<todo, served, events>>

Consume(c) == \/ \E g \in Groups : Aggregate(c, g) \/ SkipGroup(c, g)
              \/ WriteKvCache(c) \/ RecomputeFails(c)

Serve(r) == SetCache(r) \/ Respond(r)

Next == \/ \E c \in Consumers : Upsert(c) \/ Consume(c)
        \/ \E r \in Requests : Serve(r) \/ \E g \in Groups : Hit(r, g) \/ Compute(r, g)
        \/ InvalidateCache \/ Tick

Spec == Init /\ [][Next]_vars

\* Time passes, and what was begun is finished.
FairSpec == /\ Spec /\ WF_vars(Tick)
            /\ \A c \in Consumers : WF_vars(Consume(c))
            /\ \A r \in Requests : WF_vars(Serve(r))

-----------------------------------------------------------------------------
\* README.md gives every group a TTL: a row is reflected in whatever is served from
\* the cache once TTL, the longest recompute and the clock skew have passed, in
\* spite of old values that overwrite new ones.
FreshWithinHorizon ==
    \A r \in Requests : served[r] # NoValue => served[r].miss <= Horizon(served[r].group)

\* What the bound rests on: an entry that misses a row expires in time.
ExpiresInTime ==
    /\ \A g \in Groups : Valid(g) => cache[g].miss + cache[g].left <= Horizon(g)
    /\ \A w \in Workers : value[w] # NoValue => value[w].miss <= value[w].age

\* When no more rows arrive, nothing old is served from the cache in the end.
EventuallyFresh ==
    <>[](\A g \in Groups : Valid(g) => cache[g].miss = Complete)

=============================================================================
