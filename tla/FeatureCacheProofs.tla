-------------------------- MODULE FeatureCacheProofs --------------------------
(***************************************************************************)
(* For any set of groups, consumers and requests, any TTLs, delay and clock *)
(* skew: what the API serves from kv_cache misses no row for longer than    *)
(* the horizon.  ExpiresInTime is the reason, and what is inductive.        *)
(***************************************************************************)
EXTENDS FeatureCache, TLAPS

IInv == TypeOK /\ ExpiresInTime /\ FreshWithinHorizon

\* The halves of IInv that speak of the entries and of the values on their way.
CacheInv ==
    /\ cache \in [Groups -> Entry \union {NoValue}]
    /\ \A g \in Groups : cache[g] # NoValue => cache[g].left <= Ttl[g] + MaxSkew
    /\ \A g \in Groups : Valid(g) => cache[g].miss + cache[g].left <= Horizon(g)

ValueInv ==
    /\ value \in [Workers -> Value \union {NoValue}]
    /\ \A w \in Workers : value[w] # NoValue => value[w].miss <= value[w].age

ServedInv ==
    /\ served \in [Requests -> Answer \union {NoValue}]
    /\ FreshWithinHorizon

RestInv == todo \in [Consumers -> SUBSET Groups] /\ events \in 0 .. MaxEvents

\* The invariant falls into the parts that a step disturbs separately.
LEMMA Parts == IInv <=> CacheInv /\ ValueInv /\ ServedInv /\ RestInv
  BY DEF IInv, TypeOK, ExpiresInTime, CacheInv, ValueInv, ServedInv, RestInv

\* The same of the next state.
LEMMA PartsNext == CacheInv' /\ ValueInv' /\ ServedInv' /\ RestInv' => IInv'
  BY DEF IInv, TypeOK, ExpiresInTime, CacheInv, ValueInv, ServedInv, RestInv

\* The horizon of a group is a number that covers its TTL, delay and skew.
LEMMA HorizonIsNat ==
    ASSUME NEW g \in Groups
    PROVE  /\ Horizon(g) \in Nat
           /\ Ttl[g] \in Nat /\ MaxDelay \in Nat /\ MaxSkew \in Nat
           /\ Horizon(g) = Ttl[g] + MaxDelay + MaxSkew
  BY CacheAssumption DEF Horizon

\* No entry, value or answer is taken for an absent one.
LEMMA RecordsAreValues ==
    /\ NoValue \notin Entry /\ NoValue \notin Value /\ NoValue \notin Answer
  BY NoValueAssumption

\* The initial state satisfies the invariant.
LEMMA InitStep == Init => IInv
<1> SUFFICES ASSUME Init PROVE IInv OBVIOUS
<1>1. CacheInv BY DEF Init, CacheInv, Valid
<1>2. ValueInv BY DEF Init, ValueInv
<1>3. ServedInv BY DEF Init, ServedInv, FreshWithinHorizon
<1>4. RestInv BY CacheAssumption DEF Init, RestInv
<1> QED BY <1>1, <1>2, <1>3, <1>4, Parts

\* A write that lands within the delay keeps the entries in order, however old the
\* value is: INSERT ... ON DUPLICATE KEY UPDATE of write_kv_cache and SetCache.
LEMMA WriteKeeps ==
    ASSUME CacheInv, ValueInv, NEW w \in Workers, value[w] # NoValue, Write(w)
    PROVE  CacheInv'
<1> DEFINE v == value[w]
<1>1. v \in Value /\ v.miss <= v.age BY DEF ValueInv
<1>2. v.group \in Groups /\ v.miss \in Misses /\ v.age \in 0 .. MaxDelay
      BY <1>1 DEF Value
<1>3. PICK l \in Expiries(v) :
          cache' = [cache EXCEPT ![v.group] = [miss |-> v.miss, left |-> l]]
      BY DEF Write
<1>4. Ttl[v.group] \in Nat /\ MaxSkew \in Nat /\ MaxDelay \in Nat
      BY <1>2, HorizonIsNat
<1>5. l \in Nat /\ l <= Ttl[v.group] + MaxSkew BY <1>3, <1>4 DEF Expiries
<1>6. v.miss + l <= Horizon(v.group)
  <2>1. v.miss \in Int /\ v.age \in Int /\ v.age <= MaxDelay
        BY <1>2, <1>4 DEF Misses, Complete
  <2> QED BY <1>1, <1>2, <1>4, <1>5, <2>1, HorizonIsNat
<1>7. [miss |-> v.miss, left |-> l] \in Entry BY <1>2, <1>5 DEF Entry
<1> QED
  <2> DEFINE e == [miss |-> v.miss, left |-> l]
  <2>1. cache' \in [Groups -> Entry \union {NoValue}]
        BY <1>2, <1>3, <1>7 DEF CacheInv
  <2>2. \A g \in Groups : cache'[g] = IF g = v.group THEN e ELSE cache[g]
        BY <1>2, <1>3 DEF CacheInv
  <2>3. e.left = l /\ e.miss = v.miss OBVIOUS
  <2>4. ASSUME NEW g \in Groups, cache'[g] # NoValue
        PROVE  cache'[g].left <= Ttl[g] + MaxSkew
    <3>1. CASE g = v.group BY <1>5, <2>2, <2>3, <3>1
    <3>2. CASE g # v.group BY <2>2, <2>4, <3>2 DEF CacheInv
    <3> QED BY <3>1, <3>2
  <2>5. ASSUME NEW g \in Groups, Valid(g)'
        PROVE  cache'[g].miss + cache'[g].left <= Horizon(g)
    <3>1. CASE g = v.group BY <1>6, <2>2, <2>3, <3>1
    <3>2. CASE g # v.group BY <2>2, <2>5, <3>2 DEF CacheInv, Valid
    <3> QED BY <3>1, <3>2
  <2> QED BY <2>1, <2>4, <2>5 DEF CacheInv, Horizon

\* A read yields a value that misses nothing.
LEMMA ReadKeeps ==
    ASSUME ValueInv, NEW w \in Workers, NEW g \in Groups, Read(w, g)
    PROVE  ValueInv'
<1> DEFINE v == [group |-> g, miss |-> Complete, age |-> 0]
<1>1. v \in Value BY CacheAssumption DEF Value, Misses
<1>2. v.miss <= v.age BY DEF Complete
<1> QED BY <1>1, <1>2 DEF Read, ValueInv

\* Forgetting what a worker computed leaves the others alone.
LEMMA ForgetKeeps ==
    ASSUME ValueInv, NEW w \in Workers, value' = [value EXCEPT ![w] = NoValue]
    PROVE  ValueInv'
  BY DEF ValueInv

\* New rows: what was complete misses them from now on, and for no time yet.
LEMMA UpsertStep ==
    ASSUME IInv, NEW c \in Consumers, Upsert(c)
    PROVE  IInv'
<1> DEFINE g0 == OwnGroup[c]
<1> USE Parts
<1>0. g0 \in Groups BY CacheAssumption
<1>1. ASSUME NEW e \in Entry
      PROVE  /\ Missing(e) \in Entry /\ Missing(e).left = e.left
             /\ e.miss # Complete => Missing(e) = e
             /\ e.miss = Complete => Missing(e).miss = 0
      BY DEF Missing, Entry, Misses
<1>2. ASSUME NEW v \in Value
      PROVE  /\ Missing(v) \in Value /\ Missing(v).age = v.age
             /\ v.miss # Complete => Missing(v) = v
             /\ v.miss = Complete => Missing(v).miss = 0
      BY DEF Missing, Value, Misses
<1>3. CacheInv'
  <2>1. CASE cache[g0] = NoValue
    <3>1. cache' = cache BY <2>1 DEF Upsert
    <3> QED BY <3>1 DEF CacheInv, Valid, Horizon
  <2>2. CASE cache[g0] # NoValue
    <3>1. cache' = [cache EXCEPT ![g0] = Missing(cache[g0])] BY <2>2 DEF Upsert
    <3>2. cache[g0] \in Entry BY <1>0, <2>2 DEF CacheInv
    <3>3. cache' \in [Groups -> Entry \union {NoValue}]
          BY <1>0, <1>1, <3>1, <3>2 DEF CacheInv
    <3>4. \A g \in Groups : cache'[g] = IF g = g0 THEN Missing(cache[g0]) ELSE cache[g]
          BY <1>0, <3>1 DEF CacheInv
    <3>5. ASSUME NEW g \in Groups, cache'[g] # NoValue
          PROVE  cache'[g].left <= Ttl[g] + MaxSkew
      <4>1. CASE g = g0 BY <1>1, <2>2, <3>2, <3>4, <4>1 DEF CacheInv
      <4>2. CASE g # g0 BY <3>4, <3>5, <4>2 DEF CacheInv
      <4> QED BY <4>1, <4>2
    <3>6. ASSUME NEW g \in Groups, Valid(g)'
          PROVE  cache'[g].miss + cache'[g].left <= Horizon(g)
      <4>1. CASE g # g0 BY <3>4, <3>6, <4>1 DEF CacheInv, Valid
      <4>2. CASE g = g0
        <5>1. cache'[g0].left = cache[g0].left BY <1>0, <1>1, <3>2, <3>4
        <5>2. Valid(g0) BY <2>2, <3>6, <4>2, <5>1 DEF Valid
        <5>3. cache[g0].left \in Nat BY <3>2, <5>2 DEF Valid, Entry
        <5>4. cache[g0].left <= Ttl[g0] + MaxSkew BY <1>0, <2>2 DEF CacheInv
        <5>5. CASE cache[g0].miss = Complete
          <6>1. cache'[g0].miss = 0 BY <1>0, <1>1, <3>2, <3>4, <5>5
          <6> QED BY <1>0, <4>2, <5>1, <5>3, <5>4, <6>1, HorizonIsNat
        <5>6. CASE cache[g0].miss # Complete
              BY <1>0, <1>1, <3>2, <3>4, <4>2, <5>2, <5>6 DEF CacheInv
        <5> QED BY <5>5, <5>6
      <4> QED BY <4>1, <4>2
    <3> QED BY <3>3, <3>5, <3>6 DEF CacheInv, Horizon
  <2> QED BY <2>1, <2>2
<1>4. ValueInv'
  <2>1. \A w \in Workers : value'[w] = IF value[w] # NoValue /\ value[w].group = g0
                                         THEN Missing(value[w]) ELSE value[w]
        BY DEF Upsert
  <2>2. \A w \in Workers : value[w] # NoValue => value[w] \in Value BY DEF ValueInv
  <2>3. \A w \in Workers : value'[w] \in Value \union {NoValue}
        BY <1>2, <2>1, <2>2
  <2>4. value' \in [Workers -> Value \union {NoValue}] BY <2>3 DEF Upsert
  <2>5. ASSUME NEW w \in Workers, value'[w] # NoValue
        PROVE  value'[w].miss <= value'[w].age
    <3>1. value[w] # NoValue /\ value[w] \in Value BY <2>1, <2>2, <2>5
    <3>2. value[w].miss <= value[w].age BY <3>1 DEF ValueInv
    <3>3. value[w].age \in 0 .. MaxDelay BY <3>1 DEF Value
    <3>4. value[w].age \in Nat BY <3>3, CacheAssumption
    <3> QED BY <1>2, <2>1, <3>1, <3>2, <3>4
  <2> QED BY <2>4, <2>5 DEF ValueInv
<1>5. ServedInv' BY DEF Upsert, ServedInv, FreshWithinHorizon, Horizon
<1>6. RestInv' BY CacheAssumption DEF Upsert, RestInv
<1> QED BY <1>3, <1>4, <1>5, <1>6, PartsNext

\* Time passes: an entry ages as fast as its lifetime shrinks.
LEMMA TickStep == IInv /\ Tick => IInv'
<1> SUFFICES ASSUME IInv, Tick PROVE IInv' OBVIOUS
<1> USE Parts
<1>1. CacheInv'
  <2>1. ASSUME NEW g \in Groups, cache[g] # NoValue
        PROVE  /\ cache'[g] \in Entry
               /\ cache'[g].left <= Ttl[g] + MaxSkew
               /\ cache'[g].left # Expired =>
                     cache'[g].miss + cache'[g].left <= Horizon(g)
    <3> DEFINE e == cache[g]
    <3>1. e \in Entry BY <2>1 DEF CacheInv
    <3>2. e.miss \in Misses /\ e.left \in Nat \union {Expired} BY <3>1 DEF Entry
    <3>3. /\ cache'[g] = [miss |-> Older(g, e.miss),
                         left |-> IF e.left = Expired THEN Expired ELSE e.left - 1]
          BY <2>1 DEF Tick
    <3>4. /\ cache'[g].miss = Older(g, e.miss)
          /\ cache'[g].left = IF e.left = Expired THEN Expired ELSE e.left - 1
          BY <3>3
    <3>5. Older(g, e.miss) \in Misses BY <3>2, HorizonIsNat DEF Older, Misses, Complete
    <3>6. cache'[g].left \in Nat \union {Expired} BY <3>2, <3>4 DEF Expired
    <3>7. cache'[g] \in Entry BY <3>3, <3>4, <3>5, <3>6 DEF Entry
    <3>8. cache'[g].left <= Ttl[g] + MaxSkew
      <4>1. e.left <= Ttl[g] + MaxSkew BY <2>1 DEF CacheInv
      <4> QED BY <3>2, <3>4, <4>1, HorizonIsNat DEF Expired
    <3>9. ASSUME cache'[g].left # Expired
          PROVE  cache'[g].miss + cache'[g].left <= Horizon(g)
      <4>1. e.left \in Nat /\ cache'[g].left = e.left - 1 BY <3>2, <3>4, <3>9
      <4>2. e.miss + e.left <= Horizon(g) BY <2>1, <4>1 DEF CacheInv, Valid, Expired
      <4>3. cache'[g].miss <= e.miss + 1 BY <3>2, <3>4 DEF Older, Misses, Complete
      <4>4. cache'[g].miss \in Int /\ e.miss \in Int
            BY <3>2, <3>4, <3>5 DEF Misses, Complete
      <4> QED BY <4>1, <4>2, <4>3, <4>4, HorizonIsNat
    <3> QED BY <3>7, <3>8, <3>9
  <2>2. \A g \in Groups : cache[g] = NoValue => cache'[g] = NoValue BY DEF Tick
  <2>3. cache' \in [Groups -> Entry \union {NoValue}] BY <2>1, <2>2 DEF Tick
  <2> QED BY <2>1, <2>2, <2>3 DEF CacheInv, Valid, Horizon
<1>2. ValueInv'
  <2>1. ASSUME NEW w \in Workers, value[w] # NoValue
        PROVE  value'[w] \in Value /\ value'[w].miss <= value'[w].age
    <3> DEFINE v == value[w]
    <3>1. v \in Value /\ v.miss <= v.age BY <2>1 DEF ValueInv
    <3>2. v.group \in Groups /\ v.miss \in Misses /\ v.age \in 0 .. MaxDelay
          BY <3>1 DEF Value
    <3>3. value'[w] = [v EXCEPT !.miss = Older(v.group, v.miss), !.age = v.age + 1]
          BY <2>1 DEF Tick
    <3>4. value'[w] = [group |-> v.group, miss |-> Older(v.group, v.miss),
                       age |-> v.age + 1]
          BY <3>1, <3>3 DEF Value
    <3>5. Older(v.group, v.miss) \in Misses
          BY <3>2, HorizonIsNat DEF Older, Misses, Complete
    <3>6. v.age + 1 \in 0 .. MaxDelay
      <4>1. v.age < MaxDelay BY <2>1 DEF Tick
      <4> QED BY <3>2, <4>1, CacheAssumption
    <3>7. value'[w] \in Value BY <3>2, <3>4, <3>5, <3>6 DEF Value
    <3>8. v.miss \in Int /\ v.age \in Nat
          BY <3>2, CacheAssumption DEF Misses, Complete
    <3>9. Older(v.group, v.miss) <= v.age + 1 BY <3>1, <3>8 DEF Older, Complete
    <3> QED BY <3>4, <3>7, <3>9
  <2>2. \A w \in Workers : value[w] = NoValue => value'[w] = NoValue BY DEF Tick
  <2>3. value' \in [Workers -> Value \union {NoValue}] BY <2>1, <2>2 DEF Tick
  <2> QED BY <2>1, <2>2, <2>3 DEF ValueInv
<1>3. ServedInv' BY DEF Tick, ServedInv, FreshWithinHorizon, Horizon
<1>4. RestInv' BY DEF Tick, RestInv
<1> QED BY <1>1, <1>2, <1>3, <1>4, PartsNext

\* The remaining steps of a consumer: each leaves the requests alone.
LEMMA ConsumeStep ==
    ASSUME IInv, NEW c \in Consumers, Consume(c)
    PROVE  IInv'
<1> USE Parts
<1>0. c \in Workers BY DEF Workers
<1>1. ASSUME NEW g \in Groups, Aggregate(c, g) PROVE IInv'
  <2>1. ValueInv' BY <1>0, <1>1, ReadKeeps DEF Aggregate
  <2>2. CacheInv' BY <1>1 DEF Aggregate, CacheInv, Valid, Horizon
  <2>3. ServedInv' /\ RestInv'
        BY <1>1 DEF Aggregate, ServedInv, RestInv, FreshWithinHorizon, Horizon
  <2> QED BY <2>1, <2>2, <2>3, PartsNext
<1>2. ASSUME NEW g \in Groups, SkipGroup(c, g) PROVE IInv'
  <2>1. CacheInv' /\ ValueInv'
        BY <1>2 DEF SkipGroup, CacheInv, Valid, Horizon, ValueInv
  <2>2. ServedInv' BY <1>2 DEF SkipGroup, ServedInv, FreshWithinHorizon, Horizon
  <2>3. RestInv' BY <1>2 DEF SkipGroup, RestInv
  <2> QED BY <2>1, <2>2, <2>3, PartsNext
<1>3. ASSUME WriteKvCache(c) PROVE IInv'
  <2>1. CacheInv' BY <1>0, <1>3, WriteKeeps DEF WriteKvCache
  <2>2. ValueInv' BY <1>0, <1>3, ForgetKeeps DEF WriteKvCache
  <2>3. ServedInv' BY <1>3 DEF WriteKvCache, ServedInv, FreshWithinHorizon, Horizon
  <2>4. RestInv' BY <1>3 DEF WriteKvCache, RestInv
  <2> QED BY <2>1, <2>2, <2>3, <2>4, PartsNext
<1>4. ASSUME RecomputeFails(c) PROVE IInv'
  <2>1. ValueInv' BY <1>0, <1>4, ForgetKeeps DEF RecomputeFails
  <2>2. CacheInv' BY <1>4 DEF RecomputeFails, CacheInv, Valid, Horizon
  <2>3. ServedInv' BY <1>4 DEF RecomputeFails, ServedInv, FreshWithinHorizon, Horizon
  <2>4. RestInv' BY <1>4 DEF RecomputeFails, RestInv
  <2> QED BY <2>1, <2>2, <2>3, <2>4, PartsNext
<1> QED BY <1>1, <1>2, <1>3, <1>4 DEF Consume

\* The steps of a request.  A hit is served from a valid entry, whose remaining
\* lifetime bounds what it can miss.
LEMMA RequestStep ==
    ASSUME IInv, NEW r \in Requests,
           Serve(r) \/ \E g \in Groups : Hit(r, g) \/ Compute(r, g)
    PROVE  IInv'
<1> USE Parts
<1>0. r \in Workers BY DEF Workers
<1>1. ASSUME SetCache(r) PROVE IInv'
  <2>1. CacheInv'
    <3>1. CASE Write(r) BY <1>0, <1>1, <3>1, WriteKeeps DEF SetCache
    <3>2. CASE UNCHANGED cache BY <3>2 DEF CacheInv, Valid, Horizon
    <3> QED BY <1>1, <3>1, <3>2 DEF SetCache
  <2>2. ValueInv' BY <1>0, <1>1, ForgetKeeps DEF SetCache
  <2>3. ServedInv' BY <1>1 DEF SetCache, ServedInv, FreshWithinHorizon, Horizon
  <2>4. RestInv' BY <1>1 DEF SetCache, RestInv
  <2> QED BY <2>1, <2>2, <2>3, <2>4, PartsNext
<1>2. ASSUME Respond(r) PROVE IInv'
  <2>1. CacheInv' /\ ValueInv'
        BY <1>2 DEF Respond, CacheInv, Valid, Horizon, ValueInv
  <2>2. ServedInv' BY <1>2 DEF Respond, ServedInv, FreshWithinHorizon, Horizon
  <2>3. RestInv' BY <1>2 DEF Respond, RestInv
  <2> QED BY <2>1, <2>2, <2>3, PartsNext
<1>3. ASSUME NEW g \in Groups, Hit(r, g) PROVE IInv'
  <2>1. CacheInv' /\ ValueInv'
        BY <1>3 DEF Hit, CacheInv, Valid, Horizon, ValueInv
  <2>2. RestInv' BY <1>3 DEF Hit, RestInv
  <2>3. ServedInv'
    <3>1. cache[g] \in Entry /\ cache[g].left # Expired
          BY <1>3 DEF Hit, Valid, CacheInv
    <3>2. cache[g].miss \in Misses /\ cache[g].left \in Nat BY <3>1 DEF Entry
    <3>3. cache[g].miss + cache[g].left <= Horizon(g) BY <1>3 DEF Hit, CacheInv
    <3>4. cache[g].miss <= Horizon(g)
          BY <3>2, <3>3, HorizonIsNat DEF Misses, Complete
    <3> DEFINE a == [group |-> g, miss |-> cache[g].miss]
    <3>5. a \in Answer /\ a.miss <= Horizon(a.group) BY <3>2, <3>4 DEF Answer
    <3>6. served' = [served EXCEPT ![r] = a] BY <1>3 DEF Hit, AnswerFromCache
    <3> HIDE DEF a
    <3>7. served' \in [Requests -> Answer \union {NoValue}]
          BY <3>5, <3>6 DEF ServedInv
    <3>8. \A q \in Requests : served'[q] = IF q = r THEN a ELSE served[q]
          BY <3>6 DEF ServedInv
    <3>9. \A q \in Requests : served'[q] # NoValue
                                => served'[q].miss <= Horizon(served'[q].group)
          BY <3>5, <3>8 DEF ServedInv, FreshWithinHorizon
    <3> QED BY <3>7, <3>9 DEF ServedInv, FreshWithinHorizon, Horizon
  <2> QED BY <2>1, <2>2, <2>3, PartsNext
<1>4. ASSUME NEW g \in Groups, Compute(r, g) PROVE IInv'
  <2>1. ValueInv' BY <1>0, <1>4, ReadKeeps DEF Compute
  <2>2. CacheInv' BY <1>4 DEF Compute, CacheInv, Valid, Horizon
  <2>3. ServedInv' BY <1>4 DEF Compute, ServedInv, FreshWithinHorizon, Horizon
  <2>4. RestInv' BY <1>4 DEF Compute, RestInv
  <2> QED BY <2>1, <2>2, <2>3, <2>4, PartsNext
<1> QED BY <1>1, <1>2, <1>3, <1>4 DEF Serve

\* DELETE leaves nothing that could be out of date.
LEMMA InvalidateStep == IInv /\ InvalidateCache => IInv'
<1> SUFFICES ASSUME IInv, InvalidateCache PROVE IInv' OBVIOUS
<1> USE Parts
<1>1. CacheInv' BY DEF InvalidateCache, CacheInv, Valid
<1>2. ValueInv' BY DEF InvalidateCache, ValueInv
<1>3. ServedInv' BY DEF InvalidateCache, ServedInv, FreshWithinHorizon, Horizon
<1>4. RestInv' BY DEF InvalidateCache, RestInv
<1> QED BY <1>1, <1>2, <1>3, <1>4, PartsNext

\* Every step of the specification keeps the invariant.
LEMMA NextStep == IInv /\ [Next]_vars => IInv'
<1> SUFFICES ASSUME IInv, [Next]_vars PROVE IInv' OBVIOUS
<1>1. CASE UNCHANGED vars
  <2> USE Parts, <1>1 DEF vars
  <2>1. CacheInv' /\ ValueInv' BY DEF CacheInv, Valid, Horizon, ValueInv
  <2>2. ServedInv' /\ RestInv' BY DEF ServedInv, FreshWithinHorizon, Horizon, RestInv
  <2> QED BY <2>1, <2>2, PartsNext
<1>2. ASSUME NEW c \in Consumers, Upsert(c) PROVE IInv' BY <1>2, UpsertStep
<1>3. ASSUME NEW c \in Consumers, Consume(c) PROVE IInv' BY <1>3, ConsumeStep
<1>4. ASSUME NEW r \in Requests,
             Serve(r) \/ \E g \in Groups : Hit(r, g) \/ Compute(r, g)
      PROVE  IInv'
      BY <1>4, RequestStep
<1>5. CASE InvalidateCache BY <1>5, InvalidateStep
<1>6. CASE Tick BY <1>6, TickStep
<1> QED BY <1>1, <1>2, <1>3, <1>4, <1>5, <1>6 DEF Next

-----------------------------------------------------------------------------
\* Entries that miss a row expire in time, whoever writes them, whatever was
\* computed when and however the writers' clocks differ within the skew.
THEOREM EntriesExpireInTime == Spec => []ExpiresInTime
<1>1. Spec => []IInv BY InitStep, NextStep, PTL DEF Spec
<1>2. IInv => ExpiresInTime BY DEF IInv
<1> QED BY <1>1, <1>2, PTL

\* Nothing served from the cache misses a row for longer than TTL, delay and skew
\* together: GetFromCache, whatever the races between SetCache and write_kv_cache.
THEOREM ServedIsFresh == Spec => []FreshWithinHorizon
<1>1. Spec => []IInv BY InitStep, NextStep, PTL DEF Spec
<1>2. IInv => FreshWithinHorizon BY DEF IInv
<1> QED BY <1>1, <1>2, PTL

\* The variables of the cache model keep their types.
THEOREM CacheTypeCorrect == Spec => []TypeOK
<1>1. Spec => []IInv BY InitStep, NextStep, PTL DEF Spec
<1>2. IInv => TypeOK BY DEF IInv
<1> QED BY <1>1, <1>2, PTL

=============================================================================
