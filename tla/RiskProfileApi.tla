---------------------------- MODULE RiskProfileApi ----------------------------
(***************************************************************************)
(* GetRiskProfile and GetFeatureGroup: a request looks up, computes and      *)
(* caches its groups, one goroutine each, on the connections of a bounded    *)
(* database/sql pool, and answers when the WaitGroup is at zero.             *)
(*                                                                         *)
(* A goroutine asks for a connection up to three times and gives it back in  *)
(* between.  What the cache holds is FeatureCache's matter: a lookup hits,   *)
(* misses or fails.                                                         *)
(***************************************************************************)
EXTENDS Integers, FiniteSets

CONSTANTS
    Requests,       \* handlers that run at the same time; each serves again and again
    Groups,         \* features.Groups
    Wanted,         \* Wanted[r]: Groups for GetRiskProfile, one for GetFeatureGroup,
                    \* none if GetFeatureGroup is asked for an unknown group
    MaxConns,       \* TIDB_MAX_CONNS
    NoAnswer

ASSUME ApiAssumption ==
    /\ IsFiniteSet(Requests) /\ IsFiniteSet(Groups)
    /\ Wanted \in [Requests -> SUBSET Groups]
    /\ MaxConns \in Nat \ {0}

VARIABLES
    busy,           \* requests being served
    gone,           \* requests whose client has closed the connection
    wg,             \* wg[r]: the counter of the WaitGroup
    pc,             \* pc[r][g]: where the goroutine of g is
    results,        \* results[r]: groups that have features
    hits,           \* hits[r]: groups of fromCache with true ...
    misses,         \* ... and with false
    errors,         \* errors[r]
    answer

vars == <<busy, gone, wg, pc, results, hits, misses, errors, answer>>
maps == <<results, hits, misses, errors>>

\* Each of the three calls first waits for a connection, then holds it.
Waiting == {"lookup", "compute", "store"}
Holding == {"lookingUp", "computing", "storing"}
Granted == [lookup |-> "lookingUp", compute |-> "computing", store |-> "storing"]
Running == Waiting \union Holding

Answer == [status : {200, 404, 500}, cacheHit : BOOLEAN, cached : SUBSET Groups,
           computed : SUBSET Groups, features : SUBSET Groups, errors : SUBSET Groups]

ASSUME NoAnswerAssumption == NoAnswer \notin Answer

TypeOK ==
    /\ busy \subseteq Requests /\ gone \subseteq busy
    /\ wg \in [Requests -> 0 .. Cardinality(Groups)]
    /\ pc \in [Requests -> [Groups -> Running \union {"none", "finished"}]]
    /\ {results, hits, misses, errors} \subseteq [Requests -> SUBSET Groups]
    /\ answer \in [Requests -> Answer \union {NoAnswer}]

Init ==
    /\ busy = {} /\ gone = {}
    /\ wg = [r \in Requests |-> 0]
    /\ pc = [r \in Requests |-> [g \in Groups |-> "none"]]
    /\ results = [r \in Requests |-> {}] /\ hits = [r \in Requests |-> {}]
    /\ misses = [r \in Requests |-> {}] /\ errors = [r \in Requests |-> {}]
    /\ answer = [r \in Requests |-> NoAnswer]

-----------------------------------------------------------------------------
Goto(r, g, l) == pc' = [pc EXCEPT ![r][g] = l]
Add(m, r, g) == [m EXCEPT ![r] = @ \union {g}]

\* The deferred wg.Done().
Done(r, g) == Goto(r, g, "finished") /\ wg' = [wg EXCEPT ![r] = @ - 1]

\* Variant: rows are closed when the goroutine ends, not after the scan.
InUseUntilDone ==
    Cardinality({w \in Requests \X Groups : pc[w[1]][w[2]] \in Holding \union {"compute", "store"}})

\* Open connections that are not idle.
InUse == Cardinality({w \in Requests \X Groups : pc[w[1]][w[2]] \in Holding})

-----------------------------------------------------------------------------
Begin(r) ==
    /\ r \notin busy
    /\ busy' = busy \union {r}
    /\ pc' = [pc EXCEPT ![r] = [g \in Groups |-> "none"]]
    /\ results' = [results EXCEPT ![r] = {}] /\ hits' = [hits EXCEPT ![r] = {}]
    /\ misses' = [misses EXCEPT ![r] = {}] /\ errors' = [errors EXCEPT ![r] = {}]
    /\ answer' = [answer EXCEPT ![r] = NoAnswer]
    /\ UNCHANGED <<gone, wg>>

\* wg.Add(1) and go: the goroutine may run before the next one is started.
Spawn(r, g) ==
    /\ r \in busy /\ g \in Wanted[r] /\ pc[r][g] = "none"
    /\ wg' = [wg EXCEPT ![r] = @ + 1]
    /\ Goto(r, g, "lookup")
    /\ UNCHANGED <<busy, gone, maps, answer>>

\* The pool hands out a connection.
Take(r, g) ==
    /\ pc[r][g] \in Waiting
    /\ InUse < MaxConns
    /\ r \notin gone
    /\ Goto(r, g, Granted[pc[r][g]])
    /\ UNCHANGED <<busy, gone, wg, maps, answer>>

-----------------------------------------------------------------------------
\* Whatever needs a connection fails when the context is cancelled before there is
\* one, or at any time while the query runs.
MayFail(r, g, wait) ==
    pc[r][g] = Granted[wait] \/ (pc[r][g] = wait /\ r \in gone)

\* GetFromCache finds an entry that is valid and not expired.
Hit(r, g) ==
    /\ pc[r][g] = "lookingUp"
    /\ results' = Add(results, r, g) /\ hits' = Add(hits, r, g)
    /\ Done(r, g)
    /\ UNCHANGED <<busy, gone, misses, errors, answer>>

\* No entry, an expired one, or any error of the lookup.
Miss(r, g) ==
    /\ MayFail(r, g, "lookup")
    /\ Goto(r, g, "compute")
    /\ UNCHANGED <<busy, gone, wg, maps, answer>>

\* Variant: the answer does not wait for the cache write.
ComputedReleasesWaiter(r, g) ==
    /\ pc[r][g] = "computing"
    /\ Goto(r, g, "store")
    /\ wg' = [wg EXCEPT ![r] = @ - 1]
    /\ UNCHANGED <<busy, gone, maps, answer>>

Computed(r, g) ==
    /\ pc[r][g] = "computing"
    /\ Goto(r, g, "store")
    /\ UNCHANGED <<busy, gone, wg, maps, answer>>

\* Variants: an extra wg.Done() beside the deferred one; no return.
ComputeFailsDoneTwice(r, g) ==
    /\ MayFail(r, g, "compute")
    /\ errors' = Add(errors, r, g)
    /\ Goto(r, g, "finished") /\ wg' = [wg EXCEPT ![r] = @ - 2]
    /\ UNCHANGED <<busy, gone, results, hits, misses, answer>>

ComputeFailsGoesOn(r, g) ==
    /\ MayFail(r, g, "compute")
    /\ errors' = Add(errors, r, g)
    /\ Goto(r, g, "store")
    /\ UNCHANGED <<busy, gone, wg, results, hits, misses, answer>>

ComputeFails(r, g) ==
    /\ MayFail(r, g, "compute")
    /\ errors' = Add(errors, r, g)
    /\ Done(r, g)
    /\ UNCHANGED <<busy, gone, results, hits, misses, answer>>

\* SetCache returns, with an error or without: the features are good either way.
Stored(r, g) ==
    /\ MayFail(r, g, "store")
    /\ results' = Add(results, r, g) /\ misses' = Add(misses, r, g)
    /\ Done(r, g)
    /\ UNCHANGED <<busy, gone, hits, errors, answer>>

-----------------------------------------------------------------------------
Reply(r, a) ==
    /\ answer' = [answer EXCEPT ![r] = a]
    /\ busy' = busy \ {r} /\ gone' = gone \ {r}
    /\ UNCHANGED <<wg, pc, maps>>

\* wg.Wait() comes after the loop.
AllDone(r) == r \in busy /\ wg[r] = 0 /\ \A g \in Wanted[r] : pc[r][g] # "none"

\* Variant: errors are forgotten in cache_hit.
RespondHitUnlessComputed(r) ==
    /\ AllDone(r) /\ Wanted[r] # {}
    /\ Reply(r, [status |-> IF results[r] = {} THEN 500 ELSE 200,
                 cacheHit |-> hits[r] # {} /\ misses[r] = {},
                 cached |-> hits[r], computed |-> misses[r],
                 features |-> results[r], errors |-> errors[r]])

Respond(r) ==
    /\ AllDone(r) /\ Wanted[r] # {}
    /\ Reply(r, [status |-> IF results[r] = {} THEN 500 ELSE 200,
                 cacheHit |-> hits[r] # {} /\ misses[r] = {} /\ errors[r] = {},
                 cached |-> hits[r], computed |-> misses[r],
                 features |-> results[r], errors |-> errors[r]])

\* GetFeatureGroup, unknown group
NotFound(r) ==
    /\ r \in busy /\ Wanted[r] = {}
    /\ Reply(r, [status |-> 404, cacheHit |-> FALSE, cached |-> {}, computed |-> {},
                 features |-> {}, errors |-> {}])

\* The client closes the connection: the request's context is cancelled.
ClientLeaves(r) ==
    /\ r \in busy \ gone
    /\ gone' = gone \union {r}
    /\ UNCHANGED <<busy, wg, pc, maps, answer>>

Finish(r, g) == Hit(r, g) \/ Miss(r, g) \/ Computed(r, g) \/ ComputeFails(r, g) \/ Stored(r, g)

Handle(r) == Respond(r) \/ NotFound(r) \/ \E g \in Groups : Spawn(r, g)

Next == \E r \in Requests :
            \/ Begin(r) \/ Handle(r) \/ ClientLeaves(r)
            \/ \E g \in Groups : Take(r, g) \/ Finish(r, g)

Spec == Init /\ [][Next]_vars

\* Goroutines run, queries end (readTimeout=30s in the DSN), and database/sql serves
\* those who wait for a connection in turn.
FairSpec ==
    /\ Spec
    /\ \A r \in Requests : WF_vars(Handle(r))
    /\ \A r \in Requests, g \in Groups : WF_vars(Finish(r, g)) /\ SF_vars(Take(r, g))

-----------------------------------------------------------------------------
\* Every wanted group is in exactly one of cached_groups, computed_groups and errors,
\* and has features unless it is in errors.
AnswerIsComplete ==
    \A r \in Requests : answer[r] # NoAnswer =>
        LET a == answer[r] IN
        /\ a.cached \union a.computed \union a.errors = Wanted[r]
        /\ a.cached \intersect a.computed = {}
        /\ a.features = a.cached \union a.computed
        /\ a.features \intersect a.errors = {}

\* cache_hit says that nothing had to be computed and nothing failed; the status is 500
\* when, and only when, every group failed.
AnswerIsHonest ==
    \A r \in Requests : answer[r] # NoAnswer /\ Wanted[r] # {} =>
        /\ answer[r].cacheHit <=> answer[r].cached = Wanted[r]
        /\ answer[r].status = 500 <=> answer[r].errors = Wanted[r]

\* An answered request has left nothing running, in the pool or waiting for it.
NothingLeftRunning ==
    \A r \in Requests \ busy : \A g \in Groups : pc[r][g] \notin Running

\* Every request is answered, its client gone or not, however few the connections.
EveryRequestAnswered == \A r \in Requests : r \in busy ~> r \notin busy

=============================================================================
