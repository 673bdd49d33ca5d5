------------------------- MODULE RiskProfileApiProofs -------------------------
(***************************************************************************)
(* Proofs about RiskProfileApi, for any finite number of handlers and feature *)
(* groups and any positive limit on connections.                             *)
(***************************************************************************)
EXTENDS RiskProfileApi, FiniteSetTheorems, TLAPS

\* The goroutines of a request that run, which is what its WaitGroup counts.
Goroutines(r) == {g \in Groups : pc[r][g] \in Running}
Counted == \A r \in Requests : wg[r] = Cardinality(Goroutines(r))

\* A goroutine that has finished has put its group in one of the maps of its request,
\* and no other group is in any.
Filed ==
    \A r \in Requests, g \in Groups :
        /\ pc[r][g] # "none" => g \in Wanted[r]
        /\ g \in results[r] <=> g \in hits[r] \union misses[r]
        /\ ~(g \in hits[r] /\ g \in misses[r])
        /\ ~(g \in results[r] /\ g \in errors[r])
        /\ pc[r][g] = "finished" <=> g \in results[r] \union errors[r]

Accounts == TypeOK /\ Counted /\ NothingLeftRunning /\ Filed

LEMMA CountOfGoroutines ==
    ASSUME NEW r \in Requests
    PROVE  /\ IsFiniteSet(Goroutines(r))
           /\ Cardinality(Goroutines(r)) \in 0 .. Cardinality(Groups)
<1>1. IsFiniteSet(Groups) /\ Goroutines(r) \subseteq Groups
  BY ApiAssumption DEF Goroutines
<1> QED BY <1>1, FS_Subset, FS_CardinalityType

\* What Goto leaves.
LEMMA GotoFacts ==
    ASSUME TypeOK, NEW r \in Requests, NEW g \in Groups, NEW l, Goto(r, g, l),
           l \in Running \union {"none", "finished"}
    PROVE  /\ pc' \in [Requests -> [Groups -> Running \union {"none", "finished"}]]
           /\ pc'[r][g] = l
           /\ \A q \in Requests, h \in Groups : <<q, h>> # <<r, g>> => pc'[q][h] = pc[q][h]
  BY DEF TypeOK, Goto

\* The counter of r is that of its goroutines when one of them starts, ends or goes on.
LEMMA CountStep ==
    ASSUME TypeOK, Counted, NEW r \in Requests, NEW g \in Groups, NEW l, Goto(r, g, l),
           l \in Running \union {"finished"},
           \/ pc[r][g] = "none" /\ l \in Running /\ wg' = [wg EXCEPT ![r] = @ + 1]
           \/ pc[r][g] \in Running /\ l = "finished" /\ wg' = [wg EXCEPT ![r] = @ - 1]
           \/ pc[r][g] \in Running /\ l \in Running /\ wg' = wg
    PROVE  Counted' /\ wg' \in [Requests -> 0 .. Cardinality(Groups)]
<1>1. /\ pc'[r][g] = l
      /\ \A q \in Requests, h \in Groups : <<q, h>> # <<r, g>> => pc'[q][h] = pc[q][h]
  BY GotoFacts
<1>2. \A q \in Requests : q # r => Goroutines(q)' = Goroutines(q)
  BY <1>1 DEF Goroutines
<1>3. wg \in [Requests -> 0 .. Cardinality(Groups)] /\ Cardinality(Groups) \in Nat
  BY ApiAssumption, FS_CardinalityType DEF TypeOK
<1>4. wg'[r] = Cardinality(Goroutines(r)')
  <2>1. wg[r] = Cardinality(Goroutines(r)) /\ IsFiniteSet(Goroutines(r))
    BY CountOfGoroutines DEF Counted
  <2>2. "none" \notin Running /\ "finished" \notin Running
    BY DEF Running, Waiting, Holding
  <2>3. CASE pc[r][g] = "none" /\ l \in Running /\ wg' = [wg EXCEPT ![r] = @ + 1]
    <3>1. Goroutines(r)' = Goroutines(r) \union {g} /\ g \notin Goroutines(r)
      BY <1>1, <2>2, <2>3 DEF Goroutines
    <3>2. Cardinality(Goroutines(r)') = Cardinality(Goroutines(r)) + 1
      BY <2>1, <3>1, FS_AddElement
    <3>3. wg'[r] = wg[r] + 1
      BY <1>3, <2>3
    <3> QED BY <2>1, <3>2, <3>3
  <2>4. CASE pc[r][g] \in Running /\ l = "finished" /\ wg' = [wg EXCEPT ![r] = @ - 1]
    <3>1. Goroutines(r)' = Goroutines(r) \ {g} /\ g \in Goroutines(r)
      BY <1>1, <2>2, <2>4 DEF Goroutines
    <3>2. Cardinality(Goroutines(r)') = Cardinality(Goroutines(r)) - 1
      BY <2>1, <3>1, FS_RemoveElement
    <3>3. wg'[r] = wg[r] - 1
      BY <1>3, <2>4
    <3> QED BY <2>1, <3>2, <3>3
  <2>5. CASE pc[r][g] \in Running /\ l \in Running /\ wg' = wg
    <3>1. Goroutines(r)' = Goroutines(r)
      BY <1>1, <2>5 DEF Goroutines
    <3> QED BY <2>1, <2>5, <3>1
  <2> QED BY <2>3, <2>4, <2>5
<1>5. \A q \in Requests : wg'[q] = Cardinality(Goroutines(q)')
  BY <1>2, <1>3, <1>4 DEF Counted
<1>6. \A q \in Requests : Cardinality(Goroutines(q)') \in 0 .. Cardinality(Groups)
  <2>1. ASSUME NEW q \in Requests PROVE Goroutines(q)' \subseteq Groups
    BY DEF Goroutines
  <2> QED BY <2>1, ApiAssumption, FS_Subset, FS_CardinalityType
<1>7. \E f : wg' = [q \in Requests |-> f[q]]
  BY <1>3
<1> QED BY <1>5, <1>6, <1>7 DEF Counted

-----------------------------------------------------------------------------
\* The steps of one goroutine: which way its place and its maps change.
Moves(r, g) ==
    \/ /\ pc[r][g] = "none" /\ r \in busy /\ g \in Wanted[r] /\ Goto(r, g, "lookup")
       /\ wg' = [wg EXCEPT ![r] = @ + 1] /\ UNCHANGED maps
    \/ /\ pc[r][g] \in Running /\ \E l \in Running : Goto(r, g, l)
       /\ wg' = wg /\ UNCHANGED maps
    \/ /\ pc[r][g] \in Running /\ Done(r, g)
       /\ \/ results' = Add(results, r, g) /\ hits' = Add(hits, r, g)
             /\ UNCHANGED <<misses, errors>>
          \/ results' = Add(results, r, g) /\ misses' = Add(misses, r, g)
             /\ UNCHANGED <<hits, errors>>
          \/ errors' = Add(errors, r, g) /\ UNCHANGED <<results, hits, misses>>

LEMMA StepsMove ==
    ASSUME TypeOK, NEW r \in Requests, NEW g \in Groups,
           Spawn(r, g) \/ Take(r, g) \/ Finish(r, g)
    PROVE  Moves(r, g) /\ UNCHANGED <<busy, gone, answer>>
<1> USE DEF maps, Running, Waiting, Holding, Granted
<1>1. CASE Spawn(r, g)
  BY <1>1 DEF Spawn, Moves
<1>2. CASE Take(r, g)
  BY <1>2 DEF Take, Moves
<1>3. CASE Miss(r, g) \/ Computed(r, g)
  BY <1>3 DEF Miss, Computed, MayFail, Moves
<1>4. CASE Hit(r, g)
  BY <1>4 DEF Hit, Moves
<1>5. CASE ComputeFails(r, g)
  BY <1>5 DEF ComputeFails, MayFail, Moves
<1>6. CASE Stored(r, g)
  BY <1>6 DEF Stored, MayFail, Moves
<1> QED BY <1>1, <1>2, <1>3, <1>4, <1>5, <1>6 DEF Finish

LEMMA AddFacts ==
    ASSUME NEW m \in [Requests -> SUBSET Groups], NEW r \in Requests, NEW g \in Groups
    PROVE  /\ Add(m, r, g) \in [Requests -> SUBSET Groups]
           /\ g \in Add(m, r, g)[r]
           /\ \A q \in Requests, h \in Groups :
                  <<q, h>> # <<r, g>> => (h \in Add(m, r, g)[q] <=> h \in m[q])
<1>1. g \in Add(m, r, g)[r]
  BY DEF Add
<1>2. Add(m, r, g) \in [Requests -> SUBSET Groups]
  BY DEF Add
<1>3. ASSUME NEW q \in Requests, NEW h \in Groups, <<q, h>> # <<r, g>>
      PROVE  h \in Add(m, r, g)[q] <=> h \in m[q]
  <2>1. CASE q = r
    BY <1>3, <2>1 DEF Add
  <2>2. CASE q # r
    BY <2>2 DEF Add
  <2> QED BY <2>1, <2>2
<1> QED BY <1>1, <1>2, <1>3

LEMMA MovesKeepAccounts ==
    ASSUME Accounts, NEW r \in Requests, NEW g \in Groups, Moves(r, g),
           UNCHANGED <<busy, gone, answer>>
    PROVE  Accounts'
<1>1. PICK l \in Running \union {"finished"} : Goto(r, g, l)
  BY DEF Moves, Done, Running, Waiting
<1>2. /\ pc' \in [Requests -> [Groups -> Running \union {"none", "finished"}]]
      /\ pc'[r][g] = l
      /\ \A q \in Requests, h \in Groups : <<q, h>> # <<r, g>> => pc'[q][h] = pc[q][h]
  BY <1>1, GotoFacts DEF Accounts
<1>3. "none" \notin Running /\ "finished" \notin Running
  BY DEF Running, Waiting, Holding
<1>4. Counted' /\ wg' \in [Requests -> 0 .. Cardinality(Groups)]
  <2>1. CASE pc[r][g] = "none" /\ Goto(r, g, "lookup") /\ wg' = [wg EXCEPT ![r] = @ + 1]
    <3>1. "lookup" \in Running
      BY DEF Running, Waiting
    <3> QED BY <2>1, <3>1, CountStep DEF Accounts
  <2>2. CASE pc[r][g] \in Running /\ (\E k \in Running : Goto(r, g, k)) /\ wg' = wg
    BY <2>2, CountStep DEF Accounts
  <2>3. CASE pc[r][g] \in Running /\ Done(r, g)
    BY <2>3, CountStep DEF Accounts, Done
  <2> QED BY <2>1, <2>2, <2>3 DEF Moves
<1> DEFINE Sets == [Requests -> SUBSET Groups]
<1>5. results \in Sets /\ hits \in Sets /\ misses \in Sets /\ errors \in Sets
  BY DEF Accounts, TypeOK
<1>6. /\ results' = results \/ results' = Add(results, r, g)
      /\ hits' = hits \/ hits' = Add(hits, r, g)
      /\ misses' = misses \/ misses' = Add(misses, r, g)
      /\ errors' = errors \/ errors' = Add(errors, r, g)
  BY DEF Moves, maps
<1>7. results' \in Sets /\ hits' \in Sets /\ misses' \in Sets /\ errors' \in Sets
  <2>1. \A m \in Sets : Add(m, r, g) \in Sets
    BY AddFacts
  <2> HIDE DEF Sets
  <2> QED BY <1>5, <1>6, <2>1
<1> HIDE DEF Sets
<1>8. TypeOK'
  BY <1>2, <1>4, <1>7 DEF Accounts, TypeOK, Sets
<1>9. r \in busy
  BY <1>3 DEF Moves, Accounts, NothingLeftRunning
<1>10. NothingLeftRunning'
  BY <1>2, <1>9 DEF Accounts, NothingLeftRunning
<1>11. Filed'
  <2>1. ASSUME NEW q \in Requests, NEW h \in Groups, <<q, h>> # <<r, g>>
        PROVE  /\ pc'[q][h] = pc[q][h]
               /\ h \in results'[q] <=> h \in results[q]
               /\ h \in hits'[q] <=> h \in hits[q]
               /\ h \in misses'[q] <=> h \in misses[q]
               /\ h \in errors'[q] <=> h \in errors[q]
    <3>1. pc'[q][h] = pc[q][h]
      BY <1>2, <2>1
    <3>2. ASSUME NEW m \in Sets, NEW n, n = m \/ n = Add(m, r, g)
          PROVE  h \in n[q] <=> h \in m[q]
      BY <2>1, <3>2, AddFacts DEF Sets
    <3> QED BY <1>5, <1>6, <3>1, <3>2
  <2>2. CASE l \in Running
    <3>1. UNCHANGED <<results, hits, misses, errors>> /\ pc[r][g] # "finished"
      <4>1. ~Goto(r, g, "finished")
        BY <1>2, <1>3, <2>2, GotoFacts DEF Accounts
      <4> QED BY <1>3, <4>1 DEF Moves, Done, maps
    <3>2. g \in Wanted[r]
      BY <1>3 DEF Moves, Accounts, Filed
    <3> QED BY <1>2, <1>3, <2>1, <2>2, <3>1, <3>2 DEF Accounts, Filed
  <2>3. CASE l = "finished"
    <3>1. pc[r][g] \in Running /\ Done(r, g)
      <4>1. ASSUME NEW k \in Running, Goto(r, g, k) PROVE FALSE
        BY <1>2, <1>3, <2>3, <4>1, GotoFacts DEF Accounts
      <4>2. "lookup" \in Running
        BY DEF Running, Waiting
      <4> QED BY <4>1, <4>2 DEF Moves
    <3>2. /\ g \in Wanted[r] /\ g \notin results[r] /\ g \notin hits[r] /\ g \notin misses[r]
          /\ g \notin errors[r]
      BY <1>3, <3>1 DEF Accounts, Filed
    <3>3. ~\E k \in Running : Goto(r, g, k)
      BY <1>2, <1>3, <2>3, GotoFacts DEF Accounts
    <3>4. \/ results' = Add(results, r, g) /\ hits' = Add(hits, r, g)
             /\ UNCHANGED <<misses, errors>>
          \/ results' = Add(results, r, g) /\ misses' = Add(misses, r, g)
             /\ UNCHANGED <<hits, errors>>
          \/ errors' = Add(errors, r, g) /\ UNCHANGED <<results, hits, misses>>
      <4>1. "lookup" \in Running
        BY DEF Running, Waiting
      <4> QED BY <3>3, <4>1 DEF Moves
    <3>5. /\ pc'[r][g] = "finished"
          /\ g \in results'[r] <=> g \in hits'[r] \union misses'[r]
          /\ ~(g \in hits'[r] /\ g \in misses'[r])
          /\ ~(g \in results'[r] /\ g \in errors'[r])
          /\ g \in results'[r] \union errors'[r]
      <4>1. \A m \in Sets : g \in Add(m, r, g)[r]
        BY AddFacts DEF Sets
      <4> QED BY <1>2, <1>5, <2>3, <3>2, <3>4, <4>1
    <3> QED BY <2>1, <3>2, <3>5 DEF Accounts, Filed
  <2> QED BY <2>2, <2>3
<1> QED BY <1>4, <1>8, <1>10, <1>11 DEF Accounts

\* When the WaitGroup is at zero and nothing is left to start, every wanted group is
\* in exactly one of the maps.
LEMMA AllFiled ==
    ASSUME Accounts, NEW r \in Requests, AllDone(r)
    PROVE  /\ hits[r] \union misses[r] \union errors[r] = Wanted[r]
           /\ hits[r] \intersect misses[r] = {}
           /\ results[r] = hits[r] \union misses[r]
           /\ results[r] \intersect errors[r] = {}
           /\ results[r] \subseteq Groups /\ errors[r] \subseteq Groups
<1>1. /\ results[r] \subseteq Groups /\ hits[r] \subseteq Groups /\ misses[r] \subseteq Groups
      /\ errors[r] \subseteq Groups
  BY DEF Accounts, TypeOK
<1>2. Goroutines(r) = {}
  BY CountOfGoroutines, FS_EmptySet DEF AllDone, Accounts, Counted
<1>3. \A g \in Groups : g \in Wanted[r] <=> pc[r][g] = "finished"
  BY <1>2 DEF Goroutines, AllDone, Accounts, TypeOK, Filed
<1>4. \A g \in Groups : g \in Wanted[r] <=> g \in results[r] \union errors[r]
  BY <1>3 DEF Accounts, Filed
<1>5. Wanted[r] \subseteq Groups
  BY ApiAssumption
<1>6. results[r] = hits[r] \union misses[r]
  BY <1>1 DEF Accounts, Filed
<1>7. hits[r] \intersect misses[r] = {} /\ results[r] \intersect errors[r] = {}
  BY <1>1 DEF Accounts, Filed
<1> QED BY <1>1, <1>4, <1>5, <1>6, <1>7

LEMMA ReplyKeepsAccounts ==
    ASSUME Accounts, NEW r \in Requests, NEW a \in Answer, Reply(r, a),
           \A g \in Groups : pc[r][g] \notin Running
    PROVE  Accounts'
<1>1. answer' \in [Requests -> Answer \union {NoAnswer}]
  BY DEF Reply, Accounts, TypeOK
<1>2. TypeOK' /\ NothingLeftRunning' /\ Counted' /\ Filed'
  BY <1>1 DEF Reply, maps, Accounts, TypeOK, NothingLeftRunning, Counted, Goroutines, Filed
<1> QED BY <1>2 DEF Accounts

LEMMA BeginKeepsAccounts ==
    ASSUME Accounts, NEW r \in Requests, Begin(r)
    PROVE  Accounts'
<1>1. "none" \notin Running /\ "finished" \notin Running
  BY DEF Running, Waiting, Holding
<1>2. /\ pc' \in [Requests -> [Groups -> Running \union {"none", "finished"}]]
      /\ \A g \in Groups : pc'[r][g] = "none"
      /\ \A q \in Requests : q # r => pc'[q] = pc[q]
  BY DEF Begin, Accounts, TypeOK
<1>3. TypeOK'
  BY <1>2 DEF Begin, Accounts, TypeOK
<1>4. Counted'
  <2>1. Goroutines(r) = {} /\ Goroutines(r)' = {}
    BY <1>1, <1>2 DEF Goroutines, Begin, Accounts, NothingLeftRunning
  <2>2. \A q \in Requests : Goroutines(q)' = Goroutines(q)
    BY <1>2, <2>1 DEF Goroutines
  <2> QED BY <2>2 DEF Begin, Accounts, Counted
<1>5. NothingLeftRunning'
  BY <1>1, <1>2 DEF Begin, Accounts, NothingLeftRunning
<1>6. /\ results' = [results EXCEPT ![r] = {}] /\ hits' = [hits EXCEPT ![r] = {}]
      /\ misses' = [misses EXCEPT ![r] = {}] /\ errors' = [errors EXCEPT ![r] = {}]
  BY DEF Begin
<1>7. /\ results'[r] = {} /\ hits'[r] = {} /\ misses'[r] = {} /\ errors'[r] = {}
      /\ \A q \in Requests : q # r => /\ results'[q] = results[q] /\ hits'[q] = hits[q]
                                      /\ misses'[q] = misses[q] /\ errors'[q] = errors[q]
  BY <1>6 DEF Accounts, TypeOK
<1>8. Filed'
  <2>1. ASSUME NEW q \in Requests, NEW g \in Groups
        PROVE  /\ pc'[q][g] # "none" => g \in Wanted[q]
               /\ g \in results'[q] <=> g \in hits'[q] \union misses'[q]
               /\ ~(g \in hits'[q] /\ g \in misses'[q])
               /\ ~(g \in results'[q] /\ g \in errors'[q])
               /\ pc'[q][g] = "finished" <=> g \in results'[q] \union errors'[q]
    <3>1. CASE q = r
      BY <1>2, <1>7, <3>1
    <3>2. CASE q # r
      BY <1>2, <1>7, <3>2 DEF Accounts, Filed
    <3> QED BY <3>1, <3>2
  <2> QED BY <2>1 DEF Filed
<1> QED BY <1>3, <1>4, <1>5, <1>8 DEF Accounts

LEMMA AccountsStep ==
    ASSUME Accounts, [Next]_vars
    PROVE  Accounts'
<1>1. ASSUME NEW r \in Requests, NEW g \in Groups, Spawn(r, g) \/ Take(r, g) \/ Finish(r, g)
      PROVE  Accounts'
  BY <1>1, StepsMove, MovesKeepAccounts DEF Accounts
<1>2. ASSUME NEW r \in Requests, Begin(r) PROVE Accounts'
  BY <1>2, BeginKeepsAccounts
<1>3. ASSUME NEW r \in Requests, Respond(r) PROVE Accounts'
  <2>1. AllDone(r)
    BY <1>3 DEF Respond
  <2>2. \A g \in Groups : pc[r][g] \notin Running
    BY <2>1, CountOfGoroutines, FS_EmptySet DEF AllDone, Accounts, Counted, Goroutines
  <2>3. PICK a : /\ Reply(r, a)
                 /\ a = [status |-> IF results[r] = {} THEN 500 ELSE 200,
                         cacheHit |-> hits[r] # {} /\ misses[r] = {} /\ errors[r] = {},
                         cached |-> hits[r], computed |-> misses[r],
                         features |-> results[r], errors |-> errors[r]]
    BY <1>3 DEF Respond
  <2>4. a \in Answer
    BY <2>1, <2>3, AllFiled DEF Answer
  <2> QED BY <2>2, <2>3, <2>4, ReplyKeepsAccounts
<1>4. ASSUME NEW r \in Requests, NotFound(r) PROVE Accounts'
  <2>1. \A g \in Groups : pc[r][g] = "none"
    BY <1>4 DEF NotFound, Accounts, Filed
  <2>2. \A g \in Groups : pc[r][g] \notin Running
    BY <2>1 DEF Running, Waiting, Holding
  <2> QED BY <1>4, <2>2, ReplyKeepsAccounts DEF NotFound, Answer
<1>5. ASSUME NEW r \in Requests, ClientLeaves(r) PROVE Accounts'
  BY <1>5 DEF ClientLeaves, maps, Accounts, TypeOK, Counted, Goroutines, NothingLeftRunning, Filed
<1>6. CASE UNCHANGED vars
  BY <1>6 DEF vars, Accounts, TypeOK, Counted, Goroutines, NothingLeftRunning, Filed
<1> QED BY <1>1, <1>2, <1>3, <1>4, <1>5, <1>6 DEF Next, Handle

LEMMA AccountsInit == Init => Accounts
<1> SUFFICES ASSUME Init PROVE Accounts
  OBVIOUS
<1>1. "none" \notin Running
  BY DEF Running, Waiting, Holding
<1>2. \A r \in Requests : Goroutines(r) = {}
  BY <1>1 DEF Init, Goroutines
<1>3. Counted
  BY <1>2, FS_EmptySet DEF Init, Counted
<1>4. Cardinality(Groups) \in Nat
  BY ApiAssumption, FS_CardinalityType
<1>5. TypeOK
  BY <1>4 DEF Init, TypeOK
<1>6. NothingLeftRunning /\ Filed
  BY <1>1 DEF Init, NothingLeftRunning, Filed
<1> QED BY <1>3, <1>5, <1>6 DEF Accounts

LEMMA AccountsAreKept == Spec => []Accounts
<1>1. Accounts /\ [Next]_vars => Accounts'
  BY AccountsStep
<1> QED BY <1>1, AccountsInit, PTL DEF Spec

\* Every variable keeps its type; the counter of a WaitGroup is never negative, and never
\* above the number of groups.
THEOREM ApiTypes == Spec => []TypeOK
<1>1. Accounts => TypeOK
  BY DEF Accounts
<1> QED BY <1>1, AccountsAreKept, PTL

\* An answered request has left no goroutine behind, neither with a connection nor
\* waiting for one.
THEOREM AnsweredRequestsAreOver == Spec => []NothingLeftRunning
<1>1. Accounts => NothingLeftRunning
  BY DEF Accounts
<1> QED BY <1>1, AccountsAreKept, PTL

-----------------------------------------------------------------------------
LEMMA AnswersStep ==
    ASSUME Accounts, AnswerIsComplete, AnswerIsHonest, [Next]_vars
    PROVE  AnswerIsComplete' /\ AnswerIsHonest'
<1> DEFINE Right(r, a) ==
        /\ a.cached \union a.computed \union a.errors = Wanted[r]
        /\ a.cached \intersect a.computed = {}
        /\ a.features = a.cached \union a.computed
        /\ a.features \intersect a.errors = {}
        /\ Wanted[r] # {} =>
              /\ a.cacheHit <=> a.cached = Wanted[r]
              /\ a.status = 500 <=> a.errors = Wanted[r]
<1>1. \A r \in Requests : answer[r] # NoAnswer => Right(r, answer[r])
  BY DEF AnswerIsComplete, AnswerIsHonest
<1>2. answer \in [Requests -> Answer \union {NoAnswer}]
  BY DEF Accounts, TypeOK
<1>3. ASSUME NEW r \in Requests, Begin(r) PROVE answer'[r] = NoAnswer
  BY <1>2, <1>3 DEF Begin
<1>4. ASSUME NEW r \in Requests, Respond(r) PROVE Right(r, answer'[r])
  <2>1. AllDone(r) /\ Wanted[r] # {}
    BY <1>4 DEF Respond
  <2>2. answer'[r] = [status |-> IF results[r] = {} THEN 500 ELSE 200,
                      cacheHit |-> hits[r] # {} /\ misses[r] = {} /\ errors[r] = {},
                      cached |-> hits[r], computed |-> misses[r],
                      features |-> results[r], errors |-> errors[r]]
    BY <1>2, <1>4 DEF Respond, Reply
  <2>3. /\ hits[r] \union misses[r] \union errors[r] = Wanted[r]
        /\ hits[r] \intersect misses[r] = {}
        /\ results[r] = hits[r] \union misses[r]
        /\ results[r] \intersect errors[r] = {}
    BY <2>1, AllFiled
  <2>4. (hits[r] # {} /\ misses[r] = {} /\ errors[r] = {}) <=> hits[r] = Wanted[r]
    BY <2>1, <2>3
  <2>5. results[r] = {} <=> errors[r] = Wanted[r]
    BY <2>1, <2>3
  <2>6. answer'[r].status = 500 <=> errors[r] = Wanted[r]
    BY <2>2, <2>5
  <2>7. answer'[r].cacheHit <=> hits[r] = Wanted[r]
    <3>1. answer'[r].cacheHit = (hits[r] # {} /\ misses[r] = {} /\ errors[r] = {})
      BY <2>2
    <3> QED BY <2>4, <3>1, Zenon
  <2>8. /\ answer'[r].cached = hits[r] /\ answer'[r].computed = misses[r]
        /\ answer'[r].features = results[r] /\ answer'[r].errors = errors[r]
    BY <2>2
  <2> QED BY <2>3, <2>6, <2>7, <2>8
<1>5. ASSUME NEW r \in Requests, NotFound(r) PROVE Right(r, answer'[r])
  BY <1>2, <1>5 DEF NotFound, Reply
<1>6. ASSUME NEW r \in Requests, Begin(r) \/ Respond(r) \/ NotFound(r)
      PROVE  \A q \in Requests : q # r => answer'[q] = answer[q]
  BY <1>2, <1>6 DEF Begin, Respond, NotFound, Reply
<1>7. \/ answer' = answer
      \/ \E r \in Requests : Begin(r) \/ Respond(r) \/ NotFound(r)
  BY DEF Next, Handle, Spawn, Take, ClientLeaves, Finish, Hit, Miss, Computed, ComputeFails,
         Stored, vars
<1>8. \A r \in Requests : answer'[r] # NoAnswer => Right(r, answer'[r])
  BY <1>1, <1>3, <1>4, <1>5, <1>6, <1>7
<1> QED BY <1>8 DEF AnswerIsComplete, AnswerIsHonest

LEMMA AnswersAreRight == Spec => [](AnswerIsComplete /\ AnswerIsHonest)
<1>1. Init => AnswerIsComplete /\ AnswerIsHonest
  BY DEF Init, AnswerIsComplete, AnswerIsHonest
<1>2. Accounts /\ (AnswerIsComplete /\ AnswerIsHonest) /\ [Next]_vars
        => (AnswerIsComplete /\ AnswerIsHonest)'
  BY AnswersStep
<1> QED BY <1>1, <1>2, AccountsAreKept, PTL DEF Spec

\* Every wanted group is accounted for in the answer, exactly once, whichever queries
\* fail and whenever the client leaves.
THEOREM AnswersAreComplete == Spec => []AnswerIsComplete
  BY AnswersAreRight, PTL

\* cache_hit and the status 500 say what they seem to say.
THEOREM AnswersAreHonest == Spec => []AnswerIsHonest
  BY AnswersAreRight, PTL

=============================================================================
