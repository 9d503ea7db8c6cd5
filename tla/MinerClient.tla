----------------------------- MODULE MinerClient -----------------------------
(***************************************************************************)
(* The stand-alone miner (cmd/miner): for every chain one goroutine that   *)
(* fetches work from the cluster, one that runs the nonce search and is    *)
(* told of new work, and one loop that submits the solutions of all.  The  *)
(* search (FindNonce and mine) is a goroutine too, and all of them meet on *)
(* channels without a buffer: the channel of solutions is made before the  *)
(* shards are known, so its capacity is 0.  The abort channel of the       *)
(* program is never closed.                                                *)
(***************************************************************************)
EXTENDS Integers, FiniteSets

CONSTANTS
    Workers,
    WorkIds,       \* header hashes
    HeightOfWork   \* header hash -> height

ASSUME ClientAssumption == "nil" \notin WorkIds /\ HeightOfWork \in [WorkIds -> Nat]

VARIABLES
    offered,      \* worker -> the work the cluster hands out, "nil" for an error
    lastFetched,  \* worker -> lastFetchedWork, "nil" for none
    fetchAt,      \* worker -> the work fetch() is sending, "nil" while it waits
    currWork,     \* worker -> currWork, "nil" for none
    workAt,       \* worker -> where work() is: "select", "aborts", "starts", "submits"
    takenWork,    \* worker -> the work received from fetch()
    nonceSearches,     \* worker -> searches that have not ended: work and state
    solution      \* worker -> what is being submitted: result's work, and currWork

mcVars == <<offered, lastFetched, fetchAt, currWork, workAt, takenWork, nonceSearches, solution>>

ClientRest == <<offered, lastFetched, fetchAt>>

MinerClientInit(works) ==
    /\ offered \in [Workers -> works]
    /\ lastFetched = [w \in Workers |-> "nil"] /\ fetchAt = [w \in Workers |-> "nil"]
    /\ currWork = [w \in Workers |-> "nil"] /\ takenWork = [w \in Workers |-> "nil"]
    /\ workAt = [w \in Workers |-> "select"]
    /\ nonceSearches = [w \in Workers |-> {}]
    /\ solution = [w \in Workers |-> <<>>]

\* The chain of the cluster goes on: other work, not lower than before unless it reorganises.
NewTip(w) ==
    /\ \E x \in WorkIds \cup {"nil"} : offered' = [offered EXCEPT ![w] = x]
    /\ UNCHANGED <<lastFetched, fetchAt, currWork, workAt, takenWork, nonceSearches, solution>>

\* fetch: handleWork at a tick; work that is lower than the last or the same is skipped.
handleWork(w) ==
    /\ fetchAt[w] = "nil" /\ offered[w] # "nil"
    /\ lastFetched[w] # "nil" =>
          /\ HeightOfWork[lastFetched[w]] <= HeightOfWork[offered[w]]
          /\ lastFetched[w] # offered[w]
    /\ lastFetched' = [lastFetched EXCEPT ![w] = offered[w]]
    /\ fetchAt' = [fetchAt EXCEPT ![w] = offered[w]]
    /\ UNCHANGED <<offered, currWork, workAt, takenWork, nonceSearches, solution>>

\* Mutant: work of the same height does not abort the search.
MutReceiveWork(w) ==
    /\ workAt[w] = "select" /\ fetchAt[w] # "nil"
    /\ fetchAt' = [fetchAt EXCEPT ![w] = "nil"]
    /\ takenWork' = [takenWork EXCEPT ![w] = fetchAt[w]]
    /\ workAt' = [workAt EXCEPT ![w] =
          IF currWork[w] # "nil" /\ HeightOfWork[fetchAt[w]] > HeightOfWork[currWork[w]]
          THEN "aborts" ELSE "starts"]
    /\ UNCHANGED <<offered, lastFetched, currWork, nonceSearches, solution>>

\* work: the case of fetchWorkCh, up to the sending on abortWorkCh.
ReceiveWork(w) ==
    /\ workAt[w] = "select" /\ fetchAt[w] # "nil"
    /\ fetchAt' = [fetchAt EXCEPT ![w] = "nil"]
    /\ takenWork' = [takenWork EXCEPT ![w] = fetchAt[w]]
    /\ workAt' = [workAt EXCEPT ![w] =
          IF currWork[w] # "nil" /\ HeightOfWork[fetchAt[w]] >= HeightOfWork[currWork[w]]
          THEN "aborts" ELSE "starts"]
    /\ UNCHANGED <<offered, lastFetched, currWork, nonceSearches, solution>>

\* The abort meets a search that still waits for a nonce; its threads end.
AbortSearch(w, s) ==
    /\ workAt[w] = "aborts" /\ s.at = "select"
    /\ nonceSearches' = [nonceSearches EXCEPT ![w] = @ \ {s}]
    /\ workAt' = [workAt EXCEPT ![w] = "starts"]
    /\ UNCHANGED <<ClientRest, currWork, takenWork, solution>>

\* FindNonce starts the threads, or fails for want of a random number.
StartSearch(w) ==
    /\ workAt[w] = "starts"
    /\ \/ /\ nonceSearches' = [nonceSearches EXCEPT ![w] = @ \cup {[work |-> takenWork[w], at |-> "select"]}]
          /\ currWork' = [currWork EXCEPT ![w] = takenWork[w]]
       \/ UNCHANGED <<nonceSearches, currWork>>
    /\ workAt' = [workAt EXCEPT ![w] = "select"]
    /\ takenWork' = [takenWork EXCEPT ![w] = "nil"]
    /\ UNCHANGED <<ClientRest, solution>>

\* A thread of mine has found a nonce and the collector of FindNonce takes it.
NonceFound(w, s) ==
    /\ s.at = "select"
    /\ nonceSearches' = [nonceSearches EXCEPT ![w] = (@ \ {s}) \cup {[s EXCEPT !.at = "delivers"]}]
    /\ UNCHANGED <<ClientRest, currWork, workAt, takenWork, solution>>

\* work: the case of resultsCh; the result is paired with the current work.
ReceiveResult(w, s) ==
    /\ workAt[w] = "select" /\ s.at = "delivers"
    /\ nonceSearches' = [nonceSearches EXCEPT ![w] = @ \ {s}]
    /\ solution' = [solution EXCEPT ![w] = <<s.work, currWork[w]>>]
    /\ workAt' = [workAt EXCEPT ![w] = "submits"]
    /\ UNCHANGED <<ClientRest, currWork, takenWork>>

\* The main loop takes one solution and submits it; what the cluster answers is logged.
SubmitSolution(w) ==
    /\ workAt[w] = "submits"
    /\ solution' = [solution EXCEPT ![w] = <<>>]
    /\ currWork' = [currWork EXCEPT ![w] = "nil"]
    /\ workAt' = [workAt EXCEPT ![w] = "select"]
    /\ UNCHANGED <<ClientRest, takenWork, nonceSearches>>

MinerClientNext ==
    \E w \in Workers :
       \/ NewTip(w) \/ handleWork(w) \/ ReceiveWork(w) \/ StartSearch(w) \/ SubmitSolution(w)
       \/ \E s \in nonceSearches[w] : AbortSearch(w, s) \/ NonceFound(w, s) \/ ReceiveResult(w, s)

MinerClientSpec == MinerClientInit(WorkIds) /\ [][MinerClientNext]_mcVars

-----------------------------------------------------------------------------
\* A solution is submitted for the work whose nonce was searched, however new work, the
\* abort of the search and the finding of a nonce fall together: a worker has at most
\* one search under way, and it is the one for its current work.
SolutionIsForWork ==
    \A w \in Workers :
        /\ solution[w] # <<>> => solution[w][1] = solution[w][2]
        /\ \A s \in nonceSearches[w] : s.work = currWork[w]

=============================================================================
