----------------------------- MODULE EthashCache -----------------------------
(***************************************************************************)
(* The verification caches of ethash (consensus/ethash/ethash.go): a small *)
(* LRU of caches with one more for the epoch to come, each generated once  *)
(* on first use, in memory or through a file that later runs load.  The    *)
(* goroutines of an engine share its caches, all engines share the         *)
(* directory, and the process may crash at any step.                       *)
(***************************************************************************)
EXTENDS Integers, Sequences, FiniteSets

CONSTANTS
    Engine,
    EthUsers,       \* engine -> goroutines that hash
    EthEpochs,      \* 0 .. maxEpoch - 1
    CachesInMem,
    CachesOnDisk,   \* the limit; 0 stands for no directory
    MaxObjects,     \* bound on the cache objects of an engine
    MaxEthCrashes      \* bound on crashes

ASSUME EthAssumption ==
    /\ EthEpochs \subseteq Nat /\ CachesInMem \in Nat /\ CachesOnDisk \in Nat
    /\ \A x, y \in Engine : x # y => EthUsers[x] \cap EthUsers[y] = {}

VARIABLES
    ethLru,     \* engine -> cache objects, the most recently used first
    ethFuture,  \* engine -> lru.future and lru.futureItem
    ethObjects, \* engine -> objects: epoch, progress of once, content
    ethUser,    \* goroutine -> what it does with which object
    ethFiles,   \* epoch -> "none", "partial" or "full": the file at its path
    ethTemps,   \* temporary files in the directory
    ethCrashes

ethVars == <<ethLru, ethFuture, ethObjects, ethUser, ethFiles, ethTemps, ethCrashes>>

OnDisk == CachesOnDisk > 0
newCache(epoch) == [epoch |-> epoch, once |-> "new", content |-> "none"]

\* A new process: nothing in memory.
NoLru == [x \in Engine |-> <<>>]
NoFuture == [x \in Engine |-> <<0, 0>>]
NoObjects == [x \in Engine |-> <<>>]
NoUser == [g \in UNION {EthUsers[x] : x \in Engine} |-> <<"idle">>]

EthInit ==
    /\ ethLru = NoLru /\ ethFuture = NoFuture /\ ethObjects = NoObjects /\ ethUser = NoUser
    /\ ethFiles = [e \in EthEpochs |-> "none"] /\ ethTemps = 0 /\ ethCrashes = 0

-----------------------------------------------------------------------------
ObjectOf(x, o) == ethObjects[x][o]
InLru(x, epoch) == {i \in DOMAIN ethLru[x] : ObjectOf(x, ethLru[x][i]).epoch = epoch}
HeldAt(x, epoch) == CHOOSE i \in InLru(x, epoch) : TRUE
Without(s, i) == SubSeq(s, 1, i - 1) \o SubSeq(s, i + 1, Len(s))
Newest(s) == SubSeq(s, 1, IF Len(s) < CachesInMem THEN Len(s) ELSE CachesInMem)

IsFuture(x, epoch) == ethFuture[x][1] > 0 /\ ethFuture[x][1] = epoch

\* lru.get, under its mutex: the object of the epoch, kept, made ahead of time or new;
\* and an object for the next epoch when this one is the highest so far.
lruGet(x, g, epoch) ==
    LET objects == ethObjects[x]
        held == InLru(x, epoch) # {}
        made == ~held /\ ~IsFuture(x, epoch)
        item == IF held THEN ethLru[x][HeldAt(x, epoch)]
                ELSE IF made THEN Len(objects) + 1 ELSE ethFuture[x][2]
        with == IF made THEN Append(objects, newCache(epoch)) ELSE objects
        ahead == epoch + 1 \in EthEpochs /\ ethFuture[x][1] < epoch + 1
        next == IF ahead THEN Len(with) + 1 ELSE 0
    IN  /\ ethUser[g] = <<"idle">> /\ Len(objects) + 2 <= MaxObjects
        /\ ethLru' = [ethLru EXCEPT ![x] =
              Newest(<<item>> \o IF held THEN Without(@, HeldAt(x, epoch)) ELSE @)]
        /\ ethObjects' = [ethObjects EXCEPT ![x] = IF ahead THEN Append(with, newCache(epoch + 1)) ELSE with]
        /\ ethFuture' = IF ahead THEN [ethFuture EXCEPT ![x] = <<epoch + 1, next>>] ELSE ethFuture
        /\ ethUser' = [ethUser EXCEPT ![g] = <<"waits", epoch, item, next>>]
        /\ UNCHANGED <<ethFiles, ethTemps, ethCrashes>>

\* The objects somebody wants generated: those waited for, and those for the future
\* (go future.generate).
Wanted(x, o) ==
    \/ \E g \in EthUsers[x] : ethUser[g][1] = "waits" /\ ethUser[g][3] = o
    \/ ethFuture[x][2] = o /\ \A g \in EthUsers[x] : ethUser[g][1] = "waits" => ethUser[g][4] # o

SetObject(x, o, once, content) ==
    ethObjects' = [ethObjects EXCEPT ![x][o] =
                      [epoch |-> ObjectOf(x, o).epoch, once |-> once, content |-> content]]

\* generate, the first to enter once.Do: without a directory it has its data at the
\* end; a file that memoryMap accepts, its magic in place, is used as it is.
GenerateStarts(x, o) ==
    /\ Wanted(x, o) /\ ObjectOf(x, o).once = "new"
    /\ IF OnDisk /\ ethFiles[ObjectOf(x, o).epoch] # "none"
       THEN SetObject(x, o, "done", ethFiles[ObjectOf(x, o).epoch])
       ELSE SetObject(x, o, "running", "partial")
    /\ UNCHANGED <<ethLru, ethFuture, ethUser, ethFiles, ethTemps, ethCrashes>>

\* Mutant: the file is filled at its final path.
MutFilling(x, o) ==
    /\ ObjectOf(x, o).once = "running" /\ OnDisk
    /\ SetObject(x, o, "filling", "partial")
    /\ ethFiles' = [ethFiles EXCEPT ![ObjectOf(x, o).epoch] = "partial"]
    /\ UNCHANGED <<ethLru, ethFuture, ethUser, ethTemps, ethCrashes>>

\* memoryMapAndGenerate creates a file of a random name next to the path, puts the
\* magic in and starts to fill it.
Filling(x, o) ==
    /\ ObjectOf(x, o).once = "running" /\ OnDisk
    /\ SetObject(x, o, "filling", "partial")
    /\ ethTemps' = ethTemps + 1
    /\ UNCHANGED <<ethLru, ethFuture, ethUser, ethFiles, ethCrashes>>

\* The file is complete and renamed, or some step has failed and the data is generated
\* in memory; either way the files of epochs CachesOnDisk back are removed.
GenerateEnds(x, o) ==
    LET c == ObjectOf(x, o)
    IN  /\ c.once \in {"running", "filling"}
        /\ \E renamed \in IF c.once = "filling" THEN BOOLEAN ELSE {FALSE} :
              /\ ethFiles' = [e \in EthEpochs |->
                    IF OnDisk /\ e <= c.epoch - CachesOnDisk THEN "none"
                    ELSE IF renamed /\ e = c.epoch THEN "full" ELSE ethFiles[e]]
              /\ ethTemps' = IF renamed THEN ethTemps - 1 ELSE ethTemps
        /\ SetObject(x, o, "done", "full")
        /\ UNCHANGED <<ethLru, ethFuture, ethUser, ethCrashes>>

\* Ethash.cache returns once generate has; the goroutine hashes, and is done.
CacheReturns(x, g) ==
    /\ ethUser[g][1] = "waits" /\ ObjectOf(x, ethUser[g][3]).once = "done"
    /\ ethUser' = [ethUser EXCEPT ![g] = <<"hashes", @[2], @[3], @[4]>>]
    /\ UNCHANGED <<ethLru, ethFuture, ethObjects, ethFiles, ethTemps, ethCrashes>>

HashEnds(x, g) ==
    /\ ethUser[g][1] = "hashes"
    /\ ethUser' = [ethUser EXCEPT ![g] = <<"idle">>]
    /\ UNCHANGED <<ethLru, ethFuture, ethObjects, ethFiles, ethTemps, ethCrashes>>

\* The process dies and starts again; the files are what is left.
EthCrash ==
    /\ ethCrashes < MaxEthCrashes
    /\ ethLru' = NoLru /\ ethFuture' = NoFuture /\ ethObjects' = NoObjects /\ ethUser' = NoUser
    /\ ethCrashes' = ethCrashes + 1
    /\ UNCHANGED <<ethFiles, ethTemps>>

EthNext ==
    \/ EthCrash
    \/ \E x \in Engine :
          \/ \E g \in EthUsers[x] :
                \/ \E epoch \in EthEpochs : lruGet(x, g, epoch)
                \/ CacheReturns(x, g) \/ HashEnds(x, g)
          \/ \E o \in DOMAIN ethObjects[x] :
                GenerateStarts(x, o) \/ Filling(x, o) \/ GenerateEnds(x, o)

EthSpec == EthInit /\ [][EthNext]_ethVars

-----------------------------------------------------------------------------
\* A goroutine hashes with the cache of the epoch it asked for, and with all of it:
\* however goroutines and engines interleave, and also with a file that was left by a
\* process that died while it wrote.
HashesWithWholeCache ==
    \A x \in Engine : \A g \in EthUsers[x] :
        ethUser[g][1] = "hashes" =>
            /\ ObjectOf(x, ethUser[g][3]).epoch = ethUser[g][2]
            /\ ObjectOf(x, ethUser[g][3]).content = "full"

=============================================================================
