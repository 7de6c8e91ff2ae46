------------------------------ MODULE Threads ------------------------------
(***************************************************************************)
(* The threads of one process, from the start of the managers to the end   *)
(* of the destructor of PQBModel: the user interface, the consensus        *)
(* thread, the message-processing thread and the connection manager; the   *)
(* mutexes and condition variables between them, and the window of a peer  *)
(* the connection manager writes to with blocking sockets.                 *)
(*                                                                         *)
(* Data is reduced to how much of it waits in each queue.  A step that     *)
(* takes a mutex, changes a queue and releases the mutex again is one      *)
(* action, enabled when the mutex is free; where a thread holds a mutex    *)
(* and may wait for something else, the mutex has a holder.                *)
(***************************************************************************)
EXTENDS Integers, Sequences

CONSTANTS
    MaxPool,        \* bound on transactions in the pool
    MaxQueue,       \* bound on messages in each queue
    MaxArrivals,    \* bound on messages that peers send and transactions users make
    Window          \* messages a peer's socket takes before somebody reads it

ASSUME BoundsAssumption ==
    MaxPool \in Nat /\ MaxQueue \in Nat /\ MaxArrivals \in Nat /\ Window \in Nat \ {0}

VARIABLES
    stage,          \* where the main thread is
    worker,         \* the worker whose object the main thread is deleting
    run,            \* run[w]: consensusRun_, processingRun, connectionManagerRunFlag
    pc,             \* pc[w]: where the thread of w is
    consensusMutex, \* who holds it: a worker or "nobody"
    processingMutex,\* processingQueueMutex
    messageMutex,   \* messageRequestQueueMutex
    pool,           \* number of transactions in txPool_
    processing,     \* number of messages in processingQueue
    requests,       \* number of messages in messageRequestQueue
    inbox,          \* number of messages that wait at the sockets
    written,        \* number of messages peers have not read yet
    arrivals,       \* number of messages and transactions so far
    lost,           \* history: workers notified between their test and their wait
    dangling        \* history: a thread has used an object that was deleted

main == <<stage, worker>>
mutexes == <<consensusMutex, processingMutex, messageMutex>>
queues == <<pool, processing, requests, inbox, written, arrivals>>
threadsVars == <<main, run, pc, mutexes, queues, lost, dangling>>

Worker == {"consensus", "processor", "manager"}

\* The order in which ~PQBModel deletes the objects that have a thread.
Deletion == <<"consensus", "processor", "manager">>

ThreadsInit ==
    /\ stage = "ui"
    /\ worker = 1
    /\ run = [w \in Worker |-> TRUE]
    /\ pc = [w \in Worker |-> "loop"]
    /\ consensusMutex = "nobody"
    /\ processingMutex = "nobody"
    /\ messageMutex = "nobody"
    /\ pool = 0 /\ processing = 0 /\ requests = 0 /\ inbox = 0 /\ written = 0
    /\ arrivals = 0
    /\ lost = {}
    /\ dangling = FALSE

\* The model first deletes wallet, storages and chain, then the workers.
Deleted(object) ==
    CASE object = "data" -> stage \notin {"ui", "pool"}
      [] object = "consensus" -> worker > 1
      [] object = "processor" -> worker > 2

Use(objects) == dangling' = (dangling \/ \E object \in objects : Deleted(object))

Go(w, label) == pc' = [pc EXCEPT ![w] = label]

\* notify_one: who waits is woken, who is about to wait is not.
Woken(w) == IF pc[w] = "waiting" THEN [pc EXCEPT ![w] = "woken"] ELSE pc

\* Mutant of poolIsFree: addTransactionToPool takes no lock.
poolUnguarded == TRUE

\* addTransactionToPool and the other operations of the pool take consensusMutex_ ...
poolIsFree == consensusMutex = "nobody"

\* Mutant of added: a transaction does not wake the consensus thread.
addedSilently == pc

\* ... and a transaction that is new there wakes the consensus thread.
added == Woken("consensus")

-----------------------------------------------------------------------------
(* The consensus thread *)

ConsensusLoop ==
    /\ pc["consensus"] \in {"loop", "woken"}
    /\ \/ /\ pc["consensus"] = "loop" /\ ~ run["consensus"]
          /\ Go("consensus", "ended")
          /\ UNCHANGED consensusMutex
       \/ /\ pc["consensus"] = "woken" \/ run["consensus"]
          /\ consensusMutex = "nobody"
          /\ consensusMutex' = "consensus"
          /\ Go("consensus", "test")
    /\ UNCHANGED <<main, run, processingMutex, messageMutex, queues, lost, dangling>>

\* The predicate of wait is false: the thread will wait, whatever happens now.
ConsensusTest ==
    /\ pc["consensus"] = "test"
    /\ \/ /\ ~ run["consensus"]
          /\ consensusMutex' = "nobody"
          /\ Go("consensus", "loop")
       \/ /\ run["consensus"] /\ pool > 0
          /\ Go("consensus", "tick")
          /\ UNCHANGED consensusMutex
       \/ /\ run["consensus"] /\ pool = 0
          /\ Go("consensus", "commit")
          /\ UNCHANGED consensusMutex
    /\ UNCHANGED <<main, run, processingMutex, messageMutex, queues, lost, dangling>>

ConsensusWait ==
    /\ pc["consensus"] = "commit"
    /\ consensusMutex' = "nobody"
    /\ Go("consensus", "waiting")
    /\ UNCHANGED <<main, run, processingMutex, messageMutex, queues, lost, dangling>>

\* timerEntry: a tick shares a proposal, executes a block or changes nothing here.
ConsensusTick ==
    /\ pc["consensus"] = "tick"
    /\ Use({"data"})
    /\ \/ /\ Go("consensus", "share")
          /\ UNCHANGED <<consensusMutex, pool>>
       \/ /\ Go("consensus", "loop")
          /\ consensusMutex' = "nobody"
          /\ pool' \in {pool, pool - 1}
    /\ UNCHANGED <<main, run, processingMutex, messageMutex, processing, requests, inbox,
                   written, arrivals, lost>>

\* share, with consensusMutex_ held: addMessageRequest waits for the manager.
ConsensusShare ==
    /\ pc["consensus"] = "share"
    /\ messageMutex = "nobody" /\ requests < MaxQueue
    /\ requests' = requests + 1
    /\ consensusMutex' = "nobody"
    /\ Go("consensus", "loop")
    /\ UNCHANGED <<main, run, processingMutex, messageMutex, pool, processing, inbox, written,
                   arrivals, lost, dangling>>

consensusThread ==
    \/ ConsensusLoop
    \/ ConsensusTest
    \/ ConsensusWait
    \/ ConsensusTick
    \/ ConsensusShare

-----------------------------------------------------------------------------
(* The message-processing thread *)

ProcessorLoop ==
    /\ pc["processor"] \in {"loop", "woken"}
    /\ \/ /\ pc["processor"] = "loop" /\ ~ run["processor"]
          /\ Go("processor", "ended")
          /\ UNCHANGED processingMutex
       \/ /\ pc["processor"] = "woken" \/ run["processor"]
          /\ processingMutex = "nobody"
          /\ processingMutex' = "processor"
          /\ Go("processor", "test")
    /\ UNCHANGED <<main, run, consensusMutex, messageMutex, queues, lost, dangling>>

ProcessorTest ==
    /\ pc["processor"] = "test"
    /\ \/ /\ ~ run["processor"]
          /\ processingMutex' = "nobody"
          /\ Go("processor", "loop")
          /\ UNCHANGED processing
       \/ /\ run["processor"] /\ processing > 0
          /\ processing' = processing - 1
          /\ processingMutex' = "nobody"
          /\ Go("processor", "process")
       \/ /\ run["processor"] /\ processing = 0
          /\ Go("processor", "commit")
          /\ UNCHANGED <<processingMutex, processing>>
    /\ UNCHANGED <<main, run, consensusMutex, messageMutex, pool, requests, inbox, written,
                   arrivals, lost, dangling>>

ProcessorWait ==
    /\ pc["processor"] = "commit"
    /\ processingMutex' = "nobody"
    /\ Go("processor", "waiting")
    /\ UNCHANGED <<main, run, consensusMutex, messageMutex, queues, lost, dangling>>

\* A transaction enters the pool, which wakes the consensus thread; a proposal,
\* an inventory or a request only looks.  Some of them are answered.
ProcessorProcess ==
    /\ pc["processor"] = "process"
    /\ poolIsFree
    /\ Use({"data", "consensus"})
    /\ \E next \in {"answer", "loop"} :
        \/ /\ pool < MaxPool
           /\ pool' = pool + 1
           /\ pc' = [added EXCEPT !["processor"] = next]
        \/ /\ Go("processor", next)
           /\ UNCHANGED pool
    /\ UNCHANGED <<main, run, mutexes, processing, requests, inbox, written, arrivals, lost>>

ProcessorAnswer ==
    /\ pc["processor"] = "answer"
    /\ messageMutex = "nobody" /\ requests < MaxQueue
    /\ requests' = requests + 1
    /\ Go("processor", "loop")
    /\ UNCHANGED <<main, run, mutexes, pool, processing, inbox, written, arrivals, lost,
                   dangling>>

messageProcessor ==
    \/ ProcessorLoop
    \/ ProcessorTest
    \/ ProcessorWait
    \/ ProcessorProcess
    \/ ProcessorAnswer

-----------------------------------------------------------------------------
(* The thread of the connection manager *)

\* poll waits for a second at most.
ManagerLoop ==
    /\ pc["manager"] = "loop"
    /\ \/ ~ run["manager"] /\ Go("manager", "ended")
       \/ run["manager"] /\ Go("manager", "read")
    /\ UNCHANGED <<main, run, mutexes, queues, lost, dangling>>

\* A message goes to the queue of the processor, which is woken.
ManagerRead ==
    /\ pc["manager"] = "read"
    /\ \/ /\ inbox > 0
          /\ processingMutex = "nobody" /\ processing < MaxQueue
          /\ inbox' = inbox - 1
          /\ processing' = processing + 1
          /\ Use({"processor"})
          /\ pc' = Woken("processor")
       \/ /\ Go("manager", "send")
          /\ UNCHANGED <<inbox, processing, dangling>>
    /\ UNCHANGED <<main, run, mutexes, pool, requests, written, arrivals, lost>>

\* processMessageQueueRequests holds the mutex until the queue is empty.
ManagerLock ==
    /\ pc["manager"] = "send"
    /\ messageMutex = "nobody"
    /\ IF requests > 0 THEN messageMutex' = "manager" /\ Go("manager", "sending")
       ELSE Go("manager", "loop") /\ UNCHANGED messageMutex
    /\ UNCHANGED <<main, run, consensusMutex, processingMutex, queues, lost, dangling>>

\* send on a blocking socket waits for the peer.
ManagerSend ==
    /\ pc["manager"] = "sending"
    /\ \/ /\ requests > 0 /\ written < Window
          /\ requests' = requests - 1
          /\ written' = written + 1
          /\ UNCHANGED <<messageMutex, pc>>
       \/ /\ requests = 0
          /\ messageMutex' = "nobody"
          /\ Go("manager", "loop")
          /\ UNCHANGED <<requests, written>>
    /\ UNCHANGED <<main, run, consensusMutex, processingMutex, pool, processing, inbox,
                   arrivals, lost, dangling>>

manageConnections ==
    \/ ManagerLoop
    \/ ManagerRead
    \/ ManagerLock
    \/ ManagerSend

-----------------------------------------------------------------------------
(* The main thread *)

\* createTransaction: the message first, the pool afterwards.
CreateTransaction ==
    /\ stage = "ui" /\ arrivals < MaxArrivals
    /\ messageMutex = "nobody" /\ requests < MaxQueue
    /\ arrivals' = arrivals + 1
    /\ requests' = requests + 1
    /\ stage' = "pool"
    /\ UNCHANGED <<worker, run, pc, mutexes, pool, processing, inbox, written, lost, dangling>>

PoolTransaction ==
    /\ stage = "pool"
    /\ poolIsFree
    /\ pool' = IF pool < MaxPool THEN pool + 1 ELSE pool
    /\ pc' = added
    /\ stage' = "ui"
    /\ UNCHANGED <<worker, run, mutexes, processing, requests, inbox, written, arrivals, lost,
                   dangling>>

\* exit: ~PQBModel saves the wallet and deletes the data.
Exit ==
    /\ stage = "ui"
    /\ stage' = "clear"
    /\ UNCHANGED <<worker, run, pc, mutexes, queues, lost, dangling>>

\* The destructors of the workers clear the flag without the mutex ...
ClearRun ==
    /\ stage = "clear"
    /\ run' = [run EXCEPT ![Deletion[worker]] = FALSE]
    /\ stage' = "notify"
    /\ UNCHANGED <<worker, pc, mutexes, queues, lost, dangling>>

\* Mutant of notified: the thread is not told that the flag has changed.
notNotified(w) == pc

notified(w) == Woken(w)

\* ... and notify without it.  The connection manager is not waiting for that.
Notify ==
    LET w == Deletion[worker]
    IN  /\ stage = "notify"
        /\ pc' = notified(w)
        /\ lost' = IF pc[w] = "commit" THEN lost \union {w} ELSE lost
        /\ stage' = "join"
        /\ UNCHANGED <<worker, run, mutexes, queues, dangling>>

Join ==
    /\ stage = "join"
    /\ pc[Deletion[worker]] = "ended"
    /\ IF worker < Len(Deletion)
       THEN stage' = "clear" /\ worker' = worker + 1
       ELSE stage' = "ended" /\ UNCHANGED worker
    /\ UNCHANGED <<run, pc, mutexes, queues, lost, dangling>>

Destruct ==
    \/ ClearRun
    \/ Notify
    \/ Join

-----------------------------------------------------------------------------
(* The peers *)

PeerSends ==
    /\ arrivals < MaxArrivals /\ inbox < MaxQueue
    /\ arrivals' = arrivals + 1
    /\ inbox' = inbox + 1
    /\ UNCHANGED <<main, run, pc, mutexes, pool, processing, requests, written, lost, dangling>>

PeerReads ==
    /\ written > 0
    /\ written' = written - 1
    /\ UNCHANGED <<main, run, pc, mutexes, pool, processing, requests, inbox, arrivals, lost,
                   dangling>>

ThreadsNext ==
    \/ consensusThread
    \/ messageProcessor
    \/ manageConnections
    \/ CreateTransaction
    \/ PoolTransaction
    \/ Exit
    \/ Destruct
    \/ PeerSends
    \/ PeerReads

ThreadsSpec == ThreadsInit /\ [][ThreadsNext]_threadsVars

\* Every thread is scheduled; nobody has to exit, to send or to read.
ThreadsRun ==
    /\ WF_threadsVars(consensusThread)
    /\ WF_threadsVars(messageProcessor)
    /\ WF_threadsVars(manageConnections)
    /\ WF_threadsVars(PoolTransaction)
    /\ WF_threadsVars(Destruct)

ThreadsFairSpec == ThreadsSpec /\ ThreadsRun

-----------------------------------------------------------------------------
(* Properties *)

Label == {"loop", "test", "commit", "waiting", "woken", "tick", "share", "process", "answer",
          "read", "send", "sending", "ended"}

ThreadsTypeOK ==
    /\ stage \in {"ui", "pool", "clear", "notify", "join", "ended"}
    /\ worker \in 1 .. Len(Deletion)
    /\ run \in [Worker -> BOOLEAN]
    /\ pc \in [Worker -> Label]
    /\ consensusMutex = IF pc["consensus"] \in {"test", "commit", "tick", "share"}
                        THEN "consensus" ELSE "nobody"
    /\ processingMutex = IF pc["processor"] \in {"test", "commit"} THEN "processor" ELSE "nobody"
    /\ messageMutex = IF pc["manager"] = "sending" THEN "manager" ELSE "nobody"
    /\ pool \in 0 .. MaxPool
    /\ {processing, requests, inbox} \subseteq 0 .. MaxQueue
    /\ written \in 0 .. Window

\* A thread that waits on its condition variable has nothing to do: a transaction
\* or a message that came between its test and its wait would lie there until the
\* next one comes (the only other thing that wakes it is the end of the process).
SleepersHaveNoWork ==
    /\ pc["consensus"] = "waiting" => pool = 0
    /\ pc["processor"] = "waiting" => processing = 0

PeersRead == WF_threadsVars(PeerReads)

\* As long as every peer goes on reading, a transaction in the pool makes the
\* consensus thread tick, unless the user ends the program.  With a peer that
\* stops reading this is false: the manager waits in send with the mutex of the
\* requests, and the consensus thread waits for that mutex in share.
PoolIsServed ==
    PeersRead => (pool > 0 ~> (pc["consensus"] = "tick" \/ pool = 0 \/ stage \notin {"ui", "pool"}))

\* ~PQBModel ends, as long as peers read and no worker was notified when it had
\* tested its flag and did not wait yet.  (The use of an object that was deleted,
\* which dangling records, is taken to have no effect here.)
ShutdownEnds ==
    PeersRead => (stage = "clear" ~> (stage = "ended" \/ lost # {}))
=============================================================================
