---------------------------- MODULE UpdaterAgent ----------------------------
(***************************************************************************)
(* The updater agent (rust/agents/updater) and the Home it attests for.    *)
(* The agent is one process of three tasks: an indexer that copies Update  *)
(* events into the database, a producer that signs what Home suggests, and *)
(* a submitter that sends what was signed.  Each step below runs up to the *)
(* next await that lets another task, another process or the chain move.   *)
(* The database survives the process; everything else is lost when it      *)
(* stops, except for the transactions it has already broadcast.            *)
(***************************************************************************)
EXTENDS Naturals, Sequences, SequencesExt

CONSTANTS Domains, Payloads, Accounts, Managers, Forged, MaxLeaves, NonceSpace,
    Agent,       \* the key of the agent
    Successors,  \* the accounts the owner may make the updater later
    None,        \* no value
    MaxStops     \* bound: how often the process is killed

VARIABLES updater, state, committedRoot, nonces, leaves, queue, updates, slashed,
          updaterManager, managerUpdater, managerOfHome, signed

VARIABLES
    running,        \* whether the process is up
    latestRoot,     \* database, LATEST_ROOT
    produced,       \* database, UPDATER_PRODUCED_UPDATE: old root -> new root
    cursor,         \* the Update events the indexer has got to
    stage,          \* what the producer is at
    candidate,      \* UpdateProducer: suggested
    submitterRoot,  \* UpdateSubmitter: committed_root
    pending,        \* the update whose transaction the submitter is waiting for
    broadcast,      \* every update the submitter has sent out
    stops           \* how often the process was killed

homeVars == <<updater, state, committedRoot, nonces, leaves, queue, updates, slashed,
              updaterManager, managerUpdater, managerOfHome>>
indexVars == <<latestRoot, cursor>>
produceVars == <<produced, signed, stage, candidate>>
submitVars == <<submitterRoot, pending, broadcast>>
agentVars == <<running, indexVars, produceVars, submitVars, stops>>
vars == <<homeVars, agentVars>>

H == INSTANCE Home WITH Honest <- {Agent}

Update == [oldRoot : H!Root, newRoot : H!Root]

ASSUME AgentAssumption ==
    /\ H!HomeAssumption
    /\ None \notin Update
    /\ Agent \in Accounts
    /\ Successors \subseteq Accounts
    /\ MaxStops \in Nat

Init ==
    /\ H!Init
    /\ updater = Agent
    /\ running = FALSE
    /\ latestRoot = None
    /\ produced = [r \in {} |-> r]
    /\ cursor = 0
    /\ stage = "polling"
    /\ candidate = None
    /\ submitterRoot = None
    /\ pending = None
    /\ broadcast = {}
    /\ stops = 0

-----------------------------------------------------------------------------
(* Faults.  None of these is part of the system: each is a slip a           *)
(* maintainer could make in the operator it is named after.                 *)

ResumePointsFault == 0 .. cursor + 1             \* a block may be skipped
ConflictsFault(a) == FALSE                       \* the record of produced updates is not read

-----------------------------------------------------------------------------
(* The process *)

\* UPDATES_LAST_INSPECTED is the start of the last chunk, so the indexer goes
\* back some events when the process restarts.
ResumePoints == 0 .. cursor

\* run checks that its key is the updater before it spawns the tasks.
Start ==
    /\ ~running
    /\ updater = Agent
    /\ running' = TRUE
    /\ cursor' \in ResumePoints
    /\ UNCHANGED <<homeVars, latestRoot, produceVars, submitVars, stops>>

\* Any task that ends takes the process with it, and with it what is in memory.
Exit ==
    /\ running' = FALSE
    /\ stage' = "polling"
    /\ candidate' = None
    /\ submitterRoot' = None
    /\ pending' = None
    /\ UNCHANGED <<homeVars, indexVars, produced, signed, broadcast>>

\* A kill, a lost connection, a transaction dropped from the mempool.
Stop ==
    /\ running
    /\ stops < MaxStops
    /\ stops' = stops + 1
    /\ Exit

-----------------------------------------------------------------------------
(* The indexer: ContractSync::sync_updates and OpticsDB::store_latest_update *)

Index ==
    /\ running
    /\ cursor < Len(updates)
    /\ cursor' = cursor + 1
    /\ latestRoot' = IF latestRoot \in {None, updates[cursor'].oldRoot}
                     THEN updates[cursor'].newRoot
                     ELSE latestRoot
    /\ UNCHANGED <<homeVars, running, produceVars, submitVars, stops>>

-----------------------------------------------------------------------------
(* The producer: UpdateProducer::spawn *)

LatestRoot == IF latestRoot = None THEN H!ZeroRoot ELSE latestRoot

\* The database holds another update from the same old root.
Conflicts(a) == a.oldRoot \in DOMAIN produced /\ produced[a.oldRoot] # a.newRoot

\* suggestUpdate has an answer, and it builds on the root the indexer knows.
Suggest ==
    /\ running
    /\ stage = "polling"
    /\ queue # <<>>
    /\ committedRoot = LatestRoot
    /\ candidate' = [oldRoot |-> committedRoot, newRoot |-> Last(queue)]
    /\ ~Conflicts(candidate')
    /\ stage' = "pausing"
    /\ UNCHANGED <<homeVars, running, indexVars, produced, signed, submitVars, stops>>

\* The second look after the pause.
StillCurrent ==
    /\ LatestRoot = candidate.oldRoot
    /\ queue # <<>>
    /\ committedRoot = candidate.oldRoot

Recheck ==
    /\ running
    /\ stage = "pausing"
    /\ IF StillCurrent
       THEN stage' = "signing" /\ UNCHANGED candidate
       ELSE stage' = "polling" /\ candidate' = None
    /\ UNCHANGED <<homeVars, running, indexVars, produced, signed, submitVars, stops>>

\* sign_with, then store_produced_update, whose error ends the agent.  Until it
\* is stored nobody but the producer has seen the signature.
SignAndStore ==
    /\ running
    /\ stage = "signing"
    /\ IF Conflicts(candidate)
       THEN Exit /\ UNCHANGED stops
       ELSE /\ produced' = [r \in DOMAIN produced \cup {candidate.oldRoot} |->
                                IF r = candidate.oldRoot THEN candidate.newRoot ELSE produced[r]]
            /\ signed' = signed \cup {[by |-> Agent, oldRoot |-> candidate.oldRoot,
                                       newRoot |-> candidate.newRoot]}
            /\ stage' = "polling"
            /\ candidate' = None
            /\ UNCHANGED <<homeVars, running, indexVars, submitVars, stops>>

-----------------------------------------------------------------------------
(* The submitter: UpdateSubmitter::spawn *)

\* What a transaction with this update would do to Home now: run, or revert.
Executable(a) ==
    /\ state # "Failed"
    /\ updater = Agent
    /\ committedRoot = a.oldRoot

ReadRoot ==
    /\ running
    /\ submitterRoot = None
    /\ submitterRoot' = committedRoot
    /\ UNCHANGED <<homeVars, running, indexVars, produceVars, pending, broadcast, stops>>

\* A transaction that would revert fails already when its gas is estimated,
\* and the error ends the agent.
Submit ==
    /\ running
    /\ pending = None
    /\ submitterRoot \in DOMAIN produced
    /\ LET a == [oldRoot |-> submitterRoot, newRoot |-> produced[submitterRoot]]
       IN IF Executable(a)
          THEN /\ pending' = a
               /\ broadcast' = broadcast \cup {a}
               /\ UNCHANGED <<homeVars, running, indexVars, produceVars, submitterRoot, stops>>
          ELSE Exit /\ UNCHANGED stops

\* The transaction is mined, run or reverted: the submitter does not ask which
\* and goes on from the root it has sent.
Receipt ==
    /\ running
    /\ pending # None
    /\ ~Executable(pending)
    /\ submitterRoot' = pending.newRoot
    /\ pending' = None
    /\ UNCHANGED <<homeVars, running, indexVars, produceVars, broadcast, stops>>

-----------------------------------------------------------------------------
(* The chain *)

OnChain(A) == A /\ UNCHANGED agentVars

\* A broadcast update is included, whoever sends the transaction in the end.
Include == \E a \in broadcast : OnChain(H!Update(Agent, a.oldRoot, a.newRoot))

Chain ==
    \/ \E d \in Domains, payload \in Payloads : OnChain(H!Dispatch(d, payload))
    \/ \E u \in Accounts \ {Agent}, old, new \in H!Presentable : OnChain(H!Update(u, old, new))
    \/ \E u \in Accounts \ {Agent}, old, new1, new2 \in H!Presentable :
            OnChain(H!DoubleUpdate(u, old, new1, new2))
    \/ \E m \in Managers : OnChain(H!SetHome(m, TRUE))
    \/ \E m \in Managers, u \in Successors : OnChain(H!SetUpdater(m, u))

Next ==
    \/ Start
    \/ Stop
    \/ Index
    \/ Suggest
    \/ Recheck
    \/ SignAndStore
    \/ ReadRoot
    \/ Submit
    \/ Receipt
    \/ Include
    \/ Chain

Spec == Init /\ [][Next]_vars

\* The agent is restarted whenever it is down, its tasks are polled by the
\* runtime, and its transactions are mined.
FairSpec ==
    /\ Spec
    /\ WF_vars(Start)
    /\ WF_vars(Index)
    /\ WF_vars(Suggest) /\ WF_vars(Recheck) /\ WF_vars(SignAndStore)
    /\ WF_vars(ReadRoot) /\ WF_vars(Submit) /\ WF_vars(Receipt)
    /\ WF_vars(Include)

-----------------------------------------------------------------------------
(* Properties *)

\* Every variable holds a value of the shape its declaration promises, and
\* the indexer has not got further than the chain.
TypeOK ==
    /\ H!TypeOK
    /\ running \in BOOLEAN
    /\ latestRoot \in H!Root \cup {None}
    /\ DOMAIN produced \subseteq H!Root
    /\ \A r \in DOMAIN produced : produced[r] \in H!Root
    /\ cursor \in 0 .. Len(updates)
    /\ stage \in {"polling", "pausing", "signing"}
    /\ candidate \in Update \cup {None}
    /\ (candidate = None) = (stage = "polling")
    /\ submitterRoot \in H!Root \cup {None}
    /\ pending \in Update \cup {None}
    /\ broadcast \subseteq Update
    /\ stops \in 0 .. MaxStops

\* The agent is an honest updater in the sense of module Home: through kills
\* and restarts, stale reads and rotations, what it makes public is one
\* attestation per committed root, each on a whole tree.  Every property of
\* Home that assumes an honest updater holds for this agent.
ImplementsHome == H!Spec

\* As long as the key stays in office, going on from the submitted root without
\* a look at the outcome of the transaction never takes the submitter past the
\* chain, where it would wait for an update nobody will produce.
SubmitterNotAhead ==
    [](updater = Agent) =>
        [](submitterRoot # None => submitterRoot \in H!Committed)

\* As long as the key stays in office, every dispatched message is under the
\* committed root in the end: the three tasks never wait for one another in a
\* circle, whatever was stored, signed or broadcast before the process died.
MessagesAreNotarized ==
    [](updater = Agent) =>
        \A n \in 1 .. MaxLeaves : Len(leaves) >= n ~> Len(committedRoot) >= n

=============================================================================
