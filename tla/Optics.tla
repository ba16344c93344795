------------------------------- MODULE Optics -------------------------------
(***************************************************************************)
(* A Home and one of its Replicas, joined by the signed updates and the    *)
(* messages that anybody may carry from one chain to the other: relayers,  *)
(* processors and watchers are just callers here, in any number, any order *)
(* and at any time.  Both contracts start with the same updater, which     *)
(* either follows the protocol or signs whatever it likes.                 *)
(***************************************************************************)
EXTENDS Naturals, Sequences, SequencesExt

CONSTANTS Domains, Payloads, Accounts, Honest, Managers, Forged, MaxLeaves, NonceSpace,
          Roots, LocalDomain, OptimisticSeconds, StartTime, MaxTime, MaxUpdates
          \* Roots bounds what the replica is told; the others are those of Home and Replica

VARIABLES homeUpdater, homeState, homeRoot, nonces, leaves, queue, homeUpdates, slashed,
          updaterManager, managerUpdater, managerOfHome, signed,
          replicaUpdater, replicaState, replicaRoot, confirmAt, messages, entered, now,
          calls, replicaUpdates, handled

homeVars == <<homeUpdater, homeState, homeRoot, nonces, leaves, queue, homeUpdates, slashed,
              updaterManager, managerUpdater, managerOfHome, signed>>
replicaVars == <<replicaUpdater, replicaState, replicaRoot, confirmAt, messages, entered, now,
                 calls, replicaUpdates, handled>>
vars == <<homeVars, replicaVars>>

H == INSTANCE Home WITH
        updater <- homeUpdater, state <- homeState, committedRoot <- homeRoot,
        updates <- homeUpdates

R == INSTANCE Replica WITH
        updater <- replicaUpdater, state <- replicaState, committedRoot <- replicaRoot,
        updates <- replicaUpdates, Messages <- H!Message, InitialRoot <- H!ZeroRoot

ASSUME OpticsAssumption == H!HomeAssumption /\ R!ReplicaAssumption

\* The replica is initialized with the updater and the committed root of Home.
Init ==
    /\ H!Init
    /\ R!Init
    /\ replicaUpdater = homeUpdater

\* A signature on an update exists: a key outside Honest provides any.
Signable(by, oldRoot, newRoot) ==
    by \in Honest => [by |-> by, oldRoot |-> oldRoot, newRoot |-> newRoot] \in signed

-----------------------------------------------------------------------------
OnHome(A) == A /\ UNCHANGED replicaVars
OnReplica(A) == A /\ UNCHANGED homeVars

Send ==
    \E d \in Domains, payload \in Payloads : OnHome(H!Dispatch(d, payload))

Notarize ==
    \/ \E u \in Honest, old \in H!Committed, new \in Prefixes(leaves) : OnHome(H!Attest(u, old, new))
    \/ \E u \in Accounts, old, new \in H!Presentable : OnHome(H!Update(u, old, new))

DisputeOnHome ==
    \E u \in Accounts, old, new1, new2 \in H!Presentable :
        OnHome(H!DoubleUpdate(u, old, new1, new2))

\* The deployer's last step; Home is not reconfigured afterwards.
Configure == \E m \in Managers : m \notin managerOfHome /\ OnHome(H!SetHome(m, TRUE))

Relay ==
    \E u \in Accounts, old, new \in H!Presentable \cap Roots :
        /\ Len(replicaUpdates) < MaxUpdates
        /\ Signable(u, old, new)
        /\ OnReplica(R!Update(u, old, new))

DisputeOnReplica ==
    \E u \in Accounts, old, new1, new2 \in H!Presentable \cap Roots :
        /\ Signable(u, old, new1)
        /\ Signable(u, old, new2)
        /\ OnReplica(R!DoubleUpdate(u, old, new1, new2))

Deliver ==
    \E m \in UNION {ToSet(r) : r \in Roots} :
        \/ \E root \in Roots : OnReplica(R!Prove(m, root))
        \/ OnReplica(R!Process(m))
        \/ \E root \in Roots : OnReplica(R!ProveAndProcess(m, root))

Next ==
    \/ Send
    \/ Notarize
    \/ DisputeOnHome
    \/ Configure
    \/ Relay
    \/ DisputeOnReplica
    \/ Deliver
    \/ OnReplica(R!Return)
    \/ OnReplica(R!Tick)

-----------------------------------------------------------------------------
(* What the two logs of Update events prove to anybody who reads both       *)

Published ==
    {homeUpdates[i] : i \in 1 .. Len(homeUpdates)} \cup
    {[by |-> replicaUpdater, oldRoot |-> u.oldRoot, newRoot |-> u.newRoot] : u \in ToSet(replicaUpdates)}

\* Two updates that doubleUpdate of Home would fail it for.
DoublePublished ==
    \E a, b \in Published :
        /\ a.by = homeUpdater /\ b.by = homeUpdater
        /\ a.oldRoot = b.oldRoot /\ a.newRoot # b.newRoot

\* An update between two roots that Home computed, one after the other.
Genuine(u) ==
    /\ IsStrictPrefix(u.oldRoot, u.newRoot)
    /\ IsPrefix(u.newRoot, leaves)

\* A run of updates of the replica that Home would accept if they were
\* submitted to it one by one, but for the last, which it would fail on.
ImproperPublished ==
    \E i, j \in 1 .. Len(replicaUpdates) :
        /\ i <= j
        /\ replicaUpdates[i].oldRoot = homeRoot
        /\ \A k \in i .. j - 1 : Genuine(replicaUpdates[k])
        /\ ~Genuine(replicaUpdates[j])
        /\ replicaUpdater = homeUpdater

Disputed == homeState = "Failed" \/ DoublePublished \/ ImproperPublished

\* Somebody submits the published updates to Home (a relayer of replica
\* updates, or a watcher).
Expose ==
    \/ \E a \in Published : OnHome(H!Update(a.by, a.oldRoot, a.newRoot))
    \/ \E a, b \in Published :
          a.by = b.by /\ a.oldRoot = b.oldRoot /\
          OnHome(H!DoubleUpdate(a.by, a.oldRoot, a.newRoot, b.newRoot))

Spec == Init /\ [][Next]_vars

FairSpec == Spec /\ WF_vars(Configure) /\ WF_vars(Expose)

-----------------------------------------------------------------------------
(* Properties *)

\* Whatever the updater signs and in whatever order the two chains are told,
\* a replica never accepts an update that Home did not allow without the two
\* logs proving the lie to Home: "all frauds may be published by any
\* participant, all published frauds may be slashed" (docs/README.md).
FraudIsProvable ==
    (\E i \in 1 .. Len(replicaUpdates) : ~Genuine(replicaUpdates[i])) => Disputed

\* An updater that signs what Home suggests, once per committed root, is
\* never in dispute, and its replica never leaves the history of Home.
HonestIsNeverDisputed ==
    replicaUpdater \in Honest =>
        /\ ~Disputed
        /\ IsPrefix(replicaRoot, leaves)

\* Home and Replica together are an optimistic channel: every call of a recipient
\* is one Receive of the channel, so a second call for a message is none.
Channel == INSTANCE OptimisticChannel WITH
    Messages <- H!Message,
    sent <- ToSet(leaves),
    received <- [i \in 1 .. Len(handled) |-> handled[i].message],
    disputed <- Disputed

ImplementsChannel == Channel!Spec

\* If somebody carries published updates to Home, a lie told to the replica
\* ends with Home failed, unless later messages make it true.
FraudIsPunished == Disputed ~> homeState = "Failed" \/ ~Disputed

=============================================================================
