-------------------------------- MODULE Home --------------------------------
(***************************************************************************)
(* The Home contract of one chain (Home.sol with its base Common.sol), the *)
(* UpdaterManager contracts that may govern its updater, and the keys that *)
(* sign updates.                                                           *)
(*                                                                         *)
(* A Merkle root is represented by the sequence of leaves it commits to:   *)
(* the hash is collision free, so two trees have the same root iff they    *)
(* have the same leaves.  The root of the empty tree is never computed by  *)
(* the contract (dispatch inserts before it asks for the root), which      *)
(* leaves <<>> free to stand for bytes32(0), the root Home starts from.    *)
(* A leaf is the message it is the hash of.                                *)
(***************************************************************************)
EXTENDS Naturals, Sequences, SequencesExt

CONSTANTS
    Domains,      \* destination domains
    Payloads,     \* sender, recipient and body of a message, as one value
    Accounts,     \* keys that can sign updates
    Honest,       \* the keys held by an updater agent that follows the protocol
    Managers,     \* UpdaterManager contracts
    Forged,       \* roots that may be signed although Home never computed them
    MaxLeaves,    \* MerkleLib.MAX_LEAVES, 2^32 - 1
    NonceSpace    \* number of values of a nonce, 2^32

Message == [destination : Domains, nonce : 0 .. NonceSpace - 1, payload : Payloads]

Root == Seq(Message)

ZeroRoot == <<>>

ASSUME HomeAssumption ==
    /\ MaxLeaves \in Nat
    /\ NonceSpace \in Nat
    /\ MaxLeaves < NonceSpace
    /\ Honest \subseteq Accounts
    /\ Forged \subseteq Root

VARIABLES
    updater,        \* Common.updater: the key whose signatures Home accepts
    state,          \* Common.state
    committedRoot,  \* Common.committedRoot
    nonces,         \* Home.nonces
    leaves,         \* the leaves inserted in MerkleTreeManager.tree
    queue,          \* QueueManager.queue: roots not yet signed for
    updates,        \* the Update events emitted so far, oldest first, with their signer
    slashed,        \* the accounts named by UpdaterSlashed events
    updaterManager, \* Home.updaterManager
    managerUpdater, \* UpdaterManager._updater, of every manager
    managerOfHome,  \* managers whose UpdaterManager.home is this Home
    signed          \* the attestations honest keys have signed

contractVars == <<updater, state, committedRoot, nonces, leaves, queue, updates, slashed>>
managerVars == <<updaterManager, managerUpdater, managerOfHome>>
vars == <<contractVars, managerVars, signed>>

Attestation == [by : Accounts, oldRoot : Root, newRoot : Root]

(***************************************************************************)
(* Home is initialized with a manager that names the first updater; the    *)
(* deployer points the manager back at Home in a later transaction.        *)
(***************************************************************************)
Init ==
    /\ updaterManager \in Managers
    /\ managerUpdater \in [Managers -> Accounts]
    /\ managerOfHome = {}
    /\ updater = managerUpdater[updaterManager]
    /\ state = "Active"
    /\ committedRoot = ZeroRoot
    /\ nonces = [d \in Domains |-> 0]
    /\ leaves = <<>>
    /\ queue = <<>>
    /\ updates = <<>>
    /\ slashed = {}
    /\ signed = {}

-----------------------------------------------------------------------------
(* Signatures *)

\* ECDSA recovery against the current updater.  A key outside Honest signs
\* whatever it likes, whenever it likes; an honest key only what Attest says.
IsUpdaterSignature(by, oldRoot, newRoot) ==
    /\ by = updater
    /\ by \in Honest => [by |-> by, oldRoot |-> oldRoot, newRoot |-> newRoot] \in signed

-----------------------------------------------------------------------------
(* Faults.  None of these is part of the system: each is a slip a           *)
(* maintainer could make in the operator it is named after, and a property  *)
(* of this module notices when it takes that operator's place.              *)

NotFailedFault == state # "UnInitialized"                  \* the wrong member of the enum
TreeHasRoomFault == Len(leaves) <= MaxLeaves               \* off by one
TakeNonceFault(d) == nonces' = [e \in Domains |-> (nonces[e] + 1) % NonceSpace]
EnqueueFault(root) == queue' = <<root>>                    \* only the latest root is kept
DequeueUntilFault(newRoot) ==                              \* the new root stays queued
    \E k \in 1 .. Len(queue) :
        queue[k] = newRoot /\ queue' = SubSeq(queue, k, Len(queue))
CurrentUpdateFault(by, oldRoot, newRoot) ==                \* the old root is not compared
    state # "Failed" /\ IsUpdaterSignature(by, oldRoot, newRoot)
ConflictingUpdatesFault(by, oldRoot, newRoot1, newRoot2) == \* the same update twice
    IsUpdaterSignature(by, oldRoot, newRoot1) /\ IsUpdaterSignature(by, oldRoot, newRoot2)
ConflictingUpdatesStaleFault(by, oldRoot, newRoot1, newRoot2) == \* on the current root only
    /\ oldRoot = committedRoot
    /\ IsUpdaterSignature(by, oldRoot, newRoot1)
    /\ IsUpdaterSignature(by, oldRoot, newRoot2)
    /\ newRoot1 # newRoot2
FreshRootFault(u, oldRoot) == TRUE                         \* signs whenever it is polled

-----------------------------------------------------------------------------
(* What the operations of Home are made of *)

NotFailed == state # "Failed"

\* MerkleLib.insert reverts on a full tree.
TreeHasRoom == Len(leaves) < MaxLeaves

\* The uint32 counter of a destination is incremented unchecked.
TakeNonce(d) == nonces' = [nonces EXCEPT ![d] = (@ + 1) % NonceSpace]

Enqueue(root) == queue' = Append(queue, root)

\* update dequeues until it meets the new root.
DequeueUntil(newRoot) ==
    \E k \in 1 .. Len(queue) :
        /\ queue[k] = newRoot
        /\ \A j \in 1 .. k - 1 : queue[j] # newRoot
        /\ queue' = SubSeq(queue, k + 1, Len(queue))

\* The requires of improperUpdate, which update calls first.
CurrentUpdate(by, oldRoot, newRoot) ==
    /\ NotFailed
    /\ IsUpdaterSignature(by, oldRoot, newRoot)
    /\ oldRoot = committedRoot

\* What doubleUpdate asks of its two signatures.
ConflictingUpdates(by, oldRoot, newRoot1, newRoot2) ==
    /\ IsUpdaterSignature(by, oldRoot, newRoot1)
    /\ IsUpdaterSignature(by, oldRoot, newRoot2)
    /\ newRoot1 # newRoot2

\* Home._fail: slashUpdater only answers the Home the manager is set to, and
\* a revert there undoes the whole transaction.
Fail ==
    /\ updaterManager \in managerOfHome
    /\ state' = "Failed"
    /\ slashed' = slashed \cup {updater}
    /\ UNCHANGED <<updater, committedRoot, nonces, leaves, queue, updates>>

-----------------------------------------------------------------------------
(* Home: external functions *)

Dispatch(d, payload) ==
    /\ NotFailed
    /\ TreeHasRoom
    /\ leaves' = Append(leaves, [destination |-> d, nonce |-> nonces[d], payload |-> payload])
    /\ TakeNonce(d)
    /\ Enqueue(leaves')
    /\ UNCHANGED <<updater, state, committedRoot, updates, slashed, managerVars, signed>>

\* A call with a queued root returns FALSE and changes nothing.
ImproperUpdate(by, oldRoot, newRoot) ==
    /\ CurrentUpdate(by, oldRoot, newRoot)
    /\ newRoot \notin ToSet(queue)
    /\ Fail
    /\ UNCHANGED <<managerVars, signed>>

\* update, when improperUpdate has found nothing wrong.
AcceptUpdate(by, oldRoot, newRoot) ==
    /\ CurrentUpdate(by, oldRoot, newRoot)
    /\ DequeueUntil(newRoot)
    /\ committedRoot' = newRoot
    /\ updates' = Append(updates, [by |-> by, oldRoot |-> oldRoot, newRoot |-> newRoot])
    /\ UNCHANGED <<updater, state, nonces, leaves, slashed, managerVars, signed>>

Update(by, oldRoot, newRoot) ==
    ImproperUpdate(by, oldRoot, newRoot) \/ AcceptUpdate(by, oldRoot, newRoot)

\* Signatures that do not conflict, or are not the updater's, change nothing.
DoubleUpdate(by, oldRoot, newRoot1, newRoot2) ==
    /\ NotFailed
    /\ ConflictingUpdates(by, oldRoot, newRoot1, newRoot2)
    /\ Fail
    /\ UNCHANGED <<managerVars, signed>>

\* The owner of Home; the updater stays the one the old manager chose.
SetUpdaterManager(m) ==
    /\ updaterManager' = m
    /\ UNCHANGED <<contractVars, managerUpdater, managerOfHome, signed>>

-----------------------------------------------------------------------------
(* UpdaterManager: functions of its owner *)

SetHome(m, isThisHome) ==
    /\ managerOfHome' = IF isThisHome THEN managerOfHome \cup {m} ELSE managerOfHome \ {m}
    /\ UNCHANGED <<contractVars, updaterManager, managerUpdater, signed>>

\* Home.setUpdater reverts, and the whole call with it, unless Home is
\* governed by this manager.  A manager of another Home rotates that one.
SetUpdater(m, account) ==
    /\ managerUpdater' = [managerUpdater EXCEPT ![m] = account]
    /\ IF m \in managerOfHome
       THEN m = updaterManager /\ updater' = account
       ELSE UNCHANGED updater
    /\ UNCHANGED <<state, committedRoot, nonces, leaves, queue, updates, slashed,
                   updaterManager, managerOfHome, signed>>

-----------------------------------------------------------------------------
(* The holders of honest keys *)

\* The roots suggestUpdate may have answered as the old root, by now.
Committed == {ZeroRoot} \cup {updates[i].newRoot : i \in 1 .. Len(updates)}

\* No attestation is stored under this old root yet.
FreshRoot(u, oldRoot) == \A a \in signed : a.by = u => a.oldRoot # oldRoot

\* An honest updater signs an answer of suggestUpdate, which may be stale by
\* the time it is signed (module UpdaterAgent has the agent in full): a committed
\* root, and under it the whole tree of that time.
Attest(u, oldRoot, newRoot) ==
    /\ IsStrictPrefix(oldRoot, newRoot)
    /\ FreshRoot(u, oldRoot)
    /\ signed' = signed \cup {[by |-> u, oldRoot |-> oldRoot, newRoot |-> newRoot]}
    /\ UNCHANGED <<contractVars, managerVars>>

\* The roots a caller may present: those Home has computed, and forged ones.
Presentable == Prefixes(leaves) \cup Forged

Next ==
    \/ \E d \in Domains, payload \in Payloads : Dispatch(d, payload)
    \/ \E u \in Accounts, old \in Presentable, new \in Presentable : Update(u, old, new)
    \/ \E u \in Accounts, old \in Presentable, new \in Presentable : ImproperUpdate(u, old, new)
    \/ \E u \in Accounts, old, new1, new2 \in Presentable : DoubleUpdate(u, old, new1, new2)
    \/ \E m \in Managers : SetUpdaterManager(m)
    \/ \E m \in Managers, isThisHome \in BOOLEAN : SetHome(m, isThisHome)
    \/ \E m \in Managers, u \in Accounts : SetUpdater(m, u)
    \/ \E u \in Honest, old \in Committed, new \in Prefixes(leaves) : Attest(u, old, new)

Spec == Init /\ [][Next]_vars

-----------------------------------------------------------------------------
(* Properties *)

\* Every variable holds a value of the shape its declaration promises.
TypeOK ==
    /\ updater \in Accounts
    /\ state \in {"Active", "Failed"}
    /\ committedRoot \in Root
    /\ nonces \in [Domains -> 0 .. NonceSpace - 1]
    /\ leaves \in Seq(Message)
    /\ Len(leaves) <= MaxLeaves
    /\ queue \in Seq(Root)
    /\ updates \in Seq(Attestation)
    /\ slashed \subseteq Accounts
    /\ updaterManager \in Managers
    /\ managerUpdater \in [Managers -> Accounts]
    /\ managerOfHome \subseteq Managers
    /\ signed \subseteq Attestation

\* The queue of dispatch and update holds one root per message that is not
\* yet under the committed root, in the order of dispatch: no dispatched
\* message is lost between the two, and none is there twice, however long
\* the sequence of dispatches and updates.
QueueIsPending ==
    /\ IsPrefix(committedRoot, leaves)
    /\ Len(queue) = Len(leaves) - Len(committedRoot)
    /\ \A i \in 1 .. Len(queue) : queue[i] = SubSeq(leaves, 1, Len(committedRoot) + i)

\* The Update events form a chain (A, B), (B, C), ... from bytes32(0) to the
\* committed root, and each adds at least one message to the one before.
UpdatesFormChain ==
    /\ IF updates = <<>> THEN committedRoot = ZeroRoot
       ELSE updates[1].oldRoot = ZeroRoot /\ Last(updates).newRoot = committedRoot
    /\ \A i \in 1 .. Len(updates) :
          /\ IsStrictPrefix(updates[i].oldRoot, updates[i].newRoot)
          /\ i < Len(updates) => updates[i + 1].oldRoot = updates[i].newRoot

\* dispatch numbers the messages to a destination 0, 1, 2, ... in the order it
\* inserts them, without a gap, and the tree is full before the unchecked
\* uint32 can wrap and number a second message 0.
NoncesNumberMessages ==
    /\ \A i, j \in 1 .. Len(leaves) :
          i < j /\ leaves[i].destination = leaves[j].destination => leaves[i].nonce < leaves[j].nonce
    /\ \A d \in Domains :
          {m.nonce : m \in {l \in ToSet(leaves) : l.destination = d}} = 0 .. nonces[d] - 1

\* The queue exists so that a signature on a suggestion cannot turn improper
\* while the chain moves on: whatever was dispatched, rotated or submitted in
\* between, an honest attestation on the current root names a queued root.
AttestationsStayProper ==
    \A a \in signed : a.oldRoot = committedRoot => a.newRoot \in ToSet(queue)

\* _fail never names an updater that only signed suggestions, whoever else
\* has held the office and whatever they signed.
HonestNeverSlashed == slashed \cap Honest = {}

\* A failed Home is frozen: no message, no update, no recovery, even after
\* the owner has changed the updater or the manager.
FailureIsFinal ==
    [][state = "Failed" => UNCHANGED <<state, committedRoot, nonces, leaves, queue, updates, slashed>>]_vars

=============================================================================
