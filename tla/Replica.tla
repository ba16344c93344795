------------------------------ MODULE Replica ------------------------------
(***************************************************************************)
(* The Replica contract of one remote chain (Replica.sol with its base     *)
(* Common.sol).  Roots are represented as in module Home, by the sequence  *)
(* of leaves they commit to, so that a Merkle proof is valid for a root    *)
(* exactly when the leaf is one of its elements.                           *)
(*                                                                         *)
(* A transaction is one step, except for process: the contract calls the   *)
(* recipient in the middle of it, and the recipient may call the contract  *)
(* back.  The steps between a Process and its Return are those calls, and  *)
(* belong to the same transaction, so the block timestamp stands still.    *)
(***************************************************************************)
EXTENDS Naturals, Sequences, SequencesExt

CONSTANTS
    Messages,           \* messages, records with a destination
    Roots,              \* the roots that may ever be signed, sequences of messages
    InitialRoot,        \* the committed root the replica is initialized with
    Accounts,           \* keys that can sign updates
    LocalDomain,        \* Common.localDomain
    OptimisticSeconds,  \* Replica.optimisticSeconds
    StartTime,          \* the block timestamp of initialize
    MaxTime,            \* bound: the last block timestamp
    MaxUpdates          \* bound: the number of updates accepted

ASSUME ReplicaAssumption ==
    /\ Roots \subseteq Seq(Messages)
    /\ InitialRoot \in Roots
    /\ OptimisticSeconds \in Nat
    /\ StartTime \in Nat \ {0}
    /\ MaxTime \in Nat
    /\ MaxUpdates \in Nat

VARIABLES
    updater,        \* Common.updater: no function of Replica changes it
    state,          \* Common.state
    committedRoot,  \* Common.committedRoot
    confirmAt,      \* Replica.confirmAt, 0 for a root never submitted
    messages,       \* Replica.messages: the status of every message
    entered,        \* the re-entrancy guard
    now,            \* block.timestamp
    calls,          \* the messages whose handle is running, outermost first
    updates,        \* the Update events, oldest first, each with its block timestamp
    handled         \* the calls of handle made so far, each with its block timestamp

vars == <<updater, state, committedRoot, confirmAt, messages, entered, now, calls, updates, handled>>

Init ==
    /\ updater \in Accounts
    /\ state = "Active"
    /\ committedRoot = InitialRoot
    /\ confirmAt = [r \in Roots |-> IF r = InitialRoot THEN 1 ELSE 0]
    /\ messages = [m \in Messages |-> "None"]
    /\ entered = 1
    /\ now = StartTime
    /\ calls = <<>>
    /\ updates = <<>>
    /\ handled = <<>>

-----------------------------------------------------------------------------
(* Faults.  None of these is part of the system: each is a slip a           *)
(* maintainer could make in the operator it is named after, and a property  *)
(* of this module notices when it takes that operator's place.              *)

AcceptableRootFault(root) == now >= confirmAt[root]       \* 0 is taken for a time
CurrentFault(oldRoot) == confirmAt[oldRoot] # 0           \* any root seen will do
CurrentUncheckedFault(oldRoot) == TRUE                    \* the old root is not compared
GuardFault == entered \in {0, 1}                          \* re-entrancy is let through
ReleaseGuardFault == entered' = 2                         \* another guard's "not entered"
UnprovenFault(m) == messages[m] # "Proven"                \* a message may be proven again
MarkProcessedFault(m) == messages' = [messages EXCEPT ![m] = "None"]

-----------------------------------------------------------------------------
(* What the operations of Replica are made of *)

NotFailed == state # "Failed"

AcceptableRoot(root) == confirmAt[root] # 0 /\ now >= confirmAt[root]

\* branchRoot of a valid proof for m is a root that has m among its leaves.
Proves(root, m) == m \in ToSet(root)

SetTimer(root) == confirmAt' = [confirmAt EXCEPT ![root] = now + OptimisticSeconds]

Current(oldRoot) == oldRoot = committedRoot

Unproven(m) == messages[m] = "None"

\* process is entered with the guard at 1 and leaves it at 1.
Guard == entered = 1

ReleaseGuard == entered' = 1

MarkProcessed(m) == messages' = [messages EXCEPT ![m] = "Processed"]

\* process, up to and including the call of the recipient.
CallRecipient(m) ==
    /\ m.destination = LocalDomain
    /\ Guard
    /\ entered' = 0
    /\ MarkProcessed(m)
    /\ calls' = Append(calls, m)
    /\ handled' = Append(handled, [message |-> m, at |-> now])
    /\ UNCHANGED <<updater, state, committedRoot, confirmAt, now, updates>>

-----------------------------------------------------------------------------
(* External and public functions *)

Update(by, oldRoot, newRoot) ==
    /\ NotFailed
    /\ Current(oldRoot)
    /\ by = updater
    /\ SetTimer(newRoot)
    /\ committedRoot' = newRoot
    /\ updates' = Append(updates, [oldRoot |-> oldRoot, newRoot |-> newRoot, at |-> now])
    /\ UNCHANGED <<updater, state, messages, entered, now, calls, handled>>

DoubleUpdate(by, oldRoot, newRoot1, newRoot2) ==
    /\ NotFailed
    /\ by = updater
    /\ newRoot1 # newRoot2
    /\ state' = "Failed"
    /\ UNCHANGED <<updater, committedRoot, confirmAt, messages, entered, now, calls, updates, handled>>

\* A proof of a root that is not acceptable returns FALSE and changes nothing.
Prove(m, root) ==
    /\ Unproven(m)
    /\ Proves(root, m)
    /\ AcceptableRoot(root)
    /\ messages' = [messages EXCEPT ![m] = "Proven"]
    /\ UNCHANGED <<updater, state, committedRoot, confirmAt, entered, now, calls, updates, handled>>

Process(m) ==
    /\ messages[m] = "Proven"
    /\ CallRecipient(m)

ProveAndProcess(m, root) ==
    /\ Unproven(m)
    /\ Proves(root, m)
    /\ AcceptableRoot(root)
    /\ CallRecipient(m)

\* The recipient returns or reverts: process ends the same way.  What a
\* recipient did before it reverts is undone, as if it had not been called.
Return ==
    /\ calls # <<>>
    /\ calls' = Front(calls)
    /\ ReleaseGuard
    /\ UNCHANGED <<updater, state, committedRoot, confirmAt, messages, now, updates, handled>>

\* A later block: its timestamp is larger.
Tick ==
    /\ calls = <<>>
    /\ now < MaxTime
    /\ now' = now + 1
    /\ UNCHANGED <<updater, state, committedRoot, confirmAt, messages, entered, calls, updates, handled>>

Next ==
    \/ \E by \in Accounts, old, new \in Roots :
          Len(updates) < MaxUpdates /\ Update(by, old, new)
    \/ \E by \in Accounts, old, new1, new2 \in Roots : DoubleUpdate(by, old, new1, new2)
    \/ \E m \in Messages, root \in Roots : Prove(m, root)
    \/ \E m \in Messages : Process(m)
    \/ \E m \in Messages, root \in Roots : ProveAndProcess(m, root)
    \/ Return
    \/ Tick

Spec == Init /\ [][Next]_vars

-----------------------------------------------------------------------------
(* Properties *)

\* Every variable holds a value of the shape its declaration promises.
TypeOK ==
    /\ updater \in Accounts
    /\ state \in {"Active", "Failed"}
    /\ committedRoot \in Roots
    /\ confirmAt \in [Roots -> Nat]
    /\ messages \in [Messages -> {"None", "Proven", "Processed"}]
    /\ entered \in {0, 1}
    /\ now \in Nat \ {0}
    /\ calls \in Seq(Messages)
    /\ updates \in Seq([oldRoot : Roots, newRoot : Roots, at : Nat])
    /\ handled \in Seq([message : Messages, at : Nat])

\* handle is called at most once for a message, whatever mix of prove,
\* process and proveAndProcess callers race with, from inside a handler too.
HandledOnce ==
    \A i, j \in 1 .. Len(handled) : handled[i].message = handled[j].message => i = j

\* A root that has been open to dispute on this chain for the whole
\* optimistic window by time t.
Undisputed(root, t) ==
    \/ root = InitialRoot
    \/ \E i \in 1 .. Len(updates) :
          updates[i].newRoot = root /\ updates[i].at + OptimisticSeconds <= t

\* No recipient is called for a message, and no message is so much as
\* proven, before a root that commits to it was public for the window.
HandledAfterWindow ==
    /\ \A i \in 1 .. Len(handled) :
          \E root \in Roots :
              Proves(root, handled[i].message) /\ Undisputed(root, handled[i].at)
    /\ \A m \in Messages :
          messages[m] = "Proven" => \E root \in Roots : Proves(root, m) /\ Undisputed(root, now)

\* A recipient never runs inside another one's handle, and the guard is open
\* exactly when none runs, so no sequence of re-entrant calls wedges process.
HandlersDoNotNest ==
    /\ Len(calls) <= 1
    /\ entered = 1 <=> calls = <<>>

\* What the replica was told is a chain from its initial root to its
\* committed root: it never branches and never skips a link, so one fork
\* of the updater's signatures is all a replica can follow.
UpdatesFormChain ==
    /\ IF updates = <<>> THEN committedRoot = InitialRoot
       ELSE updates[1].oldRoot = InitialRoot /\ Last(updates).newRoot = committedRoot
    /\ \A i \in 1 .. Len(updates) - 1 : updates[i + 1].oldRoot = updates[i].newRoot

\* A message never moves back: Proven does not lapse when its root's timer is
\* set again, Processed is final, and only a processed message is handled.
Advances(m) ==
    /\ messages[m] = "Processed" => messages'[m] = "Processed"
    /\ messages[m] = "Proven" => messages'[m] # "None"
    /\ messages'[m] = "Processed" /\ messages[m] # "Processed" =>
          handled' = Append(handled, [message |-> m, at |-> now])

StatusAdvances == [][\A m \in Messages : Advances(m)]_vars

\* What docs/faq.md says of a double update: every replica it is reported to
\* halts.  The code only stops update and doubleUpdate.
FailedReplicaHalts ==
    [][state = "Failed" => UNCHANGED <<committedRoot, messages, handled>>]_vars

=============================================================================
