------------------------------- MODULE Watcher -------------------------------
(***************************************************************************)
(* The watcher agent (rust/agents/watcher) over a Home and its replicas,   *)
(* one on each of the other chains: what its tasks read and send, what it  *)
(* does when it finds a double update, and its kills and restarts.  Of the *)
(* contracts it models what they log and when they fail.                   *)
(***************************************************************************)
EXTENDS Integers, Sequences, SequencesExt

CONSTANTS
    Home,        \* the Home contract
    Replicas,    \* its replicas
    Dispatched,  \* the roots 1..Dispatched were dispatched on Home, in this order
    Forged,      \* roots that were not
    NoRoot,
    Lies,        \* the updates a dishonest updater signs
    MaxLog,      \* per replica, bound on the updates it accepts
    ChannelSize, \* capacity of the channel to the handler (200)
    MaxFaults    \* bound on kills of the watcher and transactions that come to nothing

Contracts == Replicas \cup {Home}
ZeroRoot == 0
Roots == (0..Dispatched) \cup Forged
Update == [old : Roots, new : Roots]

ASSUME WatcherAssumption ==
    /\ Home \notin Replicas
    /\ Dispatched \in Nat
    /\ Forged \subseteq Nat /\ Forged \cap (0..Dispatched) = {}
    /\ NoRoot \notin Roots
    /\ Lies \subseteq Update
    /\ MaxLog \in [Replicas -> Nat] /\ MaxFaults \in Nat
    /\ ChannelSize \in Nat \ {0}

VARIABLES
    honest,    \* the updater signs one update per old root, and of true roots only
    log,       \* per contract, its Update events
    failed,    \* contracts in state Failed
    enrolled,  \* replicas their chain's XAppConnectionManager has
    \* the watcher:
    phase,     \* its process is down, running, or reacting to a double update
    watching,  \* per contract, committed_root of its ContractWatcher; NoRoot: not spawned
    history,   \* per contract, committed_root of its HistorySync; NoRoot: not spawned, or done
    channel,   \* updates on their way to the UpdateHandler
    seen,      \* watcher_db: the new root stored for an old root, or NoRoot
    pending,   \* transactions of handle_failure that are not through
    faults,    \* how many kills and lost transactions so far
    missed     \* history: a report came to nothing, or a replica was ahead of Home

contracts == <<honest, log, failed, enrolled>>
tasks == <<watching, history, channel>>
vars == <<contracts, phase, tasks, seen, pending, faults, missed>>

Committed(c) == IF log[c] = <<>> THEN ZeroRoot ELSE Last(log[c]).new

Init ==
    /\ honest \in BOOLEAN
    /\ log = [c \in Contracts |-> <<>>]
    /\ failed = {}
    /\ enrolled = Replicas
    /\ phase = "down"
    /\ watching = [c \in Contracts |-> NoRoot]
    /\ history = [c \in Contracts |-> NoRoot]
    /\ channel = <<>>
    /\ seen = [r \in Roots |-> NoRoot]
    /\ pending = {}
    /\ faults = 0
    /\ missed = FALSE

-----------------------------------------------------------------------------
(* Faults.  None of these is part of the system: each is a slip a           *)
(* maintainer could make in the operator it is named after.                 *)

DoublesFault(u) == seen[u.old] # NoRoot      \* any second update of an old root
SubmitsFault(u) == u.new = Committed(Home)   \* the wrong end of the update
ReactionsFault ==                            \* Home is notified, and the replicas, and that is all
    {[call |-> "double_update", on |-> c] : c \in Contracts}
ThroughFault(t) ==                           \* the process stays
    pending' = pending \ {t} /\ phase' = phase

-----------------------------------------------------------------------------
(* The contracts: anybody may submit what the updater has signed. *)

\* An honest updater signs every dispatched root on the one before it.
Signed == IF honest THEN {[old |-> r - 1, new |-> r] : r \in 1..Dispatched} ELSE Lies

LoggedRoots(c) == {ZeroRoot} \cup {log[c][i].new : i \in DOMAIN log[c]}

\* A dispatched root after the committed one
InQueue(r) == r \in 1..Dispatched /\ r > Committed(Home)

\* Home.update of u: the new root is committed, or Home fails.
HomeUpdate(u) ==
    IF InQueue(u.new)
    THEN log' = [log EXCEPT ![Home] = Append(@, u)] /\ UNCHANGED failed
    ELSE failed' = failed \cup {Home} /\ UNCHANGED log

PublishOnHome(u) ==
    /\ Home \notin failed
    /\ u.old = Committed(Home)
    /\ HomeUpdate(u)
    /\ UNCHANGED <<honest, enrolled, phase, tasks, seen, pending, faults, missed>>

\* A replica takes any signed root, one it had before too.
PublishOnReplica(c, u) ==
    /\ c \notin failed
    /\ u.old = Committed(c)
    /\ Len(log[c]) < MaxLog[c]
    /\ log' = [log EXCEPT ![c] = Append(@, u)]
    /\ missed' = (missed \/ u.new \in (1..Dispatched) \ LoggedRoots(Home))
    /\ UNCHANGED <<honest, failed, enrolled, phase, tasks, seen, pending, faults>>

-----------------------------------------------------------------------------
(* The watcher's tasks *)

Fault == faults < MaxFaults /\ faults' = faults + 1

Start ==
    /\ phase = "down"
    /\ phase' = "running"
    /\ UNCHANGED <<contracts, tasks, seen, pending, faults, missed>>

\* run_watch_tasks reads the committed roots one by one, that of Home at the end.
Spawn(c) ==
    /\ phase = "running"
    /\ watching[c] = NoRoot
    /\ c = Home => \A r \in Replicas : watching[r] # NoRoot
    /\ watching' = [watching EXCEPT ![c] = Committed(c)]
    /\ history' = [history EXCEPT ![c] = Committed(c)]
    /\ UNCHANGED <<contracts, phase, channel, seen, pending, faults, missed>>

\* What the database of contract c answers when the indexer has come to event p:
\* it keeps one update per old root and one old root per new root, the last that
\* was written.  The indexer lags behind by any time, and a restarted one begins
\* again with the events it saw last, so p is any.
Newest(I) == {i \in I : \A j \in I : j <= i}
ByOldRoot(c, p, old) ==
    {log[c][i] : i \in Newest({k \in 1..p : log[c][k].old = old})}
ByNewRoot(c, p, new) ==
    UNION {ByOldRoot(c, p, log[c][i].old) : i \in Newest({k \in 1..p : log[c][k].new = new})}

SendToHandler(u) ==
    /\ Len(channel) < ChannelSize
    /\ channel' = Append(channel, u)

\* ContractWatcher: the update on the root it has come to, once there is one
Poll(c) ==
    /\ phase = "running"
    /\ \E p \in DOMAIN log[c] : \E u \in ByOldRoot(c, p, watching[c]) :
          /\ SendToHandler(u)
          /\ watching' = [watching EXCEPT ![c] = u.new]
    /\ UNCHANGED <<contracts, phase, history, seen, pending, faults, missed>>

\* HistorySync: the update that led to the root it has come to, back to the first
Trace(c) ==
    /\ phase = "running"
    /\ \E p \in DOMAIN log[c] : \E u \in ByNewRoot(c, p, history[c]) :
          /\ SendToHandler(u)
          /\ history' = [history EXCEPT ![c] = IF u.old = ZeroRoot THEN NoRoot ELSE u.old]
    /\ UNCHANGED <<contracts, phase, watching, seen, pending, faults, missed>>

-----------------------------------------------------------------------------
(* The handler *)

\* What is on Home's committed root is submitted to Home.
Submits(u) == u.old = Committed(Home)

\* check_double_update: another update on the same old root is known.
Doubles(u) == seen[u.old] \notin {NoRoot, u.new}

\* What handle_failure sends
Reactions ==
    {[call |-> "double_update", on |-> c] : c \in Contracts}
        \cup {[call |-> "unenroll_replica", on |-> r] : r \in Replicas}

\* "It is okay if tx reverts": whatever becomes of it, the handler goes on.
Submit(u) ==
    \/ /\ Submits(u)
       /\ Home \notin failed
       /\ u.old = Committed(Home)
       /\ HomeUpdate(u)
       /\ UNCHANGED <<faults, missed>>
    \/ /\ Submits(u) => Home \in failed \/ u.old # Committed(Home)
       /\ UNCHANGED <<log, failed, faults, missed>>
    \/ /\ Submits(u)
       /\ Fault
       /\ missed' = TRUE
       /\ UNCHANGED <<log, failed>>

Stop == watching' = [c \in Contracts |-> NoRoot] /\ history' = [c \in Contracts |-> NoRoot] /\ channel' = <<>>

Handle ==
    /\ phase = "running"
    /\ channel # <<>>
    /\ LET u == Head(channel) IN
          /\ Submit(u)
          /\ IF Doubles(u)
             THEN /\ phase' = "reacting"
                  /\ pending' = Reactions
                  /\ Stop
                  /\ UNCHANGED seen
             ELSE /\ seen' = [seen EXCEPT ![u.old] = u.new]
                  /\ channel' = Tail(channel)
                  /\ UNCHANGED <<phase, pending, watching, history>>
    /\ UNCHANGED <<honest, enrolled>>

-----------------------------------------------------------------------------
(* handle_failure: all transactions at once, then the process ends. *)

Through(t) ==
    /\ pending' = pending \ {t}
    /\ phase' = IF pending = {t} THEN "down" ELSE phase

\* A contract that has failed, or a replica that is not enrolled, reverts.
Land(t) ==
    /\ phase = "reacting"
    /\ failed' = IF t.call = "double_update" THEN failed \cup {t.on} ELSE failed
    /\ enrolled' = IF t.call = "unenroll_replica" THEN enrolled \ {t.on} ELSE enrolled
    /\ Through(t)
    /\ UNCHANGED <<honest, log, tasks, seen, faults, missed>>

Drop(t) ==
    /\ phase = "reacting"
    /\ Fault
    /\ Through(t)
    /\ UNCHANGED <<contracts, tasks, seen, missed>>

\* Also what an error of any task comes to.
Kill ==
    /\ phase # "down"
    /\ Fault
    /\ phase' = "down"
    /\ pending' = {}
    /\ Stop
    /\ UNCHANGED <<contracts, seen, missed>>

WatcherStep ==
    \/ Start
    \/ \E c \in Contracts : Spawn(c) \/ Poll(c) \/ Trace(c)
    \/ Handle
    \/ \E t \in pending : Land(t)

Next ==
    \/ \E u \in Signed : PublishOnHome(u) \/ \E c \in Replicas : PublishOnReplica(c, u)
    \/ WatcherStep
    \/ \E t \in pending : Drop(t)
    \/ Kill

\* The process is started again whenever it ends, its tasks run, and its
\* transactions get through unless they are among the dropped ones.  Tasks that
\* wait for room in the channel get it in turn: no task that has much to send
\* keeps the others out for ever.
Fairness ==
    /\ WF_vars(Start)
    /\ \A c \in Contracts : WF_vars(Spawn(c)) /\ SF_vars(Poll(c)) /\ SF_vars(Trace(c))
    /\ WF_vars(Handle)
    /\ WF_vars(\E t \in pending : Land(t))

Spec == Init /\ [][Next]_vars /\ Fairness

-----------------------------------------------------------------------------
(* Properties *)

TypeOK ==
    /\ honest \in BOOLEAN
    /\ log \in [Contracts -> Seq(Update)]
    /\ failed \subseteq Contracts
    /\ enrolled \subseteq Replicas
    /\ phase \in {"down", "running", "reacting"}
    /\ watching \in [Contracts -> Roots \cup {NoRoot}]
    /\ history \in [Contracts -> Roots \cup {NoRoot}]
    /\ channel \in Seq(Update) /\ Len(channel) <= ChannelSize
    /\ seen \in [Roots -> Roots \cup {NoRoot}]
    /\ pending \subseteq Reactions /\ (pending # {} <=> phase = "reacting")
    /\ faults \in 0..MaxFaults
    /\ missed \in BOOLEAN

\* Whatever is replayed, repeated or read late by a restarted watcher: it never
\* fails a contract, or has a replica unenrolled, while the updater is honest.
HonestIsSafe == honest => failed = {} /\ enrolled = Replicas

\* What the watcher's database of c cannot show in full: it keeps one update per
\* old root and one old root per new root (optics_db.rs, store_update), and
\* a lying updater that takes a replica back to an earlier root and on from there
\* has the entry overwritten.  A watcher started afterwards does not see the first
\* of the two updates.
Overwritten(c) ==
    \E i, j \in DOMAIN log[c] : i < j /\ (log[c][i].old = log[c][j].old \/ log[c][i].new = log[c][j].new)

\* Two contracts accepted different updates on one old root.
Conflict(c, d) ==
    \E i \in DOMAIN log[c], j \in DOMAIN log[d] : log[c][i].old = log[d][j].old /\ log[c][i].new # log[d][j].new

\* "Double updates": two updates on one old root, each accepted by some contract,
\* end with no replica enrolled, however often the watcher is killed, started
\* late, or loses a transaction, unless one of them was overwritten in the database.
\* Logs grow, and who has failed or is unenrolled stays so: a state without open
\* conflict again and again means that each conflict is answered in the end.
Open(c, d) == Conflict(c, d) /\ enrolled # {} /\ ~Overwritten(c) /\ ~Overwritten(d)

ConflictsAreCutOff == []<>(\A c, d \in Contracts : ~Open(c, d))

\* "It also observes any number of replicas to ensure the Updater does not
\* bypass the Home and go straight to a replica" (docs/architecture.md): a
\* forged root on a replica makes Home fail.  This is not so if the replica
\* heard of a true root before Home, if a report to Home came to nothing (the
\* handler looks at an update once, and the history arrives newest first), or if
\* the replica was taken back and its forged root overwritten in the database.
Bypassed(c) == LoggedRoots(c) \cap Forged # {}

BypassReachesHome ==
    []<>(\A c \in Replicas : Bypassed(c) => Home \in failed \/ missed \/ Overwritten(c))

\* What docs/faq.md says of a fraudulent update: the watcher notifies Home,
\* then warns the xApps by calling unenrollReplica.
FraudIsCutOff == \A c \in Replicas : Bypassed(c) ~> c \notin enrolled

=============================================================================
