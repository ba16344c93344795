---------------------------- MODULE WatcherProofs ----------------------------
(***************************************************************************)
(* Proofs about module Watcher, for any number of replicas, of dispatched  *)
(* roots, of kills and of lost transactions: that it is type correct, and  *)
(* that a watcher harms nobody while the updater is honest.                *)
(***************************************************************************)
EXTENDS Watcher, SequenceTheorems, TLAPS

-----------------------------------------------------------------------------
(* Types *)

\* What either kind of updater signs are updates; those of the honest one lead
\* from a dispatched root to the next.
LEMMA SignedAreUpdates ==
    /\ Signed \subseteq Update
    /\ honest => \A u \in Signed : u.new = u.old + 1 /\ u.new \in 1..Dispatched
<1>1. CASE honest
  <2> SUFFICES ASSUME NEW u \in Signed
               PROVE  u \in Update /\ u.new = u.old + 1 /\ u.new \in 1..Dispatched
    BY <1>1
  <2>1. PICK r \in 1..Dispatched : u = [old |-> r - 1, new |-> r]
    BY <1>1 DEF Signed
  <2>2. r - 1 \in 0..Dispatched /\ r \in 0..Dispatched /\ (r - 1) + 1 = r
    BY WatcherAssumption
  <2>3. QED
    BY <2>1, <2>2 DEF Update, Roots
<1>2. CASE ~honest
  BY <1>2, WatcherAssumption DEF Signed
<1>3. QED
  BY <1>1, <1>2

\* The elements of a sequence, by index
LEMMA Elements ==
    ASSUME NEW S, NEW s \in Seq(S)
    PROVE  /\ ToSet(s) \subseteq S
           /\ DOMAIN s = 1 .. Len(s) /\ Len(s) \in Nat
           /\ \A i \in DOMAIN s : s[i] \in S
  BY ElementOfSeq, LenProperties DEF ToSet

\* The committed root of a contract is a root.
LEMMA CommittedIsRoot ==
    ASSUME TypeOK, NEW c \in Contracts
    PROVE  Committed(c) \in Roots /\ Committed(c) \in Nat
<1>1. 0 \in Roots /\ Roots \subseteq Nat
  BY WatcherAssumption DEF Roots
<1>2. log[c] \in Seq(Update)
  BY DEF TypeOK
<1>3. CASE log[c] = <<>>
  BY <1>1, <1>3 DEF Committed, ZeroRoot
<1>4. CASE log[c] # <<>>
  <2>1. Last(log[c]) \in Update
    BY <1>2, <1>4, Elements, EmptySeq DEF Last
  <2>2. QED
    BY <1>1, <1>4, <2>1 DEF Committed, Update
<1>5. QED
  BY <1>3, <1>4

\* What the database answers was logged.
LEMMA AnswersAreLogged ==
    ASSUME NEW c \in Contracts, NEW p \in DOMAIN log[c], log[c] \in Seq(Update), NEW r
    PROVE  ByOldRoot(c, p, r) \cup ByNewRoot(c, p, r) \subseteq ToSet(log[c])
<1>1. 1 .. p \subseteq DOMAIN log[c]
  BY LenProperties
<1>2. \A q : ByOldRoot(c, p, q) \subseteq ToSet(log[c])
  BY <1>1 DEF ByOldRoot, Newest, ToSet
<1>3. QED
  BY <1>2 DEF ByNewRoot

\* What Home makes of an update it is given leaves log and failed well typed.
LEMMA HomeUpdateTyped ==
    ASSUME TypeOK, NEW u \in Update, HomeUpdate(u)
    PROVE  log' \in [Contracts -> Seq(Update)] /\ failed' \subseteq Contracts
<1>1. Home \in Contracts /\ log[Home] \in Seq(Update)
  BY DEF TypeOK, Contracts
<1>2. Append(log[Home], u) \in Seq(Update)
  BY <1>1, AppendProperties
<1>3. QED
  BY <1>1, <1>2 DEF HomeUpdate, TypeOK

\* The initial state has the declared types.
LEMMA TypeInit == Init => TypeOK
  BY WatcherAssumption, EmptySeq DEF Init, TypeOK, Roots

\* Every step preserves the declared types.
LEMMA TypeNext == TypeOK /\ [Next]_vars => TypeOK'
<1> SUFFICES ASSUME TypeOK, [Next]_vars
             PROVE  TypeOK'
  OBVIOUS
<1> USE DEF contracts, tasks
<1>1. ASSUME NEW u \in Signed, PublishOnHome(u)
      PROVE  TypeOK'
  <2>1. u \in Update
    BY SignedAreUpdates
  <2>2. log' \in [Contracts -> Seq(Update)] /\ failed' \subseteq Contracts
    BY <1>1, <2>1, HomeUpdateTyped DEF PublishOnHome
  <2>3. QED
    BY <1>1, <2>2 DEF PublishOnHome, TypeOK, Reactions
<1>2. ASSUME NEW u \in Signed, NEW c \in Replicas, PublishOnReplica(c, u)
      PROVE  TypeOK'
  <2>1. c \in Contracts /\ u \in Update
    BY SignedAreUpdates DEF Contracts
  <2>2. Append(log[c], u) \in Seq(Update)
    BY <2>1, AppendProperties DEF TypeOK
  <2>3. log' \in [Contracts -> Seq(Update)] /\ missed' \in BOOLEAN
    BY <1>2, <2>1, <2>2 DEF PublishOnReplica, TypeOK
  <2>4. QED
    BY <1>2, <2>3 DEF PublishOnReplica, TypeOK, Reactions
<1>3. CASE Start
  BY <1>3 DEF Start, TypeOK, Reactions
<1>4. ASSUME NEW c \in Contracts, Spawn(c)
      PROVE  TypeOK'
  BY <1>4, CommittedIsRoot DEF Spawn, TypeOK, Reactions
<1>5. ASSUME NEW c \in Contracts, NEW u \in ToSet(log[c]), SendToHandler(u)
      PROVE  /\ u \in Update /\ u.new \in Roots /\ u.old \in Roots
             /\ channel' \in Seq(Update) /\ Len(channel') <= ChannelSize
  <2>1. u \in Update
    BY Elements DEF TypeOK
  <2>2. channel \in Seq(Update) /\ Len(channel) \in Nat /\ ChannelSize \in Nat
    BY WatcherAssumption, Elements DEF TypeOK
  <2>3. QED
    BY <1>5, <2>1, <2>2, AppendProperties DEF SendToHandler, Update
<1>6. ASSUME NEW c \in Contracts, Poll(c)
      PROVE  TypeOK'
  <2>1. PICK u \in ToSet(log[c]) : SendToHandler(u) /\ watching' = [watching EXCEPT ![c] = u.new]
    BY <1>6, AnswersAreLogged DEF Poll, TypeOK
  <2>2. QED
    BY <1>5, <1>6, <2>1 DEF Poll, TypeOK, Reactions
<1>7. ASSUME NEW c \in Contracts, Trace(c)
      PROVE  TypeOK'
  <2>1. PICK u \in ToSet(log[c]) :
            /\ SendToHandler(u)
            /\ history' = [history EXCEPT ![c] = IF u.old = ZeroRoot THEN NoRoot ELSE u.old]
    BY <1>7, AnswersAreLogged DEF Trace, TypeOK
  <2>2. QED
    BY <1>5, <1>7, <2>1 DEF Trace, TypeOK, Reactions
<1>8. Stop => /\ watching' \in [Contracts -> Roots \cup {NoRoot}]
              /\ history' \in [Contracts -> Roots \cup {NoRoot}]
              /\ channel' \in Seq(Update) /\ Len(channel') <= ChannelSize
  BY WatcherAssumption, EmptySeq DEF Stop
<1>9. CASE Handle
  <2> DEFINE u == Head(channel)
  <2>1. /\ channel \in Seq(Update) /\ channel # <<>> /\ Len(channel) <= ChannelSize
        /\ ChannelSize \in Nat
    BY <1>9, WatcherAssumption DEF Handle, TypeOK
  <2>2. /\ u \in Update
        /\ Tail(channel) \in Seq(Update) /\ Len(Tail(channel)) <= ChannelSize
    BY <2>1, HeadTailProperties, LenProperties
  <2> HIDE DEF u
  <2>3. Submit(u)
    BY <1>9 DEF Handle, u
  <2>4. /\ log' \in [Contracts -> Seq(Update)] /\ failed' \subseteq Contracts
        /\ faults' \in 0..MaxFaults /\ missed' \in BOOLEAN
    <3>1. \/ HomeUpdate(u) /\ UNCHANGED <<faults, missed>>
          \/ UNCHANGED <<log, failed, faults, missed>>
          \/ Fault /\ missed' = TRUE /\ UNCHANGED <<log, failed>>
      BY <2>3 DEF Submit
    <3>2. log' \in [Contracts -> Seq(Update)] /\ failed' \subseteq Contracts
      BY <2>2, <3>1, HomeUpdateTyped DEF TypeOK
    <3>3. faults' \in 0..MaxFaults
      BY <3>1, WatcherAssumption DEF Fault, TypeOK
    <3>4. missed' \in BOOLEAN
      BY <3>1 DEF TypeOK
    <3>5. QED
      BY <3>2, <3>3, <3>4
  <2>5. CASE Doubles(u)
    <3>1. phase' = "reacting" /\ pending' = Reactions /\ Stop /\ UNCHANGED <<seen, honest, enrolled>>
      BY <1>9, <2>5 DEF Handle, u
    <3>2. Reactions # {} /\ Reactions' = Reactions
      BY DEF Reactions, Contracts
    <3>3. QED
      BY <1>8, <2>4, <3>1, <3>2 DEF TypeOK
  <2>6. CASE ~Doubles(u)
    <3>1. /\ seen' = [seen EXCEPT ![u.old] = u.new]
          /\ channel' = Tail(channel)
          /\ UNCHANGED <<phase, pending, watching, history, honest, enrolled>>
      BY <1>9, <2>6 DEF Handle, u
    <3>2. QED
      BY <2>2, <2>4, <3>1 DEF TypeOK, Update, Reactions
  <2>7. QED
    BY <2>5, <2>6
<1>10. ASSUME NEW t \in pending, Through(t), phase = "reacting"
       PROVE  /\ pending' \subseteq Reactions' /\ (pending' # {} <=> phase' = "reacting")
              /\ phase' \in {"down", "running", "reacting"}
  BY <1>10 DEF Through, TypeOK, Reactions
<1>11. ASSUME NEW t \in pending, Land(t)
       PROVE  TypeOK'
  <2>1. t.call = "double_update" => t.on \in Contracts
    BY DEF TypeOK, Reactions, Contracts
  <2>2. QED
    BY <1>10, <1>11, <2>1 DEF Land, TypeOK
<1>12. ASSUME NEW t \in pending, Drop(t)
       PROVE  TypeOK'
  BY <1>10, <1>12, WatcherAssumption DEF Drop, Fault, TypeOK
<1>13. CASE Kill
  BY <1>8, <1>13, WatcherAssumption DEF Kill, Fault, TypeOK
<1>14. CASE UNCHANGED vars
  BY <1>14 DEF vars, TypeOK, Reactions
<1>15. QED
  BY <1>1, <1>2, <1>3, <1>4, <1>6, <1>7, <1>9, <1>11, <1>12, <1>13, <1>14 DEF Next, WatcherStep

\* With any number of replicas, updates, kills and restarts, the watcher's
\* state stays within its types, and its channel within its capacity.
THEOREM TypeCorrect == Spec => []TypeOK
  BY TypeInit, TypeNext, PTL DEF Spec

-----------------------------------------------------------------------------
(* The honest updater *)

\* While the updater is honest, contracts, channel and database hold nothing
\* but what it signed, and nobody has failed.
HonestInv ==
    honest =>
        /\ failed = {} /\ enrolled = Replicas /\ pending = {}
        /\ \A c \in Contracts : ToSet(log[c]) \subseteq Signed
        /\ ToSet(channel) \subseteq Signed
        /\ \A r \in Roots : seen[r] \in {NoRoot, r + 1}

\* The elements of a sequence that has grown by one
LEMMA ElementsOfAppend ==
    ASSUME NEW S, NEW s \in Seq(S), NEW e \in S
    PROVE  ToSet(Append(s, e)) = ToSet(s) \cup {e}
<1>1. /\ Len(s) \in Nat /\ DOMAIN s = 1 .. Len(s)
      /\ DOMAIN Append(s, e) = 1 .. Len(s) + 1
      /\ \A i \in 1 .. Len(s) : Append(s, e)[i] = s[i]
      /\ Append(s, e)[Len(s) + 1] = e
  BY AppendProperties, LenProperties
<1>2. QED
  BY <1>1 DEF ToSet

\* What is left of a sequence without its head was in it.
LEMMA ElementsOfTail ==
    ASSUME NEW S, NEW s \in Seq(S), s # <<>>
    PROVE  Head(s) \in ToSet(s) /\ ToSet(Tail(s)) \subseteq ToSet(s)
<1>1. /\ Len(s) \in Nat \ {0} /\ DOMAIN s = 1 .. Len(s)
      /\ Tail(s) \in Seq(S) /\ Len(Tail(s)) = Len(s) - 1
      /\ Head(s) = s[1]
      /\ \A i \in 1 .. Len(Tail(s)) : Tail(s)[i] = s[i + 1]
  BY EmptySeq, HeadTailProperties, LenProperties
<1>2. DOMAIN Tail(s) = 1 .. Len(Tail(s))
  BY <1>1, LenProperties
<1>3. QED
  BY <1>1, <1>2 DEF ToSet

\* Home takes what an honest updater signed on its committed root.
LEMMA HonestHomeUpdate ==
    ASSUME TypeOK, honest, HonestInv, NEW u \in Signed, u.old = Committed(Home), HomeUpdate(u)
    PROVE  /\ UNCHANGED failed
           /\ \A c \in Contracts : ToSet(log'[c]) \subseteq Signed
<1>1. Home \in Contracts /\ log[Home] \in Seq(Update) /\ u \in Update
  BY SignedAreUpdates DEF TypeOK, Contracts
<1>2. InQueue(u.new)
  BY SignedAreUpdates, CommittedIsRoot, <1>1 DEF InQueue
<1>3. log' = [log EXCEPT ![Home] = Append(@, u)] /\ UNCHANGED failed
  BY <1>2 DEF HomeUpdate
<1>4. ToSet(Append(log[Home], u)) = ToSet(log[Home]) \cup {u}
  BY <1>1, ElementsOfAppend
<1>5. QED
  BY <1>1, <1>3, <1>4 DEF TypeOK, HonestInv

\* Every step keeps the honest updater's record clean.
LEMMA HonestNext == TypeOK /\ HonestInv /\ [Next]_vars => HonestInv'
<1> SUFFICES ASSUME TypeOK, HonestInv, [Next]_vars, honest'
             PROVE  HonestInv'
  BY DEF HonestInv
<1> USE DEF contracts, tasks
<1>0. honest' = honest /\ honest
  BY DEF Next, WatcherStep, PublishOnHome, PublishOnReplica, Start, Spawn, Poll, Trace, Handle,
         Land, Drop, Kill, vars
<1>1. Signed' = Signed
  BY <1>0 DEF Signed
<1>2. ASSUME NEW u \in Signed, PublishOnHome(u)
      PROVE  HonestInv'
  BY <1>0, <1>1, <1>2, HonestHomeUpdate DEF PublishOnHome, HonestInv
<1>3. ASSUME NEW u \in Signed, NEW c \in Replicas, PublishOnReplica(c, u)
      PROVE  HonestInv'
  <2>1. c \in Contracts /\ log[c] \in Seq(Update) /\ u \in Update
    BY SignedAreUpdates DEF Contracts, TypeOK
  <2>2. ToSet(Append(log[c], u)) = ToSet(log[c]) \cup {u}
    BY <2>1, ElementsOfAppend
  <2>3. \A d \in Contracts : ToSet(log'[d]) \subseteq Signed
    BY <1>0, <1>3, <2>1, <2>2 DEF PublishOnReplica, TypeOK, HonestInv
  <2>4. QED
    BY <1>0, <1>1, <1>3, <2>3 DEF PublishOnReplica, HonestInv
<1>4. ASSUME NEW c \in Contracts, NEW u \in ToSet(log[c]), SendToHandler(u)
      PROVE  ToSet(channel') \subseteq Signed
  <2>1. u \in Signed /\ u \in Update /\ channel \in Seq(Update)
    BY <1>0, SignedAreUpdates DEF HonestInv, TypeOK
  <2>2. ToSet(channel') = ToSet(channel) \cup {u}
    BY <1>4, <2>1, ElementsOfAppend DEF SendToHandler
  <2>3. QED
    BY <1>0, <2>1, <2>2 DEF HonestInv
<1>5. ASSUME NEW c \in Contracts, Poll(c) \/ Trace(c)
      PROVE  HonestInv'
  <2>1. PICK u \in ToSet(log[c]) : SendToHandler(u)
    BY <1>5, AnswersAreLogged DEF Poll, Trace, TypeOK
  <2>2. ToSet(channel') \subseteq Signed
    BY <1>4, <2>1
  <2>3. QED
    BY <1>0, <1>1, <1>5, <2>2 DEF Poll, Trace, HonestInv
<1>6. CASE Handle
  <2> DEFINE u == Head(channel)
  <2>1. u \in Signed /\ u \in Update /\ ToSet(Tail(channel)) \subseteq Signed
    BY <1>0, <1>6, SignedAreUpdates, ElementsOfTail DEF Handle, HonestInv, TypeOK
  <2> HIDE DEF u
  <2>2. u.old \in Roots /\ u.new = u.old + 1 /\ u.new \in Roots /\ u.new # NoRoot
    BY <1>0, <2>1, SignedAreUpdates, WatcherAssumption DEF Update
  <2>3. ~Doubles(u)
    BY <1>0, <2>2 DEF Doubles, HonestInv
  <2>4. /\ seen' = [seen EXCEPT ![u.old] = u.new]
        /\ channel' = Tail(channel)
        /\ UNCHANGED <<pending, enrolled>>
        /\ Submit(u)
    BY <1>6, <2>3 DEF Handle, u
  <2>5. \A r \in Roots : seen'[r] \in {NoRoot, r + 1}
    BY <1>0, <2>2, <2>4 DEF HonestInv, TypeOK
  <2>6. failed' = failed /\ \A c \in Contracts : ToSet(log'[c]) \subseteq Signed
    <3>1. CASE UNCHANGED <<log, failed>>
      BY <1>0, <3>1 DEF HonestInv
    <3>2. CASE u.old = Committed(Home) /\ HomeUpdate(u)
      BY <1>0, <2>1, <3>2, HonestHomeUpdate
    <3>3. QED
      BY <2>4, <3>1, <3>2 DEF Submit
  <2>7. QED
    BY <1>0, <1>1, <2>1, <2>4, <2>5, <2>6 DEF HonestInv
<1>7. ASSUME NEW t \in pending
      PROVE  FALSE
  BY <1>0, <1>7 DEF HonestInv
<1>8. CASE Kill
  <2>1. ToSet(<<>>) = {}
    BY DEF ToSet
  <2>2. QED
    BY <1>0, <1>1, <1>8, <2>1 DEF Kill, Stop, HonestInv
<1>9. CASE Start \/ (\E c \in Contracts : Spawn(c)) \/ UNCHANGED vars
  BY <1>0, <1>1, <1>9 DEF Start, Spawn, vars, HonestInv
<1>10. QED
  BY <1>2, <1>3, <1>5, <1>6, <1>7, <1>8, <1>9 DEF Next, WatcherStep

\* However often a watcher is killed, restarted or late, and however many
\* replicas it watches: it fails no contract and has no replica unenrolled while
\* the updater is honest.
THEOREM HonestSafe == Spec => []HonestIsSafe
<1>1. Init => TypeOK /\ HonestInv
  <2>1. Init => HonestInv
    BY WatcherAssumption DEF Init, HonestInv, ToSet
  <2>2. QED
    BY <2>1, TypeInit
<1>2. TypeOK /\ HonestInv /\ [Next]_vars => (TypeOK /\ HonestInv)'
  BY TypeNext, HonestNext
<1>3. HonestInv => HonestIsSafe
  BY DEF HonestInv, HonestIsSafe
<1>4. QED
  BY <1>1, <1>2, <1>3, PTL DEF Spec

=============================================================================
