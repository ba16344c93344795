-------------------------- MODULE GovernanceProofs --------------------------
(***************************************************************************)
(* Theorems about GovernanceRouter, for any number of chains, any calls    *)
(* and any forgeries, and about Deployment, which sets them up: what the   *)
(* scripts list, in which order, and what follows from it.                 *)
(***************************************************************************)
EXTENDS Deployment, FiniteSetTheorems, SequenceTheorems, NaturalsInduction, WellFoundedInduction,
        TLAPS

Entries == Domains \cup {NoDomain}

-----------------------------------------------------------------------------
(* The list of domains *)

\* Where a domain is listed once, _removeDomain finds that place.
LEMMA OnlyPlace ==
    ASSUME NEW list \in Seq(Entries), NEW S \in SUBSET Domains, NEW e \in Domains,
           ListsExactly(list, S)
    PROVE  FirstPlaces(list, e) = {i \in DOMAIN list : list[i] = e}
  <1>1. ASSUME NEW i \in DOMAIN list, list[i] = e, NEW j \in 1..(i-1)
        PROVE  list[j] # e
    <2>1. j \in DOMAIN list /\ j # i
      BY <1>1
    <2>2. e # NoDomain
      BY GovernanceAssumption
    <2>. QED
      BY <1>1, <2>1, <2>2 DEF ListsExactly
  <1>. QED
    BY <1>1 DEF FirstPlaces

\* _setRouter keeps a list exact.
LEMMA RelistExact ==
    ASSUME NEW list \in Seq(Entries), NEW f \in [Domains -> Domains \cup {NoRouter}],
           NEW e \in Domains, NEW r \in Domains \cup {NoRouter},
           ListsExactly(list, {x \in Domains : f[x] # NoRouter})
    PROVE  /\ Relist(list, f[e], e, r) \in Seq(Entries)
           /\ ListsExactly(Relist(list, f[e], e, r), {x \in Domains : [f EXCEPT ![e] = r][x] # NoRouter})
  <1>. DEFINE S == {x \in Domains : f[x] # NoRouter}
              T == {x \in Domains : [f EXCEPT ![e] = r][x] # NoRouter}
              new == Relist(list, f[e], e, r)
  <1>0. e # NoDomain /\ NoDomain \notin Domains /\ NoRouter \notin Domains
    BY GovernanceAssumption
  <1>1. CASE r = NoRouter
    <2>1. T = S \ {e}
      BY <1>1
    <2>2. FirstPlaces(list, e) = {i \in DOMAIN list : list[i] = e}
      BY OnlyPlace
    <2>3. new = [i \in DOMAIN list |-> IF list[i] = e THEN NoDomain ELSE list[i]]
      BY <1>1, <2>2 DEF Relist, Erase
    <2>4. DOMAIN new = DOMAIN list /\ new \in Seq(Entries)
      <3>1. DOMAIN list = 1..Len(list) /\ Len(list) \in Nat
        OBVIOUS
      <3>2. \A i \in 1..Len(list) : (IF list[i] = e THEN NoDomain ELSE list[i]) \in Entries
        BY DEF Entries
      <3>3. new \in [1..Len(list) -> Entries]
        BY <2>3, <3>1, <3>2
      <3>. QED
        BY <2>3, <3>1, <3>3
    <2>5. \A x \in T : \E i \in DOMAIN new : new[i] = x
      <3>. SUFFICES ASSUME NEW x \in T PROVE \E i \in DOMAIN new : new[i] = x
        OBVIOUS
      <3>1. PICK i \in DOMAIN list : list[i] = x
        BY <2>1 DEF ListsExactly
      <3>2. new[i] = x
        BY <2>1, <2>3, <3>1
      <3>. QED
        BY <2>4, <3>1, <3>2
    <2>6. \A i \in DOMAIN new : new[i] # NoDomain => new[i] \in T
      BY <2>1, <2>3 DEF ListsExactly
    <2>7. \A i, j \in DOMAIN new : new[i] = new[j] /\ new[i] # NoDomain => i = j
      BY <2>3 DEF ListsExactly
    <2>. QED
      BY <2>4, <2>5, <2>6, <2>7 DEF ListsExactly
  <1>2. CASE r # NoRouter /\ f[e] = NoRouter
    <2>1. T = S \cup {e} /\ e \notin S
      BY <1>2
    <2>2. new = Append(list, e)
      BY <1>2 DEF Relist
    <2>3. /\ new \in Seq(Entries)
          /\ Len(new) = Len(list) + 1
          /\ DOMAIN new = 1..(Len(list) + 1)
          /\ new[Len(list) + 1] = e
          /\ \A i \in DOMAIN list : new[i] = list[i]
      BY <2>2 DEF Entries
    <2>4. DOMAIN list = 1..Len(list) /\ Len(list) \in Nat
      OBVIOUS
    <2>5. \A i \in DOMAIN list : list[i] # e
      BY <1>0, <2>1 DEF ListsExactly
    <2>6. \A x \in T : \E i \in DOMAIN new : new[i] = x
      <3>1. ASSUME NEW x \in S PROVE \E i \in DOMAIN new : new[i] = x
        <4>1. PICK i \in DOMAIN list : list[i] = x
          BY <3>1 DEF ListsExactly
        <4>2. i \in DOMAIN new /\ new[i] = x
          BY <2>3, <2>4, <4>1
        <4>. QED
          BY <4>2
      <3>2. \E i \in DOMAIN new : new[i] = e
        BY <2>3, <2>4
      <3>. QED
        BY <2>1, <3>1, <3>2
    <2>7. \A i \in DOMAIN new : new[i] # NoDomain => new[i] \in T
      <3>. SUFFICES ASSUME NEW i \in DOMAIN new, new[i] # NoDomain PROVE new[i] \in T
        OBVIOUS
      <3>1. CASE i \in DOMAIN list
        BY <2>1, <2>3, <3>1 DEF ListsExactly
      <3>2. CASE i = Len(list) + 1
        BY <2>1, <2>3, <3>2
      <3>. QED
        BY <2>3, <2>4, <3>1, <3>2
    <2>8. \A i, j \in DOMAIN new : new[i] = new[j] /\ new[i] # NoDomain => i = j
      <3>. SUFFICES ASSUME NEW i \in DOMAIN new, NEW j \in DOMAIN new, new[i] = new[j],
                           new[i] # NoDomain
                    PROVE  i = j
        OBVIOUS
      <3>1. CASE i \in DOMAIN list /\ j \in DOMAIN list
        BY <2>3, <3>1 DEF ListsExactly
      <3>2. CASE i \notin DOMAIN list \/ j \notin DOMAIN list
        BY <2>3, <2>4, <2>5, <3>2
      <3>. QED
        BY <3>1, <3>2
    <2>. QED
      BY <2>3, <2>6, <2>7, <2>8 DEF ListsExactly
  <1>3. CASE r # NoRouter /\ f[e] # NoRouter
    <2>1. T = S
      BY <1>3
    <2>2. new = list
      BY <1>3 DEF Relist
    <2>. QED
      BY <2>1, <2>2
  <1>. QED
    BY <1>1, <1>2, <1>3

-----------------------------------------------------------------------------
(* Types *)

\* A list has finitely many places.
LEMMA PlacesFinite ==
    ASSUME NEW list \in Seq(Entries), NEW P \in SUBSET DOMAIN list
    PROVE  Cardinality(P) \in Nat
  <1>1. DOMAIN list = 1..Len(list) /\ Len(list) \in Nat
    OBVIOUS
  <1>2. IsFiniteSet(DOMAIN list)
    BY <1>1, FS_Interval
  <1>. QED
    BY <1>2, FS_Subset, FS_CardinalityType

\* What a router dispatches is a message of its own.
LEMMA SendTypes ==
    ASSUME TypeOK, NEW d \in Domains, NEW list \in Seq(Entries),
           NEW known \in [Domains -> Domains \cup {NoRouter}], NEW body \in Body,
           SendToAll(d, list, known, body)
    PROVE  /\ inflight' \subseteq Message
           /\ nonces' \in [Domains -> [Domains -> Nat]]
           /\ \A m \in inflight' : m \in inflight \/ (m.from = d /\ m.sender = d /\ m.body = body)
  <1>1. ASSUME NEW i \in Recipients(list)
        PROVE  Copy(d, list, i, body) \in Message
    <2>1. i \in DOMAIN list /\ list[i] \in Domains
      BY DEF Recipients, Entries
    <2>2. Before(list, i) \subseteq DOMAIN list
      BY DEF Before, Recipients
    <2>3. nonces[d][list[i]] \in Nat
      BY <2>1 DEF TypeOK
    <2>4. Cardinality(Before(list, i)) \in Nat
      BY <2>2, PlacesFinite
    <2>5. nonces[d][list[i]] + Cardinality(Before(list, i)) \in Nat
      BY <2>3, <2>4
    <2>. QED
      BY <2>1, <2>5 DEF Copy, Message
  <1>2. ASSUME NEW e \in Domains
        PROVE  nonces[d][e] + Cardinality({i \in Recipients(list) : list[i] = e}) \in Nat
    <2>1. {i \in Recipients(list) : list[i] = e} \subseteq DOMAIN list
      BY DEF Recipients
    <2>2. nonces[d][e] \in Nat
      BY DEF TypeOK
    <2>3. Cardinality({i \in Recipients(list) : list[i] = e}) \in Nat
      BY <2>1, PlacesFinite
    <2>. QED
      BY <2>2, <2>3
  <1>3. inflight' \subseteq Message
    BY <1>1 DEF SendToAll, TypeOK
  <1>4. nonces' \in [Domains -> [Domains -> Nat]]
    BY <1>2 DEF SendToAll, TypeOK
  <1>5. \A i \in Recipients(list) :
            /\ Copy(d, list, i, body).from = d
            /\ Copy(d, list, i, body).sender = d
            /\ Copy(d, list, i, body).body = body
    BY DEF Copy
  <1>. QED
    BY <1>3, <1>4, <1>5 DEF SendToAll

\* _setRouter keeps both the types and the exact lists.
LEMMA SetRouterLists ==
    ASSUME TypeOK, ListsMatchRouters, NEW d \in Domains, NEW e \in Domains,
           NEW r \in Domains \cup {NoRouter}, _setRouter(d, e, r)
    PROVE  /\ routers' \in [Domains -> [Domains -> Domains \cup {NoRouter}]]
           /\ domains' \in [Domains -> Seq(Entries)]
           /\ ListsMatchRouters'
  <1>1. /\ routers[d] \in [Domains -> Domains \cup {NoRouter}]
        /\ domains[d] \in Seq(Entries)
        /\ ListsExactly(domains[d], {x \in Domains : routers[d][x] # NoRouter})
    BY DEF TypeOK, ListsMatchRouters, MustHaveRouter, Entries
  <1>2. /\ Relist(domains[d], routers[d][e], e, r) \in Seq(Entries)
        /\ ListsExactly(Relist(domains[d], routers[d][e], e, r),
                        {x \in Domains : [routers[d] EXCEPT ![e] = r][x] # NoRouter})
    <2>. DEFINE list == domains[d]
                f == routers[d]
    <2>1. /\ list \in Seq(Entries) /\ f \in [Domains -> Domains \cup {NoRouter}]
          /\ e \in Domains /\ r \in Domains \cup {NoRouter}
          /\ ListsExactly(list, {x \in Domains : f[x] # NoRouter})
      BY <1>1
    <2>. HIDE DEF list, f
    <2>2. /\ Relist(list, f[e], e, r) \in Seq(Entries)
          /\ ListsExactly(Relist(list, f[e], e, r),
                          {x \in Domains : [f EXCEPT ![e] = r][x] # NoRouter})
      BY ONLY <2>1, RelistExact
    <2>. QED
      BY <2>2 DEF list, f
  <1>3. /\ routers' = [routers EXCEPT ![d] = [routers[d] EXCEPT ![e] = r]]
        /\ domains' = [domains EXCEPT ![d] = Relist(domains[d], routers[d][e], e, r)]
    BY DEF _setRouter, TypeOK
  <1>4. domains' \in [Domains -> Seq(Entries)]
    BY <1>2, <1>3 DEF TypeOK, Entries
  <1>5. routers' \in [Domains -> [Domains -> Domains \cup {NoRouter}]]
    BY <1>3 DEF TypeOK
  <1>6. ASSUME NEW c \in Domains
        PROVE  ListsExactly(domains'[c], {x \in Domains : routers'[c][x] # NoRouter})
    <2>1. CASE c = d
      <3>1. domains'[c] = Relist(domains[d], routers[d][e], e, r)
        BY <1>3, <2>1 DEF TypeOK
      <3>2. routers'[c] = [routers[d] EXCEPT ![e] = r]
        BY <1>3, <2>1 DEF TypeOK
      <3>. QED
        BY <1>2, <3>1, <3>2
    <2>2. CASE c # d
      <3>1. domains'[c] = domains[c] /\ routers'[c] = routers[c]
        BY <1>3, <2>2 DEF TypeOK
      <3>. QED
        BY <3>1 DEF ListsMatchRouters, MustHaveRouter
    <2>. QED
      BY <2>1, <2>2
  <1>. QED
    BY <1>4, <1>5, <1>6 DEF ListsMatchRouters, MustHaveRouter

\* _transferGovernor keeps the types of the seat.
LEMMA TransferTypes ==
    ASSUME TypeOK, NEW d \in Domains, NEW e \in Domains, NEW a \in Accounts,
           _transferGovernor(d, e, a)
    PROVE  /\ governor' \in [Domains -> Accounts \cup {Nobody}]
           /\ governorDomain' \in [Domains -> Domains]
  BY DEF _transferGovernor, NewGovernor, TypeOK

\* A message names what its body promises.
LEMMA BodyTypes ==
    ASSUME NEW m \in Message
    PROVE  /\ m.to \in Domains /\ m.from \in Domains /\ m.body \in Body
           /\ m.body.domain \in Domains
           /\ m.body.type = "transfer" => m.body.governor \in Accounts
           /\ m.body.type = "router" => m.body.router \in Domains \cup {NoRouter}
  <1>1. m.to \in Domains /\ m.from \in Domains /\ m.body \in Body
    BY DEF Message
  <1>. QED
    BY <1>1 DEF Body

-----------------------------------------------------------------------------
(* The invariant *)

\* A transfer, sent by a router, that would seat a governor where it arrives
Live(m) == m.sender # Stranger /\ m.body.type = "transfer" /\ m.body.domain = m.to

\* The office is one token: it sits on a chain or travels in one message.
OneToken ==
    /\ OneGovernor
    /\ \A d \in Domains, m \in inflight : governor[d] # Nobody => ~Live(m)
    /\ \A m1, m2 \in inflight : Live(m1) /\ Live(m2) => m1 = m2

IInv == TypeOK /\ ListsMatchRouters /\ OneToken

\* The initial state satisfies the invariant.
LEMMA InitInvariant == Init => IInv
  <1>. SUFFICES ASSUME Init PROVE IInv
    OBVIOUS
  <1>. USE GovernanceAssumption
  <1>1. TypeOK
    <2>1. domains \in [Domains -> Seq(Domains \cup {NoDomain})]
      BY DEF Init
    <2>. QED
      BY <2>1 DEF Init, TypeOK
  <1>2. ListsMatchRouters
    <2>1. ASSUME NEW d \in Domains
          PROVE  ListsExactly(FirstList[d], {e \in Domains : MustHaveRouter(d, e)})
      <3>. DEFINE S == {e \in Domains : \E i \in DOMAIN FirstList[d] : FirstList[d][i] = e}
      <3>1. {e \in Domains : MustHaveRouter(d, e)} = S
        BY DEF Init, MustHaveRouter
      <3>2. PICK T \in {Domains, Domains \ {d}} : ListsExactly(FirstList[d], T)
        OBVIOUS
      <3>3. S = T
        <4>1. \A i \in DOMAIN FirstList[d] : FirstList[d][i] \in Domains
          OBVIOUS
        <4>. QED
          BY <3>2, <4>1 DEF ListsExactly
      <3>. QED
        BY <3>1, <3>2, <3>3
    <2>. QED
      BY <2>1 DEF Init, ListsMatchRouters
  <1>3. OneToken
    BY DEF Init, OneToken, OneGovernor
  <1>. QED
    BY <1>1, <1>2, <1>3 DEF IInv

\* A transfer of the office keeps it one token: the sender had the only one.
LEMMA TransferStep ==
    ASSUME IInv, NEW d \in Domains, NEW e \in Domains, NEW a \in Accounts, TransferGovernor(d, e, a)
    PROVE  IInv'
  <1>. DEFINE body == [type |-> "transfer", domain |-> e, governor |-> a]
  <1>0. TypeOK /\ ListsMatchRouters /\ OneToken /\ _transferGovernor(d, e, a)
    BY DEF IInv, TransferGovernor
  <1>1. body \in Body
    BY DEF Body
  <1>2. domains[d] \in Seq(Entries) /\ routers[d] \in [Domains -> Domains \cup {NoRouter}]
    BY <1>0 DEF TypeOK, Entries
  <1>3. /\ inflight' \subseteq Message
        /\ nonces' \in [Domains -> [Domains -> Nat]]
    <2>1. CASE e = d
      BY <1>0, <2>1 DEF TransferGovernor, channel, TypeOK
    <2>2. CASE e # d
      BY <1>0, <1>1, <1>2, <2>2, SendTypes DEF TransferGovernor
    <2>. QED
      BY <2>1, <2>2
  <1>4. TypeOK'
    <2>1. /\ governor' \in [Domains -> Accounts \cup {Nobody}]
          /\ governorDomain' \in [Domains -> Domains]
      BY <1>0, TransferTypes
    <2>2. calls' \in 0..MaxCalls /\ careful' \in BOOLEAN
      BY <1>0, GovernanceAssumption DEF TransferGovernor, TypeOK
    <2>. QED
      BY <1>0, <1>3, <2>1, <2>2 DEF TransferGovernor, lists, TypeOK
  <1>5. ListsMatchRouters'
    BY <1>0 DEF TransferGovernor, lists, ListsMatchRouters, MustHaveRouter
  <1>6. /\ governor[d] # Nobody
        /\ \A m \in inflight : ~Live(m)
        /\ \A c \in Domains : c # d => governor[c] = Nobody
    BY <1>0 DEF TransferGovernor, OneToken, OneGovernor
  <1>7. /\ \A c \in Domains : c # d => governor'[c] = Nobody
        /\ e # d => governor'[d] = Nobody
    BY <1>0, <1>6 DEF _transferGovernor, NewGovernor, TypeOK
  <1>8. CASE e = d
    <2>1. inflight' = inflight
      BY <1>8 DEF TransferGovernor, channel
    <2>2. OneToken'
      BY <1>6, <1>7, <2>1 DEF OneToken, OneGovernor
    <2>. QED
      BY <1>4, <1>5, <2>2 DEF IInv
  <1>9. CASE e # d
    <2>1. inflight' = inflight \cup
              {Copy(d, domains[d], i, body) :
                  i \in {j \in Recipients(domains[d]) :
                            domains[d][j] # d /\ routers[d][domains[d][j]] = domains[d][j]}}
      BY <1>9 DEF TransferGovernor, SendToAll
    <2>2. ASSUME NEW m \in inflight', Live(m)
          PROVE  \E i \in Recipients(domains[d]) :
                    domains[d][i] = e /\ m = Copy(d, domains[d], i, body)
      <3>1. PICK i \in Recipients(domains[d]) : m = Copy(d, domains[d], i, body)
        BY <1>6, <2>1, <2>2
      <3>2. m.to = domains[d][i] /\ m.body = body
        BY <3>1 DEF Copy
      <3>3. domains[d][i] = e
        BY <2>2, <3>2 DEF Live
      <3>. QED
        BY <3>1, <3>3
    <2>3. \A i, j \in Recipients(domains[d]) : domains[d][i] = e /\ domains[d][j] = e => i = j
      BY <1>0 DEF ListsMatchRouters, ListsExactly, Recipients
    <2>4. \A m1, m2 \in inflight' : Live(m1) /\ Live(m2) => m1 = m2
      BY <2>2, <2>3
    <2>5. OneToken'
      BY <1>7, <1>9, <2>4 DEF OneToken, OneGovernor
    <2>. QED
      BY <1>4, <1>5, <2>5 DEF IInv
  <1>. QED
    BY <1>8, <1>9

\* Enrollments move no office.
LEMMA EnrollStep ==
    ASSUME IInv, NEW d \in Domains, NEW e \in Domains, NEW r \in {e, NoRouter},
           SetRouter(d, e, r) \/ SetRouterLocal(d, e, r)
    PROVE  IInv'
  <1>. DEFINE body == [type |-> "router", domain |-> e, router |-> r]
  <1>0. /\ TypeOK /\ ListsMatchRouters /\ OneToken /\ _setRouter(d, e, r)
        /\ UNCHANGED seat /\ UNCHANGED recovery
    BY DEF IInv, SetRouter, SetRouterLocal
  <1>1. /\ routers' \in [Domains -> [Domains -> Domains \cup {NoRouter}]]
        /\ domains' \in [Domains -> Seq(Entries)]
        /\ ListsMatchRouters'
    BY <1>0, SetRouterLists
  <1>2. body \in Body
    BY DEF Body
  <1>3. /\ inflight' \subseteq Message
        /\ nonces' \in [Domains -> [Domains -> Nat]]
        /\ \A m \in inflight' : m \in inflight \/ m.body = body
    <2>1. CASE SetRouter(d, e, r)
      <3>1. domains'[d] \in Seq(Entries) /\ routers'[d] \in [Domains -> Domains \cup {NoRouter}]
        BY <1>1
      <3>2. SendToAll(d, domains'[d], routers'[d], body)
        BY <2>1 DEF SetRouter
      <3>. QED
        BY <1>0, <1>2, <3>1, <3>2, SendTypes
    <2>2. CASE SetRouterLocal(d, e, r)
      BY <1>0, <2>2 DEF SetRouterLocal, channel, TypeOK
    <2>. QED
      BY <2>1, <2>2
  <1>4. TypeOK'
    <2>1. calls' \in 0..MaxCalls
      <3>1. calls < MaxCalls /\ calls' = calls + 1
        BY DEF SetRouter, SetRouterLocal
      <3>. QED
        BY <1>0, <3>1, GovernanceAssumption DEF TypeOK
    <2>2. careful' \in BOOLEAN
      <3>1. careful \in BOOLEAN
        BY <1>0 DEF TypeOK
      <3>2. careful' = careful \/ careful' = (careful /\ inflight = {})
        BY DEF SetRouter, SetRouterLocal
      <3>. QED
        BY <3>1, <3>2, Zenon
    <2>. QED
      BY <1>0, <1>1, <1>3, <2>1, <2>2 DEF seat, Entries, TypeOK
  <1>5. OneToken'
    <2>1. \A m \in inflight' : Live(m) => m \in inflight
      BY <1>3 DEF Live
    <2>. QED
      BY <1>0, <2>1 DEF seat, OneToken, OneGovernor
  <1>. QED
    BY <1>1, <1>4, <1>5 DEF IInv

\* What arrives moves the office only where it was sent.
LEMMA ProcessStep ==
    ASSUME IInv, NEW m \in inflight, Process(m)
    PROVE  IInv'
  <1>0. /\ TypeOK /\ ListsMatchRouters /\ OneToken
        /\ inflight' = inflight \ {m}
        /\ UNCHANGED <<recovery, nonces, calls, careful>>
    BY DEF IInv, Process
  <1>1. m \in Message
    BY <1>0 DEF TypeOK
  <1>2. CASE HandleTransferGovernor(m)
    <2>1. /\ m.to \in Domains /\ m.body.domain \in Domains /\ m.body.governor \in Accounts
          /\ _transferGovernor(m.to, m.body.domain, m.body.governor)
      BY <1>1, <1>2, BodyTypes DEF HandleTransferGovernor
    <2>2. UNCHANGED lists
      BY <1>2 DEF HandleTransferGovernor
    <2>3. TypeOK'
      <3>1. /\ governor' \in [Domains -> Accounts \cup {Nobody}]
            /\ governorDomain' \in [Domains -> Domains]
        BY <1>0, <2>1, TransferTypes
      <3>. QED
        BY <1>0, <2>2, <3>1 DEF lists, TypeOK
    <2>4. ListsMatchRouters'
      BY <1>0, <2>2 DEF lists, ListsMatchRouters, MustHaveRouter
    <2>5. m.sender # Stranger
      <3>1. routers[m.to][m.from] \in Domains \cup {NoRouter}
        BY <1>0, <1>1, BodyTypes DEF TypeOK
      <3>. QED
        BY <1>2, <3>1, GovernanceAssumption DEF HandleTransferGovernor, Accepts, IsGovernorRouter
    <2>6. OneToken'
      <3>1. CASE m.body.domain = m.to
        <4>1. Live(m)
          BY <1>2, <2>5, <3>1 DEF Live, HandleTransferGovernor
        <4>2. \A d \in Domains : governor[d] = Nobody
          BY <1>0, <4>1 DEF OneToken
        <4>3. \A n \in inflight' : ~Live(n)
          BY <1>0, <4>1 DEF OneToken
        <4>4. \A d \in Domains : d # m.to => governor'[d] = Nobody
          BY <1>0, <2>1, <4>2 DEF _transferGovernor, TypeOK
        <4>. QED
          BY <4>3, <4>4 DEF OneToken, OneGovernor
      <3>2. CASE m.body.domain # m.to
        <4>1. \A d \in Domains : governor'[d] = IF d = m.to THEN Nobody ELSE governor[d]
          BY <1>0, <2>1, <3>2 DEF _transferGovernor, NewGovernor, TypeOK
        <4>. QED
          BY <1>0, <4>1 DEF OneToken, OneGovernor
      <3>. QED
        BY <3>1, <3>2
    <2>. QED
      BY <2>3, <2>4, <2>6 DEF IInv
  <1>3. CASE HandleSetRouter(m)
    <2>1. /\ m.to \in Domains /\ m.body.domain \in Domains
          /\ m.body.router \in Domains \cup {NoRouter}
          /\ _setRouter(m.to, m.body.domain, m.body.router)
          /\ UNCHANGED seat
      BY <1>1, <1>3, BodyTypes DEF HandleSetRouter
    <2>2. /\ routers' \in [Domains -> [Domains -> Domains \cup {NoRouter}]]
          /\ domains' \in [Domains -> Seq(Entries)]
          /\ ListsMatchRouters'
      BY <1>0, <2>1, SetRouterLists
    <2>3. TypeOK'
      BY <1>0, <2>1, <2>2 DEF seat, Entries, TypeOK
    <2>4. OneToken'
      BY <1>0, <2>1 DEF seat, OneToken, OneGovernor
    <2>. QED
      BY <2>2, <2>3, <2>4 DEF IInv
  <1>4. CASE Refuse(m)
    <2>1. UNCHANGED <<seat, lists>>
      BY <1>4 DEF Refuse
    <2>2. TypeOK'
      BY <1>0, <2>1 DEF seat, lists, TypeOK
    <2>3. ListsMatchRouters'
      BY <2>1, <1>0 DEF lists, ListsMatchRouters, MustHaveRouter
    <2>4. OneToken'
      BY <1>0, <2>1 DEF seat, OneToken, OneGovernor
    <2>. QED
      BY <2>2, <2>3, <2>4 DEF IInv
  <1>. QED
    BY <1>2, <1>3, <1>4 DEF Process

\* A forgery is no live transfer.
LEMMA ForgeStep ==
    ASSUME IInv, NEW f \in Forgeries, Forge(f)
    PROVE  IInv'
  <1>. DEFINE m == [from |-> f.from, to |-> f.to, nonce |-> nonces[f.from][f.to],
                    sender |-> Stranger, body |-> f.body]
  <1>0. TypeOK /\ ListsMatchRouters /\ OneToken
    BY DEF IInv
  <1>1. f.from \in Domains /\ f.to \in Domains /\ f.body \in Body
    BY GovernanceAssumption
  <1>2. nonces[f.from][f.to] \in Nat
    BY <1>0, <1>1 DEF TypeOK
  <1>3. m \in Message /\ ~Live(m)
    BY <1>1, <1>2 DEF Message, Live
  <1>4. /\ inflight' = inflight \cup {m}
        /\ UNCHANGED <<seat, lists, recovery, careful>>
    BY DEF Forge
  <1>5. nonces' \in [Domains -> [Domains -> Nat]]
    <2>1. nonces' = [nonces EXCEPT ![f.from] = [nonces[f.from] EXCEPT ![f.to] = nonces[f.from][f.to] + 1]]
      BY <1>0, <1>1 DEF Forge, TypeOK
    <2>2. [nonces[f.from] EXCEPT ![f.to] = nonces[f.from][f.to] + 1] \in [Domains -> Nat]
      BY <1>0, <1>1, <1>2 DEF TypeOK
    <2>. QED
      BY <1>0, <2>1, <2>2 DEF TypeOK
  <1>6. calls' \in 0..MaxCalls
    BY <1>0, GovernanceAssumption DEF Forge, TypeOK
  <1>7. TypeOK'
    BY <1>0, <1>3, <1>4, <1>5, <1>6 DEF seat, lists, TypeOK
  <1>8. ListsMatchRouters'
    BY <1>0, <1>4 DEF lists, ListsMatchRouters, MustHaveRouter
  <1>9. OneToken'
    BY <1>0, <1>3, <1>4 DEF seat, OneToken, OneGovernor
  <1>. QED
    BY <1>7, <1>8, <1>9 DEF IInv

\* Recovery changes neither lists nor offices.
LEMMA RecoveryStep ==
    ASSUME IInv, NEW d \in Domains,
           InitiateRecoveryTimelock(d) \/ TimelockExpires(d) \/ ExitRecovery(d)
    PROVE  IInv'
  <1>0. TypeOK /\ ListsMatchRouters /\ OneToken
    BY DEF IInv
  <1>1. UNCHANGED <<seat, lists, channel, careful>>
    BY DEF InitiateRecoveryTimelock, TimelockExpires, ExitRecovery
  <1>2. recovery' \in [Domains -> {"off", "initiated", "active"}] /\ calls' \in 0..MaxCalls
    <2>1. \E s \in {"off", "initiated", "active"} : recovery' = [recovery EXCEPT ![d] = s]
      BY DEF InitiateRecoveryTimelock, TimelockExpires, ExitRecovery
    <2>2. calls' = calls \/ (calls < MaxCalls /\ calls' = calls + 1)
      BY DEF InitiateRecoveryTimelock, TimelockExpires, ExitRecovery
    <2>. QED
      BY <1>0, <2>1, <2>2, GovernanceAssumption DEF TypeOK
  <1>3. TypeOK'
    BY <1>0, <1>1, <1>2 DEF seat, lists, channel, TypeOK
  <1>4. ListsMatchRouters'
    BY <1>0, <1>1 DEF lists, ListsMatchRouters, MustHaveRouter
  <1>5. OneToken'
    BY <1>0, <1>1 DEF seat, channel, OneToken, OneGovernor
  <1>. QED
    BY <1>3, <1>4, <1>5 DEF IInv

\* Every step keeps the invariant.
LEMMA NextInvariant == IInv /\ [Next]_vars => IInv'
  <1>. SUFFICES ASSUME IInv, [Next]_vars PROVE IInv'
    OBVIOUS
  <1>1. CASE UNCHANGED vars
    BY <1>1 DEF vars, IInv, TypeOK, ListsMatchRouters, MustHaveRouter, OneToken, OneGovernor
  <1>2. CASE Next
    BY <1>2, TransferStep, EnrollStep, RecoveryStep, ProcessStep, ForgeStep DEF Next
  <1>. QED
    BY <1>1, <1>2

-----------------------------------------------------------------------------
(* Theorems *)

\* Every variable keeps its type.
THEOREM TypeCorrect == Spec => []TypeOK
  <1>1. IInv => TypeOK
    BY DEF IInv
  <1>. QED
    BY <1>1, InitInvariant, NextInvariant, PTL DEF Spec

\* The list a router sends along names each enrolled domain exactly once
\* (GovernanceRouter._setRouter, _removeDomain).
THEOREM ListsCorrect == Spec => []ListsMatchRouters
  <1>1. IInv => ListsMatchRouters
    BY DEF IInv
  <1>. QED
    BY <1>1, InitInvariant, NextInvariant, PTL DEF Spec

\* There is never more than one governor, over any number of chains, transfers,
\* enrollments, recoveries and forgeries, in any order of delivery.
THEOREM GovernorUnique == Spec => []OneGovernor
  <1>1. IInv => OneGovernor
    BY DEF IInv, OneToken
  <1>. QED
    BY <1>1, InitInvariant, NextInvariant, PTL DEF Spec

-----------------------------------------------------------------------------
(* Deployment: sequences, flattened.  Induction over their number replaces   *)
(* the library's theorem on recursive functions.                             *)

\* Induction: a set of numbers with zero and all successors has all numbers.
LEMMA NumbersByInduction ==
    ASSUME NEW X \in SUBSET Nat, 0 \in X, \A n \in X : n + 1 \in X
    PROVE  Nat = X
<1> SUFFICES ASSUME NEW k \in Nat \ X
             PROVE  FALSE
  OBVIOUS
<1> DEFINE Below == {p \in Nat \X Nat : p[1] < p[2]}
           T == Nat \ X
<1>1. IsWellFoundedOn(Below, Nat)
  BY NatLessThanWellFounded DEF OpToRel
<1>2. PICK n \in T : \A m \in T : <<m, n>> \notin Below
  <2>1. T \subseteq Nat /\ T # {}
    OBVIOUS
  <2> HIDE DEF Below, T
  <2>2. QED
    BY <1>1, <2>1, WFMin
<1>3. n - 1 \in Nat
  BY <1>2
<1>4. n - 1 \notin T
  <2>1. SUFFICES ASSUME n - 1 \in T
                 PROVE  FALSE
    OBVIOUS
  <2>2. <<n - 1, n>> \notin Below
    BY <1>2, <2>1
  <2>3. n \in Nat /\ n - 1 \in Nat /\ n - 1 < n
    BY <1>2, <1>3
  <2>4. QED
    BY <2>2, <2>3
<1>5. QED
  BY <1>2, <1>3, <1>4

\* f[i] is the first i sequences of s, one after the other.
Joins(f, s, n) == f = [i \in 1..n |-> IF i = 1 THEN s[i] ELSE f[i-1] \o s[i]]

\* What FlattenSeq is, its definition expanded
LEMMA FlattenUnfold ==
    ASSUME NEW S, NEW s \in Seq(Seq(S)), s # <<>>
    PROVE  FlattenSeq(s) = (CHOOSE f : Joins(f, s, Len(s)))[Len(s)]
<1>1. Len(s) # 0
  OBVIOUS
<1>2. QED
  BY <1>1 DEF FlattenSeq, Joins

\* A list of sequences can be joined, however long it is.
LEMMA JoinsExist ==
    ASSUME NEW s, NEW n \in Nat
    PROVE  \E f : Joins(f, s, n)
<1> DEFINE X == {k \in Nat : \E f : Joins(f, s, k)}
<1>1. 0 \in X
  <2>1. Joins([i \in 1..0 |-> 0], s, 0)
    BY DEF Joins
  <2>2. QED
    BY <2>1
<1>2. ASSUME NEW k \in X
      PROVE  k + 1 \in X
  <2>1. PICK g : Joins(g, s, k)
    OBVIOUS
  <2> DEFINE h == [i \in 1..(k+1) |-> IF i = 1 THEN s[i] ELSE g[i-1] \o s[i]]
  <2>2. k \in Nat
    OBVIOUS
  <2>3. \A i \in 1..k : g[i] = IF i = 1 THEN s[i] ELSE g[i-1] \o s[i]
    BY <2>1, Zenon DEF Joins
  <2>4. \A i \in 1..k : i \in 1..(k+1)
    BY <2>2
  <2>5. \A i \in 1..k : g[i] = h[i]
    BY <2>3, <2>4, Zenon
  <2>6. Joins(h, s, k + 1)
    <3>1. \A i \in 1..(k+1) : i # 1 => i - 1 \in 1..k
      BY <2>2
    <3>2. \A i \in 1..(k+1) : h[i] = IF i = 1 THEN s[i] ELSE h[i-1] \o s[i]
      BY <2>5, <3>1, Zenon
    <3> HIDE DEF h
    <3>3. h = [i \in 1..(k+1) |-> h[i]]
      BY DEF h
    <3>4. QED
      BY <3>2, <3>3 DEF Joins
  <2> HIDE DEF h
  <2>7. QED
    BY <2>2, <2>6
<1>3. X \in SUBSET Nat
  OBVIOUS
<1> HIDE DEF X
<1>4. Nat = X
  BY <1>1, <1>2, <1>3, NumbersByInduction
<1>5. QED
  BY <1>4 DEF X

\* One sequence after another
LEMMA Joined ==
    ASSUME NEW S, NEW a \in Seq(S), NEW b \in Seq(S)
    PROVE  /\ a \o b \in Seq(S)
           /\ ToSet(a \o b) = ToSet(a) \cup ToSet(b)
           /\ IsInjective(a) /\ IsInjective(b) /\ ToSet(a) \cap ToSet(b) = {} => IsInjective(a \o b)
<1> DEFINE c == a \o b
<1>1. /\ c \in Seq(S) /\ DOMAIN c = 1..(Len(a) + Len(b))
      /\ \A i \in DOMAIN c : c[i] = IF i <= Len(a) THEN a[i] ELSE b[i - Len(a)]
      /\ DOMAIN a = 1..Len(a) /\ DOMAIN b = 1..Len(b) /\ Len(a) \in Nat /\ Len(b) \in Nat
  OBVIOUS
<1> HIDE DEF c
<1>2. \A i \in DOMAIN a : i \in DOMAIN c /\ c[i] = a[i]
  BY <1>1
<1>3. \A i \in DOMAIN b : i + Len(a) \in DOMAIN c /\ c[i + Len(a)] = b[i]
  BY <1>1
<1>4. \A i \in DOMAIN c :
         \/ i \in DOMAIN a /\ c[i] = a[i]
         \/ i - Len(a) \in DOMAIN b /\ c[i] = b[i - Len(a)]
  <2> TAKE i \in DOMAIN c
  <2>1. i \in Nat /\ 1 <= i /\ i <= Len(a) + Len(b)
    BY <1>1
  <2>2. CASE i <= Len(a)
    BY <1>1, <2>1, <2>2
  <2>3. CASE ~(i <= Len(a))
    <3>1. i - Len(a) \in 1..Len(b)
      BY <1>1, <2>1, <2>3
    <3>2. QED
      BY <1>1, <2>3, <3>1
  <2>4. QED
    BY <2>2, <2>3
<1>5. ToSet(c) = ToSet(a) \cup ToSet(b)
  BY <1>2, <1>3, <1>4 DEF ToSet
<1>6. ASSUME IsInjective(a), IsInjective(b), ToSet(a) \cap ToSet(b) = {}
      PROVE  IsInjective(c)
  <2>1. SUFFICES ASSUME NEW i \in DOMAIN c, NEW j \in DOMAIN c, c[i] = c[j]
                 PROVE  i = j
    BY DEF IsInjective
  <2>2. CASE i \in DOMAIN a /\ c[i] = a[i] /\ j \in DOMAIN a /\ c[j] = a[j]
    BY <1>6, <2>1, <2>2 DEF IsInjective
  <2>3. CASE i - Len(a) \in DOMAIN b /\ c[i] = b[i - Len(a)] /\ j - Len(a) \in DOMAIN b /\ c[j] = b[j - Len(a)]
    <3>1. i - Len(a) = j - Len(a)
      BY <1>6, <2>1, <2>3 DEF IsInjective
    <3>2. QED
      BY <1>1, <3>1
  <2>4. CASE ~(i \in DOMAIN a /\ c[i] = a[i] <=> j \in DOMAIN a /\ c[j] = a[j])
    BY <1>4, <1>6, <2>1, <2>4 DEF ToSet
  <2>5. QED
    BY <1>4, <2>2, <2>3, <2>4
<1>7. QED
  BY <1>1, <1>5, <1>6 DEF c

\* Nothing occurs twice in the sequences of s.
OnceEach(s) ==
    /\ \A i \in DOMAIN s : IsInjective(s[i])
    /\ \A i, j \in DOMAIN s : i # j => ToSet(s[i]) \cap ToSet(s[j]) = {}

\* Flattening loses nothing, adds nothing and repeats nothing.
LEMMA Flattened ==
    ASSUME NEW S, NEW s \in Seq(Seq(S)), s # <<>>
    PROVE  /\ FlattenSeq(s) \in Seq(S)
           /\ ToSet(FlattenSeq(s)) = UNION {ToSet(s[i]) : i \in DOMAIN s}
           /\ OnceEach(s) => IsInjective(FlattenSeq(s))
<1> DEFINE f == CHOOSE g : Joins(g, s, Len(s))
           In(k) == UNION {ToSet(s[i]) : i \in 1..k}
           Good(k) == /\ f[k] \in Seq(S)
                      /\ ToSet(f[k]) = In(k)
                      /\ OnceEach(s) => IsInjective(f[k])
           X == {k \in Nat : k + 1 <= Len(s) => Good(k + 1)}
<1>1. /\ Len(s) \in Nat /\ Len(s) # 0 /\ DOMAIN s = 1..Len(s)
      /\ \A i \in 1..Len(s) : s[i] \in Seq(S)
  OBVIOUS
<1>2. Joins(f, s, Len(s))
  BY <1>1, JoinsExist
<1>3. /\ f[1] = s[1]
      /\ \A i \in 1..Len(s) : i # 1 => f[i] = f[i-1] \o s[i]
  <2> HIDE DEF f
  <2>1. \A i \in 1..Len(s) : f[i] = IF i = 1 THEN s[i] ELSE f[i-1] \o s[i]
    BY <1>2 DEF Joins
  <2>2. 1 \in 1..Len(s)
    BY <1>1
  <2>3. QED
    BY <2>1, <2>2
<1> HIDE DEF f
<1>4. 0 \in X
  <2>1. In(1) = ToSet(s[1])
    OBVIOUS
  <2>2. QED
    BY <1>1, <1>3, <2>1 DEF OnceEach
<1>5. ASSUME NEW k \in X
      PROVE  k + 1 \in X
  <2> HIDE DEF Good
  <2>1. SUFFICES ASSUME k \in Nat, k + 2 <= Len(s)
                 PROVE  Good(k + 2)
    <3>1. k \in Nat /\ (k + 1) + 1 = k + 2
      BY <1>5
    <3>2. QED
      BY <3>1
  <2>2. Good(k + 1) /\ k + 2 \in 1..Len(s) /\ k + 2 # 1 /\ (k + 2) - 1 = k + 1 /\ s[k + 2] \in Seq(S)
    <3>1. k + 1 <= Len(s)
      BY <1>1, <2>1
    <3>2. Good(k + 1)
      BY <1>5, <3>1
    <3>3. QED
      BY <1>1, <2>1, <3>2
  <2>3. f[k + 2] = f[k + 1] \o s[k + 2]
    BY <1>3, <2>2
  <2>4. In(k + 2) = In(k + 1) \cup ToSet(s[k + 2])
    <3>1. 1..(k + 2) = 1..(k + 1) \cup {k + 2}
      BY <2>1
    <3>2. QED
      BY <3>1
  <2>5. OnceEach(s) => In(k + 1) \cap ToSet(s[k + 2]) = {}
    <3>1. \A i \in 1..(k + 1) : i \in DOMAIN s /\ i # k + 2
      BY <1>1, <2>1
    <3>2. QED
      BY <1>1, <2>2, <3>1 DEF OnceEach
  <2>6. OnceEach(s) => IsInjective(s[k + 2])
    BY <1>1, <2>2 DEF OnceEach
  <2> HIDE DEF In
  <2>7. /\ f[k + 1] \in Seq(S) /\ s[k + 2] \in Seq(S)
        /\ ToSet(f[k + 1]) = In(k + 1)
        /\ OnceEach(s) => IsInjective(f[k + 1])
    BY <2>2 DEF Good
  <2>8. /\ f[k + 2] \in Seq(S)
        /\ ToSet(f[k + 2]) = ToSet(f[k + 1]) \cup ToSet(s[k + 2])
        /\ OnceEach(s) => IsInjective(f[k + 2])
    BY <2>3, <2>5, <2>6, <2>7, Joined
  <2>9. QED
    BY <2>4, <2>7, <2>8 DEF Good
<1>6. X \in SUBSET Nat
  OBVIOUS
<1>7. Len(s) - 1 \in X
  <2> HIDE DEF X
  <2>1. Nat = X
    BY <1>4, <1>5, <1>6, NumbersByInduction
  <2>2. QED
    BY <1>1, <2>1
<1>8. Good(Len(s))
  BY <1>1, <1>7
<1>9. FlattenSeq(s) = f[Len(s)]
  BY FlattenUnfold DEF f
<1>10. QED
  BY <1>1, <1>8, <1>9

-----------------------------------------------------------------------------
(* The scripts *)

\* The configuration lists every chain once.
LEMMA OrderIs ==
    /\ Order \in Seq(Domains) /\ Order # <<>>
    /\ Len(Order) \in Nat /\ Len(Order) > 1 /\ DOMAIN Order = 1..Len(Order)
    /\ \A i \in DOMAIN Order : Order[i] \in Domains
    /\ \A d \in Domains : \E i \in DOMAIN Order : Order[i] = d
    /\ \A i, j \in DOMAIN Order : Order[i] = Order[j] => i = j
    /\ FirstGovernor = Order[1] /\ FirstGovernor \in Domains
<1>1. /\ Order \in Seq(Domains) /\ Len(Order) > 1 /\ ListsExactly(Order, Domains)
      /\ FirstGovernor = Order[1] /\ FirstGovernor \in Domains /\ NoDomain \notin Domains
  BY DeploymentAssumption, GovernanceAssumption
<1>2. Len(Order) \in Nat /\ DOMAIN Order = 1..Len(Order) /\ Order # <<>>
  BY <1>1
<1>3. \A i \in DOMAIN Order : Order[i] \in Domains
  BY <1>1
<1>4. QED
  BY <1>1, <1>2, <1>3 DEF ListsExactly

\* What f has for the chains of R, in the order of the configuration
Arranged(R, f) == [i \in DOMAIN Order |-> IF Order[i] \in R THEN f[Order[i]] ELSE <<>>]

\* All of it, one after the other, is all of it, and nothing twice.
LEMMA InOrderIs ==
    ASSUME NEW S, NEW R \in SUBSET Domains, NEW f \in [Domains -> Seq(S)],
           \A d \in R : IsInjective(f[d]),
           \A d, e \in R : d # e => ToSet(f[d]) \cap ToSet(f[e]) = {},
           NEW t, t = FlattenSeq(Arranged(R, f))
    PROVE  /\ t \in Seq(S)
           /\ ToSet(t) = UNION {ToSet(f[d]) : d \in R}
           /\ IsInjective(t)
<1> DEFINE s == Arranged(R, f)
<1>1. s \in Seq(Seq(S)) /\ s # <<>> /\ DOMAIN s = DOMAIN Order
  <2>1. \A i \in 1..Len(Order) : s[i] \in Seq(S)
    BY OrderIs DEF Arranged
  <2>2. s \in [1..Len(Order) -> Seq(S)]
    BY <2>1, OrderIs DEF Arranged
  <2>3. s \in Seq(Seq(S)) /\ DOMAIN s = 1..Len(Order)
    <3>1. Len(Order) \in Nat
      BY OrderIs
    <3> HIDE DEF s
    <3>2. QED
      BY ONLY <2>2, <3>1
  <2>4. QED
    BY <2>3, OrderIs
<1>2. \A i \in DOMAIN s : s[i] = IF Order[i] \in R THEN f[Order[i]] ELSE <<>>
  BY DEF Arranged
<1>3. t = FlattenSeq(s)
  OBVIOUS
<1> HIDE DEF s
<1>4. UNION {ToSet(s[i]) : i \in DOMAIN s} = UNION {ToSet(f[d]) : d \in R}
  <2>1. ToSet(<<>>) = {}
    BY DEF ToSet
  <2>2. \A i \in DOMAIN s : ToSet(s[i]) = IF Order[i] \in R THEN ToSet(f[Order[i]]) ELSE {}
    BY <1>2, <2>1
  <2>3. \A d \in R : \E i \in DOMAIN s : Order[i] = d
    BY <1>1, OrderIs
  <2>4. QED
    BY <2>2, <2>3
<1>5. OnceEach(s)
  <2>1. ToSet(<<>>) = {} /\ IsInjective(<<>>)
    BY DEF ToSet, IsInjective
  <2>2. ASSUME NEW i \in DOMAIN s
        PROVE  IsInjective(s[i])
    BY <1>2, <2>1
  <2>3. ASSUME NEW i \in DOMAIN s, NEW j \in DOMAIN s, i # j
        PROVE  ToSet(s[i]) \cap ToSet(s[j]) = {}
    <3>1. Order[i] # Order[j]
      BY <1>1, <2>3, OrderIs
    <3>2. CASE Order[i] \in R /\ Order[j] \in R
      BY <1>2, <3>1, <3>2
    <3>3. CASE ~(Order[i] \in R /\ Order[j] \in R)
      BY <1>2, <2>1, <3>3
    <3>4. QED
      BY <3>2, <3>3
  <2>4. QED
    BY <2>2, <2>3 DEF OnceEach
<1>6. QED
  <2>1. /\ FlattenSeq(s) \in Seq(S)
        /\ ToSet(FlattenSeq(s)) = UNION {ToSet(s[i]) : i \in DOMAIN s}
        /\ OnceEach(s) => IsInjective(FlattenSeq(s))
    BY ONLY <1>1, Flattened
  <2>2. QED
    BY <1>3, <1>4, <1>5, <2>1

Calls == {"create", "setHome", "ownerEnrollReplica", "setWatcherPermission", "setRouter",
          "appointGovernor", "transferGovernorship", "transferOwnership", "check", "write",
          "enrollRemoteRouter", "checkBridge"}
Names == {"upgradeBeaconController", "updaterManager", "xApp", "home", "governance", "replica",
          "bridgeToken", "bridgeRouter", "ethHelper", "first", "second", "bridge", ""}
Args == {"", "home", "governance"} \cup Domains
AnyStep == [call : Calls, on : Domains, to : Names, arg : Args]

\* A thread of steps on chain d, none of them twice
ThreadOn(t, d) ==
    /\ t \in Seq(AnyStep) /\ t # <<>>
    /\ IsInjective(t)
    /\ \A s \in ToSet(t) : s.on = d

BlockSteps(b) == UNION {ToSet(t) : t \in b}

\* The threads of a block have something to do, and no step in common.
Orderly(b) ==
    /\ b \subseteq Seq(AnyStep)
    /\ b # {} /\ <<>> \notin b
    /\ \A t \in b : IsInjective(t)
    /\ \A t, u \in b : t # u => ToSet(t) \cap ToSet(u) = {}

\* Blocks of one thread, and blocks of one thread per chain
LEMMA OneThread ==
    ASSUME NEW t \in Seq(AnyStep), t # <<>>, IsInjective(t)
    PROVE  Orderly({t}) /\ BlockSteps({t}) = ToSet(t)
  BY DEF Orderly, BlockSteps

\* A block of one thread per chain
LEMMA ThreadPerChain ==
    ASSUME NEW R \in SUBSET Domains, R # {}, NEW f, \A d \in R : ThreadOn(f[d], d)
    PROVE  Orderly({f[d] : d \in R})
<1>1. ASSUME NEW d \in R, NEW e \in R, f[d] # f[e]
      PROVE  ToSet(f[d]) \cap ToSet(f[e]) = {}
  BY <1>1 DEF ThreadOn
<1>2. QED
  BY <1>1 DEF Orderly, ThreadOn

\* The provers know a string by the set that lists it.
LEMMA SomeNames ==
    /\ "upgradeBeaconController" \in Names /\ "updaterManager" \in Names /\ "xApp" \in Names
    /\ "home" \in Names /\ "governance" \in Names /\ "bridgeToken" \in Names
    /\ "bridgeRouter" \in Names /\ "ethHelper" \in Names /\ "first" \in Names
    /\ "second" \in Names /\ "bridge" \in Names
  BY DEF Names

\* The fields of the steps that have names of their own
LEMMA NamedSteps ==
    ASSUME NEW d \in Domains, NEW c \in Names
    PROVE  /\ Create(d, c) \in AnyStep
           /\ Create(d, c).call = "create" /\ Create(d, c).on = d /\ Create(d, c).to = c
           /\ SetHome(d, c) \in AnyStep
           /\ SetHome(d, c).call = "setHome" /\ SetHome(d, c).on = d /\ SetHome(d, c).to = c
           /\ HandOver(d, c) \in AnyStep
           /\ HandOver(d, c).call = "transferOwnership" /\ HandOver(d, c).on = d /\ HandOver(d, c).to = c
           /\ Write(c) \in AnyStep
           /\ Write(c).call = "write" /\ Write(c).on = FirstGovernor /\ Write(c).to = c
           /\ AppointGovernor \in AnyStep /\ AppointGovernor.call = "appointGovernor"
           /\ TransferGovernorship(d) \in AnyStep
           /\ TransferGovernorship(d).call = "transferGovernorship" /\ TransferGovernorship(d).on = d
<1>1. /\ "create" \in Calls /\ "setHome" \in Calls /\ "transferOwnership" \in Calls
      /\ "write" \in Calls /\ "appointGovernor" \in Calls /\ "transferGovernorship" \in Calls
      /\ "governance" \in Names
      /\ "" \in Args /\ "home" \in Args /\ "governance" \in Args /\ FirstGovernor \in Args
      /\ FirstGovernor \in Domains
  BY OrderIs DEF Calls, Names, Args
<1>2. Create(d, c) \in AnyStep /\ Create(d, c).call = "create" /\ Create(d, c).on = d /\ Create(d, c).to = c
  BY <1>1 DEF Create, Step, AnyStep
<1>3. QED
  BY <1>1, <1>2 DEF SetHome, HandOver, Write, AppointGovernor, TransferGovernorship, Step, AnyStep

\* The steps of deployOptics
LEMMA DeployOpticsIs ==
    ASSUME NEW d \in Domains
    PROVE  /\ ThreadOn(DeployOptics(d), d)
           /\ ToSet(DeployOptics(d)) =
                 {Create(d, "upgradeBeaconController"), Create(d, "updaterManager"), Create(d, "xApp"),
                  Create(d, "home"), SetHome(d, "xApp"), SetHome(d, "updaterManager"), Create(d, "governance")}
<1> DEFINE t == DeployOptics(d)
<1>1. /\ DOMAIN t = 1..7
      /\ t[1] = Create(d, "upgradeBeaconController") /\ t[2] = Create(d, "updaterManager")
      /\ t[3] = Create(d, "xApp") /\ t[4] = Create(d, "home")
      /\ t[5] = SetHome(d, "xApp") /\ t[6] = SetHome(d, "updaterManager")
      /\ t[7] = Create(d, "governance")
  BY DEF DeployOptics
<1>2. \A c \in Names :
         /\ Create(d, c) \in AnyStep /\ Create(d, c).on = d
         /\ Create(d, c).call = "create" /\ Create(d, c).to = c
         /\ SetHome(d, c) \in AnyStep /\ SetHome(d, c).on = d
         /\ SetHome(d, c).call = "setHome" /\ SetHome(d, c).to = c
  BY NamedSteps
<1>3. t \in Seq(AnyStep) /\ t # <<>>
  BY <1>2, SomeNames DEF DeployOptics
<1>4. 1..7 = {1, 2, 3, 4, 5, 6, 7}
  OBVIOUS
<1> HIDE DEF t
<1>5. ToSet(t) = {t[1], t[2], t[3], t[4], t[5], t[6], t[7]}
  BY <1>1, <1>4 DEF ToSet
<1>6. IsInjective(t)
  BY <1>1, <1>2, <1>4, SomeNames DEF IsInjective
<1>7. \A s \in ToSet(t) : s.on = d
  BY <1>1, <1>2, <1>5, SomeNames
<1>8. QED
  BY <1>1, <1>3, <1>5, <1>6, <1>7 DEF ThreadOn, t

\* The steps of enrollRemote
LEMMA EnrollRemoteIs ==
    ASSUME NEW d \in Domains, NEW e \in Domains
    PROVE  /\ EnrollRemote(d, e) \in Seq(AnyStep) /\ EnrollRemote(d, e) # <<>>
           /\ IsInjective(EnrollRemote(d, e))
           /\ ToSet(EnrollRemote(d, e)) =
                 {Step("create", d, "replica", e), Step("ownerEnrollReplica", d, "xApp", e),
                  Step("setWatcherPermission", d, "xApp", e), Step("setRouter", d, "governance", e)}
           /\ \A s \in ToSet(EnrollRemote(d, e)) :
                 /\ s.on = d /\ s.arg = e
                 /\ \/ s.call = "create" /\ s.to = "replica"
                    \/ s.call \in {"ownerEnrollReplica", "setWatcherPermission"} /\ s.to = "xApp"
                    \/ s.call = "setRouter" /\ s.to = "governance"
<1> DEFINE t == EnrollRemote(d, e)
           a == Step("create", d, "replica", e)
           b == Step("ownerEnrollReplica", d, "xApp", e)
           c == Step("setWatcherPermission", d, "xApp", e)
           g == Step("setRouter", d, "governance", e)
<1>1. /\ a.call = "create" /\ a.on = d /\ a.to = "replica" /\ a.arg = e
      /\ b.call = "ownerEnrollReplica" /\ b.on = d /\ b.to = "xApp" /\ b.arg = e
      /\ c.call = "setWatcherPermission" /\ c.on = d /\ c.to = "xApp" /\ c.arg = e
      /\ g.call = "setRouter" /\ g.on = d /\ g.to = "governance" /\ g.arg = e
  BY DEF Step
<1>2. a \in AnyStep /\ b \in AnyStep /\ c \in AnyStep /\ g \in AnyStep
  BY DEF Step, AnyStep, Calls, Names, Args
<1>3. t = <<a, b, c, g>>
  BY DEF EnrollRemote
<1> HIDE DEF t, a, b, c, g
<1>4. t \in Seq(AnyStep) /\ t # <<>>
  BY <1>2, <1>3
<1>5. DOMAIN t = 1..4 /\ t[1] = a /\ t[2] = b /\ t[3] = c /\ t[4] = g /\ 1..4 = {1, 2, 3, 4}
  BY <1>3
<1>6. ToSet(t) = {a, b, c, g}
  BY <1>5 DEF ToSet
<1>7. IsInjective(t)
  BY <1>1, <1>5 DEF IsInjective
<1>8. \A s \in ToSet(t) :
         /\ s.on = d /\ s.arg = e
         /\ \/ s.call = "create" /\ s.to = "replica"
            \/ s.call \in {"ownerEnrollReplica", "setWatcherPermission"} /\ s.to = "xApp"
            \/ s.call = "setRouter" /\ s.to = "governance"
  BY <1>1, <1>6
<1>9. QED
  BY <1>4, <1>6, <1>7, <1>8 DEF t, a, b, c, g

\* The steps of relinquish
LEMMA RelinquishIs ==
    ASSUME NEW d \in Domains
    PROVE  /\ ThreadOn(Relinquish(d), d)
           /\ ToSet(Relinquish(d)) = {HandOver(d, "updaterManager"), HandOver(d, "xApp"),
                                      HandOver(d, "upgradeBeaconController"), HandOver(d, "home")}
<1> DEFINE t == Relinquish(d)
<1>1. /\ DOMAIN t = 1..4 /\ 1..4 = {1, 2, 3, 4}
      /\ t[1] = HandOver(d, "updaterManager") /\ t[2] = HandOver(d, "xApp")
      /\ t[3] = HandOver(d, "upgradeBeaconController") /\ t[4] = HandOver(d, "home")
  BY DEF Relinquish
<1>2. \A c \in Names : HandOver(d, c) \in AnyStep /\ HandOver(d, c).on = d /\ HandOver(d, c).to = c
  BY NamedSteps
<1>3. t \in Seq(AnyStep) /\ t # <<>>
  BY <1>2, SomeNames DEF Relinquish
<1> HIDE DEF t
<1>4. ToSet(t) = {t[1], t[2], t[3], t[4]}
  BY <1>1 DEF ToSet
<1>5. IsInjective(t)
  BY <1>1, <1>2, SomeNames DEF IsInjective
<1>6. \A s \in ToSet(t) : s.on = d
  BY <1>1, <1>2, <1>4, SomeNames
<1>7. QED
  BY <1>1, <1>3, <1>4, <1>5, <1>6 DEF ThreadOn, t

\* Every chain has others.
LEMMA RemotesAre ==
    /\ \A d \in Domains : Remotes(d) = Domains \ {d} /\ Remotes(d) # {}
    /\ Domains # {} /\ Domains \ {FirstGovernor} # {}
<1>1. Order[1] \in Domains /\ Order[2] \in Domains /\ Order[1] # Order[2]
  <2>1. 1 \in DOMAIN Order /\ 2 \in DOMAIN Order
    BY OrderIs
  <2>2. QED
    BY <2>1, OrderIs
<1>2. QED
  BY <1>1, OrderIs DEF Remotes

-----------------------------------------------------------------------------
(* The first script, block by block *)

FirstBlock == {InOrder(Domains, DeployOptics)}

\* deployOptics for every chain
LEMMA FirstBlockIs ==
    /\ Orderly(FirstBlock)
    /\ BlockSteps(FirstBlock) = UNION {ToSet(DeployOptics(d)) : d \in Domains}
<1> DEFINE f == [d \in Domains |-> DeployOptics(d)]
           t == InOrder(Domains, DeployOptics)
<1>1. f \in [Domains -> Seq(AnyStep)] /\ \A d \in Domains : f[d] = DeployOptics(d)
  BY DeployOpticsIs DEF ThreadOn
<1>2. t = FlattenSeq(Arranged(Domains, f))
  BY <1>1, OrderIs DEF InOrder, Arranged
<1> HIDE DEF f, t
<1>3. \A d \in Domains : IsInjective(f[d]) /\ f[d] # <<>> /\ \A s \in ToSet(f[d]) : s.on = d
  BY <1>1, DeployOpticsIs DEF ThreadOn
<1>4. \A d, e \in Domains : d # e => ToSet(f[d]) \cap ToSet(f[e]) = {}
  BY <1>3
<1>5. t \in Seq(AnyStep) /\ ToSet(t) = UNION {ToSet(f[d]) : d \in Domains} /\ IsInjective(t)
  <2>1. /\ Domains \in SUBSET Domains /\ f \in [Domains -> Seq(AnyStep)]
        /\ t = FlattenSeq(Arranged(Domains, f))
    BY <1>1, <1>2
  <2>2. /\ \A d \in Domains : IsInjective(f[d])
        /\ \A d, e \in Domains : d # e => ToSet(f[d]) \cap ToSet(f[e]) = {}
    BY <1>3, <1>4
  <2>3. QED
    BY ONLY <2>1, <2>2, InOrderIs
<1>6. UNION {ToSet(f[d]) : d \in Domains} = UNION {ToSet(DeployOptics(d)) : d \in Domains}
  BY <1>1
<1>7. t # <<>>
  <2>1. PICK d \in Domains : TRUE
    BY RemotesAre
  <2>2. Create(d, "home") \in ToSet(t)
    BY <1>5, <1>6, DeployOpticsIs
  <2>3. QED
    BY <2>2 DEF ToSet
<1>8. QED
  BY <1>5, <1>6, <1>7, OneThread DEF FirstBlock, t

EnrollAll(d) == InOrder(Remotes(d), LAMBDA e : EnrollRemote(d, e))
SecondBlock == {InOrder(Domains, LAMBDA d : InOrder(Remotes(d), LAMBDA e : EnrollRemote(d, e)))}

\* enrollRemote of every other chain on chain d
LEMMA EnrollAllIs ==
    ASSUME NEW d \in Domains
    PROVE  /\ EnrollAll(d) \in Seq(AnyStep) /\ IsInjective(EnrollAll(d))
           /\ ToSet(EnrollAll(d)) = UNION {ToSet(EnrollRemote(d, e)) : e \in Domains \ {d}}
<1> DEFINE f == [e \in Domains |-> EnrollRemote(d, e)]
           t == EnrollAll(d)
<1>1. f \in [Domains -> Seq(AnyStep)] /\ \A e \in Domains : f[e] = EnrollRemote(d, e)
  BY EnrollRemoteIs
<1>2. t = FlattenSeq(Arranged(Remotes(d), f))
  BY <1>1, OrderIs DEF EnrollAll, InOrder, Arranged
<1> HIDE DEF f, t
<1>3. \A e \in Domains : IsInjective(f[e]) /\ \A s \in ToSet(f[e]) : s.arg = e
  BY <1>1, EnrollRemoteIs
<1>4. Remotes(d) \in SUBSET Domains /\ Remotes(d) = Domains \ {d}
  BY RemotesAre
<1>5. \A a, b \in Remotes(d) : a # b => ToSet(f[a]) \cap ToSet(f[b]) = {}
  BY <1>3, <1>4
<1>6. t \in Seq(AnyStep) /\ ToSet(t) = UNION {ToSet(f[e]) : e \in Remotes(d)} /\ IsInjective(t)
  <2>1. /\ Remotes(d) \in SUBSET Domains /\ f \in [Domains -> Seq(AnyStep)]
        /\ t = FlattenSeq(Arranged(Remotes(d), f))
    BY <1>1, <1>2, <1>4
  <2>2. /\ \A e \in Remotes(d) : IsInjective(f[e])
        /\ \A a, b \in Remotes(d) : a # b => ToSet(f[a]) \cap ToSet(f[b]) = {}
    BY <1>3, <1>4, <1>5
  <2>3. QED
    BY ONLY <2>1, <2>2, InOrderIs
<1>7. UNION {ToSet(f[e]) : e \in Remotes(d)} = UNION {ToSet(EnrollRemote(d, e)) : e \in Domains \ {d}}
  BY <1>1, <1>4
<1>8. QED
  BY <1>6, <1>7 DEF t

\* enrollRemote of every chain on every other
LEMMA SecondBlockIs ==
    /\ Orderly(SecondBlock)
    /\ BlockSteps(SecondBlock) = UNION {ToSet(EnrollAll(d)) : d \in Domains}
<1> DEFINE f == [d \in Domains |-> EnrollAll(d)]
           t == InOrder(Domains, LAMBDA d : InOrder(Remotes(d), LAMBDA e : EnrollRemote(d, e)))
<1>1. f \in [Domains -> Seq(AnyStep)] /\ \A d \in Domains : f[d] = EnrollAll(d)
  BY EnrollAllIs
<1>2. t = FlattenSeq(Arranged(Domains, f))
  BY <1>1, OrderIs DEF EnrollAll, InOrder, Arranged
<1> HIDE DEF f, t
<1>3. \A d \in Domains : IsInjective(f[d]) /\ \A s \in ToSet(f[d]) : s.on = d
  BY <1>1, EnrollAllIs, EnrollRemoteIs
<1>4. \A d, e \in Domains : d # e => ToSet(f[d]) \cap ToSet(f[e]) = {}
  BY <1>3
<1>5. t \in Seq(AnyStep) /\ ToSet(t) = UNION {ToSet(f[d]) : d \in Domains} /\ IsInjective(t)
  <2>1. /\ Domains \in SUBSET Domains /\ f \in [Domains -> Seq(AnyStep)]
        /\ t = FlattenSeq(Arranged(Domains, f))
    BY <1>1, <1>2
  <2>2. /\ \A d \in Domains : IsInjective(f[d])
        /\ \A d, e \in Domains : d # e => ToSet(f[d]) \cap ToSet(f[e]) = {}
    BY <1>3, <1>4
  <2>3. QED
    BY ONLY <2>1, <2>2, InOrderIs
<1>6. UNION {ToSet(f[d]) : d \in Domains} = UNION {ToSet(EnrollAll(d)) : d \in Domains}
  BY <1>1
<1>7. t # <<>>
  <2>1. PICK d \in Domains : TRUE
    BY RemotesAre
  <2>2. PICK e \in Domains \ {d} : TRUE
    BY RemotesAre
  <2>3. Step("setRouter", d, "governance", e) \in ToSet(t)
    <3>1. Step("setRouter", d, "governance", e) \in ToSet(EnrollRemote(d, e))
      BY EnrollRemoteIs
    <3>2. ToSet(EnrollRemote(d, e)) \subseteq ToSet(EnrollAll(d)) /\ ToSet(EnrollAll(d)) \subseteq ToSet(t)
      BY <1>5, <1>6, EnrollAllIs
    <3>3. QED
      BY <3>1, <3>2
  <2>4. QED
    BY <2>3 DEF ToSet
<1>8. QED
  BY <1>5, <1>6, <1>7, OneThread DEF SecondBlock, t

ThirdBlock == {<<AppointGovernor>>}

\* appointGovernor
LEMMA ThirdBlockIs == Orderly(ThirdBlock) /\ BlockSteps(ThirdBlock) = {AppointGovernor}
<1> DEFINE t == <<AppointGovernor>>
<1>1. AppointGovernor \in AnyStep
  BY NamedSteps, RemotesAre, SomeNames
<1>2. t \in Seq(AnyStep) /\ t # <<>> /\ DOMAIN t = 1..1 /\ t[1] = AppointGovernor /\ 1..1 = {1}
  BY <1>1
<1> HIDE DEF t
<1>3. ToSet(t) = {AppointGovernor} /\ IsInjective(t)
  BY <1>2 DEF ToSet, IsInjective
<1>4. QED
  BY <1>2, <1>3, OneThread DEF ThirdBlock, t

FourthBlock == {<<TransferGovernorship(Order[i])>> : i \in 2..Len(Order)}

\* transferGovernorship of every chain but the first
LEMMA FourthBlockIs ==
    /\ Orderly(FourthBlock)
    /\ BlockSteps(FourthBlock) = {TransferGovernorship(d) : d \in Domains \ {FirstGovernor}}
<1> DEFINE R == Domains \ {FirstGovernor}
           f == [d \in R |-> <<TransferGovernorship(d)>>]
<1>1. FourthBlock = {f[d] : d \in R}
  <2>1. \A i \in 2..Len(Order) : Order[i] \in R
    <3> TAKE i \in 2..Len(Order)
    <3>1. i \in DOMAIN Order /\ 1 \in DOMAIN Order /\ i # 1
      BY OrderIs
    <3>2. QED
      BY <3>1, OrderIs
  <2>2. \A d \in R : \E i \in 2..Len(Order) : Order[i] = d
    <3> TAKE d \in R
    <3>1. PICK i \in DOMAIN Order : Order[i] = d
      BY OrderIs
    <3>2. i # 1 /\ i \in 1..Len(Order)
      BY <3>1, OrderIs
    <3>3. i \in 2..Len(Order)
      BY <3>2, OrderIs
    <3>4. QED
      BY <3>1, <3>3
  <2>3. QED
    BY <2>1, <2>2 DEF FourthBlock
<1>2. ASSUME NEW d \in R
      PROVE  ThreadOn(f[d], d) /\ ToSet(f[d]) = {TransferGovernorship(d)}
  <2> DEFINE t == <<TransferGovernorship(d)>>
  <2>1. TransferGovernorship(d) \in AnyStep /\ TransferGovernorship(d).on = d
    BY NamedSteps, SomeNames
  <2>2. t \in Seq(AnyStep) /\ t # <<>> /\ DOMAIN t = 1..1 /\ t[1] = TransferGovernorship(d) /\ 1..1 = {1}
    BY <2>1
  <2>3. f[d] = t
    OBVIOUS
  <2> HIDE DEF t
  <2>4. ToSet(t) = {TransferGovernorship(d)} /\ IsInjective(t)
    BY <2>2 DEF ToSet, IsInjective
  <2>5. QED
    BY <2>1, <2>2, <2>3, <2>4 DEF ThreadOn
<1>3. R \in SUBSET Domains /\ R # {}
  BY RemotesAre
<1> HIDE DEF f, R
<1>4. Orderly({f[d] : d \in R})
  BY <1>2, <1>3, ThreadPerChain
<1>5. BlockSteps({f[d] : d \in R}) = {TransferGovernorship(d) : d \in R}
  BY <1>2 DEF BlockSteps
<1>6. QED
  BY <1>1, <1>4, <1>5 DEF R

FifthBlock == {Relinquish(d) : d \in Domains}

\* relinquish, side by side
LEMMA FifthBlockIs ==
    /\ Orderly(FifthBlock)
    /\ BlockSteps(FifthBlock) = UNION {ToSet(Relinquish(d)) : d \in Domains}
<1> DEFINE f == [d \in Domains |-> Relinquish(d)]
<1>1. FifthBlock = {f[d] : d \in Domains}
  BY DEF FifthBlock
<1>2. \A d \in Domains : ThreadOn(f[d], d)
  BY RelinquishIs
<1> HIDE DEF f
<1>3. Orderly({f[d] : d \in Domains})
  BY <1>2, ThreadPerChain, RemotesAre
<1>4. QED
  BY <1>1, <1>3 DEF BlockSteps, FifthBlock

Check(d) == Step("check", d, "", "")
CheckAll == InOrder(Domains, LAMBDA d : <<Step("check", d, "", "")>>)

\* checkCoreDeploy of every chain
LEMMA CheckAllIs ==
    /\ CheckAll \in Seq(AnyStep) /\ IsInjective(CheckAll)
    /\ ToSet(CheckAll) = {Check(d) : d \in Domains}
<1> DEFINE f == [d \in Domains |-> <<Check(d)>>]
           t == CheckAll
<1>1. ASSUME NEW d \in Domains
      PROVE  f[d] \in Seq(AnyStep) /\ ToSet(f[d]) = {Check(d)} /\ IsInjective(f[d]) /\ Check(d).on = d
  <2> DEFINE u == <<Check(d)>>
  <2>1. Check(d) \in AnyStep /\ Check(d).on = d
    BY DEF Check, Step, AnyStep, Calls, Names, Args
  <2>2. u \in Seq(AnyStep) /\ DOMAIN u = 1..1 /\ u[1] = Check(d) /\ 1..1 = {1} /\ f[d] = u
    BY <2>1
  <2> HIDE DEF u
  <2>3. ToSet(u) = {Check(d)} /\ IsInjective(u)
    BY <2>2 DEF ToSet, IsInjective
  <2>4. QED
    BY <2>1, <2>2, <2>3
<1>2. t = FlattenSeq(Arranged(Domains, f))
  BY OrderIs DEF CheckAll, InOrder, Arranged, Check
<1>3. f \in [Domains -> Seq(AnyStep)]
  BY <1>1
<1> HIDE DEF f, t
<1>4. \A d, e \in Domains : d # e => ToSet(f[d]) \cap ToSet(f[e]) = {}
  BY <1>1
<1>5. t \in Seq(AnyStep) /\ ToSet(t) = UNION {ToSet(f[d]) : d \in Domains} /\ IsInjective(t)
  <2>1. /\ Domains \in SUBSET Domains /\ f \in [Domains -> Seq(AnyStep)]
        /\ t = FlattenSeq(Arranged(Domains, f))
    BY <1>2, <1>3
  <2>2. /\ \A d \in Domains : IsInjective(f[d])
        /\ \A d, e \in Domains : d # e => ToSet(f[d]) \cap ToSet(f[e]) = {}
    BY <1>1, <1>4
  <2>3. QED
    BY ONLY <2>1, <2>2, InOrderIs
<1>6. UNION {ToSet(f[d]) : d \in Domains} = {Check(d) : d \in Domains}
  <2>1. \A x : (\E d \in Domains : x \in ToSet(f[d])) <=> (\E d \in Domains : x = Check(d))
    BY <1>1
  <2>2. QED
    BY <2>1
<1>7. QED
  BY <1>5, <1>6 DEF t

LastBlock == {<<Write("first")>> \o InOrder(Domains, LAMBDA d : <<Step("check", d, "", "")>>)
                                \o <<Write("second")>>}

\* The two outputs, and the checks between them
LEMMA LastBlockIs ==
    /\ Orderly(LastBlock)
    /\ BlockSteps(LastBlock) = {Check(d) : d \in Domains} \cup {Write("first"), Write("second")}
<1> DEFINE a == <<Write("first")>>
           b == CheckAll
           c == <<Write("second")>>
           t == a \o b \o c
<1>1. /\ Write("first") \in AnyStep /\ Write("first").call = "write" /\ Write("first").to = "first"
      /\ Write("second") \in AnyStep /\ Write("second").call = "write" /\ Write("second").to = "second"
      /\ \A d \in Domains : Check(d).call = "check"
  BY NamedSteps, RemotesAre, SomeNames DEF Check, Step
<1>2. a \in Seq(AnyStep) /\ ToSet(a) = {Write("first")} /\ IsInjective(a)
  <2>1. a \in Seq(AnyStep) /\ DOMAIN a = 1..1 /\ a[1] = Write("first") /\ 1..1 = {1}
    BY <1>1
  <2> HIDE DEF a
  <2>2. QED
    BY <2>1 DEF ToSet, IsInjective
<1>3. c \in Seq(AnyStep) /\ ToSet(c) = {Write("second")} /\ IsInjective(c)
  <2>1. c \in Seq(AnyStep) /\ DOMAIN c = 1..1 /\ c[1] = Write("second") /\ 1..1 = {1}
    BY <1>1
  <2> HIDE DEF c
  <2>2. QED
    BY <2>1 DEF ToSet, IsInjective
<1> HIDE DEF a, b, c
<1>4. b \in Seq(AnyStep) /\ IsInjective(b) /\ ToSet(b) = {Check(d) : d \in Domains}
  BY CheckAllIs DEF b
<1>5. ToSet(a) \cap ToSet(b) = {} /\ (ToSet(a) \cup ToSet(b)) \cap ToSet(c) = {}
  BY <1>1, <1>2, <1>3, <1>4
<1>6. a \o b \in Seq(AnyStep) /\ ToSet(a \o b) = ToSet(a) \cup ToSet(b) /\ IsInjective(a \o b)
  BY <1>2, <1>4, <1>5, Joined
<1>7. t \in Seq(AnyStep) /\ ToSet(t) = ToSet(a \o b) \cup ToSet(c) /\ IsInjective(t)
  <2> DEFINE u == a \o b
  <2>1. u \in Seq(AnyStep) /\ c \in Seq(AnyStep) /\ ToSet(u) \cap ToSet(c) = {}
        /\ IsInjective(u) /\ IsInjective(c)
    BY <1>3, <1>5, <1>6
  <2> HIDE DEF u
  <2>2. u \o c \in Seq(AnyStep) /\ ToSet(u \o c) = ToSet(u) \cup ToSet(c) /\ IsInjective(u \o c)
    BY ONLY <2>1, Joined
  <2>3. QED
    BY <2>2 DEF u
<1>8. t # <<>>
  <2>1. ToSet(t) # {}
    BY <1>2, <1>6, <1>7
  <2> HIDE DEF t
  <2>2. QED
    BY <2>1 DEF ToSet
<1>9. LastBlock = {t}
  BY DEF LastBlock, t, a, b, c, CheckAll
<1> HIDE DEF t
<1>10. QED
  BY <1>2, <1>3, <1>4, <1>6, <1>7, <1>8, <1>9, OneThread

\* What the blocks have to do is told apart by the calls.
CorePhase(s) ==
    IF s.call = "setHome" \/ (s.call = "create" /\ s.to # "replica") THEN 1
    ELSE IF s.call \in {"create", "ownerEnrollReplica", "setWatcherPermission", "setRouter"} THEN 2
    ELSE IF s.call = "appointGovernor" THEN 3
    ELSE IF s.call = "transferGovernorship" THEN 4
    ELSE IF s.call = "transferOwnership" THEN 5
    ELSE IF s.call \in {"check", "write"} THEN 6
    ELSE 0

OfBridge(s) ==
    s.to \in {"bridgeToken", "bridgeRouter", "ethHelper", "bridge"} \/ s.call = "checkBridge"

\* The six blocks, and what is in which
LEMMA CoreScriptIs ==
    /\ CoreScript = <<FirstBlock, SecondBlock, ThirdBlock, FourthBlock, FifthBlock, LastBlock>>
    /\ \A i \in DOMAIN CoreScript :
          Orderly(CoreScript[i]) /\ \A s \in BlockSteps(CoreScript[i]) : CorePhase(s) = i /\ ~OfBridge(s)
<1>1. CoreScript = <<FirstBlock, SecondBlock, ThirdBlock, FourthBlock, FifthBlock, LastBlock>>
  BY DEF CoreScript, FirstBlock, SecondBlock, ThirdBlock, FourthBlock, FifthBlock, LastBlock
<1>2. \A s \in BlockSteps(FirstBlock) : CorePhase(s) = 1 /\ ~OfBridge(s)
  <2> SUFFICES ASSUME NEW d \in Domains, NEW s \in ToSet(DeployOptics(d))
               PROVE  CorePhase(s) = 1 /\ ~OfBridge(s)
    BY FirstBlockIs
  <2>1. \/ s.call = "create" /\ s.to \in {"upgradeBeaconController", "updaterManager", "xApp", "home", "governance"}
        \/ s.call = "setHome" /\ s.to \in {"xApp", "updaterManager"}
    BY DeployOpticsIs, NamedSteps, SomeNames
  <2>2. QED
    BY <2>1 DEF CorePhase, OfBridge
<1>3. \A s \in BlockSteps(SecondBlock) : CorePhase(s) = 2 /\ ~OfBridge(s)
  <2> SUFFICES ASSUME NEW d \in Domains, NEW e \in Domains, NEW s \in ToSet(EnrollRemote(d, e))
               PROVE  CorePhase(s) = 2 /\ ~OfBridge(s)
    BY SecondBlockIs, EnrollAllIs
  <2>1. QED
    BY EnrollRemoteIs DEF CorePhase, OfBridge
<1>4. \A s \in BlockSteps(ThirdBlock) : CorePhase(s) = 3 /\ ~OfBridge(s)
  <2>1. AppointGovernor.call = "appointGovernor" /\ AppointGovernor.to = "governance"
    BY DEF AppointGovernor, Step
  <2>2. QED
    BY <2>1, ThirdBlockIs DEF CorePhase, OfBridge
<1>5. \A s \in BlockSteps(FourthBlock) : CorePhase(s) = 4 /\ ~OfBridge(s)
  <2>1. \A d \in Domains : TransferGovernorship(d).call = "transferGovernorship"
                         /\ TransferGovernorship(d).to = "governance"
    BY DEF TransferGovernorship, Step
  <2>2. QED
    BY <2>1, FourthBlockIs DEF CorePhase, OfBridge
<1>6. \A s \in BlockSteps(FifthBlock) : CorePhase(s) = 5 /\ ~OfBridge(s)
  <2> SUFFICES ASSUME NEW d \in Domains, NEW s \in ToSet(Relinquish(d))
               PROVE  CorePhase(s) = 5 /\ ~OfBridge(s)
    BY FifthBlockIs
  <2>1. s.call = "transferOwnership" /\ s.to \in {"updaterManager", "xApp", "upgradeBeaconController", "home"}
    BY RelinquishIs, NamedSteps, SomeNames
  <2>2. QED
    BY <2>1 DEF CorePhase, OfBridge
<1>7. \A s \in BlockSteps(LastBlock) : CorePhase(s) = 6 /\ ~OfBridge(s)
  <2>1. \A d \in Domains : Check(d).call = "check" /\ Check(d).to = ""
    BY DEF Check, Step
  <2>2. /\ Write("first").call = "write" /\ Write("first").to = "first"
        /\ Write("second").call = "write" /\ Write("second").to = "second"
    BY DEF Write, Step
  <2>3. QED
    BY <2>1, <2>2, LastBlockIs DEF CorePhase, OfBridge
<1>8. /\ DOMAIN CoreScript = {1, 2, 3, 4, 5, 6}
      /\ CoreScript[1] = FirstBlock /\ CoreScript[2] = SecondBlock /\ CoreScript[3] = ThirdBlock
      /\ CoreScript[4] = FourthBlock /\ CoreScript[5] = FifthBlock /\ CoreScript[6] = LastBlock
  BY <1>1
<1>9. /\ Orderly(CoreScript[1]) /\ \A s \in BlockSteps(CoreScript[1]) : CorePhase(s) = 1 /\ ~OfBridge(s)
      /\ Orderly(CoreScript[2]) /\ \A s \in BlockSteps(CoreScript[2]) : CorePhase(s) = 2 /\ ~OfBridge(s)
      /\ Orderly(CoreScript[3]) /\ \A s \in BlockSteps(CoreScript[3]) : CorePhase(s) = 3 /\ ~OfBridge(s)
  BY <1>2, <1>3, <1>4, <1>8, FirstBlockIs, SecondBlockIs, ThirdBlockIs
<1>10. /\ Orderly(CoreScript[4]) /\ \A s \in BlockSteps(CoreScript[4]) : CorePhase(s) = 4 /\ ~OfBridge(s)
       /\ Orderly(CoreScript[5]) /\ \A s \in BlockSteps(CoreScript[5]) : CorePhase(s) = 5 /\ ~OfBridge(s)
       /\ Orderly(CoreScript[6]) /\ \A s \in BlockSteps(CoreScript[6]) : CorePhase(s) = 6 /\ ~OfBridge(s)
  BY <1>5, <1>6, <1>7, <1>8, FourthBlockIs, FifthBlockIs, LastBlockIs
<1>11. ASSUME NEW i \in DOMAIN CoreScript
       PROVE  Orderly(CoreScript[i]) /\ \A s \in BlockSteps(CoreScript[i]) : CorePhase(s) = i /\ ~OfBridge(s)
  <2>1. DOMAIN CoreScript = {1, 2, 3, 4, 5, 6}
    BY <1>8
  <2>2. i = 1 \/ i = 2 \/ i = 3 \/ i = 4 \/ i = 5 \/ i = 6
    BY <2>1
  <2>3. QED
    BY <1>9, <1>10, <2>2
<1>12. QED
  BY <1>1, <1>11

-----------------------------------------------------------------------------
(* The second script, block by block *)

BridgePhase(s) ==
    IF s.call = "create" THEN 1
    ELSE IF s.call = "enrollRemoteRouter" THEN 2
    ELSE IF s.call = "transferOwnership" THEN 3
    ELSE IF s.call = "checkBridge" THEN 4
    ELSE IF s.call = "write" THEN 5
    ELSE 0

DeployBridge(d) == <<Create(d, "bridgeToken"), Create(d, "bridgeRouter"), Create(d, "ethHelper")>>
EnrollBridges(d) == InOrder(Remotes(d), LAMBDA e : <<Step("enrollRemoteRouter", d, "bridgeRouter", e)>>)
EnrollBridge(d, e) == Step("enrollRemoteRouter", d, "bridgeRouter", e)
CheckBridge(d) == Step("checkBridge", d, "", "")

\* A block of threads that do, on every chain d, what f[d] says
LEMMA PerChainBlock ==
    ASSUME NEW f, NEW n, \A d \in Domains : ThreadOn(f[d], d),
           \A d \in Domains : \A s \in ToSet(f[d]) : BridgePhase(s) = n /\ OfBridge(s) /\ Awaited(s),
           NEW b, b = {f[d] : d \in Domains}
    PROVE  Orderly(b) /\ \A s \in BlockSteps(b) : BridgePhase(s) = n /\ OfBridge(s) /\ Awaited(s)
<1>1. Orderly(b)
  BY ThreadPerChain, RemotesAre
<1>2. QED
  BY <1>1 DEF BlockSteps

\* A thread of one step
LEMMA OneStep ==
    ASSUME NEW s \in AnyStep
    PROVE  /\ <<s>> \in Seq(AnyStep) /\ <<s>> # <<>> /\ ToSet(<<s>>) = {s} /\ IsInjective(<<s>>)
           /\ ThreadOn(<<s>>, s.on)
<1> DEFINE t == <<s>>
<1>1. t \in Seq(AnyStep) /\ t # <<>> /\ DOMAIN t = 1..1 /\ t[1] = s /\ 1..1 = {1}
  OBVIOUS
<1> HIDE DEF t
<1>2. ToSet(t) = {s} /\ IsInjective(t)
  BY <1>1 DEF ToSet, IsInjective
<1>3. QED
  BY <1>1, <1>2 DEF ThreadOn, t

\* The bridge contracts of a chain
LEMMA DeployBridgeIs ==
    ASSUME NEW d \in Domains
    PROVE  /\ ThreadOn(DeployBridge(d), d)
           /\ \A s \in ToSet(DeployBridge(d)) : BridgePhase(s) = 1 /\ OfBridge(s) /\ Awaited(s)
<1> DEFINE t == DeployBridge(d)
<1>1. /\ DOMAIN t = 1..3 /\ 1..3 = {1, 2, 3}
      /\ t[1] = Create(d, "bridgeToken") /\ t[2] = Create(d, "bridgeRouter") /\ t[3] = Create(d, "ethHelper")
  BY DEF DeployBridge
<1>2. \A c \in Names : /\ Create(d, c) \in AnyStep /\ Create(d, c).on = d
                     /\ Create(d, c).call = "create" /\ Create(d, c).to = c
  BY NamedSteps
<1>3. t \in Seq(AnyStep) /\ t # <<>>
  BY <1>2, SomeNames DEF DeployBridge
<1> HIDE DEF t
<1>4. ToSet(t) = {t[1], t[2], t[3]}
  BY <1>1 DEF ToSet
<1>5. IsInjective(t)
  BY <1>1, <1>2, SomeNames DEF IsInjective
<1>6. \A s \in ToSet(t) : s.on = d /\ s.call = "create" /\ s.to \in {"bridgeToken", "bridgeRouter", "ethHelper"}
  BY <1>1, <1>2, <1>4, SomeNames
<1>7. QED
  BY <1>3, <1>5, <1>6 DEF ThreadOn, BridgePhase, OfBridge, Awaited, t

\* enrollBridgeRouters of a chain
LEMMA EnrollBridgesIs ==
    ASSUME NEW d \in Domains
    PROVE  /\ ThreadOn(EnrollBridges(d), d)
           /\ ToSet(EnrollBridges(d)) = {EnrollBridge(d, e) : e \in Domains \ {d}}
           /\ \A s \in ToSet(EnrollBridges(d)) : BridgePhase(s) = 2 /\ OfBridge(s) /\ Awaited(s)
<1> DEFINE f == [e \in Domains |-> <<EnrollBridge(d, e)>>]
           t == EnrollBridges(d)
<1>1. \A e \in Domains : /\ EnrollBridge(d, e) \in AnyStep
                       /\ EnrollBridge(d, e).on = d /\ EnrollBridge(d, e).arg = e
                       /\ EnrollBridge(d, e).call = "enrollRemoteRouter"
                       /\ EnrollBridge(d, e).to = "bridgeRouter"
  BY DEF EnrollBridge, Step, AnyStep, Calls, Names, Args
<1>2. \A e \in Domains : f[e] \in Seq(AnyStep) /\ ToSet(f[e]) = {EnrollBridge(d, e)} /\ IsInjective(f[e])
  BY <1>1, OneStep
<1>3. f \in [Domains -> Seq(AnyStep)]
  BY <1>2
<1>4. t = FlattenSeq(Arranged(Remotes(d), f))
  BY OrderIs DEF EnrollBridges, InOrder, Arranged, EnrollBridge
<1> HIDE DEF f, t
<1>5. Remotes(d) \in SUBSET Domains /\ Remotes(d) = Domains \ {d} /\ Remotes(d) # {}
  BY RemotesAre
<1>6. \A a, b \in Remotes(d) : a # b => ToSet(f[a]) \cap ToSet(f[b]) = {}
  <2> SUFFICES ASSUME NEW a \in Domains, NEW b \in Domains, a # b
               PROVE  ToSet(f[a]) \cap ToSet(f[b]) = {}
    BY <1>5
  <2>1. EnrollBridge(d, a) # EnrollBridge(d, b)
    BY <1>1
  <2>2. QED
    BY <1>2, <2>1
<1>7. t \in Seq(AnyStep) /\ ToSet(t) = UNION {ToSet(f[e]) : e \in Remotes(d)} /\ IsInjective(t)
  <2>1. /\ Remotes(d) \in SUBSET Domains /\ f \in [Domains -> Seq(AnyStep)]
        /\ t = FlattenSeq(Arranged(Remotes(d), f))
    BY <1>3, <1>4, <1>5
  <2>2. /\ \A e \in Remotes(d) : IsInjective(f[e])
        /\ \A a, b \in Remotes(d) : a # b => ToSet(f[a]) \cap ToSet(f[b]) = {}
    BY <1>2, <1>5, <1>6
  <2>3. QED
    BY ONLY <2>1, <2>2, InOrderIs
<1>8. ToSet(t) = {EnrollBridge(d, e) : e \in Domains \ {d}}
  <2>1. \A x : (\E e \in Remotes(d) : x \in ToSet(f[e])) <=> (\E e \in Remotes(d) : x = EnrollBridge(d, e))
    BY <1>2, <1>5
  <2>2. ToSet(t) = {EnrollBridge(d, e) : e \in Remotes(d)}
    BY <1>7, <2>1
  <2>3. QED
    BY <1>5, <2>2
<1>9. t # <<>>
  <2>1. ToSet(t) # {}
    BY <1>5, <1>8
  <2>2. QED
    BY <2>1 DEF ToSet
<1>10. \A s \in ToSet(t) : s.on = d /\ s.call = "enrollRemoteRouter" /\ s.to = "bridgeRouter"
  BY <1>1, <1>8
<1>11. QED
  BY <1>7, <1>8, <1>9, <1>10 DEF ThreadOn, BridgePhase, OfBridge, Awaited, t

\* The five blocks, and what is in which
LEMMA BridgeScriptIs ==
    /\ DOMAIN BridgeScript = {1, 2, 3, 4, 5}
    /\ \A i \in DOMAIN BridgeScript :
          /\ Orderly(BridgeScript[i])
          /\ \A s \in BlockSteps(BridgeScript[i]) : BridgePhase(s) = i /\ OfBridge(s) /\ Awaited(s)
<1> DEFINE Good(b, n) == Orderly(b) /\ \A s \in BlockSteps(b) : BridgePhase(s) = n /\ OfBridge(s) /\ Awaited(s)
<1>1. /\ DOMAIN BridgeScript = {1, 2, 3, 4, 5}
      /\ BridgeScript[1] = {DeployBridge(d) : d \in Domains}
      /\ BridgeScript[2] = {EnrollBridges(d) : d \in Domains}
      /\ BridgeScript[3] = {<<HandOver(d, "bridgeRouter")>> : d \in Domains}
      /\ BridgeScript[4] = {<<CheckBridge(d)>> : d \in Domains}
      /\ BridgeScript[5] = {<<Write("bridge")>>}
  <2> DEFINE one == {DeployBridge(d) : d \in Domains}
             two == {EnrollBridges(d) : d \in Domains}
             three == {<<HandOver(d, "bridgeRouter")>> : d \in Domains}
             four == {<<CheckBridge(d)>> : d \in Domains}
             five == {<<Write("bridge")>>}
  <2>1. BridgeScript = <<one, two, three, four, five>>
    BY DEF BridgeScript, DeployBridge, EnrollBridges, CheckBridge
  <2> HIDE DEF one, two, three, four, five
  <2>2. /\ DOMAIN BridgeScript = {1, 2, 3, 4, 5}
        /\ BridgeScript[1] = one /\ BridgeScript[2] = two /\ BridgeScript[3] = three
        /\ BridgeScript[4] = four /\ BridgeScript[5] = five
    BY <2>1
  <2>3. QED
    BY <2>2 DEF one, two, three, four, five
<1>2. Good(BridgeScript[1], 1)
  <2> DEFINE f == [d \in Domains |-> DeployBridge(d)]
  <2>1. BridgeScript[1] = {f[d] : d \in Domains}
    BY <1>1
  <2>2. \A d \in Domains : ThreadOn(f[d], d)
    BY DeployBridgeIs
  <2>3. \A d \in Domains : \A s \in ToSet(f[d]) : BridgePhase(s) = 1 /\ OfBridge(s) /\ Awaited(s)
    BY DeployBridgeIs
  <2> HIDE DEF f
  <2>4. QED
    BY ONLY <2>1, <2>2, <2>3, PerChainBlock
<1>3. Good(BridgeScript[2], 2)
  <2> DEFINE f == [d \in Domains |-> EnrollBridges(d)]
  <2>1. BridgeScript[2] = {f[d] : d \in Domains}
    BY <1>1
  <2>2. \A d \in Domains : ThreadOn(f[d], d)
    BY EnrollBridgesIs
  <2>3. \A d \in Domains : \A s \in ToSet(f[d]) : BridgePhase(s) = 2 /\ OfBridge(s) /\ Awaited(s)
    BY EnrollBridgesIs
  <2> HIDE DEF f
  <2>4. QED
    BY ONLY <2>1, <2>2, <2>3, PerChainBlock
<1>4. Good(BridgeScript[3], 3)
  <2> DEFINE f == [d \in Domains |-> <<HandOver(d, "bridgeRouter")>>]
  <2>1. BridgeScript[3] = {f[d] : d \in Domains}
    BY <1>1
  <2>2. \A d \in Domains : /\ HandOver(d, "bridgeRouter") \in AnyStep /\ HandOver(d, "bridgeRouter").on = d
                         /\ HandOver(d, "bridgeRouter").call = "transferOwnership"
                         /\ HandOver(d, "bridgeRouter").to = "bridgeRouter"
    BY NamedSteps, SomeNames
  <2>3. \A d \in Domains : ThreadOn(f[d], d) /\ ToSet(f[d]) = {HandOver(d, "bridgeRouter")}
    BY <2>2, OneStep
  <2>4. \A d \in Domains : \A s \in ToSet(f[d]) : BridgePhase(s) = 3 /\ OfBridge(s) /\ Awaited(s)
    BY <2>2, <2>3 DEF BridgePhase, OfBridge, Awaited
  <2>5. \A d \in Domains : ThreadOn(f[d], d)
    BY <2>3
  <2> HIDE DEF f
  <2>6. QED
    BY ONLY <2>1, <2>4, <2>5, PerChainBlock
<1>5. Good(BridgeScript[4], 4)
  <2> DEFINE f == [d \in Domains |-> <<CheckBridge(d)>>]
  <2>1. BridgeScript[4] = {f[d] : d \in Domains}
    BY <1>1
  <2>2. \A d \in Domains : /\ CheckBridge(d) \in AnyStep /\ CheckBridge(d).on = d
                         /\ CheckBridge(d).call = "checkBridge"
    BY DEF CheckBridge, Step, AnyStep, Calls, Names, Args
  <2>3. \A d \in Domains : ThreadOn(f[d], d) /\ ToSet(f[d]) = {CheckBridge(d)}
    BY <2>2, OneStep
  <2>4. \A d \in Domains : \A s \in ToSet(f[d]) : BridgePhase(s) = 4 /\ OfBridge(s) /\ Awaited(s)
    BY <2>2, <2>3 DEF BridgePhase, OfBridge, Awaited
  <2>5. \A d \in Domains : ThreadOn(f[d], d)
    BY <2>3
  <2> HIDE DEF f
  <2>6. QED
    BY ONLY <2>1, <2>4, <2>5, PerChainBlock
<1>6. Good(BridgeScript[5], 5)
  <2>1. Write("bridge") \in AnyStep /\ Write("bridge").call = "write" /\ Write("bridge").to = "bridge"
    BY NamedSteps, SomeNames, RemotesAre
  <2>2. Orderly(BridgeScript[5]) /\ BlockSteps(BridgeScript[5]) = {Write("bridge")}
    BY <1>1, <2>1, OneStep, OneThread
  <2>3. QED
    BY <2>1, <2>2 DEF BridgePhase, OfBridge, Awaited
<1>7. ASSUME NEW i \in DOMAIN BridgeScript
      PROVE  Good(BridgeScript[i], i)
  <2>1. i = 1 \/ i = 2 \/ i = 3 \/ i = 4 \/ i = 5
    BY <1>1
  <2> HIDE DEF Good
  <2>2. QED
    BY <1>2, <1>3, <1>4, <1>5, <1>6, <2>1
<1>8. QED
  BY <1>1, <1>7

-----------------------------------------------------------------------------
(* What is left of a script *)

\* No step is twice in a script, and every thread of it has something to do.
OrderlyScript(blocks) ==
    /\ blocks \in Seq(SUBSET Seq(AnyStep))
    /\ \A i \in DOMAIN blocks : Orderly(blocks[i])
    /\ \A i, j \in DOMAIN blocks : i # j => BlockSteps(blocks[i]) \cap BlockSteps(blocks[j]) = {}

\* The steps of blocks, block by block
LEMMA StepsAre ==
    ASSUME NEW blocks
    PROVE  Steps(blocks) = UNION {BlockSteps(blocks[i]) : i \in DOMAIN blocks}
  BY DEF Steps, BlockSteps

\* No step is twice in a script, or in both; the second script waits for all of its own.
LEMMA ScriptsOrderly ==
    /\ OrderlyScript(CoreScript) /\ OrderlyScript(BridgeScript)
    /\ Steps(CoreScript) \cap Steps(BridgeScript) = {}
    /\ \A s \in Steps(BridgeScript) : Awaited(s)
<1>1. CoreScript \in Seq(SUBSET Seq(AnyStep))
  <2>1. /\ FirstBlock \in SUBSET Seq(AnyStep) /\ SecondBlock \in SUBSET Seq(AnyStep)
        /\ ThirdBlock \in SUBSET Seq(AnyStep) /\ FourthBlock \in SUBSET Seq(AnyStep)
        /\ FifthBlock \in SUBSET Seq(AnyStep) /\ LastBlock \in SUBSET Seq(AnyStep)
    BY FirstBlockIs, SecondBlockIs, ThirdBlockIs, FourthBlockIs, FifthBlockIs, LastBlockIs DEF Orderly
  <2>2. CoreScript = <<FirstBlock, SecondBlock, ThirdBlock, FourthBlock, FifthBlock, LastBlock>>
    BY CoreScriptIs
  <2> HIDE DEF FirstBlock, SecondBlock, ThirdBlock, FourthBlock, FifthBlock, LastBlock
  <2>3. QED
    BY <2>1, <2>2
<1>2. BridgeScript \in Seq(SUBSET Seq(AnyStep))
  <2>1. \A i \in {1, 2, 3, 4, 5} : BridgeScript[i] \in SUBSET Seq(AnyStep)
    BY BridgeScriptIs DEF Orderly
  <2>2. BridgeScript = <<BridgeScript[1], BridgeScript[2], BridgeScript[3], BridgeScript[4], BridgeScript[5]>>
    BY DEF BridgeScript
  <2> DEFINE b == BridgeScript
  <2>3. /\ b[1] \in SUBSET Seq(AnyStep) /\ b[2] \in SUBSET Seq(AnyStep) /\ b[3] \in SUBSET Seq(AnyStep)
        /\ b[4] \in SUBSET Seq(AnyStep) /\ b[5] \in SUBSET Seq(AnyStep)
    BY <2>1
  <2>4. <<b[1], b[2], b[3], b[4], b[5]>> \in Seq(SUBSET Seq(AnyStep))
    BY <2>3
  <2>5. QED
    BY <2>2, <2>4
<1>3. /\ \A i \in DOMAIN CoreScript :
            Orderly(CoreScript[i]) /\ \A s \in BlockSteps(CoreScript[i]) : CorePhase(s) = i /\ ~OfBridge(s)
      /\ \A i \in DOMAIN BridgeScript :
            /\ Orderly(BridgeScript[i])
            /\ \A s \in BlockSteps(BridgeScript[i]) : BridgePhase(s) = i /\ OfBridge(s) /\ Awaited(s)
  BY CoreScriptIs, BridgeScriptIs
<1>4. OrderlyScript(CoreScript)
  BY <1>1, <1>3 DEF OrderlyScript
<1>5. OrderlyScript(BridgeScript)
  BY <1>2, <1>3 DEF OrderlyScript
<1>6. QED
  BY <1>3, <1>4, <1>5, StepsAre

\* A thread without its first step
LEMMA TailIs ==
    ASSUME NEW t \in Seq(AnyStep), t # <<>>, IsInjective(t)
    PROVE  /\ Tail(t) \in Seq(AnyStep) /\ IsInjective(Tail(t))
           /\ Head(t) \in ToSet(t) /\ ToSet(Tail(t)) = ToSet(t) \ {Head(t)}
<1> DEFINE u == Tail(t)
<1>1. /\ u \in Seq(AnyStep) /\ DOMAIN t = 1..Len(t) /\ Len(t) \in Nat /\ Len(t) # 0
      /\ DOMAIN u = 1..(Len(t) - 1) /\ \A i \in DOMAIN u : u[i] = t[i + 1]
      /\ Head(t) = t[1]
  OBVIOUS
<1> HIDE DEF u
<1>2. \A i \in DOMAIN u : i + 1 \in DOMAIN t /\ i + 1 # 1
  BY <1>1
<1>3. \A i \in DOMAIN t : i # 1 => i - 1 \in DOMAIN u /\ (i - 1) + 1 = i
  BY <1>1
<1>4. 1 \in DOMAIN t
  BY <1>1
<1>5. IsInjective(u)
  <2> SUFFICES ASSUME NEW i \in DOMAIN u, NEW j \in DOMAIN u, u[i] = u[j]
               PROVE  i = j
    BY DEF IsInjective
  <2>1. i + 1 = j + 1
    BY <1>1, <1>2 DEF IsInjective
  <2>2. QED
    BY <1>1, <2>1
<1>6. \A i \in DOMAIN t : i # 1 => t[i] # Head(t) /\ t[i] = u[i - 1]
  BY <1>1, <1>3, <1>4 DEF IsInjective
<1>7. Head(t) \in ToSet(t)
  BY <1>1, <1>4 DEF ToSet
<1>8. \A x \in ToSet(u) : x \in ToSet(t) \ {Head(t)}
  BY <1>1, <1>2, <1>4 DEF ToSet, IsInjective
<1>9. \A x \in ToSet(t) \ {Head(t)} : x \in ToSet(u)
  BY <1>1, <1>3, <1>6 DEF ToSet
<1>10. QED
  BY <1>1, <1>5, <1>7, <1>8, <1>9 DEF u

\* A block when a thread of it has made one step
LEMMA RestIs ==
    ASSUME NEW b, Orderly(b), NEW t \in b
    PROVE  /\ Rest(b, t) = {} \/ Orderly(Rest(b, t))
           /\ Rest(b, t) \subseteq Seq(AnyStep)
           /\ Head(t) \in BlockSteps(b)
           /\ BlockSteps(Rest(b, t)) = BlockSteps(b) \ {Head(t)}
<1>1. t \in Seq(AnyStep) /\ t # <<>> /\ IsInjective(t)
  BY DEF Orderly
<1>2. /\ Tail(t) \in Seq(AnyStep) /\ IsInjective(Tail(t))
      /\ Head(t) \in ToSet(t) /\ ToSet(Tail(t)) = ToSet(t) \ {Head(t)}
  BY <1>1, TailIs
<1> DEFINE h == Head(t)
           u == Tail(t)
<1> HIDE DEF h, u
<1>3. Rest(b, t) = (b \ {t}) \cup ({u} \ {<<>>})
  BY DEF Rest, u
<1>4. u \in Seq(AnyStep) /\ IsInjective(u) /\ h \in ToSet(t) /\ ToSet(u) = ToSet(t) \ {h}
  BY <1>2 DEF h, u
<1>5. /\ b \subseteq Seq(AnyStep) /\ <<>> \notin b
      /\ \A v \in b : IsInjective(v)
      /\ \A v, w \in b : v # w => ToSet(v) \cap ToSet(w) = {}
  BY DEF Orderly
<1>6. ToSet(<<>>) = {}
  BY DEF ToSet
<1>7. \A v \in b : v # t => h \notin ToSet(v)
  BY <1>4, <1>5
<1>8. BlockSteps(Rest(b, t)) = BlockSteps(b) \ {h}
  <2>1. \A x \in BlockSteps(Rest(b, t)) : x \in BlockSteps(b) \ {h}
    BY <1>3, <1>4, <1>7 DEF BlockSteps
  <2>2. \A x \in BlockSteps(b) \ {h} : x \in BlockSteps(Rest(b, t))
    <3> TAKE x \in BlockSteps(b) \ {h}
    <3>1. PICK v \in b : x \in ToSet(v)
      BY DEF BlockSteps
    <3>2. CASE v # t
      BY <1>3, <3>1, <3>2 DEF BlockSteps
    <3>3. CASE v = t
      <4>1. x \in ToSet(u)
        BY <1>4, <3>1, <3>3
      <4>2. u # <<>>
        BY <1>6, <4>1
      <4>3. u \in Rest(b, t)
        BY <1>3, <4>2
      <4>4. QED
        BY <4>1, <4>3 DEF BlockSteps
    <3>4. QED
      BY <3>2, <3>3
  <2>3. QED
    BY <2>1, <2>2
<1>9. Rest(b, t) = {} \/ Orderly(Rest(b, t))
  <2>1. \A v \in Rest(b, t) : v \in Seq(AnyStep) /\ v # <<>> /\ IsInjective(v)
    BY <1>3, <1>4, <1>5
  <2>2. \A v, w \in Rest(b, t) : v # w => ToSet(v) \cap ToSet(w) = {}
    BY <1>3, <1>4, <1>5
  <2>3. QED
    BY <2>1, <2>2 DEF Orderly
<1>10. h \in BlockSteps(b)
  BY <1>4 DEF BlockSteps
<1>11. QED
  BY <1>3, <1>4, <1>5, <1>8, <1>9, <1>10 DEF h

\* What a step leaves of the script is in the order it was, but for X.
KeepsOrder(X) ==
    \A i \in DOMAIN script' : \E k \in DOMAIN script :
        /\ BlockSteps(script'[i]) \subseteq BlockSteps(script[k])
        /\ \A j \in 1..(k-1) : \A s \in BlockSteps(script[j]) :
              s \in X \/ \E l \in 1..(i-1) : s \in BlockSteps(script'[l])

\* One step of one thread of the running block
LEMMA Advanced ==
    ASSUME OrderlyScript(script), script # <<>>, NEW t \in Head(script),
           Advance(Rest(Head(script), t))
    PROVE  /\ OrderlyScript(script')
           /\ Head(t) \in Steps(script) /\ Steps(script') = Steps(script) \ {Head(t)}
           /\ KeepsOrder({Head(t)})
<1> DEFINE b == Head(script)
           r == Rest(b, t)
           h == Head(t)
<1>1. /\ script \in Seq(SUBSET Seq(AnyStep)) /\ Len(script) \in Nat /\ Len(script) # 0
      /\ DOMAIN script = 1..Len(script) /\ 1 \in DOMAIN script /\ b = script[1]
  BY DEF OrderlyScript
<1>2. Orderly(b) /\ t \in b
  BY <1>1 DEF OrderlyScript
<1>3. /\ r = {} \/ Orderly(r)
      /\ r \subseteq Seq(AnyStep)
      /\ h \in BlockSteps(b) /\ BlockSteps(r) = BlockSteps(b) \ {h}
  BY <1>2, RestIs
<1>4. script' = IF r = {} THEN Tail(script) ELSE <<r>> \o Tail(script)
  BY DEF Advance
<1>5. \A i \in DOMAIN script : i # 1 => Orderly(script[i]) /\ h \notin BlockSteps(script[i])
  BY <1>1, <1>3 DEF OrderlyScript
<1> DEFINE u == Tail(script)
<1>6. /\ u \in Seq(SUBSET Seq(AnyStep)) /\ Len(u) = Len(script) - 1 /\ DOMAIN u = 1..(Len(script) - 1)
      /\ \A i \in 1..(Len(script) - 1) : u[i] = script[i + 1] /\ i + 1 \in DOMAIN script /\ i + 1 # 1
  BY <1>1
<1> HIDE DEF b, r, h, u
<1>7. CASE r = {}
  <2>1. script' = u /\ BlockSteps(b) = {h}
    <3>1. BlockSteps(r) = {}
      BY <1>7 DEF BlockSteps
    <3>2. QED
      BY <1>3, <1>4, <1>7, <3>1 DEF u
  <2>2. OrderlyScript(script')
    <3>1. \A i \in DOMAIN u : Orderly(u[i])
      BY <1>5, <1>6
    <3>2. \A i, j \in DOMAIN u : i # j => BlockSteps(u[i]) \cap BlockSteps(u[j]) = {}
      <4> TAKE i \in DOMAIN u, j \in DOMAIN u
      <4>1. i # j => i + 1 # j + 1
        BY <1>1, <1>6
      <4>2. QED
        BY <1>6, <4>1 DEF OrderlyScript
    <3>3. QED
      BY <1>6, <2>1, <3>1, <3>2 DEF OrderlyScript
  <2>3. \A s \in Steps(script') : s \in Steps(script) /\ s # h
    BY <1>5, <1>6, <2>1, StepsAre
  <2>4. \A s \in Steps(script) : s # h => s \in Steps(script')
    <3> SUFFICES ASSUME NEW s, NEW i \in DOMAIN script, s \in BlockSteps(script[i]), s # h
                 PROVE  s \in Steps(u)
      BY <2>1, StepsAre
    <3>1. i # 1
      BY <1>1, <2>1
    <3>2. i - 1 \in DOMAIN u /\ (i - 1) + 1 = i
      BY <1>1, <1>6, <3>1
    <3>3. u[i - 1] = script[i]
      BY <1>6, <3>2
    <3>4. QED
      BY <3>2, <3>3, StepsAre
  <2>5. h \in Steps(script)
    BY <1>1, <1>3, StepsAre
  <2>6. KeepsOrder({h})
    <3> SUFFICES ASSUME NEW i \in DOMAIN u
                 PROVE  \E k \in DOMAIN script :
                          /\ BlockSteps(u[i]) \subseteq BlockSteps(script[k])
                          /\ \A j \in 1..(k-1) : \A s \in BlockSteps(script[j]) :
                                s \in {h} \/ \E l \in 1..(i-1) : s \in BlockSteps(u[l])
      BY <2>1 DEF KeepsOrder
    <3>1. i + 1 \in DOMAIN script /\ u[i] = script[i + 1] /\ i \in Nat
      BY <1>1, <1>6
    <3>2. ASSUME NEW j \in 1..((i + 1) - 1), NEW s \in BlockSteps(script[j]), s # h
          PROVE  \E l \in 1..(i-1) : s \in BlockSteps(u[l])
      <4>1. j # 1
        BY <1>1, <2>1, <3>2
      <4>2. j - 1 \in 1..(i-1) /\ j - 1 \in 1..(Len(script) - 1) /\ (j - 1) + 1 = j
        BY <1>1, <1>6, <3>1, <4>1
      <4>3. u[j - 1] = script[j]
        BY <1>6, <4>2
      <4>4. QED
        BY <3>2, <4>2, <4>3
    <3>3. QED
      BY <3>1, <3>2
  <2>7. QED
    BY <2>2, <2>3, <2>4, <2>5, <2>6 DEF h
<1>8. CASE r # {}
  <2> DEFINE v == <<r>> \o u
  <2>1. script' = v
    BY <1>4, <1>8 DEF u
  <2>2. /\ v \in Seq(SUBSET Seq(AnyStep)) /\ DOMAIN v = DOMAIN script /\ v[1] = r
        /\ \A i \in DOMAIN script : i # 1 => v[i] = script[i]
    <3>1. /\ <<r>> \in Seq(SUBSET Seq(AnyStep)) /\ Len(<<r>>) = 1 /\ <<r>>[1] = r
      BY <1>3
    <3>2. /\ v \in Seq(SUBSET Seq(AnyStep)) /\ DOMAIN v = 1..(1 + Len(u))
          /\ v[1] = r /\ \A i \in 1..(1 + Len(u)) : i # 1 => v[i] = u[i - 1]
      <4>1. u \in Seq(SUBSET Seq(AnyStep)) /\ Len(u) \in Nat
        BY <1>6
      <4> DEFINE a == <<r>>
                 S == SUBSET Seq(AnyStep)
      <4>2. a \in Seq(S) /\ Len(a) = 1 /\ a[1] = r /\ u \in Seq(S)
        BY <3>1, <4>1
      <4> HIDE DEF a, S
      <4>3. /\ a \o u \in Seq(S) /\ DOMAIN (a \o u) = 1..(1 + Len(u))
            /\ (a \o u)[1] = r /\ \A i \in 1..(1 + Len(u)) : i # 1 => (a \o u)[i] = u[i - 1]
        <5>1. /\ a \o u \in Seq(S) /\ Len(a \o u) = Len(a) + Len(u)
              /\ \A i \in 1..(Len(a) + Len(u)) : (a \o u)[i] = IF i <= Len(a) THEN a[i] ELSE u[i - Len(a)]
          BY ONLY <4>2, ConcatProperties
        <5>2. DOMAIN (a \o u) = 1..Len(a \o u)
          BY <5>1
        <5>3. \A i \in 1..(1 + Len(u)) : i # 1 => ~(i <= 1)
          BY <4>1
        <5>4. 1 \in 1..(1 + Len(u))
          BY <4>1
        <5>5. QED
          BY <4>2, <5>1, <5>2, <5>3, <5>4
      <4>4. QED
        BY <4>3 DEF a, S
    <3>3. ASSUME NEW i \in DOMAIN script, i # 1
          PROVE  u[i - 1] = script[i] /\ i \in 1..(1 + Len(u))
      <4>1. i - 1 \in 1..(Len(script) - 1) /\ (i - 1) + 1 = i
        BY <1>1, <3>3
      <4>2. QED
        BY <1>1, <1>6, <4>1
    <3>4. 1 + Len(u) = Len(script)
      BY <1>1, <1>6
    <3>5. QED
      BY <1>1, <3>2, <3>3, <3>4
  <2> HIDE DEF v
  <2>3. \A i \in DOMAIN v : BlockSteps(v[i]) = BlockSteps(script[i]) \ {h}
    BY <1>1, <1>3, <1>5, <2>2
  <2>4. OrderlyScript(script')
    <3>1. \A i \in DOMAIN v : Orderly(v[i])
      BY <1>3, <1>5, <1>8, <2>2
    <3>2. QED
      BY <2>1, <2>2, <2>3, <3>1 DEF OrderlyScript
  <2>5. Steps(script') = Steps(script) \ {h}
    BY <2>1, <2>2, <2>3, StepsAre
  <2>6. h \in Steps(script)
    BY <1>1, <1>3, StepsAre
  <2>7. KeepsOrder({h})
    BY <2>1, <2>2, <2>3 DEF KeepsOrder
  <2>8. QED
    BY <2>4, <2>5, <2>6, <2>7 DEF h
<1>9. QED
  BY <1>7, <1>8

\* A thread that has thrown, and with it the blocks that were to come
LEMMA Thrown ==
    ASSUME OrderlyScript(script), script # <<>>, NEW t \in Head(script), Throw(t)
    PROVE  OrderlyScript(script') /\ Steps(script') \subseteq Steps(script) /\ KeepsOrder({})
<1> DEFINE b == Head(script)
<1>1. /\ script \in Seq(SUBSET Seq(AnyStep)) /\ DOMAIN script = 1..Len(script) /\ Len(script) \in Nat
      /\ 1 \in DOMAIN script /\ b = script[1] /\ Orderly(b)
  BY DEF OrderlyScript
<1>2. CASE b = {t}
  <2>1. script' = <<>>
    BY <1>2 DEF Throw
  <2>2. QED
    BY <2>1, StepsAre DEF OrderlyScript, KeepsOrder
<1>3. CASE b # {t}
  <2> DEFINE c == b \ {t}
  <2>1. script' = <<c>>
    BY <1>3 DEF Throw
  <2>2. Orderly(c) /\ BlockSteps(c) \subseteq BlockSteps(b)
    BY <1>1, <1>3 DEF Orderly, BlockSteps
  <2> HIDE DEF c
  <2>3. script' \in Seq(SUBSET Seq(AnyStep)) /\ DOMAIN script' = {1} /\ script'[1] = c
    BY <2>1, <2>2 DEF Orderly
  <2>4. QED
    BY <1>1, <2>2, <2>3, StepsAre DEF OrderlyScript, KeepsOrder
<1>4. QED
  BY <1>2, <1>3

\* The steps of the scripts, by what they call
LEMMA ScriptedStep ==
    ASSUME NEW s \in Steps(CoreScript) \cup Steps(BridgeScript)
    PROVE  /\ s \in AnyStep
           /\ s.call = "setRouter" =>
                \E d, e \in Domains : s = Step("setRouter", d, "governance", e)
           /\ s.call = "transferGovernorship" =>
                \E d \in Domains \ {FirstGovernor} : s = TransferGovernorship(d)
<1>1. CASE s \in Steps(CoreScript)
  <2>1. PICK i \in DOMAIN CoreScript : s \in BlockSteps(CoreScript[i])
    BY <1>1, StepsAre
  <2>2. Orderly(CoreScript[i]) /\ CorePhase(s) = i
    BY <2>1, CoreScriptIs
  <2>3. s \in AnyStep
    BY <2>1, <2>2 DEF Orderly, BlockSteps, ToSet
  <2>4. /\ CoreScript[2] = SecondBlock /\ CoreScript[4] = FourthBlock
    BY CoreScriptIs
  <2>5. ASSUME s.call = "setRouter"
        PROVE  \E d, e \in Domains : s = Step("setRouter", d, "governance", e)
    <3>1. CorePhase(s) = 2
      BY <2>5 DEF CorePhase
    <3>2. PICK d \in Domains, e \in Domains : s \in ToSet(EnrollRemote(d, e))
      BY <2>1, <2>2, <2>4, <3>1, SecondBlockIs, EnrollAllIs
    <3>3. s \in {Step("create", d, "replica", e), Step("ownerEnrollReplica", d, "xApp", e),
                 Step("setWatcherPermission", d, "xApp", e), Step("setRouter", d, "governance", e)}
      BY <3>2, EnrollRemoteIs
    <3>4. s = Step("setRouter", d, "governance", e)
      BY <2>5, <3>3 DEF Step
    <3>5. QED
      BY <3>4
  <2>6. ASSUME s.call = "transferGovernorship"
        PROVE  \E d \in Domains \ {FirstGovernor} : s = TransferGovernorship(d)
    <3>1. CorePhase(s) = 4
      BY <2>6 DEF CorePhase
    <3>2. QED
      BY <2>1, <2>2, <2>4, <3>1, FourthBlockIs
  <2>7. QED
    BY <2>3, <2>5, <2>6
<1>2. CASE s \in Steps(BridgeScript)
  <2>1. PICK i \in DOMAIN BridgeScript : s \in BlockSteps(BridgeScript[i])
    BY <1>2, StepsAre
  <2>2. Orderly(BridgeScript[i]) /\ BridgePhase(s) = i /\ i \in {1, 2, 3, 4, 5}
    BY <2>1, BridgeScriptIs
  <2>3. s \in AnyStep
    BY <2>1, <2>2 DEF Orderly, BlockSteps, ToSet
  <2>4. s.call # "setRouter" /\ s.call # "transferGovernorship"
    BY <2>2 DEF BridgePhase
  <2>5. QED
    BY <2>3, <2>4
<1>3. QED
  BY <1>1, <1>2

\* The last block looks at what nobody waited for.
LEMMA UnawaitedStep ==
    ASSUME NEW s \in Steps(CoreScript), ~Awaited(s)
    PROVE  \E d \in Domains :
              \/ s \in {SetHome(d, "xApp"), SetHome(d, "updaterManager")}
              \/ \E c \in {"updaterManager", "xApp", "upgradeBeaconController", "home"} : s = HandOver(d, c)
<1>1. PICK i \in DOMAIN CoreScript : s \in BlockSteps(CoreScript[i])
  BY StepsAre
<1>2. CorePhase(s) = i /\ CoreScript[1] = FirstBlock /\ CoreScript[5] = FifthBlock
  BY <1>1, CoreScriptIs
<1>3. CASE s.call = "setHome"
  <2>1. CorePhase(s) = 1
    BY <1>3 DEF CorePhase
  <2>2. PICK d \in Domains : s \in ToSet(DeployOptics(d))
    BY <1>1, <1>2, <2>1, FirstBlockIs
  <2>3. s \in {SetHome(d, "xApp"), SetHome(d, "updaterManager")}
    BY <1>3, <2>2, DeployOpticsIs, NamedSteps, SomeNames
  <2>4. QED
    BY <2>3
<1>4. CASE s.call = "transferOwnership"
  <2>1. CorePhase(s) = 5
    BY <1>4 DEF CorePhase
  <2>2. PICK d \in Domains : s \in ToSet(Relinquish(d))
    BY <1>1, <1>2, <2>1, FifthBlockIs
  <2>3. QED
    BY <2>2, RelinquishIs
<1>5. QED
  BY <1>3, <1>4 DEF Awaited

\* Every chain is checked, and the script waits for it.
LEMMA CheckStep ==
    ASSUME NEW d \in Domains
    PROVE  /\ Check(d) \in Steps(CoreScript) /\ Awaited(Check(d))
           /\ Check(d).call = "check" /\ Check(d).on = d
<1>1. Check(d) \in BlockSteps(CoreScript[6]) /\ 6 \in DOMAIN CoreScript
  BY CoreScriptIs, LastBlockIs
<1>2. Check(d).call = "check" /\ Check(d).on = d
  BY DEF Check, Step
<1>3. QED
  BY <1>1, <1>2, StepsAre DEF Awaited

-----------------------------------------------------------------------------
(* How far the scripts are *)

Started == IF bridging THEN BridgeScript ELSE CoreScript

\* What is left to do and what has been done are apart, and both from the scripts.
InScript ==
    /\ bridging \in BOOLEAN /\ failed \in BOOLEAN
    /\ OrderlyScript(script)
    /\ Steps(script) \subseteq Steps(Started)
    /\ applied \subseteq Steps(CoreScript) \cup Steps(BridgeScript)
    /\ ~bridging => applied \subseteq Steps(CoreScript)
    /\ Steps(script) \cap applied = {}

\* Until something is thrown, only what nobody waits for is skipped.
Followed ==
    ~failed => \A s \in Steps(Started) : Awaited(s) => s \in Steps(script) \cup applied

\* A check that has passed has seen the chain as it is.
CheckedIsDone ==
    \A d \in Domains : Check(d) \in applied =>
        /\ SetHome(d, "xApp") \in applied
        /\ \A c \in {"updaterManager", "xApp", "upgradeBeaconController", "home"} :
              HandOver(d, c) \in applied

CoreDone ==
    Steps(CoreScript) \ applied \subseteq {SetHome(d, "updaterManager") : d \in Domains}

ScriptInv == InScript /\ Followed /\ CheckedIsDone /\ (bridging => CoreDone)

\* An ended script has nothing left to do.
LEMMA NothingLeft == Steps(<<>>) = {}
  BY DEF Steps

\* The end of the first script
LEMMA CoreEnds ==
    ASSUME ScriptInv, script = <<>>, ~failed, ~bridging
    PROVE  CoreDone
<1>1. \A s \in Steps(CoreScript) : Awaited(s) => s \in applied
  BY NothingLeft DEF ScriptInv, Followed, Started
<1>2. \A d \in Domains : Check(d) \in applied
  BY <1>1, CheckStep
<1>3. SUFFICES ASSUME NEW s \in Steps(CoreScript), s \notin applied
               PROVE  \E d \in Domains : s = SetHome(d, "updaterManager")
  BY DEF CoreDone
<1>4. ~Awaited(s)
  BY <1>1, <1>3
<1>5. PICK d \in Domains :
         \/ s \in {SetHome(d, "xApp"), SetHome(d, "updaterManager")}
         \/ \E c \in {"updaterManager", "xApp", "upgradeBeaconController", "home"} : s = HandOver(d, c)
  BY <1>4, UnawaitedStep
<1>6. /\ SetHome(d, "xApp") \in applied
      /\ \A c \in {"updaterManager", "xApp", "upgradeBeaconController", "home"} : HandOver(d, c) \in applied
  BY <1>2 DEF ScriptInv, CheckedIsDone
<1>7. QED
  BY <1>3, <1>5, <1>6

\* The first script has everything to do.
LEMMA InitScript == DeployInit => ScriptInv
<1> SUFFICES ASSUME DeployInit PROVE ScriptInv
  OBVIOUS
<1>1. script = CoreScript /\ bridging = FALSE /\ failed = FALSE /\ applied = {}
  BY DEF DeployInit
<1>2. QED
  BY <1>1, ScriptsOrderly DEF ScriptInv, InScript, Followed, CheckedIsDone, Started

\* Where no script starts, what is done stays done, and what is left shrinks.
LEMMA ScriptGoesOn ==
    ASSUME ScriptInv, UNCHANGED bridging, failed' \in BOOLEAN, failed => failed',
           OrderlyScript(script'), Steps(script') \subseteq Steps(script),
           applied \subseteq applied', applied' \subseteq applied \cup Steps(script),
           Steps(script') \cap applied' = {},
           ~failed' => \A s \in Steps(script) : Awaited(s) => s \in Steps(script') \cup applied',
           CheckedIsDone'
    PROVE  ScriptInv'
<1>1. Started' = Started
  BY DEF Started
<1>2. InScript'
  BY <1>1 DEF ScriptInv, InScript, Started
<1>3. Followed'
  BY <1>1 DEF ScriptInv, Followed
<1>4. bridging' => CoreDone'
  BY DEF ScriptInv, CoreDone
<1>5. QED
  BY <1>2, <1>3, <1>4 DEF ScriptInv

\* A step that takes effect moves from what is left to what is done.
LEMMA RunScript ==
    ASSUME ScriptInv, script # <<>>, NEW t \in Head(script), Run(t)
    PROVE  ScriptInv'
<1> DEFINE h == Head(t)
<1>1. OrderlyScript(script) /\ Steps(script) \cap applied = {} /\ failed \in BOOLEAN
  BY DEF ScriptInv, InScript
<1>2. Advance(Rest(Head(script), t)) /\ Execute(h) /\ UNCHANGED <<bridging, failed>>
  BY DEF Run
<1>3. OrderlyScript(script') /\ h \in Steps(script) /\ Steps(script') = Steps(script) \ {h}
  BY <1>1, <1>2, Advanced
<1>4. applied' = applied \cup {h}
  BY <1>2 DEF Execute
<1>5. CheckedIsDone'
  <2> HIDE DEF h
  <2>1. ASSUME NEW d \in Domains, h = Check(d)
        PROVE  /\ SetHome(d, "xApp") \in applied
               /\ \A c \in {"updaterManager", "xApp", "upgradeBeaconController", "home"} :
                     HandOver(d, c) \in applied
    <3>1. h.call = "check" /\ h.on = d
      BY <2>1, CheckStep
    <3>2. h # Create(h.on, "governance")
      <4>1. \A x, y : Create(x, y).call = "create"
        BY DEF Create, Step
      <4>2. QED
        BY <3>1, <4>1
    <3>3. h.call = "check" /\ CheckCoreDeploy(h.on)
      <4>1. Execute(h)
        BY <1>2
      <4>2. QED
        BY <3>1, <3>2, <4>1, Zenon DEF Execute
    <3>4. CheckCoreDeploy(d)
      BY <3>1, <3>3
    <3>5. QED
      BY <3>4 DEF CheckCoreDeploy, OwnedByRouter
  <2>2. QED
    BY <1>4, <2>1 DEF ScriptInv, CheckedIsDone
<1> HIDE DEF h
<1>6. QED
  BY <1>1, <1>2, <1>3, <1>4, <1>5, ScriptGoesOn

\* A transaction that reverts unseen was not waited for.
LEMMA RevertScript ==
    ASSUME ScriptInv, script # <<>>, NEW t \in Head(script), RevertUnseen(t)
    PROVE  ScriptInv'
<1> DEFINE h == Head(t)
<1>1. OrderlyScript(script) /\ Steps(script) \cap applied = {} /\ failed \in BOOLEAN
  BY DEF ScriptInv, InScript
<1>2. Advance(Rest(Head(script), t)) /\ ~Awaited(h) /\ UNCHANGED <<bridging, failed, applied>>
  BY DEF RevertUnseen
<1>3. OrderlyScript(script') /\ h \in Steps(script) /\ Steps(script') = Steps(script) \ {h}
  BY <1>1, <1>2, Advanced
<1>4. CheckedIsDone'
  BY <1>2 DEF ScriptInv, CheckedIsDone
<1> HIDE DEF h
<1>5. QED
  BY <1>1, <1>2, <1>3, <1>4, ScriptGoesOn

\* What is thrown says so.
LEMMA ThrowScript ==
    ASSUME ScriptInv, script # <<>>, NEW t \in Head(script), Throw(t)
    PROVE  ScriptInv'
<1>1. OrderlyScript(script) /\ Steps(script) \cap applied = {}
  BY DEF ScriptInv, InScript
<1>2. OrderlyScript(script') /\ Steps(script') \subseteq Steps(script)
  BY <1>1, Thrown
<1>3. failed' = TRUE /\ UNCHANGED <<bridging, applied>>
  BY DEF Throw
<1>4. CheckedIsDone'
  BY <1>3 DEF ScriptInv, CheckedIsDone
<1>5. QED
  BY <1>1, <1>2, <1>3, <1>4, ScriptGoesOn

\* An ended script is in order.
LEMMA NoScript == OrderlyScript(<<>>)
  BY DEF OrderlyScript

\* So does the death of the process.
LEMMA KillScript == ScriptInv /\ Kill => ScriptInv'
<1> SUFFICES ASSUME ScriptInv, Kill PROVE ScriptInv'
  OBVIOUS
<1>1. script' = <<>> /\ failed' = TRUE /\ UNCHANGED <<bridging, applied>>
  BY DEF Kill
<1>2. OrderlyScript(script') /\ Steps(script') = {}
  BY <1>1, NoScript, NothingLeft
<1>3. CheckedIsDone'
  BY <1>1 DEF ScriptInv, CheckedIsDone
<1>4. QED
  BY <1>1, <1>2, <1>3, ScriptGoesOn

\* The second script starts when the first is done.
LEMMA BridgesStart == ScriptInv /\ DeployBridges => ScriptInv'
<1> SUFFICES ASSUME ScriptInv, DeployBridges PROVE ScriptInv'
  OBVIOUS
<1>1. /\ script = <<>> /\ ~failed /\ ~bridging
      /\ script' = BridgeScript /\ bridging' = TRUE /\ UNCHANGED <<failed, applied>>
  BY DEF DeployBridges
<1>2. CoreDone
  BY <1>1, CoreEnds
<1>3. applied \subseteq Steps(CoreScript) /\ CheckedIsDone /\ failed \in BOOLEAN
  BY <1>1 DEF ScriptInv, InScript
<1>4. Started' = BridgeScript
  BY <1>1 DEF Started
<1>5. InScript'
  BY <1>1, <1>3, <1>4, ScriptsOrderly DEF InScript
<1>6. Followed'
  BY <1>1, <1>4 DEF Followed
<1>7. CoreDone' /\ CheckedIsDone'
  BY <1>1, <1>2, <1>3 DEF CoreDone, CheckedIsDone
<1>8. QED
  BY <1>5, <1>6, <1>7 DEF ScriptInv

\* What scripts do not see changes nothing about them.
LEMMA ScriptSame ==
    ASSUME ScriptInv, UNCHANGED <<script, bridging, failed, applied>>
    PROVE  ScriptInv'
  BY DEF ScriptInv, InScript, Followed, CheckedIsDone, CoreDone, Started

\* Every step keeps the invariant of the scripts.
LEMMA NextScript == ScriptInv /\ [DeployNext]_deployVars => ScriptInv'
<1> SUFFICES ASSUME ScriptInv, [DeployNext]_deployVars PROVE ScriptInv'
  OBVIOUS
<1>1. CASE RunSome
  BY <1>1, RunScript DEF RunSome
<1>2. CASE script # <<>> /\ \E t \in Head(script) : RevertUnseen(t) \/ Throw(t)
  BY <1>2, RevertScript, ThrowScript
<1>3. CASE Kill
  BY <1>3, KillScript
<1>4. CASE DeployBridges
  BY <1>4, BridgesStart
<1>5. CASE Deliver
  BY <1>5, ScriptSame DEF Deliver
<1>6. CASE UNCHANGED deployVars
  BY <1>6, ScriptSame DEF deployVars
<1>7. QED
  BY <1>1, <1>2, <1>3, <1>4, <1>5, <1>6 DEF DeployNext

\* A script that ends without an error has done everything it lists but
\* for UpdaterManager.setHome, whatever reverted without its looking (deployNChains,
\* deployBridges and their checks).
THEOREM FinishedScriptsAreDone == DeploySpec => []FinishedIsDone
<1>1. ScriptInv => FinishedIsDone
  <2> SUFFICES ASSUME ScriptInv PROVE FinishedIsDone
    OBVIOUS
  <2>1. Finished \/ bridging => CoreDone
    BY CoreEnds DEF Finished, ScriptInv
  <2>2. Finished /\ bridging => Steps(BridgeScript) \subseteq applied
    BY ScriptsOrderly, NothingLeft DEF Finished, ScriptInv, Followed, Started
  <2>3. QED
    BY <2>1, <2>2 DEF FinishedIsDone, CoreDone
<1>2. QED
  BY <1>1, InitScript, NextScript, PTL DEF DeploySpec

Seat == Accounts \cup {Nobody}

\* What the routers of the deployment send each other
Letter(m) ==
    /\ m.from \in Domains /\ m.to \in Domains /\ m.to # m.from /\ m.sender = m.from
    /\ m.body.domain \in Domains
    /\ m.body.type \in {"transfer", "router"}
    /\ m.body.type = "transfer" => m.body.governor \in Seat
    /\ m.body.type = "router" => m.body.router = m.body.domain

RouterTypes ==
    /\ governor \in [Domains -> Seat]
    /\ governorDomain \in [Domains -> Domains]
    /\ routers \in [Domains -> [Domains -> Domains \cup {NoRouter}]]
    /\ domains \in [Domains -> Seq(Entries)]
    /\ nonces \in [Domains -> [Domains -> Nat]]
    /\ \A m \in inflight : Letter(m)
    /\ appointed \in Appointments
    /\ reverts \in 0..MaxReverts

\* Whatever is relisted, a list stays one.
LEMMA RelistTyped ==
    ASSUME NEW list \in Seq(Entries), NEW known, NEW e \in Domains, NEW r
    PROVE  Relist(list, known, e, r) \in Seq(Entries)
<1>1. Append(list, e) \in Seq(Entries)
  BY DEF Entries
<1>2. Erase(list, e) \in Seq(Entries)
  <2>1. DOMAIN list = 1..Len(list) /\ Len(list) \in Nat /\ \A i \in 1..Len(list) : list[i] \in Entries
    OBVIOUS
  <2>2. Erase(list, e) \in [1..Len(list) -> Entries]
    BY <2>1 DEF Erase, Entries
  <2>3. QED
    BY ONLY <2>1, <2>2
<1>3. QED
  BY <1>1, <1>2 DEF Relist

\* What a router of the deployment sends
LEMMA Sent ==
    ASSUME nonces \in [Domains -> [Domains -> Nat]], NEW d \in Domains, NEW list \in Seq(Entries),
           NEW known, NEW body, SendToAll(d, list, known, body)
    PROVE  /\ nonces' \in [Domains -> [Domains -> Nat]]
           /\ \A m \in inflight' :
                 \/ m \in inflight
                 \/ m.from = d /\ m.to \in Domains /\ m.to # d /\ m.sender = d /\ m.body = body
<1>1. ASSUME NEW e \in Domains
      PROVE  nonces[d][e] + Cardinality({i \in Recipients(list) : list[i] = e}) \in Nat
  <2>1. {i \in Recipients(list) : list[i] = e} \in SUBSET DOMAIN list
    BY DEF Recipients
  <2>2. nonces[d][e] \in Nat
    OBVIOUS
  <2>3. Cardinality({i \in Recipients(list) : list[i] = e}) \in Nat
    BY <2>1, PlacesFinite
  <2>4. QED
    BY <2>2, <2>3
<1>2. nonces' \in [Domains -> [Domains -> Nat]]
  BY <1>1 DEF SendToAll
<1>3. \A i \in Recipients(list) :
          /\ list[i] \in Domains
          /\ Copy(d, list, i, body).from = d
          /\ Copy(d, list, i, body).to = list[i]
          /\ Copy(d, list, i, body).sender = d
          /\ Copy(d, list, i, body).body = body
  BY DEF Copy, Recipients, Entries
<1>4. ASSUME NEW m \in inflight', m \notin inflight
      PROVE  m.from = d /\ m.to \in Domains /\ m.to # d /\ m.sender = d /\ m.body = body
  <2>1. PICK i \in Recipients(list) : list[i] # d /\ m = Copy(d, list, i, body)
    BY <1>4 DEF SendToAll
  <2>2. QED
    BY <1>3, <2>1
<1>5. QED
  BY <1>2, <1>4

\* transferGovernor keeps the types.
LEMMA TransferTyped ==
    ASSUME RouterTypes, NEW d \in Domains, NEW e \in Domains, NEW a \in Seat,
           TransferGovernor(d, e, a), UNCHANGED <<appointed, reverts>>
    PROVE  /\ RouterTypes'
           /\ \A m \in inflight' : m \in inflight \/ (m.from = d /\ e # d)
<1> DEFINE body == [type |-> "transfer", domain |-> e, governor |-> a]
<1>1. governor' \in [Domains -> Seat] /\ governorDomain' \in [Domains -> Domains]
  BY DEF TransferGovernor, _transferGovernor, NewGovernor, RouterTypes, Seat
<1>2. UNCHANGED <<routers, domains>>
  BY DEF TransferGovernor, lists
<1>3. /\ nonces' \in [Domains -> [Domains -> Nat]]
      /\ \A m \in inflight' :
            \/ m \in inflight
            \/ e # d /\ m.from = d /\ m.to \in Domains /\ m.to # d /\ m.sender = d /\ m.body = body
  <2>1. CASE e = d
    BY <2>1 DEF TransferGovernor, channel, RouterTypes
  <2>2. CASE e # d
    <3>1. /\ nonces \in [Domains -> [Domains -> Nat]] /\ domains[d] \in Seq(Entries)
          /\ SendToAll(d, domains[d], routers[d], body)
      BY <2>2 DEF TransferGovernor, RouterTypes
    <3> HIDE DEF body
    <3>2. /\ nonces' \in [Domains -> [Domains -> Nat]]
          /\ \A m \in inflight' :
                \/ m \in inflight
                \/ m.from = d /\ m.to \in Domains /\ m.to # d /\ m.sender = d /\ m.body = body
      BY <3>1, Sent
    <3>3. QED
      BY <2>2, <3>2
  <2>3. QED
    BY <2>1, <2>2
<1>4. \A m \in inflight' : Letter(m)
  <2>1. body.type = "transfer" /\ body.domain = e /\ body.governor = a /\ body.type # "router"
    OBVIOUS
  <2> HIDE DEF body
  <2>2. QED
    BY <1>3, <2>1 DEF Letter, RouterTypes
<1>5. QED
  BY <1>1, <1>2, <1>3, <1>4 DEF RouterTypes

\* The scripts enroll a router under its own domain, and change nothing else.
LEMMA SetRouterTyped ==
    ASSUME RouterTypes, NEW d \in Domains, NEW e \in Domains,
           _setRouter(d, e, e)
    PROVE  /\ routers' \in [Domains -> [Domains -> Domains \cup {NoRouter}]]
           /\ domains' \in [Domains -> Seq(Entries)]
           /\ routers'[d][e] = e
           /\ \A c, x \in Domains : ~(c = d /\ x = e) => routers'[c][x] = routers[c][x]
<1>1. Relist(domains[d], routers[d][e], e, e) \in Seq(Entries)
  <2>1. domains[d] \in Seq(Entries)
    BY DEF RouterTypes
  <2>2. QED
    BY <2>1, RelistTyped
<1>2. domains' \in [Domains -> Seq(Entries)]
  BY <1>1 DEF RouterTypes, _setRouter
<1>3. routers' = [routers EXCEPT ![d] = [routers[d] EXCEPT ![e] = e]]
  BY DEF _setRouter, RouterTypes
<1>4. QED
  BY <1>2, <1>3 DEF RouterTypes

\* setRouter keeps the types.
LEMMA EnrollTyped ==
    ASSUME RouterTypes, NEW d \in Domains, NEW e \in Domains,
           SetRouter(d, e, e), UNCHANGED <<appointed, reverts>>
    PROVE  /\ RouterTypes'
           /\ \A m \in inflight' : m \in inflight \/ m.body.type = "router"
<1> DEFINE body == [type |-> "router", domain |-> e, router |-> e]
<1>1. _setRouter(d, e, e) /\ UNCHANGED <<governor, governorDomain>>
  BY DEF SetRouter, seat
<1>2. /\ routers' \in [Domains -> [Domains -> Domains \cup {NoRouter}]]
      /\ domains' \in [Domains -> Seq(Entries)]
  BY <1>1, SetRouterTyped
<1>3. /\ nonces' \in [Domains -> [Domains -> Nat]]
      /\ \A m \in inflight' :
            \/ m \in inflight
            \/ m.from = d /\ m.to \in Domains /\ m.to # d /\ m.sender = d /\ m.body = body
  <2>1. /\ nonces \in [Domains -> [Domains -> Nat]] /\ domains'[d] \in Seq(Entries)
        /\ SendToAll(d, domains'[d], routers'[d], body)
    BY <1>2 DEF SetRouter, RouterTypes
  <2> HIDE DEF body
  <2>2. QED
    BY <2>1, Sent
<1>4. \A m \in inflight' : Letter(m)
  <2>1. body.type = "router" /\ body.domain = e /\ body.router = e /\ body.type # "transfer"
    OBVIOUS
  <2> HIDE DEF body
  <2>2. QED
    BY <1>3, <2>1 DEF Letter, RouterTypes
<1>5. QED
  BY <1>1, <1>2, <1>3, <1>4 DEF RouterTypes

\* So does what arrives.
LEMMA ProcessTyped ==
    ASSUME RouterTypes, NEW m \in inflight, Process(m), UNCHANGED <<appointed, reverts>>
    PROVE  RouterTypes'
<1>1. Letter(m) /\ inflight' = inflight \ {m} /\ UNCHANGED nonces
  BY DEF Process, RouterTypes
<1>2. CASE HandleTransferGovernor(m)
  <2>1. governor' \in [Domains -> Seat] /\ governorDomain' \in [Domains -> Domains]
    BY <1>1, <1>2 DEF HandleTransferGovernor, _transferGovernor, NewGovernor, RouterTypes, Letter, Seat
  <2>2. UNCHANGED <<routers, domains>>
    BY <1>2 DEF HandleTransferGovernor, lists
  <2>3. QED
    BY <1>1, <2>1, <2>2 DEF RouterTypes
<1>3. CASE HandleSetRouter(m)
  <2>1. /\ m.to \in Domains /\ m.body.domain \in Domains
        /\ _setRouter(m.to, m.body.domain, m.body.domain)
        /\ UNCHANGED <<governor, governorDomain>>
    BY <1>1, <1>3 DEF HandleSetRouter, Letter, seat
  <2>2. QED
    BY <1>1, <2>1, SetRouterTyped DEF RouterTypes
<1>4. CASE Refuse(m)
  BY <1>1, <1>4 DEF Refuse, seat, lists, RouterTypes
<1>5. QED
  BY <1>2, <1>3, <1>4 DEF Process

\* What a step does to the routers, one case for each kind of call
LEMMA ExecuteIs ==
    ASSUME NEW s \in AnyStep, Execute(s),
           s.call = "setRouter" =>
               \E d, e \in Domains : s = Step("setRouter", d, "governance", e),
           s.call = "transferGovernorship" =>
               \E d \in Domains \ {FirstGovernor} : s = TransferGovernorship(d)
    PROVE  \/ \E d \in Domains : s = Create(d, "governance") /\ CreateRouter(d)
           \/ \E d, e \in Domains : /\ s = Step("setRouter", d, "governance", e)
                                    /\ governor[d] = Deployer /\ SetRouter(d, e, e)
           \/ s.call = "appointGovernor" /\ Appoint
           \/ \E d \in Domains \ {FirstGovernor} :
                 /\ s = TransferGovernorship(d)
                 /\ TransferGovernor(d, FirstGovernor, governor[FirstGovernor])
           \/ /\ UNCHANGED router
              /\ \A d \in Domains : s # Create(d, "governance")
              /\ s.call # "setRouter" /\ s.call # "transferGovernorship"
<1>0. s.on \in Domains /\ s.arg \in Args
  BY DEF AnyStep
<1>1. \/ s = Create(s.on, "governance") /\ CreateRouter(s.on)
      \/ s.call = "setRouter" /\ governor[s.on] = Deployer /\ SetRouter(s.on, s.arg, s.arg)
      \/ s.call = "appointGovernor" /\ Appoint
      \/ /\ s.call = "transferGovernorship"
         /\ TransferGovernor(s.on, FirstGovernor, governor[FirstGovernor])
      \/ s.call \in {"check", "checkBridge", "enrollRemoteRouter"} /\ UNCHANGED router
      \/ s.call \notin {"setRouter", "transferGovernorship"} /\ s.to # "governance" /\ UNCHANGED router
  BY DEF Execute
<1>2. ASSUME s.call = "setRouter", governor[s.on] = Deployer, SetRouter(s.on, s.arg, s.arg)
      PROVE  \E d, e \in Domains : /\ s = Step("setRouter", d, "governance", e)
                                   /\ governor[d] = Deployer /\ SetRouter(d, e, e)
  <2>1. PICK d \in Domains, e \in Domains : s = Step("setRouter", d, "governance", e)
    BY <1>2
  <2>2. s.on = d /\ s.arg = e
    BY <2>1 DEF Step
  <2>3. QED
    BY <1>2, <2>1, <2>2
<1>3. ASSUME s.call = "transferGovernorship", TransferGovernor(s.on, FirstGovernor, governor[FirstGovernor])
      PROVE  \E d \in Domains \ {FirstGovernor} :
                 /\ s = TransferGovernorship(d)
                 /\ TransferGovernor(d, FirstGovernor, governor[FirstGovernor])
  <2>1. PICK d \in Domains \ {FirstGovernor} : s = TransferGovernorship(d)
    BY <1>3
  <2>2. s.on = d
    BY <2>1 DEF TransferGovernorship, Step
  <2>3. QED
    BY <1>3, <2>1, <2>2
<1>4. \A d \in Domains : Create(d, "governance").call = "create" /\ Create(d, "governance").to = "governance"
  BY DEF Create, Step
<1>5. QED
  <2>1. CASE s.call \in {"check", "checkBridge", "enrollRemoteRouter"} /\ UNCHANGED router
    <3>1. s.call # "create" /\ s.call # "setRouter" /\ s.call # "transferGovernorship"
      BY <2>1
    <3>2. \A d \in Domains : s # Create(d, "governance")
      BY <1>4, <3>1
    <3>3. QED
      BY <2>1, <3>1, <3>2
  <2>2. CASE s.call \notin {"setRouter", "transferGovernorship"} /\ s.to # "governance" /\ UNCHANGED router
    <3>1. s.call # "setRouter" /\ s.call # "transferGovernorship" /\ \A d \in Domains : s # Create(d, "governance")
      BY <1>4, <2>2
    <3>2. QED
      BY <2>2, <3>1
  <2>3. QED
    BY <1>0, <1>1, <1>2, <1>3, <2>1, <2>2, Zenon

DeployInv == ScriptInv /\ RouterTypes

\* What routers do not see changes nothing about them.
LEMMA RouterTypesSame ==
    ASSUME RouterTypes, UNCHANGED <<router, appointed>>, reverts' \in 0..MaxReverts
    PROVE  RouterTypes'
  BY DEF RouterTypes, router

\* The chains start without routers.
LEMMA InitTypes == DeployInit => RouterTypes
<1> SUFFICES ASSUME DeployInit PROVE RouterTypes
  OBVIOUS
<1>1. domains \in [Domains -> Seq(Entries)]
  BY DEF DeployInit, Entries
<1>2. reverts \in 0..MaxReverts
  BY DeploymentAssumption DEF DeployInit
<1>3. QED
  BY <1>1, <1>2 DEF DeployInit, RouterTypes, Seat

\* The step a thread makes
LEMMA HeadStep ==
    ASSUME ScriptInv, script # <<>>, NEW t \in Head(script), Run(t)
    PROVE  \E s \in Steps(script) :
              /\ Execute(s) /\ applied' = applied \cup {s} /\ s = Head(t)
              /\ s \in Steps(CoreScript) \cup Steps(BridgeScript)
              /\ s \in AnyStep
<1>1. OrderlyScript(script) /\ Steps(script) \subseteq Steps(CoreScript) \cup Steps(BridgeScript)
  BY DEF ScriptInv, InScript, Started
<1>2. Advance(Rest(Head(script), t)) /\ Execute(Head(t))
  BY DEF Run
<1>3. Head(t) \in Steps(script)
  BY <1>1, <1>2, Advanced
<1>4. applied' = applied \cup {Head(t)}
  BY <1>2 DEF Execute
<1> DEFINE s == Head(t)
<1> HIDE DEF s
<1>5. s \in Steps(script) /\ Execute(s) /\ applied' = applied \cup {s} /\ s = Head(t)
  BY <1>2, <1>3, <1>4 DEF s
<1>6. s \in Steps(CoreScript) \cup Steps(BridgeScript)
  BY <1>1, <1>5
<1>7. s \in AnyStep
  BY <1>6, ScriptedStep
<1>8. QED
  BY <1>5, <1>6, <1>7

\* What a step of a script does to the routers
LEMMA ScriptedExecute ==
    ASSUME NEW s \in Steps(CoreScript) \cup Steps(BridgeScript), Execute(s)
    PROVE  \/ \E d \in Domains : s = Create(d, "governance") /\ CreateRouter(d)
           \/ \E d, e \in Domains : /\ s = Step("setRouter", d, "governance", e)
                                    /\ governor[d] = Deployer /\ SetRouter(d, e, e)
           \/ s.call = "appointGovernor" /\ Appoint
           \/ \E d \in Domains \ {FirstGovernor} :
                 /\ s = TransferGovernorship(d)
                 /\ TransferGovernor(d, FirstGovernor, governor[FirstGovernor])
           \/ /\ UNCHANGED router
              /\ \A d \in Domains : s # Create(d, "governance")
              /\ s.call # "setRouter" /\ s.call # "transferGovernorship"
  BY ScriptedStep, ExecuteIs

\* Every step of a script keeps the types.
LEMMA RunTypes ==
    ASSUME RouterTypes, NEW s \in Steps(CoreScript) \cup Steps(BridgeScript), Execute(s),
           UNCHANGED <<appointed, reverts>>
    PROVE  RouterTypes'
<1>0. FirstGovernor \in Domains /\ Deployer \in Accounts
  BY DeploymentAssumption, GovernanceAssumption
<1>1. ASSUME NEW d \in Domains, CreateRouter(d)
      PROVE  RouterTypes'
  BY <1>0, <1>1 DEF CreateRouter, RouterTypes, Seat
<1>2. ASSUME NEW d \in Domains, NEW e \in Domains, SetRouter(d, e, e)
      PROVE  RouterTypes'
  BY <1>2, EnrollTyped
<1>3. ASSUME Appoint
      PROVE  RouterTypes'
  <2>1. CASE appointed = NoConfig
    <3>1. UNCHANGED router
      BY <1>3, <2>1 DEF Appoint
    <3>2. QED
      BY <3>1, RouterTypesSame DEF RouterTypes
  <2>2. CASE appointed # NoConfig
    <3>1. appointed \in [domain : Domains, address : Accounts]
      BY <2>2, DeploymentAssumption DEF RouterTypes
    <3>2. appointed.domain \in Domains /\ appointed.address \in Seat
      BY <3>1 DEF Seat
    <3>3. TransferGovernor(FirstGovernor, appointed.domain, appointed.address)
      BY <1>3, <2>2 DEF Appoint
    <3>4. QED
      BY <1>0, <3>2, <3>3, TransferTyped
  <2>3. QED
    BY <2>1, <2>2
<1>4. ASSUME NEW d \in Domains, TransferGovernor(d, FirstGovernor, governor[FirstGovernor])
      PROVE  RouterTypes'
  <2>1. governor[FirstGovernor] \in Seat
    BY <1>0 DEF RouterTypes
  <2>2. QED
    BY <1>0, <1>4, <2>1, TransferTyped
<1>5. ASSUME UNCHANGED router
      PROVE  RouterTypes'
  BY <1>5, RouterTypesSame DEF RouterTypes
<1>6. QED
  BY <1>1, <1>2, <1>3, <1>4, <1>5, ScriptedExecute

\* The initial state satisfies both invariants.
LEMMA InitDeploy == DeployInit => DeployInv
  BY InitScript, InitTypes DEF DeployInv

\* Every step keeps them.
LEMMA NextDeploy == DeployInv /\ [DeployNext]_deployVars => DeployInv'
<1> SUFFICES ASSUME DeployInv, [DeployNext]_deployVars PROVE DeployInv'
  OBVIOUS
<1>0. ScriptInv /\ RouterTypes
  BY DEF DeployInv
<1>1. ASSUME script # <<>>, NEW t \in Head(script), Run(t)
      PROVE  RouterTypes'
  <2>1. PICK s \in Steps(script) : Execute(s) /\ s \in Steps(CoreScript) \cup Steps(BridgeScript)
    BY <1>0, <1>1, HeadStep
  <2>2. UNCHANGED <<appointed, reverts>>
    BY <1>1 DEF Run
  <2>3. QED
    BY <1>0, <2>1, <2>2, RunTypes
<1>2. ASSUME NEW t, RevertUnseen(t)
      PROVE  RouterTypes'
  <2>1. reverts' \in 0..MaxReverts
    BY <1>0, <1>2, DeploymentAssumption DEF RevertUnseen, RouterTypes
  <2>2. QED
    BY <1>0, <1>2, <2>1, RouterTypesSame DEF RevertUnseen
<1>3. ASSUME NEW t, Throw(t)
      PROVE  RouterTypes'
  BY <1>0, <1>3, RouterTypesSame DEF Throw, RouterTypes
<1>4. ASSUME Kill \/ DeployBridges
      PROVE  RouterTypes'
  BY <1>0, <1>4, RouterTypesSame DEF Kill, DeployBridges, RouterTypes
<1>5. ASSUME Deliver
      PROVE  RouterTypes'
  <2>1. PICK m \in inflight : Process(m)
    BY <1>5 DEF Deliver
  <2>2. UNCHANGED <<appointed, reverts>>
    BY <1>5 DEF Deliver
  <2>3. QED
    BY <1>0, <2>1, <2>2, ProcessTyped
<1>6. ASSUME UNCHANGED deployVars
      PROVE  RouterTypes'
  BY <1>0, <1>6, RouterTypesSame DEF deployVars, RouterTypes
<1>7. RouterTypes'
  BY <1>1, <1>2, <1>3, <1>4, <1>5, <1>6 DEF DeployNext, RunSome
<1>8. QED
  BY <1>0, <1>7, NextScript DEF DeployInv

\* Every variable of the deployment keeps its type.
THEOREM DeployTypeCorrect == DeploySpec => []DeployTypeOK
<1>1. DeployInv => DeployTypeOK
  BY DEF DeployInv, ScriptInv, InScript, RouterTypes, OrderlyScript, Orderly, DeployTypeOK, Seat, Entries
<1>2. QED
  BY <1>1, InitDeploy, NextDeploy, PTL DEF DeploySpec

-----------------------------------------------------------------------------
(* Nobody is locked out *)

\* The governor, if one is configured, is on the first chain.
AppointedAtHome == \A a \in Appointments : a = NoConfig \/ a.domain = FirstGovernor

\* The first router learns of the router of chain d.
Enrolled(d) == Step("setRouter", FirstGovernor, "governance", d)

\* No chain hands its governorship over before it has a router, which the first
\* router knows.
Prerequisites(d) == {Create(d, "governance"), Enrolled(d)}

TransfersFollow ==
    \A i \in DOMAIN script, d \in Domains : \A x \in Prerequisites(d) :
        TransferGovernorship(d) \in BlockSteps(script[i]) =>
            x \in applied \/ \E j \in 1..(i-1) : x \in BlockSteps(script[j])

\* The first chain sends no transfer.
NoTransferFromFirst ==
    \A m \in inflight : m.body.type = "transfer" => m.from # FirstGovernor

Enrollments ==
    /\ \A d, e \in Domains : routers[d][e] \in {e, NoRouter}
    /\ \A d \in Domains : Enrolled(d) \in applied =>
          routers[FirstGovernor][d] = d /\ governor[FirstGovernor] # Nobody

\* A chain obeys its own governor, or the first chain's, with which it shares
\* enrollments.
Obeys ==
    \A d \in Domains :
        /\ governorDomain[d] \in {d, FirstGovernor}
        /\ Create(d, "governance") \in applied /\ governorDomain[d] = d => governor[d] # Nobody
        /\ governorDomain[d] # d =>
              /\ routers[d][FirstGovernor] = FirstGovernor /\ routers[FirstGovernor][d] = d
              /\ governor[FirstGovernor] # Nobody

Commanded == NoTransferFromFirst /\ Enrollments /\ Obeys

\* The script waits for the first router to learn of every other.
LEMMA EnrolledIs ==
    ASSUME NEW d \in Domains
    PROVE  /\ Enrolled(d) \in AnyStep /\ Enrolled(d).call = "setRouter" /\ Awaited(Enrolled(d))
           /\ d # FirstGovernor => Enrolled(d) \in BlockSteps(CoreScript[2])
<1>1. Enrolled(d) \in AnyStep /\ Enrolled(d).call = "setRouter"
  BY OrderIs DEF Enrolled, Step, AnyStep, Calls, Names, Args
<1>2. ASSUME d # FirstGovernor
      PROVE  Enrolled(d) \in BlockSteps(CoreScript[2])
  <2>1. Enrolled(d) \in ToSet(EnrollRemote(FirstGovernor, d))
    BY OrderIs, EnrollRemoteIs DEF Enrolled
  <2>2. Enrolled(d) \in ToSet(EnrollAll(FirstGovernor))
    BY <1>2, <2>1, OrderIs, EnrollAllIs
  <2>3. QED
    BY <2>2, OrderIs, SecondBlockIs, CoreScriptIs
<1>3. QED
  BY <1>1, <1>2 DEF Awaited

\* Both are awaited, and nothing else is their like.
LEMMA PrerequisitesAre ==
    ASSUME NEW d \in Domains, NEW x \in Prerequisites(d)
    PROVE  Awaited(x) /\ x \notin {TransferGovernorship(e) : e \in Domains}
<1>1. x.call \in {"create", "setRouter"}
  <2>1. Create(d, "governance").call = "create" /\ Enrolled(d).call = "setRouter"
    BY DEF Create, Enrolled, Step
  <2>2. QED
    BY <2>1 DEF Prerequisites
<1>2. \A e \in Domains : TransferGovernorship(e).call = "transferGovernorship"
  BY DEF TransferGovernorship, Step
<1>3. QED
  BY <1>1, <1>2 DEF Awaited

\* In the first script, creations and enrollments come before transfers.
LEMMA InitFollow == DeployInit => TransfersFollow
<1> SUFFICES ASSUME DeployInit, NEW i \in DOMAIN CoreScript, NEW d \in Domains,
                    NEW x \in Prerequisites(d),
                    TransferGovernorship(d) \in BlockSteps(CoreScript[i])
             PROVE  \E j \in 1..(i-1) : x \in BlockSteps(CoreScript[j])
  BY DEF DeployInit, TransfersFollow
<1>1. TransferGovernorship(d).call = "transferGovernorship" /\ TransferGovernorship(d).on = d
  BY DEF TransferGovernorship, Step
<1>2. CorePhase(TransferGovernorship(d)) = 4
  BY <1>1 DEF CorePhase
<1>3. i = 4 /\ CoreScript[4] = FourthBlock
  BY <1>2, CoreScriptIs
<1>4. PICK e \in Domains \ {FirstGovernor} : TransferGovernorship(d) = TransferGovernorship(e)
  BY <1>3, FourthBlockIs
<1>5. d = e
  BY <1>4 DEF TransferGovernorship, Step
<1>6. Enrolled(d) \in BlockSteps(CoreScript[2]) /\ 1 \in 1..(i-1) /\ 2 \in 1..(i-1)
  BY <1>3, <1>4, <1>5, EnrolledIs
<1>7. Create(d, "governance") \in BlockSteps(CoreScript[1])
  <2>1. Create(d, "governance") \in ToSet(DeployOptics(d))
    BY DeployOpticsIs
  <2>2. QED
    BY <2>1, FirstBlockIs, CoreScriptIs
<1>8. QED
  BY <1>6, <1>7 DEF Prerequisites

\* A script that keeps its order keeps transfers after both.
LEMMA FollowKept ==
    ASSUME TransfersFollow, NEW X, KeepsOrder(X), applied \subseteq applied',
           \A d \in Domains : \A x \in Prerequisites(d) : x \in X => x \in applied'
    PROVE  TransfersFollow'
<1> SUFFICES ASSUME NEW i \in DOMAIN script', NEW d \in Domains, NEW x \in Prerequisites(d),
                    TransferGovernorship(d) \in BlockSteps(script'[i])
             PROVE  \/ x \in applied'
                    \/ \E j \in 1..(i-1) : x \in BlockSteps(script'[j])
  BY DEF TransfersFollow, Prerequisites, TransferGovernorship, Enrolled, Create, Step
<1>1. PICK k \in DOMAIN script :
         /\ BlockSteps(script'[i]) \subseteq BlockSteps(script[k])
         /\ \A j \in 1..(k-1) : \A s \in BlockSteps(script[j]) :
               s \in X \/ \E l \in 1..(i-1) : s \in BlockSteps(script'[l])
  BY DEF KeepsOrder
<1>2. TransferGovernorship(d) \in BlockSteps(script[k])
  BY <1>1
<1>3. x \in applied \/ \E j \in 1..(k-1) : x \in BlockSteps(script[j])
  BY <1>2 DEF TransfersFollow
<1>4. QED
  BY <1>1, <1>3

\* Every step keeps transfers after both.
LEMMA NextFollow == DeployInv /\ TransfersFollow /\ [DeployNext]_deployVars => TransfersFollow'
<1> SUFFICES ASSUME DeployInv, TransfersFollow, [DeployNext]_deployVars PROVE TransfersFollow'
  OBVIOUS
<1>0. ScriptInv /\ OrderlyScript(script)
  BY DEF DeployInv, ScriptInv, InScript
<1>1. ASSUME script # <<>>, NEW t \in Head(script), Run(t)
      PROVE  TransfersFollow'
  <2>1. Advance(Rest(Head(script), t))
    BY <1>1 DEF Run
  <2>2. KeepsOrder({Head(t)})
    BY <1>0, <1>1, <2>1, Advanced
  <2>3. applied' = applied \cup {Head(t)}
    BY <1>1 DEF Run, Execute
  <2>4. \A d \in Domains : \A x \in Prerequisites(d) : x \in {Head(t)} => x \in applied'
    BY <2>3
  <2>5. applied \subseteq applied'
    BY <2>3
  <2>6. QED
    BY <2>2, <2>4, <2>5, FollowKept
<1>2. ASSUME script # <<>>, NEW t \in Head(script), RevertUnseen(t)
      PROVE  TransfersFollow'
  <2>1. Advance(Rest(Head(script), t)) /\ ~Awaited(Head(t)) /\ applied' = applied
    BY <1>2 DEF RevertUnseen
  <2>2. KeepsOrder({Head(t)})
    BY <1>0, <1>2, <2>1, Advanced
  <2>3. \A d \in Domains : \A x \in Prerequisites(d) : x \notin {Head(t)}
    BY <2>1, PrerequisitesAre
  <2>4. QED
    BY <2>1, <2>2, <2>3, FollowKept
<1>3. ASSUME script # <<>>, NEW t \in Head(script), Throw(t)
      PROVE  TransfersFollow'
  <2>1. KeepsOrder({}) /\ applied' = applied
    BY <1>0, <1>3, Thrown DEF Throw
  <2>2. QED
    BY <2>1, FollowKept
<1>4. CASE Kill
  <2>1. script' = <<>>
    BY <1>4 DEF Kill
  <2>2. QED
    BY <2>1 DEF TransfersFollow
<1>5. CASE DeployBridges
  <2>1. script' = BridgeScript
    BY <1>5 DEF DeployBridges
  <2>2. ASSUME NEW i \in DOMAIN BridgeScript, NEW d \in Domains
        PROVE  TransferGovernorship(d) \notin BlockSteps(BridgeScript[i])
    <3>1. TransferGovernorship(d).call = "transferGovernorship"
      BY DEF TransferGovernorship, Step
    <3>2. BridgePhase(TransferGovernorship(d)) = 0 /\ i # 0
      BY <3>1, BridgeScriptIs DEF BridgePhase
    <3>3. QED
      BY <3>2, BridgeScriptIs
  <2>3. QED
    BY <2>1, <2>2 DEF TransfersFollow, Prerequisites, Enrolled, Create, TransferGovernorship, Step
<1>6. ASSUME UNCHANGED <<script, applied>>
      PROVE  TransfersFollow'
  <2>1. KeepsOrder({})
    BY <1>6 DEF KeepsOrder
  <2>2. QED
    BY <1>6, <2>1, FollowKept
<1>7. QED
  BY <1>1, <1>2, <1>3, <1>4, <1>5, <1>6 DEF DeployNext, RunSome, Deliver, deployVars

\* Without routers, nobody is locked out.
LEMMA InitCommanded == DeployInit => Commanded
  BY DEF DeployInit, Commanded, NoTransferFromFirst, Enrollments, Obeys

\* Where routers and applied stay
LEMMA CommandedSame ==
    ASSUME Commanded, UNCHANGED <<governor, governorDomain, routers, inflight>>,
           \A d \in Domains : Create(d, "governance") \in applied' => Create(d, "governance") \in applied,
           \A d \in Domains : Enrolled(d) \in applied' => Enrolled(d) \in applied
    PROVE  Commanded'
<1>1. NoTransferFromFirst'
  BY DEF Commanded, NoTransferFromFirst
<1>2. Enrollments'
  BY DEF Commanded, Enrollments, Enrolled, Step
<1>3. Obeys'
  BY DEF Commanded, Obeys, Create, Step
<1>4. QED
  BY <1>1, <1>2, <1>3 DEF Commanded

\* An enrollment takes nothing away.
LEMMA EnrollCommanded ==
    ASSUME RouterTypes, Commanded, NEW d \in Domains, NEW e \in Domains, _setRouter(d, e, e),
           UNCHANGED <<governor, governorDomain>>,
           \A m \in inflight' : m \in inflight \/ m.body.type = "router",
           \A c \in Domains : Create(c, "governance") \in applied' => Create(c, "governance") \in applied,
           \A c \in Domains : Enrolled(c) \in applied' =>
               Enrolled(c) \in applied \/ (d = FirstGovernor /\ e = c /\ governor[d] # Nobody)
    PROVE  Commanded'
<1>0. FirstGovernor \in Domains
  BY OrderIs
<1>1. /\ routers'[d][e] = e
      /\ \A c, x \in Domains : ~(c = d /\ x = e) => routers'[c][x] = routers[c][x]
  BY SetRouterTyped
<1>2. \A c, x \in Domains : routers[c][x] = x => routers'[c][x] = x
  BY <1>1
<1>3. NoTransferFromFirst'
  BY DEF Commanded, NoTransferFromFirst
<1>4. Enrollments'
  <2>1. \A c, x \in Domains : routers'[c][x] \in {x, NoRouter}
    BY <1>1 DEF Commanded, Enrollments
  <2>2. ASSUME NEW c \in Domains, Enrolled(c) \in applied'
        PROVE  routers'[FirstGovernor][c] = c /\ governor'[FirstGovernor] # Nobody
    <3>1. CASE Enrolled(c) \in applied
      BY <1>0, <1>2, <3>1 DEF Commanded, Enrollments
    <3>2. CASE d = FirstGovernor /\ e = c /\ governor[d] # Nobody
      BY <1>1, <3>2
    <3>3. QED
      BY <2>2, <3>1, <3>2
  <2>3. QED
    BY <2>1, <2>2 DEF Enrollments, Enrolled, Step
<1>5. Obeys'
  <2>1. ASSUME NEW c \in Domains
        PROVE  /\ governorDomain'[c] \in {c, FirstGovernor}
               /\ Create(c, "governance") \in applied' /\ governorDomain'[c] = c => governor'[c] # Nobody
               /\ governorDomain'[c] # c =>
                     /\ routers'[c][FirstGovernor] = FirstGovernor /\ routers'[FirstGovernor][c] = c
                     /\ governor'[FirstGovernor] # Nobody
    BY <1>0, <1>2 DEF Commanded, Obeys
  <2>2. QED
    BY <2>1 DEF Obeys, Create, Step
<1>6. QED
  BY <1>3, <1>4, <1>5 DEF Commanded

\* A new router obeys the deployer.
LEMMA CreateCommanded ==
    ASSUME RouterTypes, Commanded, NEW d \in Domains, CreateRouter(d),
           applied' = applied \cup {Create(d, "governance")}
    PROVE  Commanded'
<1>0. FirstGovernor \in Domains /\ Deployer # Nobody
  BY DeploymentAssumption, GovernanceAssumption
<1>1. /\ governor' = [governor EXCEPT ![d] = Deployer]
      /\ governorDomain' = [governorDomain EXCEPT ![d] = d]
      /\ UNCHANGED <<routers, inflight>>
  BY DEF CreateRouter
<1>2. /\ governor'[d] = Deployer /\ governorDomain'[d] = d
      /\ \A c \in Domains : c # d => governor'[c] = governor[c] /\ governorDomain'[c] = governorDomain[c]
  BY <1>1 DEF RouterTypes
<1>3. governor[FirstGovernor] # Nobody => governor'[FirstGovernor] # Nobody
  BY <1>0, <1>2
<1>4. /\ \A c \in Domains : Create(c, "governance") = Create(d, "governance") => c = d
      /\ \A c \in Domains : Enrolled(c) # Create(d, "governance")
  BY DEF Create, Enrolled, Step
<1>5. NoTransferFromFirst'
  BY <1>1 DEF Commanded, NoTransferFromFirst
<1>6. Enrollments'
  <2>1. \A c \in Domains : Enrolled(c) \in applied' =>
           routers'[FirstGovernor][c] = c /\ governor'[FirstGovernor] # Nobody
    BY <1>1, <1>3, <1>4 DEF Commanded, Enrollments
  <2>2. QED
    BY <1>1, <2>1 DEF Commanded, Enrollments, Enrolled, Step
<1>7. Obeys'
  <2>1. ASSUME NEW c \in Domains
        PROVE  /\ governorDomain'[c] \in {c, FirstGovernor}
               /\ Create(c, "governance") \in applied' /\ governorDomain'[c] = c => governor'[c] # Nobody
               /\ governorDomain'[c] # c =>
                     /\ routers'[c][FirstGovernor] = FirstGovernor /\ routers'[FirstGovernor][c] = c
                     /\ governor'[FirstGovernor] # Nobody
    <3>1. CASE c = d
      BY <1>0, <1>2, <3>1
    <3>2. CASE c # d
      <4>1. Create(c, "governance") \in applied' => Create(c, "governance") \in applied
        BY <1>4, <3>2
      <4>2. QED
        BY <1>1, <1>2, <1>3, <3>2, <4>1 DEF Commanded, Obeys
    <3>3. QED
      BY <3>1, <3>2
  <2>2. QED
    BY <2>1 DEF Obeys, Create, Step
<1>8. QED
  BY <1>5, <1>6, <1>7 DEF Commanded

\* The office moves on the first chain only.
LEMMA AppointCommanded ==
    ASSUME AppointedAtHome, RouterTypes, Commanded, Appoint,
           \A d \in Domains : Create(d, "governance") \in applied' => Create(d, "governance") \in applied,
           \A d \in Domains : Enrolled(d) \in applied' => Enrolled(d) \in applied
    PROVE  Commanded'
<1>0. FirstGovernor \in Domains
  BY OrderIs
<1>1. CASE appointed = NoConfig
  BY <1>1, CommandedSame DEF Appoint, router
<1>2. CASE appointed # NoConfig
  <2>1. appointed.domain = FirstGovernor /\ appointed.address # Nobody
    <3>1. appointed \in Appointments
      BY DEF RouterTypes
    <3>2. appointed \in [domain : Domains, address : Accounts]
      BY <1>2, <3>1, DeploymentAssumption
    <3>3. QED
      BY <1>2, <3>1, <3>2, GovernanceAssumption DEF AppointedAtHome
  <2>2. TransferGovernor(FirstGovernor, FirstGovernor, appointed.address)
    BY <1>2, <2>1 DEF Appoint
  <2>3. /\ governor' = [governor EXCEPT ![FirstGovernor] = appointed.address]
        /\ governorDomain' = [governorDomain EXCEPT ![FirstGovernor] = FirstGovernor]
        /\ UNCHANGED <<routers, inflight>>
    BY <2>2 DEF TransferGovernor, _transferGovernor, NewGovernor, lists, channel
  <2>4. /\ governor'[FirstGovernor] # Nobody /\ governorDomain'[FirstGovernor] = FirstGovernor
        /\ \A c \in Domains : c # FirstGovernor =>
              governor'[c] = governor[c] /\ governorDomain'[c] = governorDomain[c]
    BY <1>0, <2>1, <2>3 DEF RouterTypes
  <2>5. NoTransferFromFirst'
    BY <2>3 DEF Commanded, NoTransferFromFirst
  <2>6. Enrollments'
    BY <2>3, <2>4 DEF Commanded, Enrollments, Enrolled, Step
  <2>7. Obeys'
    <3>1. ASSUME NEW c \in Domains
          PROVE  /\ governorDomain'[c] \in {c, FirstGovernor}
                 /\ Create(c, "governance") \in applied' /\ governorDomain'[c] = c => governor'[c] # Nobody
                 /\ governorDomain'[c] # c =>
                       /\ routers'[c][FirstGovernor] = FirstGovernor /\ routers'[FirstGovernor][c] = c
                       /\ governor'[FirstGovernor] # Nobody
      BY <2>3, <2>4 DEF Commanded, Obeys
    <3>2. QED
      BY <3>1 DEF Obeys, Create, Step
  <2>8. QED
    BY <2>5, <2>6, <2>7 DEF Commanded
<1>3. QED
  BY <1>1, <1>2

\* A chain hands itself over to the first, which has enrolled it.
LEMMA TransferCommanded ==
    ASSUME RouterTypes, Commanded, NEW d \in Domains \ {FirstGovernor}, Enrolled(d) \in applied,
           TransferGovernor(d, FirstGovernor, governor[FirstGovernor]),
           UNCHANGED <<appointed, reverts>>,
           \A c \in Domains : Create(c, "governance") \in applied' => Create(c, "governance") \in applied,
           \A c \in Domains : Enrolled(c) \in applied' => Enrolled(c) \in applied
    PROVE  Commanded'
<1>0. FirstGovernor \in Domains
  BY OrderIs
<1>1. routers[FirstGovernor][d] = d /\ governor[FirstGovernor] # Nobody
  BY DEF Commanded, Enrollments
<1>2. routers[d][FirstGovernor] = FirstGovernor
  BY <1>0 DEF TransferGovernor, _transferGovernor, MustHaveRouter, Commanded, Enrollments
<1>3. /\ governor' = [governor EXCEPT ![d] = Nobody]
      /\ governorDomain' = [governorDomain EXCEPT ![d] = FirstGovernor]
      /\ UNCHANGED routers
  BY DEF TransferGovernor, _transferGovernor, NewGovernor, lists
<1>4. /\ governorDomain'[d] = FirstGovernor
      /\ \A c \in Domains : c # d => governor'[c] = governor[c] /\ governorDomain'[c] = governorDomain[c]
  BY <1>3 DEF RouterTypes
<1>5. NoTransferFromFirst'
  <2>1. governor[FirstGovernor] \in Seat
    BY <1>0 DEF RouterTypes
  <2>2. \A m \in inflight' : m \in inflight \/ (m.from = d /\ FirstGovernor # d)
    BY <1>0, <2>1, TransferTyped
  <2>3. QED
    BY <2>2 DEF Commanded, NoTransferFromFirst
<1>6. Enrollments'
  BY <1>0, <1>3, <1>4 DEF Commanded, Enrollments, Enrolled, Step
<1>7. Obeys'
  <2>1. ASSUME NEW c \in Domains
        PROVE  /\ governorDomain'[c] \in {c, FirstGovernor}
               /\ Create(c, "governance") \in applied' /\ governorDomain'[c] = c => governor'[c] # Nobody
               /\ governorDomain'[c] # c =>
                     /\ routers'[c][FirstGovernor] = FirstGovernor /\ routers'[FirstGovernor][c] = c
                     /\ governor'[FirstGovernor] # Nobody
    <3>1. CASE c = d
      BY <1>0, <1>1, <1>2, <1>3, <1>4, <3>1
    <3>2. CASE c # d
      BY <1>0, <1>3, <1>4, <3>2 DEF Commanded, Obeys
    <3>3. QED
      BY <3>1, <3>2
  <2>2. QED
    BY <2>1 DEF Obeys, Create, Step
<1>8. QED
  BY <1>5, <1>6, <1>7 DEF Commanded

\* No transfer is obeyed where it arrives: it comes from a chain that governs nobody.
LEMMA DeliverCommanded ==
    ASSUME RouterTypes, Commanded, NEW m \in inflight, Process(m), UNCHANGED applied
    PROVE  Commanded'
<1>1. Letter(m) /\ inflight' = inflight \ {m}
  BY DEF Process, RouterTypes
<1>2. CASE HandleTransferGovernor(m)
  <2>1. m.from # FirstGovernor /\ governorDomain[m.to] = m.from
    BY <1>2 DEF HandleTransferGovernor, Accepts, IsGovernorRouter, Commanded, NoTransferFromFirst
  <2>2. governorDomain[m.to] \in {m.to, FirstGovernor} /\ m.to # m.from
    BY <1>1 DEF Letter, Commanded, Obeys
  <2>3. QED
    BY <2>1, <2>2
<1>3. CASE HandleSetRouter(m)
  <2>1. /\ m.to \in Domains /\ m.body.domain \in Domains
        /\ _setRouter(m.to, m.body.domain, m.body.domain)
        /\ UNCHANGED <<governor, governorDomain>>
    BY <1>1, <1>3 DEF HandleSetRouter, Letter, seat
  <2> DEFINE d == m.to
             e == m.body.domain
  <2>2. d \in Domains /\ e \in Domains /\ _setRouter(d, e, e)
    BY <2>1
  <2> HIDE DEF d, e
  <2>3. \A n \in inflight' : n \in inflight \/ n.body.type = "router"
    BY <1>1
  <2>4. /\ \A c \in Domains : Create(c, "governance") \in applied' => Create(c, "governance") \in applied
        /\ \A c \in Domains : Enrolled(c) \in applied' =>
              Enrolled(c) \in applied \/ (d = FirstGovernor /\ e = c /\ governor[d] # Nobody)
    OBVIOUS
  <2>5. QED
    BY ONLY RouterTypes, Commanded, <2>1, <2>2, <2>3, <2>4, EnrollCommanded
<1>4. CASE Refuse(m)
  <2>1. UNCHANGED <<governor, governorDomain, routers>>
    BY <1>4 DEF Refuse, seat, lists
  <2>2. NoTransferFromFirst'
    BY <1>1 DEF Commanded, NoTransferFromFirst
  <2>3. Enrollments'
    BY <2>1 DEF Commanded, Enrollments, Enrolled, Step
  <2>4. Obeys'
    BY <2>1 DEF Commanded, Obeys, Create, Step
  <2>5. QED
    BY <2>2, <2>3, <2>4 DEF Commanded
<1>5. QED
  BY <1>2, <1>3, <1>4 DEF Process

\* Every step of a script keeps the chains commanded.
LEMMA RunCommanded ==
    ASSUME AppointedAtHome, DeployInv, TransfersFollow, Commanded,
           script # <<>>, NEW t \in Head(script), Run(t)
    PROVE  Commanded'
<1>0. ScriptInv /\ RouterTypes /\ OrderlyScript(script)
  BY DEF DeployInv, ScriptInv, InScript
<1>1. PICK s \in Steps(script) :
         /\ Execute(s) /\ applied' = applied \cup {s} /\ s = Head(t)
         /\ s \in Steps(CoreScript) \cup Steps(BridgeScript)
  BY <1>0, HeadStep
<1>2. UNCHANGED <<appointed, reverts>>
  BY DEF Run
<1>3. \A c \in Domains : /\ Enrolled(c).call = "setRouter" /\ Enrolled(c).arg = c /\ Enrolled(c).on = FirstGovernor
                         /\ Create(c, "governance").call = "create"
  BY DEF Enrolled, Create, Step
<1>4. ASSUME s.call # "setRouter"
      PROVE  \A c \in Domains : Enrolled(c) \in applied' => Enrolled(c) \in applied
  BY <1>1, <1>3, <1>4
<1>5. ASSUME \A c \in Domains : s # Create(c, "governance")
      PROVE  \A c \in Domains : Create(c, "governance") \in applied' => Create(c, "governance") \in applied
  BY <1>1, <1>5
<1>6. ASSUME NEW d \in Domains, s = Create(d, "governance"), CreateRouter(d)
      PROVE  Commanded'
  BY <1>0, <1>1, <1>6, CreateCommanded
<1>7. ASSUME NEW d \in Domains, NEW e \in Domains, s = Step("setRouter", d, "governance", e),
             governor[d] = Deployer, SetRouter(d, e, e)
      PROVE  Commanded'
  <2>1. s.call = "setRouter" /\ s.on = d /\ s.arg = e
    BY <1>7 DEF Step
  <2>2. \A c \in Domains : Create(c, "governance") \in applied' => Create(c, "governance") \in applied
    BY <1>3, <1>5, <2>1
  <2>3. governor[d] # Nobody
    BY <1>7, DeploymentAssumption, GovernanceAssumption
  <2>4. \A c \in Domains : Enrolled(c) \in applied' =>
            Enrolled(c) \in applied \/ (d = FirstGovernor /\ e = c /\ governor[d] # Nobody)
    BY <1>1, <1>3, <2>1, <2>3
  <2>5. \A m \in inflight' : m \in inflight \/ m.body.type = "router"
    BY <1>0, <1>2, <1>7, EnrollTyped
  <2>6. _setRouter(d, e, e) /\ UNCHANGED <<governor, governorDomain>>
    BY <1>7 DEF SetRouter, seat
  <2>7. RouterTypes /\ Commanded /\ d \in Domains /\ e \in Domains
    BY <1>0
  <2>8. QED
    BY ONLY <2>2, <2>4, <2>5, <2>6, <2>7, EnrollCommanded
<1>8. ASSUME s.call = "appointGovernor", Appoint
      PROVE  Commanded'
  <2>1. s.call # "setRouter" /\ \A c \in Domains : s # Create(c, "governance")
    BY <1>3, <1>8
  <2>2. QED
    BY <1>0, <1>4, <1>5, <1>8, <2>1, AppointCommanded
<1>9. ASSUME NEW d \in Domains \ {FirstGovernor}, s = TransferGovernorship(d),
             TransferGovernor(d, FirstGovernor, governor[FirstGovernor])
      PROVE  Commanded'
  <2>1. s.call = "transferGovernorship"
    BY <1>9 DEF TransferGovernorship, Step
  <2>2. s.call # "setRouter" /\ \A c \in Domains : s # Create(c, "governance")
    BY <1>3, <2>1
  <2>3. Enrolled(d) \in applied
    <3>0. Enrolled(d) \in Prerequisites(d)
      BY DEF Prerequisites
    <3>1. Head(script) = script[1] /\ 1 \in DOMAIN script /\ Orderly(script[1])
      BY <1>0 DEF OrderlyScript
    <3>2. s \in BlockSteps(script[1])
      <4>1. t \in script[1]
        BY <3>1
      <4>2. Head(t) \in BlockSteps(script[1])
        BY <3>1, <4>1, RestIs
      <4>3. QED
        BY <1>1, <4>2
    <3>3. 1..(1-1) = {}
      OBVIOUS
    <3>4. QED
      BY <1>9, <3>0, <3>1, <3>2, <3>3 DEF TransfersFollow
  <2>4. QED
    BY <1>0, <1>2, <1>4, <1>5, <1>9, <2>2, <2>3, TransferCommanded
<1>10. ASSUME UNCHANGED router, \A d \in Domains : s # Create(d, "governance"), s.call # "setRouter"
       PROVE  Commanded'
  BY <1>4, <1>5, <1>10, CommandedSame DEF router
<1>11. QED
  BY <1>1, <1>6, <1>7, <1>8, <1>9, <1>10, ScriptedExecute

CommandInv == DeployInv /\ TransfersFollow /\ Commanded

\* The initial state satisfies the invariant.
LEMMA InitCommand == DeployInit => CommandInv
  BY InitDeploy, InitFollow, InitCommanded DEF CommandInv

\* Every step keeps it.
LEMMA NextCommand ==
    AppointedAtHome => (CommandInv /\ [DeployNext]_deployVars => CommandInv')
<1> SUFFICES ASSUME AppointedAtHome, CommandInv, [DeployNext]_deployVars PROVE CommandInv'
  OBVIOUS
<1>0. DeployInv /\ TransfersFollow /\ Commanded /\ RouterTypes
  BY DEF CommandInv, DeployInv
<1>1. ASSUME script # <<>>, NEW t \in Head(script), Run(t)
      PROVE  Commanded'
  BY <1>0, <1>1, RunCommanded
<1>2. ASSUME Deliver
      PROVE  Commanded'
  <2>1. PICK m \in inflight : Process(m)
    BY <1>2 DEF Deliver
  <2>2. UNCHANGED applied
    BY <1>2 DEF Deliver
  <2>3. QED
    BY <1>0, <2>1, <2>2, DeliverCommanded
<1>3. ASSUME UNCHANGED <<router, applied>>
      PROVE  Commanded'
  BY <1>0, <1>3, CommandedSame DEF router
<1>4. ASSUME ~RunSome, ~Deliver
      PROVE  Commanded'
  BY <1>3, <1>4 DEF DeployNext, RevertUnseen, Throw, Kill, DeployBridges, deployVars
<1>5. Commanded'
  BY <1>1, <1>2, <1>4 DEF RunSome
<1>6. QED
  BY <1>0, <1>5, NextDeploy, NextFollow DEF CommandInv

\* Wherever a script dies, and whatever reverted before, every router that
\* exists obeys somebody, if the governor is configured on the first chain or not at
\* all (deployNChains, core/index.ts).
THEOREM NoChainIsLockedOut == AppointedAtHome => (DeploySpec => []NobodyLockedOut)
<1> SUFFICES ASSUME AppointedAtHome PROVE DeploySpec => []NobodyLockedOut
  OBVIOUS
<1>1. CommandInv => NobodyLockedOut
  BY DEF CommandInv, Commanded, Obeys, NobodyLockedOut
<1>2. CommandInv /\ [DeployNext]_deployVars => CommandInv'
  BY NextCommand
<1>3. QED
  BY <1>1, <1>2, InitCommand, PTL DEF DeploySpec

-----------------------------------------------------------------------------
(* The deployment hands over *)

\* Every enrollment that was made stands.
Introduced ==
    \A d, e \in Domains : Step("setRouter", d, "governance", e) \in applied => routers[d][e] = e

\* A chain that has handed its governorship over has no governor of its own
\* again: its router is not created a second time.
Resigned ==
    \A d \in Domains \ {FirstGovernor} : TransferGovernorship(d) \in applied =>
        /\ Create(d, "governance") \in applied
        /\ governorDomain[d] = FirstGovernor /\ governor[d] = Nobody

Handed == Introduced /\ Resigned /\ ListsMatchRouters

\* Enrollments keep the lists exact.
LEMMA EnrollKeepsLists ==
    ASSUME RouterTypes, ListsMatchRouters, NEW d \in Domains, NEW e \in Domains, _setRouter(d, e, e)
    PROVE  ListsMatchRouters'
<1> DEFINE list == domains[d]
           f == routers[d]
<1>1. /\ list \in Seq(Entries) /\ f \in [Domains -> Domains \cup {NoRouter}]
      /\ ListsExactly(list, {x \in Domains : f[x] # NoRouter})
      /\ e \in Domains /\ e \in Domains \cup {NoRouter}
  BY DEF RouterTypes, ListsMatchRouters, MustHaveRouter
<1>2. /\ routers' = [routers EXCEPT ![d] = [f EXCEPT ![e] = e]]
      /\ domains' = [domains EXCEPT ![d] = Relist(list, f[e], e, e)]
  BY DEF _setRouter, RouterTypes
<1> HIDE DEF list, f
<1>3. ListsExactly(Relist(list, f[e], e, e), {x \in Domains : [f EXCEPT ![e] = e][x] # NoRouter})
  <2>1. PICK r : r = e
    OBVIOUS
  <2>2. /\ list \in Seq(Entries) /\ f \in [Domains -> Domains \cup {NoRouter}]
        /\ e \in Domains /\ r \in Domains \cup {NoRouter}
        /\ ListsExactly(list, {x \in Domains : f[x] # NoRouter})
    BY <1>1, <2>1
  <2>3. /\ Relist(list, f[e], e, r) \in Seq(Entries)
        /\ ListsExactly(Relist(list, f[e], e, r), {x \in Domains : [f EXCEPT ![e] = r][x] # NoRouter})
    BY ONLY <2>2, RelistExact
  <2>4. QED
    BY <2>1, <2>3
<1>4. ASSUME NEW c \in Domains
      PROVE  ListsExactly(domains'[c], {x \in Domains : routers'[c][x] # NoRouter})
  <2>1. CASE c = d
    <3>1. domains'[c] = Relist(list, f[e], e, e) /\ routers'[c] = [f EXCEPT ![e] = e]
      BY <1>2, <2>1 DEF RouterTypes
    <3>2. QED
      BY <1>3, <3>1
  <2>2. CASE c # d
    <3>1. domains'[c] = domains[c] /\ routers'[c] = routers[c]
      BY <1>2, <2>2 DEF RouterTypes
    <3>2. QED
      BY <3>1 DEF ListsMatchRouters, MustHaveRouter
  <2>3. QED
    BY <2>1, <2>2
<1>5. QED
  BY <1>4 DEF ListsMatchRouters, MustHaveRouter

\* Before anything is done, nothing is handed over.
LEMMA InitHanded == DeployInit => Handed
<1> SUFFICES ASSUME DeployInit PROVE Handed
  OBVIOUS
<1>1. applied = {} /\ \A d \in Domains : domains[d] = <<>> /\ \A e \in Domains : routers[d][e] = NoRouter
  BY DEF DeployInit
<1>2. Introduced /\ Resigned
  BY <1>1 DEF Introduced, Resigned
<1>3. ListsMatchRouters
  BY <1>1 DEF ListsMatchRouters, ListsExactly, MustHaveRouter
<1>4. QED
  BY <1>2, <1>3 DEF Handed

\* Where enrollments only come, and seats and what was done stay
LEMMA HandedKept ==
    ASSUME Handed, ListsMatchRouters',
           \A d, e \in Domains : routers[d][e] = e => routers'[d][e] = e,
           \A d, e \in Domains : Step("setRouter", d, "governance", e) \in applied' =>
               Step("setRouter", d, "governance", e) \in applied \/ routers'[d][e] = e,
           applied \subseteq applied',
           \A d \in Domains \ {FirstGovernor} : TransferGovernorship(d) \in applied' =>
               \/ /\ TransferGovernorship(d) \in applied
                  /\ governorDomain'[d] = governorDomain[d] /\ governor'[d] = governor[d]
               \/ /\ Create(d, "governance") \in applied
                  /\ governorDomain'[d] = FirstGovernor /\ governor'[d] = Nobody
    PROVE  Handed'
<1>1. Introduced'
  BY DEF Handed, Introduced, Step
<1>2. Resigned'
  <2>1. ASSUME NEW d \in Domains \ {FirstGovernor}, TransferGovernorship(d) \in applied'
        PROVE  /\ Create(d, "governance") \in applied'
               /\ governorDomain'[d] = FirstGovernor /\ governor'[d] = Nobody
    BY <2>1 DEF Handed, Resigned
  <2>2. QED
    BY <2>1 DEF Resigned, TransferGovernorship, Create, Step
<1>3. QED
  BY <1>1, <1>2 DEF Handed

\* Every step of a script keeps it.
LEMMA RunHanded ==
    ASSUME AppointedAtHome, CommandInv, Handed, script # <<>>, NEW t \in Head(script), Run(t)
    PROVE  Handed'
<1>0. /\ ScriptInv /\ RouterTypes /\ OrderlyScript(script) /\ TransfersFollow
      /\ ListsMatchRouters /\ Resigned /\ Introduced
      /\ Steps(script) \cap applied = {} /\ FirstGovernor \in Domains
  BY OrderIs DEF CommandInv, DeployInv, ScriptInv, InScript, Handed
<1>1. PICK s \in Steps(script) :
         /\ Execute(s) /\ applied' = applied \cup {s} /\ s = Head(t)
         /\ s \in Steps(CoreScript) \cup Steps(BridgeScript)
  BY <1>0, HeadStep
<1>2. \A c, x \in Domains : /\ Step("setRouter", c, "governance", x).call = "setRouter"
                           /\ Step("setRouter", c, "governance", x).on = c
                           /\ Step("setRouter", c, "governance", x).arg = x
                           /\ Create(c, "governance").call = "create" /\ Create(c, "governance").on = c
                           /\ TransferGovernorship(c).call = "transferGovernorship"
                           /\ TransferGovernorship(c).on = c
  BY DEF Create, TransferGovernorship, Step
<1>3. ASSUME s.call # "setRouter"
      PROVE  \A c, x \in Domains : Step("setRouter", c, "governance", x) \in applied' =>
                 Step("setRouter", c, "governance", x) \in applied
  BY <1>1, <1>2, <1>3
<1>4. ASSUME s.call # "transferGovernorship"
      PROVE  \A c \in Domains : TransferGovernorship(c) \in applied' => TransferGovernorship(c) \in applied
  BY <1>1, <1>2, <1>4
<1>5. applied \subseteq applied' /\ s \notin applied
  BY <1>0, <1>1
\* A transfer that comes now has its prerequisites behind it.
<1>6. ASSUME NEW d \in Domains \ {FirstGovernor}, s = TransferGovernorship(d)
      PROVE  Create(d, "governance") \in applied
  <2>0. Create(d, "governance") \in Prerequisites(d)
    BY DEF Prerequisites
  <2>1. Head(script) = script[1] /\ 1 \in DOMAIN script /\ Orderly(script[1])
    BY <1>0 DEF OrderlyScript
  <2>2. s \in BlockSteps(script[1])
    BY <1>1, <2>1, RestIs
  <2>3. \A x \in Prerequisites(d) : x \in applied \/ \E j \in 1..(1-1) : x \in BlockSteps(script[j])
    BY <1>0, <1>6, <2>1, <2>2 DEF TransfersFollow
  <2>4. QED
    BY <2>0, <2>3
<1>7. ASSUME NEW d \in Domains, s = Create(d, "governance"), CreateRouter(d)
      PROVE  Handed'
  <2>1. s.call # "setRouter" /\ s.call # "transferGovernorship"
    BY <1>2, <1>7
  <2>2. /\ UNCHANGED <<routers, domains>>
        /\ \A c \in Domains : c # d => governor'[c] = governor[c] /\ governorDomain'[c] = governorDomain[c]
    BY <1>0, <1>7 DEF CreateRouter, RouterTypes
  <2>3. ListsMatchRouters'
    BY <1>0, <2>2 DEF ListsMatchRouters, MustHaveRouter
  <2>4. \A c \in Domains \ {FirstGovernor} : TransferGovernorship(c) \in applied => c # d
    BY <1>0, <1>5, <1>7 DEF Resigned
  <2>5. QED
    BY <1>3, <1>4, <1>5, <2>1, <2>2, <2>3, <2>4, HandedKept
<1>8. ASSUME NEW d \in Domains, NEW e \in Domains, s = Step("setRouter", d, "governance", e),
             SetRouter(d, e, e)
      PROVE  Handed'
  <2>1. s.call # "transferGovernorship" /\ s.on = d /\ s.arg = e
    BY <1>2, <1>8
  <2>2. _setRouter(d, e, e) /\ UNCHANGED <<governor, governorDomain>>
    BY <1>8 DEF SetRouter, seat
  <2>3. /\ routers'[d][e] = e
        /\ \A c, x \in Domains : ~(c = d /\ x = e) => routers'[c][x] = routers[c][x]
    BY <1>0, <2>2, SetRouterTyped
  <2>4. ListsMatchRouters'
    BY <1>0, <2>2, EnrollKeepsLists
  <2>5. \A c, x \in Domains : Step("setRouter", c, "governance", x) \in applied' =>
            Step("setRouter", c, "governance", x) \in applied \/ routers'[c][x] = x
    BY <1>1, <1>2, <2>1, <2>3
  <2>6. \A c, x \in Domains : routers[c][x] = x => routers'[c][x] = x
    BY <2>3
  <2>7. QED
    BY <1>4, <1>5, <2>1, <2>2, <2>4, <2>5, <2>6, HandedKept
<1>9. ASSUME s.call = "appointGovernor", Appoint
      PROVE  Handed'
  <2>1. s.call # "setRouter" /\ s.call # "transferGovernorship"
    BY <1>9
  <2>2. /\ UNCHANGED <<routers, domains>>
        /\ \A c \in Domains : c # FirstGovernor =>
              governor'[c] = governor[c] /\ governorDomain'[c] = governorDomain[c]
    <3>1. CASE appointed = NoConfig
      BY <1>9, <3>1 DEF Appoint, router
    <3>2. CASE appointed # NoConfig
      <4>1. TransferGovernor(FirstGovernor, appointed.domain, appointed.address)
        BY <1>9, <3>2 DEF Appoint
      <4>2. QED
        BY <1>0, <4>1 DEF TransferGovernor, _transferGovernor, lists, RouterTypes
    <3>3. QED
      BY <3>1, <3>2
  <2>3. ListsMatchRouters'
    BY <1>0, <2>2 DEF ListsMatchRouters, MustHaveRouter
  <2>4. QED
    BY <1>3, <1>4, <1>5, <2>1, <2>2, <2>3, HandedKept
<1>10. ASSUME NEW d \in Domains \ {FirstGovernor}, s = TransferGovernorship(d),
              TransferGovernor(d, FirstGovernor, governor[FirstGovernor])
       PROVE  Handed'
  <2>1. s.call # "setRouter" /\ s.on = d
    BY <1>2, <1>10
  <2>2. /\ UNCHANGED <<routers, domains>>
        /\ governorDomain'[d] = FirstGovernor /\ governor'[d] = Nobody
        /\ \A c \in Domains : c # d => governor'[c] = governor[c] /\ governorDomain'[c] = governorDomain[c]
    BY <1>0, <1>10 DEF TransferGovernor, _transferGovernor, NewGovernor, lists, RouterTypes
  <2>3. ListsMatchRouters'
    BY <1>0, <2>2 DEF ListsMatchRouters, MustHaveRouter
  <2>4. \A c \in Domains : c # d => (TransferGovernorship(c) \in applied' => TransferGovernorship(c) \in applied)
    BY <1>1, <1>2, <2>1
  <2>5. Create(d, "governance") \in applied
    BY <1>6, <1>10
  <2>6. QED
    BY <1>3, <1>5, <2>1, <2>2, <2>3, <2>4, <2>5, HandedKept
<1>11. ASSUME UNCHANGED router, s.call # "setRouter", s.call # "transferGovernorship"
       PROVE  Handed'
  <2>1. ListsMatchRouters'
    BY <1>0, <1>11 DEF ListsMatchRouters, MustHaveRouter, router
  <2>2. QED
    BY <1>3, <1>4, <1>5, <1>11, <2>1, HandedKept DEF router
<1>12. QED
  BY <1>1, <1>7, <1>8, <1>9, <1>10, <1>11, ScriptedExecute

\* A message enrolls, or changes no router: no transfer is accepted.
LEMMA DeliverHanded ==
    ASSUME CommandInv, Handed, NEW m \in inflight, Process(m), UNCHANGED applied
    PROVE  Handed'
<1>0. RouterTypes /\ Commanded /\ ListsMatchRouters
  BY DEF CommandInv, DeployInv, Handed
<1>1. Letter(m)
  BY <1>0 DEF RouterTypes
<1>2. CASE HandleTransferGovernor(m)
  <2>1. m.from # FirstGovernor /\ governorDomain[m.to] = m.from
    BY <1>0, <1>2 DEF HandleTransferGovernor, Accepts, IsGovernorRouter, Commanded, NoTransferFromFirst
  <2>2. governorDomain[m.to] \in {m.to, FirstGovernor} /\ m.to # m.from
    BY <1>0, <1>1 DEF Letter, Commanded, Obeys
  <2>3. QED
    BY <2>1, <2>2
<1>3. CASE HandleSetRouter(m)
  <2> DEFINE d == m.to
             e == m.body.domain
  <2>1. d \in Domains /\ e \in Domains /\ _setRouter(d, e, e) /\ UNCHANGED <<governor, governorDomain>>
    BY <1>1, <1>3 DEF HandleSetRouter, Letter, seat
  <2> HIDE DEF d, e
  <2>2. ListsMatchRouters'
    BY ONLY <1>0, <2>1, EnrollKeepsLists
  <2>3. \A c, x \in Domains : routers[c][x] = x => routers'[c][x] = x
    BY <1>0, <2>1 DEF _setRouter, RouterTypes
  <2>4. QED
    BY <2>1, <2>2, <2>3, HandedKept DEF Handed, Resigned
<1>4. CASE Refuse(m)
  <2>1. UNCHANGED <<governor, governorDomain, routers, domains>>
    BY <1>4 DEF Refuse, seat, lists
  <2>2. ListsMatchRouters'
    BY <1>0, <2>1 DEF ListsMatchRouters, MustHaveRouter
  <2>3. QED
    BY <2>1, <2>2, HandedKept DEF Handed, Resigned
<1>5. QED
  BY <1>2, <1>3, <1>4 DEF Process

\* Every step keeps it.
LEMMA NextHanded ==
    ASSUME AppointedAtHome, CommandInv, Handed, [DeployNext]_deployVars
    PROVE  Handed'
<1>1. ASSUME script # <<>>, NEW t \in Head(script), Run(t)
      PROVE  Handed'
  BY <1>1, RunHanded
<1>2. ASSUME Deliver
      PROVE  Handed'
  <2>1. PICK m \in inflight : Process(m)
    BY <1>2 DEF Deliver
  <2>2. UNCHANGED applied
    BY <1>2 DEF Deliver
  <2>3. QED
    BY <2>1, <2>2, DeliverHanded
<1>3. ASSUME UNCHANGED <<router, applied>>
      PROVE  Handed'
  BY <1>3 DEF Handed, Introduced, Resigned, ListsMatchRouters, MustHaveRouter, router,
              TransferGovernorship, Create, Step
<1>4. ASSUME ~RunSome, ~Deliver
      PROVE  Handed'
  BY <1>3, <1>4 DEF DeployNext, RevertUnseen, Throw, Kill, DeployBridges, deployVars
<1>5. QED
  BY <1>1, <1>2, <1>4 DEF RunSome

\* What a script that ends without an error has done, whichever of the two it is
LEMMA CoreIsApplied ==
    ASSUME ScriptInv, Finished, NEW s \in Steps(CoreScript), s.call # "setHome"
    PROVE  s \in applied
<1>1. CoreDone
  BY CoreEnds DEF Finished, ScriptInv
<1>2. \A d \in Domains : SetHome(d, "updaterManager").call = "setHome"
  BY DEF SetHome, Step
<1>3. QED
  BY <1>1, <1>2 DEF CoreDone

\* The first script creates every router, introduces it to every other and hands
\* over every seat but the first.
LEMMA CoreHasAll ==
    ASSUME NEW d \in Domains
    PROVE  /\ Create(d, "governance") \in Steps(CoreScript)
           /\ \A e \in Domains : e # d => Step("setRouter", d, "governance", e) \in Steps(CoreScript)
           /\ d # FirstGovernor => TransferGovernorship(d) \in Steps(CoreScript)
<1>0. /\ 1 \in DOMAIN CoreScript /\ 2 \in DOMAIN CoreScript /\ 4 \in DOMAIN CoreScript
      /\ CoreScript[1] = FirstBlock /\ CoreScript[2] = SecondBlock /\ CoreScript[4] = FourthBlock
  BY CoreScriptIs
<1>1. Create(d, "governance") \in BlockSteps(FirstBlock)
  <2>1. Create(d, "governance") \in ToSet(DeployOptics(d))
    BY DeployOpticsIs
  <2>2. QED
    BY <2>1, FirstBlockIs
<1>2. ASSUME NEW e \in Domains, e # d
      PROVE  Step("setRouter", d, "governance", e) \in BlockSteps(SecondBlock)
  <2>1. Step("setRouter", d, "governance", e) \in ToSet(EnrollRemote(d, e))
    BY EnrollRemoteIs
  <2>2. Step("setRouter", d, "governance", e) \in ToSet(EnrollAll(d))
    BY <1>2, <2>1, EnrollAllIs
  <2>3. QED
    BY <2>2, SecondBlockIs
<1>3. ASSUME d # FirstGovernor
      PROVE  TransferGovernorship(d) \in BlockSteps(FourthBlock)
  BY <1>3, FourthBlockIs
<1>4. QED
  BY <1>0, <1>1, <1>2, <1>3, StepsAre

\* What has ended without an error has handed over.
LEMMA FinishedHasHandedOver ==
    ASSUME CommandInv, Handed, Finished
    PROVE  HandedOver(FirstGovernor)
<1>0. /\ ScriptInv /\ RouterTypes /\ Obeys /\ Enrollments
      /\ Introduced /\ Resigned /\ ListsMatchRouters /\ FirstGovernor \in Domains
  BY OrderIs DEF CommandInv, DeployInv, Commanded, Handed
<1>1. \A d, e \in Domains : /\ Create(d, "governance").call # "setHome"
                            /\ Step("setRouter", d, "governance", e).call # "setHome"
                            /\ TransferGovernorship(d).call # "setHome"
  BY DEF Create, TransferGovernorship, Step
<1>2. \A d \in Domains : Create(d, "governance") \in applied
  BY <1>0, <1>1, CoreHasAll, CoreIsApplied
<1>3. \A d, e \in Domains : e # d => Step("setRouter", d, "governance", e) \in applied
  BY <1>0, <1>1, CoreHasAll, CoreIsApplied
<1>4. \A d \in Domains : d # FirstGovernor => TransferGovernorship(d) \in applied
  BY <1>0, <1>1, CoreHasAll, CoreIsApplied
<1>5. \A d \in Domains : governorDomain[d] = FirstGovernor /\ (governor[d] # Nobody <=> d = FirstGovernor)
  BY <1>0, <1>2, <1>4 DEF Resigned, Obeys
<1>6. \A d, e \in Domains : routers[d][e] = e \/ (d = e /\ ~MustHaveRouter(d, e))
  BY <1>0, <1>3 DEF Introduced, Enrollments, MustHaveRouter
<1>7. QED
  BY <1>0, <1>5, <1>6 DEF HandedOver

\* A first script that ends without an error leaves every router in the state
\* module GovernanceRouter starts from, whatever messages of the deployment are
\* still under way, if the governor is configured on the first chain or not at
\* all (deployNChains and checkCoreDeploy, core/index.ts and core/checks.ts).
THEOREM DeploymentHandsOver == AppointedAtHome => (DeploySpec => []HandsOver)
<1> SUFFICES ASSUME AppointedAtHome PROVE DeploySpec => []HandsOver
  OBVIOUS
<1> DEFINE I == CommandInv /\ Handed
<1>1. DeployInit => I
  BY InitCommand, InitHanded
<1>2. I /\ [DeployNext]_deployVars => I'
  BY NextCommand, NextHanded
<1>3. I => HandsOver
  BY FinishedHasHandedOver DEF HandsOver
<1>4. QED
  BY <1>1, <1>2, <1>3, PTL DEF DeploySpec

=============================================================================
