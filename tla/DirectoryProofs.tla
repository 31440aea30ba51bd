--------------------------- MODULE DirectoryProofs ---------------------------
(***************************************************************************)
(* Proofs about the directory, for any number of accounts, shops, barbers, *)
(* services and concurrent handlers: what the tables promise each other,   *)
(* although the rules span tables and no constraint states them.           *)
(***************************************************************************)
EXTENDS Directory, TLAPS

(* What a handler has loaded still holds when it commits: rows are never   *)
(* deleted, no row changes its shop, and nobody becomes a customer.        *)
Loaded ==
  \A r \in Requests :
    /\ req[r].op = "join" =>
         /\ req[r].shop \in DOMAIN shops
         /\ IF req[r].promote THEN roles[req[r].account] \in {"CUSTOMER", "BARBER"}
                              ELSE roles[req[r].account] # "CUSTOMER"
    /\ req[r].op \in {"resolve", "assign"} => req[r].barber \in DOMAIN barbers
    /\ req[r].op = "assign" => \A v \in req[r].want :
         v \in DOMAIN services /\ services[v].shop = barbers[req[r].barber].shop

(* The rule ShownIsBookable rests on.                                      *)
OwnShop ==
  \A b \in DOMAIN barbers, v \in DOMAIN services :
    <<b, v>> \in assigned => services[v].shop = barbers[b].shop

(* What a handler knows of the list it is about to change, although others *)
(* commit between its reads and its own commit: of the services it loaded, *)
(* those that every replacement since kept are still on the list, and all  *)
(* that is on the list was loaded or asked for by one of them.             *)
KnownList(q) ==
  q.op \in {"resolve", "assign"} =>
    \A v \in Services :
      /\ v \in q.had /\ (\A want \in q.beside : v \in want) => <<q.barber, v>> \in assigned
      /\ <<q.barber, v>> \in assigned => v \in q.had \/ \E want \in q.beside : v \in want

ListsKnown == \A r \in Requests : KnownList(req[r])

IInv == TypeOK /\ Loaded /\ OwnShop /\ RolesFollowProfiles /\ ListsKnown

(* The value a handler may take.                                           *)
LEMMA Requested ==
  ASSUME NEW q \in Req
  PROVE  /\ q.op \in {"idle", "join", "resolve", "assign"}
         /\ q.op = "join" =>
              q.account \in Users /\ q.shop \in Shops /\ q.promote \in BOOLEAN
         /\ q.op \in {"resolve", "assign"} =>
              /\ q.barber \in Barbers /\ q.had \subseteq Services /\ q.want \subseteq Services
              /\ q.beside \subseteq SUBSET Services
BY DEF Req

LEMMA Beginning == ASSUME Init PROVE IInv
<1>1. DOMAIN shops = {} /\ DOMAIN barbers = {} /\ DOMAIN services = {}
  BY DEF Init
<1>2. TypeOK
  BY <1>1, DirectoryAssumption DEF Init, TypeOK, Req, Idle
<1>3. Loaded /\ OwnShop /\ ListsKnown
  BY <1>1 DEF Init, Loaded, OwnShop, ListsKnown, KnownList, Idle
<1>4. RolesFollowProfiles
  BY <1>1, DirectoryAssumption DEF Init, RolesFollowProfiles
<1> QED BY <1>2, <1>3, <1>4 DEF IInv

-----------------------------------------------------------------------------
(* A handler that takes a request writes nothing.                          *)
LEMMA LoadStep ==
  ASSUME IInv, NEW r \in Requests, NEW q \in Req, Load(r, q),
         q.op = "join" =>
           /\ q.shop \in DOMAIN shops
           /\ IF q.promote THEN roles[q.account] \in {"CUSTOMER", "BARBER"}
                           ELSE roles[q.account] # "CUSTOMER",
         q.op \in {"resolve", "assign"} => q.barber \in DOMAIN barbers,
         q.op # "assign", KnownList(q)
  PROVE  IInv'
<1> USE DEF IInv, Load
<1>1. TypeOK'
  BY DEF TypeOK
<1>2. Loaded'
  BY DEF TypeOK, Loaded
<1>3. OwnShop' /\ RolesFollowProfiles'
  BY DEF OwnShop, RolesFollowProfiles
<1>4. ListsKnown'
  <2> SUFFICES ASSUME NEW x \in Requests PROVE KnownList(req[x])'
    BY DEF ListsKnown
  <2>1. req'[x] = req[x] \/ req'[x] = q
    BY DEF TypeOK
  <2> QED BY <2>1 DEF ListsKnown, KnownList
<1> QED BY <1>1, <1>2, <1>3, <1>4

(* A step that leaves the assignments alone, and every handler as it was,  *)
(* done, or further on with the same list, keeps what they know of it.     *)
LEMMA StillKnown ==
  ASSUME ListsKnown, UNCHANGED assigned,
         \A x \in Requests :
           \/ req'[x] = req[x]
           \/ req'[x].op \in {"idle", "join"}
           \/ req[x].op = "resolve" /\ req'[x].had = req[x].had
                /\ req'[x].barber = req[x].barber /\ req'[x].beside = req[x].beside
  PROVE  ListsKnown'
<1> SUFFICES ASSUME NEW x \in Requests PROVE KnownList(req[x])'
  BY DEF ListsKnown
<1>1. KnownList(req[x])
  BY DEF ListsKnown
<1>2. CASE req'[x] = req[x]
  BY <1>1, <1>2 DEF KnownList
<1>3. CASE req'[x].op \in {"idle", "join"}
  BY <1>3 DEF KnownList
<1>4. CASE req[x].op = "resolve" /\ req'[x].had = req[x].had
             /\ req'[x].barber = req[x].barber /\ req'[x].beside = req[x].beside
  BY <1>1, <1>4 DEF KnownList
<1> QED BY <1>2, <1>3, <1>4

LEMMA CreateShopStep ==
  ASSUME IInv, NEW r \in Requests, NEW u \in Users, CreateShop(r, u)
  PROVE  IInv'
<1>1. PICK s \in Shops \ DOMAIN shops :
        shops' = Put(shops, s, [owner |-> u, active |-> TRUE])
  BY DEF CreateShop
<1>2. /\ DOMAIN shops' = DOMAIN shops \cup {s}
      /\ shops'[s] = [owner |-> u, active |-> TRUE]
      /\ \A x \in DOMAIN shops : shops'[x] = shops[x]
  BY <1>1 DEF Put
<1>3. roles[u] \in {"SHOP_OWNER", "ADMIN"} /\ UNCHANGED <<roles, barbers, services, assigned, req>>
  BY DEF CreateShop
<1>4. TypeOK'
  <2>1. shops'[s] \in Shop
    BY <1>2 DEF Shop
  <2>2. \A x \in DOMAIN shops' : shops'[x] \in Shop
    BY <1>2, <2>1 DEF IInv, TypeOK
  <2> QED BY <1>2, <1>3, <2>2 DEF IInv, TypeOK
<1>5. Loaded' /\ OwnShop'
  BY <1>2, <1>3 DEF IInv, Loaded, OwnShop
<1>6. RolesFollowProfiles'
  <2>1. shops'[s].owner = u
    BY <1>2
  <2> QED BY <1>2, <1>3, <2>1 DEF IInv, RolesFollowProfiles
<1>7. ListsKnown'
  BY <1>3, StillKnown DEF IInv
<1> QED BY <1>4, <1>5, <1>6, <1>7 DEF IInv

LEMMA SetShopActiveStep ==
  ASSUME IInv, NEW r \in Requests, NEW u \in Users, NEW s \in Shops,
         NEW active \in BOOLEAN, SetShopActive(r, u, s, active)
  PROVE  IInv'
<1>1. /\ DOMAIN shops' = DOMAIN shops
      /\ \A x \in DOMAIN shops : shops'[x] \in Shop /\ shops'[x].owner = shops[x].owner
  BY DEF SetShopActive, IInv, TypeOK, Shop
<1> USE DEF IInv, SetShopActive
<1>2. TypeOK'
  BY <1>1 DEF TypeOK
<1>3. Loaded' /\ OwnShop'
  BY <1>1 DEF Loaded, OwnShop
<1>4. RolesFollowProfiles'
  BY <1>1 DEF RolesFollowProfiles
<1>5. ListsKnown'
  BY StillKnown
<1> QED BY <1>2, <1>3, <1>4, <1>5

(* The one step that changes a role.                                       *)
LEMMA JoinStep ==
  ASSUME IInv, NEW r \in Requests, CommitJoin(r)
  PROVE  IInv'
<1>1. /\ req[r].op = "join" /\ req[r].account \in Users
      /\ req[r].shop \in DOMAIN shops /\ req[r].promote \in BOOLEAN
      /\ IF req[r].promote THEN roles[req[r].account] \in {"CUSTOMER", "BARBER"}
                           ELSE roles[req[r].account] # "CUSTOMER"
  BY Requested DEF IInv, TypeOK, Loaded, CommitJoin
<1>2. req' \in [Requests -> Req] /\ \A x \in Requests : req'[x] = req[x] \/ req'[x].op = "idle"
  BY DEF IInv, TypeOK, CommitJoin, Done, Idle, Req
<1>3. UNCHANGED <<shops, services, assigned>>
  BY DEF CommitJoin
<1>6. ListsKnown'
  BY <1>2, <1>3, StillKnown DEF IInv
<1>4. CASE UNCHANGED <<roles, barbers>>
  <2>1. TypeOK'
    BY <1>2, <1>3, <1>4 DEF IInv, TypeOK
  <2>2. Loaded'
    BY <1>2, <1>3, <1>4 DEF IInv, Loaded
  <2>3. OwnShop' /\ RolesFollowProfiles'
    BY <1>3, <1>4 DEF IInv, OwnShop, RolesFollowProfiles
  <2> QED BY <1>6, <2>1, <2>2, <2>3 DEF IInv
<1>5. CASE \E b \in Barbers \ DOMAIN barbers :
             /\ barbers' = Put(barbers, b, [user |-> req[r].account,
                                            shop |-> req[r].shop, active |-> TRUE])
             /\ roles' = PromotedBy(r)
  <2>1. PICK b \in Barbers \ DOMAIN barbers :
             /\ barbers' = Put(barbers, b, [user |-> req[r].account,
                                            shop |-> req[r].shop, active |-> TRUE])
             /\ roles' = PromotedBy(r)
    BY <1>5
  <2>2. /\ DOMAIN barbers' = DOMAIN barbers \cup {b}
        /\ barbers'[b] = [user |-> req[r].account, shop |-> req[r].shop, active |-> TRUE]
        /\ \A x \in DOMAIN barbers : barbers'[x] = barbers[x]
    BY <2>1 DEF Put
  <2>3. /\ roles' \in [Users -> {"CUSTOMER", "SHOP_OWNER", "BARBER", "ADMIN"}]
        /\ roles'[req[r].account] # "CUSTOMER"
        /\ \A u \in Users :
             \/ roles'[u] = roles[u]
             \/ /\ u = req[r].account
                /\ roles[u] \in {"CUSTOMER", "BARBER"} /\ roles'[u] = "BARBER"
    <3>1. roles \in [Users -> {"CUSTOMER", "SHOP_OWNER", "BARBER", "ADMIN"}]
      BY DEF IInv, TypeOK
    <3> DEFINE a == req[r].account
    <3>2. \/ roles' = [roles EXCEPT ![a] = "BARBER"] /\ roles[a] \in {"CUSTOMER", "BARBER"}
          \/ roles' = roles /\ roles[a] # "CUSTOMER"
      BY <1>1, <2>1 DEF PromotedBy
    <3>3. a \in Users
      BY <1>1
    <3> HIDE DEF a
    <3>4. /\ roles' \in [Users -> {"CUSTOMER", "SHOP_OWNER", "BARBER", "ADMIN"}]
          /\ roles'[a] # "CUSTOMER"
      BY <3>1, <3>2, <3>3
    <3>5. \A u \in Users :
            \/ roles'[u] = roles[u]
            \/ u = a /\ roles[u] \in {"CUSTOMER", "BARBER"} /\ roles'[u] = "BARBER"
      <4>1. CASE roles' = roles
        BY <4>1
      <4>2. CASE roles' = [roles EXCEPT ![a] = "BARBER"] /\ roles[a] \in {"CUSTOMER", "BARBER"}
        <5>1. \A u \in Users \ {a} : roles'[u] = roles[u]
          BY <3>1, <4>2
        <5>2. roles'[a] = "BARBER"
          BY <3>1, <3>3, <4>2
        <5> QED BY <4>2, <5>1, <5>2
      <4> QED BY <3>2, <4>1, <4>2
    <3> QED BY <3>4, <3>5 DEF a
  <2>4. TypeOK'
    <3>1. \A x \in DOMAIN barbers' :
            barbers'[x] \in Barber /\ barbers'[x].shop \in DOMAIN shops'
      <4>1. req[r].shop \in Shops
        BY <1>1 DEF IInv, TypeOK
      <4>2. barbers'[b] \in Barber /\ barbers'[b].shop \in DOMAIN shops'
        BY <1>1, <1>3, <2>2, <4>1 DEF Barber
      <4> QED BY <1>3, <2>2, <4>2 DEF IInv, TypeOK
    <3>2. DOMAIN barbers' \subseteq Barbers
      BY <2>2 DEF IInv, TypeOK
    <3> QED BY <1>2, <1>3, <2>2, <2>3, <3>1, <3>2 DEF IInv, TypeOK
  <2>5. Loaded'
    <3> SUFFICES ASSUME NEW x \in Requests, req'[x] = req[x], req[x].op # "idle"
                 PROVE  /\ req[x].op = "join" =>
                             /\ req[x].shop \in DOMAIN shops
                             /\ IF req[x].promote
                                THEN roles'[req[x].account] \in {"CUSTOMER", "BARBER"}
                                ELSE roles'[req[x].account] # "CUSTOMER"
                        /\ req[x].op \in {"resolve", "assign"} => req[x].barber \in DOMAIN barbers'
                        /\ req[x].op = "assign" => \A v \in req[x].want :
                             v \in DOMAIN services
                               /\ services[v].shop = barbers'[req[x].barber].shop
      BY <1>2, <1>3 DEF Loaded
    <3>1. req[x] \in Req
      BY DEF IInv, TypeOK
    <3> QED BY <2>2, <2>3, <3>1, Requested DEF IInv, Loaded
  <2>6. OwnShop'
    <3>1. \A v : <<b, v>> \notin assigned
      BY DEF IInv, TypeOK
    <3> QED BY <1>3, <2>2, <3>1 DEF IInv, OwnShop
  <2>7. RolesFollowProfiles'
    <3>1. \A x \in DOMAIN barbers' : roles'[barbers'[x].user] # "CUSTOMER"
      BY <2>2, <2>3 DEF IInv, TypeOK, Barber, RolesFollowProfiles
    <3>2. ASSUME NEW u \in Users, roles'[u] = "BARBER"
          PROVE  \E x \in DOMAIN barbers' : barbers'[x].user = u
      BY <2>2, <2>3, <3>2 DEF IInv, RolesFollowProfiles
    <3>3. \A s \in DOMAIN shops' : roles'[shops'[s].owner] \in {"SHOP_OWNER", "ADMIN"}
      BY <1>3, <2>3 DEF IInv, TypeOK, Shop, RolesFollowProfiles
    <3> QED BY <3>1, <3>2, <3>3 DEF RolesFollowProfiles
  <2> QED BY <1>6, <2>4, <2>5, <2>6, <2>7 DEF IInv
<1> QED BY <1>4, <1>5 DEF CommitJoin

LEMMA SetBarberActiveStep ==
  ASSUME IInv, NEW r \in Requests, NEW u \in Users, NEW b \in Barbers,
         NEW active \in BOOLEAN, SetBarberActive(r, u, b, active)
  PROVE  IInv'
<1>1. /\ DOMAIN barbers' = DOMAIN barbers
      /\ \A x \in DOMAIN barbers : /\ barbers'[x] \in Barber
                                   /\ barbers'[x].user = barbers[x].user
                                   /\ barbers'[x].shop = barbers[x].shop
  BY DEF SetBarberActive, IInv, TypeOK, Barber
<1> USE DEF IInv, SetBarberActive
<1>2. TypeOK'
  BY <1>1 DEF TypeOK
<1>3. Loaded'
  BY <1>1 DEF Loaded
<1>4. OwnShop' /\ RolesFollowProfiles'
  BY <1>1 DEF OwnShop, RolesFollowProfiles
<1>5. ListsKnown'
  BY StillKnown
<1> QED BY <1>2, <1>3, <1>4, <1>5

-----------------------------------------------------------------------------
(* The catalogue *)

LEMMA CreateServiceStep ==
  ASSUME IInv, NEW r \in Requests, NEW u \in Users, NEW s \in Shops, NEW n \in Names,
         CreateService(r, u, s, n)
  PROVE  IInv'
<1>1. PICK v \in Services \ DOMAIN services :
        services' = Put(services, v, [shop |-> s, name |-> n, active |-> TRUE])
  BY DEF CreateService
<1>2. /\ DOMAIN services' = DOMAIN services \cup {v}
      /\ services'[v] = [shop |-> s, name |-> n, active |-> TRUE]
      /\ \A x \in DOMAIN services : services'[x] = services[x]
  BY <1>1 DEF Put
<1>3. s \in DOMAIN shops /\ UNCHANGED <<roles, shops, barbers, assigned, req>>
  BY DEF CreateService
<1>4. TypeOK'
  <2>1. \A x \in DOMAIN services' :
          services'[x] \in Service /\ services'[x].shop \in DOMAIN shops'
    <3>1. services'[v] \in Service /\ services'[v].shop \in DOMAIN shops'
      BY <1>2, <1>3 DEF Service
    <3> QED BY <1>2, <1>3, <3>1 DEF IInv, TypeOK
  <2> QED BY <1>2, <1>3, <2>1 DEF IInv, TypeOK
<1>5. Loaded'
  BY <1>2, <1>3 DEF IInv, Loaded
<1>6. OwnShop'
  <2>1. \A b : <<b, v>> \notin assigned
    BY DEF IInv, TypeOK
  <2> QED BY <1>2, <1>3, <2>1 DEF IInv, OwnShop
<1>7. RolesFollowProfiles'
  BY <1>3 DEF IInv, RolesFollowProfiles
<1>8. ListsKnown'
  BY <1>3, StillKnown DEF IInv
<1> QED BY <1>4, <1>5, <1>6, <1>7, <1>8 DEF IInv

LEMMA UpdateServiceStep ==
  ASSUME IInv, NEW r \in Requests, NEW u \in Users, NEW v \in Services, NEW n \in Names,
         NEW active \in BOOLEAN, UpdateService(r, u, v, n, active)
  PROVE  IInv'
<1>1. /\ DOMAIN services' = DOMAIN services
      /\ \A x \in DOMAIN services : services'[x] \in Service
                                      /\ services'[x].shop = services[x].shop
  BY DEF UpdateService, IInv, TypeOK, Service
<1> USE DEF IInv, UpdateService
<1>2. TypeOK'
  BY <1>1 DEF TypeOK
<1>3. Loaded' /\ OwnShop'
  BY <1>1 DEF Loaded, OwnShop
<1>4. RolesFollowProfiles'
  BY DEF RolesFollowProfiles
<1>5. ListsKnown'
  BY StillKnown
<1> QED BY <1>2, <1>3, <1>4, <1>5

(* What _resolve_services finds is what Loaded keeps until the commit.     *)
LEMMA ResolveStep ==
  ASSUME IInv, NEW r \in Requests, Resolve(r)
  PROVE  IInv'
<1>1. req[r] \in Req /\ req[r].op = "resolve" /\ req[r].barber \in DOMAIN barbers
  BY DEF IInv, TypeOK, Loaded, Resolve
<1>2. /\ req' \in [Requests -> Req]
      /\ \A x \in Requests : \/ req'[x] = req[x]
                             \/ req'[x].op = "idle"
                             \/ /\ req[x].op = "resolve" /\ req'[x].op = "assign"
                                /\ req'[x].barber = req[x].barber
                                /\ req'[x].had = req[x].had
                                /\ req'[x].beside = req[x].beside
                                /\ req'[x].barber \in DOMAIN barbers
                                /\ \A v \in req'[x].want : Assignable(req'[x].barber, v)
  BY <1>1 DEF IInv, TypeOK, Resolve, Req, Idle
<1>3. UNCHANGED <<roles, shops, barbers, services, assigned>>
  BY DEF Resolve
<1>4. TypeOK'
  BY <1>2, <1>3 DEF IInv, TypeOK
<1>5. Loaded'
  BY <1>2, <1>3 DEF IInv, Loaded, Assignable
<1>6. OwnShop' /\ RolesFollowProfiles'
  BY <1>3 DEF IInv, OwnShop, RolesFollowProfiles
<1>7. ListsKnown'
  BY <1>2, <1>3, StillKnown DEF IInv
<1> QED BY <1>4, <1>5, <1>6, <1>7 DEF IInv

(* What a commit does to the other handlers: those with the same list note *)
(* it, and nothing else.                                                   *)
LEMMA Noted ==
  ASSUME IInv, NEW r \in Requests, CommitAssignment(r) \/ FailAssignment(r)
  PROVE  /\ req' \in [Requests -> Req]
         /\ \A x \in Requests :
              \/ req'[x] = req[x]
              \/ req'[x].op = "idle"
              \/ /\ CommitAssignment(r) /\ HasListOf(x, req[r].barber)
                 /\ req'[x].op = req[x].op /\ req'[x].barber = req[x].barber
                 /\ req'[x].had = req[x].had /\ req'[x].want = req[x].want
                 /\ req'[x].beside = req[x].beside \cup {req[r].want}
         /\ CommitAssignment(r) =>
              \A x \in Requests : req'[x].op = "idle" \/ ~HasListOf(x, req[r].barber)
                                   \/ req'[x].beside = req[x].beside \cup {req[r].want}
<1>1. req \in [Requests -> Req]
  BY DEF IInv, TypeOK
<1>2. CASE FailAssignment(r) /\ ~CommitAssignment(r)
  BY <1>1, <1>2 DEF FailAssignment, Done, Idle, Req
<1>3. CASE CommitAssignment(r)
  <2>1. req[r].op = "assign" /\ req[r] \in Req /\ req[r].want \subseteq Services
    BY <1>1, <1>3, Requested DEF CommitAssignment
  <2> DEFINE after(x) == [req[x] EXCEPT !.beside = req[x].beside \cup {req[r].want}]
  <2>2. ASSUME NEW x \in Requests, HasListOf(x, req[r].barber)
        PROVE  /\ after(x) \in Req
               /\ after(x).op = req[x].op /\ after(x).barber = req[x].barber
               /\ after(x).had = req[x].had /\ after(x).want = req[x].want
               /\ after(x).beside = req[x].beside \cup {req[r].want}
    <3>1. req[x] \in [op : {"resolve", "assign"}, barber : Barbers,
                      had : SUBSET Services, want : SUBSET Services,
                      beside : SUBSET SUBSET Services]
      BY <1>1, <2>2 DEF HasListOf, Req
    <3> QED BY <2>1, <3>1 DEF Req
  <2>3. \A x \in Requests :
          req'[x] = IF x = r THEN Idle ELSE IF HasListOf(x, req[r].barber) THEN after(x) ELSE req[x]
    BY <1>3 DEF CommitAssignment
  <2>4. req' = [x \in Requests |->
                 IF x = r THEN Idle ELSE IF HasListOf(x, req[r].barber) THEN after(x) ELSE req[x]]
    BY <1>3 DEF CommitAssignment
  <2> HIDE DEF after
  <2>5. Idle \in Req /\ Idle.op = "idle"
    BY DEF Idle, Req
  <2> QED BY <1>1, <1>3, <2>2, <2>3, <2>4, <2>5
<1> QED BY <1>2, <1>3

(* A replacement by one handler, seen by the others in hand for the barber *)
(* and by those in hand for another, whose list it does not touch.         *)
LEMMA ReplacementKnown ==
  ASSUME IInv, NEW r \in Requests, CommitAssignment(r)
  PROVE  ListsKnown'
<1> SUFFICES ASSUME NEW x \in Requests, req'[x].op \in {"resolve", "assign"},
                    NEW v \in Services
             PROVE  /\ v \in req'[x].had /\ (\A want \in req'[x].beside : v \in want)
                          => <<req'[x].barber, v>> \in assigned'
                    /\ <<req'[x].barber, v>> \in assigned'
                          => v \in req'[x].had \/ \E want \in req'[x].beside : v \in want
  BY DEF ListsKnown, KnownList
<1>1. req'[x].op # "idle" /\ req[x].op = req'[x].op
       /\ req'[x].barber = req[x].barber /\ req'[x].had = req[x].had
  BY Noted
<1>2. /\ v \in req[x].had /\ (\A want \in req[x].beside : v \in want)
            => <<req[x].barber, v>> \in assigned
      /\ <<req[x].barber, v>> \in assigned
            => v \in req[x].had \/ \E want \in req[x].beside : v \in want
  BY <1>1 DEF IInv, ListsKnown, KnownList
<1>3. assigned' = Assignment(r)
  BY DEF CommitAssignment
<1>4. CASE req[x].barber = req[r].barber
  <2>1. req'[x].beside = req[x].beside \cup {req[r].want}
    BY <1>1, <1>4, Noted DEF HasListOf
  <2>2. <<req[x].barber, v>> \in assigned' =>
          <<req[x].barber, v>> \in assigned \/ v \in req[r].want
    BY <1>3, <1>4 DEF Assignment
  <2>3. <<req[x].barber, v>> \in assigned /\ v \in req[r].want =>
          <<req[x].barber, v>> \in assigned'
    BY <1>3, <1>4 DEF Assignment
  <2> QED BY <1>1, <1>2, <2>1, <2>2, <2>3
<1>5. CASE req[x].barber # req[r].barber
  <2>1. req'[x] = req[x]
    BY <1>1, <1>5, Noted DEF HasListOf
  <2>2. <<req[x].barber, v>> \in assigned' <=> <<req[x].barber, v>> \in assigned
    BY <1>3, <1>5 DEF Assignment
  <2> QED BY <1>2, <2>1, <2>2
<1> QED BY <1>4, <1>5

LEMMA AssignmentStep ==
  ASSUME IInv, NEW r \in Requests, CommitAssignment(r) \/ FailAssignment(r)
  PROVE  IInv'
<1>1. /\ req' \in [Requests -> Req]
      /\ \A x \in Requests :
           \/ req'[x].op = "idle"
           \/ req'[x] = req[x]
           \/ /\ req[x].op \in {"resolve", "assign"} /\ req'[x].op = req[x].op
              /\ req'[x].barber = req[x].barber /\ req'[x].want = req[x].want
  BY Noted DEF HasListOf
<1>2. UNCHANGED <<roles, shops, barbers, services>>
  BY DEF CommitAssignment, FailAssignment
<1>3. \A b, v : <<b, v>> \in assigned' =>
        \/ <<b, v>> \in assigned
        \/ /\ b \in DOMAIN barbers /\ v \in DOMAIN services
           /\ services[v].shop = barbers[b].shop
  <2>1. CASE assigned' = assigned
    BY <2>1
  <2>2. CASE CommitAssignment(r)
    <3>1. req[r].op = "assign" /\ assigned' = Assignment(r)
      BY <2>2 DEF CommitAssignment
    <3>2. req[r].barber \in DOMAIN barbers /\ \A v \in req[r].want :
            v \in DOMAIN services /\ services[v].shop = barbers[req[r].barber].shop
      BY <3>1 DEF IInv, Loaded
    <3> QED BY <3>1, <3>2 DEF Assignment
  <2> QED BY <2>1, <2>2 DEF FailAssignment
<1>4. assigned' \subseteq (DOMAIN barbers) \X (DOMAIN services)
  <2>1. CASE assigned' = assigned
    BY <2>1 DEF IInv, TypeOK
  <2>2. CASE CommitAssignment(r)
    <3>1. req[r].op = "assign" /\ assigned' = Assignment(r)
      BY <2>2 DEF CommitAssignment
    <3>2. req[r].barber \in DOMAIN barbers /\ \A v \in req[r].want : v \in DOMAIN services
      BY <3>1 DEF IInv, Loaded
    <3> QED BY <3>1, <3>2 DEF Assignment, IInv, TypeOK
  <2> QED BY <2>1, <2>2 DEF FailAssignment
<1>5. TypeOK'
  BY <1>1, <1>2, <1>4 DEF IInv, TypeOK
<1>6. Loaded'
  BY <1>1, <1>2 DEF IInv, Loaded
<1>7. OwnShop'
  BY <1>2, <1>3 DEF IInv, OwnShop
<1>8. RolesFollowProfiles'
  BY <1>2 DEF IInv, RolesFollowProfiles
<1>9. ListsKnown'
  <2>1. CASE CommitAssignment(r)
    BY <2>1, ReplacementKnown
  <2>2. CASE FailAssignment(r)
    <3>1. UNCHANGED assigned /\ \A x \in Requests : req'[x] = req[x] \/ req'[x].op = "idle"
      BY <2>2 DEF FailAssignment, Done, Idle, IInv, TypeOK
    <3> QED BY <3>1, StillKnown DEF IInv
  <2> QED BY <2>1, <2>2
<1> QED BY <1>5, <1>6, <1>7, <1>8, <1>9 DEF IInv

-----------------------------------------------------------------------------
LEMMA TakeStep ==
  ASSUME IInv, NEW r \in Requests, NEW u \in Users, Take(r, u)
  PROVE  IInv'
<1>1. CASE CreateShop(r, u)
  BY <1>1, CreateShopStep
<1>2. ASSUME NEW s \in Shops, NEW active \in BOOLEAN, SetShopActive(r, u, s, active)
      PROVE  IInv'
  BY <1>2, SetShopActiveStep
<1>3. ASSUME NEW s \in Shops, NEW a \in Users, LoadAccount(r, u, s, a)
      PROVE  IInv'
  <2> DEFINE q == [op |-> "join", account |-> a, shop |-> s, promote |-> roles[a] = "CUSTOMER"]
  <2>1. q \in Req
    BY DEF Req
  <2>2. Load(r, q) /\ s \in DOMAIN shops
    BY <1>3 DEF LoadAccount
  <2>3. KnownList(q)
    BY DEF KnownList
  <2> QED BY <2>1, <2>2, <2>3, LoadStep
<1>4. ASSUME NEW s \in Shops, NEW n \in Names, CreateService(r, u, s, n)
      PROVE  IInv'
  BY <1>4, CreateServiceStep
<1>5. ASSUME NEW b \in Barbers, NEW active \in BOOLEAN, SetBarberActive(r, u, b, active)
      PROVE  IInv'
  BY <1>5, SetBarberActiveStep
<1>6. ASSUME NEW b \in Barbers, DeactivateBarber(r, u, b)
      PROVE  IInv'
  BY <1>6, SetBarberActiveStep DEF DeactivateBarber
<1>7. ASSUME NEW b \in Barbers, NEW want \in SUBSET Services, LoadAssignment(r, u, b, want)
      PROVE  IInv'
  <2> DEFINE q == [op |-> "resolve", barber |-> b, had |-> AssignedTo(b),
                  want |-> want, beside |-> {}]
  <2>1. q \in Req
    BY DEF Req, AssignedTo
  <2>2. Load(r, q) /\ b \in DOMAIN barbers
    BY <1>7 DEF LoadAssignment
  <2>3. KnownList(q)
    BY DEF KnownList, AssignedTo
  <2> QED BY <2>1, <2>2, <2>3, LoadStep
<1>8. ASSUME NEW v \in Services, NEW n \in Names, NEW active \in BOOLEAN,
             UpdateService(r, u, v, n, active)
      PROVE  IInv'
  BY <1>8, UpdateServiceStep
<1> QED BY <1>1, <1>2, <1>3, <1>4, <1>5, <1>6, <1>7, <1>8 DEF Take

LEMMA Step == ASSUME IInv, [Next]_vars PROVE IInv'
<1>1. CASE UNCHANGED vars
  BY <1>1 DEF vars, IInv, TypeOK, Loaded, OwnShop, RolesFollowProfiles, ListsKnown, KnownList
<1>2. ASSUME NEW r \in Requests, NEW u \in Users, Take(r, u)
      PROVE  IInv'
  BY <1>2, TakeStep
<1>3. ASSUME NEW r \in Requests, CommitJoin(r)
      PROVE  IInv'
  BY <1>3, JoinStep
<1>4. ASSUME NEW r \in Requests, Resolve(r)
      PROVE  IInv'
  BY <1>4, ResolveStep
<1>5. ASSUME NEW r \in Requests, CommitAssignment(r) \/ FailAssignment(r)
      PROVE  IInv'
  BY <1>5, AssignmentStep
<1> QED BY <1>1, <1>2, <1>3, <1>4, <1>5 DEF Next

LEMMA Inductive == Spec => []IInv
BY Beginning, Step, PTL DEF Spec

(* Every table refers to rows that exist and every handler to rows it may  *)
(* have loaded.                                                            *)
THEOREM DirectoryTyped == Spec => []TypeOK
<1>1. IInv => TypeOK
  BY DEF IInv
<1> QED BY <1>1, Inductive, PTL

(* However the hiring of people at several shops interleaves, roles agree  *)
(* with profiles and with shops owned.                                     *)
THEOREM RolesAgree == Spec => []RolesFollowProfiles
<1>1. IInv => RolesFollowProfiles
  BY DEF IInv
<1> QED BY <1>1, Inductive, PTL

(* However assignments, catalogue changes and hirings interleave, whatever *)
(* the directory shows to a stranger is accepted by a booking.             *)
THEOREM ShownCanBeBooked == Spec => []ShownIsBookable
<1>1. IInv => ShownIsBookable
  BY DEF IInv, OwnShop, ShownIsBookable, Shown, BookingAccepts
<1> QED BY <1>1, Inductive, PTL

(* However the replacements of a list overlap, any number of them and any  *)
(* handlers: a commit leaves what all those since the list was loaded      *)
(* agree on, and nothing that none of them asked for.                      *)
THEOREM ReplacementsMix == Spec => ReplacedUpToOverlaps
<1>1. ASSUME IInv, NEW r \in Requests, CommitAssignment(r), NEW v \in Services
      PROVE  LET asked == req[r].beside \cup {req[r].want}
             IN  /\ (\A want \in asked : v \in want) => <<req[r].barber, v>> \in assigned'
                 /\ <<req[r].barber, v>> \in assigned' => \E want \in asked : v \in want
  <2>1. req[r].op = "assign" /\ assigned' = Assignment(r)
    BY <1>1 DEF CommitAssignment
  <2>2. /\ v \in req[r].had /\ (\A want \in req[r].beside : v \in want)
              => <<req[r].barber, v>> \in assigned
        /\ <<req[r].barber, v>> \in assigned
              => v \in req[r].had \/ \E want \in req[r].beside : v \in want
    BY <1>1, <2>1 DEF IInv, ListsKnown, KnownList
  <2>3. <<req[r].barber, v>> \in assigned' <=>
          \/ <<req[r].barber, v>> \in assigned /\ ~(v \in req[r].had /\ v \notin req[r].want)
          \/ v \in req[r].want /\ v \notin req[r].had
    BY <2>1 DEF Assignment
  <2> QED BY <2>2, <2>3
<1>2. IInv /\ [Next]_vars =>
        [\A r \in Requests : CommitAssignment(r) =>
           LET asked == req[r].beside \cup {req[r].want}
           IN \A v \in Services :
                /\ (\A want \in asked : v \in want) => <<req[r].barber, v>> \in assigned'
                /\ <<req[r].barber, v>> \in assigned' => \E want \in asked : v \in want]_vars
  BY <1>1
<1> QED BY <1>2, Inductive, PTL DEF Spec, ReplacedUpToOverlaps
=============================================================================
