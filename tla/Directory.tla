------------------------------ MODULE Directory ------------------------------
(***************************************************************************)
(* The directory of BarberHub: shops, the barbers who work in them, the    *)
(* services they sell and which barber performs which                      *)
(* (app/services/barbershop.py, barber_directory.py, service_catalog.py    *)
(* and permissions.py).  add_barber and set_services decide on what they   *)
(* loaded in an earlier step; the other operations only write the fields   *)
(* they are asked to, once the caller has been found to manage the shop,   *)
(* which nobody ceases to do: they are one step.  Left out are requests    *)
(* that change nothing, and bookings: what a deletion has to check is the  *)
(* subject of Schedule; a deletion that is refused is never made here.     *)
(***************************************************************************)
EXTENDS FiniteSets

CONSTANTS
  Users,      \* accounts, all of them registered
  FirstRole,  \* the role each registered with
  Shops, Barbers, Services,  \* ids: the bound on rows ever inserted
  Names,      \* names of services, equal up to case being equal
  Requests    \* concurrent request handlers of the API

(* Nobody registers as a barber (SelfAssignableRole of schemas/auth.py).   *)
ASSUME DirectoryAssumption ==
  FirstRole \in [Users -> {"CUSTOMER", "SHOP_OWNER", "ADMIN"}]

VARIABLES
  roles,     \* users.role
  shops,     \* table barbershops, a function on the ids inserted so far
  barbers,   \* table barbers
  services,  \* table services
  assigned,  \* table barber_services
  req        \* what each request handler has loaded and is about to write

vars == <<roles, shops, barbers, services, assigned, req>>

Shop    == [owner : Users, active : BOOLEAN]
Barber  == [user : Users, shop : Shops, active : BOOLEAN]
Service == [shop : Shops, name : Names, active : BOOLEAN]

(* beside is history, which no guard reads: the lists that other handlers  *)
(* have committed for the barber since this one loaded the old list.       *)
Idle == [op |-> "idle"]
Req  == [op : {"idle"}]
   \cup [op : {"join"}, account : Users, shop : Shops, promote : BOOLEAN]
   \cup [op : {"resolve", "assign"}, barber : Barbers,
         had : SUBSET Services, want : SUBSET Services,
         beside : SUBSET SUBSET Services]

-----------------------------------------------------------------------------
(* Permissions *)

(* _can_manage_shop; the owner of a shop never changes.                    *)
Manages(u, s) == roles[u] = "ADMIN" \/ shops[s].owner = u

(* ensure_can_manage_barber: a barber's own row, too.                      *)
MayEdit(u, b) == barbers[b].user = u \/ Manages(u, barbers[b].shop)

AssignedTo(b) == {v \in Services : <<b, v>> \in assigned}

-----------------------------------------------------------------------------
(* Requests *)

Put(table, id, row) ==
  [x \in DOMAIN table \cup {id} |-> IF x = id THEN row ELSE table[x]]

(* A handler takes its request, having loaded what "q" says.               *)
Load(r, q) ==
  /\ req[r] = Idle
  /\ req' = [req EXCEPT ![r] = q]
  /\ UNCHANGED <<roles, shops, barbers, services, assigned>>

(* Commit or rollback: the handler is done.                                *)
Done(r) == req' = [req EXCEPT ![r] = Idle]

(* create_shop, for whom the role gate of the route lets pass.             *)
CreateShop(r, u) ==
  /\ req[r] = Idle
  /\ roles[u] \in {"SHOP_OWNER", "ADMIN"}
  /\ \E s \in Shops \ DOMAIN shops :
       shops' = Put(shops, s, [owner |-> u, active |-> TRUE])
  /\ UNCHANGED <<roles, barbers, services, assigned, req>>

(* update_shop with is_active in the body, and deactivate_shop.            *)
SetShopActive(r, u, s, active) ==
  /\ req[r] = Idle
  /\ s \in DOMAIN shops /\ Manages(u, s)
  /\ active # shops[s].active
  /\ shops' = [shops EXCEPT ![s].active = active]
  /\ UNCHANGED <<roles, barbers, services, assigned, req>>

(* add_barber.  The account is promoted if it is a customer when loaded.   *)
LoadAccount(r, u, s, a) ==
  /\ s \in DOMAIN shops /\ Manages(u, s)
  /\ Load(r, [op |-> "join", account |-> a, shop |-> s,
              promote |-> roles[a] = "CUSTOMER"])

(* One transaction: a second profile in the shop violates the constraint   *)
(* on (user, shop) and the promotion is rolled back with the row.  So it   *)
(* is, for any reason a commit may fail for, when the ids are used up.     *)
Works(u, s) == \E b \in DOMAIN barbers : barbers[b].user = u /\ barbers[b].shop = s

M_PromotedAfterwards(r) == roles
PromotedBy(r) ==
  IF req[r].promote THEN [roles EXCEPT ![req[r].account] = "BARBER"] ELSE roles

CommitJoin(r) ==
  /\ req[r].op = "join"
  /\ IF Works(req[r].account, req[r].shop) \/ DOMAIN barbers = Barbers
     THEN UNCHANGED <<roles, barbers>>
     ELSE /\ \E b \in Barbers \ DOMAIN barbers :
               barbers' = Put(barbers, b, [user |-> req[r].account,
                                           shop |-> req[r].shop, active |-> TRUE])
          /\ roles' = PromotedBy(r)
  /\ Done(r)
  /\ UNCHANGED <<shops, services, assigned>>

(* update_barber with is_active in the body.                               *)
SetBarberActive(r, u, b, active) ==
  /\ req[r] = Idle
  /\ b \in DOMAIN barbers /\ MayEdit(u, b)
  /\ active # barbers[b].active
  /\ barbers' = [barbers EXCEPT ![b].active = active]
  /\ UNCHANGED <<roles, shops, services, assigned, req>>

(* deactivate_barber: not for the barber, only for who manages the shop.   *)
DeactivateBarber(r, u, b) ==
  /\ b \in DOMAIN barbers /\ Manages(u, barbers[b].shop)
  /\ SetBarberActive(r, u, b, FALSE)

-----------------------------------------------------------------------------
(* The catalogue *)

(* The unique index on (shop, lower(name)).                                *)
NameTaken(s, n, v) ==
  \E w \in DOMAIN services \ {v} : services[w].shop = s /\ services[w].name = n

(* create_service, which the index refuses or not.                         *)
CreateService(r, u, s, n) ==
  /\ req[r] = Idle
  /\ s \in DOMAIN shops /\ Manages(u, s)
  /\ \E v \in Services \ DOMAIN services :
       /\ ~NameTaken(s, n, v)
       /\ services' = Put(services, v, [shop |-> s, name |-> n, active |-> TRUE])
  /\ UNCHANGED <<roles, shops, barbers, assigned, req>>

(* update_service; deactivate_service is the one that sets active to FALSE.*)
UpdateService(r, u, v, n, active) ==
  /\ req[r] = Idle
  /\ v \in DOMAIN services /\ Manages(u, services[v].shop)
  /\ ~NameTaken(services[v].shop, n, v)
  /\ LET row == [services[v] EXCEPT !.name = n, !.active = active]
     IN row # services[v] /\ services' = [services EXCEPT ![v] = row]
  /\ UNCHANGED <<roles, shops, barbers, assigned, req>>

-----------------------------------------------------------------------------
(* set_services *)

LoadAssignment(r, u, b, want) ==
  /\ b \in DOMAIN barbers /\ Manages(u, barbers[b].shop)
  /\ Load(r, [op |-> "resolve", barber |-> b, had |-> AssignedTo(b),
              want |-> want, beside |-> {}])

(* _resolve_services: known, of the barber's own shop, and active.         *)
M_Assignable(b, v) == v \in DOMAIN services /\ services[v].active
M_AssignableUnknown(b, v) ==
  v \in DOMAIN services => services[v].shop = barbers[b].shop /\ services[v].active
Assignable(b, v) ==
  /\ v \in DOMAIN services
  /\ services[v].shop = barbers[b].shop
  /\ services[v].active

Resolve(r) ==
  /\ req[r].op = "resolve"
  /\ req' = [req EXCEPT ![r] =
               IF \A v \in req[r].want : Assignable(req[r].barber, v)
               THEN [req[r] EXCEPT !.op = "assign"] ELSE Idle]
  /\ UNCHANGED <<roles, shops, barbers, services, assigned>>

(* The flush: rows of the loaded list that are not wanted are deleted, and *)
(* those wanted that are not in it inserted.                               *)
M_Assignment(r) == assigned \cup {<<req[r].barber, v>> : v \in req[r].want}
Assignment(r) ==
  (assigned \ {<<req[r].barber, v>> : v \in req[r].had \ req[r].want})
     \cup {<<req[r].barber, v>> : v \in req[r].want \ req[r].had}

(* A row that is inserted already violates the primary key and the request *)
(* fails; a row deleted already is one the DELETE does not match, which    *)
(* fails it or goes unnoticed, with the driver.                            *)
Collides(r) == (req[r].want \ req[r].had) \cap AssignedTo(req[r].barber) # {}
Misses(r) == ~((req[r].had \ req[r].want) \subseteq AssignedTo(req[r].barber))

HasListOf(x, b) == req[x].op \in {"resolve", "assign"} /\ req[x].barber = b

CommitAssignment(r) ==
  /\ req[r].op = "assign"
  /\ ~Collides(r)
  /\ assigned' = Assignment(r)
  /\ req' = [x \in Requests |->
               IF x = r THEN Idle
               ELSE IF HasListOf(x, req[r].barber)
                    THEN [req[x] EXCEPT !.beside = @ \cup {req[r].want}]
                    ELSE req[x]]
  /\ UNCHANGED <<roles, shops, barbers, services>>

FailAssignment(r) ==
  /\ req[r].op = "assign"
  /\ Collides(r) \/ Misses(r)
  /\ Done(r)
  /\ UNCHANGED <<roles, shops, barbers, services, assigned>>

-----------------------------------------------------------------------------
Init ==
  /\ roles = FirstRole
  /\ shops = <<>> /\ barbers = <<>> /\ services = <<>>
  /\ assigned = {}
  /\ req = [r \in Requests |-> Idle]

Take(r, u) ==
  \/ CreateShop(r, u)
  \/ \E s \in Shops : \/ \E active \in BOOLEAN : SetShopActive(r, u, s, active)
                      \/ \E a \in Users : LoadAccount(r, u, s, a)
                      \/ \E n \in Names : CreateService(r, u, s, n)
  \/ \E b \in Barbers : \/ \E active \in BOOLEAN : SetBarberActive(r, u, b, active)
                        \/ DeactivateBarber(r, u, b)
                        \/ \E want \in SUBSET Services : LoadAssignment(r, u, b, want)
  \/ \E v \in Services, n \in Names, active \in BOOLEAN : UpdateService(r, u, v, n, active)

Next == \E r \in Requests :
  \/ \E u \in Users : Take(r, u)
  \/ CommitJoin(r) \/ Resolve(r) \/ CommitAssignment(r) \/ FailAssignment(r)

Spec == Init /\ [][Next]_vars

-----------------------------------------------------------------------------
(* What a stranger is shown, list_barbers and _to_read: the active barbers *)
(* of a shop in business, each with the active ones of their services.     *)
Shown(b, v) ==
  /\ b \in DOMAIN barbers /\ v \in DOMAIN services
  /\ shops[barbers[b].shop].active /\ barbers[b].active
  /\ <<b, v>> \in assigned /\ services[v].active

(* What a booking accepts, _resolve_barber_and_service of booking.py: it   *)
(* tells a service of another shop from one the barber does not perform.   *)
BookingAccepts(b, v) ==
  /\ b \in DOMAIN barbers /\ v \in DOMAIN services
  /\ barbers[b].active /\ services[v].active
  /\ services[v].shop = barbers[b].shop
  /\ <<b, v>> \in assigned

-----------------------------------------------------------------------------
(* Every table refers to rows that exist, and every handler to rows it may *)
(* have loaded.                                                            *)
TypeOK ==
  /\ roles \in [Users -> {"CUSTOMER", "SHOP_OWNER", "BARBER", "ADMIN"}]
  /\ DOMAIN shops \subseteq Shops /\ \A s \in DOMAIN shops : shops[s] \in Shop
  /\ DOMAIN barbers \subseteq Barbers /\ \A b \in DOMAIN barbers :
       barbers[b] \in Barber /\ barbers[b].shop \in DOMAIN shops
  /\ DOMAIN services \subseteq Services /\ \A v \in DOMAIN services :
       services[v] \in Service /\ services[v].shop \in DOMAIN shops
  /\ assigned \subseteq (DOMAIN barbers) \X (DOMAIN services)
  /\ req \in [Requests -> Req]

(* What the directory shows to a stranger can be booked: no barber is      *)
(* shown with a service the booking then refuses, because a barber is only *)
(* ever assigned services of their own shop.  The rule spans two tables    *)
(* and no constraint states it; _resolve_services does, before the commit. *)
ShownIsBookable ==
  \A b \in Barbers, v \in Services : Shown(b, v) => BookingAccepts(b, v)

(* Whoever has a profile is not a mere customer, whoever is a barber has a *)
(* profile, and owners stay owners: the promotion of add_barber happens    *)
(* with the insert or not at all, and demotes nobody.                      *)
RolesFollowProfiles ==
  /\ \A b \in DOMAIN barbers : roles[barbers[b].user] # "CUSTOMER"
  /\ \A u \in Users : roles[u] = "BARBER" => \E b \in DOMAIN barbers : barbers[b].user = u
  /\ \A s \in DOMAIN shops : roles[shops[s].owner] \in {"SHOP_OWNER", "ADMIN"}

(* set_services replaces the list up to what others asked for meanwhile:   *)
(* after a commit, the barber has every service that all the replacements  *)
(* since the list was loaded agree on, and none that no one of them asked  *)
(* for; what was on the old list only is gone.  A replacement that nobody  *)
(* overlaps leaves exactly the list it was given.                          *)
ReplacedUpToOverlaps ==
  [][\A r \in Requests : CommitAssignment(r) =>
       LET asked == req[r].beside \cup {req[r].want}
       IN \A v \in Services :
            /\ (\A want \in asked : v \in want) => <<req[r].barber, v>> \in assigned'
            /\ <<req[r].barber, v>> \in assigned' => \E want \in asked : v \in want]_vars

(* What does not hold: "replace the barber's service list wholesale".  Two *)
(* replacements that loaded the same list leave a mixture.                 *)
ListIsReplacedWhole ==
  [][\A r \in Requests : CommitAssignment(r) =>
       \A v \in Services : <<req[r].barber, v>> \in assigned' <=> v \in req[r].want]_vars
=============================================================================
