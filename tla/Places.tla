-------------------------------- MODULE Places --------------------------------
(***************************************************************************)
(* The addresses of one user, and the communes that administrators edit.   *)
(*                                                                         *)
(* A request first looks up the town and the commune it was given and      *)
(* writes later; communes are deleted in between.  A town or a commune may *)
(* be switched off at any moment: the lookup then refuses, which changes   *)
(* nothing, so the switches are left out.  So is which of several addresses*)
(* is the default.                                                         *)
(***************************************************************************)
EXTENDS Naturals, FiniteSets

CONSTANTS
  Towns, Communes,
  TownOf,     \* the town of each commune, which never changes
  MaxRow,     \* bound on the addresses of the user, numbered as they are created
  Visits,     \* requests of the user in flight
  NoPlace     \* no town, no commune

Rows == 1 .. MaxRow

ASSUME PlacesConstants ==
  /\ TownOf \in [Communes -> Towns]
  /\ NoPlace \notin Towns \cup Communes
  /\ MaxRow \in Nat

VARIABLES
  commune,   \* communes
  counted,   \* communes an administrator found unused and is about to delete
  role,      \* users.role
  address,   \* addresses
  visit      \* the requests of the user

placeVars == << commune, counted, role, address, visit >>

Place == [ town : Towns \cup { NoPlace }, commune : Communes \cup { NoPlace } ]

Nowhere == [ town |-> NoPlace, commune |-> NoPlace ]

Address == [ status : { "none", "live", "deleted" }, place : Place ]

\* row: the address to be written, 0 for a new one.
Visit ==
  [ does : { "idle", "create", "locked", "edit" }, row : Rows \cup { 0 }, place : Place ]

NoVisit == [ does |-> "idle", row |-> 0, place |-> Nowhere ]

LiveRows == { r \in Rows : address[r].status = "live" }

-----------------------------------------------------------------------------
(* Towns and communes                                                        *)

\* resolveCommune: what may be asked for.
MayChoose(place) ==
  place.commune # NoPlace =>
    commune[place.commune] = "there" /\ place.town \in { NoPlace, TownOf[place.commune] }

\* The town comes from the commune when one is given.
ResolvedPlace(place) ==
  IF place.commune # NoPlace THEN [ place EXCEPT !.town = TownOf[place.commune] ] ELSE place

\* A foreign key refuses a commune that was deleted in the meantime.
Stands(place) == place.commune # NoPlace => commune[place.commune] = "there"

AddsCommune(c) ==
  /\ commune[c] = "none"
  /\ commune' = [commune EXCEPT ![c] = "there"]
  /\ UNCHANGED << counted, role, address, visit >>

UsesCommune(c) == \E r \in Rows : address[r].place.commune = c

\* deleteCommune counts the addresses, deleted ones too, and the shops, ...
CountsUses(c) ==
  /\ commune[c] = "there" /\ ~UsesCommune(c)
  /\ counted' = counted \cup { c }
  /\ UNCHANGED << commune, role, address, visit >>

WithoutCommune(place, c) == IF place.commune = c THEN [ place EXCEPT !.commune = NoPlace ] ELSE place

\* ... and deletes later; the foreign keys are ON DELETE SET NULL.
DeletesCommune(c) ==
  /\ c \in counted
  /\ counted' = counted \ { c }
  /\ commune' = [commune EXCEPT ![c] = "gone"]
  /\ address' = [r \in Rows |-> [ address[r] EXCEPT !.place = WithoutCommune(address[r].place, c) ]]
  /\ UNCHANGED << role, visit >>

EditsCommunes == \E c \in Communes : AddsCommune(c) \/ CountsUses(c) \/ DeletesCommune(c)

-----------------------------------------------------------------------------
(* Addresses                                                                 *)

GoesOn(v, does, row, place) ==
  visit' = [visit EXCEPT ![v] = [ does |-> does, row |-> row, place |-> place ]]

GoesAway(v) == visit' = [visit EXCEPT ![v] = NoVisit]

\* create, before its transaction.
AsksToCreate(v, place) ==
  /\ visit[v] = NoVisit
  /\ MayChoose(place)
  /\ GoesOn(v, "create", 0, ResolvedPlace(place))
  /\ UNCHANGED << commune, counted, role, address >>

\* Variant: without the row lock on the user.
OwnerLocked_Never == FALSE

\* A transaction holds the row of the user.
OwnerLocked == \E v \in Visits : visit[v].does = "locked"

\* The role and the current address, under the lock.  A buyer who has one keeps
\* it; a seller adds another.
FindsCurrent(v) ==
  /\ visit[v].does = "create" /\ ~OwnerLocked
  /\ \E r \in IF role = "BUYER" /\ LiveRows # {} THEN LiveRows ELSE { 0 } :
       GoesOn(v, "locked", r, visit[v].place)
  /\ UNCHANGED << commune, counted, role, address >>

NextRow == Cardinality({ r \in Rows : address[r].status # "none" }) + 1

WritesAddress(v) ==
  LET r == IF visit[v].row = 0 THEN NextRow ELSE visit[v].row IN
  /\ visit[v].does = "locked"
  /\ Stands(visit[v].place) /\ r \in Rows
  /\ address' = [address EXCEPT ![r] =
       [ status |-> IF visit[v].row = 0 THEN "live" ELSE address[r].status,
         place |-> visit[v].place ]]
  /\ GoesAway(v)
  /\ UNCHANGED << commune, counted, role >>

\* What a PATCH leaves out keeps its value; a commune does not follow into
\* another town.
MergedPlaces(sent, old) ==
  { [ town |-> old.town, commune |-> sent.commune ],
    [ town |-> sent.town,
      commune |-> IF sent.town = old.town THEN old.commune ELSE NoPlace ],
    sent }

\* update: reads its row and resolves; a place that was not touched is kept as
\* it was read, usable or not.
AsksToEdit(v, r, sent) ==
  /\ visit[v] = NoVisit /\ r \in LiveRows
  /\ \/ GoesOn(v, "edit", r, address[r].place)
     \/ \E place \in MergedPlaces(sent, address[r].place) :
          MayChoose(place) /\ GoesOn(v, "edit", r, ResolvedPlace(place))
  /\ UNCHANGED << commune, counted, role, address >>

EditsAddress(v) ==
  /\ visit[v].does = "edit" /\ Stands(visit[v].place)
  /\ address' = [address EXCEPT ![visit[v].row].place = visit[v].place]
  /\ GoesAway(v)
  /\ UNCHANGED << commune, counted, role >>

RemovesAddress(r) ==
  /\ r \in LiveRows
  /\ address' = [address EXCEPT ![r].status = "deleted"]
  /\ UNCHANGED << commune, counted, role, visit >>

\* The approval of an application makes the user a seller; it needs the row of
\* the user too.
BecomesSeller ==
  /\ role = "BUYER" /\ ~OwnerLocked
  /\ role' = "SELLER"
  /\ UNCHANGED << commune, counted, address, visit >>

\* A foreign key, a timeout, a crash.
VisitFails(v) ==
  /\ visit[v] # NoVisit
  /\ GoesAway(v)
  /\ UNCHANGED << commune, counted, role, address >>

-----------------------------------------------------------------------------

\* A new account.
PlacesInit ==
  /\ commune \in [Communes -> { "none", "there" }]
  /\ counted = {}
  /\ role \in { "BUYER", "SELLER" }
  /\ address = [r \in Rows |-> [ status |-> "none", place |-> Nowhere ]]
  /\ visit = [v \in Visits |-> NoVisit]

PlacesNext ==
  \/ EditsCommunes \/ BecomesSeller
  \/ \E v \in Visits :
       \/ \E place \in Place :
            AsksToCreate(v, place) \/ \E r \in Rows : AsksToEdit(v, r, place)
       \/ FindsCurrent(v) \/ WritesAddress(v) \/ EditsAddress(v) \/ VisitFails(v)
  \/ \E r \in Rows : RemovesAddress(r)

PlacesSpec == PlacesInit /\ [][PlacesNext]_placeVars

-----------------------------------------------------------------------------
(* Properties                                                                *)

PlacesTypeOK ==
  /\ commune \in [Communes -> { "none", "there", "gone" }] /\ counted \subseteq Communes
  /\ role \in { "BUYER", "SELLER" }
  /\ address \in [Rows -> Address]
  /\ visit \in [Visits -> Visit]

\* "A BUYER holds exactly one current delivery address": requests of one buyer
\* that create an address at once never leave two, and the town of an address
\* is the one of its commune, whatever was edited or deleted meanwhile.
OneDeliveryAddress ==
  /\ role = "BUYER" => Cardinality(LiveRows) <= 1
  /\ \A r \in LiveRows :
       address[r].place.commune # NoPlace =>
         address[r].place.town = TownOf[address[r].place.commune]

=============================================================================
