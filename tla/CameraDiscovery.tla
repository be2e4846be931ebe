--------------------------- MODULE CameraDiscovery ---------------------------
(***************************************************************************)
(* PhilipsAventAPI.discover_cameras (custom_components/.../api.py): the    *)
(* lists of the cloud asked one after the other, home by home, until some  *)
(* camera has turned up.  A list is <<kind, home>>; each call may fail.    *)
(***************************************************************************)
EXTENDS Integers, FiniteSets

CONSTANTS Cameras,
          Homes,      \* how many homes the account has
          Layouts     \* which cameras each list shows: the accounts considered

Kinds == {"rooms2", "rooms1", "group", "relation", "devices"}
Lists == Kinds \X (1..Homes)

ASSUME DiscoveryAssumption ==
  /\ Homes \in Nat \ {0}
  /\ Layouts \subseteq [Lists -> SUBSET Cameras]

VARIABLES layout,   \* the account at hand
          ask,      \* the list asked next, or <<"idle", 0>> or <<"done", 0>>
          cameras,  \* those found so far
          failed    \* some call of this discovery raised a TuyaAPIError

discovery == <<layout, ask, cameras, failed>>

Idle == <<"idle", 0>>
Done == <<"done", 0>>

DiscoveryOK == /\ layout \in Layouts
               /\ ask \in Lists \cup {Idle, Done}
               /\ cameras \subseteq Cameras /\ failed \in BOOLEAN

DiscoveryInit == layout \in Layouts /\ ask = Idle /\ cameras = {} /\ failed = FALSE

HomesOnly(h, found) == IF h < Homes THEN <<"rooms2", h + 1>> ELSE Done

NextHome(h, found) == IF h < Homes THEN <<"rooms2", h + 1>>
                      ELSE IF found = {} THEN <<"relation", 1>> ELSE Done

\* Strategies 1 and 2 stop for a home once any camera is known, of this or of an
\* earlier home; a room list that failed leads to the older version in any case.
FollowedBy(list, found, answered) ==
  LET h == list[2] IN
  CASE list[1] = "rooms2" ->
         IF answered /\ found # {} THEN NextHome(h, found) ELSE <<"rooms1", h>>
    [] list[1] = "rooms1" -> IF found = {} THEN <<"group", h>> ELSE NextHome(h, found)
    [] list[1] = "group" -> NextHome(h, found)
    [] list[1] = "relation" -> IF h < Homes THEN <<"relation", h + 1>>
                               ELSE IF found = {} THEN <<"devices", 1>> ELSE Done
    [] OTHER -> Done

\* get_homes may fail as well: then only the last strategy, for no home, is left.
GetHomes(answered) ==
  /\ ask = Idle
  /\ ask' = IF answered THEN <<"rooms2", 1>> ELSE <<"devices", 1>>
  /\ cameras' = {} /\ failed' = ~answered
  /\ UNCHANGED layout

AskList(answered) ==
  /\ ask \in Lists
  /\ cameras' = IF answered THEN cameras \cup layout[ask] ELSE cameras
  /\ failed' = (failed \/ ~answered)
  /\ ask' = FollowedBy(ask, cameras', answered)
  /\ UNCHANGED layout

Discover == \E answered \in BOOLEAN : GetHomes(answered) \/ AskList(answered)

\* A list of a strategy that answers shows these; "devices" shows one list only.
Shown == UNION {layout[l] : l \in {k \in Lists : k[1] = "devices" => k[2] = 1}}

(* When every call answers, the result is empty only for an account none   *)
(* of whose lists shows a camera.                                          *)
EmptyOnlyWhenNoneShown == ask = Done /\ ~failed /\ cameras = {} => Shown = {}
=============================================================================
