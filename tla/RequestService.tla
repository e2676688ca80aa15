---------------------------- MODULE RequestService ----------------------------
(***************************************************************************)
(* What a managed server promises the client about its requests, whatever  *)
(* happens to the processes behind it: each is refused, held until the     *)
(* server is up, or in the server's hands; it is handed over in the order  *)
(* sent and at most once, and answered at most once. A closed service      *)
(* hands over nothing more.                                                *)
(***************************************************************************)
EXTENDS Integers

CONSTANT Requests     \* the numbers requests may get, in order of sending

VARIABLES
  place,    \* where each request is
  open      \* is the service still taking requests

serviceVars == <<place, open>>

Places == {"unsent", "held", "delivered", "answered"}
At(p) == {n \in Requests : place[n] = p}

ServiceTypeOK == place \in [Requests -> Places] /\ open \in BOOLEAN

ServiceInit == place = [n \in Requests |-> "unsent"] /\ open = TRUE

Move(S, p) == place' = [n \in Requests |-> IF n \in S THEN p ELSE place[n]]

(* A request arrives: held, handed over directly when none is held before
   it, or refused on the spot. *)
Hold(n) == open /\ n \in At("unsent") /\ Move({n}, "held")
Pass(n) == open /\ n \in At("unsent") /\ At("held") = {} /\ Move({n}, "delivered")
Refuse(n) == n \in At("unsent") /\ Move({n}, "answered")

(* Everything held is handed over. *)
HandOver == open /\ At("held") # {} /\ Move(At("held"), "delivered")

(* Some requests are answered: by the server, or with an error for it. *)
Reply(S) == S # {} /\ S \subseteq At("held") \cup At("delivered") /\ Move(S, "answered")

Close == open /\ open' = FALSE

ServiceNext ==
  \/ /\ \/ \E n \in Requests : Hold(n) \/ Pass(n) \/ Refuse(n)
        \/ HandOver
        \/ \E S \in SUBSET Requests : Reply(S)
     /\ UNCHANGED open
  \/ /\ Close
     /\ \/ UNCHANGED place
        \/ \E S \in SUBSET Requests : Reply(S)
        \/ \E n \in Requests : Refuse(n)

ServiceSpec == ServiceInit /\ [][ServiceNext]_serviceVars
=============================================================================
