------------------------------- MODULE Bookings -------------------------------
(***************************************************************************)
(* What the booking API promises to a web: "Repetir la peticion con la     *)
(* misma clave no duplica nada" (create_booking, booking_api/services.py). *)
(* A key makes at most one reservation; whoever is given a reservation is  *)
(* given that one, and asked for the very thing it was made from.          *)
(***************************************************************************)
CONSTANTS Request, Key, Body, Nobody

VARIABLES asked,    \* request -> what was asked, or Nobody
          booked,   \* key -> the request whose reservation it is, or Nobody
          sold,     \* the requests that left a reservation behind
          given     \* request -> the one whose reservation it was given, or Nobody

vars == <<asked, booked, sold, given>>
Asked == [key : Key, body : Body]

Init ==
    /\ asked = [q \in Request |-> Nobody]
    /\ booked = [k \in Key |-> Nobody]
    /\ sold = {}
    /\ given = [q \in Request |-> Nobody]

Ask(q) ==
    /\ asked[q] = Nobody
    /\ \E a \in Asked : asked' = [asked EXCEPT ![q] = a]
    /\ UNCHANGED <<booked, sold, given>>

\* The reservation and its key are one step: neither is ever without the other.
Book(q) ==
    /\ asked[q] # Nobody /\ booked[asked[q].key] = Nobody
    /\ booked' = [booked EXCEPT ![asked[q].key] = q]
    /\ sold' = sold \cup {q}
    /\ UNCHANGED <<asked, given>>

\* A repeated request is given what the first one made.
Give(q) ==
    /\ asked[q] # Nobody /\ given[q] = Nobody /\ booked[asked[q].key] # Nobody
    /\ asked[booked[asked[q].key]].body = asked[q].body
    /\ given' = [given EXCEPT ![q] = booked[asked[q].key]]
    /\ UNCHANGED <<asked, booked, sold>>

BookAndGive(q) ==
    /\ asked[q] # Nobody /\ booked[asked[q].key] = Nobody
    /\ booked' = [booked EXCEPT ![asked[q].key] = q]
    /\ sold' = sold \cup {q}
    /\ given' = [given EXCEPT ![q] = q]
    /\ UNCHANGED asked

Next == \E q \in Request : Ask(q) \/ Book(q) \/ Give(q) \/ BookAndGive(q)
Spec == Init /\ [][Next]_vars

=============================================================================
