---------------------------- MODULE MCDataAccess ----------------------------
(* Two ids; two notices claim the first one, as the clock may make them do. *)
(* One message was cut short and one has empty elements.                    *)
EXTENDS DataAccess

CONSTANTS a, b

MCIds == {1, 2}
MCItems == {a, b}
MCArrivals == {Whole(1, a), Whole(1, b), Short, Hollow}
MCRefused == {Whole(1, a), Whole(1, b), Whole(2, a)}

=============================================================================
