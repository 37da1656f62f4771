------------------------------- MODULE MCPage -------------------------------
(***************************************************************************)
(* Page for TLC.  Four lines against a ring of three and an answer of at   *)
(* most two: the ring overtakes the page, the limit cuts an answer, and    *)
(* with two requests outstanding their answers come in either order.  An   *)
(* incident asks for the first two lines and keeps one.  Two zones, each   *)
(* at one of two setpoints, on a console that was shipped with the tables  *)
(* the page knows or with others, and what a click starts against a read   *)
(* of the timer.                                                           *)
(***************************************************************************)
EXTENDS Page

Factory == [z \in 0..1 |-> 1]
ShippedValue == {Factory, [z \in 0..1 |-> 0]}
=============================================================================
