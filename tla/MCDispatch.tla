----------------------------- MODULE MCDispatch -----------------------------
(***************************************************************************)
(* Two drivers, two requests and two calls: acceptances over both channels *)
(* in every interleaving, and answers one at a time.                       *)
(***************************************************************************)
EXTENDS Dispatch

MCScenarios ==
  { [ answers |-> { "acceptRequest", "firebaseAccept" }, overlap |-> TRUE ],
    [ answers |-> { "firebaseAccept", "rejectRequest" }, overlap |-> FALSE ],
    [ answers |-> { "acceptRequest", "rejectRequest" }, overlap |-> FALSE ] }
=============================================================================
