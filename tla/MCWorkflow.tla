------------------------------ MODULE MCWorkflow -------------------------------
(* An instance of Workflow for TLC: the main workflow of a type, a custom one  *)
(* and a subworkflow that both enter, one to leave it for another state and    *)
(* the other to come back.                                                     *)
EXTENDS Workflow

CONSTANTS s1, s2, x1, x2, k1, go, back, enter, done, redo, next, detour,
          main, sub, special

MCStateOf == [s \in State |-> CASE s \in {s1, s2} -> main
                                [] s \in {x1, x2} -> sub
                                [] s = k1 -> special]
MCInitial == (main :> s1) @@ (sub :> x1) @@ (special :> k1)

MCTransitionOf == [t \in Transition |-> CASE t \in {go, back, enter, next} -> main
                                          [] t \in {done, redo} -> sub
                                          [] t = detour -> special]
MCFrom == (go :> {s1}) @@ (back :> {s2}) @@ (next :> {s2}) @@ (enter :> {s1})
          @@ (done :> {x1}) @@ (redo :> {x2}) @@ (detour :> {k1})
MCDestination == (go :> s2) @@ (back :> None) @@ (next :> s1)
                 @@ (done :> x2) @@ (redo :> x1)
                 @@ (enter :> None) @@ (detour :> None)
MCSub == (enter :> sub) @@ (detour :> sub)
MCExits == (enter :> (x2 :> s2)) @@ (detour :> (x2 :> None))

====
