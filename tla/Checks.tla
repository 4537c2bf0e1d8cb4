------------------------------- MODULE Checks -------------------------------
(***************************************************************************)
(* What the surveillance promises to whoever asks for a check: an ask is   *)
(* owed until a pass that starts after it takes it, a pass that takes a    *)
(* forced ask is forced, and passes run one at a time. A pass may also     *)
(* start on its own, when the interval is over.                            *)
(***************************************************************************)

EXTENDS Naturals

VARIABLES
    owed,   \* the ask no pass has taken yet
    pass,   \* the pass that runs
    stops   \* how often the process has stopped

vars == <<owed, pass, stops>>
Kind == {"none", "plain", "forced"}

Init == owed = "none" /\ pass = "none" /\ stops = 0

(* A plain ask never hides a forced one that is still owed. *)
Ask ==
    /\ \/ owed' = "forced"
       \/ owed = "none" /\ owed' = "plain"
    /\ UNCHANGED <<pass, stops>>

Begin ==
    /\ pass = "none"
    /\ pass' = IF owed = "forced" THEN "forced" ELSE "plain"
    /\ owed' = "none"
    /\ UNCHANGED stops

(* A pass ends, by a failure as well as by its last check. *)
End ==
    /\ pass # "none"
    /\ pass' = "none"
    /\ UNCHANGED <<owed, stops>>

(* The process stops, and only then is what it owed forgotten. *)
Stop == owed' = "none" /\ pass' = "none" /\ stops' = stops + 1

Next == Ask \/ Begin \/ End \/ Stop

Spec == Init /\ [][Next]_vars

FairSpec == Spec /\ WF_vars(owed # "none" /\ Begin) /\ WF_vars(End)

=============================================================================
