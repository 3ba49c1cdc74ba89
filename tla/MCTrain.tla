------------------------------ MODULE MCTrain ------------------------------
(***************************************************************************)
(* Train for TLC: the sessions to explore.                                 *)
(***************************************************************************)
EXTENDS Train

(* The headset runs and the UI lags; or no headset and a fickle user.      *)
Lagging == [device |-> TRUE, uiKeepsUp |-> FALSE, stars |-> 1, taps |-> 1]
Fickle  == [device |-> FALSE, uiKeepsUp |-> TRUE, stars |-> 2, taps |-> 3]
AllSetups == {Lagging, Fickle}
=============================================================================
