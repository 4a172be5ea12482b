-------------------------------- MODULE MCWebPage -------------------------------
(* A small tour and the visits for TLC: see the README for why these.      *)
EXTENDS WebPage

ShortTour == << <<"grid">>, <<"grid", "other">> >>

Careful ==
  [careful |-> TRUE, failures |-> TRUE, clicks |-> 7, texts |-> 2, tour |-> NoTour]

Careless ==
  [careful |-> FALSE, failures |-> TRUE, clicks |-> 4, texts |-> 1, tour |-> NoTour]

CarefulOnTour ==
  {[careful |-> TRUE, failures |-> FALSE, clicks |-> 4, texts |-> 1,
    tour |-> Start(NoTour, 1, 1, a)] : a \in {1, 2}}

CarelessOnTour ==
  [careful |-> FALSE, failures |-> FALSE, clicks |-> 3, texts |-> 1, tour |-> Start(NoTour, 1, 1, 1)]

Mixed == {Careful, Careless, CarelessOnTour} \cup CarefulOnTour
=================================================================================
