------------------------------ MODULE MCRuleEngine ------------------------------
(***************************************************************************)
(* A small instance of RuleEngine: two blocks and a rule in one            *)
(* production, and another whose changes share the debounce.  Two requests *)
(* overlap beside one tick at a time, or two ticks beside one request.     *)
(***************************************************************************)
EXTENDS RuleEngine, TLC

CONSTANTS p1, b1, b2

MCProductionOf == b1 :> p1 @@ b2 :> p1
MCRuleOwner == [r \in Rules |-> p1]
MCRuleForms ==
  {[isEnabled |-> TRUE, secondsBefore |-> 1, onStart |-> {}],
   [isEnabled |-> TRUE, secondsBefore |-> None, onStart |-> Blocks]}

Anonymous == Permutations(Clients) \cup Permutations(Ticks) \cup Permutations(Blocks)

VARIABLE overlap  \* which of the two overlap

Requested == {c \in Clients : request[c] # Idle}

UnderWay == {t \in Ticks : tick[t] # Idle}

MCInit == Init /\ overlap \in {"requests", "ticks"}

MCNext ==
  /\ Next
  /\ overlap = "requests" => Cardinality(UnderWay') <= 1
  /\ overlap = "ticks" => Cardinality(Requested') <= 1
  /\ UNCHANGED overlap

MCSpec == MCInit /\ [][MCNext]_<<vars, overlap>>
=============================================================================
