------------------------- MODULE MCRichPreparation -------------------------
EXTENDS RichPreparation, TLC

Exact(a)   == [accounts |-> {a}, deals |-> 0, people |-> Person]
MCAward    == 1..1
MCAnswer   == { [status |-> "found", matches |-> Exact(a)] : a \in Account }
              \cup { [status |-> "found",
                      matches |-> [Exact(CHOOSE a \in Account : TRUE)
                                    EXCEPT !.deals = 2]] }
Symmetry   == Permutations(Worker)
=============================================================================
