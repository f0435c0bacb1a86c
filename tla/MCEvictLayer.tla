---------------------------- MODULE MCEvictLayer ----------------------------
(* Constants for model checking EvictLayer.                                *)
EXTENDS EvictLayer

CONSTANTS h1, h2

MCHeads == {h1, h2}
MCCarriers == {h1}
(* A span inside a short prompt and a drawn span in the generated text.    *)
MCSpans == {[lo |-> 1, hi |-> 2, heads |-> {h1}, rho |-> FALSE],
            [lo |-> 5, hi |-> 6, heads |-> {h1, h2}, rho |-> TRUE]}
=============================================================================
