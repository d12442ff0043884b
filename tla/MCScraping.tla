------------------------------ MODULE MCScraping ------------------------------
(* Scraping on one site with one tier whose window an environment variable *)
(* decides: a pool of two threads, and one window in the budget.           *)
EXTENDS Scraping

CONSTANTS w1, w2

OneTier == {[tiers |-> <<"playwright">>, slots |-> 2, cap |-> 1, asked |-> FALSE]}
MCAnswers == [t \in {"playwright"} |-> {"blank", "good"}]
===============================================================================
