------------------------------- MODULE MCMetrics -------------------------------
(***************************************************************************)
(* Small instances of Metrics.  Scrapes are interchangeable.               *)
(***************************************************************************)
EXTENDS Metrics, TLC

ScraperSymmetry == Permutations(Scrapers)
===============================================================================
