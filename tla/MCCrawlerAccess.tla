-------------------------- MODULE MCCrawlerAccess --------------------------
(***************************************************************************)
(* Instances of CrawlerAccess for TLC; the bounds are given in the cfg.    *)
(***************************************************************************)
EXTENDS CrawlerAccess
=============================================================================
