--------------------------- MODULE MCCrawlerStore ---------------------------
(***************************************************************************)
(* An instance of CrawlerStore for TLC: two messages of an hour with the   *)
(* same user, and one of the next hour.                                    *)
(***************************************************************************)
EXTENDS CrawlerStore

ThreeMessages == 1..3
HourOfThree == <<1, 1, 2>>
UserOfThree == <<"u", "u", "u">>
=============================================================================
