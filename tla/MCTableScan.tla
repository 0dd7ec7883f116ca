---------------------------- MODULE MCTableScan ----------------------------
(***************************************************************************)
(* Instances of TableScan for TLC.                                         *)
(***************************************************************************)
EXTENDS TableScan

\* Up to three tables of up to eight rows: empty, shorter than, as long as and
\* longer than a batch of three, with every remainder.
SmallDatabases == UNION {[1..n -> 0..8] : n \in 1..2} \cup [1..3 -> {0, 1, 2, 4, 7}]

\* The table list of VirtualProjectMain.cpp has one table.
OneTable == [1..1 -> 2..8]
=============================================================================
