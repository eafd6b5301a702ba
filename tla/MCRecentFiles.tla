---------------------------- MODULE MCRecentFiles ----------------------------
(* RecentFiles with the limits of the program and two paths, which is what   *)
(* it takes to tell any order and any loss in a menu of five.                *)
EXTENDS RecentFiles

CONSTANTS a, b

=============================================================================
