---------------------------- MODULE MCDeliveries ----------------------------
(* Deliveries for TLC: two workers, two requests per call and four calls; a  *)
(* lease of three polls and two notifications that come back.                *)
EXTENDS Deliveries, TLC

CONSTANTS c1, c2
=============================================================================
