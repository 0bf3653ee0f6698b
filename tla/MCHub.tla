------------------------------- MODULE MCHub -------------------------------
(* Model values for checking Hub: one client of each endpoint.              *)
EXTENDS Hub

CONSTANTS a1, b1, r1, r2

MCV1 == {a1}
MCV2 == {b1}
MCRoutes == {r1, r2}
MCRoute == {r1}
=============================================================================
