------------------------------ MODULE MCWorkflow ------------------------------
(* A small instance of Workflow for TLC; the cfg file gives every value.     *)
EXTENDS Workflow

CONSTANTS c1, c2, r1, r2
===============================================================================
