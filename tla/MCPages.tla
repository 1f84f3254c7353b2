------------------------------- MODULE MCPages -------------------------------
(* One survey with room for one response; the creator and one respondent   *)
(* take turns in the browser, two calls of the settings tab and two of the *)
(* list overlap.                                                           *)
EXTENDS Pages
=============================================================================
