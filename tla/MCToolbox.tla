------------------------------ MODULE MCToolbox ------------------------------
(***************************************************************************)
(* Toolbox for TLC: a tool the incident settles altogether, one that       *)
(* leaves a choice with a default, and one that leaves a choice without    *)
(* and a choice that may be null.                                          *)
(***************************************************************************)
EXTENDS Toolbox, TLC

CONSTANTS upstream, history, snapshot

MCDeclares ==
  (upstream :> {"dag_id"}) @@ (history :> {"dag_id", "limit"})
    @@ (snapshot :> {"table", "as_of"})

MCRequired == (upstream :> {"dag_id"}) @@ (history :> {"dag_id"}) @@ (snapshot :> {"table"})
=============================================================================
