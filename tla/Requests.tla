------------------------------ MODULE Requests ------------------------------
(***************************************************************************)
(* The clients of the API beside the syncers: a behaviour serves single    *)
(* requests (module Api) until one client walks through the history of an  *)
(* address (module Paging).                                                *)
(***************************************************************************)
EXTENDS Api, Paging

requestsVars == <<storeVars, asked, seen, walkVars>>

RequestsInit == ApiInit /\ PagingInit

Serving(step_taken) == walk = "none" /\ step_taken /\ UNCHANGED walkVars

Walking(step_taken) ==
    /\ route = "none" /\ reply = NULL
    /\ step_taken
    /\ UNCHANGED <<asked, seen>>

RequestsNext ==
    \/ Serving(ApiNext)
    \/ \E a \in Addresses : Walking(StartWalk(a))
    \/ Walking(walk # "none" /\ Grows /\ UNCHANGED walkVars)
    \/ Walking(WalkStep)

\* The fairness of PagingSpec.
RequestsSpec ==
    /\ RequestsInit /\ [][RequestsNext]_requestsVars
    /\ WF_requestsVars(Walking(WalkStep))
=============================================================================
