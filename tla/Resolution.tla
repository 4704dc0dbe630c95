------------------------------ MODULE Resolution ------------------------------
(***************************************************************************)
(* What linker.h promises of linker_resolve, with no order, no table and   *)
(* no numbering: each name that some object references and none defines is *)
(* settled once, bound to its provider or reported missing.                *)
(***************************************************************************)
CONSTANTS
    Provider(_),   \* the (module, library) that exports a name
    NoProvider     \* what Provider answers for a name no catalog lists

VARIABLES
    wanted,        \* names referenced somewhere and defined nowhere
    bound,         \* function from the names bound so far to their provider
    missing        \* names reported as unresolved so far

vars == <<wanted, bound, missing>>

Open == wanted \ (DOMAIN bound \union missing)

Init == DOMAIN bound = {} /\ missing = {}

BindName(n) ==
    /\ Provider(n) # NoProvider
    /\ bound' = [m \in DOMAIN bound \union {n} |->
                    IF m = n THEN Provider(n) ELSE bound[m]]
    /\ UNCHANGED <<wanted, missing>>

ReportName(n) ==
    /\ Provider(n) = NoProvider
    /\ missing' = missing \union {n}
    /\ UNCHANGED <<wanted, bound>>

Next == \E n \in Open : BindName(n) \/ ReportName(n)

Spec == Init /\ [][Next]_vars

===============================================================================
