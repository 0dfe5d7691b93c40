---------------------------- MODULE NumberRegistry ----------------------------
(***************************************************************************)
(* What document numbers promise: within a document type a number with its *)
(* suffix is given once per year, or once and for all, as the numbering    *)
(* mode of the type says, and the mode is settled by the first document.   *)
(* Module DocumentNumbering shows that the handlers keep this promise.     *)
(***************************************************************************)
CONSTANTS Type, Number, Suffix, Year

VARIABLES
    mode,     \* mode[t]: "none" until the type is created, "YEARLY" or "GLOBAL"
    assigned  \* the documents: [type, number, suffix, year]

vars == <<mode, assigned>>

Init ==
    /\ mode = [t \in Type |-> "none"]
    /\ assigned = {}

SetMode(t, m) ==
    /\ \A d \in assigned : d.type # t
    /\ mode' = [mode EXCEPT ![t] = m]
    /\ UNCHANGED assigned

Assign(d) ==
    /\ mode[d.type] # "none"
    /\ \A e \in assigned :
          /\ <<e.type, e.number, e.suffix>> = <<d.type, d.number, d.suffix>>
          => mode[d.type] = "YEARLY" /\ e.year # d.year
    /\ assigned' = assigned \cup {d}
    /\ UNCHANGED mode

Next ==
    \/ \E t \in Type, m \in {"YEARLY", "GLOBAL"} : SetMode(t, m)
    \/ \E d \in [type : Type, number : Number, suffix : Suffix, year : Year] : Assign(d)

Spec == Init /\ [][Next]_vars
=============================================================================
