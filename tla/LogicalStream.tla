--------------------------- MODULE LogicalStream ----------------------------
(***************************************************************************)
(* What a caller is promised about one call, however many attempts,        *)
(* middleware layers and failures are behind it: the items it receives     *)
(* form one stream that keeps the contract of StreamContract.  It opens at *)
(* most once, a block starts once, takes its deltas while it is open and   *)
(* ends once, one terminal item comes last and nothing follows it.         *)
(***************************************************************************)
EXTENDS StreamContract

CONSTANT Failure    \* the errors the stream can end with

VARIABLE out        \* the items the caller has received

Init == out = <<>>

Receive ==
    \E x \in ItemsFailingWith(Failure) :
        /\ MayFollow(out, x)
        /\ out' = Append(out, x)

Spec == Init /\ [][Receive]_out
=============================================================================
