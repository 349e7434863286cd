--------------------------- MODULE StreamContract ---------------------------
(***************************************************************************)
(* The vocabulary of one response stream and the contract its items keep   *)
(* (types/stream.rs).  Payloads are abstracted away: a text, reasoning or  *)
(* tool-call delta is a Delta of its block, Usage and RateLimits are the   *)
(* one event Accounting (every layer treats the two alike), and a finish   *)
(* reason is Incomplete or Complete (any other reason).                    *)
(***************************************************************************)
EXTENDS Naturals, Sequences

CONSTANT Block      \* content block ids; the sets of items below are built from it

Event ==
    [type : {"Started", "Accounting"}]
        \cup [type : {"BlockStart", "Delta", "BlockEnd"}, id : Block]

Ended == [type : {"Ended"}, finish : {"Complete", "Incomplete"}]

\* Everything a stream may yield when it can fail with one of the errors in F.
ItemsFailingWith(F) == Event \cup Ended \cup [type : {"Err"}, error : F]

Err(e) == [type |-> "Err", error |-> e]

IsTerminal(x) == x.type \in {"Ended", "Err"}

\* A response that ended without a finish reason of its own.
IsIncomplete(x) == x.type = "Ended" /\ x.finish = "Incomplete"

\* StreamEvent::is_visible
IsVisible(x) == x.type \in {"Delta", "BlockEnd", "Ended"}

----------------------------------------------------------------------------
Ids(type, h) == {h[i].id : i \in {j \in DOMAIN h : h[j].type = type}}

OpenBlocks(h) == Ids("BlockStart", h) \ Ids("BlockEnd", h)

\* May item x follow the history h?  An error may leave blocks open.
MayFollow(h, x) ==
    /\ \A i \in DOMAIN h : ~IsTerminal(h[i])
    /\ x.type = "Started" => \A i \in DOMAIN h : h[i].type # "Started"
    /\ x.type = "BlockStart" => x.id \notin Ids("BlockStart", h)
    /\ x.type \in {"Delta", "BlockEnd"} => x.id \in OpenBlocks(h)
    /\ x.type = "Ended" => OpenBlocks(h) = {}

\* Every item of h may follow the items before it.
KeepsContract(h) ==
    \A i \in 1..Len(h) : MayFollow(SubSeq(h, 1, i - 1), h[i])
=============================================================================
