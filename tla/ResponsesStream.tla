-------------------------- MODULE ResponsesStream ---------------------------
(***************************************************************************)
(* ResponsesStream (codecs/openai/stream.rs): items are known by their id, *)
(* and the event that ends an item carries the whole of it.  The decoder's *)
(* own fields: the blocks that were given content, the entry of the last   *)
(* reasoning fragment of each, and the items that turned out to be         *)
(* model-internal calls, which have no name.                               *)
(***************************************************************************)
EXTENDS DecodedStream

ItemId(n) == <<"item", n>>

ReplayId(id) == <<"replay", id[2]>>

ItemKinds == {"Text", "Reasoning", "Call", "NamelessCall", "Other"}

\* Entries of a reasoning item are joined by a blank line.
Blank == <<"blank">>

\* What an item may carry when it is done.
Wholes == MaybeText \cup {s \o t : s, t \in Texts} \cup {s \o Blank \o t : s, t \in Texts}

ResponsesEvents ==
    LET Item == {ItemId(n) : n \in Index}
    IN       [type : {"added"}, id : Item, kind : ItemKinds]
        \cup [type : {"text", "arguments"}, id : Item, text : MaybeText]
        \cup [type : {"reasoning"}, id : Item, list : {"content", "summary"},
              entry : Index, text : MaybeText]
        \cup [type : {"done"}, id : Item, kind : ItemKinds, whole : Wholes]
        \cup [type : {"completed"}, reason : MaybeReason, counted : BOOLEAN]
        \cup [type : {"refusal", "unparsable", "unknown", "[DONE]"}]

ResponsesNew == [delivered |-> {}, entries |-> <<>>, skipped |-> {}]

Responses(a) == Decode(a, own)

\* Any event but a failure starts the stream.
Latched == Started(asm)

\* start_item: only a call opens its block before content arrives.
StartItem(a, id, kind) ==
    IF kind = "Call" THEN RepairIdentity(Start(a, id, kind), id, kind) ELSE a

ItemAdded(id, kind) ==
    Decode(StartItem(Latched, id, kind),
           IF kind = "NamelessCall" THEN [own EXCEPT !.skipped = @ \cup {id}] ELSE own)

TextDelta(id, text) ==
    Decode(Text(Latched, id, text), [own EXCEPT !.delivered = @ \cup {id}])

\* The first fragment of a later entry of the same list brings the separator.
ReasoningEntryDelta(id, list, n, text) ==
    LET later == /\ id \in DOMAIN own.entries
                 /\ own.entries[id][1] = list
                 /\ n > own.entries[id][2]
    IN  Decode(Reasoning(Latched, id, IF later THEN Blank \o text ELSE text),
               [own EXCEPT
                  !.delivered = @ \cup {id},
                  !.entries = [i \in DOMAIN @ \cup {id} |-> IF i = id THEN <<list, n>> ELSE @[i]]])

ArgumentsDelta(id, text) ==
    IF id \in own.skipped THEN Responses(Latched)
    ELSE Decode(Arguments(Latched, id, text), [own EXCEPT !.delivered = @ \cup {id}])

\* opaque_item: the whole item, under an id of its own if its id carried content.
Replay(a, id, delivered) ==
    LET opaque == IF id \in delivered THEN ReplayId(id) ELSE id
    IN  End(SetOpaqueData(Start(a, opaque, "Opaque"), opaque, <<"item">>), opaque)

\* end_item and end_reasoning: the whole item is the ground truth.
ItemEnds(id, kind, whole) ==
    LET a         == StartItem(Latched, id, kind)
        heard     == whole # <<>> /\ kind \in {"Text", "Reasoning", "Call"}
        latchKind == IF kind = "Call" THEN "NamelessCall" ELSE kind
        b         == IF heard THEN Reconcile(a, id, latchKind, whole) ELSE a
        delivered == own.delivered \cup (IF heard THEN {id} ELSE {})
        ended     == End(b, id)
    IN  Decode(IF kind \in {"Text", "Reasoning"} THEN Replay(ended, id, delivered) ELSE ended,
               [own EXCEPT
                  !.delivered = delivered,
                  !.entries = IF kind = "Reasoning"
                              THEN [i \in DOMAIN @ \ {id} |-> @[i]] ELSE @])

\* The event that ends an item.  What fragments made of a model-internal call
\* before it was known as one is discarded.
ItemDone(id, kind, whole) ==
    IF id \in own.skipped THEN Responses(Latched)
    ELSE IF kind = "NamelessCall"
    THEN Decode(Discard(Latched, id), [own EXCEPT !.skipped = @ \cup {id}])
    ELSE ItemEnds(id, kind, whole)

\* complete, and salvage of a document that says less.
ResponseDone(reason, counted) ==
    LET a == IF reason = "None" THEN Latched
             ELSE SetFinish(Latched, Promoted(reason, HasCall(Latched)))
    IN  Responses(Complete(Counted(a, counted)))

ResponsesEvent(e) ==
    \/ e.type = "added" /\ ItemAdded(e.id, e.kind)
    \/ e.type = "text" /\ TextDelta(e.id, e.text)
    \/ e.type = "arguments" /\ ArgumentsDelta(e.id, e.text)
    \/ e.type = "reasoning" /\ ReasoningEntryDelta(e.id, e.list, e.entry, e.text)
    \/ e.type = "done" /\ ItemDone(e.id, e.kind, e.whole)
    \/ e.type = "completed" /\ ResponseDone(e.reason, e.counted)
    \/ e.type = "refusal" /\ Fail
    \/ e.type = "unknown" /\ Responses(Latched)
    \/ e.type = "unparsable" /\ Responses(asm)
    \/ e.type = "[DONE]" /\ Responses(Complete(asm))

ResponsesNext ==
    \/ \E e \in Upcoming("responses", ResponsesEvents) : ResponsesEvent(e)
    \/ Ends("responses") /\ Finish(Complete(asm))
=============================================================================
