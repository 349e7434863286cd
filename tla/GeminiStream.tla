---------------------------- MODULE GeminiStream ----------------------------
(***************************************************************************)
(* GeminiStreamDecoder (codecs/gemini/stream.rs).  The protocol has        *)
(* neither blocks nor fragments of calls: the decoder numbers the runs of  *)
(* text and of reasoning, and ends a run when another kind follows.  Its   *)
(* own fields: the open run, and how many runs and calls there have been.  *)
(*                                                                         *)
(* A chunk carries at most one part here; a chunk with several does what   *)
(* as many chunks would.                                                   *)
(***************************************************************************)
EXTENDS DecodedStream

NoRun == [id |-> <<>>, kind |-> "None"]

GeminiNew == [run |-> NoRun, texts |-> 0, thoughts |-> 0, calls |-> 0]

\* The parts of a candidate, with one of these texts; a call's text is its arguments.
GeminiParts(texts) ==
         [type : {"text", "functionCall"}, text : texts]
    \cup [type : {"thought"}, text : texts, signed : BOOLEAN]

GeminiEvents ==
    [part : GeminiParts(MaybeText) \cup [type : {"none"}],
     reason : MaybeReason, counted : BOOLEAN]
        \cup [part : [type : {"blocked", "[DONE]"}]]

\* usageMetadata and finishReason of a chunk.
Part(e, a, o) == Decode(Reported(Counted(a, e.counted), e.reason), o)

\* Runs::close
CloseRun(a) == IF own.run = NoRun THEN a ELSE End(a, own.run.id)

\* Runs::id_for: the open run goes on if it is of this kind.
RunOf(kind) ==
    IF own.run.kind = kind THEN own.run
    ELSE [id |-> <<kind, IF kind = "Text" THEN own.texts ELSE own.thoughts>>, kind |-> kind]

\* A text or thought part.  A signature seals the run of thoughts.
TextPart(e, kind) ==
    LET run  == RunOf(kind)
        isNew == run # own.run
        a    == IF isNew THEN CloseRun(Started(asm)) ELSE Started(asm)
        b    == IF kind = "Text" THEN Text(a, run.id, e.part.text)
                ELSE Reasoning(a, run.id, e.part.text)
        seal == kind = "Reasoning" /\ e.part.signed
    IN  Part(e, IF seal THEN End(Signature(b, run.id), run.id) ELSE b,
             [own EXCEPT
                !.run = IF seal THEN NoRun ELSE run,
                !.texts = IF isNew /\ kind = "Text" THEN @ + 1 ELSE @,
                !.thoughts = IF isNew /\ kind = "Reasoning" THEN @ + 1 ELSE @])

\* A function call arrives whole: the delta of its arguments is dropped.
WholeCall(a, id, arguments) ==
    IF OpenAs(a, id, "Call") THEN Grow(a, id, arguments) ELSE a

CallPart(e) ==
    LET id == <<"tool", own.calls>>
        a  == Start(CloseRun(Started(asm)), id, "Call")
    IN  Part(e, End(WholeCall(a, id, e.part.text), id),
             [own EXCEPT !.run = NoRun, !.calls = @ + 1])

\* Mutant: the reported reason stands although the turn called a tool.
GeminiFinishAsReported == Complete(CloseRun(asm))

GeminiFinish ==
    Complete(CloseRun(SetFinish(asm, Promoted(asm.finish, own.calls > 0))))

GeminiEvent(e) ==
    \/ e.part.type = "none" /\ Part(e, Started(asm), own)
    \/ e.part.type = "text" /\ TextPart(e, "Text")
    \/ e.part.type = "thought" /\ TextPart(e, "Reasoning")
    \/ e.part.type = "functionCall" /\ CallPart(e)
    \/ e.part.type = "blocked" /\ Fail
    \/ e.part.type = "[DONE]" /\ Decode(GeminiFinish, own)

GeminiNext ==
    \/ \E e \in Upcoming("gemini", GeminiEvents) : GeminiEvent(e)
    \/ Ends("gemini") /\ Finish(GeminiFinish)
=============================================================================
