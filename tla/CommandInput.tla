---------------------------- MODULE CommandInput -----------------------------
(***************************************************************************)
(* What lllm makes of its arguments: which command they name (app/args.rs),*)
(* and one request from prompt words, fragments, attachments and standard  *)
(* input (app/input.rs, app/attachment.rs, app/prompt.rs).                 *)
(*                                                                         *)
(* Text is a sequence of words and separators, bytes are a sequence of     *)
(* items of which Binary is no text, and a media type is its main type.    *)
(* Clap's grammar is the order of the options on the line.                 *)
(***************************************************************************)
EXTENDS Naturals, SequencesExt

CONSTANTS
    Holds,     \* of each local file and URL: what it holds, and what tells its media type
    Binary

None == "none"
Bad == "bad"
Stdin == "-"
Failed == [failed |-> TRUE]

Utf8(bytes) == Binary \notin Range(bytes)

Joined(texts, between) ==
    FlattenSeq([i \in DOMAIN texts |-> IF i = 1 THEN texts[i] ELSE between \o texts[i]])

----------------------------------------------------------------------------

CommandNames == {"prompt", "probe", "resolve", "models", "-h", "--help", "-V", "--version"}
Inline(argument) == argument = "--catalog=FILE"

\* has_explicit_command: the first argument after the global options.
FirstArgument(arguments) ==
    LET from[i \in 1..(Len(arguments) + 2)] ==
            IF i > Len(arguments) THEN None
            ELSE CASE arguments[i] = "--verbose" \/ Inline(arguments[i]) -> from[i + 1]
                 [] arguments[i] = "--catalog" -> from[i + 2]
                 [] OTHER -> arguments[i]
    IN from[1]

HasExplicitCommand(arguments) == FirstArgument(arguments) \in CommandNames

\* normalize_args, without the program's name.
NormalizeArgs(arguments) ==
    IF HasExplicitCommand(arguments) THEN arguments ELSE <<"prompt">> \o arguments

----------------------------------------------------------------------------

\* An option of the prompt command, in its place on the line.
Given(option, value, type) == [option |-> option, value |-> value, type |-> type]

Values(line, option) == [i \in DOMAIN SelectSeq(line, LAMBDA g : g.option = option) |->
                           SelectSeq(line, LAMBDA g : g.option = option)[i].value]

\* Mutant: the attachments with a type come after those without.
CollectByOption(line) ==
    SelectSeq(line, LAMBDA g : g.option = "attachment")
    \o SelectSeq(line, LAMBDA g : g.option = "attachment_type")

\* collect_attachments: of both options, in the order of the line.
CollectAttachments(line) == SelectSeq(line, LAMBDA g : g.option \in {"attachment", "attachment_type"})

\* attachment.rs: the type as given, or read from the bytes, or from the name.
MediaType(a) ==
    IF a.type # None \/ a.value = Stdin THEN a.type
    ELSE IF Holds[a.value].magic # None THEN Holds[a.value].magic ELSE Holds[a.value].extension

\* load, url_part, file_part, inline_part and classified_part.
Load(a, stdin) ==
    LET remote == a.value # Stdin /\ Holds[a.value].at = "url"
        source == IF remote THEN <<"url", a.value>>
                  ELSE <<"base64", IF a.value = Stdin THEN stdin ELSE Holds[a.value].bytes>>
        kind == CASE MediaType(a) = "image" -> "Image" [] MediaType(a) = "audio" -> "Audio"
                  [] OTHER -> "Document"
        name == IF kind = "Document" /\ a.value # Stdin THEN a.value ELSE None
    IN IF (a.value # Stdin /\ Holds[a.value].at = "missing") \/ MediaType(a) \in {None, Bad, "video"}
       THEN Failed
       ELSE [kind |-> kind, source |-> source, name |-> name]

\* read_text_file: a local file of UTF-8.
ReadTextFile(path) ==
    IF path = Stdin \/ Holds[path].at # "file" \/ ~Utf8(Holds[path].bytes)
    THEN Failed ELSE [kind |-> "Text", text |-> Holds[path].bytes]

StdinAttachments(line) ==
    {i \in DOMAIN CollectAttachments(line) : CollectAttachments(line)[i].value = Stdin}

ReadsStdin(line, terminal) ==
    Cardinality(StdinAttachments(line)) = 1 \/ (StdinAttachments(line) = {} /\ ~terminal)

\* The text of prepare: standard input before the words, unless it is attached.
PromptText(line, terminal, stdin) ==
    LET words == Joined([i \in DOMAIN Values(line, "word") |-> <<Values(line, "word")[i]>>], <<" ">>)
    IN IF StdinAttachments(line) # {} \/ terminal \/ stdin = <<>> THEN words
       ELSE IF words = <<>> THEN stdin ELSE stdin \o <<"\n">> \o words

\* The parts of prepare: fragments, then the text, then the attachments.
Parts(line, terminal, stdin) ==
    LET fragments == Values(line, "fragment")
        text == PromptText(line, terminal, stdin)
        attachments == CollectAttachments(line)
    IN [i \in DOMAIN fragments |-> ReadTextFile(fragments[i])]
       \o (IF text = <<>> THEN <<>> ELSE <<[kind |-> "Text", text |-> text]>>)
       \o [i \in DOMAIN attachments |-> Load(attachments[i], stdin)]

\* What prepare refuses.
InputFails(line, terminal, stdin) ==
    \/ Cardinality(StdinAttachments(line)) > 1
    \/ StdinAttachments(line) = {} /\ ~terminal /\ ~Utf8(stdin)
    \/ Parts(line, terminal, stdin) = <<>>
    \/ Failed \in Range(Parts(line, terminal, stdin))

\* system_text: the inline text, then the files.
SystemSections(line) ==
    LET files == Values(line, "system-fragment")
        inline == Values(line, "system")
    IN [i \in DOMAIN inline |-> [kind |-> "Text", text |-> <<inline[i]>>]]
       \o [i \in DOMAIN files |-> ReadTextFile(files[i])]

SystemText(line) ==
    LET sections == SystemSections(line)
    IN IF sections = <<>> THEN None ELSE Joined([i \in DOMAIN sections |-> sections[i].text], <<"\n\n">>)

----------------------------------------------------------------------------

\* concise_schema: a field is a name, a type and perhaps a description.
JsonType(kind) ==
    CASE kind \in {"", "str", "string"} -> "string" [] kind \in {"int", "integer"} -> "integer"
      [] kind \in {"float", "number"} -> "number" [] kind \in {"bool", "boolean"} -> "boolean"
      [] OTHER -> Bad

ConciseSchema(fields) ==
    LET names == {fields[i].name : i \in DOMAIN fields}
    IN IF Cardinality(names) # Len(fields) \/ "" \in names
          \/ \E i \in DOMAIN fields : JsonType(fields[i].type) = Bad
       THEN Failed
       ELSE [type |-> "object", required |-> [i \in DOMAIN fields |-> fields[i].name],
             properties |-> [n \in names |-> JsonType((CHOOSE f \in Range(fields) : f.name = n).type)]]

\* read_schema: a JSON object, inline or in a file, or the short form.
ReadSchema(raw) ==
    CASE raw.form = "short" -> ConciseSchema(raw.fields)
      [] raw.form \in {"file", "json"} -> raw.document

\* response_format.
ResponseFormat(flags) ==
    CASE "json_object" \in flags.is -> [type |-> "json_object"]
      [] "json_object" \notin flags.is /\ flags.schema.form # None ->
           LET read == ReadSchema(flags.schema)
           IN IF read = Failed THEN Failed
              ELSE [type |-> "json_schema", schema |-> IF "multi" \in flags.is THEN [items |-> read] ELSE read]
      [] OTHER -> [type |-> None]

\* apply_controls: each flag that was given, a cache key rather than no_cache,
\* and the options as JSON or text for the resolved provider.
ApplyControls(flags, provider) ==
    [controls |-> flags.is \cap {"max_output_tokens", "temperature", "top_p", "reasoning_effort",
                                 "speed", "timeout", "stop", "metadata"},
     cache |-> CASE "cache_key" \in flags.is -> "Key" [] flags.is \cap {"cache_key", "no_cache"} = {"no_cache"} -> "Disabled"
                 [] OTHER -> None,
     options |-> [i \in DOMAIN flags.options |-> <<provider, flags.options[i]>>]]

\* The request of prompt::run, or Failed.
BuildRequest(line, flags, terminal, stdin, provider) ==
    IF InputFails(line, terminal, stdin) \/ Failed \in Range(SystemSections(line))
       \/ ResponseFormat(flags) = Failed
    THEN Failed
    ELSE [system |-> SystemText(line), parts |-> Parts(line, terminal, stdin),
          format |-> ResponseFormat(flags), controls |-> ApplyControls(flags, provider)]

----------------------------------------------------------------------------

\* output.rs: a line of text and the fence that it opens.
Newline == "\n"
Fences == "three backticks" :> <<"backtick", 3>> @@ "four backticks" :> <<"backtick", 4>>
          @@ "three tildes" :> <<"tilde", 3>>

\* split_inclusive('\n'): a line ends behind a newline or with the text.
Newlines(text, i) == Cardinality({j \in 1..i : text[j] = Newline})
EndOfLine(text, k) == Cardinality({i \in DOMAIN text : Newlines(text, i - 1) < k})
Lines(text) ==
    IF text = <<>> THEN <<>>
    ELSE [k \in 1..(Newlines(text, Len(text) - 1) + 1) |->
             SubSeq(text, EndOfLine(text, k - 1) + 1, EndOfLine(text, k))]

OpeningFence(line) == line # <<>> /\ line[1] \in DOMAIN Fences
ClosingFence(line, opening) ==
    LET rest == SelectSeq(line, LAMBDA t : t # Newline)
    IN Len(rest) = 1 /\ OpeningFence(line)
       /\ Fences[line[1]][1] = Fences[opening[1]][1] /\ Fences[line[1]][2] >= Fences[opening[1]][2]

\* fenced_blocks: a closing fence ends the block that an earlier line opened.
NoScan == [opening |-> <<>>, content |-> <<>>, blocks |-> <<>>]
ReadLine(scan, line) ==
    IF scan.opening = <<>>
    THEN [opening |-> IF OpeningFence(line) THEN line ELSE <<>>, content |-> <<>>, blocks |-> scan.blocks]
    ELSE IF ClosingFence(line, scan.opening)
    THEN [opening |-> <<>>, content |-> scan.content, blocks |-> Append(scan.blocks, scan.content)]
    ELSE [opening |-> scan.opening, content |-> scan.content \o line, blocks |-> scan.blocks]

FencedBlocks(text) ==
    LET lines == Lines(text)
        scan[n \in 0..Len(lines)] == IF n = 0 THEN NoScan ELSE ReadLine(scan[n - 1], lines[n])
    IN scan[Len(lines)].blocks

\* extract_first and extract_last
Extract(mode, text) ==
    LET blocks == FencedBlocks(text)
    IN CASE mode = "extract" /\ blocks # <<>> -> Head(blocks)
         [] mode = "extract_last" /\ blocks # <<>> -> Last(blocks)
         [] OTHER -> text

=============================================================================
