------------------------------- MODULE Front --------------------------------
(***************************************************************************)
(* How acta_cli makes a call of a command line: two passes over the        *)
(* tokens, the schema that --tools publishes, the vocabulary of options,   *)
(* what every handler reads, and the stages of cli_main from the first     *)
(* token to the exit code.                                                 *)
(*                                                                         *)
(* Four tables must agree about every one of the 76 commands: the schema   *)
(* (tools.c), the vocabulary that says which option takes a value          *)
(* (argparse.c), the handlers (commands/*.c) and the list of entities      *)
(* (commands.c).  A token is a word or an option with or without "=value"; *)
(* which word it is, is its place.                                         *)
(***************************************************************************)
EXTENDS Integers, Sequences, FiniteSets, SequencesExt

CONSTANTS
    Commands,   \* bound: the <<entity, action>> pairs that are tried
    Foreign,    \* bound: the tokens tried besides the command's own options
    Leading,    \* bound: the tokens tried before the entity
    MaxTail     \* bound: how many tokens follow the action

ASSUME FrontAssumption == MaxTail \in Nat

VARIABLES
    cmd,        \* the entity and the action that are meant
    argv,       \* the tokens
    at,         \* the stage that cli_main has reached
    rc,         \* the exit code, once it has ended
    did,        \* the handler has done its work and printed its payload
    shown,      \* help, version or schema was printed
    out,        \* the file of --out
    stdout,     \* what a pipe behind the command has got
    read        \* the positionals the handler has taken

frontVars == <<cmd, argv, at, rc, did, shown, out, stdout, read>>

Take(n, values, switches) == [need |-> n, most |-> n, values |-> values, switches |-> switches]
Id == Take(1, {}, {})
Help == [need |-> 0, most |-> 1, values |-> {}, switches |-> {}]
OptionalParent == Help
Paging == {"offset", "limit"}

-----------------------------------------------------------------------------
(* The schema: positionals and options of every command, as --tools prints
   them (the options that pass 1 takes are listed there too, not here).      *)

SchemaDb == [init |-> Take(0, {}, {}), migrate |-> Take(0, {}, {}),
             version |-> Take(0, {}, {}), backup |-> Take(0, {"to"}, {})]

SchemaContext == [create |-> Take(0, {"type", "content", "content_file", "hash", "metadata"}, {}),
                  get |-> Take(1, {}, {"include_deleted"}), delete |-> Id, restore |-> Id,
                  list |-> Take(0, Paging \cup {"type", "hash"}, {"include_deleted", "full"}),
                  count |-> Take(0, {"type", "hash"}, {"include_deleted"})]

ModelFields == {"name", "backend", "model_identifier", "folder_id", "description", "base_url",
                "configuration"}
SchemaModel == [create |-> Take(0, ModelFields, {}), get |-> Take(1, {}, {"include_deleted"}),
                update |-> Take(1, ModelFields, {}), delete |-> Id, restore |-> Id,
                move |-> Take(1, {"folder_id"}, {}),
                list |-> Take(0, Paging \cup {"folder_id"}, {"include_deleted"}),
                count |-> Take(0, {"folder_id"}, {"include_deleted"})]

SchemaModelFolder == [create |-> Take(0, {"name", "parent_id"}, {}), get |-> Id,
                      list |-> Take(0, Paging \cup {"parent_id"}, {}),
                      count |-> Take(0, {"parent_id"}, {}), rename |-> Take(1, {"name"}, {}),
                      delete |-> Id, restore |-> Id, move |-> Take(1, {"parent_id"}, {})]

SchemaModelRevision == [get |-> Id, latest |-> Id, list |-> Take(1, Paging, {"include_deleted"}),
                        count |-> Take(1, {}, {"include_deleted"})]

SkillFields == {"name", "prompt_template", "folder_id", "description", "output_schema"}
SchemaSkill == [create |-> Take(0, SkillFields, {}), get |-> Take(1, {}, {"include_deleted"}),
                update |-> Take(1, SkillFields, {}), delete |-> Id, restore |-> Id,
                move |-> Take(1, {"folder_id"}, {}),
                list |-> Take(0, Paging \cup {"folder_id"}, {"all", "include_deleted"}),
                count |-> Take(0, {"folder_id"}, {"all", "include_deleted"})]

SchemaSkillFolder == [create |-> Take(0, {"name", "parent_id"}, {}), get |-> Id,
                      list |-> [OptionalParent EXCEPT !.values = Paging],
                      count |-> OptionalParent, rename |-> Take(1, {"name"}, {}),
                      delete |-> Id, restore |-> Id, move |-> Take(1, {"parent_id"}, {})]

SchemaSkillRevision == [get |-> Id, latest |-> Id, list |-> Take(1, Paging, {}), count |-> Id]

ExecFilters == {"status", "context_id", "skill_revision_id", "model_revision_id",
                "parent_execution_id"}
SchemaExec == [create |-> Take(0, ExecFilters \ {"status"}, {}),
               get |-> Take(1, {}, {"include_deleted"}), delete |-> Id, restore |-> Id,
               start |-> Id, cancel |-> Id, complete |-> Take(1, {"result", "result_file"}, {}),
               fail |-> Take(1, {"error"}, {}), reset |-> Id,
               setraw |-> Take(1, {"raw", "raw_file"}, {}),
               list |-> Take(0, Paging \cup ExecFilters, {"include_deleted", "full"}),
               count |-> Take(0, ExecFilters, {"include_deleted"})]

SchemaLog == [create |-> Take(0, {"execution_id", "level", "event", "message", "metadata"}, {}),
              get |-> Id, list |-> Take(1, Paging \cup {"level"}, {}),
              count |-> Take(1, {"level"}, {})]

Schema == [db |-> SchemaDb, context |-> SchemaContext, model |-> SchemaModel,
           model_folder |-> SchemaModelFolder, model_revision |-> SchemaModelRevision,
           skill |-> SchemaSkill, skill_folder |-> SchemaSkillFolder,
           skill_revision |-> SchemaSkillRevision, exec |-> SchemaExec, log |-> SchemaLog]

-----------------------------------------------------------------------------
(* The handlers: how many positionals each takes and which options it looks
   for, among them a few that it looks for to refuse them.                   *)

SqlFlags == Take(0, {"sql", "file"}, {"sql_stdin"})
DbReads == [init |-> SqlFlags, migrate |-> SqlFlags, version |-> Take(0, {}, {}),
            backup |-> Take(0, {"to"}, {})]

ContextReads ==
    [create |-> Take(0, {"type", "content", "content_file", "hash", "metadata"}, {}),
     get |-> Take(1, {}, {"include_deleted"}), delete |-> Id, restore |-> Id,
     list |-> Take(0, {"type", "hash", "offset", "limit"}, {"include_deleted", "full"}),
     count |-> Take(0, {"type", "hash"}, {"include_deleted"})]

ModelReads ==
    LET fields == {"name", "folder_id", "description", "backend", "base_url",
                   "model_identifier", "configuration"} IN
    [create |-> Take(0, fields, {}), update |-> Take(1, fields, {}),
     get |-> Take(1, {}, {"include_deleted"}), delete |-> Id, restore |-> Id,
     move |-> Take(1, {"folder_id"}, {}),
     list |-> Take(0, {"folder_id", "offset", "limit"}, {"include_deleted"}),
     count |-> Take(0, {"folder_id"}, {"include_deleted"})]

ModelFolderReads ==
    [create |-> Take(0, {"name", "parent_id"}, {}), get |-> Id, delete |-> Id, restore |-> Id,
     rename |-> Take(1, {"name"}, {}), move |-> Take(1, {"parent_id"}, {}),
     list |-> Take(0, {"parent_id", "offset", "limit"}, {}),
     count |-> Take(0, {"parent_id"}, {})]

ModelRevisionReads ==
    [get |-> Id, latest |-> Id, count |-> Take(1, {}, {"include_deleted"}),
     list |-> Take(1, {"offset", "limit"}, {"include_deleted"})]

SkillReads ==
    LET fields == {"name", "folder_id", "description", "prompt_template", "output_schema"} IN
    [create |-> Take(0, fields, {}), update |-> Take(1, fields, {}),
     get |-> Take(1, {}, {"include_deleted"}), delete |-> Id, restore |-> Id,
     move |-> Take(1, {"folder_id"}, {}),
     list |-> Take(0, {"folder_id", "offset", "limit"}, {"all", "include_deleted"}),
     count |-> Take(0, {"folder_id"}, {"all", "include_deleted"})]

SkillFolderReads ==
    [create |-> Take(0, {"name", "parent_id"}, {}), get |-> Id, delete |-> Id, restore |-> Id,
     rename |-> Take(1, {"name"}, {}), move |-> Take(1, {"parent_id"}, {}),
     list |-> [OptionalParent EXCEPT !.values = {"offset", "limit"}], count |-> OptionalParent]

SkillRevisionReads == [get |-> Id, latest |-> Id, count |-> Id,
                       list |-> Take(1, {"offset", "limit"}, {})]

ExecReads ==
    LET filters == {"status", "context_id", "skill_revision_id", "model_revision_id",
                    "parent_execution_id"} IN
    [create |-> Take(0, filters, {}), get |-> Take(1, {}, {"include_deleted"}),
     delete |-> Id, restore |-> Id, start |-> Id, cancel |-> Id,
     complete |-> Take(1, {"result", "result_file"}, {}), fail |-> Take(1, {"error"}, {}),
     reset |-> Id, setraw |-> Take(1, {"raw", "raw_file"}, {}),
     list |-> Take(0, filters \cup {"offset", "limit"}, {"include_deleted", "full"}),
     count |-> Take(0, filters, {"include_deleted"})]

LogReads ==
    [create |-> Take(0, {"execution_id", "level", "event", "message", "metadata"}, {}),
     get |-> Id, list |-> Take(1, {"level", "offset", "limit"}, {}),
     count |-> Take(1, {"level"}, {})]

Handlers == [db |-> DbReads, context |-> ContextReads, model |-> ModelReads,
             model_folder |-> ModelFolderReads, model_revision |-> ModelRevisionReads,
             skill |-> SkillReads, skill_folder |-> SkillFolderReads,
             skill_revision |-> SkillRevisionReads, exec |-> ExecReads, log |-> LogReads]

KnownEntity == cmd[1] \in DOMAIN Handlers
IsHelp == cmd[2] = "help"
KnownAction == KnownEntity /\ (IsHelp \/ cmd[2] \in DOMAIN Handlers[cmd[1]])
Reads == IF IsHelp THEN Help ELSE Handlers[cmd[1]][cmd[2]]
Published == IF IsHelp THEN Take(0, {}, {}) ELSE Schema[cmd[1]][cmd[2]]

-----------------------------------------------------------------------------
(* Pass 1                                                                    *)

GlobalValues == {"db", "fields", "json", "from_file", "out", "raw_out"}
GlobalSwitches == {"help", "version", "tools", "no_nulls", "id_only", "count", "table",
                   "stream", "pretty", "compact", "verbose", "stdin"}

(* The tokens an invocation is tried with.                                   *)
Word == [f |-> "word", eq |-> FALSE]
Own == IF KnownAction THEN Reads.values \cup Reads.switches ELSE {}
Tokens == {Word} \cup [f : Own, eq : BOOLEAN] \cup Foreign
Command == <<[f |-> "entity", eq |-> FALSE], [f |-> "action", eq |-> FALSE]>>

Init == /\ cmd \in Commands
        /\ \E lead \in {<<>>} \cup {<<t>> : t \in Leading}, n \in 0..2,
              k \in 0..MaxTail :
              /\ n < 2 \/ lead # <<>> => k <= 1
              /\ \E tail \in [1..k -> Tokens] : argv = lead \o SubSeq(Command, 1, n) \o tail
        /\ at = "start" /\ rc = 0 /\ did = FALSE /\ shown = FALSE
        /\ out = "untouched" /\ stdout = "empty" /\ read = <<>>

IsWord(i) == argv[i].f \in {"word", "entity", "action"}

(* A global option that takes a value takes the next token, whatever it is.  *)
Eaten == LET eaten[i \in 0..Len(argv)] ==
                 i > 1 /\ ~eaten[i - 1] /\ argv[i - 1].f \in GlobalValues /\ ~argv[i - 1].eq
         IN  {i \in DOMAIN argv : eaten[i]}
IsGlobal(i) == \/ argv[i].f \in GlobalValues \cup {"verbose"}
               \/ argv[i].f \in GlobalSwitches /\ ~argv[i].eq
Globals == {i \in DOMAIN argv \ Eaten : IsGlobal(i)}
Has(f) == \E i \in Globals : argv[i].f = f

(* What is left for pass 2: the entity, the action and their arguments.      *)
InOrder(S) == [n \in 1..Cardinality(S) |-> CHOOSE i \in S : Cardinality({j \in S : j <= i}) = n]
Rest == InOrder(DOMAIN argv \ (Eaten \cup Globals))
Args == IF Len(Rest) < 2 THEN <<>> ELSE SubSeq(Rest, 3, Len(Rest))

ValueIsMissing == /\ argv # <<>> /\ Len(argv) \in Globals
                  /\ argv[Len(argv)].f \in GlobalValues /\ ~argv[Len(argv)].eq

-----------------------------------------------------------------------------
(* Slips the properties have to catch, never used by the specification.      *)

(* The walkers skip the token after any option, as they once did.            *)
TakesValue_Legacy(f) == TRUE

(* The help token is only looked for in front of the entity.                 *)
Shows_InFront == Has("version") \/ Has("tools") \/ (Has("help") /\ argv[1].f = "help")

(* The count of positionals is one too high.                                 *)
Declared_More == IF ~KnownAction THEN -1 ELSE 1 + Published.most

(* An option is not entered in the vocabulary's table of values.             *)
TakesValue_Forgotten(f) == f \notin {"all", "count", "deleted", "full", "include_deleted",
                                     "stream"}

-----------------------------------------------------------------------------
(* Pass 2: the vocabulary of all the entities, and the walkers over it       *)

Vocabulary == {"all", "backend", "base_url", "configuration", "content", "content_file",
    "context_id", "count", "deleted", "description", "error", "event", "execution_id", "file",
    "full", "folder_id", "hash", "include_deleted", "level", "limit", "message", "metadata",
    "model_identifier", "model_revision_id", "name", "offset", "output_schema",
    "parent_execution_id", "parent_id", "prompt_template", "raw", "raw_file", "result",
    "result_file", "skill_revision_id", "sql", "sql_stdin", "status", "stream", "to", "type"}
TakesValue(f) == f \notin {"all", "count", "deleted", "full", "include_deleted", "sql_stdin",
                           "stream"}

(* --deleted, with or without a value, becomes --include_deleted.            *)
Option(k) == LET t == argv[Args[k]] IN
    IF t.f = "deleted" THEN [f |-> "include_deleted", eq |-> FALSE] ELSE t

IsValue(k) == /\ k > 1 /\ IsWord(Args[k]) /\ ~IsWord(Args[k - 1])
              /\ TakesValue(Option(k - 1).f) /\ ~Option(k - 1).eq
Positionals == InOrder({k \in DOMAIN Args : IsWord(Args[k]) /\ ~IsValue(k)})

IsValid == \A k \in DOMAIN Args : ~IsWord(Args[k]) =>
    /\ Option(k).f \in Vocabulary
    /\ TakesValue(Option(k).f) /\ ~Option(k).eq => k < Len(Args) /\ IsWord(Args[k + 1])

(* The first occurrence of an option decides; 0 stands for a value in the
   token itself, and for none.                                               *)
ValueOf(f) == LET ks == {k \in DOMAIN Args : Option(k).f = f} IN
    IF ks = {} \/ Option(Min(ks)).eq \/ Min(ks) = Len(Args) THEN 0 ELSE Args[Min(ks) + 1]
IsOn(f) == \E k \in DOMAIN Args : Option(k).f = f

-----------------------------------------------------------------------------
(* cli_main                                                                  *)

Ends(code) == at' = "end" /\ rc' = code
Quiet == UNCHANGED <<did, shown, out, stdout, read>>
Unchanged == UNCHANGED <<cmd, argv>>

(* --version ends pass 1 where it stands; --help and --tools wait for its end.
   --tools drops what is left of the line, and --help then shows all there is. *)
Shows == Has("version") \/ Has("help") \/ Has("tools")
HelpIsThere == Rest = <<>> \/ (Len(Rest) = 1 /\ KnownEntity) \/ (Len(Rest) > 1 /\ KnownAction)
RestIsCommand == /\ Rest # <<>> => argv[Rest[1]].f = "entity"
                 /\ Len(Rest) > 1 => argv[Rest[2]].f = "action"

(* A level of --verbose that is no number, unless --version comes first.      *)
LevelMayBeWrong == \E i \in Globals : /\ argv[i].f = "verbose" /\ argv[i].eq
                                      /\ \A j \in Globals : argv[j].f = "version" => i < j

Scan == /\ at = "start"
        /\ \/ /\ LevelMayBeWrong \/ (ValueIsMissing /\ ~Has("version"))
              /\ Ends(10) /\ Quiet
           \/ /\ Shows /\ (~ValueIsMissing \/ Has("version"))
              /\ \/ /\ Has("version") \/ Has("tools") \/ (HelpIsThere /\ RestIsCommand)
                    /\ Ends(0) /\ shown' = TRUE /\ stdout' = "help"
                    /\ UNCHANGED <<did, out, read>>
                 \/ /\ ~Has("version") /\ ~Has("tools") /\ ~(HelpIsThere /\ RestIsCommand)
                    /\ Ends(10) /\ Quiet
           \/ /\ ~ValueIsMissing /\ ~Shows
              /\ IF Len(Rest) < 2 \/ ~IsValid THEN Ends(10)
                 ELSE at' = "parsed" /\ UNCHANGED rc
              /\ Quiet
        /\ Unchanged

(* --raw_out is for two commands; the file of --out is emptied here.         *)
RawOutIsWrong == /\ Has("raw_out")
                 /\ ~(RestIsCommand /\ cmd \in {<<"context", "get">>, <<"exec", "get">>})
Redirect == /\ at = "parsed"
            /\ \/ /\ RawOutIsWrong /\ Ends(10) /\ UNCHANGED out
               \/ /\ ~RawOutIsWrong /\ ~Has("out")
                  /\ at' = "redirected" /\ UNCHANGED <<rc, out>>
               \/ /\ ~RawOutIsWrong /\ Has("out")
                  /\ \/ at' = "redirected" /\ out' = "emptied" /\ UNCHANGED rc
                     \/ Ends(10) /\ UNCHANGED out
            /\ Unchanged /\ UNCHANGED <<did, shown, stdout, read>>

(* A configuration that cannot be read is 10, a database that cannot be
   opened is 11.                                                             *)
OpenDb == /\ at = "redirected"
          /\ \/ at' = "open" /\ UNCHANGED rc
             \/ Ends(10)
             \/ Ends(11)
          /\ Quiet /\ Unchanged

(* Positionals are counted against the schema before the handler runs.       *)
Declared == IF ~KnownAction THEN -1 ELSE IF IsHelp THEN 1 ELSE Published.most
Dispatch == /\ at = "open"
            /\ \/ /\ \/ ~RestIsCommand \/ ~KnownEntity
                     \/ Declared >= 0 /\ Len(Positionals) > Declared
                  /\ Ends(10)
               \/ /\ RestIsCommand /\ KnownEntity
                  /\ Declared < 0 \/ Len(Positionals) <= Declared
                  /\ at' = "handler" /\ UNCHANGED rc
            /\ Quiet /\ Unchanged

Payload == IF Has("out") THEN out' = "payload" /\ UNCHANGED stdout
         ELSE stdout' = "payload" /\ UNCHANGED out

(* A handler reads its positionals, and may refuse what they and its options
   say (missing, no number, a row that is not there, a failing statement)
   before it does anything.  It prints last.                                 *)
Refuse == /\ at = "handler"
          /\ \E code \in {1, 2, 3, 4, 10} : /\ ~KnownAction => code = 10
                                            /\ Ends(code)
          /\ Quiet /\ Unchanged
Handle == /\ at = "handler" /\ KnownAction /\ Len(Positionals) >= Reads.need
          /\ read' = SubSeq(Positionals, 1, Min({Reads.most, Len(Positionals)}))
          /\ did' = TRUE /\ at' = "handled"
          /\ Payload
          /\ Unchanged /\ UNCHANGED <<rc, shown>>

(* What the handler has left over is an error now; the file is flushed and
   closed without a look at how that ended.                                  *)
Leave == /\ at = "handled"
         /\ Ends(IF Len(Positionals) > Len(read) THEN 10 ELSE 0)
         /\ out' \in IF out = "payload" THEN {"payload", "cut"} ELSE {out}
         /\ Unchanged /\ UNCHANGED <<did, shown, stdout, read>>

Finished == at = "end" /\ UNCHANGED frontVars

Next == Scan \/ Redirect \/ OpenDb \/ Dispatch \/ Refuse \/ Handle \/ Leave \/ Finished

Spec == Init /\ [][Next]_frontVars

-----------------------------------------------------------------------------
(* The grammar that --tools publishes, without passes and walkers: a value
   stands behind its option, every other word is a positional, no option is
   given twice.                                                              *)

After == {i \in DOMAIN argv : i > 2}
SchemaValue(f) == f \in Published.values \cup GlobalValues
SchemaKnows(i) == argv[i].f \in Published.values \cup Published.switches \cup
                                GlobalValues \cup GlobalSwitches
ValueAt(i) == i > 3 /\ ~IsWord(i - 1) /\ SchemaValue(argv[i - 1].f) /\ ~argv[i - 1].eq
Meant == InOrder({i \in After : IsWord(i) /\ ~ValueAt(i)})
InSchema ==
    /\ KnownAction /\ ~IsHelp
    /\ Len(argv) >= 2 /\ SubSeq(argv, 1, 2) = Command
    /\ \A i \in After : ~IsWord(i) =>
           /\ SchemaKnows(i)
           /\ SchemaValue(argv[i].f) /\ ~argv[i].eq => i < Len(argv) /\ IsWord(i + 1)
           /\ argv[i].eq => SchemaValue(argv[i].f)
           /\ \A j \in After \ {i} : argv[j].f # argv[i].f
    /\ Len(Meant) \in Published.need..Published.most

-----------------------------------------------------------------------------
(* Properties *)

(* A command line that is refused as such has done nothing and printed
   nothing: the handler consumes as many positionals as the schema says, so
   what is left over is found before it runs, never after it.                *)
RefusedDoesNothing == at = "end" /\ rc \in {10, 11} => ~did /\ stdout = "empty" /\ ~shown

(* An invocation that the published schema allows is not refused by the
   parser, and reaches the handler as it was meant: the same words are its
   positionals, and each option has the word behind it.                      *)
SchemaIsObeyed ==
    /\ InSchema /\ ~Shows => ~ValueIsMissing /\ IsValid /\ Len(Positionals) <= Declared
    /\ at \in {"handler", "handled"} /\ InSchema =>
          /\ Len(Positionals) = Len(Meant)
          /\ \A n \in DOMAIN Meant : Args[Positionals[n]] = Meant[n]
          /\ \A i \in After : argv[i].f \in Reads.values /\ ~argv[i].eq
                             => ValueOf(argv[i].f) = i + 1
          /\ \A i \in After : argv[i].f \in Reads.switches => IsOn(argv[i].f)

(* No word is swallowed: when a command has succeeded, each word was a
   positional that the handler took, or stood behind an option that takes a
   value.                                                                    *)
NoWordIsSwallowed ==
    did /\ at = "end" /\ rc = 0 =>
       \A i \in DOMAIN argv : argv[i].f = "word" =>
          \/ i \in Eaten
          \/ \E n \in DOMAIN read : Args[read[n]] = i
          \/ \E k \in DOMAIN Args : /\ k > 1 /\ Args[k] = i
                                    /\ \E c \in DOMAIN Handlers : \E a \in DOMAIN Handlers[c] :
                                          Option(k - 1).f \in Handlers[c][a].values

(* --help, --version and --tools, wherever they stand, keep the command from
   running: no file is emptied, no database opened.                          *)
ShowTouchesNothing ==
    (\E i \in DOMAIN argv \ Eaten : argv[i].f \in {"help", "version", "tools"} /\ ~argv[i].eq)
    => at \in {"start", "end"} /\ out = "untouched" /\ ~did

-----------------------------------------------------------------------------
(* What the documents say and the code does not do                           *)

(* Exit code 0 and --out: the file holds the payload.                        *)
OutIsWhole == did /\ at = "end" /\ rc = 0 => out # "cut"
=============================================================================
