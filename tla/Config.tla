------------------------------- MODULE Config -------------------------------
(***************************************************************************)
(* What the operator writes: server.cfg with its includes                  *)
(* (ald-servercfg, the server's config_loader) and the manifest of a       *)
(* resource (ald-fxmanifest).                                              *)
(*                                                                         *)
(* Text is abstracted to lines and tokens.  The recursion of the include   *)
(* resolver and of the table parser is a stack in the state.               *)
(***************************************************************************)
EXTENDS Integers, Sequences, FiniteSets, FiniteSetsExt, SequencesExt, Functions, Sums

CONSTANTS CfgFiles,         \* files under the configuration root
          RootCfg,          \* the one the server is started with
          CfgContents,      \* what a file may hold: sequences of lines
          MaxIncludeDepth,  \* MAX_INCLUDE_DEPTH (16 in the code)
          CfgResources,     \* resources server.cfg may name
          MaxCfgLines,      \* bound: directives of one server.cfg
          MaxTokens         \* bound: tokens of one manifest

-----------------------------------------------------------------------------
(* Includes.  A line is a directive or an exec of a target.  A target has  *)
(* a spelling: "./f" is normalised to "f", "d/./f" is another name of the  *)
(* same file, "../f" and "/f" leave the root, "" names nothing.            *)

VARIABLES cfgDir,           \* the files, in a content or absent
          includeStack,     \* the chain: [key, file, next]
          expanded,         \* the flat document
          includeStatus     \* "none", "running", "ok" or the error

includeVars == <<cfgDir, includeStack, expanded, includeStatus>>

NoFile == <<[k |-> "absent"]>>
Text == [k |-> "text"]
BadText == [k |-> "bad"]
Exec(f, spelled) == [k |-> "exec", file |-> f, spelled |-> spelled]

Spellings == {"plain", "dotted", "inner", "up", "absolute", "empty"}
CfgLine == {Text, BadText} \cup {Exec(f, spelled) : f \in CfgFiles, spelled \in Spellings}

ASSUME IncludeAssumption ==
    /\ RootCfg \in CfgFiles /\ MaxIncludeDepth \in Nat \ {0}
    /\ CfgContents \subseteq Seq(CfgLine)

(* The name a target has in the chain.                                     *)
normalize_owned(line) ==
    [file |-> line.file, spelled |-> IF line.spelled = "dotted" THEN "plain" ELSE line.spelled]

(* OsFs::read follows the path, whatever its spelling.                     *)
Readable(dir, f) == dir[f] # NoFile

(* parse_document reads the whole file before anything of it is used.      *)
Parses(dir, f) == \A i \in DOMAIN dir[f] : dir[f][i].k # "bad"

IncludeInit ==
    /\ cfgDir = [f \in CfgFiles |-> NoFile]
    /\ includeStack = <<>> /\ expanded = <<>>
    /\ includeStatus = "none"

(* External: the operator writes the files.                                *)
write_cfg_files ==
    /\ includeStatus = "none" /\ \A f \in CfgFiles : cfgDir[f] = NoFile
    /\ cfgDir' \in [CfgFiles -> CfgContents \cup {NoFile}]
    /\ UNCHANGED <<includeStack, expanded, includeStatus>>

IncludeFails(error) ==
    /\ includeStatus' = error
    /\ UNCHANGED <<cfgDir, includeStack, expanded>>

resolve_root ==
    /\ includeStatus = "none"
    /\ \/ ~Readable(cfgDir, RootCfg) /\ IncludeFails("IncludeMissing")
       \/ Readable(cfgDir, RootCfg) /\ ~Parses(cfgDir, RootCfg) /\ IncludeFails("ParseError")
       \/ /\ Readable(cfgDir, RootCfg) /\ Parses(cfgDir, RootCfg)
          /\ includeStack' = <<[key |-> [file |-> RootCfg, spelled |-> "plain"],
                                file |-> RootCfg, next |-> 1]>>
          /\ includeStatus' = "running"
          /\ UNCHANGED <<cfgDir, expanded>>

Top == Last(includeStack)
AtLine == includeStatus = "running" /\ Top.next <= Len(cfgDir[Top.file])
Line == cfgDir[Top.file][Top.next]
Advanced == Append(Front(includeStack), [key |-> Top.key, file |-> Top.file, next |-> Top.next + 1])

expand_line ==
    /\ AtLine /\ Line.k = "text"
    /\ expanded' = Append(expanded, <<Top.file, Top.next>>)
    /\ includeStack' = Advanced
    /\ UNCHANGED <<cfgDir, includeStatus>>

InChain(key) == \E i \in DOMAIN includeStack : includeStack[i].key = key

(* The checks of expand_include, in its order.                             *)
IncludeError(line) ==
    CASE line.spelled = "empty"                   -> "InvalidValue"
      [] line.spelled = "absolute"                -> "IncludeOutsideRoot"
      [] line.spelled = "up"                      -> "IncludeTraversal"
      [] Len(includeStack) >= MaxIncludeDepth     -> "IncludeDepthLimit"
      [] InChain(normalize_owned(line))           -> "IncludeCycle"
      [] ~Readable(cfgDir, line.file)                     -> "IncludeMissing"
      [] ~Parses(cfgDir, line.file)                       -> "ParseError"
      [] OTHER                                    -> "none"

expand_include ==
    /\ AtLine /\ Line.k = "exec"
    /\ LET error == IncludeError(Line) IN
       \/ error # "none" /\ IncludeFails(error)
       \/ /\ error = "none"
          /\ includeStack' = Append(Advanced, [key |-> normalize_owned(Line),
                                               file |-> Line.file, next |-> 1])
          /\ UNCHANGED <<cfgDir, expanded, includeStatus>>

(* The end of a file: the chain is popped and the including file goes on.  *)
include_returns ==
    /\ includeStatus = "running" /\ ~AtLine
    /\ includeStack' = Front(includeStack)
    /\ includeStatus' = IF Len(includeStack) = 1 THEN "ok" ELSE "running"
    /\ UNCHANGED <<cfgDir, expanded>>

IncludeNext ==
    \/ write_cfg_files \/ resolve_root \/ expand_line
    \/ expand_include \/ include_returns

(* The reference: what line i of a file gives, if below[g] is what a file  *)
(* g gives that it includes; what the whole file gives; and what each file *)
(* gives with d levels left under it.  There is no chain in it: a cycle    *)
(* has no end within any number of levels.                                 *)
Failed == [ok |-> FALSE, lines |-> <<>>]
Part(dir, f, i, below) ==
    LET line == dir[f][i]
    IN  IF line.k = "text" THEN [ok |-> TRUE, lines |-> <<<<f, i>>>>]
        ELSE IF line.k = "exec" /\ line.spelled \in {"plain", "dotted", "inner"} THEN below[line.file]
        ELSE Failed
PartLines(dir, f, below) == [i \in 1..Len(dir[f]) |-> Part(dir, f, i, below).lines]
Whole(dir, f, below) ==
    IF ~Readable(dir, f) \/ ~Parses(dir, f) THEN Failed
    ELSE [ok |-> \A i \in 1..Len(dir[f]) : Part(dir, f, i, below).ok,
          lines |-> Concat(Len(dir[f]), PartLines(dir, f, below))]
Flat(dir) ==
    LET flat[d \in 0..MaxIncludeDepth] ==
            IF d = 0 THEN [f \in CfgFiles |-> Failed] ELSE [f \in CfgFiles |-> Whole(dir, f, flat[d - 1])]
    IN  flat

(* The resolver accepts exactly the trees of includes that end within the  *)
(* depth limit, a file included several times side by side among them, and *)
(* gives their lines in the order of the files; the chain is never deeper  *)
(* than the limit and holds no name twice.                                 *)
IncludesExact ==
    /\ Len(includeStack) <= MaxIncludeDepth
    /\ \A i, j \in DOMAIN includeStack : i # j => includeStack[i].key # includeStack[j].key
    /\ includeStatus = "ok" =>
           LET flat == Flat(cfgDir)[MaxIncludeDepth][RootCfg] IN flat.ok /\ expanded = flat.lines
    /\ includeStatus \notin {"none", "running", "ok"} => ~Flat(cfgDir)[MaxIncludeDepth][RootCfg].ok

-----------------------------------------------------------------------------
(* server.cfg, directive by directive, and the server's own configuration  *)
(* made from it.  A value is a word; parse_u32 gives it a number.          *)

VARIABLES norm,             \* NormalizedServerConfig
          cfgLines,         \* the directives applied so far (history)
          cfgEnv,           \* the environment variable secrets refer to
          cfgStatus,        \* "reading", "error", "accepted", "loaded", "refused"
          server,           \* the parts of Config taken over
          secretRead        \* the last answer of secret()

normVars == <<norm, cfgLines, cfgEnv, cfgStatus, server, secretRead>>

TYPED_DIRECTIVES == {"sv_maxclients", "sv_endpoint", "endpoint_add_udp"}
ConvarNames == TYPED_DIRECTIVES \cup {"motd", "db_password"}
looks_secret(k) == k = "db_password"
Scopes == [set |-> "Local", setr |-> "Replicated", sets |-> "Public"]
WordsFor(k) == IF k = "sv_maxclients" THEN {"0", "16", "2000", "many"}
               ELSE IF k = "sv_endpoint" THEN {"addr1", ""} ELSE {"word"}
parse_u32(w) == CASE w = "0" -> 0 [] w = "16" -> 16 [] w = "2000" -> 2000 [] OTHER -> -1

NoMap == [k \in {} |-> "none"]

DefaultConfig == [max_players |-> 64, bind |-> "default", enabled |-> <<>>]

NormInit ==
    /\ norm = [max |-> -1, endpoint |-> "unset", endpoints |-> <<>>, convars |-> NoMap,
               secrets |-> NoMap, resources |-> <<>>, aces |-> <<>>, principals |-> <<>>]
    /\ cfgLines = <<>> /\ cfgEnv = "unset" /\ cfgStatus = "reading"
    /\ server = DefaultConfig /\ secretRead = "none"

Reading == cfgStatus = "reading" /\ Len(cfgLines) < MaxCfgLines
Reads(d, n) ==
    /\ norm' = n
    /\ cfgLines' = Append(cfgLines, d)
    /\ UNCHANGED <<cfgEnv, cfgStatus, server, secretRead>>
Rejects == cfgStatus' = "error" /\ UNCHANGED <<norm, cfgLines, cfgEnv, server, secretRead>>

(* BTreeMap::insert.                                                       *)
Put(map, k, x) == [j \in DOMAIN map \cup {k} |-> IF j = k THEN x ELSE map[j]]

(* The typed arms; `shown` is the first argument, which for a name without *)
(* an arm is what gets stored, also when it is the key of a set line.      *)
apply_typed(d, shown) ==
    \/ /\ d.key = "sv_maxclients"
       /\ IF parse_u32(d.val) = -1 THEN Rejects
          ELSE Reads(d, [norm EXCEPT !.max = parse_u32(d.val)])
    \/ d.key = "sv_endpoint" /\ Reads(d, [norm EXCEPT !.endpoint = d.val])
    \/ /\ d.key \notin {"sv_maxclients", "sv_endpoint"}
       /\ Reads(d, [norm EXCEPT !.convars = Put(norm.convars, d.key, [scope |-> "Local", val |-> shown])])

(* set, setr and sets of a name without a typed field.                     *)
apply_convar(d) ==
    LET scope == Scopes[d.verb]
        conflicts == d.key \in DOMAIN norm.convars /\ norm.convars[d.key].scope # scope
    IN  IF conflicts THEN Rejects
        ELSE Reads(d, [norm EXCEPT !.convars = Put(norm.convars, d.key, [scope |-> scope, val |-> d.val])])

(* set, setr and sets do the same to a typed name, so one stands for all.  *)
VerbsFor(k) == IF k \in TYPED_DIRECTIVES THEN {"set"} ELSE DOMAIN Scopes

(* Mutant: every set line is an opaque convar.                             *)
set_line_opaque ==
    /\ Reading
    /\ \E k \in ConvarNames : \E verb \in VerbsFor(k), w \in WordsFor(k) :
           apply_convar([verb |-> verb, key |-> k, val |-> w])

set_line ==
    /\ Reading
    /\ \E k \in ConvarNames : \E verb \in VerbsFor(k), w \in WordsFor(k) :
           LET d == [verb |-> verb, key |-> k, val |-> w] IN
           \/ k \in TYPED_DIRECTIVES /\ apply_typed(d, k)
           \/ k \notin TYPED_DIRECTIVES /\ apply_convar(d)

(* A bare verb: a typed directive or a convar of any name.                 *)
bare_line ==
    /\ Reading
    /\ \E k \in ConvarNames \ {"endpoint_add_udp"} : \E w \in WordsFor(k) :
           apply_typed([verb |-> "bare", key |-> k, val |-> w], w)

(* SecretHandle::parse: known providers, a bare name is one of env.        *)
apply_secret ==
    /\ Reading
    /\ \E k \in {"motd", "db_password"}, provider \in {"env", "vault", "bare", "unknown", "empty"} :
           \/ provider \in {"unknown", "empty"} /\ Rejects
           \/ /\ provider \notin {"unknown", "empty"}
              /\ Reads([verb |-> "set_secret", key |-> k, val |-> provider],
                       [norm EXCEPT !.secrets =
                            Put(norm.secrets, k, IF provider = "bare" THEN "env" ELSE provider)])

apply_resource ==
    /\ Reading
    /\ \E action \in {"ensure", "start", "stop", "restart"}, r \in CfgResources :
           LET d == [verb |-> action, key |-> r, val |-> ""] IN
           Reads(d, [norm EXCEPT !.resources = Append(norm.resources, d)])

(* remove_ace of an allow is a deny, and the other way round.              *)
apply_ace ==
    /\ Reading
    /\ \E verb \in {"add_ace", "remove_ace"}, grant \in {"allow", "deny", "maybe"} :
           \/ grant = "maybe" /\ Rejects
           \/ /\ grant # "maybe"
              /\ Reads([verb |-> verb, key |-> "ace", val |-> grant],
                       [norm EXCEPT !.aces = Append(norm.aces, (verb = "add_ace") <=> (grant = "allow"))])

apply_principal ==
    /\ Reading
    /\ \E verb \in {"add_principal", "remove_principal"} :
           Reads([verb |-> verb, key |-> "principal", val |-> ""],
                 [norm EXCEPT !.principals = Append(norm.principals, verb = "add_principal")])

apply_endpoint ==
    /\ Reading
    /\ \E verb \in {"endpoint_add_tcp", "endpoint_add_udp"} :
           LET addr == IF verb = "endpoint_add_tcp" THEN "addr2" ELSE "addr3" IN
           Reads([verb |-> verb, key |-> "endpoint", val |-> addr],
                 [norm EXCEPT !.endpoints = Append(norm.endpoints, addr)])

(* EnvProvider answers for every provider.                                 *)
EnvResolve(env) == IF env = "unset" THEN "error" ELSE env

cfg_validate(n, env) ==
    /\ n.max # 0 /\ n.max <= 1024
    /\ \A k \in DOMAIN n.convars : ~(n.convars[k].scope = "Public" /\ looks_secret(k))
    /\ \A k \in DOMAIN n.secrets :
           /\ k \in DOMAIN n.convars => n.convars[k].scope = "Local"
           /\ EnvResolve(env) # "empty"

(* from_document at the end of the text.  The environment is the one the   *)
(* process was started with; nothing looks at it before.                   *)
finish_reading ==
    /\ cfgStatus = "reading"
    /\ cfgEnv' \in IF DOMAIN norm.secrets = {} THEN {"unset"} ELSE {"unset", "empty", "value"}
    /\ cfgStatus' = IF cfg_validate(norm, cfgEnv') THEN "accepted" ELSE "error"
    /\ UNCHANGED <<norm, cfgLines, server, secretRead>>

(* Names in the order of their first occurrence.                           *)
Deduplicated(seq) == Selected(seq, {i \in DOMAIN seq : \A j \in 1..(i - 1) : seq[j] # seq[i]})

(* apply_normalized and Config::validate.                                  *)
apply_normalized ==
    /\ cfgStatus = "accepted"
    /\ LET started == Selected(norm.resources,
                              {i \in DOMAIN norm.resources : norm.resources[i].verb \in {"ensure", "start"}})
           bind == IF norm.endpoint # "unset" THEN norm.endpoint
                   ELSE IF norm.endpoints # <<>> THEN Head(norm.endpoints)
                   ELSE DefaultConfig.bind
       IN  \/ bind = "" /\ cfgStatus' = "refused" /\ UNCHANGED server
           \/ /\ bind # "" /\ cfgStatus' = "loaded"
              /\ server' = [max_players |-> IF norm.max = -1 THEN 64 ELSE norm.max,
                            bind |-> bind,
                            enabled |-> Deduplicated([i \in DOMAIN started |-> started[i].key])]
    /\ UNCHANGED <<norm, cfgLines, cfgEnv, secretRead>>

(* secret(): a late look at a secret of an accepted configuration.         *)
read_secret ==
    /\ cfgStatus \in {"accepted", "loaded"}
    /\ \E k \in {"motd", "db_password"} :
           secretRead' = IF k \notin DOMAIN norm.secrets THEN "error" ELSE EnvResolve(cfgEnv)
    /\ UNCHANGED <<norm, cfgLines, cfgEnv, cfgStatus, server>>

NormNext ==
    \/ set_line \/ bare_line \/ apply_secret \/ apply_resource \/ apply_ace
    \/ apply_principal \/ apply_endpoint \/ finish_reading \/ apply_normalized \/ read_secret

(* The last line that gives a name a value, and the first endpoint line.   *)
LastAbout(lines, key) ==
    LET is == {i \in DOMAIN lines : lines[i].key = key /\ lines[i].verb \in {"set", "setr", "sets", "bare"}}
    IN  IF is = {} THEN 0 ELSE Max(is)
FirstEndpoint(lines) ==
    LET is == {i \in DOMAIN lines : lines[i].verb \in {"endpoint_add_tcp", "endpoint_add_udp"}}
    IN  IF is = {} THEN 0 ELSE Min(is)

(* A configuration the server runs with is what its text says, in whatever *)
(* order and form the lines come: the last line about the player limit and *)
(* about the address counts, an endpoint line only without one, a resource *)
(* is enabled once if a line starts it; nothing public or replicated is    *)
(* also a secret, and a secret that is handed out is not empty.            *)
LoadedAsWritten ==
    /\ cfgStatus = "loaded" =>
         /\ LET i == LastAbout(cfgLines, "sv_maxclients") IN
            server.max_players = IF i = 0 THEN 64 ELSE parse_u32(cfgLines[i].val)
         /\ LET i == LastAbout(cfgLines, "sv_endpoint")
                first == FirstEndpoint(cfgLines)
            IN  server.bind = IF i # 0 THEN cfgLines[i].val
                              ELSE IF first # 0 THEN cfgLines[first].val ELSE "default"
         /\ IsInjective(server.enabled)
         /\ ToSet(server.enabled) = {r \in CfgResources : \E i \in DOMAIN cfgLines :
                cfgLines[i].key = r /\ cfgLines[i].verb \in {"ensure", "start"}}
    /\ cfgStatus \in {"accepted", "loaded"} =>
         \A i \in DOMAIN cfgLines :
             LET last == LastAbout(cfgLines, cfgLines[i].key) IN
             cfgLines[i].verb = "set_secret" /\ last # 0 => cfgLines[last].verb \in {"set", "bare"}
    /\ secretRead # "empty"

(* Claimed by a comment at apply_typed: in either form of a typed          *)
(* directive the value is read and never the key.  The names without a     *)
(* typed arm store their own name.                                         *)
ValueNeverKey == \A k \in DOMAIN norm.convars : norm.convars[k].val # k

-----------------------------------------------------------------------------
(* fxmanifest.lua: the parser with its one token of lookahead.  The open   *)
(* tables are a stack; literals are tokens, booleans the strings the lexer *)
(* makes of them.                                                          *)

VARIABLES tokens,           \* what the parser has taken (history)
          peeked,           \* the lookahead, <<>> or one token
          tables,           \* open tables, outermost first
          parsing,          \* where the parser stands
          manifest,         \* NormalizedManifest
          manifestStatus    \* "parsing", "ok" or the error

manifestVars == <<tokens, peeked, tables, parsing, manifest, manifestStatus>>

DirectiveNames == {"fx_version", "files", "shared_scripts", "data_file", "custom"}
Tok == [t : {"Ident"}, s : DirectiveNames] \cup [t : {"Str"}, s : {"a", "b", "__bool_true__"}]
       \cup [t : {"LBrace", "RBrace", "Assign", "Comma"}, s : {""}]
EndOfText == [t |-> "End", s |-> ""]

(* A value, flattened: the strings in it in order; shape tells a scalar    *)
(* from a table, seq a table whose keys are exactly 1..n, lead the number  *)
(* of strings it starts with.                                              *)
decode_literal(s) == [shape |-> IF s = "__bool_true__" THEN "bool" ELSE "str",
                      strs |-> <<s>>, seq |-> FALSE, flat |-> TRUE, lead |-> 0]

ManifestInit ==
    /\ tokens = <<>> /\ peeked = <<>> /\ tables = <<>>
    /\ parsing = [at |-> "name", name |-> "", folded |-> FALSE, label |-> <<>>]
    /\ manifest = [fx_version |-> FALSE, files |-> <<>>, shared |-> <<>>, data_files |-> <<>>, custom |-> <<>>,
                   directives |-> <<>>]
    /\ manifestStatus = "parsing"

(* External: the next token of the text, or its end.                       *)
lex ==
    /\ manifestStatus = "parsing" /\ peeked = <<>>
    /\ \E tok \in Tok \cup {EndOfText} :
           /\ tok # EndOfText => Len(tokens) < MaxTokens
           /\ peeked' = <<tok>>
    /\ UNCHANGED <<tokens, tables, parsing, manifest, manifestStatus>>

(* The parser takes the token it has seen.                                 *)
take_token == peeked' = <<>> /\ tokens' = Append(tokens, peeked[1])

Sees(kind) == manifestStatus = "parsing" /\ peeked # <<>> /\ peeked[1].t = kind
SyntaxError ==
    /\ manifestStatus' = "Syntax"
    /\ UNCHANGED <<tokens, peeked, tables, parsing, manifest>>

At(place) == [parsing EXCEPT !.at = place]

(* A directive starts with a name; "=" after it may be left out.           *)
manifest_name ==
    /\ parsing.at = "name" /\ manifestStatus = "parsing" /\ peeked # <<>>
    /\ \/ /\ Sees("Ident")
          /\ parsing' = [at |-> "assign", name |-> peeked[1].s, folded |-> FALSE, label |-> <<>>]
          /\ take_token
          /\ UNCHANGED <<tables, manifest, manifestStatus>>
       \/ /\ Sees("End")
          /\ manifestStatus' = IF manifest.fx_version THEN "ok" ELSE "MissingRequired"
          /\ UNCHANGED <<tokens, peeked, tables, parsing, manifest>>
       \/ ~Sees("Ident") /\ ~Sees("End") /\ SyntaxError

optional_assign ==
    /\ parsing.at = "assign" /\ manifestStatus = "parsing" /\ peeked # <<>>
    /\ IF Sees("Assign") THEN take_token ELSE UNCHANGED <<peeked, tokens>>
    /\ parsing' = At("value")
    /\ UNCHANGED <<tables, manifest, manifestStatus>>

(* coerce_string_list: a scalar string, or a sequence of scalars.          *)
coerce_string_list(v) == [ok |-> v.shape = "str" \/ (v.seq /\ v.flat), list |-> v.strs]

(* classify and apply.                                                     *)
apply_manifest(v) ==
    LET m == [manifest EXCEPT !.directives = Append(manifest.directives, parsing.name)]
        list == coerce_string_list(v)
        Done(m2) == /\ manifest' = m2 /\ parsing' = At("name") /\ UNCHANGED manifestStatus
        Invalid == manifestStatus' = "InvalidValue" /\ manifest' = m /\ UNCHANGED parsing
    IN  CASE parsing.name = "fx_version" -> Done([m EXCEPT !.fx_version = v.shape = "str"])
          [] parsing.name = "files" ->
                 IF list.ok THEN Done([m EXCEPT !.files = manifest.files \o list.list]) ELSE Invalid
          [] parsing.name = "shared_scripts" ->
                 IF list.ok THEN Done([m EXCEPT !.shared = manifest.shared \o list.list]) ELSE Invalid
          [] parsing.name = "data_file" ->
                 IF v.shape = "table" /\ v.lead >= 2
                 THEN Done([m EXCEPT !.data_files = Append(manifest.data_files, v.strs[2])]) ELSE Invalid
          [] OTHER -> Done([m EXCEPT !.custom = manifest.custom \o v.strs])

(* A complete value goes to the innermost open table, or to the directive; *)
(* a string there waits for a table to be folded with.                     *)
Deliver(v, open) ==
    IF open = <<>>
    THEN /\ tables' = <<>>
         /\ IF v.shape = "str" /\ ~parsing.folded
            THEN parsing' = [At("fold") EXCEPT !.label = v.strs] /\ UNCHANGED <<manifest, manifestStatus>>
            ELSE apply_manifest(IF ~parsing.folded THEN v
                                ELSE [shape |-> "table", strs |-> parsing.label \o v.strs,
                                      seq |-> TRUE, flat |-> FALSE, lead |-> 1])
    ELSE LET top == Last(open)
             keyed == top.key # ""
         IN /\ tables' = Append(Front(open),
                   [strs |-> top.strs \o v.strs, key |-> "", size |-> top.size + 1,
                    lead |-> IF top.lead = top.size /\ v.shape = "str" THEN top.lead + 1 ELSE top.lead,
                    seq |-> top.seq /\ ~keyed, flat |-> top.flat /\ v.shape # "table"])
            /\ parsing' = At("separator")
            /\ UNCHANGED <<manifest, manifestStatus>>

parse_value ==
    /\ parsing.at = "value" /\ manifestStatus = "parsing" /\ peeked # <<>>
    /\ \/ /\ Sees("Str") /\ take_token
          /\ Deliver(decode_literal(peeked[1].s), tables)
       \/ /\ Sees("LBrace") /\ take_token
          /\ tables' = Append(tables, [strs |-> <<>>, key |-> "", size |-> 0, lead |-> 0, seq |-> TRUE, flat |-> TRUE])
          /\ parsing' = At("entry")
          /\ UNCHANGED <<manifest, manifestStatus>>
       \/ ~Sees("Str") /\ ~Sees("LBrace") /\ SyntaxError

(* After a label: a table belongs to the same directive, anything else is  *)
(* left to the next one.                                                   *)
fold_label ==
    /\ parsing.at = "fold" /\ manifestStatus = "parsing" /\ peeked # <<>>
    /\ \/ /\ Sees("LBrace")
          /\ parsing' = [At("value") EXCEPT !.folded = TRUE]
          /\ UNCHANGED <<tokens, peeked, tables, manifest, manifestStatus>>
       \/ /\ ~Sees("LBrace")
          /\ apply_manifest([shape |-> "str", strs |-> parsing.label, seq |-> FALSE, flat |-> TRUE, lead |-> 0])
          /\ UNCHANGED <<tokens, peeked, tables>>

CloseTable ==
    LET top == Last(tables) IN
    /\ take_token
    /\ Deliver([shape |-> "table", strs |-> top.strs, seq |-> top.seq, flat |-> top.flat, lead |-> top.lead], Front(tables))

(* Where an entry may start: commas are skipped, a name must be a key.     *)
table_entry ==
    /\ parsing.at = "entry" /\ manifestStatus = "parsing" /\ peeked # <<>>
    /\ \/ /\ Sees("Comma") /\ take_token
          /\ UNCHANGED <<tables, parsing, manifest, manifestStatus>>
       \/ Sees("RBrace") /\ CloseTable
       \/ /\ Sees("Ident") /\ take_token
          /\ tables' = Append(Front(tables), [Last(tables) EXCEPT !.key = peeked[1].s])
          /\ parsing' = At("key")
          /\ UNCHANGED <<manifest, manifestStatus>>
       \/ /\ ~Sees("Comma") /\ ~Sees("RBrace") /\ ~Sees("Ident")
          /\ parsing' = At("value")
          /\ UNCHANGED <<tokens, peeked, tables, manifest, manifestStatus>>

table_key ==
    /\ parsing.at = "key" /\ manifestStatus = "parsing" /\ peeked # <<>>
    /\ \/ /\ Sees("Assign") /\ take_token /\ parsing' = At("value")
          /\ UNCHANGED <<tables, manifest, manifestStatus>>
       \/ ~Sees("Assign") /\ SyntaxError

table_separator ==
    /\ parsing.at = "separator" /\ manifestStatus = "parsing" /\ peeked # <<>>
    /\ \/ /\ Sees("Comma") /\ take_token /\ parsing' = At("entry")
          /\ UNCHANGED <<tables, manifest, manifestStatus>>
       \/ Sees("RBrace") /\ CloseTable
       \/ ~Sees("Comma") /\ ~Sees("RBrace") /\ SyntaxError

ManifestNext ==
    \/ lex \/ manifest_name \/ optional_assign \/ parse_value \/ fold_label
    \/ table_entry \/ table_key \/ table_separator

(* Every file the resource declares, once.                                 *)
all_files == Deduplicated(manifest.files \o manifest.data_files \o manifest.shared \o manifest.shared)

(* How many tables are open after n tokens, the names outside of any, and  *)
(* the strings of the directives of one name, which are those behind such  *)
(* a name and before the next.                                             *)
Depth(toks, n) ==
    SumTo(n, [k \in 1..n |-> IF toks[k].t = "LBrace" THEN 1 ELSE IF toks[k].t = "RBrace" THEN -1 ELSE 0])
TopNames(toks) == {n \in DOMAIN toks : toks[n].t = "Ident" /\ Depth(toks, n) = 0}
Belongs(toks, n, name) ==
    \E m \in 1..n : /\ m \in TopNames(toks) /\ toks[m].s = name
                    /\ \A k \in (m + 1)..n : k \notin TopNames(toks)
Words(toks) == [i \in DOMAIN toks |-> toks[i].s]
Declared(toks, name) ==
    Words(Selected(toks, {n \in DOMAIN toks : toks[n].t = "Str" /\ Belongs(toks, n, name)}))

(* A manifest that is accepted loses and reorders nothing: its braces      *)
(* match, it has one directive for each name outside a table, the lists    *)
(* and the unknown entries hold exactly the strings of their directives in *)
(* order, and each declared file is served once.                           *)
ManifestComplete ==
    manifestStatus = "ok" =>
        /\ \A n \in DOMAIN tokens : Depth(tokens, n) >= 0
        /\ Depth(tokens, Len(tokens)) = 0 /\ tables = <<>>
        /\ manifest.directives = Words(Selected(tokens, TopNames(tokens)))
        /\ manifest.files = Declared(tokens, "files")
        /\ manifest.shared = Declared(tokens, "shared_scripts")
        /\ manifest.custom = Declared(tokens, "custom")
        /\ IsInjective(all_files)
        /\ ToSet(all_files) = ToSet(manifest.files) \cup ToSet(manifest.data_files) \cup ToSet(manifest.shared)

(* Claimed by a comment in apply: `data_file` accepts two strings on one   *)
(* line.  It does not: only a table is folded to a string before it.       *)
TwoScalarsAccepted ==
    manifestStatus = "InvalidValue" /\ parsing.name = "data_file" /\ Len(tokens) >= 2 =>
        LET n == Len(tokens) IN
        ~(/\ tokens[n - 1] = [t |-> "Ident", s |-> "data_file"]
          /\ tokens[n].t = "Str" /\ peeked[1].t = "Str")

(* What the operator wrote is what the server runs with: includes are      *)
(* expanded exactly within the depth limit, server.cfg's lines have their  *)
(* effect in any order and form, and an accepted manifest loses and        *)
(* reorders nothing.                                                       *)
ConfigSound == IncludesExact /\ LoadedAsWritten /\ ManifestComplete

=============================================================================
